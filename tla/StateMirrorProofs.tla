------------------------- MODULE StateMirrorProofs -------------------------
(***************************************************************************)
(* Theorems about StateMirror, for any number of goroutines and timers,    *)
(* any sequence of topics and any AlertTTL.  What depends on how long an   *)
(* alert lasts assumes that no message is dated in the future: the ages in *)
(* Ages are natural numbers.                                               *)
(***************************************************************************)
EXTENDS StateMirror, TLAPS

\* A goroutine that is sending is at a topic, and starts from the first.
WorkInv ==
    /\ \A a \in Actors : at[a] = "sending" => pos[a] \in 1..Len(Topics)
    /\ \A a \in Actors : ~Publishing(a) => pos[a] = 1
    /\ \A m \in Timers : ~hasAlert[m] /\ at[m] # "scheduling"

\* An alert is not younger than new.
AgeInv == \A t \in Alerts : age[t] >= 0

\* A message may be dated in the future: its alert outlives the timer it starts.
Future == ~(Ages \subseteq Nat)

\* Somebody will take a snapshot without any further update of the state, unless there
\* are alerts nobody waits for.
WillTell ==
    \/ Future
    \/ \E m \in Timers : left[m] # Off
    \/ \E g \in Goroutines : hasAlert[g]
    \/ \E a \in Actors : at[a] \in {"fired", "notified"}

\* Values, recorded or about to be, that show the state.
Fresh(values) ==
    \A t \in TopicSet :
        \/ values[t] = state[t]
        \/ t \in Alerts /\ state[t] = "false" /\ WillTell

OnePublisher == \A a, b \in Actors : Publishing(a) /\ Publishing(b) => a = b

\* What was recorded was sent, or is what the publisher is sending.
RecordedIsSent ==
    \A t \in TopicSet :
        \/ lastPub[t] = retained[t]
        \/ \E a \in Actors : at[a] = "sending" /\ Topics[pos[a]] = t

\* A publisher has recorded its snapshot as far as it has come.
SnapshotIsRecorded ==
    \A a \in Actors : Publishing(a) =>
        /\ \A i \in 1..Len(Topics) : i < pos[a] => lastPub[Topics[i]] = snap[a][Topics[i]]
        /\ at[a] = "sending" => lastPub[Topics[pos[a]]] = snap[a][Topics[pos[a]]]

\* Unless a notification has still to take its snapshot, the last one shows the
\* state.
SnapshotIsFresh ==
    \/ \E a \in Actors : at[a] = "notified"
    \/ \E a \in Actors : Publishing(a) /\ Fresh(snap[a])
    \/ (\A a \in Actors : ~Publishing(a)) /\ Fresh(lastPub)

MirrorInv ==
    ~raced /\ ~lost =>
        OnePublisher /\ RecordedIsSent /\ SnapshotIsRecorded /\ SnapshotIsFresh

IInv ==
    /\ TypeOK /\ WorkInv /\ MirrorInv
    /\ Future \/ (AgeInv /\ AlertWillEnd)
-----------------------------------------------------------------------------
USE NoneAssumption, ActorsAssumption, TTLAssumption

\* Topics are numbered, and alerts are topics.
LEMMA TopicFacts ==
    /\ Len(Topics) \in Nat
    /\ \A i \in 1..Len(Topics) : Topics[i] \in TopicSet
    /\ Alerts \subseteq TopicSet
  BY TopicsAssumption DEF TopicSet, Alerts

\* The publisher starts with no value.
LEMMA BlankContent == Blank \in Content
  BY DEF Blank, Content

\* Snapshot keeps the type of the state.
LEMMA ClearedContent ==
    ASSUME state \in Content PROVE Cleared \in Content
  BY DEF Cleared, Content, Flags

\* The initial states satisfy the invariant.
LEMMA InitInv == Init => IInv
  <1> SUFFICES ASSUME Init PROVE IInv
    OBVIOUS
  <1>1. TypeOK
    <2>1. state \in Content
      BY DEF Init, Content, Flags
    <2>2. at \in [Actors -> {"idle", "fired", "notified", "publishing", "sending",
                             "scheduling"}]
      BY DEF Init
    <2> QED
      <3>1. Off \in 0..Off /\ 1 \in 1..(Len(Topics) + 1)
        BY TopicFacts DEF Off
      <3>2. age \in [Alerts -> Int] /\ \A t \in Alerts : age[t] <= TTL + 1
        BY DEF Init
      <3>3. /\ snap \in [Actors -> Content] /\ pos \in [Actors -> 1..(Len(Topics) + 1)]
            /\ left \in [Timers -> 0..Off] /\ lastPub \in Content /\ retained \in Content
        BY <3>1, BlankContent DEF Init
      <3> QED
        BY <2>1, <2>2, <3>2, <3>3 DEF Init, TypeOK
  <1>2. WorkInv
    <2>1. \A a \in Actors : at[a] \in {"notified", "idle"} /\ ~hasAlert[a]
      BY DEF Init
    <2>a. \A a \in Actors : pos[a] = 1
      BY DEF Init
    <2> QED
      BY <2>1, <2>a DEF WorkInv, Actors
  <1>3. AgeInv
    BY DEF Init, AgeInv
  <1>4. AlertWillEnd
    BY TopicFacts DEF Init, AlertWillEnd, Alerts
  <1>5. MirrorInv
    <2>1. \A a \in Actors : ~Publishing(a)
      BY DEF Init, Publishing
    <2>2. \E a \in Actors : at[a] = "notified"
      BY DEF Init, Actors
    <2>3. lastPub = retained
      BY DEF Init
    <2> QED
      BY <2>1, <2>2, <2>3 DEF MirrorInv, OnePublisher, RecordedIsSent,
         SnapshotIsRecorded, SnapshotIsFresh
  <1> QED
    BY <1>1, <1>2, <1>3, <1>4, <1>5 DEF IInv

\* Every step keeps the types, and the local variables of the goroutines to where they are.
LEMMA TypeStep == TypeOK /\ WorkInv /\ [Next]_vars => TypeOK' /\ WorkInv'
  <1> SUFFICES ASSUME TypeOK, WorkInv, [Next]_vars
               PROVE  TypeOK' /\ WorkInv'
    OBVIOUS
  <1> USE TopicFacts DEF TypeOK, WorkInv, Publishing
  <1>1. ASSUME NEW g \in Goroutines, NEW t \in Alerts, NEW a \in Ages, RaiseAlert(g, t, a)
        PROVE  TypeOK' /\ WorkInv'
    <2>1. [state EXCEPT ![t] = "true"] \in Content
      BY DEF Content, Flags
    <2>2. a \in Int /\ a <= TTL + 1
      BY AgesAssumption
    <2> QED
      BY <1>1, <2>1, <2>2 DEF RaiseAlert, Update, timers, broker, AlertIn, Actors
  <1>2. ASSUME NEW g \in Goroutines, EndCry(g)
        PROVE  TypeOK' /\ WorkInv'
    <2>1. [state EXCEPT !["cry_detected"] = "false"] \in Content
      BY DEF Content, Flags
    <2> QED
      BY <1>2, <2>1 DEF EndCry, Update, timers, broker, AlertIn, Actors
  <1>3. ASSUME NEW g \in Goroutines, NEW t \in Plain, NEW v \in Values, SetValue(g, t, v)
        PROVE  TypeOK' /\ WorkInv'
    <2>1. [state EXCEPT ![t] = v] \in Content
      BY DEF Content, Flags, Plain
    <2> QED
      BY <1>3, <2>1 DEF SetValue, Update, timers, broker, AlertIn, Actors
  <1>4. ASSUME NEW g \in Goroutines, ScheduleClear(g)
        PROVE  TypeOK' /\ WorkInv'
    <2>1. TTL + 1 \in 0..Off
      BY DEF Off
    <2>2. left' \in [Timers -> 0..Off] /\ alertTimer' \in Timers \cup {None}
      BY <1>4, <2>1 DEF ScheduleClear, Restarted
    <2> QED
      BY <1>4, <2>2 DEF ScheduleClear, broker, Actors
  <1>5. CASE TimePasses
    <2>1. left' \in [Timers -> 0..Off]
      BY <1>5 DEF TimePasses, Off
    <2>2. /\ age' \in [Alerts -> Int]
          /\ \A t \in Alerts : age'[t] <= TTL + 1
      BY <1>5 DEF TimePasses
    <2> QED
      BY <1>5, <2>1, <2>2 DEF TimePasses, work, broker
  <1>6. ASSUME NEW m \in Timers, Fire(m)
        PROVE  TypeOK' /\ WorkInv'
    <2>1. Off \in 0..Off
      BY DEF Off
    <2> QED
      BY <1>6, <2>1 DEF Fire, broker, Actors
  <1>7. ASSUME NEW m \in Timers, TimerFunc(m)
        PROVE  TypeOK' /\ WorkInv'
    BY <1>7 DEF TimerFunc, broker, Actors
  <1>8. CASE Look
    <2>1. /\ age' \in [Alerts -> Int]
          /\ \A t \in Alerts : age'[t] <= TTL + 1
      BY <1>8 DEF Look, TakeSnapshot
    <2> QED
      BY <1>8, <2>1, ClearedContent DEF Look, TakeSnapshot, work, timers, broker
  <1>9. ASSUME NEW a \in Actors, BeginPublish(a)
        PROVE  TypeOK' /\ WorkInv'
    <2>1. /\ age' \in [Alerts -> Int]
          /\ \A t \in Alerts : age'[t] <= TTL + 1
      BY <1>9 DEF BeginPublish, TakeSnapshot
    <2>2. raced' \in BOOLEAN
      BY <1>9 DEF BeginPublish
    <2> QED
      BY <1>9, <2>1, <2>2, ClearedContent DEF BeginPublish, TakeSnapshot, timers, broker, Actors
  <1>10. ASSUME NEW a \in Actors, Same(a)
         PROVE  TypeOK' /\ WorkInv'
    BY <1>10 DEF Same, timers, broker
  <1>11. ASSUME NEW a \in Actors, Record(a)
         PROVE  TypeOK' /\ WorkInv'
    <2>1. lastPub' \in Content
      BY <1>11 DEF Record, Content
    <2> QED
      BY <1>11, <2>1 DEF Record, timers, Actors
  <1>12. ASSUME NEW a \in Actors, SendValue(a)
         PROVE  TypeOK' /\ WorkInv'
    <2>1. retained' \in Content
      BY <1>12 DEF SendValue, Content
    <2>2. lost' \in BOOLEAN
      BY <1>12 DEF SendValue
    <2> QED
      BY <1>12, <2>1, <2>2 DEF SendValue, timers, Actors
  <1>13. ASSUME NEW a \in Actors, EndPublish(a)
         PROVE  TypeOK' /\ WorkInv'
    BY <1>13, BlankContent DEF EndPublish, AfterPublish, timers, broker, Actors
  <1>14. CASE LinkChanges
    BY <1>14 DEF LinkChanges, work, timers
  <1>15. CASE UNCHANGED vars
    BY <1>15 DEF vars, work, timers, broker
  <1> QED
    BY <1>1, <1>2, <1>3, <1>4, <1>5, <1>6, <1>7, <1>8, <1>9, <1>10, <1>11, <1>12,
       <1>13, <1>14, <1>15 DEF Next, Change, Publish

\* No step makes an alert younger than new, if no message is dated in the future.
LEMMA AgeStep ==
    ASSUME Ages \subseteq Nat
    PROVE  TypeOK /\ AgeInv /\ [Next]_vars => AgeInv'
  <1> SUFFICES ASSUME Ages \subseteq Nat, TypeOK, AgeInv, [Next]_vars PROVE AgeInv'
    OBVIOUS
  <1>1. ASSUME NEW g \in Goroutines, NEW t \in Alerts, NEW a \in Ages, RaiseAlert(g, t, a)
        PROVE  AgeInv'
    BY <1>1 DEF RaiseAlert, TypeOK, AgeInv
  <1>2. ASSUME TakeSnapshot PROVE AgeInv'
    BY <1>2 DEF TakeSnapshot, TypeOK, AgeInv
  <1>3. CASE TimePasses
    BY <1>3 DEF TimePasses, TypeOK, AgeInv
  <1>4. ASSUME UNCHANGED age PROVE AgeInv'
    BY <1>4 DEF AgeInv
  <1>5. CASE \E g \in Goroutines : Change(g) \/ ScheduleClear(g)
    BY <1>1, <1>4, <1>5 DEF Change, EndCry, SetValue, ScheduleClear
  <1>6. CASE \E a \in Actors : Publish(a)
    BY <1>2, <1>4, <1>6 DEF Publish, BeginPublish, Same, Record, SendValue, EndPublish
  <1>7. CASE \E t \in Timers : Fire(t) \/ TimerFunc(t)
    BY <1>4, <1>7 DEF Fire, TimerFunc
  <1>8. CASE Look \/ LinkChanges \/ UNCHANGED vars
    BY <1>2, <1>4, <1>8 DEF Look, LinkChanges, vars
  <1> QED
    BY <1>3, <1>5, <1>6, <1>7, <1>8 DEF Next

\* Snapshots end the alerts that have expired and leave the others as they are.
LEMMA SnapshotKeepsYoung ==
    ASSUME TypeOK, TakeSnapshot, NEW t \in Alerts, state'[t] = "true"
    PROVE  state[t] = "true" /\ age'[t] = age[t] /\ age[t] <= TTL
  BY TopicFacts DEF TakeSnapshot, Cleared, Expired, TypeOK

\* No step leaves an alert without a timer that will end it.
LEMMA AlertStep ==
    ASSUME Ages \subseteq Nat
    PROVE  TypeOK /\ WorkInv /\ AgeInv /\ AlertWillEnd /\ [Next]_vars => AlertWillEnd'
  <1> SUFFICES ASSUME Ages \subseteq Nat, TypeOK, WorkInv, AgeInv, AlertWillEnd, [Next]_vars,
                      NEW t \in Alerts, state'[t] = "true"
               PROVE  \/ TimerCovers(t)'
                      \/ \E g \in Goroutines : hasAlert'[g]
                      \/ age'[t] > TTL /\ \E a \in Actors : at'[a] \in {"fired", "notified"}
    BY DEF AlertWillEnd
  <1> DEFINE Covered == \E m \in Timers : left[m] # Off /\ left[m] + age[t] > TTL
             Scheduling == \E g \in Goroutines : hasAlert[g]
             Snapping == age[t] > TTL /\ \E a \in Actors : at[a] \in {"fired", "notified"}
  <1> SUFFICES Covered' \/ Scheduling' \/ Snapping'
    BY DEF TimerCovers
  <1>a. state[t] = "true" => Covered \/ Scheduling \/ Snapping
    BY DEF AlertWillEnd, TimerCovers
  <1> USE TopicFacts DEF TypeOK, WorkInv
  <1>b. ASSUME state[t] = "true", age' = age, left' = left,
               \A g \in Goroutines : hasAlert[g] => hasAlert'[g],
               \A a \in Actors : at[a] \in {"fired", "notified"} =>
                                    at'[a] \in {"fired", "notified"}
        PROVE  Covered' \/ Scheduling' \/ Snapping'
    <2>1. CASE Covered
      BY <1>b, <2>1
    <2>2. CASE Scheduling
      BY <1>b, <2>2
    <2>3. CASE Snapping
      BY <1>b, <2>3
    <2> QED
      BY <1>a, <1>b, <2>1, <2>2, <2>3
  <1>c. ASSUME NEW g \in Goroutines, at[g] = "idle", NEW b,
               at' = [at EXCEPT ![g] = "notified"], hasAlert' = [hasAlert EXCEPT ![g] = b]
        PROVE  /\ \A h \in Goroutines : hasAlert[h] => hasAlert'[h]
               /\ \A a \in Actors : at[a] \in {"fired", "notified"} =>
                                       at'[a] \in {"fired", "notified"}
    <2>1. ~hasAlert[g]
      BY <1>c DEF Actors
    <2> QED
      BY <1>c, <2>1 DEF Actors
  <1>1. ASSUME NEW g \in Goroutines, NEW x \in Alerts, NEW a \in Ages, RaiseAlert(g, x, a)
        PROVE  Scheduling'
    BY <1>1 DEF RaiseAlert, Update, AlertIn, Actors, Content
  <1>3. ASSUME NEW g \in Goroutines, EndCry(g)
        PROVE  Covered' \/ Scheduling' \/ Snapping'
    <2>1. state[t] = "true" /\ age' = age /\ left' = left
      BY <1>3 DEF EndCry, Update, Content, timers
    <2>2. /\ at[g] = "idle" /\ at' = [at EXCEPT ![g] = "notified"]
          /\ \E b : hasAlert' = [hasAlert EXCEPT ![g] = b]
      BY <1>3 DEF EndCry, Update
    <2> QED
      BY <1>b, <1>c, <2>1, <2>2
  <1>4. ASSUME NEW g \in Goroutines, NEW x \in Plain, NEW v \in Values, SetValue(g, x, v)
        PROVE  Covered' \/ Scheduling' \/ Snapping'
    <2>1. state[t] = "true" /\ age' = age /\ left' = left
      BY <1>4 DEF SetValue, Update, Content, Plain, Alerts, timers
    <2>2. /\ at[g] = "idle" /\ at' = [at EXCEPT ![g] = "notified"]
          /\ \E b : hasAlert' = [hasAlert EXCEPT ![g] = b]
      BY <1>4 DEF SetValue, Update
    <2> QED
      BY <1>b, <1>c, <2>1, <2>2
  <1>5. ASSUME NEW g \in Goroutines, ScheduleClear(g)
        PROVE  Covered'
    <2>1. PICK m \in Timers : left'[m] = TTL + 1
      BY <1>5 DEF ScheduleClear, Restarted
    <2>2. age' = age
      BY <1>5 DEF ScheduleClear
    <2>3. left'[m] # Off /\ left'[m] + age'[t] > TTL
      BY <2>1, <2>2 DEF Off, AgeInv
    <2> QED
      BY <2>3
  <1>6. CASE TimePasses
    <2>1. state' = state /\ at' = at /\ hasAlert' = hasAlert
      BY <1>6 DEF TimePasses, work
    <2>2. /\ age'[t] \in Int /\ age[t] \in Int
          /\ age'[t] >= age[t] /\ (age[t] <= TTL => age'[t] = age[t] + 1)
      BY <1>6, <2>1 DEF TimePasses
    <2>3. CASE Covered
      <3>1. PICK m \in Timers : left[m] # Off /\ left[m] + age[t] > TTL
        BY <2>3
      <3>2. /\ left'[m] \in Nat /\ left[m] \in Nat /\ left'[m] # Off
            /\ left'[m] >= left[m] - 1
        BY <1>6, <3>1 DEF TimePasses, Off
      <3>3. left'[m] + age'[t] > TTL
        BY <2>2, <3>1, <3>2
      <3> QED
        BY <3>2, <3>3
    <2>4. CASE Scheduling
      BY <2>1, <2>4
    <2>5. CASE Snapping
      BY <2>1, <2>2, <2>5
    <2> QED
      BY <1>a, <2>1, <2>3, <2>4, <2>5
  <1>7. ASSUME NEW m \in Timers, Fire(m)
        PROVE  Covered' \/ Scheduling' \/ Snapping'
    <2>1. state' = state /\ age' = age /\ hasAlert' = hasAlert
      BY <1>7 DEF Fire
    <2>2. \A a \in Actors : at[a] \in {"fired", "notified"} => at'[a] \in {"fired", "notified"}
      BY <1>7 DEF Fire
    <2>3. m \in Actors /\ at'[m] = "fired" /\ left[m] = 0
      BY <1>7 DEF Fire, Actors
    <2>4. \A n \in Timers : n # m => left'[n] = left[n]
      BY <1>7 DEF Fire
    <2>5. CASE Covered
      <3>1. PICK n \in Timers : left[n] # Off /\ left[n] + age[t] > TTL
        BY <2>5
      <3>2. CASE n = m
        BY <2>1, <2>3, <3>1, <3>2
      <3>3. CASE n # m
        BY <2>1, <2>4, <3>1, <3>3
      <3> QED
        BY <3>2, <3>3
    <2>6. CASE Scheduling
      BY <2>1, <2>6
    <2>7. CASE Snapping
      BY <2>1, <2>2, <2>7
    <2> QED
      BY <1>a, <2>1, <2>5, <2>6, <2>7
  <1>8. ASSUME NEW m \in Timers, TimerFunc(m)
        PROVE  Covered' \/ Scheduling' \/ Snapping'
    <2>1. state' = state /\ age' = age /\ hasAlert' = hasAlert /\ left' = left
      BY <1>8 DEF TimerFunc
    <2>2. \A a \in Actors : at[a] \in {"fired", "notified"} => at'[a] \in {"fired", "notified"}
      BY <1>8 DEF TimerFunc
    <2> QED
      BY <1>b, <2>1, <2>2
  <1>9. ASSUME TakeSnapshot, UNCHANGED <<hasAlert, left>>
        PROVE  Covered' \/ Scheduling'
    <2>1. state[t] = "true" /\ age'[t] = age[t] /\ age[t] <= TTL
      BY <1>9, SnapshotKeepsYoung
    <2>2. ~Snapping
      BY <2>1
    <2>3. CASE Covered
      BY <1>9, <2>1, <2>3
    <2>4. CASE Scheduling
      BY <1>9, <2>4
    <2> QED
      BY <1>a, <2>1, <2>2, <2>3, <2>4
  <1>11. ASSUME NEW a \in Actors, Same(a) \/ Record(a) \/ SendValue(a) \/ EndPublish(a)
         PROVE  Covered' \/ Scheduling' \/ Snapping'
    <2>1. /\ state' = state /\ age' = age /\ hasAlert' = hasAlert /\ left' = left
          /\ \A b \in Actors : at[b] \in {"fired", "notified"} => at'[b] \in {"fired", "notified"}
      BY <1>11 DEF Same, Record, SendValue, EndPublish, timers
    <2> QED
      BY <1>b, <2>1
  <1>12. CASE LinkChanges \/ UNCHANGED vars
    BY <1>b, <1>12 DEF LinkChanges, vars, work, timers
  <1>13. ASSUME NEW a \in Actors, BeginPublish(a)
         PROVE  Covered' \/ Scheduling'
    BY <1>9, <1>13 DEF BeginPublish, timers
  <1>14. CASE Look
    BY <1>9, <1>14 DEF Look, work, timers
  <1> QED
    BY <1>1, <1>3, <1>4, <1>5, <1>6, <1>7, <1>8, <1>11, <1>12,
       <1>13, <1>14 DEF Next, Change, Publish

\* A value that showed the state shows what a snapshot leaves of it: somebody
\* will tell of an alert that has ended.
LEMMA LookStaysFresh ==
    ASSUME TypeOK, WorkInv, Future \/ AlertWillEnd, TakeSnapshot, UNCHANGED <<work, timers>>,
           NEW t \in TopicSet, NEW v,
           v = state[t] \/ (t \in Alerts /\ state[t] = "false" /\ WillTell)
    PROVE  v = state'[t] \/ (t \in Alerts /\ state'[t] = "false" /\ WillTell')
  <1>1. WillTell' <=> WillTell
    BY DEF WillTell, work, timers
  <1>2. CASE state'[t] = state[t]
    BY <1>1, <1>2
  <1>3. CASE state'[t] # state[t]
    <2>1. t \in Alerts /\ state[t] = "true" /\ state'[t] = "false"
      BY <1>3 DEF TakeSnapshot, Cleared, Expired
    <2>2. WillTell
      BY <2>1 DEF AlertWillEnd, TimerCovers, WillTell
    <2> QED
      BY <1>1, <2>1, <2>2
  <1> QED
    BY <1>2, <1>3

\* An overlap or a loss is never forgotten.
LEMMA HistoryStays == [Next]_vars => (raced => raced') /\ (lost => lost')
  <1>1. [Next]_vars => (raced => raced')
    BY DEF Next, Change, Publish, RaiseAlert, EndCry, SetValue, Update, ScheduleClear,
       Fire, TimerFunc, TimePasses, Look, LinkChanges, BeginPublish, Same, Record,
       SendValue, EndPublish, vars
  <1>2. [Next]_vars => (lost => lost')
    BY DEF Next, Change, Publish, RaiseAlert, EndCry, SetValue, Update, ScheduleClear,
       Fire, TimerFunc, TimePasses, Look, LinkChanges, BeginPublish, Same, Record,
       SendValue, EndPublish, vars, broker
  <1> QED
    BY <1>1, <1>2

\* Every step keeps what publisher and broker know of the state in line with it.
LEMMA MirrorStep ==
    TypeOK /\ WorkInv /\ (Future \/ AlertWillEnd) /\ MirrorInv /\ [Next]_vars => MirrorInv'
  <1> SUFFICES ASSUME TypeOK, WorkInv, Future \/ AlertWillEnd, MirrorInv, [Next]_vars,
                      ~raced', ~lost'
               PROVE  /\ OnePublisher' /\ RecordedIsSent'
                      /\ SnapshotIsRecorded' /\ SnapshotIsFresh'
    BY DEF MirrorInv
  <1> DEFINE Goal == /\ OnePublisher' /\ RecordedIsSent'
                     /\ SnapshotIsRecorded' /\ SnapshotIsFresh'
  <1> SUFFICES Goal
    OBVIOUS
  <1> HIDE DEF Goal
  <1> USE TopicFacts
  <1>a. OnePublisher /\ RecordedIsSent /\ SnapshotIsRecorded /\ SnapshotIsFresh
    BY HistoryStays DEF MirrorInv
  <1>b. ASSUME UNCHANGED <<pos, snap, lastPub, retained>>,
               \A a \in Actors : at'[a] = at[a] \/ (~Publishing(a) /\ ~Publishing(a)'),
               SnapshotIsFresh'
        PROVE  Goal
    <2>1. \A a \in Actors : /\ Publishing(a)' <=> Publishing(a)
                            /\ at'[a] = "sending" <=> at[a] = "sending"
      BY <1>b DEF Publishing
    <2>2. OnePublisher'
      BY <1>a, <2>1 DEF OnePublisher
    <2>3. RecordedIsSent'
      BY <1>a, <1>b, <2>1 DEF RecordedIsSent
    <2>4. SnapshotIsRecorded'
      BY <1>a, <1>b, <2>1 DEF SnapshotIsRecorded
    <2> QED
      BY <1>b, <2>2, <2>3, <2>4 DEF Goal
  <1>c. ASSUME NEW g \in Goroutines, NEW new, NEW sensors, Update(g, new, sensors)
        PROVE  Goal
    <2>1. g \in Actors /\ at[g] = "idle" /\ at' = [at EXCEPT ![g] = "notified"]
      BY <1>c DEF Update, Actors
    <2>2. at'[g] = "notified"
      BY <2>1 DEF TypeOK
    <2>3. SnapshotIsFresh'
      BY <2>1, <2>2 DEF SnapshotIsFresh
    <2>4. \A a \in Actors : at'[a] = at[a] \/ (~Publishing(a) /\ ~Publishing(a)')
      BY <2>1 DEF TypeOK, Publishing
    <2> QED
      BY <1>b, <1>c, <2>3, <2>4 DEF Update, broker
  \* Steps that take no snapshot and leave every publisher where it is.
  <1>d. ASSUME UNCHANGED <<state, pos, snap, lastPub, retained>>,
               \A a \in Actors : at'[a] = at[a] \/ (~Publishing(a) /\ ~Publishing(a)'),
               \A a \in Actors : at[a] = "notified" => at'[a] = "notified",
               WillTell => WillTell'
        PROVE  Goal
    <2>1. \A a \in Actors : Publishing(a)' <=> Publishing(a)
      BY <1>d DEF Publishing
    <2>2. \A values : Fresh(values) => Fresh(values)'
      BY <1>d DEF Fresh
    <2>3. SnapshotIsFresh'
      <3>1. CASE \E a \in Actors : at[a] = "notified"
        BY <1>d, <3>1 DEF SnapshotIsFresh
      <3>2. CASE \E a \in Actors : Publishing(a) /\ Fresh(snap[a])
        <4>1. PICK a \in Actors : Publishing(a) /\ Fresh(snap[a])
          BY <3>2
        <4>2. Publishing(a)' /\ Fresh(snap[a])'
          BY <1>d, <2>1, <2>2, <4>1 DEF Fresh
        <4> QED
          BY <4>2 DEF SnapshotIsFresh
      <3>3. CASE (\A a \in Actors : ~Publishing(a)) /\ Fresh(lastPub)
        <4>1. Fresh(lastPub)'
          BY <1>d, <3>3 DEF Fresh
        <4> QED
          BY <2>1, <3>3, <4>1 DEF SnapshotIsFresh
      <3> QED
        BY <1>a, <3>1, <3>2, <3>3 DEF SnapshotIsFresh
    <2> QED
      BY <1>b, <1>d, <2>3
  <1>1. ASSUME NEW g \in Goroutines, Change(g)
        PROVE  Goal
    BY <1>c, <1>1 DEF Change, RaiseAlert, EndCry, SetValue
  <1>2. ASSUME NEW g \in Goroutines, ScheduleClear(g)
        PROVE  Goal
    <2>1. \E m \in Timers : left'[m] = TTL + 1
      BY <1>2 DEF ScheduleClear, Restarted, TypeOK
    <2>2. WillTell'
      BY <2>1 DEF WillTell, Off
    <2>3. /\ \A a \in Actors : at'[a] = at[a] \/ (~Publishing(a) /\ ~Publishing(a)')
          /\ \A a \in Actors : at[a] = "notified" => at'[a] = "notified"
      BY <1>2 DEF ScheduleClear, Publishing, TypeOK
    <2> QED
      BY <1>2, <1>d, <2>2, <2>3 DEF ScheduleClear, broker
  <1>3. CASE TimePasses
    <2>1. \A m \in Timers : left[m] # Off => left'[m] # Off
      BY <1>3 DEF TimePasses, TypeOK, Off
    <2>2. WillTell => WillTell'
      BY <1>3, <2>1 DEF TimePasses, WillTell, work
    <2>3. UNCHANGED <<state, pos, snap, lastPub, retained>>
      BY <1>3 DEF TimePasses, work, broker
    <2>4. /\ \A a \in Actors : at'[a] = at[a] \/ (~Publishing(a) /\ ~Publishing(a)')
          /\ \A a \in Actors : at[a] = "notified" => at'[a] = "notified"
      BY <1>3 DEF TimePasses, work
    <2> QED
      BY <1>d, <2>2, <2>3, <2>4
  <1>4. ASSUME NEW m \in Timers, Fire(m)
        PROVE  Goal
    <2>1. m \in Actors /\ at[m] = "idle" /\ at' = [at EXCEPT ![m] = "fired"]
      BY <1>4 DEF Fire, Actors
    <2>2. at'[m] = "fired"
      BY <2>1 DEF TypeOK
    <2>3. WillTell'
      BY <2>1, <2>2 DEF WillTell
    <2>4. /\ \A a \in Actors : at'[a] = at[a] \/ (~Publishing(a) /\ ~Publishing(a)')
          /\ \A a \in Actors : at[a] = "notified" => at'[a] = "notified"
      BY <2>1 DEF Publishing, TypeOK
    <2> QED
      BY <1>4, <1>d, <2>3, <2>4 DEF Fire, broker
  <1>5. ASSUME NEW m \in Timers, TimerFunc(m)
        PROVE  Goal
    <2>1. m \in Actors /\ at[m] = "fired" /\ at' = [at EXCEPT ![m] = "notified"]
      BY <1>5 DEF TimerFunc, Actors
    <2>2. at'[m] = "notified"
      BY <2>1 DEF TypeOK
    <2>3. SnapshotIsFresh'
      BY <2>1, <2>2 DEF SnapshotIsFresh
    <2>4. \A a \in Actors : at'[a] = at[a] \/ (~Publishing(a) /\ ~Publishing(a)')
      BY <2>1 DEF Publishing, TypeOK
    <2> QED
      BY <1>5, <1>b, <2>3, <2>4 DEF TimerFunc, broker
  <1>6. CASE Look
    <2>1. \A a \in Actors : at'[a] = at[a] /\ (Publishing(a)' <=> Publishing(a))
      BY <1>6 DEF Look, work, Publishing
    <2>2. SnapshotIsFresh'
      <3>1. CASE \E a \in Actors : at[a] = "notified"
        BY <2>1, <3>1 DEF SnapshotIsFresh
      <3>2. CASE \E a \in Actors : Publishing(a) /\ Fresh(snap[a])
        <4>1. PICK a \in Actors : Publishing(a) /\ Fresh(snap[a])
          BY <3>2
        <4>2. snap' = snap
          BY <1>6 DEF Look, work
        <4>3. Fresh(snap[a])'
          BY <1>6, <4>1, <4>2, LookStaysFresh DEF Look, Fresh
        <4> QED
          BY <2>1, <4>1, <4>3 DEF SnapshotIsFresh
      <3>3. CASE (\A a \in Actors : ~Publishing(a)) /\ Fresh(lastPub)
        <4>1. lastPub' = lastPub
          BY <1>6 DEF Look, broker
        <4>2. Fresh(lastPub)'
          BY <1>6, <3>3, <4>1, LookStaysFresh DEF Look, Fresh
        <4> QED
          BY <2>1, <3>3, <4>2 DEF SnapshotIsFresh
      <3> QED
        BY <1>a, <3>1, <3>2, <3>3 DEF SnapshotIsFresh
    <2> QED
      <3>1. UNCHANGED <<pos, snap, lastPub, retained>>
        BY <1>6 DEF Look, work, broker
      <3>2. \A a \in Actors : at'[a] = at[a] \/ (~Publishing(a) /\ ~Publishing(a)')
        BY <2>1
      <3> QED
        BY <1>b, <2>2, <3>1, <3>2
  <1>7. ASSUME NEW a \in Actors, BeginPublish(a)
        PROVE  Goal
    <2>1. \A b \in Actors : ~Publishing(b)
      BY <1>7 DEF BeginPublish
    <2>2. /\ at' = [at EXCEPT ![a] = "publishing"] /\ snap' = [snap EXCEPT ![a] = Cleared]
          /\ state' = Cleared /\ pos' = pos /\ lastPub' = lastPub /\ retained' = retained
      BY <1>7 DEF BeginPublish, TakeSnapshot, broker
    <2>3. \A b \in Actors : Publishing(b)' <=> b = a
      BY <2>1, <2>2 DEF Publishing, TypeOK
    <2>4. OnePublisher'
      BY <2>3 DEF OnePublisher
    <2>5. RecordedIsSent'
      BY <1>a, <2>1, <2>2 DEF RecordedIsSent, Publishing
    <2>6. SnapshotIsRecorded'
      BY <1>7, <2>1, <2>2, <2>3 DEF SnapshotIsRecorded, BeginPublish, TypeOK, WorkInv
    <2>7. SnapshotIsFresh'
      BY <2>2, <2>3 DEF SnapshotIsFresh, Fresh, TypeOK
    <2> QED
      BY <2>4, <2>5, <2>6, <2>7 DEF Goal
  <1>8. ASSUME NEW a \in Actors, Same(a) \/ Record(a) \/ SendValue(a)
        PROVE  Goal
    <2>1. /\ Publishing(a) /\ Publishing(a)' /\ pos[a] \in 1..Len(Topics)
          /\ \A b \in Actors : b # a => at'[b] = at[b] /\ pos'[b] = pos[b]
          /\ snap' = snap /\ state' = state /\ left' = left /\ hasAlert' = hasAlert
      BY <1>8 DEF Same, Record, SendValue, Publishing, TypeOK, WorkInv, timers
    <2>2. \A b \in Actors : b # a => ~Publishing(b)
      BY <1>a, <2>1 DEF OnePublisher
    <2>3. \A b \in Actors : Publishing(b)' <=> b = a
      BY <2>1, <2>2 DEF Publishing
    <2>4. OnePublisher'
      BY <2>3 DEF OnePublisher
    <2>5. SnapshotIsFresh'
      <3>1. CASE \E b \in Actors : at[b] = "notified"
        BY <2>1, <3>1 DEF SnapshotIsFresh, Publishing
      <3>2. CASE Fresh(snap[a])
        <4>1. WillTell => WillTell'
          BY <2>1, <2>2 DEF WillTell, Publishing
        <4>2. Fresh(snap[a])'
          BY <2>1, <3>2, <4>1 DEF Fresh
        <4> QED
          BY <2>1, <4>2 DEF SnapshotIsFresh
      <3> QED
        BY <1>a, <2>1, <2>2, <3>1, <3>2 DEF SnapshotIsFresh
    <2>6. CASE Same(a)
      <3>1. /\ lastPub' = lastPub /\ retained' = retained /\ at' = at
            /\ pos' = [pos EXCEPT ![a] = @ + 1] /\ at[a] = "publishing"
            /\ snap[a][Topics[pos[a]]] = lastPub[Topics[pos[a]]]
        BY <2>6 DEF Same, MustSend, broker
      <3>2. RecordedIsSent'
        BY <1>a, <2>1, <3>1 DEF RecordedIsSent
      <3>3. pos'[a] = pos[a] + 1
        BY <3>1 DEF TypeOK
      <3>4. SnapshotIsRecorded'
        BY <1>a, <2>1, <2>3, <3>1, <3>3 DEF SnapshotIsRecorded
      <3> QED
        BY <2>4, <2>5, <3>2, <3>4 DEF Goal
    <2>7. CASE Record(a)
      <3>1. /\ at[a] = "publishing" /\ at'[a] = "sending" /\ pos' = pos /\ retained' = retained
            /\ lastPub' = [lastPub EXCEPT ![Topics[pos[a]]] = snap[a][Topics[pos[a]]]]
        BY <2>7 DEF Record, TypeOK
      <3>2. lastPub \in [TopicSet -> Values \cup Flags \cup {Nothing}]
        BY DEF TypeOK, Content
      <3>3. RecordedIsSent'
        <4> SUFFICES ASSUME NEW t \in TopicSet, lastPub'[t] # retained'[t]
                     PROVE  Topics[pos[a]] = t
          BY <3>1 DEF RecordedIsSent
        <4>1. CASE lastPub'[t] = lastPub[t]
          BY <1>a, <2>2, <3>1, <4>1 DEF RecordedIsSent, Publishing
        <4>2. CASE lastPub'[t] # lastPub[t]
          BY <3>1, <3>2, <4>2
        <4> QED
          BY <4>1, <4>2
      <3>4. SnapshotIsRecorded'
        BY <1>a, <2>1, <2>3, <3>1, <3>2 DEF SnapshotIsRecorded, TypeOK
      <3> QED
        BY <2>4, <2>5, <3>3, <3>4 DEF Goal
    <2>8. CASE SendValue(a)
      <3>1. /\ at[a] = "sending" /\ at'[a] = "publishing" /\ lastPub' = lastPub
            /\ pos'[a] = pos[a] + 1
            /\ retained' = [retained EXCEPT ![Topics[pos[a]]] = snap[a][Topics[pos[a]]]]
        BY <2>8 DEF SendValue, TypeOK
      <3>2. retained \in [TopicSet -> Values \cup Flags \cup {Nothing}]
        BY DEF TypeOK, Content
      <3>3. lastPub[Topics[pos[a]]] = snap[a][Topics[pos[a]]]
        BY <1>a, <2>1, <3>1 DEF SnapshotIsRecorded
      <3>4. RecordedIsSent'
        <4> SUFFICES ASSUME NEW t \in TopicSet
                     PROVE  lastPub'[t] = retained'[t]
          BY DEF RecordedIsSent
        <4>1. CASE t = Topics[pos[a]]
          BY <3>1, <3>2, <3>3, <4>1
        <4>2. CASE t # Topics[pos[a]]
          BY <1>a, <2>2, <3>1, <3>2, <4>2 DEF RecordedIsSent, Publishing
        <4> QED
          BY <4>1, <4>2
      <3>5. SnapshotIsRecorded'
        BY <1>a, <2>1, <2>3, <3>1, <3>3 DEF SnapshotIsRecorded
      <3> QED
        BY <2>4, <2>5, <3>4, <3>5 DEF Goal
    <2> QED
      BY <1>8, <2>6, <2>7, <2>8
  <1>9. ASSUME NEW a \in Actors, EndPublish(a)
        PROVE  Goal
    <2>1. /\ Publishing(a) /\ at[a] = "publishing" /\ pos[a] = Len(Topics) + 1
          /\ ~Publishing(a)' /\ at'[a] # "notified"
          /\ \A b \in Actors : b # a => at'[b] = at[b]
          /\ lastPub' = lastPub /\ retained' = retained /\ state' = state /\ left' = left
          /\ hasAlert' = hasAlert
      BY <1>9 DEF EndPublish, AfterPublish, Publishing, TypeOK, timers, broker
    <2>2. \A b \in Actors : b # a => ~Publishing(b)
      BY <1>a, <2>1 DEF OnePublisher
    <2>3. \A b \in Actors : ~Publishing(b)'
      BY <2>1, <2>2 DEF Publishing
    <2>4. RecordedIsSent'
      BY <1>a, <2>1, <2>2 DEF RecordedIsSent, Publishing
    <2>5. \A t \in TopicSet : lastPub[t] = snap[a][t]
      BY <1>a, <2>1 DEF SnapshotIsRecorded, TopicSet
    <2>6. SnapshotIsFresh'
      <3>1. CASE \E b \in Actors : at[b] = "notified"
        BY <2>1, <3>1 DEF SnapshotIsFresh
      <3>2. CASE Fresh(snap[a])
        <4>1. WillTell => WillTell'
          BY <2>1 DEF WillTell
        <4>2. Fresh(lastPub)'
          BY <2>1, <2>5, <3>2, <4>1 DEF Fresh
        <4> QED
          BY <2>3, <4>2 DEF SnapshotIsFresh
      <3> QED
        BY <1>a, <2>1, <2>2, <3>1, <3>2 DEF SnapshotIsFresh
    <2> QED
      BY <2>3, <2>4, <2>6 DEF Goal, OnePublisher, SnapshotIsRecorded
  <1>10. CASE LinkChanges \/ UNCHANGED vars
    <2>1. /\ state' = state /\ at' = at /\ pos' = pos /\ snap' = snap
          /\ lastPub' = lastPub /\ retained' = retained
          /\ left' = left /\ hasAlert' = hasAlert
      BY <1>10 DEF LinkChanges, vars, work, timers, broker
    <2>a. UNCHANGED <<state, pos, snap, lastPub, retained>>
      BY <2>1
    <2>2. WillTell => WillTell'
      BY <2>1 DEF WillTell
    <2>3. /\ \A a \in Actors : at'[a] = at[a] \/ (~Publishing(a) /\ ~Publishing(a)')
          /\ \A a \in Actors : at[a] = "notified" => at'[a] = "notified"
      BY <2>1
    <2> QED
      BY <1>d, <2>a, <2>2, <2>3
  <1> QED
    BY <1>1, <1>2, <1>3, <1>4, <1>5, <1>6, <1>7, <1>8, <1>9, <1>10
       DEF Next, Publish

\* The invariant holds in every reachable state.
LEMMA Invariance == Spec => []IInv
  <1>1. ASSUME IInv, [Next]_vars PROVE IInv'
    <2>1. TypeOK' /\ WorkInv' /\ MirrorInv'
      BY <1>1, TypeStep, MirrorStep DEF IInv
    <2>2. Future \/ (AgeInv' /\ AlertWillEnd')
      BY <1>1, AgeStep, AlertStep DEF IInv, Future
    <2> QED
      BY <2>1, <2>2 DEF IInv, Future
  <1> QED
    BY InitInv, <1>1, PTL DEF Spec

\* The local variables, timers and values of state.go and publisher.go are
\* what their types and the program counters say.
THEOREM TypeCorrect == Spec => []TypeOK
  <1>1. IInv => TypeOK
    BY DEF IInv
  <1> QED
    BY Invariance, <1>1, PTL

\* Every alert that is set will be ended by a timer that fires after it has
\* expired, whatever goroutines, timers and snapshots do (scheduleAlertClear
\* and Snapshot of state.go), if no message is dated in the future.
THEOREM AlertsEnd == ASSUME Ages \subseteq Nat PROVE Spec => []AlertWillEnd
  <1>1. IInv => AlertWillEnd
    BY DEF IInv, Future
  <1> QED
    BY Invariance, <1>1, PTL

\* What the publisher recorded last of a topic is what the broker retains, and shows
\* the state, when nobody is publishing and nothing has overlapped or was lost.
LEMMA QuietMirror ==
    ASSUME IInv, Quiet, ~raced, ~lost, NEW t \in TopicSet
    PROVE  \/ retained[t] = state[t]
           \/ /\ t \in Alerts /\ state[t] = "false"
              /\ Future \/ \E m \in Timers : left[m] # Off
  <1>1. /\ \A a \in Actors : at[a] = "idle" /\ ~hasAlert[a] /\ ~Publishing(a)
        /\ Goroutines \subseteq Actors
    BY DEF Quiet, IInv, TypeOK, Publishing, Actors
  <1>2. lastPub[t] = retained[t]
    BY <1>1 DEF IInv, MirrorInv, RecordedIsSent
  <1>3. Fresh(lastPub)
    BY <1>1 DEF IInv, MirrorInv, SnapshotIsFresh
  <1>4. WillTell => Future \/ \E m \in Timers : left[m] # Off
    BY <1>1 DEF WillTell
  <1> QED
    BY <1>2, <1>3, <1>4 DEF Fresh

\* When no goroutine is publishing, the broker retains the values of the state
\* (publisher.go's cache and the snapshots of state.go), unless publications
\* overlapped or a message was lost; of alerts if no message is dated in the future.
THEOREM MirrorExact == ASSUME Ages \subseteq Nat PROVE Spec => []MirrorIsExact
  <1>1. IInv => MirrorIsExact
    BY QuietMirror DEF MirrorIsExact, Future
  <1> QED
    BY Invariance, <1>1, PTL

\* All but the alerts is exact whatever the messages are dated.
PlainIsExact ==
    Quiet /\ ~raced /\ ~lost => \A t \in Plain : retained[t] = state[t]

\* The broker retains the temperatures, switches and settings of the state, if nothing
\* has overlapped or was lost, even when alerts from the future outlive their timers.
THEOREM PlainTopicsAreExact == Spec => []PlainIsExact
  <1>1. IInv => PlainIsExact
    BY QuietMirror DEF PlainIsExact, Plain, Alerts
  <1> QED
    BY Invariance, <1>1, PTL

\* A publication that is alone works on the only snapshot there is.
LEMMA TakenIsSnap ==
    ASSUME NEW a \in Actors
    PROVE  /\ OnePublisher /\ Publishing(a) => Busy /\ Taken = snap[a]
           /\ OnePublisher' /\ Publishing(a)' => Busy' /\ Taken' = snap'[a]
  <1>1. ASSUME OnePublisher, Publishing(a) PROVE Busy /\ Taken = snap[a]
    <2>1. \A b \in Actors : Publishing(b) => b = a
      BY <1>1 DEF OnePublisher
    <2>2. Publisher = a
      BY <1>1, <2>1 DEF Publisher
    <2> QED
      BY <1>1, <2>2 DEF Busy, Taken
  <1>2. ASSUME OnePublisher', Publishing(a)' PROVE Busy' /\ Taken' = snap'[a]
    <2>1. \A b \in Actors : Publishing(b)' => b = a
      BY <1>2 DEF OnePublisher
    <2>2. Publisher' = a
      BY <1>2, <2>1 DEF Publisher
    <2> QED
      BY <1>2, <2>2 DEF Busy, Taken
  <1> QED
    BY <1>1, <1>2

\* Steps outside of publications are changes of the state or none.
LEMMA OtherStepFollows ==
    ASSUME UNCHANGED <<at, snap, retained>> \/
              (/\ UNCHANGED <<snap, retained>>
               /\ \E a \in Actors, w \in {"idle", "fired", "notified", "scheduling"} :
                     at' = [at EXCEPT ![a] = w] /\ ~Publishing(a)),
           TypeOK, state' \in Content
    PROVE  Follower!Change
  <1>1. \A a \in Actors : Publishing(a)' <=> Publishing(a)
    BY DEF Publishing, TypeOK
  <1>2. Publisher' = Publisher
    BY <1>1 DEF Publisher
  <1>3. Busy' <=> Busy
    BY <1>1 DEF Busy
  <1>4. Taken' = Taken
    <2>1. snap' = snap /\ retained' = retained
      OBVIOUS
    <2> QED
      BY <1>2, <1>3, <2>1 DEF Taken
  <1>5. Busy' = Busy
    BY <1>3 DEF Busy
  <1> QED
    BY <1>4, <1>5 DEF Follower!Change

\* What a publication does to the broker is a step of the follower, or none.
LEMMA PublishFollows ==
    ASSUME IInv, IInv', ~raced, ~lost, ~raced', ~lost',
           NEW a \in Actors, Publish(a)
    PROVE  Follower!Next \/ UNCHANGED Follower!vars
  <1> USE TopicFacts
  <1>a. /\ TypeOK /\ WorkInv /\ TypeOK'
        /\ OnePublisher /\ SnapshotIsRecorded /\ RecordedIsSent /\ OnePublisher'
    BY DEF IInv, MirrorInv
  <1>1. CASE BeginPublish(a)
    <2>1. ~Busy
      BY <1>1 DEF BeginPublish, Busy
    <2>2. Publishing(a)' /\ snap'[a] = state'
      BY <1>1, <1>a DEF BeginPublish, TakeSnapshot, Publishing, TypeOK
    <2>3. Busy' /\ Taken' = state'
      BY <1>a, <2>2, TakenIsSnap
    <2>4. UNCHANGED retained /\ state' \in Content
      BY <1>1, <1>a DEF BeginPublish, broker, TypeOK
    <2>5. Busy' = TRUE
      BY <2>3 DEF Busy
    <2> QED
      BY <2>1, <2>3, <2>4, <2>5 DEF Follower!Next, Follower!Take
  <1>2. ASSUME Publishing(a), Publishing(a)', UNCHANGED <<state, snap>>
        PROVE  /\ Busy /\ Busy' = Busy /\ Taken = snap[a] /\ Taken' = Taken
               /\ UNCHANGED state
    <2>1. Busy /\ Busy' /\ Taken = snap[a] /\ Taken' = snap'[a]
      BY <1>a, <1>2, TakenIsSnap
    <2>2. Busy' = Busy
      BY <2>1 DEF Busy
    <2> QED
      BY <1>2, <2>1, <2>2
  <1>3. CASE Same(a) \/ Record(a)
    <2>1. Publishing(a) /\ Publishing(a)' /\ UNCHANGED <<state, snap, retained>>
      BY <1>3, <1>a DEF Same, Record, Publishing, TypeOK, broker
    <2> QED
      BY <1>2, <2>1 DEF Follower!vars
  <1>4. CASE SendValue(a)
    <2>1. Publishing(a) /\ Publishing(a)' /\ UNCHANGED <<state, snap>>
      BY <1>4, <1>a DEF SendValue, Publishing, TypeOK
    <2>2. Topics[pos[a]] \in TopicSet
      BY <1>4, <1>a DEF SendValue, WorkInv
    <2>3. retained' = [retained EXCEPT ![Topics[pos[a]]] = Taken[Topics[pos[a]]]]
      BY <1>2, <1>4, <2>1 DEF SendValue
    <2> QED
      BY <1>2, <2>1, <2>2, <2>3 DEF Follower!Next, Follower!Show
  <1>5. CASE EndPublish(a)
    <2>1. /\ Publishing(a) /\ at[a] = "publishing" /\ pos[a] = Len(Topics) + 1
          /\ ~Publishing(a)' /\ \A b \in Actors : b # a => at'[b] = at[b]
          /\ UNCHANGED <<state, retained>>
      BY <1>5, <1>a DEF EndPublish, AfterPublish, Publishing, TypeOK, broker
    <2>2. \A b \in Actors : ~Publishing(b)'
      BY <1>a, <2>1 DEF OnePublisher, Publishing
    <2>3. Busy /\ Taken = snap[a]
      BY <1>a, <2>1, TakenIsSnap
    <2>4. Busy' = FALSE /\ Taken' = retained
      BY <2>1, <2>2 DEF Busy, Taken
    <2>5. \A t \in TopicSet : retained[t] = snap[a][t]
      <3>1. \A t \in TopicSet : lastPub[t] = snap[a][t]
        BY <1>a, <2>1 DEF SnapshotIsRecorded, TopicSet
      <3>2. \A t \in TopicSet : lastPub[t] = retained[t]
        BY <1>a, <2>1 DEF RecordedIsSent, OnePublisher, Publishing
      <3> QED
        BY <3>1, <3>2
    <2>6. retained = snap[a]
      BY <1>a, <2>5 DEF TypeOK, Content
    <2> QED
      BY <2>1, <2>3, <2>4, <2>6 DEF Follower!Next, Follower!Done
  <1> QED
    BY <1>1, <1>3, <1>4, <1>5 DEF Publish

\* pubDedup brings the broker topic by topic from one snapshot to the next, and
\* PublishState ends when all of the snapshot has arrived (publisher.go:164-218 and
\* 432-445), for as long as publications do not overlap and no message is lost.
THEOREM MirrorFollows == Spec => MirrorFollowsState
  <1>1. Init => Follower!Init
    <2> SUFFICES ASSUME Init PROVE Follower!Init
      OBVIOUS
    <2>1. TypeOK
      BY InitInv DEF IInv
    <2>2. \A a \in Actors : ~Publishing(a)
      BY DEF Init, Publishing
    <2>3. Busy = FALSE /\ Taken = retained
      BY <2>2 DEF Busy, Taken
    <2> QED
      BY <2>1, <2>3 DEF Follower!Init, TypeOK
  <1>2. ASSUME IInv, IInv', [Next]_vars, ~raced', ~lost'
        PROVE  Follower!Next \/ UNCHANGED Follower!vars
    <2>1. TypeOK /\ state' \in Content
      BY <1>2 DEF IInv, TypeOK
    <2>2. ~raced /\ ~lost
      BY <1>2, HistoryStays
    <2>3. CASE UNCHANGED vars
      <3>1. UNCHANGED <<at, snap, retained>>
        BY <2>3 DEF vars, work, broker
      <3> QED
        BY <2>1, <3>1, OtherStepFollows DEF Follower!Next
    <2>4. ASSUME NEW g \in Goroutines, Change(g) \/ ScheduleClear(g)
          PROVE  Follower!Change
      <3>1. g \in Actors /\ ~Publishing(g) /\ UNCHANGED <<snap, retained>>
        BY <2>4 DEF Change, RaiseAlert, EndCry, SetValue, Update, ScheduleClear,
           broker, Actors, Publishing
      <3>2. at' = [at EXCEPT ![g] = "notified"] \/ at' = [at EXCEPT ![g] = "idle"]
        BY <2>4 DEF Change, RaiseAlert, EndCry, SetValue, Update, ScheduleClear
      <3> QED
        BY <2>1, <3>1, <3>2, OtherStepFollows
    <2>5. ASSUME NEW m \in Timers, Fire(m) \/ TimerFunc(m)
          PROVE  Follower!Change
      <3>1. m \in Actors /\ ~Publishing(m) /\ UNCHANGED <<snap, retained>>
        BY <2>5 DEF Fire, TimerFunc, broker, Actors, Publishing
      <3>2. at' = [at EXCEPT ![m] = "notified"] \/ at' = [at EXCEPT ![m] = "fired"]
        BY <2>5 DEF Fire, TimerFunc
      <3> QED
        BY <2>1, <3>1, <3>2, OtherStepFollows
    <2>6. CASE TimePasses \/ Look \/ LinkChanges
      <3>1. UNCHANGED <<at, snap, retained>>
        BY <2>6 DEF TimePasses, Look, LinkChanges, work, broker
      <3> QED
        BY <2>1, <3>1, OtherStepFollows DEF Follower!Next
    <2>7. ASSUME NEW a \in Actors, Publish(a)
          PROVE  Follower!Next \/ UNCHANGED Follower!vars
      BY <1>2, <2>2, <2>7, PublishFollows
    <2> QED
      BY <1>2, <2>3, <2>4, <2>5, <2>6, <2>7 DEF Next, Follower!Next
  <1>3. ASSUME IInv, IInv', [Next]_vars
        PROVE  [~raced' /\ ~lost' => Follower!Next \/ UNCHANGED Follower!vars]_vars
    BY <1>2, <1>3
  <1> QED
    BY <1>1, <1>3, Invariance, PTL DEF Spec, MirrorFollowsState

\* publisher.go:70 where it is right: lastPub is what the broker retains.
LastPubIsPublishedAlone == Quiet /\ ~lost /\ ~raced => lastPub = retained

\* "lastPub ... last published value" (publisher.go:70) holds whenever nobody is
\* publishing, unless two publications have overlapped or a message was lost: only
\* pubDedup's unlock before pub can break it.
THEOREM LastPubIsExact == Spec => []LastPubIsPublishedAlone
  <1>1. IInv => LastPubIsPublishedAlone
    <2> SUFFICES ASSUME IInv, Quiet, ~raced, ~lost PROVE lastPub = retained
      BY DEF LastPubIsPublishedAlone
    <2>1. \A t \in TopicSet : lastPub[t] = retained[t]
      BY DEF IInv, MirrorInv, RecordedIsSent, Quiet
    <2> QED
      BY <2>1 DEF IInv, TypeOK, Content
  <1> QED
    BY Invariance, <1>1, PTL
=============================================================================

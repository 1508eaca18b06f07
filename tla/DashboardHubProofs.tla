------------------------- MODULE DashboardHubProofs -------------------------
(***************************************************************************)
(* Theorems about DashboardHub, for any number of viewers and broadcasters *)
(* and any sizes of the channel, the ring, the log and the state.          *)
(***************************************************************************)
EXTENDS DashboardHub, TLAPS

\* The clients are the connections whose channel is open.
MemberInv ==
    /\ ~hubPanics
    /\ \A v \in Viewers : v \in clients <=> at[v] # "new" /\ ~closed[v]
    /\ \A v \in Viewers : at[v] = "new" => ~closed[v]

\* What the channel of v holds.
QueuedStates(v) == {n \in Versions : \E i \in DOMAIN queue[v] : n \in queue[v][i].states}
QueuedLines(v) == {n \in Lines : \E i \in DOMAIN queue[v] : n \in queue[v][i].log}

\* A broadcast will tell every client of the current state.
Told == \E b \in Broadcasters :
           \/ update[b] = "changed"
           \/ update[b] = "described" /\ told[b] = version

\* The current state is on its way to a client from the moment its handler has
\* read the states.
StateInv ==
    \A v \in Viewers :
        at[v] \notin {"new", "accepted"} /\ conn[v] = "open" /\ ~closed[v] =>
            \/ Told
            \/ at[v] = "described" /\ initial[v] = version
            \/ version \in QueuedStates(v) \cup states[v]

\* n is one of the lines the ring holds.
Last(n) == n <= lines /\ n + RingSize > lines

\* The last lines are on their way from the moment the handler has read them.
LogInv ==
    \A v \in Viewers :
        /\ at[v] \in {"logged", "ready", "reading"}
        /\ conn[v] = "open" /\ ~closed[v] /\ ~missed[v]
        => \A n \in Lines : Last(n) =>
              \/ at[v] = "logged" /\ n \in history[v]
              \/ n \in QueuedLines(v) \cup log[v]

IInv == TypeOK /\ MemberInv /\ StateInv /\ LogInv
-----------------------------------------------------------------------------
USE SizesAssumption

\* The messages have their type.
LEMMA MessageTypes ==
  /\ \A n \in Versions : StateMessage(n) \in Messages
  /\ \A set \in SUBSET Lines : LogMessage(set) \in Messages
  BY DEF StateMessage, LogMessage, Messages

\* A message is put at the end of a channel that has room.
LEMMA PutOne ==
  ASSUME TypeOK, NEW set, NEW msg \in Messages, Put(set, msg), NEW v \in Viewers
  PROVE  /\ queue'[v] \in Seq(Messages) /\ Len(queue'[v]) <= Capacity
         /\ QueuedStates(v) \subseteq QueuedStates(v)'
         /\ QueuedLines(v) \subseteq QueuedLines(v)'
         /\ v \in set /\ HasRoom(v) =>
               /\ msg.states \subseteq QueuedStates(v)'
               /\ msg.log \subseteq QueuedLines(v)'
  <1>1. queue[v] \in Seq(Messages) /\ Len(queue[v]) \in Nat /\ Len(queue[v]) <= Capacity
    BY DEF TypeOK
  <1>2. msg.states \subseteq Versions /\ msg.log \subseteq Lines
    BY DEF Messages
  <1>3. CASE v \in set /\ HasRoom(v)
    <2>1. queue'[v] = Append(queue[v], msg)
      BY <1>3 DEF Put
    <2>2. /\ queue'[v] \in Seq(Messages) /\ Len(queue'[v]) = Len(queue[v]) + 1
          /\ queue'[v][Len(queue[v]) + 1] = msg
          /\ \A i \in 1..Len(queue[v]) : queue'[v][i] = queue[v][i]
      BY <1>1, <2>1
    <2>3. /\ DOMAIN queue[v] = 1..Len(queue[v])
          /\ DOMAIN queue'[v] = 1..(Len(queue[v]) + 1)
      BY <1>1, <2>2
    <2>4. Len(queue'[v]) <= Capacity
      BY <1>1, <1>3, <2>2 DEF HasRoom
    <2>5. QueuedStates(v) \subseteq QueuedStates(v)' /\ QueuedLines(v) \subseteq QueuedLines(v)'
      <3>1. \A i \in DOMAIN queue[v] : i \in DOMAIN queue'[v] /\ queue'[v][i] = queue[v][i]
        BY <1>1, <2>2, <2>3
      <3> QED
        BY <3>1 DEF QueuedStates, QueuedLines, Versions, Lines
    <2>6. msg.states \subseteq QueuedStates(v)' /\ msg.log \subseteq QueuedLines(v)'
      BY <1>1, <1>2, <2>2, <2>3 DEF QueuedStates, QueuedLines, Versions, Lines
    <2> QED
      BY <2>2, <2>4, <2>5, <2>6
  <1>4. CASE ~(v \in set /\ HasRoom(v))
    <2>1. queue'[v] = queue[v]
      BY <1>4 DEF Put
    <2> QED
      BY <1>1, <1>4, <2>1 DEF QueuedStates, QueuedLines, Versions, Lines
  <1> QED
    BY <1>3, <1>4

\* The writer takes the first message and leaves the others.
LEMMA TakeOne ==
  ASSUME TypeOK, NEW v \in Viewers, Take(v)
  PROVE  /\ queue' \in [Viewers -> Seq(Messages)]
         /\ \A w \in Viewers : Len(queue'[w]) <= Capacity
         /\ \A w \in Viewers \ {v} : queue'[w] = queue[w]
         /\ Head(queue[v]) \in Messages
         /\ QueuedStates(v) \subseteq QueuedStates(v)' \cup Head(queue[v]).states
         /\ QueuedLines(v) \subseteq QueuedLines(v)' \cup Head(queue[v]).log
  <1>1. queue[v] \in Seq(Messages) /\ queue[v] # <<>> /\ Len(queue[v]) <= Capacity
    BY DEF TypeOK, Take
  <1>2. queue' = [queue EXCEPT ![v] = Tail(queue[v])] /\ queue'[v] = Tail(queue[v])
    BY DEF Take, TypeOK
  <1>3. /\ Len(queue[v]) \in Nat \ {0} /\ Head(queue[v]) = queue[v][1]
        /\ Head(queue[v]) \in Messages
        /\ Tail(queue[v]) \in Seq(Messages) /\ Len(Tail(queue[v])) = Len(queue[v]) - 1
        /\ \A i \in 2..Len(queue[v]) :
              i - 1 \in 1..Len(Tail(queue[v])) /\ Tail(queue[v])[i - 1] = queue[v][i]
    BY <1>1
  <1>4. /\ DOMAIN queue[v] = 1..Len(queue[v])
        /\ DOMAIN queue'[v] = 1..Len(Tail(queue[v]))
    <2>1. \A s \in Seq(Messages) : DOMAIN s = 1..Len(s)
      OBVIOUS
    <2> QED
      BY <1>1, <1>2, <1>3, <2>1
  <1>5. \A i \in DOMAIN queue[v] :
           queue[v][i] = Head(queue[v])
             \/ \E j \in DOMAIN queue'[v] : queue'[v][j] = queue[v][i]
    <2> SUFFICES ASSUME NEW i \in DOMAIN queue[v], i # 1
                 PROVE  \E j \in DOMAIN queue'[v] : queue'[v][j] = queue[v][i]
      BY <1>3
    <2>1. i \in 2..Len(queue[v])
      BY <1>3, <1>4
    <2>2. i - 1 \in DOMAIN queue'[v] /\ queue'[v][i - 1] = queue[v][i]
      BY <1>2, <1>3, <1>4, <2>1
    <2> QED
      BY <2>2
  <1>6. /\ QueuedStates(v) \subseteq QueuedStates(v)' \cup Head(queue[v]).states
        /\ QueuedLines(v) \subseteq QueuedLines(v)' \cup Head(queue[v]).log
    BY <1>5 DEF QueuedStates, QueuedLines, Versions, Lines
  <1> QED
    BY <1>1, <1>2, <1>3, <1>6 DEF TypeOK

\* What an unchanged channel holds is unchanged.
LEMMA QueueSame ==
  ASSUME UNCHANGED queue, NEW v
  PROVE  QueuedStates(v)' = QueuedStates(v) /\ QueuedLines(v)' = QueuedLines(v)
  BY DEF QueuedStates, QueuedLines, Versions, Lines

\* Close marks the channels it closes.
LEMMA CloseTypes ==
  ASSUME TypeOK, NEW set, Close(set)
  PROVE  /\ closed' \in [Viewers -> BOOLEAN] /\ hubPanics' \in BOOLEAN
         /\ \A v \in Viewers : closed'[v] <=> closed[v] \/ v \in set
  <1>1. hubPanics' \in BOOLEAN
    BY DEF Close
  <1>2. closed' = [v \in Viewers |-> closed[v] \/ v \in set]
    BY DEF Close
  <1>3. closed' \in [Viewers -> BOOLEAN]
    BY <1>2
  <1>4. \A v \in Viewers : closed'[v] <=> closed[v] \/ v \in set
    BY <1>2
  <1> QED
    BY <1>1, <1>3, <1>4

\* The initial states satisfy the invariant.
LEMMA InitInv == Init => IInv
  <1> SUFFICES ASSUME Init PROVE IInv
    OBVIOUS
  <1>1. TypeOK
    <2>1. /\ queue \in [Viewers -> Seq(Messages)]
          /\ \A v \in Viewers : Len(queue[v]) <= Capacity
      BY DEF Init
    <2>2. 0 \in Versions /\ 0 \in 0..MaxLines
      BY DEF Versions
    <2>3. /\ version \in Versions /\ lines \in 0..MaxLines
          /\ told \in [Broadcasters -> Versions] /\ initial \in [Viewers -> Versions]
      BY <2>2 DEF Init
    <2> QED
      BY <2>1, <2>3 DEF Init, TypeOK, Places
  <1>2. MemberInv /\ StateInv /\ LogInv
    BY DEF Init, MemberInv, StateInv, LogInv
  <1> QED
    BY <1>1, <1>2 DEF IInv

\* Every step keeps the types.
LEMMA TypeStep == TypeOK /\ [Next]_vars => TypeOK'
  <1> SUFFICES ASSUME TypeOK, [Next]_vars PROVE TypeOK'
    OBVIOUS
  <1> USE DEF hub, handler, channel, screen
  <1>1. ASSUME NEW b \in Broadcasters, Change(b) PROVE TypeOK'
    BY <1>1 DEF TypeOK, Places, Versions, Change
  <1>2. ASSUME NEW b \in Broadcasters, Describe(b) PROVE TypeOK'
    BY <1>2 DEF TypeOK, Places, Versions, Describe
  <1>3. ASSUME NEW b \in Broadcasters, BroadcastState(b) PROVE TypeOK'
    <2>1. StateMessage(told[b]) \in Messages
      BY MessageTypes DEF TypeOK
    <2>2. Put(Receivers, StateMessage(told[b])) /\ Close(CutOff)
      BY <1>3 DEF BroadcastState
    <2>3. \A w \in Viewers : queue'[w] \in Seq(Messages) /\ Len(queue'[w]) <= Capacity
      BY <2>1, <2>2, PutOne
    <2>4. queue' \in [Viewers -> Seq(Messages)]
      BY <2>2, <2>3 DEF Put
    <2>5. closed' \in [Viewers -> BOOLEAN] /\ hubPanics' \in BOOLEAN
      BY <2>2, CloseTypes
    <2> QED
      BY <1>3, <2>3, <2>4, <2>5 DEF TypeOK, BroadcastState
  <1>4. ASSUME WriteLog PROVE TypeOK'
    <2>1. lines + 1 \in Lines /\ lines + 1 \in 0..MaxLines
      BY <1>4 DEF TypeOK, WriteLog, Lines
    <2>2. LogMessage({lines + 1}) \in Messages
      BY <2>1, MessageTypes
    <2>3. Put(Receivers, LogMessage({lines + 1}))
      BY <1>4 DEF WriteLog
    <2>4. \A w \in Viewers : queue'[w] \in Seq(Messages) /\ Len(queue'[w]) <= Capacity
      BY <2>2, <2>3, PutOne
    <2>5. queue' \in [Viewers -> Seq(Messages)]
      BY <2>3, <2>4 DEF Put
    <2>6. missed' \in [Viewers -> BOOLEAN]
      BY <1>4 DEF WriteLog
    <2> QED
      BY <1>4, <2>1, <2>4, <2>5, <2>6 DEF TypeOK, WriteLog
  <1>5. ASSUME NEW v \in Viewers, Accept(v) PROVE TypeOK'
    BY <1>5 DEF TypeOK, Places, Versions, Accept, Go
  <1>6. ASSUME NEW v \in Viewers, TakeInitial(v) PROVE TypeOK'
    BY <1>6 DEF TypeOK, Places, Versions, TakeInitial, Go
  <1>7. ASSUME NEW v \in Viewers, SendInitial(v) PROVE TypeOK'
    <2>1. CASE closed[v]
      BY <1>7, <2>1 DEF TypeOK, Places, SendInitial, Send, Go
    <2>2. CASE ~closed[v]
      <3>1. StateMessage(initial[v]) \in Messages
        BY MessageTypes DEF TypeOK
      <3>2. Put({v}, StateMessage(initial[v]))
        BY <1>7, <2>2 DEF SendInitial, Send
      <3>3. \A w \in Viewers : queue'[w] \in Seq(Messages) /\ Len(queue'[w]) <= Capacity
        BY <3>1, <3>2, PutOne
      <3>4. queue' \in [Viewers -> Seq(Messages)]
        BY <3>2, <3>3 DEF Put
      <3> QED
        BY <1>7, <2>2, <3>3, <3>4 DEF TypeOK, Places, SendInitial, Send, Go
    <2> QED
      BY <2>1, <2>2
  <1>8. ASSUME NEW v \in Viewers, TakeHistory(v) PROVE TypeOK'
    <2>1. Ring \subseteq Lines
      BY DEF Ring
    <2> QED
      BY <1>8, <2>1 DEF TypeOK, Places, TakeHistory, Go
  <1>9. ASSUME NEW v \in Viewers, SendHistory(v) PROVE TypeOK'
    <2>1. CASE closed[v]
      BY <1>9, <2>1 DEF TypeOK, Places, SendHistory, Send, Go
    <2>2. CASE ~closed[v]
      <3>1. LogMessage(history[v]) \in Messages
        BY MessageTypes DEF TypeOK
      <3>2. Put({v}, LogMessage(history[v]))
        BY <1>9, <2>2 DEF SendHistory, Send
      <3>3. \A w \in Viewers : queue'[w] \in Seq(Messages) /\ Len(queue'[w]) <= Capacity
        BY <3>1, <3>2, PutOne
      <3>4. queue' \in [Viewers -> Seq(Messages)]
        BY <3>2, <3>3 DEF Put
      <3> QED
        BY <1>9, <2>2, <3>3, <3>4 DEF TypeOK, Places, SendHistory, Send, Go
    <2> QED
      BY <2>1, <2>2
  <1>10. ASSUME NEW v \in Viewers, Serve(v) PROVE TypeOK'
    BY <1>10 DEF TypeOK, Places, Versions, Serve, Go
  <1>11. ASSUME NEW v \in Viewers, Leave(v) PROVE TypeOK'
    <2>1. closed' \in [Viewers -> BOOLEAN] /\ hubPanics' \in BOOLEAN
      BY <1>11, CloseTypes DEF Leave, CloseOnLeave
    <2> QED
      BY <1>11, <2>1 DEF TypeOK, Places, Leave, Go
  <1>12. ASSUME NEW v \in Viewers, Write(v) PROVE TypeOK'
    <2>1. Take(v)
      BY <1>12 DEF Write
    <2>2. /\ queue' \in [Viewers -> Seq(Messages)]
          /\ \A w \in Viewers : Len(queue'[w]) <= Capacity
          /\ Head(queue[v]) \in Messages
      BY <2>1, TakeOne
    <2>3. Head(queue[v]).states \subseteq Versions /\ Head(queue[v]).log \subseteq Lines
      BY <2>2 DEF Messages
    <2> QED
      BY <1>12, <2>2, <2>3 DEF TypeOK, Write, Take, AfterWriter
  <1>13. ASSUME NEW v \in Viewers, WriteInVain(v) PROVE TypeOK'
    <2>1. Take(v)
      BY <1>13 DEF WriteInVain
    <2>2. /\ queue' \in [Viewers -> Seq(Messages)]
          /\ \A w \in Viewers : Len(queue'[w]) <= Capacity
          /\ Head(queue[v]) \in Messages
      BY <2>1, TakeOne
    <2>3. Head(queue[v]).states \subseteq Versions /\ Head(queue[v]).log \subseteq Lines
      BY <2>2 DEF Messages
    <2> QED
      BY <1>13, <2>2, <2>3 DEF TypeOK, WriteInVain, Take, AfterWriter
  <1>14. ASSUME NEW v \in Viewers, WriterEnds(v) PROVE TypeOK'
    BY <1>14 DEF TypeOK, Places, Versions, WriterEnds, AfterWriter
  <1>15. ASSUME NEW v \in Viewers, ConnectionLost(v) PROVE TypeOK'
    BY <1>15 DEF TypeOK, Places, Versions, ConnectionLost
  <1>16. CASE UNCHANGED vars
    BY <1>16 DEF TypeOK, Places, Versions, vars
  <1> QED
    BY <1>1, <1>2, <1>3, <1>4, <1>5, <1>6, <1>7, <1>8, <1>9, <1>10, <1>11, <1>12, <1>13, <1>14, <1>15, <1>16
       DEF Next, Broadcast, HandleWS, Writer

\* A channel is closed by whoever takes its client out of the map.
LEMMA MemberStep == TypeOK /\ MemberInv /\ [Next]_vars => MemberInv'
  <1> SUFFICES ASSUME TypeOK, MemberInv, [Next]_vars PROVE MemberInv'
    OBVIOUS
  <1> USE DEF hub, handler, channel, screen
  <1>1. ASSUME NEW b \in Broadcasters, Change(b) PROVE MemberInv'
    BY <1>1 DEF TypeOK, MemberInv, Places, Change
  <1>2. ASSUME NEW b \in Broadcasters, Describe(b) PROVE MemberInv'
    BY <1>2 DEF TypeOK, MemberInv, Places, Describe
  <1>3. ASSUME NEW b \in Broadcasters, BroadcastState(b) PROVE MemberInv'
    <2>1. Close(CutOff) /\ clients' = clients \ CutOff /\ at' = at
      BY <1>3 DEF BroadcastState
    <2>2. \A v \in Viewers : closed'[v] <=> closed[v] \/ v \in CutOff
      BY <2>1, CloseTypes
    <2>3. CutOff \subseteq clients /\ \A v \in CutOff : ~closed[v]
      BY DEF CutOff, Receivers
    <2>4. ~hubPanics'
      BY <2>1, <2>3 DEF Close, MemberInv
    <2> QED
      BY <2>1, <2>2, <2>3, <2>4 DEF MemberInv, TypeOK
  <1>4. ASSUME WriteLog PROVE MemberInv'
    BY <1>4 DEF TypeOK, MemberInv, Places, WriteLog, Receivers, HasRoom
  <1>5. ASSUME NEW v \in Viewers, Accept(v) PROVE MemberInv'
    BY <1>5 DEF TypeOK, MemberInv, Places, Accept, Go
  <1>6. ASSUME NEW v \in Viewers, TakeInitial(v) PROVE MemberInv'
    BY <1>6 DEF TypeOK, MemberInv, Places, TakeInitial, Go
  <1>7. ASSUME NEW v \in Viewers, SendInitial(v) PROVE MemberInv'
    BY <1>7 DEF TypeOK, MemberInv, Places, SendInitial, Send, Go
  <1>8. ASSUME NEW v \in Viewers, TakeHistory(v) PROVE MemberInv'
    BY <1>8 DEF TypeOK, MemberInv, Places, TakeHistory, Go
  <1>9. ASSUME NEW v \in Viewers, SendHistory(v) PROVE MemberInv'
    BY <1>9 DEF TypeOK, MemberInv, Places, SendHistory, Send, Go
  <1>10. ASSUME NEW v \in Viewers, Serve(v) PROVE MemberInv'
    BY <1>10 DEF TypeOK, MemberInv, Places, Serve, Go
  <1>11. ASSUME NEW v \in Viewers, Leave(v) PROVE MemberInv'
    <2>1. /\ Close({v} \ {w \in Viewers : closed[w]})
          /\ at[v] = "reading" /\ at' = [at EXCEPT ![v] = "ended"]
          /\ clients' = clients \ {v}
      BY <1>11 DEF Leave, CloseOnLeave, Go
    <2>2. \A w \in Viewers : closed'[w] <=> closed[w] \/ w = v
      BY <2>1, CloseTypes
    <2>3. ~hubPanics'
      BY <2>1 DEF Close, MemberInv
    <2> QED
      BY <2>1, <2>2, <2>3 DEF MemberInv, TypeOK
  <1>12. ASSUME NEW v \in Viewers, Write(v) PROVE MemberInv'
    BY <1>12 DEF TypeOK, MemberInv, Places, Write, Take
  <1>13. ASSUME NEW v \in Viewers, WriteInVain(v) PROVE MemberInv'
    BY <1>13 DEF TypeOK, MemberInv, Places, WriteInVain, Take, AfterWriter
  <1>14. ASSUME NEW v \in Viewers, WriterEnds(v) PROVE MemberInv'
    BY <1>14 DEF TypeOK, MemberInv, Places, WriterEnds, AfterWriter
  <1>15. ASSUME NEW v \in Viewers, ConnectionLost(v) PROVE MemberInv'
    BY <1>15 DEF TypeOK, MemberInv, Places, ConnectionLost
  <1>16. CASE UNCHANGED vars
    BY <1>16 DEF TypeOK, MemberInv, Places, vars
  <1> QED
    BY <1>1, <1>2, <1>3, <1>4, <1>5, <1>6, <1>7, <1>8, <1>9, <1>10, <1>11, <1>12, <1>13, <1>14, <1>15, <1>16
       DEF Next, Broadcast, HandleWS, Writer

\* The current state is never lost on its way to a client.
LEMMA StateStep == TypeOK /\ MemberInv /\ StateInv /\ [Next]_vars => StateInv'
  <1> SUFFICES ASSUME TypeOK, MemberInv, StateInv, [Next]_vars PROVE StateInv'
    OBVIOUS
  <1> USE DEF hub, handler, channel, screen
  <1>1. ASSUME NEW b \in Broadcasters, Change(b) PROVE StateInv'
    <2>1. Told'
      BY <1>1 DEF Told, Change, TypeOK
    <2> QED
      BY <2>1 DEF StateInv
  <1>2. ASSUME NEW b \in Broadcasters, Describe(b) PROVE StateInv'
    BY <1>2, QueueSame DEF TypeOK, MemberInv, StateInv, Told, Places, Versions, Describe
  <1>3. ASSUME NEW b \in Broadcasters, BroadcastState(b) PROVE StateInv'
    <2>1. /\ Put(Receivers, StateMessage(told[b])) /\ Close(CutOff)
          /\ UNCHANGED <<version, at, initial, conn, states, lines, history, log, missed>>
      BY <1>3 DEF BroadcastState
    <2>2. StateMessage(told[b]) \in Messages
      BY MessageTypes DEF TypeOK
    <2>3. \A w \in Viewers :
             w \in Receivers /\ HasRoom(w) =>
                StateMessage(told[b]).states \subseteq QueuedStates(w)'
      BY <2>1, <2>2, PutOne
    <2>4. \A w \in Viewers : /\ QueuedStates(w) \subseteq QueuedStates(w)'
                             /\ QueuedLines(w) \subseteq QueuedLines(w)'
      BY <2>1, <2>2, PutOne
    <2>5. \A w \in Viewers : closed'[w] <=> closed[w] \/ w \in CutOff
      BY <2>1, CloseTypes
    <2>6. \A w \in Viewers : w \in clients /\ ~closed'[w] => w \in Receivers /\ HasRoom(w)
      BY <2>5 DEF CutOff, Receivers
    <2>7. CASE told[b] = version
      BY <2>1, <2>3, <2>4, <2>5, <2>6, <2>7 DEF StateInv, MemberInv, StateMessage, TypeOK
    <2>8. CASE told[b] # version
      <3>1. Told => Told'
        BY <1>3, <2>8 DEF Told, BroadcastState, TypeOK
      <3> QED
        BY <2>1, <2>4, <2>5, <3>1 DEF StateInv, TypeOK
    <2> QED
      BY <2>7, <2>8
  <1>4. ASSUME WriteLog PROVE StateInv'
    <2>1. LogMessage({lines + 1}) \in Messages
      <3>1. lines + 1 \in Lines
        BY <1>4 DEF TypeOK, WriteLog, Lines
      <3> QED
        BY <3>1, MessageTypes
    <2>2. Put(Receivers, LogMessage({lines + 1}))
      BY <1>4 DEF WriteLog
    <2>3. \A w \in Viewers :
             w \in Receivers /\ HasRoom(w) =>
                LogMessage({lines + 1}).log \subseteq QueuedLines(w)'
      BY <2>1, <2>2, PutOne
    <2>4. \A w \in Viewers : /\ QueuedStates(w) \subseteq QueuedStates(w)'
                             /\ QueuedLines(w) \subseteq QueuedLines(w)'
      BY <2>1, <2>2, PutOne
    <2>5. UNCHANGED <<version, update, told, at, initial, closed, conn, states>>
      BY <1>4 DEF WriteLog
    <2> QED
      BY <2>4, <2>5 DEF StateInv, Told, TypeOK
  <1>5. ASSUME NEW v \in Viewers, Accept(v) PROVE StateInv'
    BY <1>5, QueueSame DEF TypeOK, MemberInv, StateInv, Told, Places, Versions, Accept, Go
  <1>6. ASSUME NEW v \in Viewers, TakeInitial(v) PROVE StateInv'
    BY <1>6, QueueSame DEF TypeOK, MemberInv, StateInv, Told, Places, Versions, TakeInitial, Go
  <1>7. ASSUME NEW v \in Viewers, SendInitial(v) PROVE StateInv'
    <2>1. UNCHANGED <<version, update, told, initial, closed, conn, states>> /\ at[v] = "described"
      BY <1>7 DEF SendInitial, Send
    <2>2. CASE closed[v]
      <3>1. at' = [at EXCEPT ![v] = "panicked"] /\ queue' = queue
        BY <1>7, <2>2 DEF SendInitial, Send, Go
      <3> QED
        BY <2>1, <2>2, <3>1, QueueSame DEF StateInv, Told, TypeOK
    <2>3. CASE ~closed[v]
      <3>1. StateMessage(initial[v]) \in Messages
        BY MessageTypes DEF TypeOK
      <3>2. Put({v}, StateMessage(initial[v])) /\ HasRoom(v) /\ at' = [at EXCEPT ![v] = "queued"]
        BY <1>7, <2>3 DEF SendInitial, Send, Go
      <3>3. \A w \in Viewers : /\ QueuedStates(w) \subseteq QueuedStates(w)'
                               /\ QueuedLines(w) \subseteq QueuedLines(w)'
        BY <3>1, <3>2, PutOne
      <3>4. StateMessage(initial[v]).states \subseteq QueuedStates(v)' /\ StateMessage(initial[v]).log \subseteq QueuedLines(v)'
        BY <3>1, <3>2, PutOne
      <3> QED
        BY <2>1, <3>2, <3>3, <3>4 DEF StateInv, Told, StateMessage, LogMessage, TypeOK
    <2> QED
      BY <2>2, <2>3
  <1>8. ASSUME NEW v \in Viewers, TakeHistory(v) PROVE StateInv'
    BY <1>8, QueueSame DEF TypeOK, MemberInv, StateInv, Told, Places, Versions, TakeHistory, Go
  <1>9. ASSUME NEW v \in Viewers, SendHistory(v) PROVE StateInv'
    <2>1. UNCHANGED <<version, update, told, initial, closed, conn, states>> /\ at[v] = "logged"
      BY <1>9 DEF SendHistory, Send
    <2>2. CASE closed[v]
      <3>1. at' = [at EXCEPT ![v] = "panicked"] /\ queue' = queue
        BY <1>9, <2>2 DEF SendHistory, Send, Go
      <3> QED
        BY <2>1, <2>2, <3>1, QueueSame DEF StateInv, Told, TypeOK
    <2>3. CASE ~closed[v]
      <3>1. LogMessage(history[v]) \in Messages
        BY MessageTypes DEF TypeOK
      <3>2. Put({v}, LogMessage(history[v])) /\ HasRoom(v) /\ at' = [at EXCEPT ![v] = "ready"]
        BY <1>9, <2>3 DEF SendHistory, Send, Go
      <3>3. \A w \in Viewers : /\ QueuedStates(w) \subseteq QueuedStates(w)'
                               /\ QueuedLines(w) \subseteq QueuedLines(w)'
        BY <3>1, <3>2, PutOne
      <3>4. LogMessage(history[v]).states \subseteq QueuedStates(v)' /\ LogMessage(history[v]).log \subseteq QueuedLines(v)'
        BY <3>1, <3>2, PutOne
      <3> QED
        BY <2>1, <3>2, <3>3, <3>4 DEF StateInv, Told, StateMessage, LogMessage, TypeOK
    <2> QED
      BY <2>2, <2>3
  <1>10. ASSUME NEW v \in Viewers, Serve(v) PROVE StateInv'
    BY <1>10, QueueSame DEF TypeOK, MemberInv, StateInv, Told, Places, Versions, Serve, Go
  <1>11. ASSUME NEW v \in Viewers, Leave(v) PROVE StateInv'
    BY <1>11, QueueSame DEF TypeOK, MemberInv, StateInv, Told, Places, Versions, Leave, Go, CloseOnLeave, Close
  <1>12. ASSUME NEW v \in Viewers, Write(v) PROVE StateInv'
    <2>1. Take(v) /\ conn' = conn /\ states' = [states EXCEPT ![v] = states[v] \cup Head(queue[v]).states]
      BY <1>12 DEF Write
    <2>2. UNCHANGED <<version, update, told, at, initial, closed>>
      BY <2>1 DEF Take
    <2>3. QueuedStates(v) \subseteq QueuedStates(v)' \cup Head(queue[v]).states
      BY <2>1, TakeOne
    <2>4. \A w \in Viewers \ {v} : QueuedStates(w)' = QueuedStates(w)
      <3>1. \A w \in Viewers \ {v} : queue'[w] = queue[w]
        BY <2>1, TakeOne
      <3> QED
        BY <3>1 DEF QueuedStates, Versions, Lines
    <2>5. \A w \in Viewers : QueuedStates(w) \cup states[w] \subseteq QueuedStates(w)' \cup states'[w]
      BY <2>1, <2>3, <2>4 DEF TypeOK
    <2> QED
      BY <2>1, <2>2, <2>5 DEF StateInv, Told, TypeOK
  <1>13. ASSUME NEW v \in Viewers, WriteInVain(v) PROVE StateInv'
    <2>1. Take(v) /\ conn[v] # "open" /\ conn'[v] # "open" /\ states' = states
      BY <1>13 DEF WriteInVain, AfterWriter, TypeOK
    <2>2. UNCHANGED <<version, update, told, at, initial, closed>> /\ \A w \in Viewers \ {v} : conn'[w] = conn[w]
      BY <1>13 DEF WriteInVain, Take, TypeOK
    <2>3. \A w \in Viewers \ {v} : QueuedStates(w)' = QueuedStates(w)
      <3>1. \A w \in Viewers \ {v} : queue'[w] = queue[w]
        BY <2>1, TakeOne
      <3> QED
        BY <3>1 DEF QueuedStates, Versions, Lines
    <2> QED
      BY <2>1, <2>2, <2>3 DEF StateInv, Told, TypeOK
  <1>14. ASSUME NEW v \in Viewers, WriterEnds(v) PROVE StateInv'
    BY <1>14, QueueSame DEF TypeOK, MemberInv, StateInv, Told, Places, Versions, WriterEnds, AfterWriter
  <1>15. ASSUME NEW v \in Viewers, ConnectionLost(v) PROVE StateInv'
    BY <1>15, QueueSame DEF TypeOK, MemberInv, StateInv, Told, Places, Versions, ConnectionLost
  <1>16. CASE UNCHANGED vars
    BY <1>16, QueueSame DEF TypeOK, MemberInv, StateInv, Told, Places, Versions, vars
  <1> QED
    BY <1>1, <1>2, <1>3, <1>4, <1>5, <1>6, <1>7, <1>8, <1>9, <1>10, <1>11, <1>12, <1>13, <1>14, <1>15, <1>16
       DEF Next, Broadcast, HandleWS, Writer

\* The last lines are never lost on their way to a client.
LEMMA LogStep == TypeOK /\ MemberInv /\ LogInv /\ [Next]_vars => LogInv'
  <1> SUFFICES ASSUME TypeOK, MemberInv, LogInv, [Next]_vars PROVE LogInv'
    OBVIOUS
  <1> USE DEF hub, handler, channel, screen
  <1>1. ASSUME NEW b \in Broadcasters, Change(b) PROVE LogInv'
    BY <1>1, QueueSame DEF TypeOK, MemberInv, LogInv, Last, Places, Lines, Change
  <1>2. ASSUME NEW b \in Broadcasters, Describe(b) PROVE LogInv'
    BY <1>2, QueueSame DEF TypeOK, MemberInv, LogInv, Last, Places, Lines, Describe
  <1>3. ASSUME NEW b \in Broadcasters, BroadcastState(b) PROVE LogInv'
    <2>1. /\ Put(Receivers, StateMessage(told[b])) /\ Close(CutOff)
          /\ UNCHANGED <<version, at, initial, conn, states, lines, history, log, missed>>
      BY <1>3 DEF BroadcastState
    <2>2. StateMessage(told[b]) \in Messages
      BY MessageTypes DEF TypeOK
    <2>3. \A w \in Viewers :
             w \in Receivers /\ HasRoom(w) =>
                StateMessage(told[b]).states \subseteq QueuedStates(w)'
      BY <2>1, <2>2, PutOne
    <2>4. \A w \in Viewers : /\ QueuedStates(w) \subseteq QueuedStates(w)'
                             /\ QueuedLines(w) \subseteq QueuedLines(w)'
      BY <2>1, <2>2, PutOne
    <2>5. \A w \in Viewers : closed'[w] <=> closed[w] \/ w \in CutOff
      BY <2>1, CloseTypes
    <2>6. \A w \in Viewers : w \in clients /\ ~closed'[w] => w \in Receivers /\ HasRoom(w)
      BY <2>5 DEF CutOff, Receivers
    <2> QED
      BY <2>1, <2>4, <2>5 DEF LogInv, Last, TypeOK
  <1>4. ASSUME WriteLog PROVE LogInv'
    <2>1. LogMessage({lines + 1}) \in Messages
      <3>1. lines + 1 \in Lines
        BY <1>4 DEF TypeOK, WriteLog, Lines
      <3> QED
        BY <3>1, MessageTypes
    <2>2. Put(Receivers, LogMessage({lines + 1}))
      BY <1>4 DEF WriteLog
    <2>3. \A w \in Viewers :
             w \in Receivers /\ HasRoom(w) =>
                LogMessage({lines + 1}).log \subseteq QueuedLines(w)'
      BY <2>1, <2>2, PutOne
    <2>4. \A w \in Viewers : /\ QueuedStates(w) \subseteq QueuedStates(w)'
                             /\ QueuedLines(w) \subseteq QueuedLines(w)'
      BY <2>1, <2>2, PutOne
    <2>5. /\ UNCHANGED <<at, history, closed, conn, log>>
          /\ lines' = lines + 1 /\ lines \in Nat
          /\ missed' = [w \in Viewers |-> missed[w] \/ (w \in Receivers /\ ~HasRoom(w))]
      BY <1>4 DEF WriteLog, TypeOK
    <2>6. LogMessage({lines + 1}).log = {lines + 1}
      BY DEF LogMessage
    <2> SUFFICES ASSUME NEW w \in Viewers, at[w] \in {"logged", "ready", "reading"},
                        conn[w] = "open", ~closed[w], ~missed'[w],
                        NEW n \in Lines, Last(n)'
                 PROVE  \/ at[w] = "logged" /\ n \in history[w]
                        \/ n \in QueuedLines(w)' \cup log[w]
      BY <2>5 DEF LogInv
    <2>7. w \in Receivers /\ HasRoom(w) /\ ~missed[w]
      BY <2>5 DEF MemberInv, Receivers
    <2>8. CASE n = lines + 1
      BY <2>3, <2>6, <2>7, <2>8
    <2>9. CASE n # lines + 1
      <3>1. n \in Nat /\ Last(n)
        BY <2>5, <2>9 DEF Last, Lines
      <3> QED
        BY <2>4, <2>7, <3>1 DEF LogInv
    <2> QED
      BY <2>8, <2>9
  <1>5. ASSUME NEW v \in Viewers, Accept(v) PROVE LogInv'
    BY <1>5, QueueSame DEF TypeOK, MemberInv, LogInv, Last, Places, Lines, Accept, Go
  <1>6. ASSUME NEW v \in Viewers, TakeInitial(v) PROVE LogInv'
    BY <1>6, QueueSame DEF TypeOK, MemberInv, LogInv, Last, Places, Lines, TakeInitial, Go
  <1>7. ASSUME NEW v \in Viewers, SendInitial(v) PROVE LogInv'
    <2>1. UNCHANGED <<lines, history, closed, conn, log, missed>> /\ at[v] = "described"
      BY <1>7 DEF SendInitial, Send
    <2>2. CASE closed[v]
      <3>1. at' = [at EXCEPT ![v] = "panicked"] /\ queue' = queue
        BY <1>7, <2>2 DEF SendInitial, Send, Go
      <3> QED
        BY <2>1, <2>2, <3>1, QueueSame DEF LogInv, Last, TypeOK
    <2>3. CASE ~closed[v]
      <3>1. StateMessage(initial[v]) \in Messages
        BY MessageTypes DEF TypeOK
      <3>2. Put({v}, StateMessage(initial[v])) /\ HasRoom(v) /\ at' = [at EXCEPT ![v] = "queued"]
        BY <1>7, <2>3 DEF SendInitial, Send, Go
      <3>3. \A w \in Viewers : /\ QueuedStates(w) \subseteq QueuedStates(w)'
                               /\ QueuedLines(w) \subseteq QueuedLines(w)'
        BY <3>1, <3>2, PutOne
      <3>4. StateMessage(initial[v]).states \subseteq QueuedStates(v)' /\ StateMessage(initial[v]).log \subseteq QueuedLines(v)'
        BY <3>1, <3>2, PutOne
      <3> QED
        BY <2>1, <3>2, <3>3, <3>4 DEF LogInv, Last, StateMessage, LogMessage, TypeOK
    <2> QED
      BY <2>2, <2>3
  <1>8. ASSUME NEW v \in Viewers, TakeHistory(v) PROVE LogInv'
    <2>1. /\ UNCHANGED <<lines, queue, closed, conn, log, missed>>
          /\ at' = [at EXCEPT ![v] = IF Ring = {} THEN "ready" ELSE "logged"]
          /\ history' = [history EXCEPT ![v] = Ring]
      BY <1>8 DEF TakeHistory, Go
    <2>2. \A n \in Lines : Last(n) <=> n \in Ring
      BY DEF Last, Ring
    <2>3. \A n \in Lines : Last(n)' <=> Last(n)
      BY <2>1 DEF Last
    <2> QED
      BY <2>1, <2>2, <2>3, QueueSame DEF LogInv, TypeOK
  <1>9. ASSUME NEW v \in Viewers, SendHistory(v) PROVE LogInv'
    <2>1. UNCHANGED <<lines, history, closed, conn, log, missed>> /\ at[v] = "logged"
      BY <1>9 DEF SendHistory, Send
    <2>2. CASE closed[v]
      <3>1. at' = [at EXCEPT ![v] = "panicked"] /\ queue' = queue
        BY <1>9, <2>2 DEF SendHistory, Send, Go
      <3> QED
        BY <2>1, <2>2, <3>1, QueueSame DEF LogInv, Last, TypeOK
    <2>3. CASE ~closed[v]
      <3>1. LogMessage(history[v]) \in Messages
        BY MessageTypes DEF TypeOK
      <3>2. Put({v}, LogMessage(history[v])) /\ HasRoom(v) /\ at' = [at EXCEPT ![v] = "ready"]
        BY <1>9, <2>3 DEF SendHistory, Send, Go
      <3>3. \A w \in Viewers : /\ QueuedStates(w) \subseteq QueuedStates(w)'
                               /\ QueuedLines(w) \subseteq QueuedLines(w)'
        BY <3>1, <3>2, PutOne
      <3>4. LogMessage(history[v]).states \subseteq QueuedStates(v)' /\ LogMessage(history[v]).log \subseteq QueuedLines(v)'
        BY <3>1, <3>2, PutOne
      <3> QED
        BY <2>1, <3>2, <3>3, <3>4 DEF LogInv, Last, StateMessage, LogMessage, TypeOK
    <2> QED
      BY <2>2, <2>3
  <1>10. ASSUME NEW v \in Viewers, Serve(v) PROVE LogInv'
    BY <1>10, QueueSame DEF TypeOK, MemberInv, LogInv, Last, Places, Lines, Serve, Go
  <1>11. ASSUME NEW v \in Viewers, Leave(v) PROVE LogInv'
    BY <1>11, QueueSame DEF TypeOK, MemberInv, LogInv, Last, Places, Lines, Leave, Go, CloseOnLeave, Close
  <1>12. ASSUME NEW v \in Viewers, Write(v) PROVE LogInv'
    <2>1. Take(v) /\ conn' = conn /\ log' = [log EXCEPT ![v] = log[v] \cup Head(queue[v]).log]
      BY <1>12 DEF Write
    <2>2. UNCHANGED <<lines, at, history, closed, missed>>
      BY <2>1 DEF Take
    <2>3. QueuedLines(v) \subseteq QueuedLines(v)' \cup Head(queue[v]).log
      BY <2>1, TakeOne
    <2>4. \A w \in Viewers \ {v} : QueuedLines(w)' = QueuedLines(w)
      <3>1. \A w \in Viewers \ {v} : queue'[w] = queue[w]
        BY <2>1, TakeOne
      <3> QED
        BY <3>1 DEF QueuedLines, Versions, Lines
    <2>5. \A w \in Viewers : QueuedLines(w) \cup log[w] \subseteq QueuedLines(w)' \cup log'[w]
      BY <2>1, <2>3, <2>4 DEF TypeOK
    <2> QED
      BY <2>1, <2>2, <2>5 DEF LogInv, Last, TypeOK
  <1>13. ASSUME NEW v \in Viewers, WriteInVain(v) PROVE LogInv'
    <2>1. Take(v) /\ conn[v] # "open" /\ conn'[v] # "open" /\ log' = log
      BY <1>13 DEF WriteInVain, AfterWriter, TypeOK
    <2>2. UNCHANGED <<lines, at, history, closed, missed>> /\ \A w \in Viewers \ {v} : conn'[w] = conn[w]
      BY <1>13 DEF WriteInVain, Take, TypeOK
    <2>3. \A w \in Viewers \ {v} : QueuedLines(w)' = QueuedLines(w)
      <3>1. \A w \in Viewers \ {v} : queue'[w] = queue[w]
        BY <2>1, TakeOne
      <3> QED
        BY <3>1 DEF QueuedLines, Versions, Lines
    <2> QED
      BY <2>1, <2>2, <2>3 DEF LogInv, Last, TypeOK
  <1>14. ASSUME NEW v \in Viewers, WriterEnds(v) PROVE LogInv'
    BY <1>14, QueueSame DEF TypeOK, MemberInv, LogInv, Last, Places, Lines, WriterEnds, AfterWriter
  <1>15. ASSUME NEW v \in Viewers, ConnectionLost(v) PROVE LogInv'
    BY <1>15, QueueSame DEF TypeOK, MemberInv, LogInv, Last, Places, Lines, ConnectionLost
  <1>16. CASE UNCHANGED vars
    BY <1>16, QueueSame DEF TypeOK, MemberInv, LogInv, Last, Places, Lines, vars
  <1> QED
    BY <1>1, <1>2, <1>3, <1>4, <1>5, <1>6, <1>7, <1>8, <1>9, <1>10, <1>11, <1>12, <1>13, <1>14, <1>15, <1>16
       DEF Next, Broadcast, HandleWS, Writer

-----------------------------------------------------------------------------
\* The invariant holds in every reachable state.
THEOREM Invariance == Spec => []IInv
  <1>1. IInv /\ [Next]_vars => IInv'
    BY TypeStep, MemberStep, StateStep, LogStep DEF IInv
  <1> QED
    BY InitInv, <1>1, PTL DEF Spec

\* Every variable has its type; no channel holds more than its capacity.
THEOREM TypeCorrect == Spec => []TypeOK
  <1>1. IInv => TypeOK
    BY DEF IInv
  <1> QED
    BY Invariance, <1>1, PTL

\* Broadcasts, log calls and readers never panic: every channel is closed once,
\* and no closed one belongs to a client.
THEOREM BroadcastsNeverPanic == Spec => []HubNeverPanics
  <1>1. IInv => HubNeverPanics
    BY DEF IInv, TypeOK, MemberInv, HubNeverPanics
  <1> QED
    BY Invariance, <1>1, PTL

\* A dashboard that is up to date has been sent the current state.
THEOREM CurrentStateReachesViewers == Spec => []CurrentStateIsSent
  <1>1. IInv => CurrentStateIsSent
    <2> SUFFICES ASSUME IInv, \A b \in Broadcasters : update[b] = "idle",
                        NEW v \in Viewers, UpToDate(v)
                 PROVE  version \in states[v]
      BY DEF CurrentStateIsSent
    <2>1. ~Told
      BY DEF Told
    <2>2. QueuedStates(v) = {}
      BY DEF UpToDate, QueuedStates
    <2> QED
      BY <2>1, <2>2 DEF IInv, StateInv, UpToDate
  <1> QED
    BY Invariance, <1>1, PTL

\* A dashboard that is up to date and missed no line shows the last ones.
THEOREM LogReachesViewers == Spec => []LogHasNoGap
  <1>1. IInv => LogHasNoGap
    <2> SUFFICES ASSUME IInv, NEW v \in Viewers, UpToDate(v), ~missed[v],
                        NEW n \in Lines, n <= lines, n + RingSize > lines
                 PROVE  n \in log[v]
      BY DEF LogHasNoGap
    <2>1. QueuedLines(v) = {}
      BY DEF UpToDate, QueuedLines
    <2> QED
      BY <2>1 DEF IInv, LogInv, Last, UpToDate
  <1> QED
    BY Invariance, <1>1, PTL
-----------------------------------------------------------------------------
(* The safety part of ClientsAreForgotten.                                 *)

\* Reader and writer of a client end each other: a writer that has ended has closed the
\* connection the reader reads, a reader that has ended has closed the channel the writer
\* empties; a handler that panicked was cut off, and has no writer.
EachEndsTheOther ==
    \A v \in Viewers :
        /\ writer[v] = "none" <=> at[v] \notin {"reading", "ended"}
        /\ writer[v] = "ended" => conn[v] = "closed"
        /\ at[v] = "ended" => closed[v] /\ conn[v] = "closed" /\ v \notin clients
        /\ at[v] = "panicked" => closed[v] /\ v \notin clients

\* Every step keeps it.
LEMMA EndsStep == TypeOK /\ MemberInv /\ EachEndsTheOther /\ [Next]_vars => EachEndsTheOther'
  <1> SUFFICES ASSUME TypeOK, MemberInv, EachEndsTheOther, [Next]_vars PROVE EachEndsTheOther'
    OBVIOUS
  <1> USE DEF TypeOK, EachEndsTheOther, hub, handler, channel, screen, Go
  <1>1. ASSUME UNCHANGED <<clients, at, closed, writer, conn>> PROVE EachEndsTheOther'
    BY <1>1
  <1>2. ASSUME NEW b \in Broadcasters, Change(b) \/ Describe(b) PROVE EachEndsTheOther'
    BY <1>1, <1>2 DEF Change, Describe
  <1>3. ASSUME NEW b \in Broadcasters, BroadcastState(b) PROVE EachEndsTheOther'
    BY <1>3 DEF BroadcastState, Close
  <1>4. ASSUME WriteLog PROVE EachEndsTheOther'
    BY <1>1, <1>4 DEF WriteLog
  <1>5. ASSUME NEW v \in Viewers, Accept(v) \/ TakeInitial(v) \/ TakeHistory(v) \/ Serve(v)
        PROVE  EachEndsTheOther'
    BY <1>5 DEF Accept, TakeInitial, TakeHistory, Serve
  <1>6. ASSUME NEW v \in Viewers, SendInitial(v) \/ SendHistory(v) PROVE EachEndsTheOther'
    BY <1>6 DEF SendInitial, SendHistory, Send, MemberInv
  <1>7. ASSUME NEW v \in Viewers, Leave(v) PROVE EachEndsTheOther'
    BY <1>7 DEF Leave, CloseOnLeave, Close
  <1>8. ASSUME NEW v \in Viewers, Write(v) \/ WriteInVain(v) PROVE EachEndsTheOther'
    BY <1>8 DEF Write, WriteInVain, Take, AfterWriter
  <1>9. ASSUME NEW v \in Viewers, WriterEnds(v) PROVE EachEndsTheOther'
    BY <1>9 DEF WriterEnds, AfterWriter
  <1>10. ASSUME NEW v \in Viewers, ConnectionLost(v) PROVE EachEndsTheOther'
    BY <1>10 DEF ConnectionLost
  <1>11. CASE UNCHANGED vars
    BY <1>1, <1>11 DEF vars
  <1> QED
    BY <1>2, <1>3, <1>4, <1>5, <1>6, <1>7, <1>8, <1>9, <1>10, <1>11
       DEF Next, Broadcast, HandleWS, Writer

\* Whichever of the two goroutines of a client ends first (server.go, wsReader and
\* wsWriter), and whoever cut it off, it has done what lets the other one end.
THEOREM ReaderAndWriterEndTogether == Spec => []EachEndsTheOther
  <1>1. Init => EachEndsTheOther
    BY DEF Init, EachEndsTheOther
  <1>2. IInv /\ EachEndsTheOther /\ [Next]_vars => EachEndsTheOther'
    BY EndsStep DEF IInv
  <1> QED
    BY <1>1, <1>2, Invariance, PTL DEF Spec

\* Nothing is queued any more for a client that was cut off or left.
LEMMA ClosedStep ==
  ASSUME TypeOK, MemberInv, Next, NEW v \in Viewers, closed[v]
  PROVE  closed'[v] /\ Len(queue'[v]) <= Len(queue[v])
  <1> USE DEF TypeOK, hub, handler, channel
  <1>1. Len(queue[v]) \in Nat
    OBVIOUS
  <1>2. ASSUME UNCHANGED channel PROVE closed'[v] /\ Len(queue'[v]) <= Len(queue[v])
    BY <1>1, <1>2
  <1>3. ASSUME NEW w \in Viewers, Take(w) PROVE closed'[v] /\ Len(queue'[v]) <= Len(queue[v])
    <2>1. queue[w] \in Seq(Messages) /\ queue[w] # <<>>
      BY <1>3 DEF Take
    <2>2. Len(Tail(queue[w])) <= Len(queue[w])
      BY <2>1
    <2> QED
      BY <1>1, <1>3, <2>2 DEF Take
  <1>4. ASSUME NEW set, v \notin set, NEW msg, Put(set, msg) PROVE queue'[v] = queue[v]
    BY <1>4 DEF Put
  <1>5. ASSUME NEW b \in Broadcasters, Change(b) \/ Broadcast(b)
        PROVE  closed'[v] /\ Len(queue'[v]) <= Len(queue[v])
    <2>1. CASE Change(b) \/ Describe(b)
      BY <1>2, <2>1 DEF Change, Describe
    <2>2. CASE BroadcastState(b)
      <3>1. Put(Receivers, StateMessage(told[b])) /\ Close(CutOff) /\ v \notin Receivers
        BY <2>2 DEF BroadcastState, Receivers
      <3>2. queue'[v] = queue[v]
        BY <1>4, <3>1
      <3>3. closed'[v]
        BY <3>1 DEF Close
      <3> QED
        BY <1>1, <3>2, <3>3
    <2> QED
      BY <1>5, <2>1, <2>2 DEF Broadcast
  <1>6. ASSUME WriteLog PROVE closed'[v] /\ Len(queue'[v]) <= Len(queue[v])
    <2>1. Put(Receivers, LogMessage({lines + 1})) /\ closed' = closed /\ v \notin Receivers
      BY <1>6 DEF WriteLog, Receivers
    <2>2. queue'[v] = queue[v]
      BY <1>4, <2>1
    <2> QED
      BY <1>1, <2>1, <2>2
  <1>7. ASSUME NEW w \in Viewers, Accept(w) \/ TakeInitial(w) \/ TakeHistory(w) \/ Serve(w)
        PROVE  UNCHANGED channel
    BY <1>7 DEF Accept, TakeInitial, TakeHistory, Serve
  <1>8. ASSUME NEW w \in Viewers, SendInitial(w) \/ SendHistory(w)
        PROVE  queue'[v] = queue[v] /\ closed' = closed
    BY <1>4, <1>8 DEF SendInitial, SendHistory, Send
  <1>9. ASSUME NEW w \in Viewers, Leave(w) PROVE queue' = queue /\ closed'[v]
    BY <1>9 DEF Leave, CloseOnLeave, Close
  <1>10. ASSUME NEW w \in Viewers, Write(w) \/ WriteInVain(w) PROVE Take(w)
    BY <1>10 DEF Write, WriteInVain
  <1>11. ASSUME NEW w \in Viewers, WriterEnds(w) \/ ConnectionLost(w) PROVE UNCHANGED channel
    BY <1>11 DEF WriterEnds, ConnectionLost
  <1> QED
    BY <1>1, <1>2, <1>3, <1>5, <1>6, <1>7, <1>8, <1>9, <1>10, <1>11
       DEF Next, HandleWS, Writer

\* No broadcast, log line or handler sends to a closed channel (server.go,
\* BroadcastState, the log listener and handleWS): its writer gets to the end of it.
THEOREM ClosedChannelsDrain ==
  Spec => [][\A v \in Viewers :
                closed[v] => closed'[v] /\ Len(queue'[v]) <= Len(queue[v])]_vars
  <1>1. IInv /\ [Next]_vars =>
          [\A v \in Viewers : closed[v] => closed'[v] /\ Len(queue'[v]) <= Len(queue[v])]_vars
    BY ClosedStep DEF IInv
  <1> QED
    BY <1>1, Invariance, PTL DEF Spec
=============================================================================

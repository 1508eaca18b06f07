---------------------------- MODULE StateMirror ----------------------------
(***************************************************************************)
(* The state of one baby, src/internal/baby/state.go, and its mirror at    *)
(* the MQTT broker, src/internal/mqtt/publisher.go.                        *)
(*                                                                         *)
(* Goroutines (readers of the camera's connection, push receiver, message  *)
(* poll, watchdog) change the state under its lock and notify its          *)
(* subscriber afterwards: a snapshot is taken and every topic whose value  *)
(* differs from the last one recorded is recorded and then sent.  An alert *)
(* ends when a snapshot finds it older than AlertTTL; a timer makes sure   *)
(* that a snapshot is taken then.                                          *)
(*                                                                         *)
(* Sections under a mutex are one step.  Time passes in units: AlertTTL    *)
(* is TTL of them and the timer, AlertTTL + 1s, TTL + 1.  The age of an    *)
(* alert counts up to TTL + 1, from there on it is expired.                *)
(***************************************************************************)
EXTENDS Integers, Sequences

CONSTANTS
    Goroutines,   \* those that change the state
    Timers,       \* identities of timers; bounds how many exist at once
    None,         \* no timer
    Topics,       \* the sequence in which PublishState goes through the topics
    Values,       \* values of the topics that are no alerts
    Nothing,      \* no value was recorded or retained yet; also the value ""
    TTL,          \* AlertTTL
    Ages          \* ages of the alerts when they are raised

AlertTopics == {"cry_detected", "sound_alert", "motion_alert"}
SensorTopics == {"temperature", "humidity", "light", "is_night"}
TopicSet == {Topics[i] : i \in 1..Len(Topics)}
Alerts == TopicSet \cap AlertTopics
Plain == TopicSet \ AlertTopics
Flags == {"true", "false"}

ASSUME NoneAssumption == None \notin Timers
ASSUME ActorsAssumption == Goroutines \cap Timers = {}
ASSUME TopicsAssumption ==
    /\ Topics \in Seq(STRING)
    /\ \A i, j \in 1..Len(Topics) : Topics[i] = Topics[j] => i = j
ASSUME ValuesAssumption == Values # {} /\ Nothing \notin Flags
ASSUME TTLAssumption == TTL \in Nat
ASSUME AgesAssumption == Ages \subseteq Int /\ \A a \in Ages : a <= TTL + 1

Actors == Goroutines \cup Timers
Off == TTL + 2

VARIABLES
    state,       \* the fields of State, by topic
    age,         \* how old an alert that is set is
    at,          \* where a goroutine is, or the function of a timer
    hasAlert,    \* local variable of UpdateSensors
    snap,        \* the snapshot PublishState works on
    pos,         \* how far it has come
    alertTimer,  \* s.alertTimer
    left,        \* time until a timer fires
    lastPub,     \* p.lastPub
    online,      \* the connection to the broker works
    retained,    \* what the broker retains
    raced,       \* history: two publications of the state have overlapped
    lost         \* history: a message was lost

work == <<at, hasAlert, snap, pos>>
timers == <<alertTimer, left>>
broker == <<lastPub, online, retained, lost>>
vars == <<state, age, work, timers, broker, raced>>

Content == [TopicSet -> Values \cup Flags \cup {Nothing}]

TypeOK ==
    /\ state \in Content
    /\ age \in [Alerts -> Int] /\ \A t \in Alerts : age[t] <= TTL + 1
    /\ at \in [Actors -> {"idle", "fired", "notified", "publishing", "sending",
                          "scheduling"}]
    /\ hasAlert \in [Actors -> BOOLEAN]
    /\ \A a \in Actors : at[a] \in {"idle", "fired"} => ~hasAlert[a]
    /\ snap \in [Actors -> Content]
    /\ pos \in [Actors -> 1..(Len(Topics) + 1)]
    /\ alertTimer \in Timers \cup {None}
    /\ left \in [Timers -> 0..Off]
    /\ lastPub \in Content /\ retained \in Content
    /\ online \in BOOLEAN /\ raced \in BOOLEAN /\ lost \in BOOLEAN

Blank == [t \in TopicSet |-> Nothing]

\* The first connection has just called SetWSAlive: NewState's values are to
\* be published.
Init ==
    /\ state \in [TopicSet -> Values \cup {"false"}]
    /\ \A t \in TopicSet : t \in Alerts <=> state[t] = "false"
    /\ age = [t \in Alerts |-> 0]
    /\ \E g \in Goroutines :
          at = [a \in Actors |-> IF a = g THEN "notified" ELSE "idle"]
    /\ hasAlert = [a \in Actors |-> FALSE]
    /\ snap = [a \in Actors |-> Blank]
    /\ pos = [a \in Actors |-> 1]
    /\ alertTimer = None
    /\ left = [t \in Timers |-> Off]
    /\ lastPub = Blank
    /\ online = TRUE
    /\ retained = Blank
    /\ raced = FALSE /\ lost = FALSE
-----------------------------------------------------------------------------
(* A definition that nothing uses is a mutant of the one that follows it.  *)

Publishing(a) == at[a] \in {"publishing", "sending"}

NeverExpires(t) == FALSE

\* shouldClear of Snapshot.
Expired(t) == state[t] = "true" /\ age[t] > TTL

\* What Snapshot leaves in the state and returns.
Cleared ==
    [t \in TopicSet |-> IF t \in Alerts /\ Expired(t) THEN "false" ELSE state[t]]

OnlyFirst(a) == lastPub[Topics[pos[a]]] = Nothing

\* pubDedup sends the value.
MustSend(a) == snap[a][Topics[pos[a]]] # lastPub[Topics[pos[a]]]

NewlyRaised(old, new) == \E t \in Alerts : old[t] = "false" /\ new[t] = "true"

\* hasAlert of UpdateSensors: an alert is set, whether new or not.
AlertIn(old, new) == \E t \in Alerts : new[t] = "true"

\* UpdateSensors goes on to scheduleAlertClear.
AfterPublish(a) == IF hasAlert[a] THEN "scheduling" ELSE "idle"

LeaveRunning(t) == left

\* The timer starts again from the beginning.
Restarted(t) == [left EXCEPT ![t] = TTL + 1]
-----------------------------------------------------------------------------
(* Updates of the state                                                    *)

\* UpdateSensors, UpdateControls and the setters: the fields are changed under
\* the lock; the notification follows without it.
Update(g, new, sensors) ==
    /\ at[g] = "idle"
    /\ at' = [at EXCEPT ![g] = "notified"]
    /\ state' = new
    /\ hasAlert' = [hasAlert EXCEPT ![g] = sensors /\ AlertIn(state, new)]
    /\ UNCHANGED <<snap, pos, timers, broker, raced>>

\* An alert, from the camera, from a push notification (age 0) or from a
\* message of the cloud, which carries its time.
RaiseAlert(g, t, a) ==
    /\ Update(g, [state EXCEPT ![t] = "true"], TRUE)
    /\ age' = [age EXCEPT ![t] = a]

\* The camera reports that the crying has stopped.
EndCry(g) ==
    /\ "cry_detected" \in Alerts
    /\ Update(g, [state EXCEPT !["cry_detected"] = "false"], TRUE)
    /\ UNCHANGED age

SetValue(g, t, v) ==
    /\ Update(g, [state EXCEPT ![t] = v], t \in SensorTopics)
    /\ UNCHANGED age

\* scheduleAlertClear, after the notification.
ScheduleClear(g) ==
    /\ at[g] = "scheduling"
    /\ at' = [at EXCEPT ![g] = "idle"]
    /\ hasAlert' = [hasAlert EXCEPT ![g] = FALSE]
    /\ \/ alertTimer # None /\ left' = Restarted(alertTimer) /\ UNCHANGED alertTimer
       \/ /\ alertTimer = None
          /\ \E t \in Timers : /\ left[t] = Off /\ at[t] = "idle"
                               /\ alertTimer' = t
                               /\ left' = [left EXCEPT ![t] = TTL + 1]
    /\ UNCHANGED <<state, age, snap, pos, broker, raced>>
-----------------------------------------------------------------------------
(* Timers and snapshots                                                    *)

TimePasses ==
    LET older(t) == state[t] = "true" /\ age[t] <= TTL
        running(t) == left[t] \in 1..(TTL + 1)
    IN /\ (\E t \in Alerts : older(t)) \/ (\E t \in Timers : running(t))
       /\ age' = [t \in Alerts |-> IF older(t) THEN age[t] + 1 ELSE age[t]]
       /\ left' = [t \in Timers |-> IF running(t) THEN left[t] - 1 ELSE left[t]]
       /\ UNCHANGED <<state, work, alertTimer, broker, raced>>

\* The runtime starts the timer's function, some time after it is due.
Fire(t) ==
    /\ left[t] = 0 /\ at[t] = "idle"
    /\ left' = [left EXCEPT ![t] = Off]
    /\ at' = [at EXCEPT ![t] = "fired"]
    /\ UNCHANGED <<state, age, hasAlert, snap, pos, alertTimer, broker, raced>>

TimerFunc(t) ==
    /\ at[t] = "fired"
    /\ at' = [at EXCEPT ![t] = "notified"]
    /\ alertTimer' = None
    /\ UNCHANGED <<state, age, hasAlert, snap, pos, left, broker, raced>>

\* What Snapshot does to the state; an alert that has ended has no age.
TakeSnapshot ==
    /\ state' = Cleared
    /\ age' = [t \in Alerts |-> IF Cleared[t] = "true" THEN age[t] ELSE 0]

\* A snapshot for the dashboard or for resolving a track; it tells nobody.
Look ==
    /\ TakeSnapshot
    /\ UNCHANGED <<work, timers, broker, raced>>
-----------------------------------------------------------------------------
(* PublishState                                                            *)

BeginPublish(a) ==
    /\ at[a] = "notified"
    /\ at' = [at EXCEPT ![a] = "publishing"]
    /\ TakeSnapshot
    /\ snap' = [snap EXCEPT ![a] = Cleared]
    /\ raced' = (raced \/ \E b \in Actors : Publishing(b))
    /\ UNCHANGED <<hasAlert, pos, timers, broker>>

\* pubDedup: nothing to send.
Same(a) ==
    /\ at[a] = "publishing"
    /\ pos[a] <= Len(Topics)
    /\ ~MustSend(a)
    /\ pos' = [pos EXCEPT ![a] = @ + 1]
    /\ UNCHANGED <<state, age, at, hasAlert, snap, timers, broker, raced>>

\* pubDedup: the value is recorded under the lock ...
Record(a) ==
    /\ at[a] = "publishing"
    /\ pos[a] <= Len(Topics)
    /\ MustSend(a)
    /\ at' = [at EXCEPT ![a] = "sending"]
    /\ lastPub' = [lastPub EXCEPT ![Topics[pos[a]]] = snap[a][Topics[pos[a]]]]
    /\ UNCHANGED <<state, age, hasAlert, snap, pos, timers, online, retained, raced, lost>>

\* ... and sent without it, at QoS 0, to be retained.
SendValue(a) ==
    /\ at[a] = "sending"
    /\ at' = [at EXCEPT ![a] = "publishing"]
    /\ pos' = [pos EXCEPT ![a] = @ + 1]
    /\ retained' = IF online
                   THEN [retained EXCEPT ![Topics[pos[a]]] = snap[a][Topics[pos[a]]]]
                   ELSE retained
    /\ lost' = (lost \/ ~online)
    /\ UNCHANGED <<state, age, hasAlert, snap, timers, lastPub, online, raced>>

EndPublish(a) ==
    /\ at[a] = "publishing"
    /\ pos[a] > Len(Topics)
    /\ at' = [at EXCEPT ![a] = AfterPublish(a)]
    /\ snap' = [snap EXCEPT ![a] = Blank]
    /\ pos' = [pos EXCEPT ![a] = 1]
    /\ UNCHANGED <<state, age, hasAlert, timers, broker, raced>>

\* The connection breaks and is established again; paho drops what is published
\* at QoS 0 in the meantime, and nothing makes the publisher send it again.
LinkChanges ==
    /\ online' = ~online
    /\ UNCHANGED <<state, age, work, timers, lastPub, retained, raced, lost>>
-----------------------------------------------------------------------------
Change(g) ==
    \/ \E t \in Alerts, a \in Ages : RaiseAlert(g, t, a)
    \/ EndCry(g)
    \/ \E t \in Plain, v \in Values : SetValue(g, t, v)

Publish(a) ==
    BeginPublish(a) \/ Same(a) \/ Record(a) \/ SendValue(a) \/ EndPublish(a)

Next ==
    \/ \E g \in Goroutines : Change(g) \/ ScheduleClear(g)
    \/ \E a \in Actors : Publish(a)
    \/ \E t \in Timers : Fire(t) \/ TimerFunc(t)
    \/ TimePasses \/ Look \/ LinkChanges

Spec == Init /\ [][Next]_vars

(* Goroutines run, time passes and timers fire.  A goroutine that needs a   *)
(* timer gets an identity.  Nothing makes anyone change the state, look at  *)
(* it or repair the connection.                                            *)
Fairness ==
    /\ \A a \in Actors : WF_vars(Publish(a))
    /\ \A g \in Goroutines : SF_vars(ScheduleClear(g))
    /\ \A t \in Timers : WF_vars(Fire(t) \/ TimerFunc(t))
    /\ WF_vars(TimePasses)

FairSpec == Spec /\ Fairness
-----------------------------------------------------------------------------
(* Properties                                                              *)

Quiet == \A a \in Actors : at[a] = "idle"

\* A timer will fire when the alert is no longer younger than AlertTTL.
TimerCovers(t) ==
    \E m \in Timers : left[m] # Off /\ left[m] + age[t] > TTL

\* When nobody is publishing, the broker shows the state, if publications did
\* not overlap and no message was lost; an alert a dashboard's snapshot has
\* ended is still shown while a timer is running.
MirrorIsExact ==
    Quiet /\ ~raced /\ ~lost =>
        \A t \in TopicSet :
            \/ retained[t] = state[t]
            \/ /\ t \in Alerts /\ state[t] = "false"
               /\ \E m \in Timers : left[m] # Off

\* An alert that is set will be ended without any further update: a timer fires
\* when it has expired, or is about to be started, or has fired and the
\* snapshot of its function ends the alert.
AlertWillEnd ==
    \A t \in Alerts : state[t] = "true" =>
        \/ TimerCovers(t)
        \/ \E g \in Goroutines : hasAlert[g]
        \/ age[t] > TTL /\ \E a \in Actors : at[a] \in {"fired", "notified"}

\* When no more alerts are raised, the broker stops showing alerts, if
\* publications do not overlap and no message is lost, although nothing else
\* changes the state.
AlertsDisappear ==
    /\ <>[][~ \E g \in Goroutines, t \in Alerts, a \in Ages : RaiseAlert(g, t, a)]_vars
    /\ [](~raced /\ ~lost)
    => <>[](\A t \in Alerts : retained[t] # "true")

\* publisher.go:70: lastPub holds the last published value of every topic.  No run
\* checks it, for it fails: of two publications that overlap the one that recorded
\* last may send first.
LastPubIsPublished == Quiet /\ ~lost => lastPub = retained

\* The publications as MirroredState has them; of several at once no more is said.
Busy == \E a \in Actors : Publishing(a)
Publisher == CHOOSE a \in Actors : Publishing(a)
Taken == IF Busy THEN snap[Publisher] ELSE retained

Follower == INSTANCE MirroredState
    WITH Contents <- Content, value <- state, taken <- Taken, shown <- retained,
         busy <- Busy

\* Until publications overlap or a message is lost, every publication brings the
\* broker from one snapshot of the state to the next one, topic by topic, and ends
\* when all of it is there.  No run checks it; it is a theorem.
MirrorFollowsState ==
    /\ Follower!Init
    /\ [][~raced' /\ ~lost' => Follower!Next \/ UNCHANGED Follower!vars]_vars
=============================================================================

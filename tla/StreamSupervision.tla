-------------------------- MODULE StreamSupervision --------------------------
(***************************************************************************)
(* How the stream of one baby is kept going, and shown: a composition of   *)
(*   - the client's connection to the cloud and its streaming requests,    *)
(*     src/internal/nanit/client.go (CameraClient has their details),      *)
(*   - the callbacks that set WSAlive and the stream state, RestartStream  *)
(*     and the watchdog, src/internal/baby/manager.go,                     *)
(*   - the publishers of the relay and what it does when one leaves,       *)
(*     src/internal/rtmp/server.go (RtmpRelay has the packets),            *)
(*   - and the camera, as far as these parts notice it.                    *)
(*                                                                         *)
(* Whoever wants the stream back marks it stopped and then asks the camera *)
(* for it, in two steps.  The state shown is otherwise the one the camera  *)
(* last reported, in an answer or by itself.  Time is abstracted: a timer  *)
(* fires at any time, and eventually.  The manager stays started.          *)
(***************************************************************************)
EXTENDS Naturals

CONSTANTS
    Pubs,       \* identities of publisher connections to the relay
    Loops,      \* identities of retry loops; bounds how many run at once
    None,       \* no publisher
    MaxAsked,   \* bound: requests for the stream the camera has not answered
    MaxEntries  \* bound: entries of an answer

ASSUME NoneAssumption == None \notin Pubs
ASSUME MaxAskedAssumption == MaxAsked \in Nat \ {0}
ASSUME MaxEntriesAssumption == MaxEntries \in Nat \ {0}

VARIABLES
    phase,      \* where connect of the client is
    link,       \* the socket of its connection
    asked,      \* requests to stream under way to the camera
    hand,       \* the message the reader of the connection is handling
    entries,    \* how many entries of it onStreaming has still to be called with
    retrying,   \* streamRetrying of the client
    retry,      \* where a streamRetryLoop is
    alive,      \* WSAlive of the baby's state
    stream,     \* stream state of the baby's state
    told,       \* history: the status reported last, since the bridge set stream itself
    watch,      \* where the watchdog is
    pub,        \* where handlePublisher, or its callback, of a publisher is
    registered, \* the publisher in the relay's map
    awake,      \* camera: not in sleep mode
    wants,      \* camera: it was asked to stream and will connect to the relay
    feeds       \* camera: the publisher connection it feeds

client == <<phase, link, asked, hand, entries, retrying, retry>>
state == <<alive, stream, told>>
relay == <<pub, registered>>
camera == <<awake, wants, feeds>>
vars == <<client, state, watch, relay, camera>>

Phases == {"down", "connected", "serving", "leaving", "gone"}
Messages == {"ok", "sleeping", "failed", "report"}
Statuses == {"started", "stopped", "paused"}
Shown == [started |-> "active", stopped |-> "stopped", paused |-> "unhealthy"]

TypeOK ==
    /\ phase \in Phases /\ link \in {"none", "open", "broken"}
    /\ asked \in 0..MaxAsked
    /\ hand \in Messages \cup {"none"} /\ entries \in 0..MaxEntries
    /\ retrying \in BOOLEAN /\ retry \in [Loops -> {"none", "sleeping", "waiting"}]
    /\ alive \in BOOLEAN /\ stream \in {"stopped", "active", "unhealthy"}
    /\ told \in Statuses \cup {"nothing"}
    /\ watch \in {"ticking", "missing", "marked", "cooling"}
    /\ pub \in [Pubs -> {"none", "open", "left", "marked"}]
    /\ registered \in Pubs \cup {None}
    /\ awake \in BOOLEAN /\ wants \in BOOLEAN
    /\ feeds \in Pubs \cup {None}

Init ==
    /\ phase = "down" /\ link = "none" /\ asked = 0 /\ hand = "none" /\ entries = 0
    /\ retrying = FALSE /\ retry = [l \in Loops |-> "none"]
    /\ alive = FALSE /\ stream = "stopped" /\ told = "nothing"
    /\ watch = "ticking"
    /\ pub = [p \in Pubs |-> "none"] /\ registered = None
    /\ awake \in BOOLEAN /\ wants = FALSE /\ feeds = None
-----------------------------------------------------------------------------
(* Requests.  A definition that nothing uses is a mutant of the one that   *)
(* follows it.                                                             *)

\* startStreaming; what is written to a broken connection is lost or refused.
Ask == \/ link = "open" /\ asked' = IF asked < MaxAsked THEN asked + 1 ELSE asked
       \/ link = "broken" /\ UNCHANGED asked
AskFails == link # "open" /\ UNCHANGED asked

NeverRetry == UNCHANGED <<retrying, retry>>

\* scheduleStreamRetry: nothing if a loop is thought to run.
ScheduleRetry ==
    \/ retrying /\ UNCHANGED <<retrying, retry>>
    \/ /\ ~retrying /\ retrying' = TRUE
       /\ \E l \in Loops : retry[l] = "none" /\ retry' = [retry EXCEPT ![l] = "sleeping"]

\* RestartStreaming, and the first request of a connection.
AskOrRetry ==
    \/ Ask /\ UNCHANGED <<retrying, retry>>
    \/ AskFails /\ ScheduleRetry

GoOnAsking == retrying

\* An accepted request ends the retry loops when they next look.
AfterAccepted == FALSE

ShownInactive == stream # "active"

\* What the watchdog takes for a lost stream.
StreamMissing == registered = None

\* SetStreamState of RestartStream, the watchdog and onDisconnect.
MarkStopped == stream' = "stopped" /\ told' = "nothing"

AskIfMissing == IF registered = None THEN AskOrRetry ELSE UNCHANGED <<asked, retrying, retry>>

\* RestartStream asks whether or not the camera has connected again meanwhile.
AskAgain == AskOrRetry
-----------------------------------------------------------------------------
(* The client: connect                                                     *)

\* A connection is stored and onConnect called.  The reader of the one before has
\* ended: it may outlive it, but not the pause of 5 seconds before the next.
Connect ==
    /\ phase = "down" /\ hand = "none"
    /\ phase' = "connected" /\ link' = "open" /\ alive' = TRUE
    /\ UNCHANGED <<asked, hand, entries, retrying, retry, stream, told, watch, relay, camera>>

StartFirst ==
    /\ phase = "connected"
    /\ phase' = "serving" /\ AskOrRetry
    /\ UNCHANGED <<link, hand, entries, state, watch, relay, camera>>

\* The connection breaks: what is under way is lost, or its answer is.
Break ==
    /\ link = "open"
    /\ link' = "broken" /\ asked' = 0
    /\ wants' \in {wants, wants \/ (asked > 0 /\ awake)}
    /\ UNCHANGED <<phase, hand, entries, retrying, retry, state, watch, relay,
                   awake, feeds>>

\* stopStreaming; the request to stop may still reach the camera.
Leave ==
    /\ phase = "serving" /\ link = "broken"
    /\ phase' = "leaving" /\ retrying' = FALSE
    /\ wants' \in {wants, FALSE}
    /\ UNCHANGED <<link, asked, hand, entries, retry, state, watch, relay, awake, feeds>>

\* conn.Close() and the first half of onDisconnect; nobody waits for the reader.
OnDisconnect ==
    /\ phase = "leaving"
    /\ phase' = "gone" /\ link' = "none" /\ alive' = FALSE
    /\ UNCHANGED <<asked, hand, entries, retrying, retry, stream, told, watch, relay, camera>>

OnDisconnectStopped ==
    /\ phase = "gone"
    /\ phase' = "down" /\ MarkStopped
    /\ UNCHANGED <<link, asked, hand, entries, retrying, retry, alive, watch,
                   relay, camera>>
-----------------------------------------------------------------------------
(* The client: messages, and the loops that ask again                      *)

\* What handleResponse does with the retries; the entries of the answer, if it has any,
\* are reported after that.
HandleAnswer ==
    \/ /\ hand = "ok" /\ hand' = "report" /\ entries' \in 0..MaxEntries
       /\ retrying' = AfterAccepted /\ UNCHANGED retry
    \/ /\ hand = "sleeping" /\ hand' = "none" /\ UNCHANGED entries
       /\ retrying' = FALSE /\ UNCHANGED retry
    \/ /\ hand = "failed" /\ hand' = "none" /\ UNCHANGED entries
       /\ ScheduleRetry

\* What the next call may say: an answer without entries stands for one that says
\* started, and of which stream an entry speaks is not looked at.
Reported == IF entries = 0 THEN {"started"} ELSE Statuses

\* onStreaming, for one entry of an answer or for a message of the camera: the state
\* shown is the one reported, whatever the camera was asked and does.
HandleReport ==
    /\ hand = "report"
    /\ \E status \in Reported : stream' = Shown[status] /\ told' = status
    /\ IF entries > 1 THEN entries' = entries - 1 /\ UNCHANGED hand
                      ELSE entries' = 0 /\ hand' = "none"

HandleMessage ==
    /\ \/ HandleAnswer /\ UNCHANGED <<stream, told>>
       \/ HandleReport /\ UNCHANGED <<retrying, retry>>
    /\ UNCHANGED <<phase, link, asked, alive, watch, relay, camera>>

RetryWakes(l) ==
    /\ retry[l] = "sleeping"
    /\ \/ ~retrying /\ retry' = [retry EXCEPT ![l] = "none"] /\ UNCHANGED asked
       \/ retrying /\ Ask /\ retry' = [retry EXCEPT ![l] = "waiting"]
       \/ retrying /\ AskFails /\ UNCHANGED retry
    /\ UNCHANGED <<phase, link, hand, entries, retrying, state, watch, relay,
                   camera>>

RetryWaited(l) ==
    /\ retry[l] = "waiting"
    /\ retry' = [retry EXCEPT ![l] = IF retrying THEN "sleeping" ELSE "none"]
    /\ UNCHANGED <<phase, link, asked, hand, entries, retrying, state, watch,
                   relay, camera>>
-----------------------------------------------------------------------------
(* The manager: the watchdog                                               *)

\* checkStreamHealth finds the camera connected and no stream.
WatchdogFinds ==
    /\ watch = "ticking" /\ alive
    /\ StreamMissing
    /\ watch' = "missing"
    /\ UNCHANGED <<client, state, relay, camera>>

WatchdogMarks ==
    /\ watch = "missing"
    /\ watch' = "marked" /\ MarkStopped
    /\ UNCHANGED <<client, alive, relay, camera>>

WatchdogAsks ==
    /\ watch = "marked"
    /\ watch' = "cooling" /\ AskOrRetry
    /\ UNCHANGED <<phase, link, hand, entries, state, relay, camera>>

\* A minute after it found the stream missing it may ask again.
CooldownEnds ==
    /\ watch = "cooling"
    /\ watch' = "ticking"
    /\ UNCHANGED <<client, state, relay, camera>>
-----------------------------------------------------------------------------
(* The relay: a publisher leaves, and RestartStream runs in a goroutine    *)

\* The read fails and the publisher is unregistered, unless another replaced it.
PublisherLeaves(p) ==
    /\ pub[p] = "open" /\ feeds # p
    /\ pub' = [pub EXCEPT ![p] = "left"]
    /\ registered' = IF registered = p THEN None ELSE registered
    /\ UNCHANGED <<client, state, watch, camera>>

RestartStreamMarks(p) ==
    /\ pub[p] = "left"
    /\ pub' = [pub EXCEPT ![p] = "marked"]
    /\ MarkStopped
    /\ UNCHANGED <<client, alive, watch, registered, camera>>

RestartStreamAsks(p) ==
    /\ pub[p] = "marked"
    /\ pub' = [pub EXCEPT ![p] = "none"]
    /\ AskAgain
    /\ UNCHANGED <<phase, link, hand, entries, state, watch, registered, camera>>
-----------------------------------------------------------------------------
(* The camera                                                              *)

\* It answers a request, if the reader is there to take the answer.
Answer(answer) ==
    /\ asked > 0 /\ link = "open" /\ hand = "none"
    /\ asked' = asked - 1
    /\ hand' = answer
    /\ UNCHANGED <<phase, link, entries, retrying, retry, state, watch, relay, awake,
                   feeds>>

\* It accepts.  Asked again while it streams, it keeps its connection to the relay or
\* opens a new one.
Accept ==
    /\ awake /\ Answer("ok")
    /\ wants' \in {wants \/ feeds = None, TRUE}

Refuse ==
    /\ Answer(IF awake THEN "failed" ELSE "sleeping")
    /\ UNCHANGED wants

\* It tells of a stream by itself.
Report ==
    /\ link = "open" /\ hand = "none"
    /\ hand' = "report" /\ entries' = 1
    /\ UNCHANGED <<phase, link, asked, retrying, retry, state, watch, relay, camera>>

\* It connects to the relay, which replaces a publisher it still has.
Publish(p) ==
    /\ wants /\ pub[p] = "none"
    /\ wants' = FALSE /\ feeds' = p
    /\ pub' = [pub EXCEPT ![p] = "open"] /\ registered' = p
    /\ UNCHANGED <<client, state, watch, awake>>

\* It cannot connect to the relay.
Forget ==
    /\ wants
    /\ wants' = FALSE
    /\ UNCHANGED <<client, state, watch, relay, awake, feeds>>

\* It stops feeding the relay: asked to, off the network, or going to sleep.
Drop ==
    /\ feeds # None
    /\ feeds' = None
    /\ UNCHANGED <<client, state, watch, relay, awake, wants>>

Sleep ==
    /\ awake
    /\ awake' = FALSE /\ wants' = FALSE /\ feeds' = None
    /\ UNCHANGED <<client, state, watch, relay>>

\* Sleep mode is turned off: in the Nanit app, or with SetSleepMode, which asks for
\* the stream and ignores an error.
Wake ==
    /\ ~awake
    /\ awake' = TRUE
    /\ Ask \/ UNCHANGED asked
    /\ UNCHANGED <<phase, link, hand, entries, retrying, retry, state, watch, relay, wants,
                   feeds>>
-----------------------------------------------------------------------------
ConnectLoop == Connect \/ StartFirst \/ Leave \/ OnDisconnect \/ OnDisconnectStopped
RetryLoop(l) == RetryWakes(l) \/ RetryWaited(l)
WatchdogLoop == WatchdogFinds \/ WatchdogMarks \/ WatchdogAsks \/ CooldownEnds
Publisher(p) == PublisherLeaves(p) \/ RestartStreamMarks(p) \/ RestartStreamAsks(p)

Bridge ==
    \/ ConnectLoop \/ HandleMessage \/ (\E l \in Loops : RetryLoop(l))
    \/ WatchdogLoop \/ \E p \in Pubs : Publisher(p)

Camera ==
    \/ Break \/ Accept \/ Refuse \/ Report \/ (\E p \in Pubs : Publish(p)) \/ Forget
    \/ Drop \/ Sleep \/ Wake

Next == Bridge \/ Camera

Spec == Init /\ [][Next]_vars

\* Timers fire, goroutines run, a read from a dead connection fails.  A camera that
\* can be reached answers, whatever else it sends; asked again and again it accepts and
\* connects in the end.
FairSpec ==
    /\ Spec
    /\ WF_vars(ConnectLoop) /\ WF_vars(HandleMessage)
    /\ \A l \in Loops : WF_vars(RetryLoop(l))
    /\ WF_vars(WatchdogLoop)
    /\ \A p \in Pubs : WF_vars(Publisher(p))
    /\ WF_vars(Accept \/ Refuse) /\ SF_vars(Accept) /\ SF_vars(\E p \in Pubs : Publish(p))
-----------------------------------------------------------------------------
(* Properties                                                              *)

\* The relay of this module does what the relay of RtmpRelay does for a key, and
\* nothing else: both are the registry of streams.
Registry == INSTANCE StreamRegistry WITH
    Keys <- {"baby"}, Conns <- Pubs,
    owner <- [k \in {"baby"} |-> registered], keyOf <- [p \in Pubs |-> "baby"],
    conn <- [p \in Pubs |-> IF pub[p] = "marked" THEN "none" ELSE pub[p]]

RelayIsRegistry == Registry!Spec

\* The client of this module does what that of CameraClient does: both are the link
\* to a camera, here of a manager that stays started.
Link == INSTANCE CameraLink WITH
    phase <- IF phase = "gone" THEN "down" ELSE phase,
    running <- {l \in Loops : retry[l] # "none"}, stopped <- FALSE

ClientIsLink == Link!Spec

Reachable == phase = "serving" /\ link = "open" /\ awake

\* A camera that stays connected to the cloud and awake publishes again and again,
\* whatever was lost, refused or forgotten on the way, and however it slept before.
StreamComesBack == <>[]Reachable => []<>(registered # None)

Streaming == Reachable /\ feeds # None /\ feeds = registered

\* What is shown is what the camera said last, and nobody has set it since.
ShownAsReported == told # "nothing" /\ stream = Shown[told]

\* While a stream goes on it is shown as the camera reported it last, or a request, its
\* answer or somebody who is about to ask is under way: every mark is followed by a
\* request, and every request that is accepted by a report.
MarksAreCorrected ==
    Streaming =>
        \/ ShownAsReported
        \/ asked > 0 \/ hand # "none" \/ retrying
        \/ watch = "marked" \/ \E p \in Pubs : pub[p] = "marked"

\* A stream that stays does not keep a mark of the bridge for ever, however late the
\* callbacks of earlier publishers, the watchdog and earlier messages come: it is shown
\* as the camera entries it again.
ReportIsShown == <>[]Streaming => []<>ShownAsReported

\* Nobody asks for the stream, or is about to.
Calm == /\ asked = 0 /\ ~retrying /\ watch \notin {"missing", "marked"}
        /\ \A p \in Pubs : pub[p] \notin {"left", "marked"}

\* A stream that stays is left alone in the end, if the camera no longer refuses and
\* keeps its connection to the relay when it is asked again.
StreamIsLeftAlone ==
    <>[]Streaming /\ <>[][~Refuse /\ (Accept => UNCHANGED wants)]_vars => <>[]Calm
=============================================================================

------------------------------ MODULE CameraLink ------------------------------
(***************************************************************************)
(* What the manager takes a camera client for, src/internal/nanit/         *)
(* client.go: onConnect and onDisconnect alternate; on every connection    *)
(* the stream is asked for; and from a request that failed until one that  *)
(* is settled, or the end of the connection, somebody is there to ask      *)
(* again.  CameraClient implements it with its sockets, goroutines and     *)
(* channels, and the client in StreamSupervision is no other.              *)
(***************************************************************************)
CONSTANT
    Loops       \* identities of retry loops

VARIABLES
    phase,      \* without a connection, or how far the present one is
    retrying,   \* streamRetrying: a loop is thought to ask again
    running,    \* the loops that run
    stopped     \* Stop was called

retries == <<retrying, running>>
vars == <<phase, retries, stopped>>

Init == phase = "down" /\ ~retrying /\ running = {} /\ ~stopped

\* scheduleStreamRetry
Schedule ==
    \/ retrying /\ UNCHANGED retries
    \/ /\ ~retrying /\ retrying' = TRUE
       /\ \E l \in Loops \ running : running' = running \cup {l}

\* onConnect is called ...
Connect ==
    /\ phase = "down" /\ phase' = "connected"
    /\ UNCHANGED <<retries, stopped>>

\* ... the stream is asked for, which may fail ...
AskFirst ==
    /\ phase = "connected" /\ phase' = "serving"
    /\ UNCHANGED retries \/ Schedule
    /\ UNCHANGED stopped

\* ... until the connection ends, with nothing to ask on it ...
Leave ==
    /\ phase = "serving" /\ phase' = "leaving"
    /\ retrying' = FALSE
    /\ UNCHANGED <<running, stopped>>

\* ... and onDisconnect is called.
Disconnect ==
    /\ phase = "leaving" /\ phase' = "down"
    /\ UNCHANGED <<retries, stopped>>

\* A request, or the camera, fails.
AskFails == Schedule /\ UNCHANGED <<phase, stopped>>

\* The camera streams or sleeps.
Settled == retrying' = FALSE /\ UNCHANGED <<phase, running, stopped>>

LoopEnds(l) ==
    /\ l \in running /\ (stopped \/ ~retrying)
    /\ running' = running \ {l}
    /\ UNCHANGED <<phase, retrying, stopped>>

Stop == stopped' = TRUE /\ UNCHANGED <<phase, retries>>

Next ==
    \/ Connect \/ AskFirst \/ Leave \/ Disconnect \/ AskFails \/ Settled
    \/ (\E l \in Loops : LoopEnds(l)) \/ Stop

Spec == Init /\ [][Next]_vars
=============================================================================

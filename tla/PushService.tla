----------------------------- MODULE PushService -----------------------------
(***************************************************************************)
(* What the manager takes the push receiver for, src/internal/baby/        *)
(* manager.go: Start either makes it listen or fails, and then leaves it   *)
(* running without a listener or as it was; Stop stops it.  These are the  *)
(* states and the steps StartPush and StopPush of module Manager have.     *)
(***************************************************************************)
VARIABLES
    push,       \* stopped, listening, or running and deaf
    active,     \* pushActive of the manager
    calling     \* the call of the receiver the manager is in

vars == <<push, active, calling>>

Init == push = "stopped" /\ ~active /\ calling = "idle"

BeginStart == calling = "idle" /\ calling' = "starting" /\ UNCHANGED <<push, active>>

Started ==
    /\ calling = "starting" /\ calling' = "idle"
    /\ push' = IF push = "stopped" THEN "listening" ELSE push
    /\ active' = TRUE

Failed ==
    /\ calling = "starting" /\ calling' = "idle"
    /\ push' \in {push, IF push = "stopped" THEN "deaf" ELSE push}
    /\ active' = FALSE

Stop ==
    /\ calling = "idle" /\ calling' \in {"idle", "stopping"}
    /\ push' = "stopped" /\ active' = FALSE

StopReturns == calling = "stopping" /\ calling' = "idle" /\ UNCHANGED <<push, active>>

\* The process ends and is started again.
Crash == push' = "stopped" /\ active' = FALSE /\ calling' = "idle"

Next == BeginStart \/ Started \/ Failed \/ Stop \/ StopReturns \/ Crash

Spec == Init /\ [][Next]_vars
=============================================================================

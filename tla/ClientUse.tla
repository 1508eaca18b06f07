------------------------------ MODULE ClientUse ------------------------------
(***************************************************************************)
(* How a camera client wants to be used, src/internal/nanit/client.go:     *)
(* Start once, for it starts a connect loop each time it is called; Stop   *)
(* after Start, and by one goroutine, for it tests c.done and closes it    *)
(* without a lock.  A client is not used again: its identity is.           *)
(* Manager uses its clients so, and CameraClient counts on it.             *)
(***************************************************************************)
CONSTANT Clients    \* identities of clients

VARIABLE stage      \* the last call of a client, and whether it is running

vars == <<stage>>

Become(K, from, to) ==
    /\ \A k \in K : stage[k] \in from
    /\ stage' = [k \in Clients |-> IF k \in K THEN to ELSE stage[k]]

Init == stage = [k \in Clients |-> "none"]

\* NewCameraClient
Build(k) == Become({k}, {"none", "stopped"}, "built")

Start(k) == Become({k}, {"built"}, "running")

\* Stop is called of several clients, each in a goroutine of its own.
Stop(K) == Become(K, {"running"}, "stopping")

StopReturns(k) == Become({k}, {"stopping"}, "stopped")

Next ==
    \/ \E k \in Clients : Build(k) \/ Start(k) \/ StopReturns(k)
    \/ \E K \in SUBSET Clients : K # {} /\ Stop(K)

Spec == Init /\ [][Next]_vars
=============================================================================

---------------------------- MODULE StreamRegistry ----------------------------
(***************************************************************************)
(* What the relay promises to those who ask it for a stream or whether     *)
(* there is one (HasStream, Subscribe, the watchdog of the manager):       *)
(* src/internal/rtmp/server.go keeps for every key the connection that     *)
(* published it last, for as long as that connection is being read, and    *)
(* tells when a connection is over.  RtmpRelay implements it packet by     *)
(* packet, and StreamSupervision assumes no more of the relay than this.   *)
(***************************************************************************)
CONSTANTS
    Keys,    \* stream keys
    Conns,   \* publishing connections
    None     \* no connection

VARIABLES
    owner,   \* the connection registered for a key
    keyOf,   \* the key a connection publishes, or published last
    conn     \* a connection is read, is being taken leave of, or neither

vars == <<owner, keyOf, conn>>

Init ==
    /\ owner = [k \in Keys |-> None]
    /\ keyOf \in [Conns -> Keys \cup {None}]
    /\ conn = [p \in Conns |-> "none"]

\* A publisher takes the key, from whoever has it.
Join(p, k) ==
    /\ conn[p] = "none"
    /\ conn' = [conn EXCEPT ![p] = "open"]
    /\ keyOf' = [keyOf EXCEPT ![p] = k]
    /\ owner' = [owner EXCEPT ![k] = p]

\* It is no longer read, and gives back the key if it still has it.
Leave(p) ==
    /\ conn[p] = "open"
    /\ conn' = [conn EXCEPT ![p] = "left"]
    /\ owner' = [k \in Keys |-> IF owner[k] = p THEN None ELSE owner[k]]
    /\ UNCHANGED keyOf

\* Its subscribers are let go and its end is reported.
Finish(p) ==
    /\ conn[p] = "left"
    /\ conn' = [conn EXCEPT ![p] = "none"]
    /\ UNCHANGED <<owner, keyOf>>

Next ==
    \E p \in Conns : (\E k \in Keys : Join(p, k)) \/ Leave(p) \/ Finish(p)

Spec == Init /\ [][Next]_vars
=============================================================================

--------------------------- MODULE MCStateMirror ---------------------------
(***************************************************************************)
(* Instances of StateMirror for TLC.                                       *)
(***************************************************************************)
EXTENDS StateMirror, TLC

AlertThenVolume == <<"cry_detected", "volume">>
JustVolume == <<"volume">>

Symmetry == Permutations(Goroutines) \cup Permutations(Timers)
=============================================================================

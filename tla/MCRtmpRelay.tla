---------------------------- MODULE MCRtmpRelay ----------------------------
(***************************************************************************)
(* Instances of RtmpRelay for TLC.  Connections are interchangeable, so the *)
(* safety runs reduce by their permutations; the liveness run does not.    *)
(***************************************************************************)
EXTENDS RtmpRelay, TLC

Symmetry == Permutations(Publishers) \cup Permutations(Subscribers)
=============================================================================

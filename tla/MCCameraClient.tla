--------------------------- MODULE MCCameraClient ---------------------------
(***************************************************************************)
(* Instances of CameraClient for TLC.  Identities of connections and retry *)
(* loops are interchangeable; the safety runs use it.                      *)
(***************************************************************************)
EXTENDS CameraClient, TLC

Symmetry == Permutations(Conns) \cup Permutations(Loops)
=============================================================================

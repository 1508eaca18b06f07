------------------------- MODULE MCStreamSupervision -------------------------
(***************************************************************************)
(* Instances of StreamSupervision for TLC.                                 *)
(***************************************************************************)
EXTENDS StreamSupervision
=============================================================================

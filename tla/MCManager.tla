----------------------------- MODULE MCManager -----------------------------
(***************************************************************************)
(* Instances of Manager for TLC.                                           *)
(***************************************************************************)
EXTENDS Manager, TLC

Symmetry ==
    Permutations(Callers) \cup Permutations(Babies) \cup Permutations(Clients)
        \cup Permutations(Loops) \cup Permutations(Chans) \cup Permutations(Tokens)
=============================================================================

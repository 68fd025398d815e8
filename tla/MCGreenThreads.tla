--------------------------- MODULE MCGreenThreads ---------------------------
(* Instances of GreenThreads for TLC. *)
EXTENDS GreenThreads, TLC

Symmetry == Permutations(Addr)
=============================================================================

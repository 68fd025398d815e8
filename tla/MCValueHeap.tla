---------------------------- MODULE MCValueHeap ----------------------------
(* Instances of ValueHeap for TLC. *)
EXTENDS ValueHeap, TLC

Symmetry == Permutations(Block) \cup Permutations(Chan)
=============================================================================

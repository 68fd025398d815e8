--------------------------- MODULE PackageCatalog ---------------------------
(***************************************************************************)
(* What a package registry promises, whatever its threads, crashes and     *)
(* lost updates do: it advertises only versions it has stored, and it      *)
(* never forgets a stored one.  It may stop advertising versions.          *)
(***************************************************************************)
CONSTANT Versions

VARIABLES
    stored,     \* versions whose archive and description exist
    offered     \* versions the index lists

Init == stored \subseteq Versions /\ offered \subseteq stored

Store(v) ==
    /\ stored' = stored \cup {v}
    /\ UNCHANGED offered

(* The index is replaced as a whole, by any listing of stored versions.    *)
Offer(vs) ==
    /\ vs \subseteq stored
    /\ offered' = vs
    /\ UNCHANGED stored

Next == (\E v \in Versions : Store(v)) \/ (\E vs \in SUBSET Versions : Offer(vs))

Spec == Init /\ [][Next]_<<stored, offered>>
=============================================================================

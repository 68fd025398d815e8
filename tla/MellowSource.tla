---------------------------- MODULE MellowSource ----------------------------
(***************************************************************************)
(* What running a program looks like from outside: it shows the lines its  *)
(* source means, one after the other, and then ends as its source says.    *)
(***************************************************************************)
EXTENDS Naturals, Sequences, SequencesExt

CONSTANTS
    Programs,       \* a set of programs
    Meaning(_)      \* the lines a program shows (out) and its end

VARIABLES
    prog,           \* the program that runs
    shown,          \* the lines shown so far
    ended           \* "running", or how the run ended

vars == <<prog, shown, ended>>

Init ==
    /\ prog \in Programs
    /\ shown = << >>
    /\ ended = "running"

ShowLine ==
    /\ ended = "running"
    /\ Len(shown') = Len(shown) + 1
    /\ IsPrefix(shown, shown') /\ IsPrefix(shown', Meaning(prog).out)
    /\ UNCHANGED <<prog, ended>>

End ==
    /\ ended = "running"
    /\ ended' # "running"
    /\ shown = Meaning(prog).out
    /\ ended' = Meaning(prog).end
    /\ UNCHANGED <<prog, shown>>

Next == ShowLine \/ End

Spec == Init /\ [][Next]_vars /\ <>(ended # "running")
=============================================================================

---------------------------- MODULE MellowEngines ----------------------------
(***************************************************************************)
(* The other readers of a program beside the interpreter of MellowVM: the  *)
(* flow graph the compiler hands to its tools (MellowFlow) and the "fast"  *)
(* engine of the command line (MellowFast).  Both work from the program as *)
(* it stands, so what is stated of them is stated where a run begins.      *)
(***************************************************************************)
EXTENDS MellowVM, MellowFlow, MellowFast, MellowImage

Begins == status = "running" /\ Len(vms) = 1 /\ VM.left = MaxSteps

(* The flow graph of a program is right: what is said to dominate a block  *)
(* is on every path to it, and where no block is out of reach so is the    *)
(* converse, every loop is entered at its head alone, and each use of a    *)
(* name refers to the one definition that reaches it                       *)
(* (compiler/optimizations/graph.py).                                      *)
FlowIsKnown == Begins => FlowHolds(LowerProgram(prog.tree))

-----------------------------------------------------------------------------
(* Programs that the fast engine reads as the language does: "and" and     *)
(* "or" join truth values, and no range written with numbers ends on a     *)
(* step.  (Python's "and" gives an operand; the engine includes the end.)  *)
RECURSIVE IsBoolean(_), Plain(_), PlainBlock(_)
IsBoolean(e) ==
    \/ e.k = "not"
    \/ e.k = "bin" /\ e.o \in {"<", ">", "<=", ">=", "==", "!="}
    \/ e.k = "bin" /\ e.o \in {"and", "or"} /\ IsBoolean(e.l) /\ IsBoolean(e.r)

PlainAll(es) == \A i \in DOMAIN es : Plain(es[i])
Plain(e) ==
    CASE e.k = "bin" -> Plain(e.l) /\ Plain(e.r) /\ (e.o \in {"and", "or"} => IsBoolean(e))
      [] e.k \in {"not", "neg"} -> Plain(e.e)
      [] e.k = "index" -> Plain(e.t) /\ Plain(e.i)
      [] e.k \in {"list", "call"} -> PlainAll(e.as)
      [] e.k = "map" -> Plain(e.e)
      [] OTHER -> TRUE

EndsBetweenSteps(st) ==
    /\ \A e \in {st.from, st.to, st.step} : e.k = "lit"
    /\ (st.to.v - st.from.v) % st.step.v # 0

PlainBlock(b) ==
    \A i \in DOMAIN b :
        LET st == b[i]
        IN  CASE st.k \in {"assign", "keep", "show"} -> PlainAll(st.es)
              [] st.k \in {"expr", "return"} -> Plain(st.e)
              [] st.k = "while" -> Plain(st.c) /\ PlainBlock(st.b)
              [] st.k = "times" -> Plain(st.n) /\ PlainBlock(st.b)
              [] st.k = "range" -> EndsBetweenSteps(st) /\ PlainBlock(st.b)
              [] st.k = "each" -> Plain(st.e) /\ PlainBlock(st.b)
              [] st.k = "def" -> PlainBlock(st.b)
              [] st.k = "if" -> PlainBlock(st.els) /\ \A j \in DOMAIN st.bs : Plain(st.bs[j][1]) /\ PlainBlock(st.bs[j][2])
              [] OTHER -> TRUE

(* The fast engine shows no line the program does not mean, and if it      *)
(* comes to the end of the program, so does the program, with the same     *)
(* lines (cli/commands/run.py, engine "fast").                             *)
FastAgrees ==
    Begins /\ PlainBlock(prog.tree) =>
        \A fast \in {FastMeaning(prog.tree)} : \A meant \in {Means(prog)} :
            /\ IsPrefix(fast.out, meant.out)
            /\ fast.end = "done" => fast = meant

(* A native image shows what the program means: as long as it compares     *)
(* numbers it shows no line that is not meant, and if it comes to the end  *)
(* of the program, all of them.  Of programs whose skills an image keeps   *)
(* apart (Portable); the native runtime may fail where the interpreter     *)
(* goes on, as it does for list.map (mellow build, mvi/lowering.py).       *)
ImageAgrees ==
    \A b \in {Bytecode(prog.tree)} :
        Begins /\ Portable(b) =>
            \A image \in {Lowered(b)} : \A native \in {NativeMeaning(image)} : \A meant \in {Means(prog)} :
                ~native.mixed =>
                    /\ IsPrefix(native.out, meant.out)
                    /\ native.end = "done" => native.out = meant.out /\ meant.end = "done"

(* Whatever engine runs it, a program shows the same: neither the fast     *)
(* engine nor a native image shows what the source does not mean.          *)
EnginesAgree == FastAgrees /\ ImageAgrees
=============================================================================

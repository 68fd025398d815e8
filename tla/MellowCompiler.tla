--------------------------- MODULE MellowCompiler ---------------------------
(***************************************************************************)
(* The Python compiler of Mellow: programs are lowered to instructions     *)
(* with labels (compiler/lowering), a program without control flow is      *)
(* optimized (MellowOptimizer), and the labels become addresses            *)
(* (compiler/bytecode_backend.py).                                         *)
(***************************************************************************)
EXTENDS MellowOptimizer

-----------------------------------------------------------------------------
(* Lowering.  Labels and temporaries are numbered in the source; here the  *)
(* statement's place in the program makes them unique.                     *)

Label(name, at) == name \o ToString(at)
Load(x) == <<Ins("LOAD", x)>>
Store(x) == <<Ins("STORE", x)>>
Push(v) == <<Ins("PUSH", v)>>
Jump(l) == <<Ins("JUMP", l)>>
JumpIfFalse(l) == <<Ins("JIF", l)>>
Mark(l) == <<Ins("LABEL", l)>>
Compute(o) == <<Ins("BINARY", o)>>

RECURSIVE LowerExpr(_), Lower(_, _, _)

LowerAll(es) == FlattenSeq([i \in DOMAIN es |-> LowerExpr(es[i])])

LowerExpr(e) ==
    CASE e.k = "lit" -> Push(e.v)
      [] e.k = "var" -> Load(e.x)
      [] e.k = "not" -> LowerExpr(e.e) \o <<Ins("BOOL_NOT", 0)>>
      [] e.k = "neg" -> LowerExpr(e.e) \o Push(-1) \o Compute("*")
      [] e.k = "bin" -> LowerExpr(e.l) \o LowerExpr(e.r) \o Compute(e.o)
      [] e.k = "call" -> LowerAll(e.as) \o <<Ins("CALL", [f |-> e.f, n |-> Len(e.as)])>>
      [] e.k = "index" -> LowerExpr(e.t) \o LowerExpr(e.i) \o <<Ins("GETITEM", 0)>>
      [] e.k = "list" -> LowerAll(e.as) \o <<Ins("BUILD_LIST", Len(e.as))>>
      [] e.k = "map" -> LowerExpr(e.e) \o Load(e.f) \o <<Ins("SYSCALL", "std.list.map")>>

LowerBlock(b, at, loop) == FlattenSeq([i \in DOMAIN b |-> Lower(b[i], Append(at, i), loop)])

(* x = x + by                                                              *)
Increment(x, by) == Load(x) \o by \o Compute("+") \o Store(x)

LowerAssign(st) ==
    LET op == IF st.k = "keep" THEN "STORE_KEEP" ELSE "STORE"
    IN  LowerAll(st.es) \o [i \in DOMAIN st.xs |-> Ins(op, Reverse(st.xs)[i])]

(* Mutant: a branch taken falls through into the next one.                 *)
LowerIf_NoJumpToEnd(st, at, loop) ==
    FlattenSeq([i \in DOMAIN st.bs |->
        LowerExpr(st.bs[i][1]) \o JumpIfFalse(Label("if_next", Append(at, i)))
        \o LowerBlock(st.bs[i][2], Append(at, i), loop) \o Mark(Label("if_next", Append(at, i)))])
    \o LowerBlock(st.els, Append(at, 0), loop)

LowerIf(st, at, loop) ==
    LET next(i) == Label("if_next", Append(at, i))
    IN  FlattenSeq([i \in DOMAIN st.bs |->
            LowerExpr(st.bs[i][1]) \o JumpIfFalse(next(i))
            \o LowerBlock(st.bs[i][2], Append(at, i), loop)
            \o Jump(Label("if_end", at)) \o Mark(next(i))])
        \o LowerBlock(st.els, Append(at, 0), loop)
        \o Mark(Label("if_end", at))

(* The shape all loops share: a test at the top, the body, a tail and the  *)
(* jump back.  break jumps to the end and continue to the test.            *)
LoopFrame(test, body, tail, at) ==
    LET start == Label("loop_start", at)
        end == Label("loop_end", at)
    IN  Mark(start) \o test \o JumpIfFalse(end)
        \o LowerBlock(body, at, <<end, start>>)
        \o tail \o Jump(start) \o Mark(end)

LowerTimes(st, at) ==
    LET counter == Label("count", at)
    IN  Push(0) \o Store(counter)
        \o LoopFrame(Load(counter) \o LowerExpr(st.n) \o Compute("<"), st.b,
                     Increment(counter, Push(1)), at)

LowerRange(st, at) ==
    LET from == Label("range_start", at)
        to == Label("range_end", at)
        step == Label("range_step", at)
    IN  LowerExpr(st.from) \o Store(from) \o LowerExpr(st.to) \o Store(to)
        \o LowerExpr(st.step) \o Store(step) \o Load(from) \o Store(st.x)
        \o LoopFrame(Load(st.x) \o Load(to) \o Compute("<"), st.b,
                     Increment(st.x, Load(step)), at)

LowerEach(st, at) ==
    LET items == Label("foreach_items", at)
        len == Label("foreach_len", at)
        idx == Label("foreach_idx", at)
        start == Label("loop_start", at)
        end == Label("loop_end", at)
    IN  LowerExpr(st.e) \o Store(items) \o Load(items) \o <<Ins("LEN", 0)>> \o Store(len)
        \o Push(0) \o Store(idx)
        \o Mark(start) \o Load(idx) \o Load(len) \o Compute("<") \o JumpIfFalse(end)
        \o Load(items) \o Load(idx) \o <<Ins("GETITEM", 0)>> \o Store(st.x)
        \o LowerBlock(st.b, at, <<end, start>>)
        \o Increment(idx, Push(1)) \o Jump(start) \o Mark(end)

LowerDef(st, at) ==
    Jump(Label("after_skill", at)) \o Mark(st.f)
    \o FlattenSeq([i \in DOMAIN st.ps |-> <<Ins("ARG", st.ps[i])>>])
    \o LowerBlock(st.b, at, << >>)
    \o Push(None) \o <<Ins("RETURN", 0)>> \o Mark(Label("after_skill", at))

LowerExprStmt(st) == LowerExpr(st.e) \o <<Ins("POP", 0)>>

(* loop: the break and the continue label of the innermost loop.           *)
Lower(st, at, loop) ==
    CASE st.k \in {"assign", "keep"} -> LowerAssign(st)
      [] st.k = "expr" -> LowerExprStmt(st)
      [] st.k = "show" -> LowerAll(st.es) \o <<Ins("PRINTN", Len(st.es))>>
      [] st.k = "stop" -> <<Ins("STOP", 0)>>
      [] st.k = "return" -> LowerExpr(st.e) \o <<Ins("RETURN", 0)>>
      [] st.k = "if" -> LowerIf(st, at, loop)
      [] st.k = "while" -> LoopFrame(LowerExpr(st.c), st.b, << >>, at)
      [] st.k = "times" -> LowerTimes(st, at)
      [] st.k = "range" -> LowerRange(st, at)
      [] st.k = "each" -> LowerEach(st, at)
      [] st.k = "break" -> Jump(loop[1])
      [] st.k = "continue" -> Jump(loop[2])
      [] st.k = "def" -> LowerDef(st, at)

(* Label addresses, and the bytecode: instructions without the labels.     *)
IsCode(i) == i.op # "LABEL"
Address(ir, l) ==
    LET at == CHOOSE i \in DOMAIN ir : ir[i].op = "LABEL" /\ ir[i].a = l
    IN  Len(SelectSeq(SubSeq(ir, 1, at), IsCode)) + 1

Assemble(ir) ==
    LET resolve(i) == IF i.op \in {"JUMP", "JIF"} THEN [i EXCEPT !.a = Address(ir, @)] ELSE i
        code == SelectSeq(ir, IsCode)
    IN  [i \in DOMAIN code |-> resolve(code[i])]

(* Control flow is what makes labels, and an index makes a GETITEM.  (A    *)
(* system call, list.map, has a skill for an argument, and so labels.)     *)
IsStraight(ir) == \A i \in DOMAIN ir : ir[i].op \notin {"LABEL", "GETITEM"}

LowerProgram(p) == LowerBlock(p, << >>, << >>) \o <<Ins("HALT", 0)>>

Compile(p) ==
    LET lowered == LowerProgram(p)
        ir == IF IsStraight(lowered) THEN Optimize(lowered) ELSE lowered
        defs == Defs(p)
    IN  [code |-> Assemble(ir),
         funcs |-> [f \in {defs[i].f : i \in DOMAIN defs} |->
                       LET d == CHOOSE i \in DOMAIN defs : defs[i].f = f
                       IN  [address |-> Address(ir, f), params |-> Len(defs[d].ps)]]]
=============================================================================

-------------------------- MODULE MellowOptimizer --------------------------
(***************************************************************************)
(* The optimizer of the Python compiler (compiler/optimizations), as it    *)
(* works on the programs it is used for: those without branches, loops,    *)
(* skills and indexes, which are one basic block.  Three of its passes     *)
(* remain there: constant folding, the dataflow rewriter (which runs       *)
(* twice, the second time as sparse conditional constant propagation) and  *)
(* global value numbering.  Each simulates the operand stack.              *)
(***************************************************************************)
EXTENDS MellowLang

StoreOps == {"STORE", "STORE_KEEP"}
Ins(op, a) == [op |-> op, a |-> a]

(* A value the passes know something about is a sequence of one, one they  *)
(* do not know is empty (_CONST_TOP).                                      *)
Top0 == << >>

(* The name of a value (expr), and the variables in it.  Two values with   *)
(* one name are taken for equal.                                           *)
NoExpr == [is |-> << >>, vars |-> {}]
ConstExpr(v) == [is |-> <<"const", v>>, vars |-> {}]
VarExpr(x) == [is |-> <<"var", x>>, vars |-> {x}]
NotExpr(e) == [is |-> <<"not", e.is>>, vars |-> e.vars]
CallExpr(c) == [is |-> <<"call", c.f, c.n>>, vars |-> {}]
BinaryExpr(o, l, r) ==
    [is |-> IF o \in {"+", "*", "and", "or"} THEN <<o, {l.is, r.is}>> ELSE <<o, l.is, r.is>>,
     vars |-> l.vars \cup r.vars]

(* Python evaluates all six comparisons before it picks one, so none with  *)
(* any of them is not folded; neither is a remainder by zero.              *)
EvalBinary(o, a, b) ==
    IF \/ o \notin {"and", "or"} /\ (a = None \/ b = None)
       \/ o = "%" /\ b = 0
    THEN << >>
    ELSE Operate(o, a, b)

(* Folds PUSH PUSH BINARY and PUSH BOOL_NOT, once from left to right.      *)
ConstantFold(code) ==
    LET is(i, op) == i \in DOMAIN code /\ code[i].op = op
        value(i) == IF ~is(i, "PUSH") \/ i + 2 > Len(code) THEN Top0
                    ELSE IF is(i + 1, "PUSH") /\ is(i + 2, "BINARY")
                         THEN EvalBinary(code[i + 2].a, code[i].a, code[i + 1].a)
                    ELSE IF is(i + 1, "BOOL_NOT") THEN <<Bit(~Truthy(code[i].a))>>
                    ELSE Top0
        step(acc, i) ==
            IF acc.skip > 0 THEN [acc EXCEPT !.skip = @ - 1]
            ELSE IF value(i) = Top0 THEN [acc EXCEPT !.out = Append(@, code[i])]
            ELSE [out |-> Append(acc.out, Ins("PUSH", value(i)[1])),
                  skip |-> IF is(i + 1, "PUSH") THEN 2 ELSE 1]
    IN  FoldLeft(step, [out |-> << >>, skip |-> 0], [i \in DOMAIN code |-> i]).out

-----------------------------------------------------------------------------
(* The simulated stack: what is known of a value, and where in the output  *)
(* the instructions that compute it start (0: not known).                  *)

Entry(const, expr, start) == [const |-> const, expr |-> expr, start |-> start]
Unknown == Entry(Top0, NoExpr, 0)
Peek(r, n) == IF Len(r.stack) > n THEN r.stack[Len(r.stack) - n] ELSE Unknown
Drop(r, n) == IF Len(r.stack) > n THEN SubSeq(r.stack, 1, Len(r.stack) - n) ELSE << >>
Emit(r, ins) == [r EXCEPT !.out = Append(@, ins)]

(* The output has the instruction ins, which takes n values off the stack  *)
(* and leaves one, known as const or expr.                                 *)
Starts(r, n) == {Peek(r, i).start : i \in 0..(n - 1)} \ {0}
StartOf(r, n) ==
    IF Starts(r, n) = {} THEN Len(r.out) + 1
    ELSE CHOOSE s \in Starts(r, n) : \A t \in Starts(r, n) : s <= t
Computed(r, n, ins, const, expr) ==
    [Emit(r, ins) EXCEPT !.stack = Append(Drop(r, n), Entry(const, expr, StartOf(r, n)))]
(* ins stands for all the instructions that compute the n values and for   *)
(* the one that combines them.                                             *)
Replaced(r, n, ins, const, expr) ==
    [r EXCEPT !.out = Append(SubSeq(@, 1, StartOf(r, n) - 1), ins),
              !.stack = Append(Drop(r, n), Entry(const, expr, StartOf(r, n)))]
PushKnown(r, n, v) == Replaced(r, n, Ins("PUSH", v), <<v>>, ConstExpr(v))

Get(f, x, default) == IF x \in DOMAIN f THEN f[x] ELSE default
Without(f, S) == [x \in DOMAIN f \ S |-> f[x]]

-----------------------------------------------------------------------------
(* _rewrite_block.  env: the constants variables hold; val: the names of   *)
(* their values; holder: for a name, a variable that holds such a value.   *)

RewriteLoad(r, ins) ==
    LET known == Get(r.env, ins.a, Top0)
        name == Get(r.val, ins.a, NoExpr)
    IN  IF known # Top0 THEN PushKnown(r, 0, known[1])
        ELSE Computed(r, 0, ins, Top0, IF name = NoExpr THEN VarExpr(ins.a) ELSE name)

RewriteBinary(r, ins) ==
    LET right == Peek(r, 0)
        left == Peek(r, 1)
        folded == IF left.const = Top0 \/ right.const = Top0 THEN Top0
                  ELSE EvalBinary(ins.a, left.const[1], right.const[1])
        expr == BinaryExpr(ins.a, left.expr, right.expr)
        reuse == expr \in DOMAIN r.holder /\ Get(r.val, r.holder[expr], NoExpr) = expr
    IN  IF folded # Top0 THEN PushKnown(r, 2, folded[1])
        ELSE IF reuse THEN Replaced(r, 2, Ins("LOAD", r.holder[expr]), Top0, expr)
        ELSE Computed(r, 2, ins, Top0, expr)

RewriteNot(r, ins) ==
    LET value == Peek(r, 0)
    IN  IF value.const # Top0 THEN PushKnown(r, 1, Bit(~Truthy(value.const[1])))
        ELSE Computed(r, 1, ins, Top0, NotExpr(value.expr))

RewriteStore(r, ins) ==
    LET value == Peek(r, 0)
        stale == {e \in DOMAIN r.holder : r.holder[e] = ins.a /\ e # value.expr}
    IN  [Emit(r, ins) EXCEPT
            !.stack = Drop(r, 1),
            !.env = (ins.a :> value.const) @@ @,
            !.val = (ins.a :> value.expr) @@ @,
            !.holder = (IF value.expr = NoExpr THEN << >> ELSE (value.expr :> ins.a))
                       @@ Without(@, stale)]

(* Whatever the pass does not know makes it forget the stack.              *)
RewriteStep(r, ins) ==
    CASE ins.op = "PUSH" -> PushKnown(r, 0, ins.a)
      [] ins.op = "LOAD" -> RewriteLoad(r, ins)
      [] ins.op = "BINARY" -> RewriteBinary(r, ins)
      [] ins.op = "BOOL_NOT" -> RewriteNot(r, ins)
      [] ins.op \in StoreOps -> RewriteStore(r, ins)
      [] ins.op = "POP" -> [Emit(r, ins) EXCEPT !.stack = Drop(r, 1)]
      [] ins.op = "CALL" -> Computed([r EXCEPT !.stack = Drop(r, ins.a.n)], 0, ins, Top0, CallExpr(ins.a))
      [] OTHER -> [Emit(r, ins) EXCEPT !.stack = << >>]

Rewrite(code) ==
    FoldLeft(RewriteStep,
             [out |-> << >>, stack |-> << >>, env |-> << >>, val |-> << >>, holder |-> << >>],
             code).out

-----------------------------------------------------------------------------
(* _global_value_numbering.  A computation is replaced by a variable that  *)
(* holds its value, if no variable in it is written in the block.          *)

Numbered(g, n, ins, expr, written) ==
    IF expr \in DOMAIN g.holder /\ expr.vars \cap written = {}
    THEN Replaced(g, n, Ins("LOAD", g.holder[expr]), Top0, expr)
    ELSE Computed(g, n, ins, Top0, expr)

NumberStore(g, ins) ==
    LET expr == Peek(g, 0).expr
        stale == {e \in DOMAIN g.holder : ins.a \in e.vars}
    IN  [Emit(g, ins) EXCEPT
            !.stack = Drop(g, 1),
            !.val = (ins.a :> expr) @@ @,
            !.holder = (IF expr = NoExpr THEN << >> ELSE (expr :> ins.a)) @@ Without(@, stale)]

(* BUILD_LIST is none of the instructions the pass looks at: its operands  *)
(* stay on the simulated stack.                                            *)
NumberStep(g, ins, written) ==
    CASE ins.op = "PUSH" -> Computed(g, 0, ins, Top0, ConstExpr(ins.a))
      [] ins.op = "LOAD" -> Computed(g, 0, ins, Top0, Get(g.val, ins.a, VarExpr(ins.a)))
      [] ins.op = "BINARY" ->
            Numbered(g, 2, ins, BinaryExpr(ins.a, Peek(g, 1).expr, Peek(g, 0).expr), written)
      [] ins.op = "BOOL_NOT" -> Numbered(g, 1, ins, NotExpr(Peek(g, 0).expr), written)
      [] ins.op \in StoreOps -> NumberStore(g, ins)
      [] ins.op = "POP" -> [Emit(g, ins) EXCEPT !.stack = Drop(g, 1)]
      [] ins.op = "CALL" -> [Computed([g EXCEPT !.stack = Drop(g, ins.a.n)], 0, ins, Top0, CallExpr(ins.a))
                                EXCEPT !.holder = << >>]
      [] ins.op = "PRINTN" -> [Emit(g, ins) EXCEPT !.stack = << >>, !.holder = << >>]
      [] ins.op \in {"STOP", "RETURN", "HALT"} -> [Emit(g, ins) EXCEPT !.stack = << >>]
      [] OTHER -> Emit(g, ins)

GlobalValueNumbering(code) ==
    LET written == {code[i].a : i \in {j \in DOMAIN code : code[j].op \in StoreOps}}
    IN  FoldLeft(LAMBDA g, ins : NumberStep(g, ins, written),
                 [out |-> << >>, stack |-> << >>, val |-> << >>, holder |-> << >>], code).out

-----------------------------------------------------------------------------
(* The block of the entry: what stands behind its end is never reached.    *)
EntryBlock(code) ==
    SubSeq(code, 1, SelectInSeq(code, LAMBDA ins : ins.op \in {"STOP", "RETURN", "HALT"}))

Optimize(code) == Rewrite(GlobalValueNumbering(Rewrite(EntryBlock(ConstantFold(code)))))
=============================================================================

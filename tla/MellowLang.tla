----------------------------- MODULE MellowLang -----------------------------
(***************************************************************************)
(* The Mellow language as its programs are read: syntax trees, and what    *)
(* running one shows.  The Python compiler and interpreter (MellowVM) are  *)
(* checked against this meaning.                                           *)
(*                                                                         *)
(* Values are integers (TRUE and FALSE are 1 and 0, as in Python), None    *)
(* and lists, which are sequences.                                         *)
(***************************************************************************)
EXTENDS Integers, Sequences, SequencesExt, TLC

CONSTANT None

-----------------------------------------------------------------------------
(* Syntax trees.                                                           *)

Literal(v) == [k |-> "lit", v |-> v]
Var(x) == [k |-> "var", x |-> x]
Binary(o, l, r) == [k |-> "bin", o |-> o, l |-> l, r |-> r]
Not(e) == [k |-> "not", e |-> e]
Neg(e) == [k |-> "neg", e |-> e]
Call(f, as) == [k |-> "call", f |-> f, as |-> as]
Index(t, i) == [k |-> "index", t |-> t, i |-> i]
List(es) == [k |-> "list", as |-> es]
ListMap(e, f) == [k |-> "map", e |-> e, f |-> f]      \* call list.map(e, f)

Assign(xs, es) == [k |-> "assign", xs |-> xs, es |-> es]
Keep(xs, es) == [k |-> "keep", xs |-> xs, es |-> es]  \* let x, y = e, f
Set(x, e) == Assign(<<x>>, <<e>>)
ExprStmt(e) == [k |-> "expr", e |-> e]
Show(es) == [k |-> "show", es |-> es]
Return(e) == [k |-> "return", e |-> e]
If(bs, els) == [k |-> "if", bs |-> bs, els |-> els]   \* bs: <<condition, body>> pairs
While(c, b) == [k |-> "while", c |-> c, b |-> b]
Times(n, b) == [k |-> "times", n |-> n, b |-> b]
ForRange(x, from, to, step, b) ==
    [k |-> "range", x |-> x, from |-> from, to |-> to, step |-> step, b |-> b]
ForEach(x, e, b) == [k |-> "each", x |-> x, e |-> e, b |-> b]
Break == [k |-> "break"]
Continue == [k |-> "continue"]
Stop == [k |-> "stop"]
Def(f, ps, b) == [k |-> "def", f |-> f, ps |-> ps, b |-> b]

-----------------------------------------------------------------------------
(* Operators on values.  A result is a sequence: empty when the operation  *)
(* is an error.                                                            *)

Truthy(v) == v # 0 /\ v # None
Bit(b) == IF b THEN 1 ELSE 0
Logic(o, a, b) == IF o = "and" THEN Bit(Truthy(a) /\ Truthy(b))
                               ELSE Bit(Truthy(a) \/ Truthy(b))
Order(o, a, b) == CASE o = "<" -> a < b [] o = ">" -> a > b
                    [] o = "<=" -> a <= b [] o = ">=" -> a >= b
Modulo(a, b) == IF b > 0 THEN a % b ELSE -((-a) % (-b))      \* with the sign of b, as in Python
Operate(o, a, b) ==
    CASE o \in {"and", "or"} -> <<Logic(o, a, b)>>
      [] o = "==" -> <<Bit(a = b)>>
      [] o = "!=" -> <<Bit(a # b)>>
      [] o \in {"<", ">", "<=", ">="} ->
            <<IF a = None \/ b = None THEN 0 ELSE Bit(Order(o, a, b))>>
      [] o \in {"+", "-", "*"} /\ (a = None \/ b = None) -> << >>
      [] o = "+" -> <<a + b>>
      [] o = "-" -> <<a - b>>
      [] o = "*" -> <<a * b>>
      [] o = "%" -> <<IF a = None \/ b = None \/ b = 0 THEN None ELSE Modulo(a, b)>>

(* Negative indexes count from the end.                                    *)
ItemAt(list, i) ==
    LET j == IF i < 0 THEN Len(list) + i ELSE i
    IN  IF j \in 0..(Len(list) - 1) THEN <<list[j + 1]>> ELSE << >>

Numbers(from, to) == [i \in 1..(IF to > from THEN to - from ELSE 0) |-> from + i - 1]

-----------------------------------------------------------------------------
(* What a program means.  A state s of its evaluation has the skills fs,   *)
(* the scopes env (the program's own, and inside a skill that call's), the *)
(* lines out, the value v of the last expression, and flow: how control    *)
(* leaves the last statement.                                              *)

Bound(env, x) == \E i \in DOMAIN env : x \in DOMAIN env[i]
Lookup(env, x) == LET top == env[Len(env)] IN IF x \in DOMAIN top THEN top[x] ELSE env[1][x]
Bind(env, x, v) == [env EXCEPT ![Len(env)] = (x :> v) @@ @]
Err(s) == [s EXCEPT !.flow = "error"]
Given(s, r) == IF r = << >> THEN Err(s) ELSE [s EXCEPT !.v = r[1]]
Going(s) == s.flow = "next"
Then(r, F(_)) == IF Going(r) THEN F(r) ELSE r      \* goes on unless control left

RECURSIVE Eval(_, _), Block(_, _), Exec(_, _), Loop(_, _, _), Each(_, _, _, _), Maps(_, _, _)

EvalAll(es, s) ==
    LET more(acc, r) == [r EXCEPT !.v = Append(acc.v, @)]
    IN  FoldLeft(LAMBDA acc, e : IF Going(acc) THEN more(acc, Eval(e, acc)) ELSE acc,
                 [s EXCEPT !.v = << >>], es)

(* A skill runs in a scope of its own over the program's; the arguments it *)
(* is not given are none.                                                  *)
Invoke(f, as, s) ==
    IF f \notin DOMAIN s.fs \/ (f \in DOMAIN s.fs /\ Len(as) > Len(s.fs[f].ps)) THEN Err(s)
    ELSE LET ps == s.fs[f].ps
             own == [x \in ToSet(ps) |->
                        LET i == CHOOSE i \in DOMAIN ps : ps[i] = x
                        IN  IF i <= Len(as) THEN as[i] ELSE None]
             left(r) == [r EXCEPT !.env = s.env,
                                  !.v = IF r.flow = "return" THEN @ ELSE None,
                                  !.flow = IF @ \in {"stop", "error"} THEN @ ELSE "next"]
         IN  left(Block(s.fs[f].b, [s EXCEPT !.env = <<@[1], own>>]))

Maps(f, items, s) ==
    LET more(acc, r) == [r EXCEPT !.v = Append(acc.v, @)]
    IN  FoldLeft(LAMBDA acc, a : IF Going(acc) THEN more(acc, Invoke(f, <<a>>, acc)) ELSE acc,
                 [s EXCEPT !.v = << >>], items)

Eval(e, s) ==
    CASE e.k = "lit" -> [s EXCEPT !.v = e.v]
      [] e.k = "var" -> IF Bound(s.env, e.x) THEN [s EXCEPT !.v = Lookup(s.env, e.x)] ELSE Err(s)
      [] e.k = "bin" -> Then(EvalAll(<<e.l, e.r>>, s), LAMBDA r : Given(r, Operate(e.o, r.v[1], r.v[2])))
      [] e.k = "not" -> Then(Eval(e.e, s), LAMBDA r : [r EXCEPT !.v = Bit(~Truthy(@))])
      [] e.k = "neg" -> Then(Eval(e.e, s), LAMBDA r : Given(r, Operate("*", r.v, -1)))
      [] e.k = "index" -> Then(EvalAll(<<e.t, e.i>>, s), LAMBDA r : Given(r, ItemAt(r.v[1], r.v[2])))
      [] e.k = "list" -> EvalAll(e.as, s)
      [] e.k = "map" -> Then(Eval(e.e, s), LAMBDA r : Maps(e.f, r.v, r))
      [] e.k = "call" -> Then(EvalAll(e.as, s),
                              LAMBDA r : IF e.f = "range" THEN [r EXCEPT !.v = Numbers(@[1], @[2])]
                                         ELSE Invoke(e.f, r.v, r))

(* After the body of a loop: break ends the loop, continue does not.       *)
Again(r) == IF r.flow = "continue" THEN [r EXCEPT !.flow = "next"] ELSE r
After(r) == IF r.flow = "break" THEN [r EXCEPT !.flow = "next"] ELSE r

Loop(c, b, s) ==
    LET next(t) == IF Going(t) THEN Loop(c, b, t) ELSE After(t)
    IN  Then(Eval(c, s), LAMBDA r : IF Truthy(r.v) THEN next(Again(Block(b, r))) ELSE r)

Each(xs, items, b, s) ==
    LET next(t) == IF Going(t) THEN Each(xs, Tail(items), b, t) ELSE After(t)
    IN  IF items = << >> THEN s
        ELSE next(Again(Block(b, [s EXCEPT !.env = IF xs = << >> THEN @ ELSE Bind(@, xs[1], items[1])])))

Stepping(from, to, by) == SelectSeq(Numbers(from, to), LAMBDA i : (i - from) % by = 0)

Exec(st, s) ==
    CASE st.k \in {"assign", "keep"} ->
            Then(EvalAll(st.es, s),
                 LAMBDA r : [r EXCEPT !.env = FoldLeft(LAMBDA env, i : Bind(env, st.xs[i], r.v[i]),
                                                       @, [i \in DOMAIN st.xs |-> i])])
      [] st.k = "expr" -> Eval(st.e, s)
      [] st.k = "show" -> Then(EvalAll(st.es, s), LAMBDA r : [r EXCEPT !.out = Append(@, r.v)])
      [] st.k = "return" -> Then(Eval(st.e, s), LAMBDA r : [r EXCEPT !.flow = "return"])
      [] st.k = "if" ->
            IF st.bs = << >> THEN Block(st.els, s)
            ELSE Then(Eval(st.bs[1][1], s),
                      LAMBDA r : IF Truthy(r.v) THEN Block(st.bs[1][2], r)
                                 ELSE Exec([st EXCEPT !.bs = Tail(@)], r))
      [] st.k = "while" -> Loop(st.c, st.b, s)
      [] st.k = "times" -> Then(Eval(st.n, s), LAMBDA r : Each(<< >>, Numbers(0, r.v), st.b, r))
      [] st.k = "range" ->
            Then(EvalAll(<<st.from, st.to, st.step>>, s),
                 LAMBDA r : Each(<<st.x>>, Stepping(r.v[1], r.v[2], r.v[3]), st.b, r))
      [] st.k = "each" -> Then(Eval(st.e, s), LAMBDA r : Each(<<st.x>>, r.v, st.b, r))
      [] st.k = "def" -> s
      [] OTHER -> [s EXCEPT !.flow = st.k]          \* break, continue, stop

Block(b, s) == FoldLeft(LAMBDA acc, st : IF Going(acc) THEN Exec(st, acc) ELSE acc, s, b)

Defs(p) == SelectSeq(p, LAMBDA st : st.k = "def")
Skills(p) == [f \in {Defs(p)[i].f : i \in DOMAIN Defs(p)} |->
                 Defs(p)[CHOOSE i \in DOMAIN Defs(p) : Defs(p)[i].f = f]]

Run(p) == Block(p, [fs |-> Skills(p), env |-> <<<< >>>>, out |-> << >>, v |-> None, flow |-> "next"])

Ended(r) == [out |-> r.out, end |-> IF r.flow = "error" THEN "error" ELSE "done"]

Meaning(p) == Ended(Run(p))
=============================================================================

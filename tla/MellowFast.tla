----------------------------- MODULE MellowFast -----------------------------
(***************************************************************************)
(* The "fast" engine of the command line (fastlang): the program is        *)
(* written out as Python, statement by statement, and Python runs it.  So  *)
(* the meaning of a program is Python's: names, skills included, are bound *)
(* when the statement runs and are local to the skill that assigns them,   *)
(* calls take exactly the declared arguments, "and" and "or" give one of   *)
(* their operands, and what is wrong raises an exception.                  *)
(*                                                                         *)
(* Left out, as in MellowVM: strings, maps and floats, imports, events,    *)
(* system calls other than list.map, and the functions of the prelude      *)
(* other than range and show.                                              *)
(***************************************************************************)
EXTENDS MellowLang

(* The value of a name a skill is bound to.                                *)
Function(st) == [skill |-> st]

(* A state has no table of skills: fs holds, inside a skill, the names     *)
(* that are local to it.                                                   *)
RECURSIVE PyAssigned(_)
PyAssigned(b) ==
    UNION {LET st == b[i]
           IN  CASE st.k \in {"assign", "keep"} -> ToSet(st.xs)
                 [] st.k \in {"range", "each"} -> {st.x} \cup PyAssigned(st.b)
                 [] st.k = "times" -> {"count"} \cup PyAssigned(st.b)
                 [] st.k = "while" -> PyAssigned(st.b)
                 [] st.k = "if" -> PyAssigned(st.els) \cup UNION {PyAssigned(st.bs[j][2]) : j \in DOMAIN st.bs}
                 [] st.k = "def" -> {st.f}
                 [] OTHER -> {} : i \in DOMAIN b}

(* A name is looked up among the locals only or among the globals only: a  *)
(* local that is not assigned yet is an error whatever the program's own   *)
(* scope holds.                                                            *)
PyScope(s, x) == IF Len(s.env) > 1 /\ x \in s.fs THEN s.env[2] ELSE s.env[1]
PyName(s, x) == IF x \in DOMAIN PyScope(s, x) THEN [s EXCEPT !.v = PyScope(s, x)[x]] ELSE Err(s)

(* A comparison or a sum of none, and a division by zero, raise.           *)
PyOperate(o, a, b) ==
    IF \/ o \in {"<", ">", "<=", ">=", "%"} /\ (a = None \/ b = None)
       \/ o = "%" /\ b = 0
    THEN << >>
    ELSE Operate(o, a, b)

RECURSIVE PyEval(_, _), PyBlock(_, _), PyExec(_, _), PyLoop(_, _, _), PyEach(_, _, _, _)

PyAll(es, s) ==
    LET more(acc, r) == [r EXCEPT !.v = Append(acc.v, @)]
    IN  FoldLeft(LAMBDA acc, e : IF Going(acc) THEN more(acc, PyEval(e, acc)) ELSE acc,
                 [s EXCEPT !.v = << >>], es)

(* The skill's body runs with its locals, the parameters among them.       *)
PyInvoke(st, as, s) ==
    LET own == [x \in {st.ps[i] : i \in DOMAIN st.ps} |-> as[CHOOSE i \in DOMAIN st.ps : st.ps[i] = x]]
        r == PyBlock(st.b, [s EXCEPT !.env = <<@[1], own>>, !.fs = ToSet(st.ps) \cup PyAssigned(st.b)])
    IN  IF Len(as) # Len(st.ps) THEN Err(s)
        ELSE [r EXCEPT !.env = <<@[1]>> \o Tail(s.env), !.fs = s.fs,
                       !.v = IF r.flow = "return" THEN @ ELSE None,
                       !.flow = IF @ \in {"stop", "error"} THEN @ ELSE "next"]

(* The name of the skill is evaluated before its arguments, and must then  *)
(* be one.                                                                 *)
PyCall(e, s) ==
    IF e.f = "range"
    THEN Then(PyAll(e.as, s), LAMBDA r : [r EXCEPT !.v = Numbers(@[1], @[2])])
    ELSE Then(PyName(s, e.f),
              LAMBDA callee : Then(PyAll(e.as, callee), LAMBDA r : PyInvoke(callee.v.skill, r.v, r)))

(* "and" and "or" evaluate their right side only if the left does not      *)
(* decide.                                                                 *)
PyLogic(e, s) ==
    Then(PyEval(e.l, s),
         LAMBDA r : IF Truthy(r.v) = (e.o = "and") THEN PyEval(e.r, r) ELSE r)

PyEval(e, s) ==
    CASE e.k = "lit" -> [s EXCEPT !.v = e.v]
      [] e.k = "var" -> PyName(s, e.x)
      [] e.k = "bin" /\ e.o \in {"and", "or"} -> PyLogic(e, s)
      [] e.k = "bin" /\ e.o \notin {"and", "or"} ->
            Then(PyAll(<<e.l, e.r>>, s), LAMBDA r : Given(r, PyOperate(e.o, r.v[1], r.v[2])))
      [] e.k = "not" -> Then(PyEval(e.e, s), LAMBDA r : [r EXCEPT !.v = Bit(~Truthy(@))])
      [] e.k = "neg" -> Then(PyEval(e.e, s), LAMBDA r : Given(r, PyOperate("*", r.v, -1)))
      [] e.k = "index" -> Then(PyAll(<<e.t, e.i>>, s), LAMBDA r : Given(r, ItemAt(r.v[1], r.v[2])))
      [] e.k = "list" -> PyAll(e.as, s)
      [] e.k = "map" -> Err(s)                   \* a function nobody defines
      [] e.k = "call" -> PyCall(e, s)

PyBind(s, x, v) == [s EXCEPT !.env = Bind(@, x, v)]

PyLoop(c, b, s) ==
    LET next(t) == IF Going(t) THEN PyLoop(c, b, t) ELSE After(t)
    IN  Then(PyEval(c, s), LAMBDA r : IF Truthy(r.v) THEN next(Again(PyBlock(b, r))) ELSE r)

PyEach(x, items, b, s) ==
    LET next(t) == IF Going(t) THEN PyEach(x, Tail(items), b, t) ELSE After(t)
    IN  IF items = << >> THEN s ELSE next(Again(PyBlock(b, PyBind(s, x, Head(items)))))

(* Mutant: a counted loop runs once more.                                  *)
PyTimes_OneMore(st, s) ==
    Then(PyEval(st.n, s), LAMBDA r : IF r.v = None THEN Err(r) ELSE PyEach("count", Numbers(0, r.v + 1), st.b, r))

PyTimes(st, s) ==
    Then(PyEval(st.n, s), LAMBDA r : IF r.v = None THEN Err(r) ELSE PyEach("count", Numbers(0, r.v), st.b, r))

(* A range includes its end.                                               *)
PyRange(st, s) ==
    Then(PyAll(<<st.from, st.to, st.step>>, s),
         LAMBDA r : PyEach(st.x, Stepping(r.v[1], r.v[2] + 1, r.v[3]), st.b, r))

PyIf(st, s) ==
    IF st.bs = << >> THEN PyBlock(st.els, s)
    ELSE Then(PyEval(st.bs[1][1], s),
              LAMBDA r : IF Truthy(r.v) THEN PyBlock(st.bs[1][2], r)
                         ELSE PyExec([st EXCEPT !.bs = Tail(@)], r))

PyExec(st, s) ==
    CASE st.k \in {"assign", "keep"} ->
            Then(PyAll(st.es, s),
                 LAMBDA r : FoldLeft(LAMBDA t, i : PyBind(t, st.xs[i], r.v[i]), r, [i \in DOMAIN st.xs |-> i]))
      [] st.k = "expr" -> PyEval(st.e, s)
      [] st.k = "show" -> Then(PyAll(st.es, s), LAMBDA r : [r EXCEPT !.out = Append(@, r.v)])
      [] st.k = "return" -> Then(PyEval(st.e, s), LAMBDA r : [r EXCEPT !.flow = "return"])
      [] st.k = "if" -> PyIf(st, s)
      [] st.k = "while" -> PyLoop(st.c, st.b, s)
      [] st.k = "times" -> PyTimes(st, s)
      [] st.k = "range" -> PyRange(st, s)
      [] st.k = "each" ->
            Then(PyEval(st.e, s), LAMBDA r : PyEach(st.x, IF r.v = None THEN << >> ELSE r.v, st.b, r))
      [] st.k = "def" -> PyBind(s, st.f, Function(st))
      [] OTHER -> [s EXCEPT !.flow = st.k]

PyBlock(b, s) == FoldLeft(LAMBDA acc, st : IF Going(acc) THEN PyExec(st, acc) ELSE acc, s, b)

(* Python does not even start a program that returns outside a skill.      *)
RECURSIVE ReturnsOutside(_)
ReturnsOutside(b) ==
    \E i \in DOMAIN b :
        CASE b[i].k = "return" -> TRUE
          [] b[i].k \in {"while", "times", "range", "each"} -> ReturnsOutside(b[i].b)
          [] b[i].k = "if" -> ReturnsOutside(b[i].els) \/ \E j \in DOMAIN b[i].bs : ReturnsOutside(b[i].bs[j][2])
          [] OTHER -> FALSE

FastRun(p) ==
    LET s == [fs |-> {}, env |-> <<<< >>>>, out |-> << >>, v |-> None, flow |-> "next"]
    IN  IF ReturnsOutside(p) THEN Err(s) ELSE PyBlock(p, s)

FastMeaning(p) == Ended(FastRun(p))
=============================================================================

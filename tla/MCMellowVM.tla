----------------------------- MODULE MCMellowVM -----------------------------
(* Programs for TLC. *)
EXTENDS MellowEngines, MellowDebugger, MellowText

n(v) == Literal(v)
None0 == Literal(None)
x == Var("x")
i == Var("i")
Inc(y) == Set(y, Binary("+", Var(y), n(1)))
Less(e, k) == Binary("<", e, n(k))
Is(e, k) == Binary("==", e, n(k))

(* Statements a loop body is made of; x counts the rounds of every loop.   *)
When(k, st) == If(<<<<Is(x, k), <<st>>>>>>, << >>)
Steps == <<Show(<<x>>), Break, When(1, Break), When(2, Stop),
           If(<<<<Less(x, 1), <<Show(<<n(7), x>>)>>>>, <<Less(x, 2), << >>>>>>, <<Show(<<n(8)>>)>>),
           Times(n(2), <<When(2, Break), Show(<<n(9)>>)>>),
           While(Less(x, 2), <<Inc("x"), When(1, Continue), Show(<<n(6), x>>)>>)>>
Loops(y, b) == <<
    While(Less(x, 3), <<Inc("x")>> \o b),
    Times(n(3), b \o <<Inc("x")>>),
    ForRange(y, n(0), n(5), n(2), <<Inc("x")>> \o b \o <<Show(<<Var(y)>>)>>),
    ForEach(y, List(<<n(4), n(5)>>), <<Inc("x")>> \o b \o <<Show(<<Var(y)>>)>>)>>
Started(b) == <<Set("x", n(0))>> \o b \o <<Show(<<x>>)>>
Looping == UNION {{Started(<<Loops("i", <<Steps[a], Steps[b]>>)[l]>>) : l \in 1..4} :
              a, b \in DOMAIN Steps}
Nesting == {Started(<<Loops("i", <<Loops("j", <<Steps[a]>>)[m], Steps[a]>>)[l]>>) :
              a \in DOMAIN Steps, l \in 1..4, m \in 1..4}

Fact == Def("fact", <<"k">>, <<
            If(<<<<Less(Var("k"), 2), <<Return(n(1))>>>>>>, << >>),
            Return(Binary("*", Var("k"), Call("fact", <<Binary("-", Var("k"), n(1))>>)))>>)
Find == Def("find", <<"k">>, <<
            ForEach("y", Call("range", <<n(0), n(4)>>), <<
                Times(n(2), <<If(<<<<Binary("==", Var("y"), Var("k")), <<Return(Var("y"))>>>>>>, << >>)>>)>>)>>)
Twice == Def("twice", <<"v">>, <<Set("w", Var("v")), Show(<<Var("w")>>),
                                  Return(Binary("*", Var("w"), n(2)))>>)
Quad == Def("quad", <<"v">>, <<Return(Call("twice", <<Call("twice", <<Var("v")>>)>>))>>)
Quiet == Def("quiet", <<"v">>, <<Set("x", n(9))>>)
Skilled == {
    <<Fact, Show(<<Call("fact", <<n(4)>>), Call("fact", <<n(1)>>)>>)>>,
    <<Find, Show(<<Call("find", <<n(2)>>), Call("find", <<n(5)>>), Call("find", << >>)>>)>>,
    <<ExprStmt(Call("quad", <<n(1)>>)), Twice, Quad, Show(<<Call("quad", <<n(3)>>)>>)>>,
    <<Twice, Show(<<n(1)>>), Show(<<Call("twice", <<n(1), n(2)>>)>>)>>,
    <<Twice, Set("x", n(1)), Set("v", n(2)), Show(<<x, Var("v"), Call("twice", <<n(4)>>)>>)>>,
    <<Def("isnt", <<"v">>, <<Return(Not(Var("v")))>>), Show(<<Call("isnt", <<n(0)>>), Call("isnt", <<n(2)>>)>>)>>,
    <<Show(<<Call("nothing", <<n(1)>>)>>)>>,
    <<Show(<<n(1)>>), Show(<<x>>)>>,
    <<Show(<<n(1)>>), Return(n(2)), Show(<<n(3)>>)>>,
    <<Show(<<Index(List(<<n(1), n(2)>>), n(-2))>>), Show(<<Index(List(<<n(1)>>), n(1))>>)>>,
    <<Set("x", n(1)), Set("y", n(2)), Assign(<<"x", "y">>, <<Var("y"), x>>), Show(<<x, Var("y")>>)>>,
    <<Show(<<Not(n(0)), Binary("and", n(2), None0), Binary("or", n(0), n(3)), Binary("%", n(5), n(0))>>)>>,
    <<Show(<<Binary("<", None0, n(1))>>), Show(<<Binary("+", None0, n(1))>>)>>}

(* A skill given to list.map: it runs on a nested machine.                 *)
Double == Def("double", <<"v">>, <<Keep(<<"w">>, <<Var("v")>>), Return(Binary("*", Var("v"), n(2)))>>)
Mapped == {
    <<Twice, Show(<<ListMap(List(<<n(1), n(2), n(3)>>), "twice")>>), Show(<<ListMap(List(<< >>), "twice")>>)>>,
    <<Twice, Quad, Set("v", n(5)), Show(<<Index(ListMap(List(<<Var("v"), n(2)>>), "quad"), n(-1)), Var("v")>>)>>,
    <<Quiet, Set("x", n(1)), Show(<<Call("quiet", << >>), x>>), Show(<<ListMap(List(<<n(1)>>), "quiet"), x>>)>>,
    <<Double, Show(<<ListMap(List(<<n(1), n(2)>>), "double"), Call("double", <<n(3)>>)>>)>>}

(* Straight programs, which the optimizer rewrites: constants, copies of   *)
(* what is known, values that turn out equal.                              *)
y == Var("y")
z == Var("z")
Single(k) == List(<<n(k)>>)
Known == {<<Set("x", n(3)), Set("y", Binary(o, x, e)), Set("x", Binary(p, e, y)), Show(<<x, y>>)>> :
             o \in {"+", "-", "<", "and"}, p \in {"*", "-", "==", "or"}, e \in {n(0), n(2), x}}
Reused == {<<Set("x", Single(j)), Set("y", Single(k)), Set("z", e), Set("x", n(1)), Show(<<e2, z, y>>)>> :
             j \in {0, 2}, k \in {0, 2}, e \in {Binary("==", x, y), List(<<x, y>>), Binary("!=", x, x)},
             e2 \in {x, Binary("+", x, n(1)), Binary("-", n(1), x)}}
Stopped == {<<Set("x", n(1)), ExprStmt(e), Show(<<e>>), Stop, Show(<<x>>)>> : e \in {Binary("+", x, n(2)), Not(x)}}
Straight == Known \cup Reused \cup Stopped

(* Expressions whose brackets matter.                                      *)
Op == {"or", "and", "<", "-", "*", "%"}
Joined(o, p, e, f) == <<Binary(o, Binary(p, e, f), n(3)), Binary(o, n(3), Binary(p, e, f))>>
Bracketed == {<<Set("x", n(1)), Show(Joined(o, p, x, n(2))), If(<<<<Joined(o, p, n(2), x)[k], <<Show(<<n(4)>>)>>>>>>, << >>)>> :
                 o \in Op, p \in Op, k \in {1, 2}}
Prefixed == {<<Show(<<Neg(e), Binary("-", Neg(e), e), Binary("*", n(2), Neg(e)), Not(Neg(e)),
                      Binary("and", Not(e), Not(Not(e)))>>)>> :
                e \in {n(0), n(2), Binary("-", n(1), n(2)), Neg(n(1))}}
Indexed == {<<Twice, Set("x", List(<<n(5), List(<<n(6), n(7)>>)>>)),
              Show(<<Index(Index(x, n(1)), e), Index(List(<<n(2), n(3)>>), e),
                     Call("twice", <<Binary("+", Index(x, n(0)), e)>>)>>)>> :
               e \in {n(0), n(-1), Binary("-", n(1), n(1)), Neg(n(2))}}
Expressions == Bracketed \cup Prefixed \cup Indexed

MCPrograms == {Written(tree, Core) : tree \in Looping \cup Expressions \cup Mapped}
              \cup {Written(tree, Friendly) : tree \in Nesting \cup Skilled \cup Straight}

MCBreakpoints == {{}, {"PRINTN"}, {"CALL", "RETURN"}}
MCDebugged == {Written(tree, Core) : tree \in
    {Started(<<Loops("i", <<Steps[3], Steps[1]>>)[1]>>),
     <<Twice, Show(<<ListMap(List(<<n(1), n(2), n(3)>>), "twice")>>), Show(<<ListMap(List(<< >>), "twice")>>)>>}}
    \cup {Written(tree, Friendly) : tree \in
    {<<Fact, Show(<<Call("fact", <<n(4)>>), Call("fact", <<n(1)>>)>>)>>,
     <<ExprStmt(Call("quad", <<n(1)>>)), Twice, Quad, Show(<<Call("quad", <<n(3)>>)>>)>>,
     <<Show(<<n(1)>>), Show(<<x>>)>>}}
=============================================================================

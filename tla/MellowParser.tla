---------------------------- MODULE MellowParser ----------------------------
(***************************************************************************)
(* The parser of the Python compiler (src/mellowlang/parsing).  Its input  *)
(* is a sequence of lines, each with its indentation (in levels, not       *)
(* spaces) and its tokens (strings).                                       *)
(*                                                                         *)
(* Results have a position i: the place behind what was parsed, 0 for a    *)
(* ParseError.  No token stands at position 0, so an error passes through  *)
(* whatever is parsed next.                                                *)
(*                                                                         *)
(* Left out: characters (lexer.py), comments and literals over several     *)
(* lines, and the forms the lowering refuses or MellowLang does not have.  *)
(***************************************************************************)
EXTENDS MellowLang

Numerals == <<"0", "1", "2", "3", "4", "5", "6", "7", "8", "9">>
Marks == {"(", ")", "[", "]", ",", ".", ":", "=", "EOF"}

(* or < and < comparisons < sums < products                                *)
Precedence ==
    [o \in {"or", "and", "==", "!=", ">", "<", ">=", "<=", "+", "-", "*", "%"} |->
        CASE o = "or" -> 1 [] o = "and" -> 2 [] o \in {"+", "-"} -> 4 [] o \in {"*", "%"} -> 5
          [] OTHER -> 3]

IsNumber(t) == t \in ToSet(Numerals)
IsName(t) == t \notin Marks \cup ToSet(Numerals) \cup (DOMAIN Precedence \ {"and", "or"})

Tok(toks, i) == IF i \in DOMAIN toks THEN toks[i] ELSE "EOF"
Res(e, i) == [e |-> e, i |-> i]
Failed == Res(Literal(None), 0)
With(r, F(_)) == IF r.i = 0 THEN Failed ELSE F(r)
Both(q, r, Make(_, _)) == With(q, LAMBDA a : With(r, LAMBDA b : Res(Make(a.e, b.e), b.i)))
Expect(toks, r, t) == IF Tok(toks, r.i) = t THEN [r EXCEPT !.i = @ + 1] ELSE Failed

-----------------------------------------------------------------------------
(* Expressions: a Pratt parser.                                            *)

RECURSIVE Expr(_, _, _), Operators(_, _, _), Prefix(_, _), Postfix(_, _), Items(_, _, _, _)

(* _parse_bp: operators that bind at least as tightly as min.              *)
Expr(toks, i, min) == Operators(toks, Prefix(toks, i), min)

Operators(toks, lhs, min) ==
    LET o == Tok(toks, lhs.i)
    IN  IF o \in DOMAIN Precedence /\ Precedence[o] >= min
        THEN With(Expr(toks, lhs.i + 1, Precedence[o] + 1),
                  LAMBDA rhs : Operators(toks, Res(Binary(o, lhs.e, rhs.e), rhs.i), min))
        ELSE lhs

(* Expressions between commas up to the closing mark; a list, unlike a     *)
(* call, may end with a comma.                                             *)
Items(toks, es, i, close) ==
    LET behind(r, all) == CASE Tok(toks, r.i) = close -> Res(all, r.i + 1)
                            [] Tok(toks, r.i) = "," -> Items(toks, all, r.i + 1, close)
                            [] OTHER -> Failed
    IN  IF Tok(toks, i) = close /\ (close = "]" \/ es = << >>) THEN Res(es, i + 1)
        ELSE With(Expr(toks, i, 0), LAMBDA r : behind(r, Append(es, r.e)))

(* call list.map(items, skill)                                             *)
ModuleCall(toks, i) ==
    IF SubSeq(toks, i + 1, i + 4) # <<"list", ".", "map", "(">> THEN Failed
    ELSE With(Items(toks, << >>, i + 5, ")"), LAMBDA as : Res(ListMap(as.e[1], as.e[2].x), as.i))

Prefix(toks, i) ==
    LET t == Tok(toks, i)
        prefixed(Make(_)) == With(Expr(toks, i + 1, 6), LAMBDA r : Res(Make(r.e), r.i))
    IN  CASE t = "not" -> prefixed(Not)
          [] t = "-" -> prefixed(Neg)
          [] IsNumber(t) -> Res(Literal(SelectInSeq(Numerals, LAMBDA d : d = t) - 1), i + 1)
          [] t \in {"true", "false"} -> Res(Literal(Bit(t = "true")), i + 1)
          [] t = "none" -> Res(Literal(None), i + 1)
          [] t = "call" -> ModuleCall(toks, i)
          [] t = "(" -> Postfix(toks, Expect(toks, Expr(toks, i + 1, 0), ")"))
          [] t = "[" -> With(Items(toks, << >>, i + 1, "]"), LAMBDA r : Postfix(toks, Res(List(r.e), r.i)))
          [] t \notin {"not", "true", "false", "none", "call"} /\ IsName(t) ->
                Postfix(toks, Res(Var(t), i + 1))
          [] OTHER -> Failed

(* Calls and indexes.  A call of anything but a name parses, but is        *)
(* refused by the lowering; empty brackets stand for [0].                  *)
Postfix(toks, r) ==
    LET at == r.i + 1
    IN  CASE Tok(toks, r.i) = "(" /\ r.e.k = "var" ->
                With(Items(toks, << >>, at, ")"),
                     LAMBDA as : Postfix(toks, Res(Call(r.e.x, as.e), as.i)))
          [] Tok(toks, r.i) = "(" /\ r.e.k # "var" -> Failed
          [] Tok(toks, r.i) = "[" ->
                With(IF Tok(toks, at) = "]" THEN Res(Literal(0), at) ELSE Expr(toks, at, 0),
                     LAMBDA n : Postfix(toks, Expect(toks, Res(Index(r.e, n.e), n.i), "]")))
          [] OTHER -> r

(* What stands behind the expression is not looked at.                     *)
ParseExpr(toks) == Expr(toks, 1, 0)

-----------------------------------------------------------------------------
(* Lines.                                                                  *)

(* How many brackets are open in front of each token.                      *)
Depths(toks) ==
    FoldLeft(LAMBDA ds, t : Append(ds, CASE t \in {"(", "["} -> Last(ds) + 1
                                         [] t \in {")", "]"} -> IF Last(ds) = 0 THEN 0 ELSE Last(ds) - 1
                                         [] OTHER -> Last(ds)),
             <<0>>, toks)
TopLevel(toks, t) == SelectSeq([i \in DOMAIN toks |-> i], LAMBDA i : toks[i] = t /\ Depths(toks)[i] = 0)

SplitCommas(toks) ==
    LET cuts == <<0>> \o TopLevel(toks, ",") \o <<Len(toks) + 1>>
        parts == [j \in 1..(Len(cuts) - 1) |-> SubSeq(toks, cuts[j] + 1, cuts[j + 1] - 1)]
    IN  SelectSeq(parts, LAMBDA part : part # << >>)

(* The expressions between the commas; i is 1 if all of them parse.        *)
ParseAll(toks) ==
    LET rs == [j \in DOMAIN SplitCommas(toks) |-> ParseExpr(SplitCommas(toks)[j])]
    IN  Res([j \in DOMAIN rs |-> rs[j].e], IF \A j \in DOMAIN rs : rs[j].i # 0 THEN 1 ELSE 0)

Has(toks, t) == t \in ToSet(toks)
Ends(toks, t) == Tok(toks, Len(toks)) = t
Chopped(toks, t) == IF Ends(toks, t) THEN Front(toks) ELSE toks
From(toks, i) == SubSeq(toks, i, Len(toks))
FirstPos(toks, t) == SelectInSeq(toks, LAMBDA u : u = t)
LastPos(toks, t) == SelectLastInSeq(toks, LAMBDA u : u = t)

(* _rewrite_modern_aliases                                                 *)
Aliased(toks) ==
    CASE toks[1] = "let" -> <<"keep">> \o Tail(toks)
      [] toks[1] = "def" -> <<"skill">> \o Tail(toks)
      [] toks[1] = "while" /\ Ends(toks, ":") ->
            <<"loop", "(">> \o Chopped(Tail(toks), ":") \o <<")", ":">>
      [] toks[1] = "for" /\ Ends(toks, ":") /\ Has(toks, "in") -> <<"loop">> \o Tail(toks)
      [] OTHER -> toks

(* _extract_cond: what stands between the first opening and the last       *)
(* closing bracket of the line, or behind the keyword.                     *)
ExtractCond(toks) ==
    LET head == Chopped(toks, ":")
        open == FirstPos(head, "(")
        close == LastPos(head, ")")
    IN  IF 0 < open /\ open < close THEN SubSeq(head, open + 1, close - 1) ELSE Tail(head)

-----------------------------------------------------------------------------
(* Statements.  base is the indentation of the block they stand in, toks   *)
(* their first line.                                                       *)

Indented(lines, i, base) == i \in DOMAIN lines /\ (i \in DOMAIN lines => lines[i].ind = base)

(* A loop may be followed by a line end of its own.                        *)
ConsumeEnd(lines, i, base) ==
    IF Indented(lines, i, base) /\ (Indented(lines, i, base) => lines[i].toks = <<"end">>) THEN i + 1 ELSE i

RECURSIVE Statements(_, _, _, _), Statement(_, _, _, _), Chain(_, _, _, _)

(* The lines of one block, up to one that is indented less or its end.     *)
Statements(lines, i, base, stmts) ==
    IF i \notin DOMAIN lines \/ (i \in DOMAIN lines /\ lines[i].ind < base) THEN Res(stmts, i)
    ELSE IF lines[i].ind > base \/ (lines[i].toks = <<"end">> /\ base = 0) THEN Failed
    ELSE IF lines[i].toks = <<"end">> THEN Res(stmts, i + 1)
    ELSE With(Statement(lines, i, base, Aliased(lines[i].toks)),
              LAMBDA r : Statements(lines, r.i, base, Append(stmts, r.e)))

Body(lines, i, base) == Statements(lines, i + 1, base + 1, << >>)
LoopBody(lines, i, base) ==
    With(Body(lines, i, base), LAMBDA body : Res(body.e, ConsumeEnd(lines, body.i, base)))

LoopStmt(lines, i, base, toks) ==
    LET loop(head, Make(_, _)) == Both(ParseExpr(head), LoopBody(lines, i, base), Make)
        fourth == Chopped(From(toks, 4), ":")
    IN  IF SubSeq(toks, 1, 2) = <<"loop", "count">> /\ Ends(toks, ":")
        THEN IF toks[3] = "<" THEN loop(fourth, Times) ELSE Failed
        ELSE IF Has(toks, "in") /\ Ends(toks, ":")
        THEN IF toks[3] = "in" THEN loop(fourth, LAMBDA e, b : ForEach(toks[2], e, b)) ELSE Failed
        ELSE IF Ends(Chopped(toks, ":"), "times") THEN loop(SubSeq(toks, 2, Len(toks) - 2), Times)
        ELSE loop(ExtractCond(toks), While)

(* for x = end | start, end | start, end, step                             *)
NumericFor(lines, i, base, toks) ==
    LET head == Chopped(Chopped(toks, "do"), ":")
        range(es, b) == IF Len(es) = 1 THEN ForRange(head[2], Literal(1), es[1], Literal(1), b)
                        ELSE ForRange(head[2], es[1], es[2], IF Len(es) = 3 THEN es[3] ELSE Literal(1), b)
    IN  With(ParseAll(From(head, 4)),
             LAMBDA es : IF Len(es.e) \notin 1..3 THEN Failed
                         ELSE With(LoopBody(lines, i, base), LAMBDA b : Res(range(es.e, b.e), b.i)))

SkillStmt(lines, i, base, toks) ==
    LET head == Chopped(toks, ":")
        ps == SplitCommas(SubSeq(head, FirstPos(head, "(") + 1, Len(head) - 1))
    IN  IF Ends(toks, ":") /\ Has(head, "(") /\ Ends(head, ")")
        THEN With(Body(lines, i, base),
                  LAMBDA body : Res(Def(head[2], [j \in DOMAIN ps |-> ps[j][1]], body.e), body.i))
        ELSE Failed

(* A condition and what is to be done if it holds.                         *)
Branch(lines, i, base, toks) ==
    Both(ParseExpr(ExtractCond(toks)), Body(lines, i, base), LAMBDA c, b : <<c, b>>)

(* also, elif and else behind the branches of st.                          *)
Chain(lines, i, base, st) ==
    IF ~Indented(lines, i, base) THEN Res(st, i)
    ELSE IF lines[i].toks[1] \in {"also", "elif"}
    THEN With(Branch(lines, i, base, lines[i].toks),
              LAMBDA r : Chain(lines, r.i, base, [st EXCEPT !.bs = Append(@, r.e)]))
    ELSE IF lines[i].toks[1] = "else" /\ Tok(lines[i].toks, 2) = ":"
    THEN With(Body(lines, i, base), LAMBDA r : Res([st EXCEPT !.els = r.e], r.i))
    ELSE Res(st, i)

IfStmt(lines, i, base, toks) ==
    With(Branch(lines, i, base, toks), LAMBDA r : Chain(lines, r.i, base, If(<<r.e>>, << >>)))

(* keep x = e, keep x, y = e, f and the same without keep.  One name with  *)
(* keep takes all that follows for one expression.                         *)
Binding(i, toks) ==
    LET kept == toks[1] = "keep"
        at == IF kept THEN FirstPos(toks, "=") ELSE TopLevel(toks, "=")[1]
        xs == SplitCommas(SubSeq(toks, IF kept THEN 2 ELSE 1, at - 1))
        value == From(toks, at + 1)
        bind(es) == IF Len(xs) # Len(es) \/ \E j \in DOMAIN xs : Len(xs[j]) # 1 THEN Failed
                    ELSE Res([Assign([j \in DOMAIN xs |-> xs[j][1]], es) EXCEPT !.k = IF kept THEN "keep" ELSE @],
                             i + 1)
    IN  IF at = 0 THEN Failed
        ELSE IF kept /\ Len(xs) = 1 THEN With(ParseExpr(value), LAMBDA r : bind(<<r.e>>))
        ELSE With(ParseAll(value), LAMBDA r : bind(r.e))

(* print(a, b), print a, b and show, which does not take empty brackets.   *)
ShowStmt(i, toks) ==
    LET rest == Tail(toks)
        bracketed == Tok(rest, 1) = "(" /\ Ends(rest, ")") /\ (toks[1] = "show" => Len(rest) > 2)
    IN  With(ParseAll(IF bracketed THEN Tail(Front(rest)) ELSE rest),
             LAMBDA r : Res(Show(IF r.e = << >> THEN <<Literal(None)>> ELSE r.e), i + 1))

ReturnStmt(i, toks) ==
    IF Len(toks) = 1 THEN Res(Return(Literal(None)), i + 1)
    ELSE With(ParseExpr(Tail(toks)), LAMBDA r : Res(Return(r.e), i + 1))

Statement(lines, i, base, toks) ==
    LET h == toks[1]
        opens == {"skill", "if", "check", "loop", "keep"}
        numeric == h = "for" /\ Has(toks, "=") /\ ~Has(toks, "in")
        assigns == h \notin opens /\ ~numeric /\ TopLevel(toks, "=") # << >>
    IN  CASE numeric -> NumericFor(lines, i, base, toks)
          [] h = "skill" -> SkillStmt(lines, i, base, toks)
          [] h \in {"if", "check"} -> IfStmt(lines, i, base, toks)
          [] h = "loop" -> LoopStmt(lines, i, base, toks)
          [] h = "keep" \/ assigns -> Binding(i, toks)
          [] h \in {"show", "print"} /\ ~assigns -> ShowStmt(i, toks)
          [] h = "return" /\ ~assigns -> ReturnStmt(i, toks)
          [] toks = <<"stop">> -> Res(Stop, i + 1)
          [] toks = <<"break">> -> Res(Break, i + 1)
          [] toks = <<"continue">> -> Res(Continue, i + 1)
          [] OTHER -> With(ParseExpr(toks), LAMBDA r : Res(ExprStmt(r.e), i + 1))

ParseProgram(lines) == Statements(lines, 1, 0, << >>)
=============================================================================

----------------------------- MODULE MellowText -----------------------------
(***************************************************************************)
(* How programs are written: the grammar of docs/LANGUAGE_SPEC_2_9.md      *)
(* (sections 4 and 5), with as few brackets as it allows, in two spellings *)
(* (dialects): the core one of that document, and the friendly one of      *)
(* docs/SYNTAX_REFERENCE.md.  What MellowParser makes of the text has to   *)
(* mean what the tree means.                                               *)
(***************************************************************************)
EXTENDS MellowLang

(* How tightly the grammar binds the outermost operator of an expression.  *)
Level(e) ==
    CASE e.k = "bin" -> CASE e.o = "or" -> 1 [] e.o = "and" -> 2
                          [] e.o \in {"+", "-"} -> 4 [] e.o \in {"*", "%"} -> 5
                          [] OTHER -> 3
      [] e.k \in {"not", "neg", "map"} -> 6
      [] e.k = "lit" /\ e.v \in Int /\ e.v < 0 -> 6
      [] OTHER -> 7

Commas(texts) ==
    FoldLeft(LAMBDA all, t : IF all = << >> THEN t ELSE all \o <<",">> \o t, << >>, texts)

LiteralText(v) ==
    IF v = None THEN <<"none">>
    ELSE IF v < 0 THEN <<"-", ToString(-v)>> ELSE <<ToString(v)>>

RECURSIVE Text(_, _), StatementText(_, _, _)

Texts(es) == Commas([i \in DOMAIN es |-> Text(es[i], 1)])

(* e as an operand that has to bind at least as tightly as min.  Operators *)
(* associate to the left, comparisons do not associate.                    *)
Text(e, min) ==
    LET right == Level(e) + 1
        left == IF Level(e) = 3 THEN right ELSE Level(e)
        text == CASE e.k = "lit" -> LiteralText(e.v)
                  [] e.k = "var" -> <<e.x>>
                  [] e.k = "bin" -> Text(e.l, left) \o <<e.o>> \o Text(e.r, right)
                  [] e.k = "not" -> <<"not">> \o Text(e.e, 7)
                  [] e.k = "neg" -> <<"-">> \o Text(e.e, 7)
                  [] e.k = "call" -> <<e.f, "(">> \o Texts(e.as) \o <<")">>
                  [] e.k = "list" -> <<"[">> \o Texts(e.as) \o <<"]">>
                  [] e.k = "index" -> Text(e.t, 7) \o <<"[">> \o Text(e.i, 1) \o <<"]">>
                  [] e.k = "map" -> <<"call", "list", ".", "map", "(">> \o Text(e.e, 1)
                                    \o <<",", e.f, ")">>
    IN  IF Level(e) < min THEN <<"(">> \o text \o <<")">> ELSE text

(* A dialect says how loops and branches are spelled, and when a condition *)
(* is put into brackets: never, or whenever it contains brackets.          *)
Core == [friendly |-> FALSE, bare |-> FALSE]
Friendly == [friendly |-> TRUE, bare |-> FALSE]
Bare == [friendly |-> FALSE, bare |-> TRUE]

Condition(e, dialect) ==
    LET text == Text(e, 1)
    IN  IF ~dialect.bare /\ "(" \in ToSet(text) THEN <<"(">> \o text \o <<")">> ELSE text

Line0(ind, toks) == [ind |-> ind, toks |-> toks]
BlockText(b, ind, dialect) ==
    FlattenSeq([i \in DOMAIN b |-> StatementText(b[i], ind, dialect)])
Headed(head, b, ind, dialect) == <<Line0(ind, head)>> \o BlockText(b, ind + 1, dialect)
Looped(head, b, ind, dialect) ==
    Headed(head, b, ind, dialect) \o (IF dialect.friendly THEN <<Line0(ind, <<"end">>)>> ELSE << >>)

IfText(st, ind, dialect) ==
    LET word(i) == CASE i = 1 /\ dialect.friendly -> "check" [] i = 1 -> "if"
                     [] i > 1 /\ dialect.friendly -> "also" [] OTHER -> "elif"
    IN  FlattenSeq([i \in DOMAIN st.bs |->
            Headed(<<word(i)>> \o Condition(st.bs[i][1], dialect) \o <<":">>, st.bs[i][2], ind, dialect)])
        \o (IF st.els = << >> THEN << >> ELSE Headed(<<"else", ":">>, st.els, ind, dialect))

StatementText(st, ind, dialect) ==
    LET friendly == dialect.friendly
        names(xs) == Commas([i \in DOMAIN xs |-> <<xs[i]>>])
        for(toks) == Looped(<<"for", st.x>> \o toks, st.b, ind, dialect)
        simple(toks) == <<Line0(ind, toks)>>
    IN  CASE st.k \in {"assign", "keep"} -> simple((IF friendly \/ st.k = "keep" THEN <<"let">> ELSE << >>)
                                       \o names(st.xs) \o <<"=">> \o Texts(st.es))
          [] st.k = "expr" -> simple(Text(st.e, 1))
          [] st.k = "show" -> simple(<<IF friendly THEN "show" ELSE "print", "(">> \o Texts(st.es) \o <<")">>)
          [] st.k = "return" -> simple(<<"return">> \o Text(st.e, 1))
          [] st.k = "if" -> IfText(st, ind, dialect)
          [] st.k = "while" -> Looped((IF friendly THEN <<"loop">> \o Condition(st.c, dialect)
                                       ELSE <<"while">> \o Text(st.c, 1)) \o <<":">>, st.b, ind, dialect)
          [] st.k = "times" -> Looped((IF friendly THEN <<"loop", "count", "<">> \o Text(st.n, 4)
                                       ELSE <<"loop">> \o Text(st.n, 1) \o <<"times">>) \o <<":">>,
                                      st.b, ind, dialect)
          [] st.k = "range" -> for(<<"=">> \o Texts(<<st.from, st.to, st.step>>)
                                   \o <<IF friendly THEN "do" ELSE ":">>)
          [] st.k = "each" -> for(<<"in">> \o Text(st.e, 1) \o <<":">>)
          [] st.k = "def" -> Headed(<<IF friendly THEN "skill" ELSE "def", st.f, "(">> \o names(st.ps)
                                    \o <<")", ":">>, st.b, ind, dialect)
          [] OTHER -> simple(<<st.k>>)

Written(tree, dialect) == [tree |-> tree, text |-> BlockText(tree, 0, dialect)]
=============================================================================

----------------------------- MODULE MellowFlow -----------------------------
(***************************************************************************)
(* What the compiler works out about the control flow of every program     *)
(* (compiler/optimizations/graph.py) and hands to its tools: basic blocks, *)
(* dominators, loops, and which definition each use of a name refers to    *)
(* (static single assignment form).                                        *)
(*                                                                         *)
(* Blocks are numbered in program order and stand for their labels.  A     *)
(* version of a name is the place where it is made: an instruction or the  *)
(* phi node at the head of a block.  Numbers of versions, the table of     *)
(* definitions and uses in program order, and the sources of phi nodes are *)
(* left out.                                                               *)
(***************************************************************************)
EXTENDS MellowCompiler, FiniteSetsExt

Leaves == {"RETURN", "STOP", "HALT"}
Jumps == {"JUMP", "JIF"}

-----------------------------------------------------------------------------
(* Blocks and their edges.                                                 *)

Leader(ir, i) ==
    \/ i = 1
    \/ ir[i].op = "LABEL"
    \/ ir[i - 1].op \in Jumps \cup Leaves

MarksLabel(i, l) == i.op = "LABEL" /\ i.a = l

Successors(g, b) ==
    LET last == g.ir[g.end[b]]
        target == {c \in g.blocks : last.op \in Jumps /\ MarksLabel(g.ir[g.start[c]], last.a)}
        next == {c \in g.blocks : c = b + 1 /\ last.op \notin Leaves \cup {"JUMP"}}
    IN  target \cup next

BuildCfg(ir) ==
    LET leaders == SelectSeq([i \in DOMAIN ir |-> i], LAMBDA i : Leader(ir, i))
        n == Len(leaders)
        g == [ir |-> ir, blocks |-> 1..n, start |-> leaders,
              end |-> [b \in 1..n |-> IF b = n THEN Len(ir) ELSE leaders[b + 1] - 1]]
        edges == {<<b, c>> \in g.blocks \X g.blocks : c \in Successors(g, b)}
    IN  [ir |-> ir, blocks |-> g.blocks, start |-> g.start, end |-> g.end,
         succ |-> [b \in g.blocks |-> {e[2] : e \in {d \in edges : d[1] = b}}],
         preds |-> [b \in g.blocks |-> {e[1] : e \in {d \in edges : d[2] = b}}]]

FirstBlock == 1

-----------------------------------------------------------------------------
(* Dominators: the greatest solution of the equations below, computed from *)
(* above until nothing changes.  A block nobody jumps to counts among the  *)
(* predecessors of its successors, and has no dominator but itself.        *)

Improve(g, dom) ==
    [b \in g.blocks |->
        IF b = FirstBlock THEN {b}
        ELSE {b} \cup {d \in UNION {dom[p] : p \in g.preds[b]} : \A p \in g.preds[b] : d \in dom[p]}]

RECURSIVE Refine(_, _)
Refine(g, dom) == LET next == Improve(g, dom) IN IF next = dom THEN dom ELSE Refine(g, next)
Dominators(g) == Refine(g, [b \in g.blocks |-> IF b = FirstBlock THEN {b} ELSE g.blocks])

(* The closest dominator: the one that dominates no other; 0 without one.  *)
ImmediateDominator(g, dom, b) ==
    LET strict == dom[b] \ {b}
        closest == {d \in strict : \A other \in strict \ {d} : d \notin dom[other]}
    IN  IF b = FirstBlock \/ closest = {} THEN 0 ELSE CHOOSE d \in closest : TRUE

(* The blocks that lead to tail without passing through head.              *)
RECURSIVE Collect(_, _, _)
Collect(g, loop, work) ==
    IF work = {} THEN loop
    ELSE LET new == UNION {g.preds[b] : b \in work} \ loop IN Collect(g, loop \cup new, new)
NaturalLoop(g, tail, head) == Collect(g, {head, tail}, {tail})

BackEdges(g, dom) == {<<b, s>> \in g.blocks \X g.blocks : s \in g.succ[b] /\ s \in dom[b]}

-----------------------------------------------------------------------------
(* Definitions and uses.                                                   *)

IsStore(i) == i.op \in StoreOps
Stores(i, x) == IsStore(i) /\ i.a = x
Loads(i, x) == i.op = "LOAD" /\ i.a = x
Within(g, b) == g.start[b]..g.end[b]
Names(g) == {g.ir[i].a : i \in {j \in DOMAIN g.ir : g.ir[j].op \in {"LOAD"} \cup StoreOps}}
Defines(g, b, x) == \E i \in Within(g, b) : Stores(g.ir[i], x)

(* Up from each predecessor of a join to the join's closest dominator.     *)
RECURSIVE RunUp(_, _, _)
RunUp(idom, from, to) == IF from \in {0, to} THEN {} ELSE {from} \cup RunUp(idom, idom[from], to)

(* Mutant: two predecessors are not taken for a join.                      *)
Frontier_OffByOne(g, idom, b) ==
    {j \in g.blocks : /\ Cardinality(g.preds[j]) > 2
                      /\ \E p \in g.preds[j] : b \in RunUp(idom, p, idom[j])}

Frontier(g, idom, b) ==
    {j \in g.blocks : /\ Cardinality(g.preds[j]) > 1
                      /\ \E p \in g.preds[j] : b \in RunUp(idom, p, idom[j])}

(* Where x needs a phi node: the frontiers of its definitions and, phi     *)
(* nodes being definitions too, theirs.                                    *)
RECURSIVE Spread(_, _, _, _)
Spread(g, idom, phis, work) ==
    LET new == UNION {Frontier(g, idom, b) : b \in work} \ phis
    IN  IF new = {} THEN phis ELSE Spread(g, idom, phis \cup new, new)
PhiBlocks(g, idom, x) == Spread(g, idom, {}, {b \in g.blocks : Defines(g, b, x)})

Unnamed == <<"none", 0>>                       \* no definition yet
Phi(b) == <<"phi", b>>
Stored(i) == <<"store", i>>

(* Renaming walks down the dominator tree; names are the versions on top   *)
(* of the stacks.                                                          *)
Renamed(g, phis, b, names) ==
    LET heads == [x \in DOMAIN names |-> IF b \in phis[x] THEN Phi(b) ELSE names[x]]
    IN  FoldLeft(LAMBDA r, i :
                    CASE g.ir[i].op = "LOAD" -> [r EXCEPT !.uses = (i :> r.names[g.ir[i].a]) @@ @]
                      [] IsStore(g.ir[i]) -> [r EXCEPT !.names[g.ir[i].a] = Stored(i)]
                      [] OTHER -> r,
                 [names |-> heads, uses |-> << >>], Numbers(g.start[b], g.end[b] + 1))

RECURSIVE Walk(_, _, _, _, _)
Walk(g, idom, phis, b, names) ==
    LET r == Renamed(g, phis, b, names)
        children == {c \in g.blocks : idom[c] = b}
    IN  FoldSet(LAMBDA c, uses : uses @@ Walk(g, idom, phis, c, r.names), r.uses, children)

(* The version each LOAD refers to; those the walk does not reach have none.*)
BuildSsa(g, idom) ==
    LET phis == [x \in Names(g) |-> PhiBlocks(g, idom, x)]
    IN  Walk(g, idom, phis, FirstBlock, [x \in Names(g) |-> Unnamed])

-----------------------------------------------------------------------------
(* What these words mean, from the paths through the graph.                *)

RECURSIVE Reach(_, _, _)
Reach(g, seen, without) ==
    LET new == (UNION {g.succ[b] : b \in seen}) \ (seen \cup without)
    IN  IF new = {} THEN seen ELSE Reach(g, seen \cup new, without)
Reached(g, without) == IF FirstBlock \in without THEN {} ELSE Reach(g, {FirstBlock}, without)

Guards(g, d, b) == b \notin Reached(g, {d})    \* every path to b passes d

(* Definitions of x that some path carries to the end of block b.          *)
Carried(g, phis, x, in, b) ==
    LET stores == {i \in Within(g, b) : Stores(g.ir[i], x)}
    IN  IF stores # {} THEN {Stored(Max(stores))} ELSE IF b \in phis THEN {Phi(b)} ELSE in[b]

RECURSIVE Flow(_, _, _, _)
Flow(g, phis, x, in) ==
    LET next == [b \in g.blocks |->
                    (IF b = FirstBlock THEN {Unnamed} ELSE {})
                    \cup UNION {Carried(g, phis, x, in, p) : p \in g.preds[b]}]
    IN  IF next = in THEN in ELSE Flow(g, phis, x, next)

(* The definitions that reach instruction i, a LOAD of block b.            *)
Reaching(g, phis, x, in, b, i) ==
    LET before == {j \in g.start[b]..(i - 1) : Stores(g.ir[j], x)}
    IN  IF before # {} THEN {Stored(Max(before))} ELSE IF b \in phis THEN {Phi(b)} ELSE in[b]

(* Every block can be reached, and none leads back to the first.  (A       *)
(* jump out of a loop or branch leaves a block behind it that nothing      *)
(* reaches, and so does a skill, which no edge enters.)                    *)
IsClean(g) == Reached(g, {}) = g.blocks /\ g.preds[FirstBlock] = {}

DominatorsGuard(g, dom) ==
    \A b \in Reached(g, {}) : \A d \in g.blocks :
        /\ d \in dom[b] => Guards(g, d, b)
        /\ IsClean(g) /\ Guards(g, d, b) => d \in dom[b]

LoopsHaveOneEntry(g, dom) ==
    \A edge \in BackEdges(g, dom) :
        LET loop == NaturalLoop(g, edge[1], edge[2])
        IN  \A b \in loop \ {edge[2]} : g.preds[b] \subseteq loop

UsesNameTheirDefinition(g, idom) ==
    LET uses == BuildSsa(g, idom)
    IN  \A x \in Names(g) :
          LET phis == PhiBlocks(g, idom, x)
              in == Flow(g, phis, x, [b \in g.blocks |-> {}])
          IN  \A b \in g.blocks : \A i \in Within(g, b) :
                  Loads(g.ir[i], x) => Reaching(g, phis, x, in, b, i) = {uses[i]}

(* What the compiler knows of a program's flow is so.  (Sets of one, so    *)
(* that each of them is worked out once.)                                  *)
FlowHolds(ir) ==
    \A g \in {BuildCfg(ir)} : \A dom \in {Dominators(g)} :
        /\ DominatorsGuard(g, dom)
        /\ IsClean(g) =>
              /\ LoopsHaveOneEntry(g, dom)
              /\ \A idom \in {[b \in g.blocks |-> ImmediateDominator(g, dom, b)]} :
                    UsesNameTheirDefinition(g, idom)
=============================================================================

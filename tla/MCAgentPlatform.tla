-------------------------- MODULE MCAgentPlatform --------------------------
(* Instances of AgentPlatform for TLC. *)
EXTENDS AgentPlatform, TLC

(* The control plane.                                                      *)
MCSplits  == {<<70, 30>>, <<1, 199>>, <<-20, 60>>}
MCReports == {[load |-> "busy", rps |-> 0, replicas |-> None],
              [load |-> "mid", rps |-> 120, replicas |-> 2],
              [load |-> "idle", rps |-> 0, replicas |-> 3]}

(* Packages.  A version a.b.c is 10 * a + b; as strings 1.0.0 < 10.0.0 <   *)
(* 2.0.0 < 9.0.0.  app and c need each other, and two versions of b.       *)
Release(n, v, deps) == [name |-> n, ver |-> v, deps |-> deps, build |-> 1]
Part(op, v)         == [op |-> op, ver |-> v]

NoDeps == [n \in {} |-> {}]
B9  == Release("b", 90, NoDeps)
B10 == Release("b", 100, NoDeps)
C   == Release("c", 10, ("b" :> {Part(">=", 100)}) @@ ("app" :> {}))
App == Release("app", 10, ("b" :> {Part("^", 90)}) @@ ("c" :> {}))

MCPublished == {B9, B10, C, App}
MCReleases  == {B9, [B9 EXCEPT !.build = 2]}
MCOwn       == {App, [App EXCEPT !.ver = 20],
                [App EXCEPT !.deps = "b" :> {Part(">=", 100), Part("<", 110)}]}
MCRank      == (10 :> 1) @@ (100 :> 2) @@ (20 :> 3) @@ (90 :> 4)

(* Runs.                                                                   *)
Policy(tools, caps, sandbox, keyed, signed) ==
    [allowed_tools |-> tools, denied_tools |-> {}, allowed_capabilities |-> caps,
     denied_capabilities |-> {}, sandbox |-> sandbox, keyed |-> keyed, signed |-> signed]

MCTools    == {"search.docs", "time.now", "my.tool"}
MCPolicies == {Policy({"search.docs"}, {}, FALSE, FALSE, FALSE),
               Policy({"search.docs", "time.now"}, {"search.docs"}, TRUE, TRUE, TRUE),
               Policy({}, {}, FALSE, TRUE, FALSE)}

(* Procs and Callers are the same two: their groups never meet.            *)
Symmetry == Permutations(Procs) \cup Permutations(Bundles)
=============================================================================

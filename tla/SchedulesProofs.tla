---------------------------- MODULE SchedulesProofs ----------------------------
(* Proofs about Schedules for every set of processes, schedules, triggers, *)
(* webhooks and payloads and every bound.                                  *)
EXTENDS Schedules, SequenceTheorems, FiniteSetTheorems, WellFoundedInduction, TLAPS

-----------------------------------------------------------------------------
(* Types.                                                                  *)

Names  == {h.name : h \in Hooks}
Job    == [id : 1 .. MaxCalls, cron : Crons, next : Int, last : Nat \cup {None}, count : Nat]

(* What each file holds, and what a process works on.                      *)
Doc(f) ==
    CASE f = "jobs"     -> Seq(Job)
      [] f = "triggers" -> Seq(Trigger)
      [] f = "webhooks" -> Seq(Hooks)
      [] f = "queue"    -> Seq(Item)
      [] f = "runner"   -> Seq(Status)

Emission == [event : Events, payload : Payloads]
Post     == [name : Names]

Docs == Seq(Job) \cup Seq(Trigger) \cup Seq(Hooks)

PCs == {"idle", "hooked", "tick", "jobs", "round", "stop", "received", "match", "truncate", "write", "done"}
Nexts == {"idle", "hooked", "tick", "round", "stop", "match", "done"}
Vals  == Docs \cup Seq(Item) \cup Seq(Status)
Args  == {None} \cup Trigger \cup Emission \cup [payload : Payloads]
Heads == {None} \cup Hooks \cup Post
Stats == {None} \cup Status
Times == 0 .. MaxTime

Locals == [pc : PCs, doc : Docs, i : Nat, f : Files, v : Vals, then : Nexts, arg : Args,
           hook : Heads, now : Times, count : Nat, status : Stats]

Saves(l, f) == l.pc \in {"truncate", "write"} /\ l.f = f

(* The locals of a command that adds a trigger, of one that emits an event, *)
(* and of one that runs jobs.                                              *)
Adds(l)  == l.arg \in Trigger /\ l.arg.count = 0 /\ (l.hook = None \/ (l.hook \in Hooks /\ l.arg.event = l.hook.event))
Emits(l) == l.arg \in Emission /\ (l.hook = None \/ l.hook \in Post)

LocalOk(l) ==
    /\ l.pc = "jobs" => l.doc \in Seq(Job)
    /\ l.pc = "match" => l.doc \in Seq(Trigger) /\ Emits(l)
    /\ l.pc = "received" => l.doc \in Seq(Hooks) /\ l.hook \in Post /\ l.arg \in [payload : Payloads]
    /\ l.pc = "hooked" => Adds(l) /\ l.hook \in Hooks
    /\ l.pc \in {"tick", "jobs", "round", "stop"} => l.arg = None
    /\ l.pc = "round" => l.status # None
    /\ l.pc = "stop" => l.status # None
    /\ l.pc = "done" => l.arg = None \/ Adds(l) \/ Emits(l)
    /\ l.pc \in {"truncate", "write"} => l.v \in Doc(l.f)
    /\ Saves(l, "jobs") => l.arg = None /\ l.then \in {"done", "round"} /\ (l.then = "round" => l.status # None)
    /\ Saves(l, "runner") => l.arg = None /\ l.then \in {"tick", "stop", "done"} /\ l.status # None
    /\ Saves(l, "webhooks") => Adds(l) /\ l.hook \in Hooks /\ l.then = "hooked"
    /\ Saves(l, "triggers") => (Adds(l) \/ Emits(l)) /\ l.then = "done"
    /\ Saves(l, "queue") =>
          /\ Emits(l) /\ l.then = "match" /\ l.doc \in Seq(Trigger)
          /\ l.i \in DOMAIN l.doc /\ l.v # <<>> /\ l.v[Len(l.v)].trigger = l.doc[l.i].id

TypeOK ==
    /\ time \in 0 .. MaxTime
    /\ \A f \in Files : file[f] = Torn \/ file[f] \in Doc(f)
    /\ DOMAIN file = Files
    /\ loc \in [Procs -> Locals]
    /\ \A p \in Procs : LocalOk(loc[p])
    /\ made \in 0 .. MaxCalls
    /\ ran \in [1 .. MaxCalls -> [0 .. MaxTime -> Nat]]
    /\ queued \in [1 .. MaxCalls -> Nat]
    /\ known \subseteq Trigger
    /\ answers \in [Names -> Events \cup {None}]
    /\ owed \in [1 .. MaxCalls -> Nat]
    /\ half \subseteq Names
    /\ overlaps \in Nat /\ crashes \in Nat /\ raises \in Nat /\ tornCrash \in BOOLEAN

-----------------------------------------------------------------------------
(* Counters.                                                               *)

JobsCovered(doc) == \A k \in DOMAIN doc : doc[k].count <= Runs(doc[k].id)
TriggersCovered(doc, pending) ==
    \A k \in DOMAIN doc : doc[k].count <= queued[doc[k].id] + (IF k = pending THEN 1 ELSE 0)

FilesCovered == JobsCovered(Load("jobs")) /\ TriggersCovered(Load("triggers"), 0)

LocalCovered(l) ==
    /\ l.pc = "jobs" => JobsCovered(l.doc)
    /\ Saves(l, "jobs") => JobsCovered(l.v)
    /\ l.pc = "match" => TriggersCovered(l.doc, 0)
    /\ Saves(l, "queue") => TriggersCovered(l.doc, l.i)
    /\ Saves(l, "triggers") => TriggersCovered(l.v, 0)

CountInv == FilesCovered /\ \A p \in Procs : LocalCovered(loc[p])

-----------------------------------------------------------------------------
(* Runs in a minute.                                                       *)

Busy == {p \in Procs : loc[p].pc # "idle"}
InTurn == overlaps = 0 => \A p, q \in Busy : p = q

(* The entries of a document are jobs of their own, none ran later than n, *)
(* and a job was run in a minute that may still come only in rounds that   *)
(* raised or died, unless it is its last one.                              *)
Proper(doc, n) ==
    /\ \A k, h \in DOMAIN doc : doc[k].id = doc[h].id => k = h
    /\ \A k \in DOMAIN doc : doc[k].id <= made /\ (doc[k].last = None \/ doc[k].last <= n)

Unrun(doc, n) ==
    \A k \in DOMAIN doc : \A t \in n .. MaxTime :
        doc[k].last # t => ran[doc[k].id][t] <= crashes + raises

Round(l) == l.pc = "jobs" \/ Saves(l, "jobs")

RanBound ==
    \A j \in 1 .. MaxCalls : \A t \in Times :
        ran[j][t] <= 1 + crashes + raises /\ (j > made => ran[j][t] = 0)

LocalOnce(l) ==
    /\ l.pc = "jobs" => Proper(l.doc, l.now) /\ Unrun(l.doc, l.now) /\ l.now <= time
    /\ Saves(l, "jobs") => Proper(l.v, time) /\ Unrun(l.v, time)

OnceInv ==
    overlaps = 0 =>
        /\ RanBound
        /\ Proper(Load("jobs"), time)
        /\ (\A p \in Procs : ~Round(loc[p])) => Unrun(Load("jobs"), time)
        /\ \A p \in Procs : LocalOnce(loc[p])

-----------------------------------------------------------------------------
(* Events.                                                                 *)

Same(entry, trig) == entry.id = trig.id /\ entry.event = trig.event /\ entry.filter = trig.filter
Listed(doc, trig) == \E k \in DOMAIN doc : Same(doc[k], trig)
Lists(doc) == \A trig \in known : Listed(doc, trig)

Items(q, g) == Cardinality({k \in DOMAIN q : q[k].trigger = g})
Pays(q) == \A g \in 1 .. MaxCalls : owed[g] <= Items(q, g)
PaysOneMore(q, g) == owed[g] + 1 <= Items(q, g)

(* The triggers an emission went through have their item in q, and in the  *)
(* end all of those that match do.                                         *)
Served(l, q) ==
    \A trig \in known : Matches(trig, l.arg) =>
        \E k \in DOMAIN l.doc : Same(l.doc[k], trig) /\ (k <= l.i => PaysOneMore(q, trig.id))
AllServed(l, q) == \A trig \in known : Matches(trig, l.arg) => PaysOneMore(q, trig.id)

FirstHook(doc, n, event) ==
    \E k \in DOMAIN doc : doc[k].name = n /\ doc[k].event = event /\ \A h \in 1 .. k - 1 : doc[h].name # n

(* The first hook of a name is the one whose add was acknowledged, or the  *)
(* one that is being added by l.                                           *)
Adding(l, n) == Adds(l) /\ l.hook \in Hooks /\ l.hook.name = n

Announces(doc, l) ==
    \A n \in Names \ half :
        IF answers[n] # None THEN FirstHook(doc, n, answers[n])
        ELSE \/ \A k \in DOMAIN doc : doc[k].name # n
             \/ Adding(l, n) /\ FirstHook(doc, n, l.hook.event)

(* A hook that is being added comes first, unless its name is taken.       *)
Fresh(l, doc) ==
    l.hook \in Hooks =>
        l.hook.name \in half \/ answers[l.hook.name] # None \/ FirstHook(doc, l.hook.name, l.hook.event)

(* An emission for a hook is of the event its name promises.               *)
Promises(l) ==
    l.hook \in Post /\ l.hook # None /\ l.hook.name \notin half /\ answers[l.hook.name] # None =>
        l.arg.event = answers[l.hook.name]

Writing(l, f) == l.pc = "write" /\ l.f = f

(* What the files say while the process with the locals l is on its way.   *)
FilesFine(l) ==
    /\ \A f \in {"triggers", "webhooks", "queue"} : ~Writing(l, f) => file[f] # Torn
    /\ ~Writing(l, "triggers") => Lists(file["triggers"])
    /\ ~Writing(l, "webhooks") => Announces(file["webhooks"], l)
    /\ ~Writing(l, "queue") => Pays(file["queue"])

EmitFine(l) ==
    /\ l.pc = "match" => Lists(l.doc) /\ Served(l, file["queue"]) /\ Promises(l)
    /\ Saves(l, "queue") => Lists(l.doc) /\ Served(l, l.v) /\ Promises(l) /\ Pays(l.v)
    /\ Saves(l, "triggers") /\ Emits(l) => AllServed(l, file["queue"]) /\ Promises(l)
    /\ l.pc = "done" /\ Emits(l) /\ l.arg # None => AllServed(l, file["queue"]) /\ Promises(l)

AddFine(l) ==
    /\ Saves(l, "webhooks") => Announces(l.v, l) /\ Fresh(l, l.v)
    /\ l.pc = "hooked" => Fresh(l, file["webhooks"])
    /\ Saves(l, "triggers") => Lists(l.v)
    /\ Saves(l, "triggers") /\ Adds(l) => Listed(l.v, l.arg) /\ Fresh(l, file["webhooks"])
    /\ l.pc = "done" /\ Adds(l) => Listed(file["triggers"], l.arg) /\ Fresh(l, file["webhooks"])
    /\ l.pc = "received" => Announces(l.doc, l)

Fine(l) == FilesFine(l) /\ EmitFine(l) /\ AddFine(l)

EventsInv ==
    overlaps = 0 /\ ~tornCrash =>
        /\ AllIdle => Fine(Idle)
        /\ \A p \in Busy : Fine(loc[p])

-----------------------------------------------------------------------------
(* Lemmas about numbers and documents.                                     *)

(* A set of numbers has a least one.                                       *)
LEMMA LeastOf ==
    ASSUME NEW S \in SUBSET Nat, S # {}
    PROVE  \E r \in S : \A s \in S : r <= s
  <1>1. PICK r \in S : \A s \in S : <<s, r>> \notin OpToRel(<, Nat)
    BY NatLessThanWellFounded, WFMin
  <1>2. \A u, v \in Nat : u < v => <<u, v>> \in OpToRel(<, Nat)
    BY DEF OpToRel
  <1>3. \A s \in S : ~ (s < r)
    BY <1>1, <1>2, Zenon
  <1>4. \A s \in S : r <= s
    <2> TAKE s \in S
    <2>1. r \in Nat /\ s \in Nat /\ ~(s < r)
      BY <1>1, <1>3
    <2> QED BY <2>1
  <1> QED BY <1>1, <1>4

LEMMA NextRunType ==
    ASSUME NEW cron, NEW t \in Nat, Matching(cron, t) # {}
    PROVE  NextRun(cron, t) \in Int
  <1>1. Matching(cron, t) \in SUBSET Nat
    BY ScheduleAssumption DEF Matching
  <1>2. \E u \in Matching(cron, t) : \A w \in Matching(cron, t) : u <= w
    BY <1>1, LeastOf
  <1>3. NextRun(cron, t) \in Matching(cron, t)
    BY <1>2 DEF NextRun
  <1> QED BY <1>1, <1>3

(* Running totals of f up to n.                                            *)
IsTotal(T, f, n) == T = [t \in -1 .. n |-> IF t < 0 THEN 0 ELSE f[t] + T[t - 1]]

LEMMA TotalExists == ASSUME NEW f PROVE \E T : IsTotal(T, f, MaxTime)
  <1> DEFINE Bad == {n \in 0 .. MaxTime + 1 : ~\E T : IsTotal(T, f, n - 1)}
  <1>0. MaxTime \in Nat
    BY ScheduleAssumption
  <1>1. SUFFICES Bad = {}
    <2>1. MaxTime + 1 \in 0 .. MaxTime + 1 /\ MaxTime + 1 - 1 = MaxTime
      BY <1>0
    <2>2. PICK n : n = MaxTime + 1
      OBVIOUS
    <2>3. n \in 0 .. MaxTime + 1 /\ n - 1 = MaxTime
      BY <1>0, <2>1, <2>2
    <2>4. \E T : IsTotal(T, f, n - 1)
      BY <2>3
    <2> QED BY <2>3, <2>4
  <1>2. SUFFICES ASSUME Bad # {} PROVE FALSE
    OBVIOUS
  <1>3. Bad \in SUBSET Nat
    OBVIOUS
  <1>4. PICK n \in Bad : \A m \in Bad : n <= m
    <2> HIDE DEF Bad
    <2> QED BY <1>2, <1>3, LeastOf
  <1>5. n \in 0 .. MaxTime + 1 /\ ~\E T : IsTotal(T, f, n - 1)
    OBVIOUS
  <1>6. n # 0
    <2>1. PICK T : T = [t \in -1 .. n - 1 |-> 0]
      OBVIOUS
    <2>2. n = 0 => IsTotal(T, f, n - 1)
      <3> SUFFICES ASSUME n = 0 PROVE IsTotal(T, f, n - 1)
        OBVIOUS
      <3>1. \A t \in -1 .. n - 1 : t < 0
        OBVIOUS
      <3> QED BY <2>1, <3>1 DEF IsTotal
    <2> QED BY <1>5, <2>2
  <1>7. PICK S : IsTotal(S, f, n - 2)
    <2>1. n - 1 \in 0 .. MaxTime + 1 /\ ~(n <= n - 1) /\ n - 1 - 1 = n - 2
      BY <1>0, <1>5, <1>6
    <2> QED BY <1>4, <2>1
  <1>8. PICK T : T = [t \in -1 .. n - 1 |-> IF t < 0 THEN 0 ELSE IF t = n - 1 THEN f[t] + S[t - 1] ELSE S[t]]
    OBVIOUS
  <1>9. \A t \in -1 .. n - 2 : T[t] = S[t]
    <2> TAKE t \in -1 .. n - 2
    <2>1. t \in -1 .. n - 1 /\ t # n - 1
      BY <1>5, <1>6
    <2>2. S[t] = IF t < 0 THEN 0 ELSE f[t] + S[t - 1]
      BY <1>7, <2>1 DEF IsTotal
    <2> QED BY <1>8, <2>1, <2>2
  <1>10. \A t \in -1 .. n - 1 : T[t] = IF t < 0 THEN 0 ELSE f[t] + T[t - 1]
    <2> TAKE t \in -1 .. n - 1
    <2>1. CASE t < 0
      BY <1>8, <2>1
    <2>2. CASE t >= 0
      <3>1. t - 1 \in -1 .. n - 2 /\ T[t - 1] = S[t - 1]
        BY <1>5, <1>6, <1>9, <2>2
      <3>2. CASE t = n - 1
        BY <1>8, <2>2, <3>1, <3>2
      <3>3. CASE t # n - 1
        <4>1. t \in -1 .. n - 2 /\ ~(t < 0)
          BY <1>5, <1>6, <2>2, <3>3
        <4>2. S[t] = f[t] + S[t - 1]
          BY <1>7, <4>1 DEF IsTotal
        <4> QED BY <1>9, <2>2, <3>1, <4>1, <4>2
      <3> QED BY <3>2, <3>3
    <2> QED BY <1>5, <2>1, <2>2
  <1>11. IsTotal(T, f, n - 1)
    <2>1. T = [t \in -1 .. n - 1 |-> T[t]]
      BY <1>8
    <2> QED BY <1>10, <2>1 DEF IsTotal
  <1> QED BY <1>5, <1>11

LEMMA SumIsTotal == ASSUME NEW f PROVE \E T : IsTotal(T, f, MaxTime) /\ Sum(f) = T[MaxTime]
  <1> DEFINE Good(T) == T = [t \in -1 .. MaxTime |-> IF t < 0 THEN 0 ELSE f[t] + T[t - 1]]
  <1>2. \A T : Good(T) <=> IsTotal(T, f, MaxTime)
    BY DEF IsTotal
  <1>3. PICK T : T = CHOOSE U : Good(U)
    OBVIOUS
  <1>4. Sum(f) = T[MaxTime]
    BY <1>3 DEF Sum
  <1>5. \E U : Good(U)
    <2> HIDE DEF Good
    <2> QED BY <1>2, TotalExists
  <1>6. Good(T)
    <2> HIDE DEF Good
    <2> QED BY <1>3, <1>5
  <1> QED BY <1>2, <1>4, <1>6

(* More in some minute, and in none less, is more in all.                  *)
LEMMA SumGrows ==
    ASSUME NEW f \in [Times -> Nat], NEW g \in [Times -> Nat], \A t \in Times : f[t] <= g[t]
    PROVE  /\ Sum(f) \in Nat /\ Sum(g) \in Nat /\ Sum(f) <= Sum(g)
           /\ (\E t \in Times : f[t] < g[t]) => Sum(f) + 1 <= Sum(g)
  <1>0. MaxTime \in Nat
    BY ScheduleAssumption
  <1>1. PICK F : IsTotal(F, f, MaxTime) /\ Sum(f) = F[MaxTime]
    BY SumIsTotal
  <1>2. PICK G : IsTotal(G, g, MaxTime) /\ Sum(g) = G[MaxTime]
    BY SumIsTotal
  <1>3. \A t \in -1 .. MaxTime : /\ F[t] = IF t < 0 THEN 0 ELSE f[t] + F[t - 1]
                                 /\ G[t] = IF t < 0 THEN 0 ELSE g[t] + G[t - 1]
    BY <1>1, <1>2 DEF IsTotal
  <1> DEFINE Ordered(t) == /\ F[t] \in Nat /\ G[t] \in Nat /\ F[t] <= G[t]
                           /\ (\E u \in 0 .. t : f[u] < g[u]) => F[t] + 1 <= G[t]
             Bad == {n \in 0 .. MaxTime + 1 : ~Ordered(n - 1)}
  <1>4. Bad = {}
    <2>1. SUFFICES ASSUME Bad # {} PROVE FALSE
      OBVIOUS
    <2>2. Bad \in SUBSET Nat
      OBVIOUS
    <2>3. PICK n \in Bad : \A m \in Bad : n <= m
      <3> HIDE DEF Bad
      <3> QED BY <2>1, <2>2, LeastOf
    <2>4. n \in 0 .. MaxTime + 1 /\ ~Ordered(n - 1)
      OBVIOUS
    <2>5. CASE n = 0
      <3>1. F[-1] = 0 /\ G[-1] = 0
        BY <1>0, <1>3
      <3>2. ~\E u \in 0 .. -1 : f[u] < g[u]
        OBVIOUS
      <3>3. n - 1 = -1
        BY <2>5
      <3>4. Ordered(-1)
        BY <3>1, <3>2
      <3> QED BY <2>4, <3>3, <3>4
    <2>6. CASE n # 0
      <3>1. n - 1 \in 0 .. MaxTime + 1 /\ ~(n <= n - 1) /\ n - 1 \in Times /\ n - 1 - 1 = n - 2
        BY <1>0, <2>4, <2>6 DEF Times
      <3>2. Ordered(n - 2)
        <4>1. n - 1 \notin Bad
          BY <2>3, <3>1
        <4> HIDE DEF Ordered
        <4> QED BY <3>1, <4>1
      <3>3. PICK t \in Times : t = n - 1
        BY <3>1
      <3>4. F[t] = f[t] + F[t - 1] /\ G[t] = g[t] + G[t - 1] /\ Ordered(t - 1)
        <4>1. t \in -1 .. MaxTime /\ ~(t < 0) /\ t - 1 = n - 2
          BY <1>0, <3>1, <3>3 DEF Times
        <4> HIDE DEF Ordered
        <4> QED BY <1>3, <3>2, <4>1
      <3>5. f[t] \in Nat /\ g[t] \in Nat /\ f[t] <= g[t]
        OBVIOUS
      <3>6. F[t] \in Nat /\ G[t] \in Nat /\ F[t] <= G[t]
        BY <3>4, <3>5
      <3>7. ASSUME NEW u \in 0 .. t, f[u] < g[u] PROVE F[t] + 1 <= G[t]
        <4>1. CASE u = t
          BY <3>4, <3>5, <3>7, <4>1
        <4>2. CASE u # t
          <5>1. u \in 0 .. t - 1
            BY <1>0, <4>2 DEF Times
          <5>2. F[t - 1] + 1 <= G[t - 1]
            BY <3>4, <3>7, <5>1
          <5> QED BY <3>4, <3>5, <5>2
        <4> QED BY <4>1, <4>2
      <3>8. Ordered(t)
        BY <3>6, <3>7
      <3> HIDE DEF Ordered
      <3> QED BY <2>4, <3>3, <3>8
    <2> QED BY <2>5, <2>6
  <1>5. Ordered(MaxTime)
    <2>1. PICK n : n = MaxTime + 1
      OBVIOUS
    <2>2. n \in 0 .. MaxTime + 1 /\ n - 1 = MaxTime
      BY <1>0, <2>1
    <2>3. n \notin Bad
      BY <1>4
    <2> HIDE DEF Ordered
    <2> QED BY <2>2, <2>3
  <1> QED BY <1>1, <1>2, <1>5 DEF Times

LEMMA DocFacts ==
    /\ Doc("jobs") = Seq(Job) /\ Doc("triggers") = Seq(Trigger) /\ Doc("webhooks") = Seq(Hooks)
    /\ Doc("queue") = Seq(Item) /\ Doc("runner") = Seq(Status)
    /\ Files = {"jobs", "triggers", "webhooks", "queue", "runner"}
  BY DEF Doc, Files

LEMMA EmptyDoc == \A f \in Files : <<>> \in Doc(f)
  BY EmptySeq, DocFacts DEF Doc

LEMMA LoadType ==
    ASSUME TypeOK
    PROVE  /\ Load("jobs") \in Seq(Job) /\ Load("triggers") \in Seq(Trigger)
           /\ Load("webhooks") \in Seq(Hooks) /\ Load("queue") \in Seq(Item)
  BY EmptyDoc, DocFacts DEF TypeOK, Load

LEMMA IdleOk == Idle \in Locals /\ LocalOk(Idle) /\ Idle.pc = "idle"
  <1>1. <<>> \in Docs /\ 0 \in 0 .. MaxTime
    BY EmptyDoc, DocFacts, ScheduleAssumption DEF Docs
  <1>2. Idle \in Locals
    BY <1>1 DEF Idle, Locals, PCs, Nexts, Vals, Args, Heads, Stats, Times, Files
  <1> QED BY <1>2 DEF Idle, LocalOk, Saves

LEMMA StoppedType == Stopped \in Status /\ <<Stopped>> \in Seq(Status)
  BY DEF Stopped, Status

LEMMA LocalRecord ==
    ASSUME NEW l \in Locals
    PROVE  l = [pc |-> l.pc, doc |-> l.doc, i |-> l.i, f |-> l.f, v |-> l.v, then |-> l.then, arg |-> l.arg,
                hook |-> l.hook, now |-> l.now, count |-> l.count, status |-> l.status]
  BY DEF Locals

LEMMA StatusFacts == \A s \in Status : s # None
  BY ScheduleAssumption

(* What a process has in memory when it is about to save.                  *)
LEMMA SavingFacts ==
    ASSUME NEW l \in Locals, NEW f \in Files, NEW v \in Doc(f), NEW pc \in Nexts,
           NEW s, s = Saving(l, f, v, pc)
    PROVE  /\ s \in Locals
           /\ s.pc = "truncate" /\ s.f = f /\ s.v = v /\ s.then = pc
           /\ s.doc = l.doc /\ s.i = l.i /\ s.arg = l.arg /\ s.hook = l.hook
           /\ s.now = l.now /\ s.count = l.count /\ s.status = l.status
  <1>1. v \in Vals /\ "truncate" \in PCs
    BY DocFacts DEF Docs, Vals, PCs
  <1> QED BY <1>1 DEF Locals, Saving

LEMMA LocStep ==
    ASSUME TypeOK, NEW p \in Procs, NEW l \in Locals, LocalOk(l), loc' = [loc EXCEPT ![p] = l]
    PROVE  /\ loc' \in [Procs -> Locals] /\ \A q \in Procs : LocalOk(loc'[q])
           /\ loc'[p] = l /\ \A q \in Procs \ {p} : loc'[q] = loc[q]
  BY DEF TypeOK

(* A process in the middle of a call.                                      *)
LEMMA LocFacts ==
    ASSUME TypeOK, NEW p \in Procs
    PROVE  loc[p] \in Locals /\ LocalOk(loc[p])
  BY DEF TypeOK

(* The arguments of a call say what it is.                                 *)
LEMMA ArgShapes ==
    /\ \A a \in Trigger : "id" \in DOMAIN a /\ "payload" \notin DOMAIN a /\ a # None
    /\ \A a \in Emission : "payload" \in DOMAIN a /\ "id" \notin DOMAIN a
    /\ \A h \in Hooks : h # None
  <1>1. \A a \in Trigger : DOMAIN a = {"id", "event", "filter", "count"}
    BY DEF Trigger
  <1>2. \A a \in Emission : DOMAIN a = {"event", "payload"}
    BY DEF Emission
  <1> QED BY <1>1, <1>2, ScheduleAssumption


-----------------------------------------------------------------------------
(* What every operation leaves in the locals of its process.               *)

Became(p, l) == l \in Locals /\ LocalOk(l) /\ loc' = [loc EXCEPT ![p] = l]

LEMMA StartFacts ==
    ASSUME TypeOK, NEW p \in Procs, Start(p)
    PROVE  /\ made' = made + 1 /\ made' \in 1 .. MaxCalls /\ loc[p].pc = "idle"
           /\ (overlaps' = 0 => AllIdle) /\ overlaps' \in {overlaps, overlaps + 1}
           /\ UNCHANGED <<time, file, ran, queued, known, answers, owed, half, crashes, raises, tornCrash>>
  <1>1. made \in Nat /\ made + 1 \in 1 .. MaxCalls
    BY ScheduleAssumption DEF TypeOK, Start
  <1>2. overlaps \in Nat
    BY DEF TypeOK
  <1>3. overlaps' = IF AllIdle THEN overlaps ELSE overlaps + 1
    BY DEF Start
  <1>4. overlaps' = 0 => AllIdle
    BY <1>2, <1>3
  <1> QED BY <1>1, <1>3, <1>4 DEF Start, ghosts

LEMMA AddJobLocal ==
    ASSUME TypeOK, NEW p \in Procs, NEW cron \in Crons, AddJob(p, cron)
    PROVE  \E l : /\ Became(p, l) /\ Saves(l, "jobs")
                  /\ \E j \in Job : /\ l.v = Append(Load("jobs"), j)
                                    /\ j.id = made' /\ j.last = None /\ j.count = 0
  <1>1. made' \in 1 .. MaxCalls
    BY StartFacts DEF AddJob
  <1>2. time \in Nat /\ Matching(cron, time) # {}
    BY ScheduleAssumption DEF AddJob, TypeOK
  <1>3. NextRun(cron, time) \in Int
    BY <1>2, NextRunType
  <1> DEFINE j == [id |-> made', cron |-> cron, next |-> NextRun(cron, time), last |-> None, count |-> 0]
             l == Saving(Idle, "jobs", Append(Load("jobs"), j), "done")
  <1>4. j \in Job
    BY <1>1, <1>3 DEF Job
  <1>5. Append(Load("jobs"), j) \in Doc("jobs") /\ "jobs" \in Files
    BY <1>4, LoadType, AppendProperties, DocFacts
  <1>6. /\ l \in Locals /\ l.pc = "truncate" /\ l.f = "jobs" /\ l.v = Append(Load("jobs"), j)
        /\ l.then = "done" /\ l.arg = None
    <2>1. Idle.arg = None
      BY DEF Idle
    <2>2. l = Saving(Idle, "jobs", Append(Load("jobs"), j), "done")
      OBVIOUS
    <2> HIDE DEF l, j
    <2>3. Idle \in Locals /\ "done" \in Nexts
      BY IdleOk DEF Nexts
    <2>4. PICK v : v = Append(Load("jobs"), j)
      OBVIOUS
    <2>5. l = Saving(Idle, "jobs", v, "done") /\ v \in Doc("jobs")
      BY <1>5, <2>2, <2>4
    <2>6. l \in Locals /\ l.pc = "truncate" /\ l.f = "jobs" /\ l.v = v /\ l.then = "done" /\ l.arg = Idle.arg
      BY <1>5, <2>3, <2>5, SavingFacts
    <2> QED BY <2>1, <2>4, <2>6
  <1>7. loc' = [loc EXCEPT ![p] = l]
    BY DEF AddJob
  <1>8. j.id = made' /\ j.last = None /\ j.count = 0
    OBVIOUS
  <1> HIDE DEF l, j
  <1>9. LocalOk(l) /\ Saves(l, "jobs")
    BY <1>5, <1>6 DEF LocalOk, Saves
  <1> WITNESS l
  <1> QED BY <1>4, <1>6, <1>7, <1>8, <1>9 DEF Became

LEMMA NewTriggerType ==
    ASSUME NEW id \in 1 .. MaxCalls, NEW g, g.event \in Events,
           g.filter \in {h.filter : h \in Triggers} \cup {None}
    PROVE  /\ NewTrigger(id, g) \in Trigger /\ NewTrigger(id, g).count = 0
           /\ NewTrigger(id, g).event = g.event /\ NewTrigger(id, g).filter = g.filter
           /\ NewTrigger(id, g).id = id
  BY DEF NewTrigger, Trigger

(* The locals of a process that adds its trigger to the file.              *)
LEMMA AddingTrigger ==
    ASSUME TypeOK, NEW l \in Locals, Adds(l), NEW k, k = Saving(l, "triggers", Append(Load("triggers"), l.arg), "done")
    PROVE  /\ k \in Locals /\ LocalOk(k) /\ Saves(k, "triggers") /\ Adds(k)
           /\ k.v = Append(Load("triggers"), k.arg) /\ k.arg = l.arg /\ k.hook = l.hook /\ k.pc = "truncate"
  <1>1. Append(Load("triggers"), l.arg) \in Doc("triggers") /\ "triggers" \in Files
    BY LoadType, AppendProperties, DocFacts DEF Adds
  <1>2. /\ k \in Locals /\ k.pc = "truncate" /\ k.f = "triggers" /\ k.v = Append(Load("triggers"), l.arg)
        /\ k.then = "done" /\ k.arg = l.arg /\ k.hook = l.hook
    <2>1. "done" \in Nexts
      BY DEF Nexts
    <2>2. PICK v : v = Append(Load("triggers"), l.arg)
      OBVIOUS
    <2>3. k = Saving(l, "triggers", v, "done") /\ v \in Doc("triggers")
      BY <1>1, <2>2
    <2>4. /\ k \in Locals /\ k.pc = "truncate" /\ k.f = "triggers" /\ k.v = v /\ k.then = "done"
          /\ k.arg = l.arg /\ k.hook = l.hook
      BY <1>1, <2>1, <2>3, SavingFacts
    <2> QED BY <2>2, <2>4
  <1>3. Adds(k)
    BY <1>2 DEF Adds
  <1> QED BY <1>1, <1>2, <1>3 DEF LocalOk, Saves

LEMMA AddTriggerLocal ==
    ASSUME TypeOK, NEW p \in Procs, NEW g \in Triggers, AddTrigger(p, g)
    PROVE  \E l : /\ Became(p, l) /\ Saves(l, "triggers") /\ Adds(l) /\ l.hook = None
                  /\ l.v = Append(Load("triggers"), l.arg)
  <1>1. made' \in 1 .. MaxCalls
    BY StartFacts DEF AddTrigger
  <1> DEFINE trig == NewTrigger(made', g)
             i == [Idle EXCEPT !.arg = trig]
             l == Saving(i, "triggers", Append(Load("triggers"), trig), "done")
  <1>2. trig \in Trigger /\ trig.count = 0
    BY <1>1, NewTriggerType DEF Events
  <1>3. i \in Locals /\ i.arg = trig /\ i.hook = None /\ Adds(i)
    <2> HIDE DEF trig
    <2>1. Idle.hook = None
      BY DEF Idle
    <2>2. trig \in Args
      BY <1>2 DEF Args
    <2>3. i \in Locals /\ i.arg = trig /\ i.hook = Idle.hook
      BY <2>2, IdleOk DEF Locals
    <2> QED BY <1>2, <2>1, <2>3 DEF Adds
  <1>4. loc' = [loc EXCEPT ![p] = l]
    BY DEF AddTrigger
  <1> HIDE DEF trig, i
  <1>5. l = Saving(i, "triggers", Append(Load("triggers"), i.arg), "done")
    BY <1>3
  <1> HIDE DEF l
  <1> WITNESS l
  <1> QED BY <1>3, <1>4, <1>5, AddingTrigger DEF Became

LEMMA AddWebhookLocal ==
    ASSUME TypeOK, NEW p \in Procs, NEW h \in Hooks, AddWebhook(p, h)
    PROVE  \E l : /\ Became(p, l) /\ Saves(l, "webhooks") /\ Adds(l) /\ l.hook = h
                  /\ l.v = Append(Load("webhooks"), h)
  <1>1. made' \in 1 .. MaxCalls
    BY StartFacts DEF AddWebhook
  <1> DEFINE g == [event |-> h.event, filter |-> None]
             trig == NewTrigger(made', g)
             i == [Idle EXCEPT !.arg = trig, !.hook = h]
             l == Saving(i, "webhooks", Append(Load("webhooks"), h), "hooked")
  <1>2. trig \in Trigger /\ trig.count = 0 /\ trig.event = h.event
    <2>1. g.event \in Events /\ g.filter \in {x.filter : x \in Triggers} \cup {None} /\ g.event = h.event
      BY DEF Events
    <2> HIDE DEF g
    <2> QED BY <1>1, <2>1, NewTriggerType
  <1>3. i \in Locals /\ i.arg = trig /\ i.hook = h /\ Adds(i)
    <2> HIDE DEF trig
    <2>2. trig \in Args /\ h \in Heads
      BY <1>2 DEF Args, Heads
    <2>3. i \in Locals /\ i.arg = trig /\ i.hook = h
      BY <2>2, IdleOk DEF Locals
    <2> QED BY <1>2, <2>3 DEF Adds
  <1>4. loc' = [loc EXCEPT ![p] = l]
    BY DEF AddWebhook
  <1> HIDE DEF trig, i
  <1>5. Append(Load("webhooks"), h) \in Doc("webhooks") /\ "webhooks" \in Files
    BY LoadType, AppendProperties, DocFacts
  <1>6. /\ l \in Locals /\ l.pc = "truncate" /\ l.f = "webhooks" /\ l.v = Append(Load("webhooks"), h)
        /\ l.then = "hooked" /\ l.arg = i.arg /\ l.hook = i.hook
    <2>1. l = Saving(i, "webhooks", Append(Load("webhooks"), h), "hooked")
      OBVIOUS
    <2> HIDE DEF l
    <2>2. "hooked" \in Nexts
      BY DEF Nexts
    <2>3. PICK v : v = Append(Load("webhooks"), h)
      OBVIOUS
    <2>4. l = Saving(i, "webhooks", v, "hooked") /\ v \in Doc("webhooks")
      BY <1>5, <2>1, <2>3
    <2>5. /\ l \in Locals /\ l.pc = "truncate" /\ l.f = "webhooks" /\ l.v = v /\ l.then = "hooked"
          /\ l.arg = i.arg /\ l.hook = i.hook
      BY <1>3, <1>5, <2>2, <2>4, SavingFacts
    <2> QED BY <2>3, <2>5
  <1> HIDE DEF l
  <1>7. Adds(l) /\ l.hook = h
    BY <1>3, <1>6 DEF Adds
  <1>8. LocalOk(l) /\ Saves(l, "webhooks")
    BY <1>5, <1>6, <1>7 DEF LocalOk, Saves
  <1> WITNESS l
  <1> QED BY <1>4, <1>6, <1>7, <1>8 DEF Became

LEMMA HookTriggerLocal ==
    ASSUME TypeOK, NEW p \in Procs, HookTrigger(p)
    PROVE  \E l : /\ Became(p, l) /\ Saves(l, "triggers") /\ Adds(l) /\ Adds(loc[p])
                  /\ l.v = Append(Load("triggers"), l.arg)
                  /\ l.arg = loc[p].arg /\ l.hook = loc[p].hook /\ l.hook \in Hooks
  <1>1. Adds(loc[p]) /\ loc[p].hook \in Hooks /\ loc[p] \in Locals
    BY LocFacts DEF LocalOk, HookTrigger
  <1> DEFINE l == Saving(loc[p], "triggers", Append(Load("triggers"), loc[p].arg), "done")
  <1>2. loc' = [loc EXCEPT ![p] = l]
    BY DEF HookTrigger, TypeOK
  <1>3. l = Saving(loc[p], "triggers", Append(Load("triggers"), loc[p].arg), "done")
    OBVIOUS
  <1> HIDE DEF l
  <1> WITNESS l
  <1> QED BY <1>1, <1>2, <1>3, AddingTrigger DEF Became


LEMMA RunDueLocal ==
    ASSUME TypeOK, NEW p \in Procs, RunDue(p)
    PROVE  \E l : Became(p, l) /\ l.pc = "tick" /\ l.arg = None
  <1> DEFINE l == [Idle EXCEPT !.pc = "tick"]
  <1>1. l \in Locals /\ l.pc = "tick" /\ l.arg = Idle.arg /\ l.status = Idle.status
    <2>1. "tick" \in PCs
      BY DEF PCs
    <2> QED BY <2>1, IdleOk DEF Locals
  <1>2. l.arg = None /\ LocalOk(l)
    <2>1. Idle.arg = None
      BY DEF Idle
    <2> HIDE DEF l
    <2> QED BY <1>1, <2>1 DEF LocalOk, Saves
  <1>3. loc' = [loc EXCEPT ![p] = l]
    BY DEF RunDue
  <1> HIDE DEF l
  <1> WITNESS l
  <1> QED BY <1>1, <1>2, <1>3 DEF Became

(* Saving the status of a runner.                                          *)
LEMMA SavingStatus ==
    ASSUME TypeOK, NEW l \in Locals, l.arg = None, l.status \in Status, NEW st \in Status,
           NEW pc \in {"tick", "stop", "done"}, NEW k, k = Saving(l, "runner", <<st>>, pc)
    PROVE  k \in Locals /\ LocalOk(k) /\ Saves(k, "runner") /\ k.arg = None /\ k.status = l.status
  <1>1. PICK v : v = <<st>>
    OBVIOUS
  <1>2. v \in Doc("runner") /\ "runner" \in Files /\ pc \in Nexts
    <2>1. v \in Seq(Status)
      BY <1>1
    <2> QED BY <2>1, DocFacts DEF Nexts
  <1>3. k = Saving(l, "runner", v, pc)
    BY <1>1
  <1>4. /\ k \in Locals /\ k.pc = "truncate" /\ k.f = "runner" /\ k.v = v /\ k.then = pc
        /\ k.arg = None /\ k.status = l.status
    BY <1>2, <1>3, SavingFacts
  <1>5. k.status # None
    BY <1>4, StatusFacts
  <1> QED BY <1>2, <1>4, <1>5 DEF LocalOk, Saves

LEMMA StartRunnerLocal ==
    ASSUME TypeOK, NEW p \in Procs, StartRunner(p)
    PROVE  \E l : Became(p, l) /\ Saves(l, "runner")
  <1> DEFINE st == [Stopped EXCEPT !.running = TRUE]
             i == [Idle EXCEPT !.status = st]
             l == Saving(i, "runner", <<st>>, "tick")
  <1>1. st \in Status
    BY StoppedType DEF Status
  <1>2. i \in Locals /\ i.arg = None /\ i.status = st
    <2>1. st \in Stats /\ Idle.arg = None
      BY <1>1 DEF Stats, Idle
    <2> HIDE DEF st
    <2> QED BY <2>1, IdleOk DEF Locals
  <1>3. loc' = [loc EXCEPT ![p] = l]
    BY DEF StartRunner
  <1>4. l = Saving(i, "runner", <<st>>, "tick")
    OBVIOUS
  <1> HIDE DEF l, i, st
  <1> WITNESS l
  <1> QED BY <1>1, <1>2, <1>3, <1>4, SavingStatus DEF Became

LEMMA LoadDueLocal ==
    ASSUME TypeOK, NEW p \in Procs, LoadDue(p)
    PROVE  \E l : /\ Became(p, l) /\ l.pc = "jobs" /\ l.doc = Load("jobs") /\ l.now = time
                  /\ l.status = loc[p].status
  <1> DEFINE l == [loc[p] EXCEPT !.pc = "jobs", !.doc = Load("jobs"), !.now = time, !.i = 0, !.count = 0]
  <1>1. loc[p] \in Locals /\ loc[p].arg = None
    BY LocFacts DEF LocalOk, LoadDue
  <1>2. "jobs" \in PCs /\ Load("jobs") \in Docs /\ time \in Times
    BY LoadType DEF PCs, Docs, Times, TypeOK
  <1>3. /\ l \in Locals /\ l.pc = "jobs" /\ l.doc = Load("jobs") /\ l.now = time
        /\ l.arg = loc[p].arg /\ l.status = loc[p].status
    BY <1>1, <1>2 DEF Locals
  <1>4. loc' = [loc EXCEPT ![p] = l]
    BY DEF LoadDue, TypeOK
  <1> HIDE DEF l
  <1>5. LocalOk(l)
    BY <1>1, <1>3, LoadType DEF LocalOk, Saves
  <1> WITNESS l
  <1> QED BY <1>3, <1>4, <1>5 DEF Became

(* The job that runs: entry k of the document, which then says so.         *)
RunsEntry(p, k, l) ==
    /\ k \in DOMAIN loc[p].doc /\ ShouldRun(loc[p].doc[k], loc[p].now)
    /\ l.doc \in Seq(Job) /\ DOMAIN l.doc = DOMAIN loc[p].doc
    /\ \A h \in DOMAIN loc[p].doc \ {k} : l.doc[h] = loc[p].doc[h]
    /\ l.doc[k].id = loc[p].doc[k].id /\ l.doc[k].last = loc[p].now
    /\ l.doc[k].count = loc[p].doc[k].count + 1
    /\ ran' = [ran EXCEPT ![loc[p].doc[k].id][loc[p].now] = @ + 1]

LEMMA JobRunsLocal ==
    ASSUME TypeOK, NEW p \in Procs, JobRuns(p)
    PROVE  \E l : /\ Became(p, l) /\ l.pc = "jobs" /\ l.now = loc[p].now
                  /\ \E k : RunsEntry(p, k, l)
  <1>1. /\ loc[p] \in Locals /\ loc[p].arg = None /\ loc[p].doc \in Seq(Job) /\ loc[p].pc = "jobs"
        /\ loc[p].now \in Times /\ loc[p].count \in Nat
    BY LocFacts DEF LocalOk, JobRuns, Locals
  <1>2. PICK k \in DOMAIN loc[p].doc :
            LET job == loc[p].doc[k] IN
            /\ IsNext(k, Due(loc[p]))
            /\ Matching(job.cron, loc[p].now) # {}
            /\ loc' = [loc EXCEPT
                  ![p].i = k,
                  ![p].count = @ + 1,
                  ![p].doc[k] = [job EXCEPT !.last = loc[p].now, !.count = job.count + 1,
                                            !.next = NextRun(job.cron, loc[p].now)]]
            /\ ran' = [ran EXCEPT ![job.id][loc[p].now] = @ + 1]
    BY DEF JobRuns
  <1> DEFINE job == loc[p].doc[k]
             new == [job EXCEPT !.last = loc[p].now, !.count = job.count + 1, !.next = NextRun(job.cron, loc[p].now)]
             d == [loc[p].doc EXCEPT ![k] = new]
             l == [loc[p] EXCEPT !.i = k, !.count = @ + 1, !.doc = d]
  <1>3. job \in Job /\ k \in Nat
    BY <1>1, ElementOfSeq, LenProperties
  <1>4. ShouldRun(job, loc[p].now)
    BY <1>2 DEF IsNext, Due
  <1>5. NextRun(job.cron, loc[p].now) \in Int
    <2>1. loc[p].now \in Nat
      BY <1>1, ScheduleAssumption DEF Times
    <2> QED BY <1>2, <2>1, NextRunType
  <1>6. new \in Job /\ new.id = job.id /\ new.last = loc[p].now /\ new.count = job.count + 1
    <2>1. loc[p].now \in Nat
      BY <1>1, ScheduleAssumption DEF Times
    <2>2. PICK j, a, b, c : j = job /\ a = loc[p].now /\ b = NextRun(job.cron, loc[p].now) /\ c = job.count + 1
      OBVIOUS
    <2>3. new = [j EXCEPT !.last = a, !.count = c, !.next = b]
      BY <2>2
    <2>4. j \in Job /\ a \in Nat \cup {None} /\ b \in Int /\ c \in Nat
      <3>1. job.count \in Nat
        BY <1>3 DEF Job
      <3> HIDE DEF job
      <3> QED BY <1>3, <1>5, <2>1, <2>2, <3>1
    <2>5. new \in Job /\ new.id = j.id /\ new.last = a /\ new.count = c
      <3> HIDE DEF new, job
      <3> QED BY <2>3, <2>4 DEF Job
    <2> HIDE DEF new, job
    <2> QED BY <2>2, <2>5
  <1>7. loc' = [loc EXCEPT ![p] = l]
    BY <1>1, <1>2 DEF TypeOK
  <1> HIDE DEF new
  <1>8. /\ d \in Seq(Job) /\ DOMAIN d = DOMAIN loc[p].doc /\ d[k] = new
        /\ \A h \in DOMAIN loc[p].doc \ {k} : d[h] = loc[p].doc[h]
    BY <1>1, <1>6, ExceptSeq
  <1> HIDE DEF d
  <1>9. /\ l \in Locals /\ l.pc = "jobs" /\ l.now = loc[p].now /\ l.doc = d
        /\ l.arg = loc[p].arg /\ l.status = loc[p].status
    <2>1. d \in Docs
      BY <1>8 DEF Docs
    <2>2. loc[p].count + 1 \in Nat
      BY <1>1
    <2>3. PICK m : m = loc[p]
      OBVIOUS
    <2>4. /\ m \in Locals /\ m.pc = "jobs" /\ m.count + 1 \in Nat
          /\ l = [m EXCEPT !.i = k, !.count = @ + 1, !.doc = d]
      BY <1>1, <2>2, <2>3
    <2>5. /\ l \in Locals /\ l.pc = m.pc /\ l.now = m.now /\ l.doc = d /\ l.arg = m.arg /\ l.status = m.status
      <3> HIDE DEF l
      <3> QED BY <1>3, <2>1, <2>4 DEF Locals
    <2> QED BY <2>3, <2>4, <2>5
  <1> HIDE DEF l
  <1>10. LocalOk(l)
    BY <1>1, <1>8, <1>9 DEF LocalOk, Saves
  <1>11. RunsEntry(p, k, l)
    BY <1>2, <1>4, <1>6, <1>8, <1>9 DEF RunsEntry
  <1> WITNESS l
  <1> QED BY <1>7, <1>9, <1>10, <1>11 DEF Became

LEMMA JobRaisesLocal ==
    ASSUME TypeOK, NEW p \in Procs, JobRaises(p)
    PROVE  \E l : /\ Became(p, l) /\ (l = Idle \/ l.pc = "stop")
                  /\ \E k \in DOMAIN loc[p].doc :
                        /\ ShouldRun(loc[p].doc[k], loc[p].now)
                        /\ ran' = [ran EXCEPT ![loc[p].doc[k].id][loc[p].now] = @ + 1]
  <1>1. loc[p] \in Locals /\ loc[p].arg = None /\ loc[p].pc = "jobs"
    BY LocFacts DEF LocalOk, JobRaises
  <1> DEFINE l == IF loc[p].status = None THEN Idle ELSE [loc[p] EXCEPT !.pc = "stop"]
  <1>2. loc' = [loc EXCEPT ![p] = l]
    BY DEF JobRaises, TypeOK
  <1>3. l \in Locals /\ LocalOk(l) /\ (l = Idle \/ l.pc = "stop")
    <2>1. CASE loc[p].status = None
      BY <2>1, IdleOk
    <2>2. CASE loc[p].status # None
      <3>1. PICK s : s = [loc[p] EXCEPT !.pc = "stop"]
        OBVIOUS
      <3>2. "stop" \in PCs
        BY DEF PCs
      <3>3. s \in Locals /\ s.pc = "stop" /\ s.arg = None /\ s.status = loc[p].status
        BY <1>1, <3>1, <3>2 DEF Locals
      <3>4. LocalOk(s)
        BY <2>2, <3>3 DEF LocalOk, Saves
      <3> QED BY <2>2, <3>1, <3>3, <3>4
    <2> QED BY <2>1, <2>2
  <1>4. \E k \in DOMAIN loc[p].doc :
            /\ ShouldRun(loc[p].doc[k], loc[p].now)
            /\ ran' = [ran EXCEPT ![loc[p].doc[k].id][loc[p].now] = @ + 1]
    <2>1. PICK k \in DOMAIN loc[p].doc :
              /\ IsNext(k, Due(loc[p]))
              /\ ran' = [ran EXCEPT ![loc[p].doc[k].id][loc[p].now] = @ + 1]
      BY DEF JobRaises
    <2>2. ShouldRun(loc[p].doc[k], loc[p].now)
      BY <2>1 DEF IsNext, Due
    <2> QED BY <2>1, <2>2
  <1> HIDE DEF l
  <1> WITNESS l
  <1> QED BY <1>2, <1>3, <1>4 DEF Became


LEMMA SaveDueLocal ==
    ASSUME TypeOK, NEW p \in Procs, SaveDue(p)
    PROVE  /\ loc[p].pc = "jobs" /\ loc[p] \in Locals
           /\ \E l : Became(p, l) /\ Saves(l, "jobs") /\ l.v = loc[p].doc
  <1>1. loc[p] \in Locals /\ loc[p].arg = None /\ loc[p].pc = "jobs" /\ loc[p].doc \in Seq(Job)
    BY LocFacts DEF LocalOk, SaveDue
  <1>2. PICK m, pc : m = loc[p] /\ pc = IF loc[p].status = None THEN "done" ELSE "round"
    OBVIOUS
  <1>3. PICK l : l = Saving(m, "jobs", m.doc, pc)
    OBVIOUS
  <1>4. m.doc \in Doc("jobs") /\ "jobs" \in Files /\ pc \in Nexts /\ m \in Locals
    BY <1>1, <1>2, DocFacts DEF Nexts
  <1>5. /\ l \in Locals /\ l.pc = "truncate" /\ l.f = "jobs" /\ l.v = m.doc /\ l.then = pc
        /\ l.arg = m.arg /\ l.status = m.status
    BY <1>3, <1>4, SavingFacts
  <1>6. LocalOk(l) /\ Saves(l, "jobs")
    BY <1>1, <1>2, <1>4, <1>5 DEF LocalOk, Saves
  <1>7. loc' = [loc EXCEPT ![p] = l]
    BY <1>2, <1>3 DEF SaveDue, TypeOK
  <1> QED BY <1>1, <1>2, <1>5, <1>6, <1>7 DEF Became

LEMMA RoundEndsLocal ==
    ASSUME TypeOK, NEW p \in Procs, RoundEnds(p)
    PROVE  \E l : Became(p, l) /\ Saves(l, "runner")
  <1>1. loc[p] \in Locals /\ loc[p].arg = None /\ loc[p].status \in Status /\ loc[p].count \in Nat
    BY LocFacts DEF LocalOk, RoundEnds, Locals, Stats
  <1> DEFINE s == [loc[p].status EXCEPT !.iterations = @ + 1, !.executed = @ + loc[p].count]
  <1>2. s \in Status
    <2>1. PICK t, a, b : t = loc[p].status /\ a = t.iterations + 1 /\ b = t.executed + loc[p].count
      OBVIOUS
    <2>2. s = [t EXCEPT !.iterations = a, !.executed = b]
      BY <2>1
    <2>3. t \in Status /\ a \in Nat /\ b \in Nat
      BY <1>1, <2>1 DEF Status
    <2> HIDE DEF s
    <2> QED BY <2>2, <2>3 DEF Status
  <1>3. PICK i : i = [loc[p] EXCEPT !.status = s]
    OBVIOUS
  <1>4. i \in Locals /\ i.arg = None /\ i.status = s
    <2>1. s \in Stats
      BY <1>2 DEF Stats
    <2> HIDE DEF s
    <2> QED BY <1>1, <1>3, <2>1 DEF Locals
  <1>5. PICK pc \in {"tick", "stop", "done"} : pc = IF s.iterations < Iterations THEN "tick" ELSE "stop"
    OBVIOUS
  <1>6. PICK l : l = Saving(i, "runner", <<s>>, pc)
    OBVIOUS
  <1>7. loc' = [loc EXCEPT ![p] = l]
    BY <1>3, <1>5, <1>6 DEF RoundEnds, TypeOK
  <1> HIDE DEF s
  <1>8. l \in Locals /\ LocalOk(l) /\ Saves(l, "runner")
    BY <1>2, <1>4, <1>6, SavingStatus
  <1> QED BY <1>7, <1>8 DEF Became

LEMMA RunnerStopsLocal ==
    ASSUME TypeOK, NEW p \in Procs, RunnerStops(p)
    PROVE  \E l : Became(p, l) /\ Saves(l, "runner")
  <1>1. loc[p] \in Locals /\ loc[p].arg = None /\ loc[p].status \in Status
    BY LocFacts DEF LocalOk, RunnerStops, Locals, Stats
  <1>2. PICK s : s = [loc[p].status EXCEPT !.running = FALSE]
    OBVIOUS
  <1>3. s \in Status
    BY <1>1, <1>2 DEF Status
  <1>4. PICK pc \in {"tick", "stop", "done"} : pc = "done"
    OBVIOUS
  <1>5. PICK l : l = Saving(loc[p], "runner", <<s>>, pc)
    OBVIOUS
  <1>6. loc' = [loc EXCEPT ![p] = l]
    BY <1>2, <1>4, <1>5 DEF RunnerStops, TypeOK
  <1>7. l \in Locals /\ LocalOk(l) /\ Saves(l, "runner")
    BY <1>1, <1>3, <1>5, SavingStatus
  <1> QED BY <1>6, <1>7 DEF Became

LEMMA EmittingFacts ==
    ASSUME TypeOK, NEW l \in Locals, l.hook = None \/ l.hook \in Post, NEW event \in Events,
           NEW payload \in Payloads, NEW k, k = Emitting(l, event, payload)
    PROVE  /\ k \in Locals /\ LocalOk(k) /\ k.pc = "match" /\ k.doc = Load("triggers") /\ k.i = 0
           /\ Emits(k) /\ k.arg.event = event /\ k.arg.payload = payload /\ k.hook = l.hook
  <1>1. PICK d, a : d = Load("triggers") /\ a = [event |-> event, payload |-> payload]
    OBVIOUS
  <1>2. d \in Docs /\ d \in Seq(Trigger) /\ a \in Args /\ a \in Emission /\ "match" \in PCs
    BY <1>1, LoadType DEF Docs, Args, Emission, PCs
  <1>3. k = [l EXCEPT !.pc = "match", !.doc = d, !.i = 0, !.arg = a]
    BY <1>1 DEF Emitting
  <1>4. k \in Locals /\ k.pc = "match" /\ k.doc = d /\ k.i = 0 /\ k.arg = a /\ k.hook = l.hook
    <2>1. PICK s, z : s = "match" /\ z = 0
      OBVIOUS
    <2>2. s \in PCs /\ z \in Nat /\ k = [l EXCEPT !.pc = s, !.doc = d, !.i = z, !.arg = a]
      BY <1>2, <1>3, <2>1
    <2>3. k \in Locals /\ k.pc = s /\ k.doc = d /\ k.i = z /\ k.arg = a /\ k.hook = l.hook
      BY <1>2, <2>2 DEF Locals
    <2> QED BY <2>1, <2>3
  <1>5. Emits(k)
    BY <1>2, <1>4 DEF Emits
  <1>6. LocalOk(k)
    BY <1>2, <1>4, <1>5 DEF LocalOk, Saves
  <1> QED BY <1>1, <1>4, <1>5, <1>6

LEMMA EmitLocal ==
    ASSUME TypeOK, NEW p \in Procs, NEW event \in Events, NEW payload \in Payloads, Emit(p, event, payload)
    PROVE  \E l : /\ Became(p, l) /\ l.pc = "match" /\ l.doc = Load("triggers") /\ l.i = 0
                  /\ Emits(l) /\ l.hook = None
  <1>1. PICK i, l : i = Idle /\ l = Emitting(i, event, payload)
    OBVIOUS
  <1>2. i \in Locals /\ i.hook = None
    BY <1>1, IdleOk DEF Idle
  <1>3. loc' = [loc EXCEPT ![p] = l]
    BY <1>1 DEF Emit
  <1>4. /\ l \in Locals /\ LocalOk(l) /\ l.pc = "match" /\ l.doc = Load("triggers") /\ l.i = 0
        /\ Emits(l) /\ l.hook = i.hook
    <2>1. l = Emitting(i, event, payload) /\ (i.hook = None \/ i.hook \in Post)
      BY <1>1, <1>2
    <2> QED BY <1>2, <2>1, EmittingFacts
  <1> QED BY <1>2, <1>3, <1>4 DEF Became

LEMMA ReceiveLocal ==
    ASSUME TypeOK, NEW p \in Procs, NEW name \in Names, NEW payload \in Payloads, Receive(p, name, payload)
    PROVE  \E l : /\ Became(p, l) /\ l.pc = "received" /\ l.doc = Load("webhooks") /\ l.hook \in Post
  <1>1. PICK d, a, h : /\ d = Load("webhooks") /\ a = [payload |-> payload] /\ h = [name |-> name]
    OBVIOUS
  <1>2. /\ d \in Docs /\ d \in Seq(Hooks) /\ a \in Args /\ a \in [payload : Payloads]
        /\ h \in Post /\ h \in Heads /\ "received" \in PCs
    BY <1>1, LoadType DEF Docs, Args, Heads, Post, PCs
  <1>3. PICK i, l : i = Idle /\ l = [i EXCEPT !.pc = "received", !.hook = h, !.arg = a, !.doc = d]
    OBVIOUS
  <1>4. i \in Locals
    BY <1>3, IdleOk
  <1>5. l \in Locals /\ l.pc = "received" /\ l.doc = d /\ l.arg = a /\ l.hook = h
    BY <1>2, <1>3, <1>4 DEF Locals
  <1>6. LocalOk(l)
    BY <1>2, <1>5 DEF LocalOk, Saves
  <1>7. loc' = [loc EXCEPT ![p] = l]
    BY <1>1, <1>3 DEF Receive
  <1> QED BY <1>1, <1>2, <1>5, <1>6, <1>7 DEF Became

(* The hook that answers is the first one of its name.                     *)
LEMMA FindHookLocal ==
    ASSUME TypeOK, NEW p \in Procs, FindHook(p)
    PROVE  /\ loc[p].doc \in Seq(Hooks) /\ loc[p].hook \in Post /\ loc[p].pc = "received"
           /\ \/ Became(p, Idle)
              \/ \E l : /\ Became(p, l) /\ l.pc = "match" /\ l.doc = Load("triggers") /\ l.i = 0
                        /\ Emits(l) /\ l.hook = loc[p].hook
                        /\ \E k \in DOMAIN loc[p].doc :
                              /\ loc[p].doc[k].name = l.hook.name /\ loc[p].doc[k].event = l.arg.event
                              /\ \A h \in 1 .. k - 1 : loc[p].doc[h].name # l.hook.name
  <1>1. PICK m : m = loc[p]
    OBVIOUS
  <1>2. /\ m \in Locals /\ m.doc \in Seq(Hooks) /\ m.hook \in Post /\ m.arg \in [payload : Payloads]
        /\ m.pc = "received"
    BY <1>1, LocFacts DEF LocalOk, FindHook
  <1>3. PICK hits : hits = {k \in DOMAIN m.doc : m.doc[k].name = m.hook.name}
    OBVIOUS
  <1>4. loc' = [loc EXCEPT ![p] =
              IF hits = {} THEN Idle
              ELSE Emitting(m, m.doc[CHOOSE k \in hits : IsNext(k, hits)].event, m.arg.payload)]
    BY <1>1, <1>3 DEF FindHook, TypeOK
  <1>5. CASE hits = {}
    BY <1>1, <1>2, <1>4, <1>5, IdleOk DEF Became
  <1>6. CASE hits # {}
    <2>1. hits \in SUBSET Nat /\ DOMAIN m.doc = 1 .. Len(m.doc) /\ Len(m.doc) \in Nat
      BY <1>2, <1>3, LenProperties
    <2>2. \E k \in hits : IsNext(k, hits)
      BY <1>6, <2>1, LeastOf DEF IsNext
    <2>3. PICK k : k = CHOOSE j \in hits : IsNext(j, hits)
      OBVIOUS
    <2>4. k \in hits /\ IsNext(k, hits)
      BY <2>2, <2>3
    <2>5. k \in DOMAIN m.doc /\ m.doc[k].name = m.hook.name /\ m.doc[k] \in Hooks
      BY <1>2, <1>3, <2>1, <2>4, ElementOfSeq
    <2>6. PICK event, payload, l : event = m.doc[k].event /\ payload = m.arg.payload /\ l = Emitting(m, event, payload)
      OBVIOUS
    <2>7. event \in Events /\ payload \in Payloads
      BY <1>2, <2>5, <2>6 DEF Events
    <2>8. /\ l \in Locals /\ LocalOk(l) /\ l.pc = "match" /\ l.doc = Load("triggers") /\ l.i = 0
          /\ Emits(l) /\ l.arg.event = event /\ l.hook = m.hook
      BY <1>2, <2>6, <2>7, EmittingFacts
    <2>9. \A h \in 1 .. k - 1 : m.doc[h].name # m.hook.name
      <3> SUFFICES ASSUME NEW h \in 1 .. k - 1, m.doc[h].name = m.hook.name PROVE FALSE
        OBVIOUS
      <3>1. h \in hits /\ h < k
        BY <1>3, <2>1, <2>5
      <3>2. k <= h
        BY <2>4, <3>1 DEF IsNext
      <3> QED BY <2>1, <2>4, <3>1, <3>2
    <2>10. loc' = [loc EXCEPT ![p] = l]
      BY <1>4, <1>6, <2>3, <2>6
    <2>11. m.doc[k].event = l.arg.event
      BY <2>6, <2>8
    <2>12. Became(p, l)
      BY <2>8, <2>10 DEF Became
    <2> QED BY <1>1, <1>2, <2>5, <2>8, <2>9, <2>11, <2>12
  <1> QED BY <1>5, <1>6

LEMMA SaveCountersLocal ==
    ASSUME TypeOK, NEW p \in Procs, SaveCounters(p)
    PROVE  /\ loc[p].pc = "match" /\ loc[p].doc \in Seq(Trigger) /\ loc[p] \in Locals
           /\ \E l : /\ Became(p, l) /\ Saves(l, "triggers") /\ Emits(l) /\ l.v = loc[p].doc
                     /\ l.arg = loc[p].arg /\ l.hook = loc[p].hook
  <1>1. PICK m : m = loc[p]
    OBVIOUS
  <1>2. m \in Locals /\ Emits(m) /\ m.pc = "match" /\ m.doc \in Seq(Trigger)
    BY <1>1, LocFacts DEF LocalOk, SaveCounters
  <1>3. PICK l : l = Saving(m, "triggers", m.doc, "done")
    OBVIOUS
  <1>4. m.doc \in Doc("triggers") /\ "triggers" \in Files /\ "done" \in Nexts
    BY <1>2, DocFacts DEF Nexts
  <1>5. /\ l \in Locals /\ l.pc = "truncate" /\ l.f = "triggers" /\ l.v = m.doc /\ l.then = "done"
        /\ l.arg = m.arg /\ l.hook = m.hook
    <2>1. PICK f, v, pc : f = "triggers" /\ v = m.doc /\ pc = "done"
      OBVIOUS
    <2>2. f \in Files /\ v \in Doc(f) /\ pc \in Nexts /\ l = Saving(m, f, v, pc)
      BY <1>3, <1>4, <2>1
    <2>3. /\ l \in Locals /\ l.pc = "truncate" /\ l.f = f /\ l.v = v /\ l.then = pc
          /\ l.arg = m.arg /\ l.hook = m.hook
      BY <1>2, <2>2, SavingFacts
    <2> QED BY <2>1, <2>3
  <1>6. Emits(l)
    BY <1>2, <1>5 DEF Emits
  <1>7. LocalOk(l) /\ Saves(l, "triggers")
    BY <1>4, <1>5, <1>6 DEF LocalOk, Saves
  <1>8. loc' = [loc EXCEPT ![p] = l]
    BY <1>1, <1>3 DEF SaveCounters, TypeOK
  <1> QED BY <1>1, <1>2, <1>5, <1>6, <1>7, <1>8 DEF Became


(* The trigger whose item is queued: entry k of the document.              *)
QueuesEntry(p, k, l) ==
    /\ k \in DOMAIN loc[p].doc /\ k > loc[p].i /\ Matches(loc[p].doc[k], loc[p].arg) /\ l.i = k
    /\ \A h \in DOMAIN loc[p].doc : h > loc[p].i /\ Matches(loc[p].doc[h], loc[p].arg) => k <= h
    /\ l.doc \in Seq(Trigger) /\ DOMAIN l.doc = DOMAIN loc[p].doc
    /\ \A h \in DOMAIN loc[p].doc \ {k} : l.doc[h] = loc[p].doc[h]
    /\ Same(l.doc[k], loc[p].doc[k]) /\ l.doc[k].count = loc[p].doc[k].count + 1
    /\ \E it \in Item : l.v = Append(Load("queue"), it) /\ it.trigger = l.doc[k].id

LEMMA EnqueueLocal ==
    ASSUME TypeOK, NEW p \in Procs, Enqueue(p)
    PROVE  /\ loc[p].pc = "match" /\ loc[p].doc \in Seq(Trigger) /\ loc[p] \in Locals /\ Emits(loc[p])
           /\ \E l, k : /\ Became(p, l) /\ Saves(l, "queue") /\ Emits(l) /\ QueuesEntry(p, k, l)
                        /\ l.arg = loc[p].arg /\ l.hook = loc[p].hook
  <1>1. PICK m : m = loc[p]
    OBVIOUS
  <1>2. m \in Locals /\ Emits(m) /\ m.pc = "match" /\ m.doc \in Seq(Trigger)
    BY <1>1, LocFacts DEF LocalOk, Enqueue
  <1>3. PICK k \in Matched(m) :
          /\ IsNext(k, Matched(m))
          /\ loc' = [loc EXCEPT ![p] = Saving([loc[p] EXCEPT !.i = k, !.doc[k].count = @ + 1], "queue",
                                              Append(Load("queue"), [trigger |-> m.doc[k].id]), "match")]
    BY <1>1 DEF Enqueue
  <1>4. DOMAIN m.doc = 1 .. Len(m.doc) /\ Len(m.doc) \in Nat
    BY <1>2, LenProperties
  <1>5. k \in DOMAIN m.doc /\ k > m.i /\ Matches(m.doc[k], m.arg)
    BY DEF Matched
  <1>6. \A h \in DOMAIN m.doc : h > m.i /\ Matches(m.doc[h], m.arg) => k <= h
    BY <1>3 DEF IsNext, Matched
  <1>7. m.doc[k] \in Trigger /\ k \in Nat
    BY <1>2, <1>4, <1>5, ElementOfSeq
  <1>8. PICK c, new : c = m.doc[k].count + 1 /\ new = [m.doc[k] EXCEPT !.count = c]
    OBVIOUS
  <1>9. new \in Trigger /\ new.count = m.doc[k].count + 1 /\ Same(new, m.doc[k])
    <2>1. PICK t : t = m.doc[k]
      OBVIOUS
    <2>2. c \in Nat /\ t \in Trigger
      BY <1>7, <1>8, <2>1 DEF Trigger
    <2>3. new \in Trigger /\ new.count = c /\ Same(new, t)
      BY <1>8, <2>1, <2>2 DEF Trigger, Same
    <2> QED BY <1>8, <2>1, <2>3
  <1>10. PICK d : d = [m.doc EXCEPT ![k] = new]
    OBVIOUS
  <1>11. /\ d \in Seq(Trigger) /\ DOMAIN d = DOMAIN m.doc /\ d[k] = new
         /\ \A h \in DOMAIN m.doc \ {k} : d[h] = m.doc[h]
    BY <1>2, <1>4, <1>5, <1>9, <1>10, ExceptSeq
  <1>12. PICK i : i = [m EXCEPT !.i = k, !.doc = d]
    OBVIOUS
  <1>13. i \in Locals /\ i.i = k /\ i.doc = d /\ i.arg = m.arg /\ i.hook = m.hook
    <2>1. d \in Docs
      BY <1>11 DEF Docs
    <2> QED BY <1>2, <1>7, <1>12, <2>1 DEF Locals
  <1>14. PICK it : it = [trigger |-> m.doc[k].id]
    OBVIOUS
  <1>15. it \in Item /\ it.trigger = new.id
    <2>1. m.doc[k].id \in 1 .. MaxCalls /\ new.id = m.doc[k].id
      BY <1>7, <1>9 DEF Trigger, Same
    <2> QED BY <1>14, <2>1 DEF Item
  <1>16. PICK q : q = Append(Load("queue"), it)
    OBVIOUS
  <1>17. q \in Seq(Item) /\ q # <<>> /\ q[Len(q)] = it
    BY <1>15, <1>16, LoadType, AppendProperties
  <1>18. PICK l : l = Saving(i, "queue", q, "match")
    OBVIOUS
  <1>19. loc' = [loc EXCEPT ![p] = l]
    <2>1. [m EXCEPT !.i = k, !.doc[k].count = @ + 1] = i
      <3>1. [m EXCEPT !.i = k, !.doc[k].count = @ + 1] = [m EXCEPT !.i = k, !.doc = [m.doc EXCEPT ![k] = [m.doc[k] EXCEPT !.count = m.doc[k].count + 1]]]
        BY <1>2 DEF Locals
      <3> QED BY <1>8, <1>10, <1>12, <3>1
    <2>2. loc[p] = m /\ loc \in [Procs -> Locals]
      BY <1>1 DEF TypeOK
    <2>3. loc' = [loc EXCEPT ![p] = Saving([m EXCEPT !.i = k, !.doc[k].count = @ + 1], "queue",
                                           Append(Load("queue"), it), "match")]
      <3> QED BY <1>3, <1>14, <2>2
    <2> QED BY <1>16, <1>18, <2>1, <2>3
  <1>20. /\ l \in Locals /\ l.pc = "truncate" /\ l.f = "queue" /\ l.v = q /\ l.then = "match"
         /\ l.i = k /\ l.doc = d /\ l.arg = m.arg /\ l.hook = m.hook
    <2>1. q \in Doc("queue") /\ "queue" \in Files /\ "match" \in Nexts
      BY <1>17, DocFacts DEF Nexts
    <2> QED BY <1>13, <1>18, <2>1, SavingFacts
  <1>21. Emits(l) /\ Saves(l, "queue")
    BY <1>2, <1>20 DEF Emits, Saves
  <1>22. LocalOk(l)
    <2>1. l.v \in Doc(l.f) /\ l.i \in DOMAIN l.doc /\ l.v # <<>> /\ l.v[Len(l.v)].trigger = l.doc[l.i].id
      BY <1>5, <1>11, <1>15, <1>17, <1>20, DocFacts
    <2> QED BY <1>11, <1>20, <1>21, <2>1 DEF LocalOk, Saves
  <1>23. QueuesEntry(p, k, l)
    <2>1. \E x \in Item : l.v = Append(Load("queue"), x) /\ x.trigger = l.doc[k].id
      BY <1>11, <1>15, <1>16, <1>20
    <2> QED BY <1>1, <1>5, <1>6, <1>9, <1>11, <1>20, <2>1 DEF QueuesEntry
  <1> QED BY <1>1, <1>2, <1>19, <1>20, <1>21, <1>22, <1>23 DEF Became

(* Locals of which only the place changed.                                 *)
Moved(m, l) ==
    /\ l.doc = m.doc /\ l.i = m.i /\ l.f = m.f /\ l.v = m.v /\ l.then = m.then
    /\ l.arg = m.arg /\ l.hook = m.hook /\ l.now = m.now /\ l.count = m.count /\ l.status = m.status

LEMMA TruncateLocal ==
    ASSUME TypeOK, NEW p \in Procs, Truncate(p)
    PROVE  \E l : Became(p, l) /\ Moved(loc[p], l) /\ l.pc = "write"
  <1>1. PICK m, s : m = loc[p] /\ s = "write"
    OBVIOUS
  <1>2. m \in Locals /\ LocalOk(m) /\ m.pc = "truncate" /\ s \in PCs
    BY <1>1, LocFacts DEF Truncate, PCs
  <1>3. PICK l : l = [m EXCEPT !.pc = s]
    OBVIOUS
  <1>4. l \in Locals /\ l.pc = s /\ Moved(m, l)
    BY <1>2, <1>3 DEF Locals, Moved
  <1>5. LocalOk(l)
    BY <1>1, <1>2, <1>4 DEF LocalOk, Moved, Saves, Adds, Emits
  <1>6. loc' = [loc EXCEPT ![p] = l]
    BY <1>1, <1>3 DEF Truncate, TypeOK
  <1> QED BY <1>1, <1>4, <1>5, <1>6 DEF Became

LEMMA WriteLocal ==
    ASSUME TypeOK, NEW p \in Procs, Write(p)
    PROVE  \E l : Became(p, l) /\ Moved(loc[p], l) /\ l.pc = loc[p].then
  <1>1. PICK m : m = loc[p]
    OBVIOUS
  <1>2. m \in Locals /\ LocalOk(m) /\ m.pc = "write" /\ m.then \in PCs /\ m.f \in Files
    BY <1>1, LocFacts DEF Write, PCs, Nexts, Locals
  <1>3. PICK l : l = [m EXCEPT !.pc = m.then]
    OBVIOUS
  <1>4. l \in Locals /\ l.pc = m.then /\ Moved(m, l)
    BY <1>2, <1>3 DEF Locals, Moved
  <1>5. LocalOk(l)
    <2>1. CASE m.f = "jobs"
      BY <1>2, <1>4, <2>1 DEF LocalOk, Moved, Saves
    <2>2. CASE m.f = "runner"
      BY <1>2, <1>4, <2>2 DEF LocalOk, Moved, Saves
    <2>3. CASE m.f = "webhooks"
      BY <1>2, <1>4, <2>3 DEF LocalOk, Moved, Saves, Adds
    <2>4. CASE m.f = "triggers"
      BY <1>2, <1>4, <2>4 DEF LocalOk, Moved, Saves, Adds, Emits
    <2>5. CASE m.f = "queue"
      BY <1>2, <1>4, <2>5 DEF LocalOk, Moved, Saves, Emits
    <2> QED BY <1>2, <2>1, <2>2, <2>3, <2>4, <2>5 DEF Files
  <1>6. loc' = [loc EXCEPT ![p] = l]
    BY <1>1, <1>3 DEF Write, TypeOK
  <1> QED BY <1>1, <1>4, <1>5, <1>6 DEF Became

LEMMA EndLocal ==
    ASSUME TypeOK, NEW p \in Procs, Answer(p) \/ Crash(p)
    PROVE  Became(p, Idle)
  BY IdleOk DEF Answer, Crash, Became


-----------------------------------------------------------------------------
(* Type correctness.                                                       *)

LEMMA InitType == Init => TypeOK
  <1> SUFFICES ASSUME Init PROVE TypeOK
    OBVIOUS
  <1>1. \A f \in Files : file[f] \in Doc(f)
    BY StoppedType, EmptyDoc, DocFacts DEF Init
  <1>2. loc \in [Procs -> Locals] /\ \A p \in Procs : LocalOk(loc[p])
    BY IdleOk DEF Init
  <1>3. /\ ran \in [1 .. MaxCalls -> [0 .. MaxTime -> Nat]] /\ queued \in [1 .. MaxCalls -> Nat]
        /\ owed \in [1 .. MaxCalls -> Nat] /\ answers \in [Names -> Events \cup {None}]
    BY DEF Init, Names
  <1>4. time \in 0 .. MaxTime /\ made \in 0 .. MaxCalls /\ DOMAIN file = Files
    BY ScheduleAssumption DEF Init
  <1> QED BY <1>1, <1>2, <1>3, <1>4 DEF Init, TypeOK

(* Operations that only change their locals, and count themselves.         *)
LEMMA QuietType ==
    ASSUME TypeOK, NEW p \in Procs, NEW l, Became(p, l), made' \in 0 .. MaxCalls, overlaps' \in Nat,
           UNCHANGED <<time, file, ran, queued, known, answers, owed, half, crashes, raises, tornCrash>>
    PROVE  TypeOK'
  <1>1. loc' \in [Procs -> Locals] /\ \A q \in Procs : LocalOk(loc'[q])
    BY LocStep DEF Became
  <1> QED BY <1>1 DEF TypeOK

LEMMA StartType ==
    ASSUME TypeOK, NEW p \in Procs, Start(p), NEW l, Became(p, l)
    PROVE  TypeOK'
  <1>1. made' \in 0 .. MaxCalls /\ overlaps' \in Nat
    BY StartFacts DEF TypeOK
  <1> QED BY <1>1, StartFacts, QuietType

LEMMA ContinueType ==
    ASSUME TypeOK, NEW p \in Procs, NEW l, Became(p, l), UNCHANGED <<time, file, made, ghosts, faults>>
    PROVE  TypeOK'
  <1>1. made' \in 0 .. MaxCalls /\ overlaps' \in Nat
    BY DEF TypeOK, faults
  <1> QED BY <1>1, QuietType DEF ghosts, faults

(* A callback that is called counts.                                       *)
LEMMA RanType ==
    ASSUME TypeOK, NEW j \in 1 .. MaxCalls, NEW t \in Times, ran' = [ran EXCEPT ![j][t] = @ + 1]
    PROVE  /\ ran' \in [1 .. MaxCalls -> [0 .. MaxTime -> Nat]] /\ ran[j][t] \in Nat
           /\ ran'[j][t] = ran[j][t] + 1
           /\ \A i \in 1 .. MaxCalls, u \in Times : i # j \/ u # t => ran'[i][u] = ran[i][u]
  <1>1. PICK row : row = [ran[j] EXCEPT ![t] = ran[j][t] + 1]
    OBVIOUS
  <1>2. ran' = [ran EXCEPT ![j] = row] /\ ran \in [1 .. MaxCalls -> [Times -> Nat]]
    BY <1>1 DEF TypeOK, Times
  <1>3. /\ row \in [Times -> Nat] /\ row[t] = ran[j][t] + 1 /\ ran[j][t] \in Nat
        /\ \A u \in Times \ {t} : row[u] = ran[j][u]
    BY <1>1, <1>2
  <1>4. ran' \in [1 .. MaxCalls -> [Times -> Nat]] /\ ran'[j] = row /\ \A i \in 1 .. MaxCalls \ {j} : ran'[i] = ran[i]
    BY <1>2, <1>3
  <1> QED BY <1>3, <1>4 DEF Times

LEMMA DueEntry ==
    ASSUME TypeOK, NEW p \in Procs, loc[p].pc = "jobs", NEW k \in DOMAIN loc[p].doc
    PROVE  loc[p].doc \in Seq(Job) /\ loc[p].doc[k] \in Job /\ loc[p].doc[k].id \in 1 .. MaxCalls /\ loc[p].now \in Times
  <1>1. loc[p].doc \in Seq(Job) /\ loc[p].now \in Times
    BY LocFacts DEF LocalOk, Locals
  <1>2. loc[p].doc[k] \in Job
    BY <1>1, ElementOfSeq, LenProperties
  <1> QED BY <1>1, <1>2 DEF Job

LEMMA WriteFacts ==
    ASSUME TypeOK, NEW p \in Procs, Write(p)
    PROVE  /\ loc[p] \in Locals /\ LocalOk(loc[p]) /\ loc[p].pc = "write"
           /\ loc[p].f \in Files /\ loc[p].v \in Doc(loc[p].f)
           /\ file' = [file EXCEPT ![loc[p].f] = loc[p].v] /\ DOMAIN file' = Files
           /\ file'[loc[p].f] = loc[p].v /\ \A f \in Files \ {loc[p].f} : file'[f] = file[f]
           /\ loc[p].f # "queue" => queued' = queued
           /\ loc[p].f = "queue" =>
                 /\ loc[p].i \in DOMAIN loc[p].doc /\ loc[p].doc[loc[p].i].id \in 1 .. MaxCalls
                 /\ queued' = [queued EXCEPT ![loc[p].doc[loc[p].i].id] = @ + 1]
           /\ queued' \in [1 .. MaxCalls -> Nat]
  <1>1. PICK m : m = loc[p]
    OBVIOUS
  <1>2. m \in Locals /\ LocalOk(m) /\ m.pc = "write" /\ m.f \in Files /\ m.v \in Doc(m.f)
    BY <1>1, LocFacts DEF Write, Locals, LocalOk
  <1>3. file' = [file EXCEPT ![m.f] = m.v]
    BY <1>1 DEF Write
  <1>4. DOMAIN file' = Files /\ file'[m.f] = m.v /\ \A f \in Files \ {m.f} : file'[f] = file[f]
    BY <1>2, <1>3 DEF TypeOK
  <1>5. m.f # "queue" => queued' = queued
    BY <1>1 DEF Write
  <1>6. CASE m.f = "queue"
    <2>1. m.doc \in Seq(Trigger) /\ m.i \in DOMAIN m.doc /\ m.v[Len(m.v)].trigger = m.doc[m.i].id
      BY <1>2, <1>6 DEF LocalOk, Saves
    <2>2. m.doc[m.i] \in Trigger
      BY <2>1, ElementOfSeq, LenProperties
    <2>3. m.doc[m.i].id \in 1 .. MaxCalls
      BY <2>2 DEF Trigger
    <2>4. queued' = [queued EXCEPT ![m.doc[m.i].id] = @ + 1]
      BY <1>1, <1>6, <2>1 DEF Write
    <2>5. queued \in [1 .. MaxCalls -> Nat]
      BY DEF TypeOK
    <2>6. PICK g : g = m.doc[m.i].id
      OBVIOUS
    <2>7. g \in 1 .. MaxCalls /\ queued' = [queued EXCEPT ![g] = @ + 1]
      BY <2>3, <2>4, <2>6
    <2>8. queued' \in [1 .. MaxCalls -> Nat]
      BY <2>5, <2>7
    <2> QED BY <1>1, <1>2, <1>3, <1>4, <1>5, <1>6, <2>1, <2>3, <2>4, <2>8
  <1>7. CASE m.f # "queue"
    <2>1. queued \in [1 .. MaxCalls -> Nat]
      BY DEF TypeOK
    <2>2. queued' \in [1 .. MaxCalls -> Nat]
      BY <1>5, <1>7, <2>1
    <2> QED BY <1>1, <1>2, <1>3, <1>4, <1>5, <1>7, <2>2
  <1> QED BY <1>6, <1>7

LEMMA AnswerFacts ==
    ASSUME TypeOK, NEW p \in Procs, Answer(p)
    PROVE  /\ loc[p].pc = "done"
           /\ known' \in {known, known \cup {loc[p].arg}}
           /\ Adds(loc[p]) => known' = known \cup {loc[p].arg}
           /\ ~Adds(loc[p]) => known' = known /\ answers' = answers
           /\ Adds(loc[p]) /\ loc[p].hook = None => answers' = answers
           /\ Adds(loc[p]) /\ loc[p].hook \in Hooks =>
                 answers' = IF answers[loc[p].hook.name] = None
                            THEN [answers EXCEPT ![loc[p].hook.name] = loc[p].hook.event] ELSE answers
           /\ ~Emits(loc[p]) \/ loc[p].arg = None => owed' = owed
           /\ Emits(loc[p]) /\ loc[p].hook \in Post /\ loc[p].hook # None /\ loc[p].hook.name \in half => owed' = owed
           /\ \A g \in 1 .. MaxCalls : owed'[g] \in {owed[g], owed[g] + 1}
           /\ \A g \in 1 .. MaxCalls : owed'[g] # owed[g] =>
                 /\ Emits(loc[p])
                 /\ \E trig \in known :
                       /\ trig.id = g
                       /\ Matches(trig, [event |-> Promised(loc[p]), payload |-> loc[p].arg.payload])
           /\ owed' \in [1 .. MaxCalls -> Nat] /\ known' \subseteq Trigger /\ answers' \in [Names -> Events \cup {None}]
  <1>1. PICK m : m = loc[p]
    OBVIOUS
  <1>2. /\ m \in Locals /\ LocalOk(m) /\ m.pc = "done" /\ (m.arg = None \/ Adds(m) \/ Emits(m))
    BY <1>1, LocFacts DEF Answer, LocalOk
  <1> DEFINE added   == m.arg # None /\ "id" \in DOMAIN m.arg
             emitted == m.arg # None /\ "payload" \in DOMAIN m.arg
  <1>3. /\ known' = IF added THEN known \cup {m.arg} ELSE known
        /\ answers' = IF added /\ m.hook # None /\ answers[m.hook.name] = None
                      THEN [answers EXCEPT ![m.hook.name] = m.hook.event] ELSE answers
        /\ owed' = IF emitted /\ (m.hook = None \/ m.hook.name \notin half)
                   THEN [g \in DOMAIN owed |->
                            IF \E trig \in known : trig.id = g
                                  /\ Matches(trig, [event |-> Promised(m), payload |-> m.arg.payload])
                            THEN owed[g] + 1 ELSE owed[g]]
                   ELSE owed
    BY <1>1 DEF Answer
  <1>4. Adds(m) => added /\ ~emitted /\ m.arg \in Trigger
    BY ArgShapes DEF Adds
  <1>5. Emits(m) => ~added
    BY ArgShapes DEF Emits
  <1>6. m.arg = None => ~added /\ ~emitted
    OBVIOUS
  <1>7. (added <=> Adds(m)) /\ (emitted => Emits(m))
    BY <1>2, <1>4, <1>5, <1>6
  <1> HIDE DEF added, emitted
  <1>8. /\ known' = IF Adds(m) THEN known \cup {m.arg} ELSE known
        /\ known' \subseteq Trigger
    BY <1>3, <1>4, <1>7 DEF TypeOK
  <1>9. /\ ~Adds(m) => answers' = answers
        /\ Adds(m) /\ m.hook = None => answers' = answers
        /\ Adds(m) /\ m.hook \in Hooks =>
              answers' = IF answers[m.hook.name] = None
                         THEN [answers EXCEPT ![m.hook.name] = m.hook.event] ELSE answers
    BY <1>3, <1>7, ArgShapes
  <1>10. answers' \in [Names -> Events \cup {None}]
    <2>1. CASE Adds(m) /\ m.hook \in Hooks
      <3>1. m.hook.name \in Names /\ m.hook.event \in Events
        BY <2>1 DEF Names, Events
      <3> QED BY <1>9, <2>1, <3>1 DEF TypeOK
    <2>2. CASE ~(Adds(m) /\ m.hook \in Hooks)
      <3>1. answers' = answers
        BY <1>9, <2>2 DEF Adds
      <3> QED BY <3>1 DEF TypeOK
    <2> QED BY <2>1, <2>2
  <1>11. /\ ~Emits(m) \/ m.arg = None => owed' = owed
         /\ Emits(m) /\ m.hook \in Post /\ m.hook # None /\ m.hook.name \in half => owed' = owed
    BY <1>3, <1>6, <1>7
  <1>12. /\ \A g \in 1 .. MaxCalls : owed'[g] \in {owed[g], owed[g] + 1}
         /\ \A g \in 1 .. MaxCalls : owed'[g] # owed[g] =>
               \E trig \in known :
                  trig.id = g /\ Matches(trig, [event |-> Promised(m), payload |-> m.arg.payload])
    <2>1. DOMAIN owed = 1 .. MaxCalls
      BY DEF TypeOK
    <2> QED BY <1>3, <2>1
  <1>13. owed' \in [1 .. MaxCalls -> Nat]
    <2>1. owed \in [1 .. MaxCalls -> Nat]
      BY DEF TypeOK
    <2>2. DOMAIN owed' = 1 .. MaxCalls /\ owed' = [g \in 1 .. MaxCalls |-> owed'[g]]
      BY <1>3, <2>1
    <2>3. \A g \in 1 .. MaxCalls : owed'[g] \in Nat
      BY <1>12, <2>1
    <2> QED BY <2>2, <2>3
  <1> QED BY <1>1, <1>2, <1>4, <1>8, <1>9, <1>10, <1>11, <1>12, <1>13


LEMMA CommandCases ==
    ASSUME NEW p \in Procs, ScheduleCommand(p) \/ StartRunner(p) \/ TriggerCommand(p) \/ WebhookCommand(p) \/ DoPost(p)
    PROVE  \/ RunDue(p) \/ StartRunner(p)
           \/ \E cron \in Crons : AddJob(p, cron)
           \/ \E g \in Triggers : AddTrigger(p, g)
           \/ \E event \in Events, payload \in Payloads : Emit(p, event, payload)
           \/ \E h \in Hooks : AddWebhook(p, h)
           \/ \E name \in Names, payload \in Payloads : Receive(p, name, payload)
  <1>1. \A g \in Triggers : g.event \in Events
    BY DEF Events
  <1>2. \A h \in Hooks : h.name \in Names
    BY DEF Names
  <1>3. CASE ScheduleCommand(p)
    BY <1>3 DEF ScheduleCommand
  <1>4. CASE TriggerCommand(p)
    BY <1>4, <1>1 DEF TriggerCommand
  <1>5. CASE WebhookCommand(p)
    BY <1>5 DEF WebhookCommand
  <1>6. CASE DoPost(p)
    BY <1>6, <1>2 DEF DoPost
  <1> QED BY <1>3, <1>4, <1>5, <1>6

LEMMA CommandType ==
    ASSUME TypeOK, NEW p \in Procs, ScheduleCommand(p) \/ StartRunner(p) \/ TriggerCommand(p) \/ WebhookCommand(p) \/ DoPost(p)
    PROVE  TypeOK'
  <1>1. CASE RunDue(p)
    BY <1>1, RunDueLocal, StartType DEF RunDue
  <1>2. CASE StartRunner(p)
    BY <1>2, StartRunnerLocal, StartType DEF StartRunner
  <1>3. ASSUME NEW cron \in Crons, AddJob(p, cron) PROVE TypeOK'
    BY <1>3, AddJobLocal, StartType DEF AddJob
  <1>4. ASSUME NEW g \in Triggers, AddTrigger(p, g) PROVE TypeOK'
    BY <1>4, AddTriggerLocal, StartType DEF AddTrigger
  <1>5. ASSUME NEW event \in Events, NEW payload \in Payloads, Emit(p, event, payload) PROVE TypeOK'
    BY <1>5, EmitLocal, StartType DEF Emit
  <1>6. ASSUME NEW h \in Hooks, AddWebhook(p, h) PROVE TypeOK'
    BY <1>6, AddWebhookLocal, StartType DEF AddWebhook
  <1>7. ASSUME NEW name \in Names, NEW payload \in Payloads, Receive(p, name, payload) PROVE TypeOK'
    BY <1>7, ReceiveLocal, StartType DEF Receive
  <1> QED BY <1>1, <1>2, <1>3, <1>4, <1>5, <1>6, <1>7, CommandCases

LEMMA TypeStep == TypeOK /\ [Next]_vars => TypeOK'
  <1> SUFFICES ASSUME TypeOK, [Next]_vars PROVE TypeOK'
    OBVIOUS
  <1>1. CASE UNCHANGED vars
    BY <1>1 DEF vars, ghosts, faults, TypeOK
  <1>2. CASE NextMinute
    <2>1. time' \in 0 .. MaxTime
      BY <1>2, ScheduleAssumption DEF NextMinute, TypeOK
    <2> QED BY <1>2, <2>1 DEF NextMinute, ghosts, faults, TypeOK
  <1>3. ASSUME NEW p \in Procs,
               ScheduleCommand(p) \/ StartRunner(p) \/ TriggerCommand(p) \/ WebhookCommand(p) \/ DoPost(p)
        PROVE  TypeOK'
    BY <1>3, CommandType
  <1>4. ASSUME NEW p \in Procs, HookTrigger(p) PROVE TypeOK'
    BY <1>4, HookTriggerLocal, ContinueType DEF HookTrigger
  <1>5. ASSUME NEW p \in Procs, LoadDue(p) PROVE TypeOK'
    BY <1>5, LoadDueLocal, ContinueType DEF LoadDue
  <1>6. ASSUME NEW p \in Procs, JobRuns(p) PROVE TypeOK'
    <2>1. PICK l, k : Became(p, l) /\ RunsEntry(p, k, l)
      BY <1>6, JobRunsLocal
    <2>2. loc[p].doc[k].id \in 1 .. MaxCalls /\ loc[p].now \in Times
      BY <1>6, <2>1, DueEntry DEF JobRuns, RunsEntry
    <2>3. ran' \in [1 .. MaxCalls -> [0 .. MaxTime -> Nat]]
      BY <2>1, <2>2, RanType DEF RunsEntry
    <2>4. loc' \in [Procs -> Locals] /\ \A q \in Procs : LocalOk(loc'[q])
      BY <2>1, LocStep DEF Became
    <2> QED BY <1>6, <2>3, <2>4 DEF JobRuns, TypeOK, faults
  <1>7. ASSUME NEW p \in Procs, JobRaises(p) PROVE TypeOK'
    <2>1. PICK l : Became(p, l) /\ \E k \in DOMAIN loc[p].doc :
                        ran' = [ran EXCEPT ![loc[p].doc[k].id][loc[p].now] = @ + 1]
      BY <1>7, JobRaisesLocal
    <2>2. PICK k \in DOMAIN loc[p].doc : ran' = [ran EXCEPT ![loc[p].doc[k].id][loc[p].now] = @ + 1]
      BY <2>1
    <2>3. loc[p].doc[k].id \in 1 .. MaxCalls /\ loc[p].now \in Times
      BY <1>7, <2>2, DueEntry DEF JobRaises
    <2>4. ran' \in [1 .. MaxCalls -> [0 .. MaxTime -> Nat]]
      BY <2>2, <2>3, RanType
    <2>5. loc' \in [Procs -> Locals] /\ \A q \in Procs : LocalOk(loc'[q])
      BY <2>1, LocStep DEF Became
    <2>6. raises' \in Nat
      BY <1>7 DEF JobRaises, TypeOK
    <2> QED BY <1>7, <2>4, <2>5, <2>6 DEF JobRaises, TypeOK
  <1>8. ASSUME NEW p \in Procs, SaveDue(p) PROVE TypeOK'
    BY <1>8, SaveDueLocal, ContinueType DEF SaveDue
  <1>9. ASSUME NEW p \in Procs, RoundEnds(p) PROVE TypeOK'
    BY <1>9, RoundEndsLocal, ContinueType DEF RoundEnds
  <1>10. ASSUME NEW p \in Procs, RunnerStops(p) PROVE TypeOK'
    BY <1>10, RunnerStopsLocal, ContinueType DEF RunnerStops
  <1>11. ASSUME NEW p \in Procs, FindHook(p) PROVE TypeOK'
    BY <1>11, FindHookLocal, ContinueType DEF FindHook
  <1>12. ASSUME NEW p \in Procs, Enqueue(p) PROVE TypeOK'
    BY <1>12, EnqueueLocal, ContinueType DEF Enqueue
  <1>13. ASSUME NEW p \in Procs, SaveCounters(p) PROVE TypeOK'
    BY <1>13, SaveCountersLocal, ContinueType DEF SaveCounters
  <1>14. ASSUME NEW p \in Procs, Truncate(p) PROVE TypeOK'
    <2>1. PICK l : Became(p, l)
      BY <1>14, TruncateLocal
    <2>2. loc' \in [Procs -> Locals] /\ \A q \in Procs : LocalOk(loc'[q])
      BY <2>1, LocStep DEF Became
    <2>3. (\A f \in Files : file'[f] = Torn \/ file'[f] \in Doc(f)) /\ DOMAIN file' = Files
      BY <1>14 DEF Truncate, TypeOK
    <2> QED BY <1>14, <2>2, <2>3 DEF Truncate, TypeOK, ghosts, faults
  <1>15. ASSUME NEW p \in Procs, Write(p) PROVE TypeOK'
    <2>1. PICK l : Became(p, l)
      BY <1>15, WriteLocal
    <2>2. loc' \in [Procs -> Locals] /\ \A q \in Procs : LocalOk(loc'[q])
      BY <2>1, LocStep DEF Became
    <2>3. (\A f \in Files : file'[f] = Torn \/ file'[f] \in Doc(f)) /\ DOMAIN file' = Files
          /\ queued' \in [1 .. MaxCalls -> Nat]
      BY <1>15, WriteFacts DEF TypeOK
    <2> QED BY <1>15, <2>2, <2>3 DEF Write, TypeOK, faults
  <1>16. ASSUME NEW p \in Procs, Answer(p) PROVE TypeOK'
    <2>1. loc' \in [Procs -> Locals] /\ \A q \in Procs : LocalOk(loc'[q])
      BY <1>16, EndLocal, LocStep DEF Became
    <2>2. owed' \in [1 .. MaxCalls -> Nat] /\ known' \subseteq Trigger /\ answers' \in [Names -> Events \cup {None}]
      BY <1>16, AnswerFacts
    <2> QED BY <1>16, <2>1, <2>2 DEF Answer, TypeOK, faults
  <1>17. ASSUME NEW p \in Procs, Crash(p) PROVE TypeOK'
    <2>1. loc' \in [Procs -> Locals] /\ \A q \in Procs : LocalOk(loc'[q])
      BY <1>17, EndLocal, LocStep DEF Became
    <2>2. crashes' \in Nat /\ half' \subseteq Names /\ tornCrash' \in BOOLEAN
      BY <1>17 DEF Crash, TypeOK, Names
    <2> QED BY <1>17, <2>1, <2>2 DEF Crash, TypeOK
  <1> QED BY <1>1, <1>2, <1>3, <1>4, <1>5, <1>6, <1>7, <1>8, <1>9, <1>10, <1>11, <1>12, <1>13,
             <1>14, <1>15, <1>16, <1>17 DEF Next, Continue

(* Every file that is not torn holds what its readers expect, and so does  *)
(* what every process has in memory.                                       *)
THEOREM ScheduleTypes == Spec => []TypeOK
  <1> QED BY InitType, TypeStep, PTL DEF Spec


-----------------------------------------------------------------------------
(* The counters on file.                                                   *)

(* Work that is done only adds up.                                         *)
LEMMA CoveredStill ==
    ASSUME TypeOK, TypeOK',
           \A j \in 1 .. MaxCalls : \A t \in Times : ran[j][t] <= ran'[j][t],
           \A g \in 1 .. MaxCalls : queued[g] <= queued'[g]
    PROVE  /\ \A d \in Seq(Job) : JobsCovered(d) => JobsCovered(d)'
           /\ \A d \in Seq(Trigger), i \in Nat : TriggersCovered(d, i) => TriggersCovered(d, i)'
  <1>1. \A j \in 1 .. MaxCalls : Runs(j) \in Nat /\ Runs(j)' \in Nat /\ Runs(j) <= Runs(j)'
    <2> TAKE j \in 1 .. MaxCalls
    <2>1. ran[j] \in [Times -> Nat] /\ ran'[j] \in [Times -> Nat]
      BY DEF TypeOK, Times
    <2>2. \A t \in Times : ran[j][t] <= ran'[j][t]
      OBVIOUS
    <2> QED BY <2>1, <2>2, SumGrows DEF Runs
  <1>2. ASSUME NEW d \in Seq(Job), JobsCovered(d) PROVE JobsCovered(d)'
    <2>1. \A k \in DOMAIN d : d[k].id \in 1 .. MaxCalls /\ d[k].count \in Nat
      <3>1. \A k \in DOMAIN d : d[k] \in Job
        BY ElementOfSeq, LenProperties
      <3> QED BY <3>1 DEF Job
    <2>2. \A k \in DOMAIN d : d[k].count <= Runs(d[k].id)
      BY <1>2 DEF JobsCovered
    <2>3. \A k \in DOMAIN d : d[k].count <= Runs(d[k].id)'
      <3> TAKE k \in DOMAIN d
      <3>1. PICK j \in 1 .. MaxCalls : j = d[k].id
        BY <2>1
      <3> QED BY <1>1, <2>1, <2>2, <3>1
    <2> QED BY <2>3 DEF JobsCovered
  <1>3. ASSUME NEW d \in Seq(Trigger), NEW i \in Nat, TriggersCovered(d, i) PROVE TriggersCovered(d, i)'
    <2>1. \A k \in DOMAIN d : d[k].id \in 1 .. MaxCalls /\ d[k].count \in Nat
      <3>1. \A k \in DOMAIN d : d[k] \in Trigger
        BY ElementOfSeq, LenProperties
      <3> QED BY <3>1 DEF Trigger
    <2>2. \A g \in 1 .. MaxCalls : queued[g] \in Nat /\ queued'[g] \in Nat
      BY DEF TypeOK
    <2>3. \A k \in DOMAIN d : d[k].count <= queued'[d[k].id] + (IF k = i THEN 1 ELSE 0)
      <3> TAKE k \in DOMAIN d
      <3>1. PICK g \in 1 .. MaxCalls : g = d[k].id
        BY <2>1
      <3>2. PICK e : e = IF k = i THEN 1 ELSE 0
        OBVIOUS
      <3>3. d[k].count <= queued[g] + e
        BY <1>3, <3>1, <3>2 DEF TriggersCovered
      <3>4. queued[g] <= queued'[g] /\ e \in Nat
        BY <3>2
      <3>5. d[k].count <= queued'[g] + e
        BY <2>1, <2>2, <3>3, <3>4
      <3> QED BY <3>1, <3>2, <3>5
    <2> QED BY <2>3 DEF TriggersCovered
  <1> QED BY <1>2, <1>3

LEMMA LocalCoveredStill ==
    ASSUME TypeOK, TypeOK', NEW l \in Locals, LocalOk(l), LocalCovered(l),
           \A j \in 1 .. MaxCalls : \A t \in Times : ran[j][t] <= ran'[j][t],
           \A g \in 1 .. MaxCalls : queued[g] <= queued'[g]
    PROVE  LocalCovered(l)'
  <1>1. 0 \in Nat /\ l.i \in Nat
    BY DEF Locals
  <1>2. l.pc = "jobs" => JobsCovered(l.doc)'
    BY CoveredStill DEF LocalCovered, LocalOk
  <1>3. Saves(l, "jobs") => JobsCovered(l.v)'
    <2>1. Saves(l, "jobs") => l.v \in Seq(Job)
      BY DocFacts DEF LocalOk, Saves
    <2> QED BY <2>1, CoveredStill DEF LocalCovered
  <1>4. l.pc = "match" => TriggersCovered(l.doc, 0)'
    BY <1>1, CoveredStill DEF LocalCovered, LocalOk
  <1>5. Saves(l, "queue") => TriggersCovered(l.doc, l.i)'
    BY <1>1, CoveredStill DEF LocalCovered, LocalOk
  <1>6. Saves(l, "triggers") => TriggersCovered(l.v, 0)'
    <2>1. Saves(l, "triggers") => l.v \in Seq(Trigger)
      BY DocFacts DEF LocalOk, Saves
    <2> QED BY <1>1, <2>1, CoveredStill DEF LocalCovered
  <1>7. Saves(l, "jobs")' = Saves(l, "jobs") /\ Saves(l, "queue")' = Saves(l, "queue")
        /\ Saves(l, "triggers")' = Saves(l, "triggers")
    BY DEF Saves
  <1> QED BY <1>2, <1>3, <1>4, <1>5, <1>6, <1>7 DEF LocalCovered

(* A step of one process, after which its own locals are covered.          *)
LEMMA CoveredStep ==
    ASSUME TypeOK, TypeOK', CountInv, NEW p \in Procs, NEW l, Became(p, l), LocalCovered(l)', FilesCovered',
           \A j \in 1 .. MaxCalls : \A t \in Times : ran[j][t] <= ran'[j][t],
           \A g \in 1 .. MaxCalls : queued[g] <= queued'[g]
    PROVE  CountInv'
  <1>1. loc'[p] = l /\ \A q \in Procs \ {p} : loc'[q] = loc[q]
    BY LocStep DEF Became
  <1>2. ASSUME NEW q \in Procs \ {p} PROVE LocalCovered(loc[q])'
    <2>1. PICK k : k = loc[q] /\ k = loc'[q]
      BY <1>1
    <2>2. k \in Locals /\ LocalOk(k) /\ LocalCovered(k)
      BY <2>1, LocFacts DEF CountInv
    <2>3. LocalCovered(k)'
      BY <2>2, LocalCoveredStill
    <2> QED BY <2>1, <2>3 DEF LocalCovered, JobsCovered, TriggersCovered, Saves
  <1>3. LocalCovered(loc[p])'
    BY <1>1 DEF LocalCovered, JobsCovered, TriggersCovered, Saves
  <1>4. \A q \in Procs : LocalCovered(loc[q])'
    BY <1>2, <1>3
  <1> QED BY <1>4 DEF CountInv


LEMMA AppendCovered ==
    /\ \A d \in Seq(Job), j \in Job : j.count = 0 /\ JobsCovered(d) /\ Runs(j.id) \in Nat => JobsCovered(Append(d, j))
    /\ \A d \in Seq(Trigger), g \in Trigger :
          g.count = 0 /\ TriggersCovered(d, 0) /\ queued[g.id] \in Nat => TriggersCovered(Append(d, g), 0)
  <1>1. ASSUME NEW d \in Seq(Job), NEW j \in Job, j.count = 0, JobsCovered(d), Runs(j.id) \in Nat
        PROVE  JobsCovered(Append(d, j))
    <2>1. PICK e : e = Append(d, j)
      OBVIOUS
    <2>2. \A k \in DOMAIN e : (k \in DOMAIN d /\ e[k] = d[k]) \/ e[k] = j
      BY <2>1, AppendProperties, LenProperties
    <2>3. \A k \in DOMAIN e : e[k].count <= Runs(e[k].id)
      BY <1>1, <2>2 DEF JobsCovered
    <2> QED BY <2>1, <2>3 DEF JobsCovered
  <1>2. ASSUME NEW d \in Seq(Trigger), NEW g \in Trigger, g.count = 0, TriggersCovered(d, 0), queued[g.id] \in Nat
        PROVE  TriggersCovered(Append(d, g), 0)
    <2>1. PICK e : e = Append(d, g)
      OBVIOUS
    <2>2. \A k \in DOMAIN e : k # 0 /\ ((k \in DOMAIN d /\ e[k] = d[k]) \/ e[k] = g)
      BY <2>1, AppendProperties, LenProperties
    <2>3. \A k \in DOMAIN d : d[k].count <= queued[d[k].id] + 0
      <3>1. \A k \in DOMAIN d : k # 0
        BY LenProperties
      <3> QED BY <1>2, <3>1 DEF TriggersCovered
    <2>4. \A k \in DOMAIN e : e[k].count <= queued[e[k].id] + 0
      <3> TAKE k \in DOMAIN e
      <3>1. CASE e[k] = g
        BY <1>2, <3>1
      <3>2. CASE k \in DOMAIN d /\ e[k] = d[k]
        BY <2>3, <3>2
      <3> QED BY <2>2, <3>1, <3>2
    <2> QED BY <2>1, <2>2, <2>4 DEF TriggersCovered
  <1> QED BY <1>1, <1>2

(* A process that holds no document with counters.                         *)
LEMMA QuietCovered ==
    ASSUME NEW l, l.pc \notin {"jobs", "match"}, ~Saves(l, "jobs"), ~Saves(l, "queue"), ~Saves(l, "triggers")
    PROVE  LocalCovered(l) /\ LocalCovered(l)'
  BY DEF LocalCovered, Saves

(* A step that calls no job, saves no item and writes no file.             *)
LEMMA CoveredQuietly ==
    ASSUME TypeOK, TypeOK', CountInv, NEW p \in Procs, NEW l, Became(p, l), LocalCovered(l),
           UNCHANGED <<file, ran, queued>>
    PROVE  CountInv'
  <1>1. \A j \in 1 .. MaxCalls : \A t \in Times : ran[j][t] <= ran'[j][t]
    <2>1. \A j \in 1 .. MaxCalls : \A t \in Times : ran[j][t] \in Nat
      BY DEF TypeOK, Times
    <2>2. ran' = ran
      OBVIOUS
    <2>3. \A n \in Nat : n <= n
      OBVIOUS
    <2> QED BY <2>1, <2>2, <2>3
  <1>2. \A g \in 1 .. MaxCalls : queued[g] <= queued'[g]
    BY DEF TypeOK
  <1>3. FilesCovered'
    BY DEF CountInv, FilesCovered, JobsCovered, TriggersCovered, Load, Runs
  <1>4. LocalCovered(l)'
    BY DEF LocalCovered, JobsCovered, TriggersCovered, Runs, Saves
  <1> QED BY <1>1, <1>2, <1>3, <1>4, CoveredStep

(* Every file on disk is covered when none changed.                        *)
LEMMA FilesStill ==
    ASSUME TypeOK, TypeOK', FilesCovered, UNCHANGED file,
           \A j \in 1 .. MaxCalls : \A t \in Times : ran[j][t] <= ran'[j][t],
           \A g \in 1 .. MaxCalls : queued[g] <= queued'[g]
    PROVE  FilesCovered'
  <1>1. PICK d, e : d = Load("jobs") /\ e = Load("triggers")
    OBVIOUS
  <1>2. d \in Seq(Job) /\ e \in Seq(Trigger) /\ 0 \in Nat
    BY <1>1, LoadType
  <1>3. JobsCovered(d)' /\ TriggersCovered(e, 0)'
    BY <1>1, <1>2, CoveredStill DEF FilesCovered
  <1>4. d = Load("jobs")' /\ e = Load("triggers")'
    BY <1>1 DEF Load
  <1> QED BY <1>3, <1>4 DEF FilesCovered, JobsCovered, TriggersCovered

LEMMA CommandCovered ==
    ASSUME TypeOK, TypeOK', CountInv, NEW p \in Procs,
           ScheduleCommand(p) \/ StartRunner(p) \/ TriggerCommand(p) \/ WebhookCommand(p) \/ DoPost(p)
    PROVE  CountInv'
  <1>0. /\ Start(p) => UNCHANGED <<file, ran, queued>>
        /\ \A j \in 1 .. MaxCalls : Runs(j) \in Nat /\ queued[j] \in Nat
    <2>1. Start(p) => UNCHANGED <<file, ran, queued>>
      BY StartFacts
    <2>2. \A j \in 1 .. MaxCalls : ran[j] \in [Times -> Nat] /\ queued[j] \in Nat
      BY DEF TypeOK, Times
    <2>3. ASSUME NEW j \in 1 .. MaxCalls PROVE Runs(j) \in Nat
      <3>1. PICK f : f = ran[j] /\ f \in [Times -> Nat]
        BY <2>2
      <3>2. \A t \in Times : f[t] <= f[t]
        BY <3>1
      <3>3. Sum(f) \in Nat
        BY <3>1, <3>2, SumGrows
      <3> QED BY <3>1, <3>3 DEF Runs
    <2> QED BY <2>1, <2>2, <2>3
  <1>1. CASE RunDue(p)
    <2>1. PICK l : Became(p, l) /\ l.pc = "tick"
      BY <1>1, RunDueLocal
    <2>2. LocalCovered(l)
      BY <2>1, QuietCovered DEF Saves
    <2> QED BY <1>0, <1>1, <2>1, <2>2, CoveredQuietly DEF RunDue
  <1>2. CASE StartRunner(p)
    <2>1. PICK l : Became(p, l) /\ Saves(l, "runner")
      BY <1>2, StartRunnerLocal
    <2>2. LocalCovered(l)
      BY <2>1, QuietCovered DEF Saves
    <2> QED BY <1>0, <1>2, <2>1, <2>2, CoveredQuietly DEF StartRunner
  <1>3. ASSUME NEW cron \in Crons, AddJob(p, cron) PROVE CountInv'
    <2>1. PICK l, j : Became(p, l) /\ Saves(l, "jobs") /\ j \in Job /\ l.v = Append(Load("jobs"), j) /\ j.count = 0
      BY <1>3, AddJobLocal
    <2>2. j.id \in 1 .. MaxCalls
      BY <2>1 DEF Job
    <2>3. Load("jobs") \in Seq(Job) /\ JobsCovered(Load("jobs"))
      BY LoadType DEF CountInv, FilesCovered
    <2>4. JobsCovered(l.v)
      BY <1>0, <2>1, <2>2, <2>3, AppendCovered
    <2>5. LocalCovered(l)
      BY <2>1, <2>4 DEF LocalCovered, Saves
    <2> QED BY <1>0, <1>3, <2>1, <2>5, CoveredQuietly DEF AddJob
  <1>4. ASSUME NEW g \in Triggers, AddTrigger(p, g) PROVE CountInv'
    <2>1. PICK l : Became(p, l) /\ Saves(l, "triggers") /\ Adds(l) /\ l.v = Append(Load("triggers"), l.arg)
      BY <1>4, AddTriggerLocal
    <2>2. l.arg \in Trigger /\ l.arg.id \in 1 .. MaxCalls /\ l.arg.count = 0
      BY <2>1 DEF Adds, Trigger
    <2>3. Load("triggers") \in Seq(Trigger) /\ TriggersCovered(Load("triggers"), 0)
      BY LoadType DEF CountInv, FilesCovered
    <2>4. TriggersCovered(l.v, 0)
      BY <1>0, <2>1, <2>2, <2>3, AppendCovered
    <2>5. LocalCovered(l)
      BY <2>1, <2>4 DEF LocalCovered, Saves
    <2> QED BY <1>0, <1>4, <2>1, <2>5, CoveredQuietly DEF AddTrigger
  <1>5. ASSUME NEW event \in Events, NEW payload \in Payloads, Emit(p, event, payload) PROVE CountInv'
    <2>1. PICK l : Became(p, l) /\ l.pc = "match" /\ l.doc = Load("triggers")
      BY <1>5, EmitLocal
    <2>2. LocalCovered(l)
      BY <2>1 DEF LocalCovered, Saves, CountInv, FilesCovered
    <2> QED BY <1>0, <1>5, <2>1, <2>2, CoveredQuietly DEF Emit
  <1>6. ASSUME NEW h \in Hooks, AddWebhook(p, h) PROVE CountInv'
    <2>1. PICK l : Became(p, l) /\ Saves(l, "webhooks")
      BY <1>6, AddWebhookLocal
    <2>2. LocalCovered(l)
      BY <2>1, QuietCovered DEF Saves
    <2> QED BY <1>0, <1>6, <2>1, <2>2, CoveredQuietly DEF AddWebhook
  <1>7. ASSUME NEW name \in Names, NEW payload \in Payloads, Receive(p, name, payload) PROVE CountInv'
    <2>1. PICK l : Became(p, l) /\ l.pc = "received"
      BY <1>7, ReceiveLocal
    <2>2. LocalCovered(l)
      BY <2>1, QuietCovered DEF Saves
    <2> QED BY <1>0, <1>7, <2>1, <2>2, CoveredQuietly DEF Receive
  <1> QED BY <1>1, <1>2, <1>3, <1>4, <1>5, <1>6, <1>7, CommandCases


(* A callback adds to the runs of its job, and takes from none.            *)
LEMMA RanGrows ==
    ASSUME TypeOK, NEW j \in 1 .. MaxCalls, NEW t \in Times, ran' = [ran EXCEPT ![j][t] = @ + 1]
    PROVE  /\ \A i \in 1 .. MaxCalls : \A u \in Times : ran[i][u] <= ran'[i][u]
           /\ Runs(j) \in Nat /\ Runs(j)' \in Nat /\ Runs(j) + 1 <= Runs(j)'
  <1>1. \A i \in 1 .. MaxCalls : \A u \in Times : ran[i][u] \in Nat
    <2>1. ran \in [1 .. MaxCalls -> [Times -> Nat]]
      BY DEF TypeOK, Times
    <2> QED BY <2>1
  <1>2. /\ ran'[j][t] = ran[j][t] + 1
        /\ \A i \in 1 .. MaxCalls, u \in Times : i # j \/ u # t => ran'[i][u] = ran[i][u]
    <2>1. ran' = [ran EXCEPT ![j][t] = @ + 1]
      OBVIOUS
    <2> QED BY <2>1, RanType
  <1>3. \A i \in 1 .. MaxCalls : \A u \in Times : ran[i][u] <= ran'[i][u]
    <2> TAKE i \in 1 .. MaxCalls
    <2> TAKE u \in Times
    <2>1. PICK a, b : a = ran[i][u] /\ b = ran'[i][u] /\ a \in Nat
      BY <1>1
    <2>2. b = a \/ b = a + 1
      BY <1>2, <2>1
    <2>3. a <= b
      BY <2>1, <2>2
    <2> QED BY <2>1, <2>3
  <1>4. PICK f, g : f = ran[j] /\ g = ran'[j] /\ f \in [Times -> Nat] /\ g \in [Times -> Nat]
    <2>1. ran' \in [1 .. MaxCalls -> [Times -> Nat]]
      BY RanType DEF Times
    <2>2. ran \in [1 .. MaxCalls -> [Times -> Nat]]
      BY DEF TypeOK, Times
    <2> QED BY <2>1, <2>2
  <1>5. (\A u \in Times : f[u] <= g[u]) /\ f[t] < g[t]
    <2>1. g[t] = f[t] + 1 /\ f[t] \in Nat
      BY <1>2, <1>4
    <2>2. \A u \in Times : f[u] <= g[u]
      BY <1>3, <1>4
    <2> QED BY <2>1, <2>2
  <1>6. Sum(f) \in Nat /\ Sum(g) \in Nat /\ Sum(f) + 1 <= Sum(g)
    BY <1>4, <1>5, SumGrows
  <1> QED BY <1>3, <1>4, <1>6 DEF Runs

LEMMA JobRunsCovered ==
    ASSUME TypeOK, TypeOK', CountInv, NEW p \in Procs, JobRuns(p)
    PROVE  CountInv'
  <1>1. PICK l, k : Became(p, l) /\ l.pc = "jobs" /\ RunsEntry(p, k, l)
    BY JobRunsLocal
  <1>2. PICK m, j, t : m = loc[p].doc /\ j = m[k].id /\ t = loc[p].now
    OBVIOUS
  <1>3. m \in Seq(Job) /\ j \in 1 .. MaxCalls /\ t \in Times /\ k \in DOMAIN m
    BY <1>1, <1>2, DueEntry DEF JobRuns, RunsEntry
  <1>4. ran' = [ran EXCEPT ![j][t] = @ + 1] /\ UNCHANGED <<file, queued>>
    BY <1>1, <1>2 DEF RunsEntry, JobRuns
  <1>5. /\ \A i \in 1 .. MaxCalls : \A u \in Times : ran[i][u] <= ran'[i][u]
        /\ Runs(j) \in Nat /\ Runs(j)' \in Nat /\ Runs(j) + 1 <= Runs(j)'
    BY <1>3, <1>4, RanGrows
  <1>6. \A g \in 1 .. MaxCalls : queued[g] <= queued'[g]
    <2>1. (\A g \in 1 .. MaxCalls : queued[g] \in Nat) /\ queued' = queued
      BY <1>4 DEF TypeOK
    <2>2. \A n \in Nat : n <= n
      OBVIOUS
    <2> QED BY <2>1, <2>2
  <1>7. FilesCovered'
    BY <1>4, <1>5, <1>6, FilesStill DEF CountInv
  <1>8. JobsCovered(m) /\ JobsCovered(m)'
    <2>1. JobsCovered(m)
      BY <1>2 DEF CountInv, LocalCovered, JobRuns
    <2> QED BY <1>3, <1>5, <1>6, <2>1, CoveredStill
  <1>9. JobsCovered(l.doc)'
    <2>1. PICK d : d = l.doc
      OBVIOUS
    <2>2. d \in Seq(Job) /\ DOMAIN d = DOMAIN m /\ (\A h \in DOMAIN m \ {k} : d[h] = m[h])
          /\ d[k].id = j /\ d[k].count = m[k].count + 1
      BY <1>1, <1>2, <2>1 DEF RunsEntry
    <2>3. m[k].count <= Runs(j) /\ m[k].count \in Nat
      <3>1. m[k].count <= Runs(m[k].id)
        BY <1>3, <1>8 DEF JobsCovered
      <3>2. m[k] \in Job
        BY <1>3, ElementOfSeq, LenProperties
      <3> QED BY <1>2, <3>1, <3>2 DEF Job
    <2>4. d[k].count <= Runs(j)'
      BY <1>5, <2>2, <2>3
    <2>5. \A h \in DOMAIN m : m[h].count <= Runs(m[h].id)'
      BY <1>8 DEF JobsCovered
    <2>6. \A h \in DOMAIN d : d[h].count <= Runs(d[h].id)'
      <3> TAKE h \in DOMAIN d
      <3>1. CASE h = k
        BY <2>2, <2>4, <3>1
      <3>2. CASE h # k
        BY <2>2, <2>5, <3>2
      <3> QED BY <3>1, <3>2
    <2> QED BY <2>1, <2>6 DEF JobsCovered
  <1>10. LocalCovered(l)'
    BY <1>1, <1>9 DEF LocalCovered, Saves
  <1> QED BY <1>1, <1>5, <1>6, <1>7, <1>10, CoveredStep

LEMMA JobRaisesCovered ==
    ASSUME TypeOK, TypeOK', CountInv, NEW p \in Procs, JobRaises(p)
    PROVE  CountInv'
  <1>1. PICK l : /\ Became(p, l) /\ (l = Idle \/ l.pc = "stop")
                 /\ \E k \in DOMAIN loc[p].doc :
                        ran' = [ran EXCEPT ![loc[p].doc[k].id][loc[p].now] = @ + 1]
    BY JobRaisesLocal
  <1>2. PICK k \in DOMAIN loc[p].doc : ran' = [ran EXCEPT ![loc[p].doc[k].id][loc[p].now] = @ + 1]
    BY <1>1
  <1>3. loc[p].doc[k].id \in 1 .. MaxCalls /\ loc[p].now \in Times
    BY <1>2, DueEntry DEF JobRaises
  <1>4. \A i \in 1 .. MaxCalls : \A u \in Times : ran[i][u] <= ran'[i][u]
    BY <1>2, <1>3, RanGrows
  <1>5. UNCHANGED <<file, queued>> /\ \A g \in 1 .. MaxCalls : queued[g] <= queued'[g]
    BY DEF JobRaises, TypeOK
  <1>6. FilesCovered'
    BY <1>4, <1>5, FilesStill DEF CountInv
  <1>7. LocalCovered(l)'
    BY <1>1, IdleOk, QuietCovered DEF Saves
  <1> QED BY <1>1, <1>4, <1>5, <1>6, <1>7, CoveredStep

LEMMA EnqueueCovered ==
    ASSUME TypeOK, TypeOK', CountInv, NEW p \in Procs, Enqueue(p)
    PROVE  CountInv'
  <1>1. PICK l, k : Became(p, l) /\ Saves(l, "queue") /\ QueuesEntry(p, k, l)
    BY EnqueueLocal
  <1>2. PICK m, d : m = loc[p].doc /\ d = l.doc
    OBVIOUS
  <1>3. m \in Seq(Trigger) /\ loc[p].pc = "match"
    BY <1>2, EnqueueLocal
  <1>4. TriggersCovered(m, 0)
    BY <1>2, <1>3 DEF CountInv, LocalCovered
  <1>5. /\ DOMAIN d = DOMAIN m /\ k \in DOMAIN m /\ l.i = k /\ (\A h \in DOMAIN m \ {k} : d[h] = m[h])
        /\ d[k].id = m[k].id /\ d[k].count = m[k].count + 1
    BY <1>1, <1>2 DEF QueuesEntry, Same
  <1>6. \A h \in DOMAIN m : /\ m[h].count <= queued[m[h].id] /\ m[h].count \in Nat /\ queued[m[h].id] \in Nat
    <2> TAKE h \in DOMAIN m
    <2>1. m[h] \in Trigger /\ h # 0
      BY <1>3, ElementOfSeq, LenProperties
    <2>2. m[h].id \in 1 .. MaxCalls /\ m[h].count \in Nat
      BY <2>1 DEF Trigger
    <2>3. queued[m[h].id] \in Nat
      BY <2>2 DEF TypeOK
    <2>4. m[h].count <= queued[m[h].id] + 0
      BY <1>4, <2>1 DEF TriggersCovered
    <2> QED BY <2>2, <2>3, <2>4
  <1>7. TriggersCovered(d, k)
    <2>1. \A h \in DOMAIN d : d[h].count <= queued[d[h].id] + (IF h = k THEN 1 ELSE 0)
      <3> TAKE h \in DOMAIN d
      <3>1. CASE h = k
        BY <1>5, <1>6, <3>1
      <3>2. CASE h # k
        <4>1. d[h] = m[h] /\ h \in DOMAIN m
          BY <1>5, <3>2
        <4> QED BY <1>6, <3>2, <4>1
      <3> QED BY <3>1, <3>2
    <2> QED BY <2>1 DEF TriggersCovered
  <1>8. LocalCovered(l)
    BY <1>1, <1>2, <1>5, <1>7 DEF LocalCovered, Saves
  <1> QED BY <1>1, <1>8, CoveredQuietly DEF Enqueue, ghosts

LEMMA TruncateCovered ==
    ASSUME TypeOK, TypeOK', CountInv, NEW p \in Procs, Truncate(p)
    PROVE  CountInv'
  <1>1. PICK l : Became(p, l) /\ Moved(loc[p], l) /\ l.pc = "write"
    BY TruncateLocal
  <1>2. UNCHANGED <<ran, queued>> /\ loc[p].pc = "truncate" /\ loc[p].f \in Files /\ DOMAIN file = Files
    BY LocFacts DEF Truncate, ghosts, TypeOK, Locals
  <1>3. \A j \in 1 .. MaxCalls : \A t \in Times : ran[j][t] <= ran'[j][t]
    <2>1. \A j \in 1 .. MaxCalls : \A t \in Times : ran[j][t] \in Nat
      BY DEF TypeOK, Times
    <2>2. ran' = ran
      BY <1>2
    <2>3. \A n \in Nat : n <= n
      OBVIOUS
    <2> QED BY <2>1, <2>2, <2>3
  <1>4. \A g \in 1 .. MaxCalls : queued[g] <= queued'[g]
    BY <1>2 DEF TypeOK
  <1>5. \A f \in {"jobs", "triggers"} : Load(f)' = Load(f) \/ Load(f)' = <<>>
    BY <1>2 DEF Truncate, Load, Files
  <1>6. FilesCovered'
    BY <1>2, <1>5 DEF CountInv, FilesCovered, JobsCovered, TriggersCovered, Runs
  <1>7. LocalCovered(l)'
    <2>1. LocalCovered(l)
      BY <1>1, <1>2 DEF CountInv, LocalCovered, Moved, Saves
    <2> QED BY <1>2, <2>1 DEF LocalCovered, JobsCovered, TriggersCovered, Runs, Saves
  <1> QED BY <1>1, <1>3, <1>4, <1>6, <1>7, CoveredStep

LEMMA WriteCovered ==
    ASSUME TypeOK, TypeOK', CountInv, NEW p \in Procs, Write(p)
    PROVE  CountInv'
  <1>1. PICK m : m = loc[p]
    OBVIOUS
  <1>2. PICK l : Became(p, l) /\ Moved(m, l) /\ l.pc = m.then
    BY <1>1, WriteLocal
  <1>3. /\ m \in Locals /\ LocalOk(m) /\ m.pc = "write" /\ m.f \in Files /\ ran' = ran
        /\ file'[m.f] = m.v /\ \A f \in Files \ {m.f} : file'[f] = file[f]
    BY <1>1, WriteFacts DEF Write
  <1>4. LocalCovered(m)
    BY <1>1 DEF CountInv
  <1>5. \A j \in 1 .. MaxCalls : \A t \in Times : ran[j][t] <= ran'[j][t]
    <2>1. \A j \in 1 .. MaxCalls : \A t \in Times : ran[j][t] \in Nat
      BY DEF TypeOK, Times
    <2>2. \A n \in Nat : n <= n
      OBVIOUS
    <2> QED BY <1>3, <2>1, <2>2
  <1>6. /\ \A g \in 1 .. MaxCalls : queued[g] \in Nat /\ queued'[g] \in Nat
        /\ \A g \in 1 .. MaxCalls : queued'[g] = queued[g] \/ queued'[g] = queued[g] + 1
        /\ m.f = "queue" => /\ m.i \in DOMAIN m.doc /\ m.doc[m.i].id \in 1 .. MaxCalls
                            /\ queued'[m.doc[m.i].id] = queued[m.doc[m.i].id] + 1
    <2>1. queued \in [1 .. MaxCalls -> Nat] /\ queued' \in [1 .. MaxCalls -> Nat]
      BY DEF TypeOK
    <2>2. /\ m.f # "queue" => queued' = queued
          /\ m.f = "queue" => /\ m.i \in DOMAIN m.doc /\ m.doc[m.i].id \in 1 .. MaxCalls
                              /\ queued' = [queued EXCEPT ![m.doc[m.i].id] = @ + 1]
      BY <1>1, WriteFacts
    <2> QED BY <2>1, <2>2
  <1>7. \A g \in 1 .. MaxCalls : queued[g] <= queued'[g]
    BY <1>6
  <1>8. PICK d, e, dd, ee : d = Load("jobs") /\ e = Load("triggers") /\ dd = Load("jobs")' /\ ee = Load("triggers")'
    OBVIOUS
  <1>9. JobsCovered(d)' /\ TriggersCovered(e, 0)'
    <2>1. d \in Seq(Job) /\ e \in Seq(Trigger) /\ 0 \in Nat
      BY <1>8, LoadType
    <2> QED BY <1>5, <1>7, <1>8, <2>1, CoveredStill DEF CountInv, FilesCovered
  <1>10. JobsCovered(<<>>)' /\ TriggersCovered(<<>>, 0)'
    BY DEF JobsCovered, TriggersCovered
  <1>11. JobsCovered(dd)'
    <2>1. CASE m.f = "jobs"
      <3>1. m.v \in Seq(Job) /\ JobsCovered(m.v)
        BY <1>3, <1>4, <2>1, DocFacts DEF LocalOk, LocalCovered, Saves
      <3>2. JobsCovered(m.v)'
        BY <1>5, <1>7, <3>1, CoveredStill
      <3>3. dd = m.v \/ dd = <<>>
        BY <1>3, <1>8, <2>1 DEF Load
      <3> QED BY <1>10, <3>2, <3>3
    <2>2. CASE m.f # "jobs"
      <3>1. dd = d
        BY <1>3, <1>8, <2>2 DEF Load, Files
      <3> QED BY <1>9, <3>1
    <2> QED BY <2>1, <2>2
  <1>12. TriggersCovered(ee, 0)'
    <2>1. CASE m.f = "triggers"
      <3>1. m.v \in Seq(Trigger) /\ TriggersCovered(m.v, 0) /\ 0 \in Nat
        BY <1>3, <1>4, <2>1, DocFacts DEF LocalOk, LocalCovered, Saves
      <3>2. TriggersCovered(m.v, 0)'
        BY <1>5, <1>7, <3>1, CoveredStill
      <3>3. ee = m.v \/ ee = <<>>
        BY <1>3, <1>8, <2>1 DEF Load
      <3> QED BY <1>10, <3>2, <3>3
    <2>2. CASE m.f # "triggers"
      <3>1. ee = e
        BY <1>3, <1>8, <2>2 DEF Load, Files
      <3> QED BY <1>9, <3>1
    <2> QED BY <2>1, <2>2
  <1>13. FilesCovered'
    BY <1>8, <1>11, <1>12 DEF FilesCovered, JobsCovered, TriggersCovered
  <1>14. LocalCovered(l)'
    <2>1. CASE m.f = "queue"
      <3>1. m.then = "match" /\ m.doc \in Seq(Trigger) /\ TriggersCovered(m.doc, m.i)
        BY <1>3, <1>4, <2>1 DEF LocalOk, LocalCovered, Saves
      <3>2. PICK doc, i : doc = m.doc /\ i = m.i
        OBVIOUS
      <3>3. \A k \in DOMAIN doc : doc[k].id \in 1 .. MaxCalls /\ doc[k].count \in Nat /\ k # 0
        <4>1. \A k \in DOMAIN doc : doc[k] \in Trigger /\ k # 0
          BY <3>1, <3>2, ElementOfSeq, LenProperties
        <4> QED BY <4>1 DEF Trigger
      <3>4. \A k \in DOMAIN doc : doc[k].count <= queued[doc[k].id] + (IF k = i THEN 1 ELSE 0)
        BY <3>1, <3>2 DEF TriggersCovered
      <3>5. \A k \in DOMAIN doc : doc[k].count <= queued'[doc[k].id] + 0
        <4> TAKE k \in DOMAIN doc
        <4>1. PICK g \in 1 .. MaxCalls : g = doc[k].id
          BY <3>3
        <4>2. CASE k = i
          <5>1. queued'[g] = queued[g] + 1
            BY <1>6, <2>1, <3>2, <4>1, <4>2
          <5>2. doc[k].count <= queued[g] + 1
            BY <3>4, <4>1, <4>2
          <5> QED BY <1>6, <4>1, <5>1, <5>2
        <4>3. CASE k # i
          <5>1. doc[k].count <= queued[g] + 0
            BY <3>4, <4>1, <4>3
          <5> QED BY <1>6, <1>7, <3>3, <4>1, <5>1
        <4> QED BY <4>2, <4>3
      <3>6. TriggersCovered(doc, 0)'
        BY <3>3, <3>5 DEF TriggersCovered
      <3>7. l.pc = "match" /\ l.doc = doc
        BY <1>2, <3>1, <3>2 DEF Moved
      <3>8. TriggersCovered(l.doc, 0)'
        BY <3>6, <3>7 DEF TriggersCovered
      <3> QED BY <3>7, <3>8 DEF LocalCovered, Saves
    <2>2. CASE m.f # "queue"
      <3>1. l.pc \notin {"jobs", "match", "truncate", "write"}
        BY <1>2, <1>3, <2>2 DEF LocalOk, Saves, Files, Nexts, Moved
      <3> QED BY <3>1, QuietCovered DEF Saves
    <2> QED BY <2>1, <2>2
  <1> QED BY <1>2, <1>5, <1>7, <1>13, <1>14, CoveredStep


LEMMA InitCount == Init => CountInv
  <1> SUFFICES ASSUME Init PROVE CountInv
    OBVIOUS
  <1>1. Load("jobs") = <<>> /\ Load("triggers") = <<>>
    <2>1. file["jobs"] = <<>> /\ file["triggers"] = <<>>
      BY DEF Init, Files
    <2> QED BY <2>1 DEF Load
  <1>2. FilesCovered
    BY <1>1 DEF FilesCovered, JobsCovered, TriggersCovered
  <1>3. \A p \in Procs : LocalCovered(loc[p])
    BY IdleOk, QuietCovered DEF Init, Saves
  <1> QED BY <1>2, <1>3 DEF CountInv

LEMMA CountStep == TypeOK /\ TypeOK' /\ CountInv /\ [Next]_vars => CountInv'
  <1> SUFFICES ASSUME TypeOK, TypeOK', CountInv, [Next]_vars PROVE CountInv'
    OBVIOUS
  <1>1. CASE UNCHANGED <<file, loc, ran, queued>>
    BY <1>1 DEF CountInv, FilesCovered, LocalCovered, JobsCovered, TriggersCovered, Load, Runs, Saves
  <1>2. ASSUME NEW p \in Procs,
               ScheduleCommand(p) \/ StartRunner(p) \/ TriggerCommand(p) \/ WebhookCommand(p) \/ DoPost(p)
        PROVE  CountInv'
    BY <1>2, CommandCovered
  <1>3. ASSUME NEW p \in Procs, HookTrigger(p) PROVE CountInv'
    <2>1. PICK l : Became(p, l) /\ Saves(l, "triggers") /\ Adds(l) /\ l.v = Append(Load("triggers"), l.arg)
      BY <1>3, HookTriggerLocal
    <2>2. l.arg \in Trigger /\ l.arg.id \in 1 .. MaxCalls /\ l.arg.count = 0
      BY <2>1 DEF Adds, Trigger
    <2>3. queued[l.arg.id] \in Nat
      BY <2>2 DEF TypeOK
    <2>4. Load("triggers") \in Seq(Trigger) /\ TriggersCovered(Load("triggers"), 0)
      BY LoadType DEF CountInv, FilesCovered
    <2>5. TriggersCovered(l.v, 0)
      BY <2>1, <2>2, <2>3, <2>4, AppendCovered
    <2>6. LocalCovered(l)
      BY <2>1, <2>5 DEF LocalCovered, Saves
    <2> QED BY <1>3, <2>1, <2>6, CoveredQuietly DEF HookTrigger, ghosts
  <1>4. ASSUME NEW p \in Procs, LoadDue(p) PROVE CountInv'
    <2>1. PICK l : Became(p, l) /\ l.pc = "jobs" /\ l.doc = Load("jobs")
      BY <1>4, LoadDueLocal
    <2>2. LocalCovered(l)
      BY <2>1 DEF LocalCovered, Saves, CountInv, FilesCovered
    <2> QED BY <1>4, <2>1, <2>2, CoveredQuietly DEF LoadDue, ghosts
  <1>5. ASSUME NEW p \in Procs, SaveDue(p) PROVE CountInv'
    <2>1. PICK l : Became(p, l) /\ Saves(l, "jobs") /\ l.v = loc[p].doc /\ loc[p].pc = "jobs"
      BY <1>5, SaveDueLocal
    <2>2. LocalCovered(l)
      BY <2>1 DEF LocalCovered, Saves, CountInv
    <2> QED BY <1>5, <2>1, <2>2, CoveredQuietly DEF SaveDue, ghosts
  <1>6. ASSUME NEW p \in Procs, SaveCounters(p) PROVE CountInv'
    <2>1. PICK l : Became(p, l) /\ Saves(l, "triggers") /\ l.v = loc[p].doc /\ loc[p].pc = "match"
      BY <1>6, SaveCountersLocal
    <2>2. LocalCovered(l)
      BY <2>1 DEF LocalCovered, Saves, CountInv
    <2> QED BY <1>6, <2>1, <2>2, CoveredQuietly DEF SaveCounters, ghosts
  <1>7. ASSUME NEW p \in Procs, RoundEnds(p) PROVE CountInv'
    <2>1. PICK l : Became(p, l) /\ Saves(l, "runner")
      BY <1>7, RoundEndsLocal
    <2>2. LocalCovered(l)
      BY <2>1, QuietCovered DEF Saves
    <2> QED BY <1>7, <2>1, <2>2, CoveredQuietly DEF RoundEnds, ghosts
  <1>8. ASSUME NEW p \in Procs, RunnerStops(p) PROVE CountInv'
    <2>1. PICK l : Became(p, l) /\ Saves(l, "runner")
      BY <1>8, RunnerStopsLocal
    <2>2. LocalCovered(l)
      BY <2>1, QuietCovered DEF Saves
    <2> QED BY <1>8, <2>1, <2>2, CoveredQuietly DEF RunnerStops, ghosts
  <1>9. ASSUME NEW p \in Procs, FindHook(p) PROVE CountInv'
    <2>1. PICK l : Became(p, l) /\ (l = Idle \/ (l.pc = "match" /\ l.doc = Load("triggers")))
      BY <1>9, FindHookLocal
    <2>2. LocalCovered(l)
      <3>1. CASE l = Idle
        BY <3>1, IdleOk, QuietCovered DEF Saves
      <3>2. CASE l.pc = "match" /\ l.doc = Load("triggers")
        BY <3>2 DEF LocalCovered, Saves, CountInv, FilesCovered
      <3> QED BY <2>1, <3>1, <3>2
    <2> QED BY <1>9, <2>1, <2>2, CoveredQuietly DEF FindHook, ghosts
  <1>10. ASSUME NEW p \in Procs, Answer(p) \/ Crash(p) PROVE CountInv'
    <2>1. Became(p, Idle)
      BY <1>10, EndLocal
    <2>2. LocalCovered(Idle)
      BY IdleOk, QuietCovered DEF Saves
    <2> QED BY <1>10, <2>1, <2>2, CoveredQuietly DEF Answer, Crash
  <1> QED BY <1>1, <1>2, <1>3, <1>4, <1>5, <1>6, <1>7, <1>8, <1>9, <1>10, JobRunsCovered, JobRaisesCovered,
             EnqueueCovered, TruncateCovered, WriteCovered
          DEF Next, Continue, NextMinute, vars, ghosts, faults

(* No counter on file runs ahead of the work it counts, whatever overlaps, *)
(* dies or raises: the callback comes before the count, and the item is    *)
(* saved before its trigger is.                                            *)
THEOREM CountersCovered == Spec => []CountersAreCovered
  <1>1. TypeOK /\ CountInv => CountersAreCovered
    <2> SUFFICES ASSUME TypeOK, CountInv PROVE CountersAreCovered
      OBVIOUS
    <2>1. JobsCovered(Load("jobs")) /\ TriggersCovered(Load("triggers"), 0)
      BY DEF CountInv, FilesCovered
    <2>2. ASSUME NEW k \in DOMAIN Load("triggers")
          PROVE  Load("triggers")[k].count <= queued[Load("triggers")[k].id]
      <3>1. PICK e : e = Load("triggers") /\ e \in Seq(Trigger)
        BY LoadType
      <3>2. e[k] \in Trigger /\ k # 0
        BY <2>2, <3>1, ElementOfSeq, LenProperties
      <3>3. queued[e[k].id] \in Nat
        BY <3>2 DEF Trigger, TypeOK
      <3>4. e[k].count <= queued[e[k].id] + 0
        BY <2>1, <2>2, <3>1, <3>2 DEF TriggersCovered
      <3> QED BY <3>1, <3>3, <3>4
    <2> QED BY <2>1, <2>2 DEF CountersAreCovered, JobsCovered
  <1> QED BY <1>1, InitCount, CountStep, ScheduleTypes, PTL DEF Spec



-----------------------------------------------------------------------------
(* Operations that take turns.                                             *)

(* A step is the clock's, or that of a process that was idle or goes on.   *)
LEMMA Movers ==
    ASSUME TypeOK, [Next]_vars
    PROVE  \/ UNCHANGED <<loc, overlaps>>
           \/ \E p \in Procs, l \in Locals : Became(p, l) /\ (Start(p) \/ (loc[p].pc # "idle" /\ overlaps' = overlaps))
  <1>1. CASE NextMinute \/ UNCHANGED vars
    BY <1>1 DEF NextMinute, vars, faults
  <1>2. ASSUME NEW p \in Procs,
               ScheduleCommand(p) \/ StartRunner(p) \/ TriggerCommand(p) \/ WebhookCommand(p) \/ DoPost(p)
        PROVE  Start(p) /\ \E l : Became(p, l)
    <2>1. Start(p)
      BY <1>2, CommandCases DEF RunDue, StartRunner, AddJob, AddTrigger, Emit, AddWebhook, Receive
    <2>2. \E l : Became(p, l)
      BY <1>2, CommandCases, RunDueLocal, StartRunnerLocal, AddJobLocal, AddTriggerLocal, EmitLocal, AddWebhookLocal,
         ReceiveLocal
    <2> QED BY <2>1, <2>2
  <1>3. ASSUME NEW p \in Procs, Continue(p) \/ Crash(p) PROVE loc[p].pc # "idle" /\ overlaps' = overlaps
    BY <1>3 DEF Continue, Crash, HookTrigger, LoadDue, JobRuns, JobRaises, SaveDue, RoundEnds, RunnerStops, FindHook,
                Enqueue, SaveCounters, Truncate, Write, Answer, faults
  <1>4. ASSUME NEW p \in Procs, Continue(p) \/ Crash(p) PROVE \E l : Became(p, l)
    BY <1>4, HookTriggerLocal, LoadDueLocal, JobRunsLocal, JobRaisesLocal, SaveDueLocal, RoundEndsLocal,
       RunnerStopsLocal, FindHookLocal, EnqueueLocal, SaveCountersLocal, TruncateLocal, WriteLocal, EndLocal
    DEF Continue
  <1>5. \A p \in Procs : \A l : Became(p, l) => l \in Locals
    BY DEF Became
  <1> QED BY <1>1, <1>2, <1>3, <1>4, <1>5 DEF Next

(* When no call ever began beside another, a process that moves is alone.  *)
LEMMA Alone ==
    ASSUME TypeOK, InTurn, NEW p \in Procs, overlaps' = 0, Start(p) \/ (loc[p].pc # "idle" /\ overlaps' = overlaps)
    PROVE  overlaps = 0 /\ \A q \in Procs \ {p} : loc[q].pc = "idle"
  <1>1. CASE Start(p)
    <2>1. AllIdle /\ overlaps' \in {overlaps, overlaps + 1} /\ overlaps \in Nat
      BY <1>1, StartFacts DEF TypeOK
    <2> QED BY <2>1 DEF AllIdle
  <1>2. CASE loc[p].pc # "idle" /\ overlaps' = overlaps
    BY <1>2 DEF InTurn, Busy
  <1> QED BY <1>1, <1>2

LEMMA TurnStep == TypeOK /\ InTurn /\ [Next]_vars => InTurn'
  <1> SUFFICES ASSUME TypeOK, InTurn, [Next]_vars, overlaps' = 0 PROVE \A p, q \in Busy' : p = q
    BY DEF InTurn
  <1>1. CASE UNCHANGED <<loc, overlaps>>
    BY <1>1 DEF InTurn, Busy
  <1>2. ASSUME NEW p \in Procs, NEW l \in Locals, Became(p, l), Start(p) \/ (loc[p].pc # "idle" /\ overlaps' = overlaps)
        PROVE  \A a, b \in Busy' : a = b
    <2>1. \A q \in Procs \ {p} : loc[q].pc = "idle"
      BY <1>2, Alone
    <2>2. \A q \in Procs \ {p} : loc'[q] = loc[q]
      BY <1>2, LocStep DEF Became
    <2>3. Busy' \subseteq {p}
      BY <2>1, <2>2 DEF Busy
    <2> QED BY <2>3
  <1> QED BY <1>1, <1>2, Movers

LEMMA TakesTurns == Spec => []InTurn
  <1>1. Init => InTurn
    BY IdleOk DEF Init, InTurn, Busy
  <1> QED BY <1>1, TurnStep, ScheduleTypes, PTL DEF Spec



-----------------------------------------------------------------------------
(* A job runs once in a minute.                                            *)

(* Entries of a document of jobs.                                          *)
LEMMA JobEntry ==
    ASSUME NEW d \in Seq(Job), NEW k \in DOMAIN d
    PROVE  /\ d[k].id \in 1 .. MaxCalls /\ (d[k].last = None \/ d[k].last \in Nat) /\ k \in Nat
  <1>1. d[k] \in Job /\ k \in Nat
    BY ElementOfSeq, LenProperties
  <1> QED BY <1>1 DEF Job

(* What a document says of the jobs stays right as time passes and faults  *)
(* are counted, while nothing runs.                                        *)
LEMMA ProperStill ==
    ASSUME TypeOK, NEW d \in Seq(Job), NEW n \in Nat, NEW m \in Nat, n <= m, made' \in Nat, made <= made', Proper(d, n)
    PROVE  Proper(d, m)'
  <1>1. \A k \in DOMAIN d : d[k].id \in Nat /\ (d[k].last = None \/ d[k].last \in Nat)
    BY JobEntry
  <1>2. made \in Nat
    BY DEF TypeOK
  <1> QED BY <1>1, <1>2 DEF Proper

LEMMA UnrunStill ==
    ASSUME TypeOK, NEW d \in Seq(Job), NEW n \in Nat, NEW m \in Nat, n <= m, UNCHANGED ran,
           crashes' \in Nat, raises' \in Nat, crashes + raises <= crashes' + raises', Unrun(d, n)
    PROVE  Unrun(d, m)'
  <1> SUFFICES ASSUME NEW k \in DOMAIN d, NEW t \in m .. MaxTime, d[k].last # t
               PROVE  ran[d[k].id][t] <= crashes' + raises'
    BY DEF Unrun
  <1>1. t \in n .. MaxTime /\ t \in Times
    BY ScheduleAssumption DEF Times
  <1>2. PICK a : a = ran[d[k].id][t]
    OBVIOUS
  <1>3. a <= crashes + raises
    BY <1>1, <1>2 DEF Unrun
  <1>4. d[k].id \in 1 .. MaxCalls
    BY JobEntry
  <1>5. a \in Nat /\ crashes \in Nat /\ raises \in Nat
    <2>1. ran \in [1 .. MaxCalls -> [Times -> Nat]]
      BY DEF TypeOK, Times
    <2>2. crashes \in Nat /\ raises \in Nat
      BY DEF TypeOK
    <2> QED BY <1>1, <1>2, <1>4, <2>1, <2>2
  <1>6. a <= crashes' + raises'
    BY <1>3, <1>5
  <1> QED BY <1>2, <1>6

LEMMA IdleOnce ==
    ASSUME NEW l, ~Round(l)
    PROVE  LocalOnce(l) /\ LocalOnce(l)'
  BY DEF Round, LocalOnce, Saves

(* A step of one process while the others are idle.                        *)
LEMMA OnceMove ==
    ASSUME TypeOK, NEW p \in Procs, NEW l, Became(p, l), \A q \in Procs \ {p} : loc[q].pc = "idle",
           RanBound', Proper(Load("jobs"), time)', LocalOnce(l)', ~Round(l) => Unrun(Load("jobs"), time)'
    PROVE  OnceInv'
  <1>1. loc'[p] = l /\ \A q \in Procs \ {p} : loc'[q] = loc[q]
    BY LocStep DEF Became
  <1>2. LocalOnce(loc[p])'
    BY <1>1 DEF LocalOnce, Proper, Unrun, Saves
  <1>3. ASSUME NEW q \in Procs \ {p} PROVE LocalOnce(loc[q])'
    <2>1. loc'[q].pc = "idle"
      BY <1>1
    <2> QED BY <2>1 DEF LocalOnce, Saves
  <1>4. (\A q \in Procs : ~Round(loc[q])') => ~Round(l)
    BY <1>1 DEF Round, Saves
  <1> QED BY <1>2, <1>3, <1>4 DEF OnceInv

(* Of all that OnceInv says of the file, before the step of a process that *)
(* is not in the middle of a round.                                        *)
LEMMA BeforeRound ==
    ASSUME OnceInv, overlaps = 0, NEW p \in Procs, \A q \in Procs \ {p} : loc[q].pc = "idle", ~Round(loc[p])
    PROVE  Proper(Load("jobs"), time) /\ Unrun(Load("jobs"), time) /\ RanBound
  <1>1. \A q \in Procs : ~Round(loc[q])
    BY DEF Round, Saves
  <1> QED BY <1>1 DEF OnceInv

(* Faults and time only add up.                                            *)
LEMMA RanBoundStill ==
    ASSUME TypeOK, RanBound, UNCHANGED ran, crashes' \in Nat, raises' \in Nat, crashes + raises <= crashes' + raises',
           made' \in Nat, made <= made'
    PROVE  RanBound'
  <1> SUFFICES ASSUME NEW j \in 1 .. MaxCalls, NEW t \in Times
               PROVE  ran[j][t] <= 1 + crashes' + raises' /\ (j > made' => ran[j][t] = 0)
    BY DEF RanBound
  <1>1. PICK a : a = ran[j][t]
    OBVIOUS
  <1>2. a <= 1 + crashes + raises /\ (j > made => a = 0)
    BY <1>1 DEF RanBound
  <1>3. a \in Nat
    <2>1. ran \in [1 .. MaxCalls -> [Times -> Nat]]
      BY DEF TypeOK, Times
    <2> QED BY <1>1, <2>1
  <1>4. crashes \in Nat /\ raises \in Nat /\ made \in Nat
    BY DEF TypeOK
  <1>5. j > made' => j > made
    BY <1>4
  <1>6. a <= 1 + crashes' + raises'
    <2>1. PICK u, v, x, y : u = crashes /\ v = raises /\ x = crashes' /\ y = raises'
      OBVIOUS
    <2>2. u \in Nat /\ v \in Nat /\ x \in Nat /\ y \in Nat /\ u + v <= x + y /\ a <= 1 + u + v
      BY <1>2, <1>4, <2>1
    <2>3. a <= 1 + x + y
      BY <1>3, <2>2
    <2> QED BY <2>1, <2>3
  <1> QED BY <1>1, <1>2, <1>5, <1>6


LEMMA EmptyProper == \A n : Proper(<<>>, n) /\ Unrun(<<>>, n) /\ Proper(<<>>, n)' /\ Unrun(<<>>, n)'
  BY DEF Proper, Unrun

(* A step outside the rounds, which calls nothing and leaves the jobs on   *)
(* file as they are.                                                       *)
LEMMA OnceQuietly ==
    ASSUME TypeOK, TypeOK', OnceInv, overlaps = 0, NEW p \in Procs, NEW l, Became(p, l),
           \A q \in Procs \ {p} : loc[q].pc = "idle", ~Round(loc[p]), ~Round(l),
           UNCHANGED <<time, ran, crashes, raises>>, Load("jobs")' \in {Load("jobs"), <<>>}, made <= made'
    PROVE  OnceInv'
  <1>1. PICK d, e, n : d = Load("jobs") /\ e = Load("jobs")' /\ n = time
    OBVIOUS
  <1>2. d \in Seq(Job) /\ n \in Nat /\ made' \in Nat /\ crashes' \in Nat /\ raises' \in Nat /\ n = time'
    <2>1. d \in Seq(Job)
      BY <1>1, LoadType
    <2>2. time \in Nat
      BY DEF TypeOK
    <2>3. made' \in Nat /\ crashes' \in Nat /\ raises' \in Nat
      BY DEF TypeOK
    <2> QED BY <1>1, <2>1, <2>2, <2>3
  <1>3. crashes + raises <= crashes' + raises'
    <2>1. crashes \in Nat /\ raises \in Nat
      BY DEF TypeOK
    <2> QED BY <2>1
  <1>4. Proper(d, n) /\ Unrun(d, n) /\ RanBound
    BY <1>1, BeforeRound
  <1>5. Proper(d, n)' /\ Unrun(d, n)'
    <2>1. n <= n
      BY <1>2
    <2> QED BY <1>2, <1>3, <1>4, <2>1, ProperStill, UnrunStill
  <1>6. RanBound'
    BY <1>2, <1>3, <1>4, RanBoundStill
  <1>7. Proper(e, n)' /\ Unrun(e, n)'
    BY <1>1, <1>5, EmptyProper
  <1>8. Proper(Load("jobs"), time)' /\ Unrun(Load("jobs"), time)'
    BY <1>1, <1>2, <1>7 DEF Proper, Unrun
  <1> QED BY <1>6, <1>8, IdleOnce, OnceMove

(* A round that raises or dies: what its jobs ran is excused.              *)
LEMMA OnceFault ==
    ASSUME TypeOK, TypeOK', OnceInv, overlaps = 0, NEW p \in Procs, NEW l, Became(p, l),
           \A q \in Procs \ {p} : loc[q].pc = "idle", ~Round(l), UNCHANGED <<time, file, made>>,
           \A j \in 1 .. MaxCalls : \A t \in Times :
               ran'[j][t] <= crashes' + raises' /\ (j > made => ran'[j][t] = 0)
    PROVE  OnceInv'
  <1>1. PICK d, n : d = Load("jobs") /\ d = Load("jobs")' /\ n = time /\ n = time'
    BY DEF Load
  <1>2. d \in Seq(Job) /\ n \in Nat /\ Proper(d, n)
    BY <1>1, LoadType DEF TypeOK, OnceInv
  <1>3. crashes' \in Nat /\ raises' \in Nat /\ \A j \in 1 .. MaxCalls : \A t \in Times : ran'[j][t] \in Nat
    <2>1. ran' \in [1 .. MaxCalls -> [Times -> Nat]]
      BY DEF TypeOK, Times
    <2> QED BY <2>1 DEF TypeOK
  <1>4. RanBound'
    <2> SUFFICES ASSUME NEW j \in 1 .. MaxCalls, NEW t \in Times
                 PROVE  ran'[j][t] <= 1 + crashes' + raises' /\ (j > made' => ran'[j][t] = 0)
      BY DEF RanBound
    <2>1. PICK a, x, y : a = ran'[j][t] /\ x = crashes' /\ y = raises'
      OBVIOUS
    <2>2. a <= x + y /\ a \in Nat /\ x \in Nat /\ y \in Nat
      BY <1>3, <2>1
    <2>3. a <= 1 + x + y
      BY <2>2
    <2> QED BY <2>1, <2>3
  <1>5. Proper(d, n)'
    <2>1. made' \in Nat /\ made <= made' /\ n <= n
      BY <1>2 DEF TypeOK
    <2> QED BY <1>2, <2>1, ProperStill
  <1>6. Unrun(d, n)'
    <2> SUFFICES ASSUME NEW k \in DOMAIN d, NEW t \in n .. MaxTime
                 PROVE  ran'[d[k].id][t] <= crashes' + raises'
      BY DEF Unrun
    <2>1. t \in Times /\ d[k].id \in 1 .. MaxCalls
      BY <1>2, JobEntry, ScheduleAssumption DEF Times
    <2> QED BY <2>1
  <1>7. Proper(Load("jobs"), time)' /\ Unrun(Load("jobs"), time)'
    BY <1>1, <1>5, <1>6 DEF Proper, Unrun
  <1> QED BY <1>4, <1>7, IdleOnce, OnceMove


(* A new job is no other's, and has not run.                               *)
LEMMA AppendOnce ==
    ASSUME TypeOK, TypeOK', NEW d \in Seq(Job), NEW n \in Nat, NEW j \in Job, j.id = made', made' = made + 1,
           j.last = None, Proper(d, n), Unrun(d, n), RanBound, UNCHANGED <<ran, crashes, raises>>
    PROVE  Proper(Append(d, j), n)' /\ Unrun(Append(d, j), n)'
  <1>1. PICK e, b : e = Append(d, j) /\ b = crashes + raises
    OBVIOUS
  <1>2. /\ \A k \in DOMAIN e : (k \in DOMAIN d /\ e[k] = d[k]) \/ (k = Len(d) + 1 /\ e[k] = j)
        /\ \A k \in DOMAIN d : d[k].id \in 1 .. MaxCalls
    BY <1>1, AppendProperties, LenProperties, JobEntry
  <1>3. made \in Nat /\ made' \in 1 .. MaxCalls /\ b \in Nat /\ b = crashes' + raises'
    <2>1. made \in Nat /\ j.id \in 1 .. MaxCalls
      BY DEF TypeOK, Job
    <2>2. crashes \in Nat /\ raises \in Nat
      BY DEF TypeOK
    <2>3. b \in Nat
      BY <1>1, <2>2
    <2> QED BY <1>1, <2>1, <2>3
  <1>4. \A k \in DOMAIN d : d[k].id <= made /\ (d[k].last = None \/ d[k].last <= n)
    BY DEF Proper
  <1>5. \A k \in DOMAIN d : d[k].id # j.id /\ d[k].id <= made'
    BY <1>2, <1>3, <1>4
  <1>6. \A k, h \in DOMAIN e : e[k].id = e[h].id => k = h
    <2> TAKE k, h \in DOMAIN e
    <2>1. CASE k \in DOMAIN d /\ h \in DOMAIN d /\ e[k] = d[k] /\ e[h] = d[h]
      BY <2>1 DEF Proper
    <2>2. CASE e[k] = j \/ e[h] = j
      BY <1>2, <1>5, <2>2
    <2> QED BY <1>2, <2>1, <2>2
  <1>7. \A k \in DOMAIN e : e[k].id <= made' /\ (e[k].last = None \/ e[k].last <= n)
    <2> TAKE k \in DOMAIN e
    <2>1. CASE e[k] = j
      BY <1>3, <2>1
    <2>2. CASE k \in DOMAIN d /\ e[k] = d[k]
      BY <1>4, <1>5, <2>2
    <2> QED BY <1>2, <2>1, <2>2
  <1>8. \A k \in DOMAIN e : \A t \in n .. MaxTime : e[k].last # t => ran'[e[k].id][t] <= crashes' + raises'
    <2> TAKE k \in DOMAIN e
    <2> TAKE t \in n .. MaxTime
    <2> SUFFICES ASSUME e[k].last # t PROVE ran[e[k].id][t] <= b
      BY <1>3
    <2>1. CASE e[k] = j
      <3>1. t \in Times /\ j.id \in 1 .. MaxCalls /\ j.id > made
        BY <1>3, ScheduleAssumption DEF Times
      <3>2. ran[j.id][t] = 0
        BY <3>1 DEF RanBound
      <3> QED BY <1>3, <2>1, <3>2
    <2>2. CASE k \in DOMAIN d /\ e[k] = d[k]
      BY <1>1, <2>2 DEF Unrun
    <2> QED BY <1>2, <2>1, <2>2
  <1> QED BY <1>1, <1>6, <1>7, <1>8 DEF Proper, Unrun

LEMMA CommandOnce ==
    ASSUME TypeOK, TypeOK', InTurn, OnceInv, overlaps' = 0, NEW p \in Procs,
           ScheduleCommand(p) \/ StartRunner(p) \/ TriggerCommand(p) \/ WebhookCommand(p) \/ DoPost(p)
    PROVE  OnceInv'
  <1>1. Start(p)
    BY CommandCases DEF RunDue, StartRunner, AddJob, AddTrigger, Emit, AddWebhook, Receive
  <1>2. overlaps = 0 /\ \A q \in Procs \ {p} : loc[q].pc = "idle"
    BY <1>1, Alone
  <1>3. UNCHANGED <<time, ran, crashes, raises, file>> /\ made' = made + 1 /\ loc[p].pc = "idle"
    BY <1>1, StartFacts
  <1>4. ~Round(loc[p]) /\ made \in Nat /\ made <= made'
    <2>1. made \in Nat
      BY DEF TypeOK
    <2>2. made <= made'
      BY <1>3, <2>1
    <2> QED BY <1>3, <2>1, <2>2 DEF Round, Saves
  <1>5. Load("jobs")' = Load("jobs")
    BY <1>3 DEF Load
  <1>6. ASSUME NEW l, Became(p, l), ~Round(l) PROVE OnceInv'
    BY <1>2, <1>3, <1>4, <1>5, <1>6, OnceQuietly
  <1>7. ASSUME NEW cron \in Crons, AddJob(p, cron) PROVE OnceInv'
    <2>1. PICK l, j : /\ Became(p, l) /\ Saves(l, "jobs") /\ j \in Job /\ l.v = Append(Load("jobs"), j)
                      /\ j.id = made' /\ j.last = None
      BY <1>7, AddJobLocal
    <2>2. PICK d, n : d = Load("jobs") /\ n = time
      OBVIOUS
    <2>3. d \in Seq(Job) /\ n \in Nat /\ Proper(d, n) /\ Unrun(d, n) /\ RanBound
      BY <1>2, <1>4, <2>2, LoadType, BeforeRound DEF TypeOK
    <2>4. PICK e : e = Append(d, j)
      OBVIOUS
    <2>5. Proper(e, n)' /\ Unrun(e, n)'
      <3>1. Proper(Append(d, j), n)' /\ Unrun(Append(d, j), n)'
        BY <1>3, <2>1, <2>3, AppendOnce
      <3> QED BY <2>4, <3>1 DEF Proper, Unrun
    <2>6. l.v = e /\ n = time'
      BY <1>3, <2>1, <2>2, <2>4
    <2>7. LocalOnce(l)' /\ Round(l)
      BY <2>1, <2>5, <2>6 DEF LocalOnce, Saves, Proper, Unrun, Round
    <2>8. made' \in Nat /\ crashes' \in Nat /\ raises' \in Nat /\ crashes + raises <= crashes' + raises'
      <3>1. made' \in Nat /\ crashes' \in Nat /\ raises' \in Nat
        BY DEF TypeOK
      <3> QED BY <1>3, <3>1
    <2>9. RanBound'
      BY <1>3, <1>4, <2>3, <2>8, RanBoundStill
    <2>10. Proper(d, n)'
      <3>1. n <= n
        BY <2>3
      <3> QED BY <1>4, <2>3, <2>8, <3>1, ProperStill
    <2>11. Proper(Load("jobs"), time)'
      BY <1>3, <1>5, <2>2, <2>10 DEF Proper
    <2> QED BY <1>2, <2>1, <2>7, <2>9, <2>11, OnceMove
  <1>8. CASE RunDue(p) \/ StartRunner(p)
    <2>1. \E l : Became(p, l) /\ ~Round(l)
      BY <1>8, RunDueLocal, StartRunnerLocal DEF Round, Saves
    <2> QED BY <1>6, <2>1
  <1>9. ASSUME NEW g \in Triggers, AddTrigger(p, g) PROVE OnceInv'
    <2>1. \E l : Became(p, l) /\ ~Round(l)
      BY <1>9, AddTriggerLocal DEF Round, Saves
    <2> QED BY <1>6, <2>1
  <1>10. ASSUME NEW event \in Events, NEW payload \in Payloads, Emit(p, event, payload) PROVE OnceInv'
    <2>1. \E l : Became(p, l) /\ ~Round(l)
      BY <1>10, EmitLocal DEF Round, Saves
    <2> QED BY <1>6, <2>1
  <1>11. ASSUME NEW h \in Hooks, AddWebhook(p, h) PROVE OnceInv'
    <2>1. \E l : Became(p, l) /\ ~Round(l)
      BY <1>11, AddWebhookLocal DEF Round, Saves
    <2> QED BY <1>6, <2>1
  <1>12. ASSUME NEW name \in Names, NEW payload \in Payloads, Receive(p, name, payload) PROVE OnceInv'
    <2>1. \E l : Became(p, l) /\ ~Round(l)
      BY <1>12, ReceiveLocal DEF Round, Saves
    <2> QED BY <1>6, <2>1
  <1> QED BY <1>7, <1>8, <1>9, <1>10, <1>11, <1>12, CommandCases


(* A process in the middle of something is alone, and nothing is counted.  *)
LEMMA GoesOn ==
    ASSUME TypeOK, InTurn, overlaps' = 0, NEW p \in Procs, Continue(p) \/ Crash(p)
    PROVE  overlaps = 0 /\ \A q \in Procs \ {p} : loc[q].pc = "idle"
  <1>1. loc[p].pc # "idle" /\ overlaps' = overlaps
    BY DEF Continue, Crash, HookTrigger, LoadDue, JobRuns, JobRaises, SaveDue, RoundEnds, RunnerStops, FindHook,
           Enqueue, SaveCounters, Truncate, Write, Answer, faults
  <1> QED BY <1>1, Alone

(* What a callback adds, in a minute its job had not run in but for rounds *)
(* that raised or died.                                                    *)
LEMMA RunsOnce ==
    ASSUME TypeOK, TypeOK', NEW d \in Seq(Job), NEW k \in DOMAIN d, NEW n \in Times, ShouldRun(d[k], n),
           Proper(d, n), Unrun(d, n), ran' = [ran EXCEPT ![d[k].id][n] = @ + 1], RanBound
    PROVE  /\ ran'[d[k].id][n] <= 1 + crashes + raises /\ d[k].id <= made
           /\ \A j \in 1 .. MaxCalls, t \in Times : j # d[k].id \/ t # n => ran'[j][t] = ran[j][t]
           /\ \A j \in 1 .. MaxCalls : \A t \in Times :
                 ran'[j][t] <= 1 + crashes + raises /\ (j > made => ran'[j][t] = 0)
  <1>1. d[k].id \in 1 .. MaxCalls /\ d[k].id <= made
    BY JobEntry DEF Proper
  <1>2. PICK i, x, y : i = d[k].id /\ x = crashes /\ y = raises
    OBVIOUS
  <1>3. /\ ran[i][n] \in Nat /\ ran'[i][n] = ran[i][n] + 1
        /\ \A j \in 1 .. MaxCalls, t \in Times : j # i \/ t # n => ran'[j][t] = ran[j][t]
    <2>1. ran' = [ran EXCEPT ![i][n] = @ + 1] /\ i \in 1 .. MaxCalls
      BY <1>1, <1>2
    <2> QED BY <2>1, RanType
  <1>4. ran[i][n] <= x + y /\ x \in Nat /\ y \in Nat
    <2>1. d[k].last # n /\ n \in n .. MaxTime
      BY ScheduleAssumption DEF ShouldRun, Times
    <2> QED BY <1>2, <2>1 DEF Unrun, TypeOK
  <1>5. ran'[i][n] <= 1 + x + y
    BY <1>3, <1>4
  <1>6. ASSUME NEW j \in 1 .. MaxCalls, NEW t \in Times
        PROVE  ran'[j][t] <= 1 + crashes + raises /\ (j > made => ran'[j][t] = 0)
    <2>1. CASE j = i /\ t = n
      <3>1. ~(j > made)
        <4>1. made \in Nat
          BY DEF TypeOK
        <4> QED BY <1>1, <1>2, <2>1, <4>1
      <3> QED BY <1>2, <1>5, <2>1, <3>1
    <2>2. CASE j # i \/ t # n
      BY <1>3, <2>2 DEF RanBound
    <2> QED BY <2>1, <2>2
  <1> QED BY <1>1, <1>2, <1>3, <1>5, <1>6

LEMMA JobRunsOnce ==
    ASSUME TypeOK, TypeOK', InTurn, OnceInv, overlaps' = 0, NEW p \in Procs, JobRuns(p)
    PROVE  OnceInv'
  <1>1. overlaps = 0 /\ \A q \in Procs \ {p} : loc[q].pc = "idle"
    BY GoesOn DEF Continue
  <1>2. PICK l, k : Became(p, l) /\ l.pc = "jobs" /\ l.now = loc[p].now /\ RunsEntry(p, k, l)
    BY JobRunsLocal
  <1>3. PICK d, n, e : d = loc[p].doc /\ n = loc[p].now /\ e = l.doc
    OBVIOUS
  <1>4. d \in Seq(Job) /\ k \in DOMAIN d /\ n \in Times /\ ShouldRun(d[k], n) /\ e \in Seq(Job)
    BY <1>2, <1>3, DueEntry DEF JobRuns, RunsEntry
  <1>5. Proper(d, n) /\ Unrun(d, n) /\ n <= time /\ RanBound
    BY <1>1, <1>3 DEF OnceInv, LocalOnce, JobRuns
  <1>6. /\ UNCHANGED <<time, file, made, crashes, raises>> /\ ran' = [ran EXCEPT ![d[k].id][n] = @ + 1]
    BY <1>2, <1>3 DEF JobRuns, RunsEntry, faults
  <1>7. /\ ran'[d[k].id][n] <= 1 + crashes + raises /\ d[k].id <= made
        /\ \A j \in 1 .. MaxCalls, t \in Times : j # d[k].id \/ t # n => ran'[j][t] = ran[j][t]
        /\ \A j \in 1 .. MaxCalls : \A t \in Times :
              ran'[j][t] <= 1 + crashes + raises /\ (j > made => ran'[j][t] = 0)
    BY <1>4, <1>5, <1>6, RunsOnce
  <1>8. RanBound'
    BY <1>6, <1>7 DEF RanBound
  <1>9. /\ DOMAIN e = DOMAIN d /\ (\A h \in DOMAIN d \ {k} : e[h] = d[h]) /\ e[k].id = d[k].id /\ e[k].last = n
    BY <1>2, <1>3 DEF RunsEntry
  <1>10. n \in Nat /\ \A h \in DOMAIN e : e[h].id = d[h].id
    BY <1>4, <1>9 DEF Times
  <1>11. Proper(e, n)'
    <2>1. \A h, g \in DOMAIN e : e[h].id = e[g].id => h = g
      BY <1>5, <1>9, <1>10 DEF Proper
    <2>2. \A h \in DOMAIN e : e[h].id <= made' /\ (e[h].last = None \/ e[h].last <= n)
      <3> TAKE h \in DOMAIN e
      <3>1. CASE h = k
        BY <1>6, <1>7, <1>9, <1>10, <3>1
      <3>2. CASE h # k
        BY <1>5, <1>6, <1>9, <3>2 DEF Proper
      <3> QED BY <3>1, <3>2
    <2> QED BY <2>1, <2>2 DEF Proper
  <1>12. Unrun(e, n)'
    <2> SUFFICES ASSUME NEW h \in DOMAIN e, NEW t \in n .. MaxTime, e[h].last # t
                 PROVE  ran'[e[h].id][t] <= crashes' + raises'
      BY DEF Unrun
    <2>1. t \in Times /\ d[h].id \in 1 .. MaxCalls /\ e[h].id = d[h].id /\ h \in DOMAIN d
      BY <1>4, <1>9, <1>10, JobEntry, ScheduleAssumption DEF Times
    <2>2. d[h].last # t /\ (d[h].id # d[k].id \/ t # n)
      <3>1. CASE h = k
        <4>1. t > n /\ t \in Nat
          BY <1>9, <1>10, <3>1, ScheduleAssumption
        <4>2. d[k].last = None \/ (d[k].last \in Nat /\ d[k].last <= n)
          BY <1>4, <1>5, JobEntry DEF Proper
        <4>3. d[k].last # t
          BY <1>10, <4>1, <4>2, ScheduleAssumption
        <4> QED BY <1>10, <3>1, <4>1, <4>3
      <3>2. CASE h # k
        <4>1. e[h] = d[h]
          BY <1>9, <2>1, <3>2
        <4>2. d[h].id # d[k].id
          BY <1>4, <1>5, <2>1, <3>2 DEF Proper
        <4> QED BY <4>1, <4>2
      <3> QED BY <3>1, <3>2
    <2>3. ran'[d[h].id][t] = ran[d[h].id][t]
      BY <1>7, <2>1, <2>2
    <2>4. ran[d[h].id][t] <= crashes + raises
      BY <1>5, <2>1, <2>2 DEF Unrun
    <2> QED BY <1>6, <2>1, <2>3, <2>4
  <1>13. LocalOnce(l)' /\ Round(l)
    BY <1>2, <1>3, <1>5, <1>6, <1>11, <1>12 DEF LocalOnce, Saves, Proper, Unrun, Round
  <1>14. Proper(Load("jobs"), time)'
    BY <1>1, <1>6 DEF OnceInv, Proper, Load
  <1> QED BY <1>1, <1>2, <1>8, <1>13, <1>14, OnceMove

LEMMA JobRaisesOnce ==
    ASSUME TypeOK, TypeOK', InTurn, OnceInv, overlaps' = 0, NEW p \in Procs, JobRaises(p)
    PROVE  OnceInv'
  <1>1. overlaps = 0 /\ \A q \in Procs \ {p} : loc[q].pc = "idle"
    BY GoesOn DEF Continue
  <1>2. PICK l : /\ Became(p, l) /\ (l = Idle \/ l.pc = "stop")
                 /\ \E k \in DOMAIN loc[p].doc :
                        /\ ShouldRun(loc[p].doc[k], loc[p].now)
                        /\ ran' = [ran EXCEPT ![loc[p].doc[k].id][loc[p].now] = @ + 1]
    BY JobRaisesLocal
  <1>3. PICK d, n : d = loc[p].doc /\ n = loc[p].now
    OBVIOUS
  <1>4. PICK k \in DOMAIN d : ShouldRun(d[k], n) /\ ran' = [ran EXCEPT ![d[k].id][n] = @ + 1]
    BY <1>2, <1>3
  <1>5. d \in Seq(Job) /\ n \in Times
    BY <1>3, <1>4, DueEntry DEF JobRaises
  <1>6. Proper(d, n) /\ Unrun(d, n) /\ RanBound
    BY <1>1, <1>3 DEF OnceInv, LocalOnce, JobRaises
  <1>7. \A j \in 1 .. MaxCalls : \A t \in Times :
            ran'[j][t] <= 1 + crashes + raises /\ (j > made => ran'[j][t] = 0)
    BY <1>4, <1>5, <1>6, RunsOnce
  <1>8. UNCHANGED <<time, file, made>> /\ 1 + crashes + raises = crashes' + raises'
    BY DEF JobRaises, TypeOK
  <1>9. ~Round(l)
    BY <1>2, IdleOk DEF Round, Saves
  <1>10. \A j \in 1 .. MaxCalls : \A t \in Times :
            ran'[j][t] <= crashes' + raises' /\ (j > made => ran'[j][t] = 0)
    BY <1>7, <1>8
  <1> QED BY <1>1, <1>2, <1>8, <1>9, <1>10, OnceFault

LEMMA CrashOnce ==
    ASSUME TypeOK, TypeOK', InTurn, OnceInv, overlaps' = 0, NEW p \in Procs, Crash(p)
    PROVE  OnceInv'
  <1>1. overlaps = 0 /\ \A q \in Procs \ {p} : loc[q].pc = "idle"
    BY GoesOn
  <1>2. Became(p, Idle) /\ ~Round(Idle)
    BY EndLocal, IdleOk DEF Round, Saves
  <1>3. UNCHANGED <<time, file, made, ran>> /\ 1 + crashes + raises = crashes' + raises'
    BY DEF Crash, TypeOK
  <1>4. \A j \in 1 .. MaxCalls : \A t \in Times :
            ran'[j][t] <= crashes' + raises' /\ (j > made => ran'[j][t] = 0)
    BY <1>1, <1>3 DEF OnceInv, RanBound
  <1> QED BY <1>1, <1>2, <1>3, <1>4, OnceFault


(* Loading the jobs, and saving the document of a finished round, hand on  *)
(* what is known of them.                                                  *)
LEMMA RoundOnce ==
    ASSUME TypeOK, TypeOK', InTurn, OnceInv, overlaps' = 0, NEW p \in Procs, LoadDue(p) \/ SaveDue(p)
    PROVE  OnceInv'
  <1>1. overlaps = 0 /\ \A q \in Procs \ {p} : loc[q].pc = "idle"
    BY GoesOn DEF Continue
  <1>2. UNCHANGED <<time, file, made, ran, crashes, raises>>
    BY DEF LoadDue, SaveDue, ghosts, faults
  <1>3. RanBound' /\ Proper(Load("jobs"), time)'
    BY <1>1, <1>2 DEF OnceInv, RanBound, Proper, Load
  <1>4. CASE LoadDue(p)
    <2>1. PICK l : Became(p, l) /\ l.pc = "jobs" /\ l.doc = Load("jobs") /\ l.now = time
      BY <1>4, LoadDueLocal
    <2>2. ~Round(loc[p]) /\ Round(l) /\ time \in Nat
      BY <1>4, <2>1 DEF Round, Saves, LoadDue, TypeOK
    <2>3. Proper(l.doc, l.now) /\ Unrun(l.doc, l.now) /\ l.now <= time
      BY <1>1, <2>1, <2>2, BeforeRound
    <2>4. LocalOnce(l)'
      BY <1>2, <2>1, <2>3 DEF LocalOnce, Saves, Proper, Unrun
    <2> QED BY <1>1, <1>3, <2>1, <2>2, <2>4, OnceMove
  <1>5. CASE SaveDue(p)
    <2>1. PICK l : Became(p, l) /\ Saves(l, "jobs") /\ l.v = loc[p].doc
      BY <1>5, SaveDueLocal
    <2>2. PICK d, n, m : d = loc[p].doc /\ n = loc[p].now /\ m = time
      OBVIOUS
    <2>3. d \in Seq(Job) /\ n \in Nat /\ m \in Nat
      <3>1. d \in Seq(Job) /\ n \in Times
        BY <1>5, <2>2, LocFacts DEF SaveDue, LocalOk, Locals
      <3>2. m \in Times
        BY <2>2 DEF TypeOK, Times
      <3> QED BY <3>1, <3>2 DEF Times
    <2>4. Proper(d, n) /\ Unrun(d, n) /\ n <= m
      BY <1>1, <1>5, <2>2 DEF OnceInv, LocalOnce, SaveDue
    <2>5. Proper(d, m)' /\ Unrun(d, m)'
      <3>1. made' \in Nat /\ made <= made' /\ crashes' \in Nat /\ raises' \in Nat
            /\ crashes + raises <= crashes' + raises'
        BY <1>2 DEF TypeOK
      <3> QED BY <1>2, <2>3, <2>4, <3>1, ProperStill, UnrunStill
    <2>6. LocalOnce(l)' /\ Round(l)
      <3>1. l.v = d /\ time' = m /\ l.pc # "jobs"
        BY <1>2, <2>1, <2>2 DEF Saves
      <3> QED BY <2>1, <2>5, <3>1 DEF LocalOnce, Saves, Proper, Unrun, Round
    <2> QED BY <1>1, <1>3, <2>1, <2>6, OnceMove
  <1> QED BY <1>4, <1>5

LEMMA FileOnce ==
    ASSUME TypeOK, TypeOK', InTurn, OnceInv, overlaps' = 0, NEW p \in Procs, Truncate(p) \/ Write(p)
    PROVE  OnceInv'
  <1>1. overlaps = 0 /\ \A q \in Procs \ {p} : loc[q].pc = "idle"
    BY GoesOn DEF Continue
  <1>2. UNCHANGED <<time, made, ran, crashes, raises>>
    BY DEF Truncate, Write, ghosts, faults
  <1>3. PICK m : m = loc[p] /\ m \in Locals /\ LocalOk(m) /\ m.f \in Files
    BY LocFacts DEF Locals
  <1>4. PICK l : Became(p, l) /\ Moved(m, l) /\ (IF Truncate(p) THEN l.pc = "write" ELSE l.pc = m.then)
    BY <1>3, TruncateLocal, WriteLocal
  <1>5. m.pc \in {"truncate", "write"}
    BY <1>3 DEF Truncate, Write
  <1>6. RanBound'
    BY <1>1, <1>2 DEF OnceInv, RanBound
  <1>7. CASE m.f # "jobs"
    <2>1. file'["jobs"] = file["jobs"]
      <3>1. DOMAIN file = Files /\ "jobs" \in Files
        BY DEF TypeOK, Files
      <3>2. \E c : file' = [file EXCEPT ![m.f] = c]
        BY <1>3 DEF Truncate, Write
      <3> QED BY <1>7, <3>1, <3>2
    <2>2. Load("jobs")' = Load("jobs")
      BY <2>1 DEF Load
    <2>3. ~Round(m)
      BY <1>5, <1>7 DEF Round, Saves
    <2>4. ~Round(l)
      <3>1. l.f # "jobs" /\ l.pc # "jobs"
        BY <1>3, <1>4, <1>7 DEF Moved, Locals, Nexts
      <3> QED BY <3>1 DEF Round, Saves
    <2>5. made <= made'
      BY <1>2 DEF TypeOK
    <2> QED BY <1>1, <1>2, <1>3, <1>4, <2>2, <2>3, <2>4, <2>5, OnceQuietly
  <1>8. CASE m.f = "jobs"
    <2>1. Proper(m.v, time) /\ Unrun(m.v, time)
      BY <1>1, <1>3, <1>5, <1>8 DEF OnceInv, LocalOnce, Saves
    <2>2. CASE Truncate(p)
      <3>1. Load("jobs")' = <<>>
        BY <1>3, <1>8, <2>2 DEF Truncate, Load, TypeOK, Files
      <3>2. Proper(Load("jobs"), time)'
        BY <3>1 DEF Proper
      <3>3. LocalOnce(l)' /\ Round(l)
        BY <1>2, <1>4, <1>8, <2>1, <2>2 DEF LocalOnce, Saves, Proper, Unrun, Round, Moved
      <3> QED BY <1>1, <1>4, <1>6, <3>2, <3>3, OnceMove
    <2>3. CASE Write(p) /\ ~Truncate(p)
      <3>1. file'["jobs"] = m.v
        BY <1>3, <1>8, <2>3, WriteFacts
      <3>2. Load("jobs")' = m.v \/ Load("jobs")' = <<>>
        BY <3>1 DEF Load
      <3>3. Proper(Load("jobs"), time)' /\ Unrun(Load("jobs"), time)'
        BY <1>2, <2>1, <3>2 DEF Proper, Unrun
      <3>4. ~Round(l)
        BY <1>3, <1>4, <1>5, <1>8, <2>3 DEF LocalOk, Saves, Round
      <3> QED BY <1>1, <1>4, <1>6, <3>3, <3>4, IdleOnce, OnceMove
    <2> QED BY <2>2, <2>3
  <1> QED BY <1>7, <1>8

LEMMA RestOnce ==
    ASSUME TypeOK, TypeOK', InTurn, OnceInv, overlaps' = 0, NEW p \in Procs,
           \/ HookTrigger(p) \/ RoundEnds(p) \/ RunnerStops(p) \/ FindHook(p) \/ Enqueue(p) \/ SaveCounters(p)
           \/ Answer(p)
    PROVE  OnceInv'
  <1>1. overlaps = 0 /\ \A q \in Procs \ {p} : loc[q].pc = "idle"
    BY GoesOn DEF Continue
  <1>2. UNCHANGED <<time, made, file, ran, crashes, raises>>
    BY DEF HookTrigger, RoundEnds, RunnerStops, FindHook, Enqueue, SaveCounters, Answer, ghosts, faults
  <1>3. Load("jobs")' = Load("jobs") /\ made <= made'
    BY <1>2 DEF Load, TypeOK
  <1>4. loc[p].pc \in {"hooked", "round", "stop", "received", "match", "done"}
    BY DEF HookTrigger, RoundEnds, RunnerStops, FindHook, Enqueue, SaveCounters, Answer
  <1>5. ~Round(loc[p])
    BY <1>4 DEF Round, Saves
  <1>6. \E l : Became(p, l) /\ ~Round(l)
    <2>1. ~Round(Idle)
      BY IdleOk DEF Round, Saves
    <2>2. CASE HookTrigger(p)
      BY <2>2, HookTriggerLocal DEF Round, Saves
    <2>3. CASE RoundEnds(p)
      BY <2>3, RoundEndsLocal DEF Round, Saves
    <2>4. CASE RunnerStops(p)
      BY <2>4, RunnerStopsLocal DEF Round, Saves
    <2>5. CASE FindHook(p)
      BY <2>1, <2>5, FindHookLocal DEF Round, Saves
    <2>6. CASE Enqueue(p)
      BY <2>6, EnqueueLocal DEF Round, Saves
    <2>7. CASE SaveCounters(p)
      BY <2>7, SaveCountersLocal DEF Round, Saves
    <2>8. CASE Answer(p)
      BY <2>1, <2>8, EndLocal
    <2> QED BY <2>2, <2>3, <2>4, <2>5, <2>6, <2>7, <2>8
  <1> QED BY <1>1, <1>2, <1>3, <1>5, <1>6, OnceQuietly

LEMMA TickOnce ==
    ASSUME TypeOK, TypeOK', OnceInv, overlaps' = 0, NextMinute
    PROVE  OnceInv'
  <1>1. UNCHANGED <<file, loc, made, ran, crashes, raises, overlaps>> /\ time' = time + 1 /\ time \in Nat
    BY DEF NextMinute, ghosts, faults, TypeOK
  <1>2. PICK n, m : n = time /\ m = time' /\ n \in Nat /\ m \in Nat /\ n <= m
    BY <1>1
  <1>3. /\ made' \in Nat /\ made <= made' /\ crashes' \in Nat /\ raises' \in Nat
        /\ crashes + raises <= crashes' + raises' /\ UNCHANGED ran
    BY <1>1 DEF TypeOK
  <1>4. ASSUME NEW d \in Seq(Job)
        PROVE  (Proper(d, n) => Proper(d, m)') /\ (Unrun(d, n) => Unrun(d, m)')
    BY <1>2, <1>3, ProperStill, UnrunStill
  <1>5. PICK d : d = Load("jobs") /\ d = Load("jobs")' /\ d \in Seq(Job)
    BY <1>1, LoadType DEF Load
  <1>6. RanBound' /\ (Proper(d, n) => Proper(d, m)') /\ (Unrun(d, n) => Unrun(d, m)') /\ Proper(d, n)
    BY <1>1, <1>2, <1>4, <1>5 DEF OnceInv, RanBound
  <1>7. Proper(Load("jobs"), time)'
    BY <1>2, <1>5, <1>6 DEF Proper
  <1>8. (\A p \in Procs : ~Round(loc[p])') => Unrun(Load("jobs"), time)'
    <2>1. (\A p \in Procs : ~Round(loc[p])') => Unrun(d, n)
      BY <1>1, <1>2, <1>5 DEF OnceInv, Round, Saves
    <2> QED BY <1>2, <1>5, <1>6, <2>1 DEF Unrun
  <1>9. ASSUME NEW p \in Procs PROVE LocalOnce(loc[p])'
    <2>1. PICK l : l = loc[p] /\ l = loc'[p] /\ l \in Locals /\ LocalOk(l) /\ LocalOnce(l)
      BY <1>1, LocFacts DEF OnceInv
    <2>2. l.pc = "jobs" => Proper(l.doc, l.now)' /\ Unrun(l.doc, l.now)' /\ l.now <= m
      <3> SUFFICES ASSUME l.pc = "jobs" PROVE Proper(l.doc, l.now)' /\ Unrun(l.doc, l.now)' /\ l.now <= m
        OBVIOUS
      <3>1. Proper(l.doc, l.now) /\ Unrun(l.doc, l.now) /\ l.now <= n /\ l.now \in Nat
        BY <1>2, <2>1 DEF LocalOnce, Locals, Times
      <3>2. l.now <= m
        BY <1>2, <3>1
      <3> QED BY <1>1, <3>1, <3>2 DEF Proper, Unrun
    <2>3. Saves(l, "jobs") => Proper(l.v, m)' /\ Unrun(l.v, m)'
      <3> SUFFICES ASSUME Saves(l, "jobs") PROVE Proper(l.v, m)' /\ Unrun(l.v, m)'
        OBVIOUS
      <3>1. l.v \in Seq(Job) /\ Proper(l.v, n) /\ Unrun(l.v, n)
        BY <1>2, <2>1, DocFacts DEF LocalOnce, LocalOk, Saves
      <3> QED BY <1>4, <3>1
    <2>4. LocalOnce(l)'
      BY <1>2, <2>2, <2>3 DEF LocalOnce, Proper, Unrun, Saves
    <2> QED BY <2>1, <2>4 DEF LocalOnce, Proper, Unrun, Saves
  <1> QED BY <1>6, <1>7, <1>8, <1>9 DEF OnceInv

LEMMA OnceStep == TypeOK /\ TypeOK' /\ InTurn /\ OnceInv /\ [Next]_vars => OnceInv'
  <1> SUFFICES ASSUME TypeOK, TypeOK', InTurn, OnceInv, [Next]_vars, overlaps' = 0 PROVE OnceInv'
    BY DEF OnceInv
  <1>1. CASE UNCHANGED vars
    BY <1>1 DEF vars, ghosts, faults, OnceInv, RanBound, LocalOnce, Proper, Unrun, Round, Saves, Load
  <1> QED BY <1>1, TickOnce, CommandOnce, JobRunsOnce, JobRaisesOnce, CrashOnce, RoundOnce, FileOnce, RestOnce
          DEF Next, Continue

(* As long as operations take turns, a job is called twice in a minute     *)
(* only where a round raised or died before it saved that it had run.      *)
THEOREM JobsRunOnce == Spec => []OnceAMinute
  <1>1. Init => OnceInv
    <2> SUFFICES ASSUME Init PROVE OnceInv
      OBVIOUS
    <2>1. Load("jobs") = <<>>
      <3>1. file["jobs"] = <<>>
        BY DEF Init, Files
      <3> QED BY <3>1 DEF Load
    <2>2. RanBound
      BY DEF Init, RanBound, Times
    <2>3. \A p \in Procs : LocalOnce(loc[p])
      BY IdleOk DEF Init, LocalOnce, Saves
    <2> QED BY <2>1, <2>2, <2>3, EmptyProper DEF OnceInv
  <1>2. TypeOK /\ OnceInv => OnceAMinute
    BY DEF OnceInv, RanBound, OnceAMinute, TypeOK, Times
  <1> QED BY <1>1, <1>2, OnceStep, TakesTurns, ScheduleTypes, PTL DEF Spec



-----------------------------------------------------------------------------
(* Acknowledged events are queued.                                         *)

Three == {"triggers", "webhooks", "queue"}

LEMMA FineIs ==
    ASSUME NEW p \in Procs, NEW l, loc'[p] = l, Fine(l)'
    PROVE  Fine(loc[p])'
  <1>1. FilesFine(loc[p])'
    BY DEF Fine, FilesFine, Writing, Lists, Announces, Adding, Adds, Pays
  <1>2. EmitFine(loc[p])'
    BY DEF Fine, EmitFine, Saves, Lists, Served, AllServed, Promises, Pays, PaysOneMore, Emits
  <1>3. AddFine(loc[p])'
    BY DEF Fine, AddFine, Saves, Lists, Announces, Adding, Adds, Fresh
  <1> QED BY <1>1, <1>2, <1>3 DEF Fine

(* A step of one process while the others are idle.                        *)
LEMMA EventsMove ==
    ASSUME TypeOK, NEW p \in Procs, NEW l, Became(p, l), \A q \in Procs \ {p} : loc[q].pc = "idle",
           Fine(l)', l.pc = "idle" => l = Idle
    PROVE  EventsInv'
  <1>1. loc'[p] = l /\ \A q \in Procs \ {p} : loc'[q] = loc[q]
    BY LocStep DEF Became
  <1>2. Fine(loc[p])'
    BY <1>1, FineIs
  <1>3. \A q \in Busy' : q = p
    BY <1>1 DEF Busy
  <1>4. AllIdle' => Fine(Idle)'
    BY <1>1 DEF AllIdle
  <1> QED BY <1>2, <1>3, <1>4 DEF EventsInv

(* What the files say of the idle, and what they say while p is busy.      *)
LEMMA FineBefore ==
    ASSUME TypeOK, InTurn, EventsInv, NEW p \in Procs, overlaps' = 0, ~tornCrash
    PROVE  /\ Start(p) => Fine(Idle)
           /\ Continue(p) \/ Crash(p) => Fine(loc[p])
  <1>1. Start(p) => overlaps = 0 /\ AllIdle
    <2>1. overlaps \in Nat
      BY DEF TypeOK
    <2> QED BY <2>1, StartFacts
  <1>2. Continue(p) \/ Crash(p) => overlaps = 0 /\ p \in Busy
    <2>1. Continue(p) \/ Crash(p) => loc[p].pc # "idle"
      BY DEF Continue, Crash, HookTrigger, LoadDue, JobRuns, JobRaises, SaveDue, RoundEnds, RunnerStops, FindHook,
             Enqueue, SaveCounters, Truncate, Write, Answer
    <2> QED BY <2>1, GoesOn DEF Busy
  <1> QED BY <1>1, <1>2 DEF EventsInv

LEMMA NotAdding ==
    /\ ~Adds(Idle)
    /\ \A l : l.arg = None \/ l.arg \in Emission \/ l.arg \in [payload : Payloads] => ~Adds(l)
  <1>1. Idle.arg = None
    BY DEF Idle
  <1>2. \A a \in Trigger : a # None /\ a \notin Emission /\ a \notin [payload : Payloads]
    <2>1. \A a \in Trigger : "id" \in DOMAIN a /\ a # None
      BY ArgShapes
    <2>2. \A a \in Emission : "id" \notin DOMAIN a
      BY ArgShapes
    <2>3. \A a \in [payload : Payloads] : "id" \notin DOMAIN a
      OBVIOUS
    <2> QED BY <2>1, <2>2, <2>3
  <1> QED BY <1>1, <1>2 DEF Adds

(* A process that neither adds nor emits.                                  *)
LEMMA QuietFine ==
    ASSUME NEW m, NEW l, FilesFine(m), \A f \in Three : ~Writing(m, f) /\ ~Saves(l, f), ~Adds(m),
           UNCHANGED <<known, answers, owed, half>>, \A f \in Three : file'[f] = file[f],
           l.pc \notin {"match", "received", "hooked"}, l.pc = "done" => l.arg = None
    PROVE  Fine(l)'
  <1>1. /\ \A f \in Three : file[f] # Torn
        /\ Lists(file["triggers"]) /\ Announces(file["webhooks"], m) /\ Pays(file["queue"])
    BY DEF FilesFine, Three
  <1>2. FilesFine(l)'
    <2>1. (\A f \in Three : file'[f] # Torn) /\ Lists(file["triggers"])' /\ Pays(file["queue"])'
      BY <1>1 DEF Three, Lists, Pays
    <2>2. Announces(file["webhooks"], l)'
      BY <1>1 DEF Three, Announces, Adding
    <2> QED BY <2>1, <2>2 DEF FilesFine, Three
  <1>3. EmitFine(l)'
    BY DEF EmitFine, Saves, Three
  <1>4. AddFine(l)'
    <2>1. l.pc = "done" => ~Adds(l)
      BY NotAdding
    <2> QED BY <2>1 DEF AddFine, Saves, Three, Adds
  <1> QED BY <1>2, <1>3, <1>4 DEF Fine


(* An item that is appended is one item more of its trigger's.             *)
LEMMA ItemsAppend ==
    ASSUME NEW q \in Seq(Item), NEW it \in Item, NEW g
    PROVE  /\ Items(q, g) \in Nat
           /\ Items(Append(q, it), g) = IF it.trigger = g THEN Items(q, g) + 1 ELSE Items(q, g)
  <1>1. PICK n, e, S : /\ n = Len(q) + 1 /\ e = Append(q, it)
                       /\ S = {k \in DOMAIN q : q[k].trigger = g}
    OBVIOUS
  <1>2. /\ Len(q) \in Nat /\ DOMAIN q = 1 .. Len(q) /\ DOMAIN e = 1 .. n /\ e[n] = it
        /\ \A k \in DOMAIN q : e[k] = q[k]
    BY <1>1, AppendProperties, LenProperties
  <1>3. IsFiniteSet(S)
    <2>1. IsFiniteSet(1 .. Len(q))
      BY <1>2, FS_Interval
    <2> QED BY <1>1, <1>2, <2>1, FS_Subset
  <1>4. Cardinality(S) \in Nat /\ Items(q, g) = Cardinality(S)
    BY <1>1, <1>3, FS_CardinalityType DEF Items
  <1>5. n \notin S /\ n \in DOMAIN e /\ \A k \in DOMAIN e : k = n \/ k \in DOMAIN q
    BY <1>1, <1>2
  <1>6. CASE it.trigger = g
    <2>1. {k \in DOMAIN e : e[k].trigger = g} = S \cup {n}
      BY <1>1, <1>2, <1>5, <1>6
    <2>2. Cardinality(S \cup {n}) = Cardinality(S) + 1
      BY <1>3, <1>5, FS_AddElement
    <2> QED BY <1>1, <1>4, <1>6, <2>1, <2>2 DEF Items
  <1>7. CASE it.trigger # g
    <2>1. {k \in DOMAIN e : e[k].trigger = g} = S
      BY <1>1, <1>2, <1>5, <1>7
    <2> QED BY <1>1, <1>4, <1>7, <2>1 DEF Items
  <1> QED BY <1>4, <1>6, <1>7

(* What is appended takes nothing away.                                    *)
LEMMA ListedAppend ==
    ASSUME NEW d \in Seq(Trigger), NEW g \in Trigger
    PROVE  /\ Listed(Append(d, g), g)
           /\ \A trig : Listed(d, trig) => Listed(Append(d, g), trig)
  <1>1. PICK e, n : e = Append(d, g) /\ n = Len(d) + 1
    OBVIOUS
  <1>2. n \in DOMAIN e /\ e[n] = g /\ \A k \in DOMAIN d : k \in DOMAIN e /\ e[k] = d[k]
    BY <1>1, AppendProperties, LenProperties
  <1>3. Listed(e, g)
    BY <1>2 DEF Listed, Same
  <1>4. \A trig : Listed(d, trig) => Listed(e, trig)
    BY <1>2 DEF Listed
  <1> QED BY <1>1, <1>3, <1>4

LEMMA HookAppend ==
    ASSUME NEW d \in Seq(Hooks), NEW h \in Hooks
    PROVE  /\ \A n, event : FirstHook(d, n, event) => FirstHook(Append(d, h), n, event)
           /\ (\A k \in DOMAIN d : d[k].name # h.name) => FirstHook(Append(d, h), h.name, h.event)
           /\ \A n : n # h.name /\ (\A k \in DOMAIN d : d[k].name # n) =>
                 \A k \in DOMAIN Append(d, h) : Append(d, h)[k].name # n
  <1>1. PICK e, m : e = Append(d, h) /\ m = Len(d) + 1
    OBVIOUS
  <1>2. /\ m \in DOMAIN e /\ e[m] = h /\ \A k \in DOMAIN d : k \in DOMAIN e /\ e[k] = d[k]
        /\ \A k \in DOMAIN e : k \in DOMAIN d \/ k = m
        /\ 1 .. m - 1 = DOMAIN d /\ m \in Nat /\ DOMAIN d \subseteq Nat
        /\ \A k \in DOMAIN d : 1 .. k - 1 \subseteq DOMAIN d
    BY <1>1, AppendProperties, LenProperties
  <1>3. ASSUME NEW n, NEW event, FirstHook(d, n, event) PROVE FirstHook(e, n, event)
    <2>1. PICK k \in DOMAIN d : d[k].name = n /\ d[k].event = event /\ \A j \in 1 .. k - 1 : d[j].name # n
      BY <1>3 DEF FirstHook
    <2>2. \A j \in 1 .. k - 1 : e[j].name # n
      BY <1>2, <2>1
    <2> QED BY <1>2, <2>1, <2>2 DEF FirstHook
  <1>4. ASSUME \A k \in DOMAIN d : d[k].name # h.name PROVE FirstHook(e, h.name, h.event)
    BY <1>2, <1>4 DEF FirstHook
  <1>5. ASSUME NEW n, n # h.name, \A k \in DOMAIN d : d[k].name # n PROVE \A k \in DOMAIN e : e[k].name # n
    BY <1>2, <1>5
  <1> QED BY <1>1, <1>3, <1>4, <1>5


(* A command that is about to add its trigger.                             *)
LEMMA TriggerFine ==
    ASSUME TypeOK, NEW m, NEW l, FilesFine(m), \A f \in Three : ~Writing(m, f),
           UNCHANGED <<file, known, answers, owed, half>>, Saves(l, "triggers"), Adds(l),
           l.v = Append(Load("triggers"), l.arg), ~Adds(m) \/ m.hook = l.hook, Fresh(l, file["webhooks"])
    PROVE  Fine(l)'
  <1>1. /\ \A f \in Three : file[f] # Torn
        /\ Lists(file["triggers"]) /\ Announces(file["webhooks"], m) /\ Pays(file["queue"])
    BY DEF FilesFine, Three
  <1>2. PICK d, v, g, w : d = Load("triggers") /\ g = l.arg /\ v = Append(d, g) /\ w = file["webhooks"]
    OBVIOUS
  <1>3. d \in Seq(Trigger) /\ g \in Trigger /\ l.v = v /\ d = file["triggers"] /\ l.pc \in {"truncate", "write"}
    BY <1>1, <1>2, LoadType DEF Load, Three, Adds, Saves
  <1>4. Listed(v, g) /\ \A trig : Listed(d, trig) => Listed(v, trig)
    BY <1>2, <1>3, ListedAppend
  <1>5. Lists(v)
    BY <1>1, <1>3, <1>4 DEF Lists
  <1>6. Announces(w, l)
    BY <1>1, <1>2 DEF Announces, Adding
  <1>7. FilesFine(l)'
    <2>1. Lists(file["triggers"])' /\ Pays(file["queue"])' /\ \A f \in Three : file'[f] # Torn
      BY <1>1 DEF Lists, Pays
    <2>2. Announces(file["webhooks"], l)'
      BY <1>2, <1>6 DEF Announces, Adding
    <2> QED BY <2>1, <2>2 DEF FilesFine, Three
  <1>8. EmitFine(l)'
    <2>1. ~Emits(l)
      BY NotAdding DEF Emits
    <2> QED BY <1>3, <2>1 DEF EmitFine, Saves, Emits
  <1>9. AddFine(l)'
    <2>1. Lists(l.v)' /\ Listed(l.v, l.arg)'
      BY <1>2, <1>3, <1>4, <1>5 DEF Lists, Listed
    <2>2. Fresh(l, file["webhooks"])'
      BY DEF Fresh
    <2> QED BY <1>3, <2>1, <2>2 DEF AddFine, Saves
  <1> QED BY <1>7, <1>8, <1>9 DEF Fine

(* add_webhook: a new hook is the last of its file.                        *)
LEMMA WebhookFine ==
    ASSUME TypeOK, NEW m, NEW l, FilesFine(m), \A f \in Three : ~Writing(m, f), ~Adds(m),
           UNCHANGED <<file, known, answers, owed, half>>, Saves(l, "webhooks"), Adds(l),
           NEW h \in Hooks, l.hook = h, l.v = Append(Load("webhooks"), h)
    PROVE  Fine(l)'
  <1>1. /\ \A f \in Three : file[f] # Torn
        /\ Lists(file["triggers"]) /\ Announces(file["webhooks"], m) /\ Pays(file["queue"])
    BY DEF FilesFine, Three
  <1>2. PICK d, v : d = Load("webhooks") /\ v = Append(d, h)
    OBVIOUS
  <1>3. d \in Seq(Hooks) /\ l.v = v /\ d = file["webhooks"] /\ l.pc \in {"truncate", "write"} /\ l.f = "webhooks"
    BY <1>1, <1>2, LoadType DEF Load, Three, Saves
  <1>4. /\ \A n, event : FirstHook(d, n, event) => FirstHook(v, n, event)
        /\ (\A k \in DOMAIN d : d[k].name # h.name) => FirstHook(v, h.name, h.event)
        /\ \A n : n # h.name /\ (\A k \in DOMAIN d : d[k].name # n) => \A k \in DOMAIN v : v[k].name # n
    BY <1>2, <1>3, HookAppend
  <1>5. \A n \in Names \ half : IF answers[n] # None THEN FirstHook(d, n, answers[n])
                                ELSE \A k \in DOMAIN d : d[k].name # n
    BY <1>1, <1>3 DEF Announces, Adding
  <1>6. Announces(v, l)
    <2> SUFFICES ASSUME NEW n \in Names \ half
                 PROVE  IF answers[n] # None THEN FirstHook(v, n, answers[n])
                        ELSE (\A k \in DOMAIN v : v[k].name # n) \/ (Adding(l, n) /\ FirstHook(v, n, l.hook.event))
      BY DEF Announces
    <2>1. CASE answers[n] # None
      BY <1>4, <1>5, <2>1
    <2>2. CASE answers[n] = None /\ n = h.name
      BY <1>4, <1>5, <2>2 DEF Adding
    <2>3. CASE answers[n] = None /\ n # h.name
      BY <1>4, <1>5, <2>3
    <2> QED BY <2>1, <2>2, <2>3
  <1>7. Fresh(l, v)
    <2>1. h.name \in Names
      BY DEF Names
    <2>2. h.name \in half \/ answers[h.name] # None \/ FirstHook(v, h.name, h.event)
      BY <1>4, <1>5, <2>1
    <2> QED BY <2>2 DEF Fresh
  <1>8. FilesFine(l)'
    <2>1. Lists(file["triggers"])' /\ Pays(file["queue"])' /\ \A f \in Three : file'[f] # Torn
      BY <1>1 DEF Lists, Pays
    <2>2. Announces(file["webhooks"], l)'
      BY <1>3, <1>5 DEF Announces, Adding
    <2> QED BY <2>1, <2>2 DEF FilesFine, Three
  <1>9. EmitFine(l)'
    BY <1>3 DEF EmitFine, Saves
  <1>10. AddFine(l)'
    <2>1. Announces(l.v, l)' /\ Fresh(l, l.v)'
      BY <1>3, <1>6, <1>7 DEF Announces, Adding, Fresh
    <2> QED BY <1>3, <2>1 DEF AddFine, Saves
  <1> QED BY <1>8, <1>9, <1>10 DEF Fine

(* An emission begins with all the triggers that are known.                *)
LEMMA EmitsFine ==
    ASSUME TypeOK, NEW m, NEW l, FilesFine(m), \A f \in Three : ~Writing(m, f), ~Adds(m),
           UNCHANGED <<file, known, answers, owed, half>>, l.pc = "match", l.doc = Load("triggers"), l.i = 0,
           Promises(l)
    PROVE  Fine(l)'
  <1>1. /\ \A f \in Three : file[f] # Torn
        /\ Lists(file["triggers"]) /\ Announces(file["webhooks"], m) /\ Pays(file["queue"])
    BY DEF FilesFine, Three
  <1>2. PICK d, q : d = Load("triggers") /\ q = file["queue"]
    OBVIOUS
  <1>3. d \in Seq(Trigger) /\ l.doc = d /\ d = file["triggers"]
    BY <1>1, <1>2, LoadType DEF Load, Three
  <1>4. Lists(d) /\ \A k \in DOMAIN d : ~(k <= l.i)
    <2>1. \A k \in DOMAIN d : k \in Nat /\ k >= 1
      BY <1>3, LenProperties
    <2> QED BY <1>1, <1>3, <2>1
  <1>5. Served(l, q)
    BY <1>3, <1>4 DEF Served, Lists, Listed
  <1>6. FilesFine(l)'
    <2>1. Lists(file["triggers"])' /\ Pays(file["queue"])' /\ \A f \in Three : file'[f] # Torn
      BY <1>1 DEF Lists, Pays
    <2>2. Announces(file["webhooks"], l)'
      BY <1>1 DEF Announces, Adding
    <2> QED BY <2>1, <2>2 DEF FilesFine, Three
  <1>7. EmitFine(l)'
    <2>1. Lists(l.doc)'
      BY <1>3, <1>4 DEF Lists
    <2>2. Served(l, file["queue"])'
      BY <1>2, <1>5 DEF Served, PaysOneMore
    <2>3. Promises(l)'
      BY DEF Promises
    <2> QED BY <2>1, <2>2, <2>3 DEF EmitFine, Saves
  <1>8. AddFine(l)'
    BY DEF AddFine, Saves
  <1> QED BY <1>6, <1>7, <1>8 DEF Fine


LEMMA CommandEvents ==
    ASSUME TypeOK, InTurn, EventsInv, overlaps' = 0, ~tornCrash', NEW p \in Procs,
           ScheduleCommand(p) \/ StartRunner(p) \/ TriggerCommand(p) \/ WebhookCommand(p) \/ DoPost(p)
    PROVE  EventsInv'
  <1>1. Start(p)
    BY CommandCases DEF RunDue, StartRunner, AddJob, AddTrigger, Emit, AddWebhook, Receive
  <1>2. \A q \in Procs \ {p} : loc[q].pc = "idle"
    BY <1>1, Alone
  <1>3. UNCHANGED <<file, known, answers, owed, half>> /\ tornCrash' = tornCrash
    BY <1>1, StartFacts
  <1>4. Fine(Idle) /\ FilesFine(Idle)
    BY <1>1, <1>3, FineBefore DEF Fine
  <1>5. (\A f \in Three : ~Writing(Idle, f)) /\ ~Adds(Idle)
    BY IdleOk, NotAdding DEF Writing
  <1>6. ASSUME NEW l, Became(p, l), Fine(l)', l.pc # "idle" PROVE EventsInv'
    BY <1>2, <1>6, EventsMove
  <1>7. ASSUME NEW l, Became(p, l), \A f \in Three : ~Saves(l, f), l.pc \in {"tick", "truncate", "write"} PROVE EventsInv'
    <2>1. Fine(l)'
      BY <1>3, <1>4, <1>5, <1>7, QuietFine
    <2> QED BY <1>6, <1>7, <2>1
  <1>8. CASE RunDue(p) \/ StartRunner(p)
    <2>1. \E l : Became(p, l) /\ (\A f \in Three : ~Saves(l, f)) /\ l.pc \in {"tick", "truncate", "write"}
      BY <1>8, RunDueLocal, StartRunnerLocal DEF Saves, Three
    <2> QED BY <1>7, <2>1
  <1>9. ASSUME NEW cron \in Crons, AddJob(p, cron) PROVE EventsInv'
    <2>1. \E l : Became(p, l) /\ (\A f \in Three : ~Saves(l, f)) /\ l.pc \in {"tick", "truncate", "write"}
      BY <1>9, AddJobLocal DEF Saves, Three
    <2> QED BY <1>7, <2>1
  <1>10. ASSUME NEW g \in Triggers, AddTrigger(p, g) PROVE EventsInv'
    <2>1. PICK l : /\ Became(p, l) /\ Saves(l, "triggers") /\ Adds(l) /\ l.hook = None
                   /\ l.v = Append(Load("triggers"), l.arg)
      BY <1>10, AddTriggerLocal
    <2>2. Fresh(l, file["webhooks"])
      BY <2>1, ArgShapes DEF Fresh
    <2>3. Fine(l)'
      BY <1>3, <1>4, <1>5, <2>1, <2>2, TriggerFine
    <2> QED BY <1>6, <2>1, <2>3 DEF Saves
  <1>11. ASSUME NEW event \in Events, NEW payload \in Payloads, Emit(p, event, payload) PROVE EventsInv'
    <2>1. PICK l : Became(p, l) /\ l.pc = "match" /\ l.doc = Load("triggers") /\ l.i = 0 /\ l.hook = None
      BY <1>11, EmitLocal
    <2>2. Promises(l)
      BY <2>1 DEF Promises
    <2>3. Fine(l)'
      BY <1>3, <1>4, <1>5, <2>1, <2>2, EmitsFine
    <2> QED BY <1>6, <2>1, <2>3
  <1>12. ASSUME NEW h \in Hooks, AddWebhook(p, h) PROVE EventsInv'
    <2>1. PICK l : /\ Became(p, l) /\ Saves(l, "webhooks") /\ Adds(l) /\ l.hook = h
                   /\ l.v = Append(Load("webhooks"), h)
      BY <1>12, AddWebhookLocal
    <2>2. Fine(l)'
      BY <1>3, <1>4, <1>5, <2>1, WebhookFine
    <2> QED BY <1>6, <2>1, <2>2 DEF Saves
  <1>13. ASSUME NEW name \in Names, NEW payload \in Payloads, Receive(p, name, payload) PROVE EventsInv'
    <2>1. PICK l : Became(p, l) /\ l.pc = "received" /\ l.doc = Load("webhooks") /\ l.hook \in Post
      BY <1>13, ReceiveLocal
    <2>2. /\ \A f \in Three : file[f] # Torn
          /\ Lists(file["triggers"]) /\ Announces(file["webhooks"], Idle) /\ Pays(file["queue"])
      BY <1>4, <1>5 DEF FilesFine, Three
    <2>3. l.doc = file["webhooks"]
      BY <2>1, <2>2 DEF Load, Three
    <2>4. Announces(file["webhooks"], l)
      BY <1>5, <2>2 DEF Announces, Adding
    <2>5. FilesFine(l)'
      <3>1. Lists(file["triggers"])' /\ Pays(file["queue"])' /\ \A f \in Three : file'[f] # Torn
        BY <1>3, <2>2 DEF Lists, Pays
      <3>2. Announces(file["webhooks"], l)'
        BY <1>3, <2>4 DEF Announces, Adding
      <3> QED BY <3>1, <3>2 DEF FilesFine, Three
    <2>6. EmitFine(l)'
      BY <2>1 DEF EmitFine, Saves
    <2>7. AddFine(l)'
      <3>1. Announces(l.doc, l)'
        BY <1>3, <2>3, <2>4 DEF Announces, Adding
      <3> QED BY <2>1, <3>1 DEF AddFine, Saves
    <2> QED BY <1>6, <2>1, <2>5, <2>6, <2>7 DEF Fine
  <1> QED BY <1>8, <1>9, <1>10, <1>11, <1>12, <1>13, CommandCases

(* The operations on jobs keep their hands off the events' files.          *)
LEMMA JobEvents ==
    ASSUME TypeOK, InTurn, EventsInv, overlaps' = 0, ~tornCrash', NEW p \in Procs,
           LoadDue(p) \/ JobRuns(p) \/ JobRaises(p) \/ SaveDue(p) \/ RoundEnds(p) \/ RunnerStops(p)
    PROVE  EventsInv'
  <1>1. \A q \in Procs \ {p} : loc[q].pc = "idle"
    BY GoesOn DEF Continue
  <1>2. UNCHANGED <<file, known, answers, owed, half, tornCrash>>
    BY DEF LoadDue, JobRuns, JobRaises, SaveDue, RoundEnds, RunnerStops, ghosts, faults
  <1>3. FilesFine(loc[p])
    BY <1>2, FineBefore DEF Fine, Continue
  <1>4. loc[p].pc \in {"tick", "jobs", "round", "stop"} /\ loc[p].arg = None
    <2>1. loc[p].pc \in {"tick", "jobs", "round", "stop"}
      BY DEF LoadDue, JobRuns, JobRaises, SaveDue, RoundEnds, RunnerStops
    <2> QED BY <2>1, LocFacts DEF LocalOk
  <1>5. ~Adds(loc[p]) /\ \A f \in Three : ~Writing(loc[p], f)
    BY <1>4, NotAdding DEF Writing
  <1>6. PICK l : /\ Became(p, l) /\ (l.pc = "idle" => l = Idle)
                 /\ l = Idle \/ l.pc \in {"jobs", "stop"} \/ Saves(l, "jobs") \/ Saves(l, "runner")
    BY LoadDueLocal, JobRunsLocal, JobRaisesLocal, SaveDueLocal, RoundEndsLocal, RunnerStopsLocal, IdleOk DEF Saves
  <1>7. l.pc \in {"idle", "jobs", "stop", "truncate", "write"} /\ \A f \in Three : ~Saves(l, f)
    BY <1>6, IdleOk DEF Saves, Three
  <1>8. Fine(l)'
    BY <1>2, <1>3, <1>5, <1>7, QuietFine
  <1> QED BY <1>1, <1>6, <1>8, EventsMove


LEMMA HookTriggerEvents ==
    ASSUME TypeOK, InTurn, EventsInv, overlaps' = 0, ~tornCrash', NEW p \in Procs, HookTrigger(p)
    PROVE  EventsInv'
  <1>1. \A q \in Procs \ {p} : loc[q].pc = "idle"
    BY GoesOn DEF Continue
  <1>2. UNCHANGED <<file, known, answers, owed, half, tornCrash>>
    BY DEF HookTrigger, ghosts, faults
  <1>3. PICK m : m = loc[p]
    OBVIOUS
  <1>4. Fine(m) /\ m.pc = "hooked"
    BY <1>2, <1>3, FineBefore DEF Continue, HookTrigger
  <1>5. PICK l : /\ Became(p, l) /\ Saves(l, "triggers") /\ Adds(l) /\ Adds(m)
                 /\ l.v = Append(Load("triggers"), l.arg) /\ l.hook = m.hook
    BY <1>3, HookTriggerLocal
  <1>6. \A f \in Three : ~Writing(m, f)
    BY <1>4 DEF Writing
  <1>7. Fresh(l, file["webhooks"]) /\ FilesFine(m)
    <2>1. Fresh(m, file["webhooks"]) /\ FilesFine(m)
      BY <1>4 DEF Fine, AddFine
    <2> QED BY <1>5, <2>1 DEF Fresh
  <1>8. Fine(l)'
    BY <1>2, <1>5, <1>6, <1>7, TriggerFine
  <1> QED BY <1>1, <1>5, <1>8, EventsMove DEF Saves

LEMMA FindHookEvents ==
    ASSUME TypeOK, InTurn, EventsInv, overlaps' = 0, ~tornCrash', NEW p \in Procs, FindHook(p)
    PROVE  EventsInv'
  <1>1. \A q \in Procs \ {p} : loc[q].pc = "idle"
    BY GoesOn DEF Continue
  <1>2. UNCHANGED <<file, known, answers, owed, half, tornCrash>>
    BY DEF FindHook, ghosts, faults
  <1>3. PICK m : m = loc[p]
    OBVIOUS
  <1>4. Fine(m) /\ m.pc = "received" /\ m.arg \in [payload : Payloads] /\ m.doc \in Seq(Hooks)
    BY <1>2, <1>3, FineBefore, LocFacts DEF Continue, FindHook, LocalOk
  <1>5. FilesFine(m) /\ (\A f \in Three : ~Writing(m, f)) /\ ~Adds(m) /\ Announces(m.doc, m)
    BY <1>4, NotAdding DEF Fine, AddFine, Writing
  <1>6. CASE Became(p, Idle)
    <2>1. Fine(Idle)'
      BY <1>2, <1>5, IdleOk, QuietFine DEF Saves
    <2> QED BY <1>1, <1>6, <2>1, EventsMove
  <1>7. CASE ~Became(p, Idle)
    <2>1. PICK l, k : /\ Became(p, l) /\ l.pc = "match" /\ l.doc = Load("triggers") /\ l.i = 0
                      /\ l.hook = m.hook /\ k \in DOMAIN m.doc
                      /\ m.doc[k].name = l.hook.name /\ m.doc[k].event = l.arg.event
                      /\ \A h \in 1 .. k - 1 : m.doc[h].name # l.hook.name
      BY <1>3, <1>7, FindHookLocal
    <2>2. PICK d, n : d = m.doc /\ n = l.hook.name
      OBVIOUS
    <2>3. ASSUME n \in Names \ half, answers[n] # None PROVE l.arg.event = answers[n]
      <3>1. FirstHook(d, n, answers[n])
        BY <1>5, <2>2, <2>3 DEF Announces
      <3>2. PICK j \in DOMAIN d : d[j].name = n /\ d[j].event = answers[n] /\ \A h \in 1 .. j - 1 : d[h].name # n
        BY <3>1 DEF FirstHook
      <3>3. k \in DOMAIN d /\ d[k].name = n /\ d[k].event = l.arg.event /\ \A h \in 1 .. k - 1 : d[h].name # n
        BY <2>1, <2>2
      <3>4. j = k
        <4>1. Len(d) \in Nat /\ DOMAIN d = 1 .. Len(d)
          BY <1>4, <2>2, LenProperties
        <4>2. j \in Nat /\ k \in Nat /\ 1 <= j /\ 1 <= k
          BY <3>3, <4>1
        <4>3. ~(j < k)
          BY <3>2, <3>3, <4>2
        <4>4. ~(k < j)
          BY <3>2, <3>3, <4>2
        <4> QED BY <4>2, <4>3, <4>4
      <3> QED BY <3>2, <3>3, <3>4
    <2>4. Promises(l)
      <3>1. l.hook \in Post => n \in Names
        BY <2>2 DEF Post
      <3> QED BY <2>2, <2>3, <3>1 DEF Promises
    <2>5. Fine(l)'
      BY <1>2, <1>5, <2>1, <2>4, EmitsFine
    <2> QED BY <1>1, <2>1, <2>5, EventsMove
  <1> QED BY <1>6, <1>7

LEMMA EnqueueEvents ==
    ASSUME TypeOK, InTurn, EventsInv, overlaps' = 0, ~tornCrash', NEW p \in Procs, Enqueue(p)
    PROVE  EventsInv'
  <1>1. \A q \in Procs \ {p} : loc[q].pc = "idle"
    BY GoesOn DEF Continue
  <1>2. UNCHANGED <<file, known, answers, owed, half, tornCrash>>
    BY DEF Enqueue, ghosts, faults
  <1>3. PICK m : m = loc[p]
    OBVIOUS
  <1>4. Fine(m) /\ m.pc = "match" /\ m.doc \in Seq(Trigger) /\ m \in Locals /\ Emits(m)
    BY <1>2, <1>3, FineBefore, EnqueueLocal DEF Continue
  <1>5. /\ \A f \in Three : file[f] # Torn
        /\ Lists(file["triggers"]) /\ Announces(file["webhooks"], m) /\ Pays(file["queue"])
        /\ Lists(m.doc) /\ Served(m, file["queue"]) /\ Promises(m) /\ ~Adds(m)
    BY <1>4, NotAdding DEF Fine, FilesFine, EmitFine, Three, Writing, Emits
  <1>6. PICK l, k : /\ Became(p, l) /\ Saves(l, "queue") /\ QueuesEntry(p, k, l)
                    /\ l.arg = m.arg /\ l.hook = m.hook
    BY <1>3, EnqueueLocal
  <1>7. PICK it \in Item : l.v = Append(Load("queue"), it) /\ it.trigger = l.doc[k].id
    BY <1>6 DEF QueuesEntry
  <1>8. PICK q, v, d, e : q = Load("queue") /\ v = Append(q, it) /\ d = m.doc /\ e = l.doc
    OBVIOUS
  <1>9. q \in Seq(Item) /\ q = file["queue"] /\ l.v = v
    BY <1>5, <1>7, <1>8, LoadType DEF Load, Three
  <1>10. \A g : Items(q, g) \in Nat /\ Items(v, g) = IF it.trigger = g THEN Items(q, g) + 1 ELSE Items(q, g)
    BY <1>8, <1>9, ItemsAppend
  <1>11. \A g \in 1 .. MaxCalls : owed[g] \in Nat
    BY DEF TypeOK
  <1>12. /\ k \in DOMAIN d /\ k > m.i /\ l.i = k /\ DOMAIN e = DOMAIN d
         /\ \A h \in DOMAIN d : h > m.i /\ Matches(d[h], m.arg) => k <= h
         /\ \A h \in DOMAIN d \ {k} : e[h] = d[h]
         /\ Same(e[k], d[k])
    BY <1>3, <1>6, <1>8 DEF QueuesEntry
  <1>13. \A h \in DOMAIN d, trig \in Trigger : Same(d[h], trig) => Same(e[h], trig)
    BY <1>12 DEF Same
  <1>14. DOMAIN d \subseteq Nat /\ m.i \in Nat /\ known \subseteq Trigger
    <2>1. DOMAIN d \subseteq Nat
      BY <1>4, <1>8, LenProperties
    <2> QED BY <1>4, <2>1 DEF Locals, TypeOK
  <1>15. Pays(v)
    <2> SUFFICES ASSUME NEW g \in 1 .. MaxCalls PROVE owed[g] <= Items(v, g)
      BY DEF Pays
    <2>1. owed[g] <= Items(q, g)
      BY <1>5, <1>9 DEF Pays
    <2> QED BY <1>10, <1>11, <2>1
  <1>16. \A g \in 1 .. MaxCalls : PaysOneMore(q, g) => PaysOneMore(v, g)
    BY <1>10, <1>11 DEF PaysOneMore
  <1>17. PaysOneMore(v, it.trigger)
    <2>1. PICK g \in 1 .. MaxCalls : g = it.trigger
      BY DEF Item
    <2>2. owed[g] <= Items(q, g)
      BY <1>5, <1>9 DEF Pays
    <2>3. owed[g] + 1 <= Items(v, g)
      BY <1>10, <1>11, <2>1, <2>2
    <2> QED BY <2>1, <2>3 DEF PaysOneMore
  <1>18. Served(l, v)
    <2> SUFFICES ASSUME NEW trig \in known, Matches(trig, l.arg)
                 PROVE  \E h \in DOMAIN e : Same(e[h], trig) /\ (h <= l.i => PaysOneMore(v, trig.id))
      BY <1>8 DEF Served
    <2>1. PICK h \in DOMAIN d : Same(d[h], trig) /\ (h <= m.i => PaysOneMore(q, trig.id))
      BY <1>5, <1>6, <1>8, <1>9 DEF Served
    <2>2. Same(e[h], trig) /\ h \in DOMAIN e /\ h \in Nat /\ k \in Nat /\ trig.id \in 1 .. MaxCalls
      BY <1>12, <1>13, <1>14, <2>1 DEF Trigger
    <2>3. h <= l.i => PaysOneMore(v, trig.id)
      <3>1. CASE h <= m.i
        BY <1>16, <2>1, <2>2, <3>1
      <3>2. CASE h > m.i
        <4>1. Matches(d[h], m.arg)
          BY <1>6, <2>1 DEF Matches, Same
        <4>2. k <= h
          BY <1>12, <3>2, <4>1
        <4>3. h <= l.i => h = k
          BY <1>12, <2>2, <4>2
        <4>4. h = k => it.trigger = trig.id
          BY <1>7, <1>8, <2>2 DEF Same
        <4> QED BY <1>17, <4>3, <4>4
      <3> QED BY <1>14, <2>2, <3>1, <3>2
    <2> QED BY <2>2, <2>3
  <1>19. Lists(e)
    BY <1>5, <1>8, <1>12, <1>13, <1>14 DEF Lists, Listed
  <1>20. FilesFine(l)'
    <2>1. Lists(file["triggers"])' /\ Pays(file["queue"])' /\ \A f \in Three : file'[f] # Torn
      BY <1>2, <1>5 DEF Lists, Pays
    <2>2. Announces(file["webhooks"], l)'
      BY <1>2, <1>5 DEF Announces, Adding
    <2> QED BY <2>1, <2>2 DEF FilesFine, Three
  <1>21. EmitFine(l)'
    <2>1. Lists(l.doc)' /\ Pays(l.v)'
      BY <1>2, <1>8, <1>9, <1>15, <1>19 DEF Lists, Pays
    <2>2. Served(l, l.v)'
      BY <1>2, <1>9, <1>18 DEF Served, PaysOneMore
    <2>3. Promises(l)'
      BY <1>2, <1>5, <1>6 DEF Promises
    <2> QED BY <1>6, <2>1, <2>2, <2>3 DEF EmitFine, Saves
  <1>22. AddFine(l)'
    BY <1>6 DEF AddFine, Saves
  <1> QED BY <1>1, <1>6, <1>20, <1>21, <1>22, EventsMove DEF Fine, Saves


LEMMA SaveCountersEvents ==
    ASSUME TypeOK, InTurn, EventsInv, overlaps' = 0, ~tornCrash', NEW p \in Procs, SaveCounters(p)
    PROVE  EventsInv'
  <1>1. \A q \in Procs \ {p} : loc[q].pc = "idle"
    BY GoesOn DEF Continue
  <1>2. UNCHANGED <<file, known, answers, owed, half, tornCrash>> /\ Matched(loc[p]) = {}
    BY DEF SaveCounters, ghosts, faults
  <1>3. PICK m : m = loc[p]
    OBVIOUS
  <1>4. Fine(m) /\ m.pc = "match" /\ m.doc \in Seq(Trigger) /\ m \in Locals /\ Emits(m)
    BY <1>2, <1>3, FineBefore, SaveCountersLocal, LocFacts DEF Continue, LocalOk
  <1>5. /\ \A f \in Three : file[f] # Torn
        /\ Lists(file["triggers"]) /\ Announces(file["webhooks"], m) /\ Pays(file["queue"])
        /\ Lists(m.doc) /\ Served(m, file["queue"]) /\ Promises(m) /\ ~Adds(m)
    BY <1>4, NotAdding DEF Fine, FilesFine, EmitFine, Three, Writing, Emits
  <1>6. PICK l : /\ Became(p, l) /\ Saves(l, "triggers") /\ Emits(l) /\ l.v = m.doc
                 /\ l.arg = m.arg /\ l.hook = m.hook
    BY <1>3, SaveCountersLocal
  <1>7. PICK q : q = file["queue"]
    OBVIOUS
  <1>8. DOMAIN m.doc \subseteq Nat /\ m.i \in Nat
    <2>1. DOMAIN m.doc \subseteq Nat
      BY <1>4, LenProperties
    <2> QED BY <1>4, <2>1 DEF Locals
  <1>9. AllServed(l, q)
    <2> SUFFICES ASSUME NEW trig \in known, Matches(trig, l.arg) PROVE PaysOneMore(q, trig.id)
      BY DEF AllServed
    <2>1. PICK k \in DOMAIN m.doc : Same(m.doc[k], trig) /\ (k <= m.i => PaysOneMore(q, trig.id))
      BY <1>5, <1>6, <1>7 DEF Served
    <2>2. Matches(m.doc[k], m.arg)
      BY <1>6, <2>1 DEF Matches, Same
    <2>3. ~(k > m.i)
      BY <1>2, <1>3, <2>2 DEF Matched
    <2> QED BY <1>8, <2>1, <2>3
  <1>10. ~Adds(l)
    BY <1>5, <1>6 DEF Adds
  <1>11. FilesFine(l)'
    <2>1. Lists(file["triggers"])' /\ Pays(file["queue"])' /\ \A f \in Three : file'[f] # Torn
      BY <1>2, <1>5 DEF Lists, Pays
    <2>2. Announces(file["webhooks"], l)'
      BY <1>2, <1>5 DEF Announces, Adding
    <2> QED BY <2>1, <2>2 DEF FilesFine, Three
  <1>12. EmitFine(l)'
    <2>1. AllServed(l, file["queue"])'
      BY <1>2, <1>7, <1>9 DEF AllServed, PaysOneMore
    <2>2. Promises(l)'
      BY <1>2, <1>5, <1>6 DEF Promises
    <2> QED BY <1>6, <2>1, <2>2 DEF EmitFine, Saves
  <1>13. AddFine(l)'
    <2>1. Lists(l.v)' /\ ~Adds(l)'
      BY <1>2, <1>5, <1>6, <1>10 DEF Lists, Adds
    <2> QED BY <1>6, <2>1 DEF AddFine, Saves
  <1> QED BY <1>1, <1>6, <1>11, <1>12, <1>13, EventsMove DEF Fine, Saves

LEMMA TruncateEvents ==
    ASSUME TypeOK, InTurn, EventsInv, overlaps' = 0, ~tornCrash', NEW p \in Procs, Truncate(p)
    PROVE  EventsInv'
  <1>1. \A q \in Procs \ {p} : loc[q].pc = "idle"
    BY GoesOn DEF Continue
  <1>2. UNCHANGED <<known, answers, owed, half, tornCrash>>
    BY DEF Truncate, ghosts, faults
  <1>3. PICK m : m = loc[p]
    OBVIOUS
  <1>4. Fine(m) /\ m.pc = "truncate" /\ m \in Locals
    BY <1>2, <1>3, FineBefore, LocFacts DEF Continue, Truncate
  <1>5. \A f \in Files \ {m.f} : file'[f] = file[f]
    BY <1>3 DEF Truncate, TypeOK
  <1>6. PICK l : Became(p, l) /\ Moved(m, l) /\ l.pc = "write"
    BY <1>3, TruncateLocal
  <1>7. Three \subseteq Files
    BY DEF Three, Files
  <1>8. /\ \A f \in Three : file[f] # Torn
        /\ Lists(file["triggers"]) /\ Announces(file["webhooks"], m) /\ Pays(file["queue"])
    BY <1>4 DEF Fine, FilesFine, Three, Writing
  <1>9. FilesFine(l)'
    <2>1. \A f \in Three : ~Writing(l, f)' => file'[f] = file[f]
      BY <1>5, <1>6, <1>7 DEF Moved, Writing
    <2>2. ~Writing(l, "triggers")' => Lists(file["triggers"])'
      BY <1>2, <1>8, <2>1 DEF Lists, Three
    <2>3. ~Writing(l, "webhooks")' => Announces(file["webhooks"], l)'
      BY <1>2, <1>6, <1>8, <2>1 DEF Announces, Three, Adding, Adds, Moved
    <2>4. ~Writing(l, "queue")' => Pays(file["queue"])'
      BY <1>2, <1>8, <2>1 DEF Pays, Three
    <2> QED BY <1>8, <2>1, <2>2, <2>3, <2>4 DEF FilesFine, Three
  <1>10. (\A f : Saves(l, f) <=> Saves(m, f)) /\ (Emits(l) <=> Emits(m)) /\ (Adds(l) <=> Adds(m))
    BY <1>4, <1>6 DEF Saves, Moved, Emits, Adds
  <1>11. EmitFine(l)'
    <2>1. EmitFine(m)
      BY <1>4 DEF Fine
    <2>2. Saves(l, "queue") => Lists(l.doc)' /\ Served(l, l.v)' /\ Promises(l)' /\ Pays(l.v)'
      BY <1>2, <1>6, <1>10, <2>1 DEF EmitFine, Moved, Lists, Served, PaysOneMore, Promises, Pays
    <2>3. Saves(l, "triggers") /\ Emits(l) => AllServed(l, file["queue"])' /\ Promises(l)'
      <3> SUFFICES ASSUME Saves(l, "triggers"), Emits(l) PROVE AllServed(l, file["queue"])' /\ Promises(l)'
        OBVIOUS
      <3>1. file'["queue"] = file["queue"]
        BY <1>5, <1>6, <1>7 DEF Saves, Moved, Three
      <3>2. AllServed(m, file["queue"]) /\ Promises(m)
        BY <1>10, <2>1 DEF EmitFine
      <3> QED BY <1>2, <1>6, <3>1, <3>2 DEF Moved, AllServed, PaysOneMore, Promises
    <2> QED BY <1>6, <2>2, <2>3 DEF EmitFine, Saves, Emits
  <1>12. AddFine(l)'
    <2>1. AddFine(m)
      BY <1>4 DEF Fine
    <2>2. Saves(l, "webhooks") => Announces(l.v, l)' /\ Fresh(l, l.v)'
      BY <1>2, <1>6, <1>10, <2>1 DEF AddFine, Moved, Announces, Fresh, Adding, Adds
    <2>3. Saves(l, "triggers") => Lists(l.v)'
      BY <1>2, <1>6, <1>10, <2>1 DEF AddFine, Moved, Lists
    <2>4. Saves(l, "triggers") /\ Adds(l) => Listed(l.v, l.arg)' /\ Fresh(l, file["webhooks"])'
      <3> SUFFICES ASSUME Saves(l, "triggers"), Adds(l) PROVE Listed(l.v, l.arg)' /\ Fresh(l, file["webhooks"])'
        OBVIOUS
      <3>1. file'["webhooks"] = file["webhooks"]
        BY <1>5, <1>6, <1>7 DEF Saves, Moved, Three
      <3>2. Listed(m.v, m.arg) /\ Fresh(m, file["webhooks"])
        BY <1>10, <2>1 DEF AddFine
      <3> QED BY <1>2, <1>6, <3>1, <3>2 DEF Moved, Listed, Fresh
    <2> QED BY <1>6, <2>2, <2>3, <2>4 DEF AddFine, Saves, Adds
  <1> QED BY <1>1, <1>6, <1>9, <1>11, <1>12, EventsMove DEF Fine


LEMMA WriteEvents ==
    ASSUME TypeOK, InTurn, EventsInv, overlaps' = 0, ~tornCrash', NEW p \in Procs, Write(p)
    PROVE  EventsInv'
  <1>1. \A q \in Procs \ {p} : loc[q].pc = "idle"
    BY GoesOn DEF Continue
  <1>2. UNCHANGED <<known, answers, owed, half, tornCrash>>
    BY DEF Write, faults
  <1>3. PICK m : m = loc[p]
    OBVIOUS
  <1>4. /\ Fine(m) /\ m.pc = "write" /\ m \in Locals /\ LocalOk(m) /\ m.f \in Files /\ m.v \in Doc(m.f)
        /\ file'[m.f] = m.v /\ \A f \in Files \ {m.f} : file'[f] = file[f]
    BY <1>2, <1>3, FineBefore, WriteFacts DEF Continue
  <1>5. PICK l : Became(p, l) /\ Moved(m, l) /\ l.pc = m.then
    BY <1>3, WriteLocal
  <1>6. /\ \A f \in Three \ {m.f} : file[f] # Torn
        /\ m.f # "triggers" => Lists(file["triggers"])
        /\ m.f # "webhooks" => Announces(file["webhooks"], m)
        /\ m.f # "queue" => Pays(file["queue"])
    BY <1>4 DEF Fine, FilesFine, Three, Writing
  <1>7. Three \subseteq Files
    BY DEF Three, Files
  <1>8. (Emits(l) <=> Emits(m)) /\ (Adds(l) <=> Adds(m)) /\ l.pc \notin {"idle", "truncate", "write"}
    <2>1. m.then \in {"tick", "round", "stop", "hooked", "match", "done"}
      BY <1>4 DEF LocalOk, Saves, Files
    <2> QED BY <1>5, <2>1 DEF Moved, Emits, Adds
  <1>9. \A f : ~Saves(l, f) /\ ~Writing(l, f)
    BY <1>8 DEF Saves, Writing
  <1>10. CASE m.f \in {"jobs", "runner"}
    <2>1. m.arg = None /\ l.arg = None /\ l.pc \in {"done", "round", "tick", "stop"}
      BY <1>4, <1>5, <1>10 DEF LocalOk, Saves, Moved
    <2>2. FilesFine(m) /\ ~Adds(m) /\ (\A f \in Three : ~Writing(m, f) /\ file'[f] = file[f])
      BY <1>4, <1>7, <1>10, <2>1, NotAdding DEF Fine, Writing, Three
    <2>3. Fine(l)'
      BY <1>2, <1>9, <2>1, <2>2, QuietFine
    <2> QED BY <1>1, <1>5, <1>8, <2>3, EventsMove
  <1>11. CASE m.f \in Three
    <2>1. m.v # Torn
      BY <1>4, <1>11, DocFacts, ScheduleAssumption DEF Three
    <2>2. \A f \in Three : file'[f] # Torn
      BY <1>4, <1>6, <1>7, <2>1
    <2>3. /\ Saves(m, m.f) /\ EmitFine(m) /\ AddFine(m)
      BY <1>4 DEF Saves, Fine
    <2>4. CASE m.f = "webhooks"
      <3>1. l.pc = "hooked" /\ Announces(m.v, m) /\ Fresh(m, m.v) /\ file'["webhooks"] = m.v
            /\ file'["triggers"] = file["triggers"] /\ file'["queue"] = file["queue"]
        BY <1>4, <1>5, <1>7, <2>3, <2>4 DEF LocalOk, Saves, AddFine, Three
      <3>2. FilesFine(l)'
        <4>1. Announces(file["webhooks"], l)'
          BY <1>2, <1>5, <1>8, <3>1 DEF Announces, Adding, Moved, Adds
        <4>2. Lists(file["triggers"])' /\ Pays(file["queue"])'
          BY <1>2, <1>6, <2>4, <3>1 DEF Lists, Pays
        <4> QED BY <2>2, <4>1, <4>2 DEF FilesFine, Three
      <3>3. EmitFine(l)'
        BY <3>1 DEF EmitFine, Saves
      <3>4. AddFine(l)'
        <4>1. Fresh(l, file["webhooks"])'
          BY <1>2, <1>5, <3>1 DEF Fresh, Moved
        <4> QED BY <3>1, <4>1 DEF AddFine, Saves
      <3> QED BY <1>1, <1>5, <1>8, <3>2, <3>3, <3>4, EventsMove DEF Fine
    <2>5. CASE m.f = "triggers"
      <3>1. l.pc = "done" /\ Lists(m.v) /\ file'["triggers"] = m.v
            /\ file'["webhooks"] = file["webhooks"] /\ file'["queue"] = file["queue"]
        BY <1>4, <1>5, <1>7, <2>3, <2>5 DEF LocalOk, Saves, AddFine, Three
      <3>2. FilesFine(l)'
        <4>1. Announces(file["webhooks"], l)'
          BY <1>2, <1>5, <1>6, <1>8, <2>5, <3>1 DEF Announces, Adding, Moved, Adds
        <4>2. Lists(file["triggers"])' /\ Pays(file["queue"])'
          BY <1>2, <1>6, <2>5, <3>1 DEF Lists, Pays
        <4> QED BY <2>2, <4>1, <4>2 DEF FilesFine, Three
      <3>3. EmitFine(l)'
        <4>1. Emits(l) => AllServed(m, file["queue"]) /\ Promises(m)
          BY <1>8, <2>3, <2>5 DEF EmitFine
        <4>2. Emits(l) => AllServed(l, file["queue"])' /\ Promises(l)'
          BY <1>2, <1>5, <3>1, <4>1 DEF AllServed, PaysOneMore, Promises, Moved
        <4> QED BY <3>1, <4>2 DEF EmitFine, Saves, Emits
      <3>4. AddFine(l)'
        <4>1. Adds(l) => Listed(m.v, m.arg) /\ Fresh(m, file["webhooks"])
          BY <1>8, <2>3, <2>5 DEF AddFine
        <4>2. Adds(l) => Listed(file["triggers"], l.arg)' /\ Fresh(l, file["webhooks"])'
          BY <1>2, <1>5, <3>1, <4>1 DEF Listed, Fresh, Moved
        <4> QED BY <3>1, <4>2 DEF AddFine, Saves, Adds
      <3> QED BY <1>1, <1>5, <1>8, <3>2, <3>3, <3>4, EventsMove DEF Fine
    <2>6. CASE m.f = "queue"
      <3>1. l.pc = "match" /\ file'["queue"] = m.v /\ Lists(m.doc) /\ Served(m, m.v) /\ Promises(m) /\ Pays(m.v)
            /\ file'["webhooks"] = file["webhooks"] /\ file'["triggers"] = file["triggers"]
        BY <1>4, <1>5, <1>7, <2>3, <2>6 DEF LocalOk, Saves, EmitFine, Three
      <3>2. FilesFine(l)'
        <4>1. Announces(file["webhooks"], l)'
          BY <1>2, <1>5, <1>6, <1>8, <2>6, <3>1 DEF Announces, Adding, Moved, Adds
        <4>2. Lists(file["triggers"])' /\ Pays(file["queue"])'
          BY <1>2, <1>6, <2>6, <3>1 DEF Lists, Pays
        <4> QED BY <2>2, <4>1, <4>2 DEF FilesFine, Three
      <3>3. EmitFine(l)'
        <4>1. Lists(l.doc)' /\ Promises(l)'
          BY <1>2, <1>5, <3>1 DEF Lists, Promises, Moved
        <4>2. Served(l, file["queue"])'
          BY <1>2, <1>5, <3>1 DEF Served, PaysOneMore, Moved
        <4> QED BY <3>1, <4>1, <4>2 DEF EmitFine, Saves
      <3>4. AddFine(l)'
        BY <3>1 DEF AddFine, Saves
      <3> QED BY <1>1, <1>5, <1>8, <3>2, <3>3, <3>4, EventsMove DEF Fine
    <2> QED BY <1>11, <2>4, <2>5, <2>6 DEF Three
  <1> QED BY <1>4, <1>10, <1>11 DEF Files, Three

LEMMA AnswerEvents ==
    ASSUME TypeOK, InTurn, EventsInv, overlaps' = 0, ~tornCrash', NEW p \in Procs, Answer(p)
    PROVE  EventsInv'
  <1>1. \A q \in Procs \ {p} : loc[q].pc = "idle"
    BY GoesOn DEF Continue
  <1>2. UNCHANGED <<file, half, tornCrash>>
    BY DEF Answer, faults
  <1>3. PICK m : m = loc[p]
    OBVIOUS
  <1>4. Fine(m) /\ m.pc = "done" /\ m \in Locals /\ (m.arg = None \/ Adds(m) \/ Emits(m))
    BY <1>2, <1>3, FineBefore, LocFacts DEF Continue, Answer, LocalOk
  <1>5. Became(p, Idle)
    BY EndLocal
  <1>6. /\ \A f \in Three : file[f] # Torn
        /\ Lists(file["triggers"]) /\ Announces(file["webhooks"], m) /\ Pays(file["queue"])
        /\ Emits(m) /\ m.arg # None => AllServed(m, file["queue"]) /\ Promises(m)
        /\ Adds(m) => Listed(file["triggers"], m.arg) /\ Fresh(m, file["webhooks"])
    BY <1>4 DEF Fine, FilesFine, EmitFine, AddFine, Three, Writing
  <1>7. known \subseteq Trigger /\ \A n \in Names : answers[n] \in Events \cup {None}
    BY DEF TypeOK
  <1>8. Lists(file["triggers"])'
    <2>1. known' = known \/ (Adds(m) /\ known' = known \cup {m.arg})
      BY <1>3, AnswerFacts
    <2> QED BY <1>2, <1>6, <2>1 DEF Lists, Listed
  <1>9. Announces(file["webhooks"], Idle)'
    <2> SUFFICES ASSUME NEW n \in Names \ half
                 PROVE  IF answers'[n] # None THEN FirstHook(file["webhooks"], n, answers'[n])
                        ELSE \A k \in DOMAIN file["webhooks"] : file["webhooks"][k].name # n
      BY <1>2 DEF Announces, FirstHook
    <2>1. IF answers[n] # None THEN FirstHook(file["webhooks"], n, answers[n])
          ELSE \/ \A k \in DOMAIN file["webhooks"] : file["webhooks"][k].name # n
               \/ Adding(m, n) /\ FirstHook(file["webhooks"], n, m.hook.event)
      BY <1>6 DEF Announces
    <2>2. CASE Adds(m) /\ m.hook \in Hooks
      <3>1. answers' = IF answers[m.hook.name] = None
                       THEN [answers EXCEPT ![m.hook.name] = m.hook.event] ELSE answers
        BY <1>3, <2>2, AnswerFacts
      <3>2. DOMAIN answers = Names /\ m.hook.name \in Names /\ m.hook.event # None
        <4>1. m.hook.event \in Events
          BY <2>2 DEF Events
        <4> QED BY <2>2, <4>1, ScheduleAssumption DEF TypeOK, Names
      <3>3. CASE n = m.hook.name /\ answers[n] = None
        <4>1. FirstHook(file["webhooks"], n, m.hook.event)
          BY <1>6, <2>2, <3>3 DEF Fresh
        <4> QED BY <3>1, <3>2, <3>3, <4>1
      <3>4. CASE n # m.hook.name \/ answers[n] # None
        <4>1. answers'[n] = answers[n]
          BY <3>1, <3>2, <3>4
        <4>2. answers[n] = None => ~Adding(m, n)
          BY <3>4 DEF Adding
        <4> QED BY <2>1, <4>1, <4>2
      <3> QED BY <3>3, <3>4
    <2>3. CASE ~(Adds(m) /\ m.hook \in Hooks)
      <3>1. answers' = answers
        BY <1>3, <2>3, AnswerFacts DEF Adds
      <3> QED BY <2>1, <2>3, <3>1 DEF Adding
    <2> QED BY <2>2, <2>3
  <1>10. Pays(file["queue"])'
    <2> SUFFICES ASSUME NEW g \in 1 .. MaxCalls PROVE owed'[g] <= Items(file["queue"], g)
      BY <1>2 DEF Pays, Items
    <2>1. owed[g] <= Items(file["queue"], g)
      BY <1>6 DEF Pays
    <2>2. CASE owed'[g] = owed[g]
      BY <2>1, <2>2
    <2>3. CASE owed'[g] # owed[g]
      <3>1. /\ owed'[g] = owed[g] + 1 /\ Emits(m) /\ m.arg # None
            /\ ~(m.hook \in Post /\ m.hook # None /\ m.hook.name \in half)
            /\ \E trig \in known : /\ trig.id = g
                                   /\ Matches(trig, [event |-> Promised(m), payload |-> m.arg.payload])
        BY <1>3, <2>3, AnswerFacts
      <3>2. PICK trig \in known : trig.id = g /\ Matches(trig, [event |-> Promised(m), payload |-> m.arg.payload])
        BY <3>1
      <3>3. Promised(m) = m.arg.event
        <4>1. m.hook # None => m.hook \in Post
          BY <3>1 DEF Emits
        <4>2. Promises(m)
          BY <1>6, <3>1
        <4> QED BY <3>1, <4>1, <4>2 DEF Promised, Promises
      <3>4. Matches(trig, m.arg)
        BY <3>2, <3>3 DEF Matches
      <3>5. PaysOneMore(file["queue"], g)
        BY <1>6, <3>1, <3>2, <3>4 DEF AllServed
      <3> QED BY <3>1, <3>5 DEF PaysOneMore
    <2> QED BY <2>2, <2>3
  <1>11. Fine(Idle)'
    <2>1. FilesFine(Idle)'
      BY <1>2, <1>6, <1>8, <1>9, <1>10 DEF FilesFine, Three
    <2>2. EmitFine(Idle)' /\ AddFine(Idle)'
      BY IdleOk DEF EmitFine, AddFine, Saves
    <2> QED BY <2>1, <2>2 DEF Fine
  <1> QED BY <1>1, <1>5, <1>11, EventsMove

LEMMA CrashEvents ==
    ASSUME TypeOK, InTurn, EventsInv, overlaps' = 0, ~tornCrash', NEW p \in Procs, Crash(p)
    PROVE  EventsInv'
  <1>1. \A q \in Procs \ {p} : loc[q].pc = "idle"
    BY GoesOn
  <1>2. PICK m : m = loc[p]
    OBVIOUS
  <1>3. /\ UNCHANGED <<file, known, answers, owed>> /\ ~tornCrash /\ m.pc # "write"
        /\ half' = IF m.hook \in Hooks THEN half \cup {m.hook.name} ELSE half
    BY <1>2 DEF Crash, TypeOK
  <1>4. Fine(m)
    BY <1>2, <1>3, FineBefore
  <1>5. Became(p, Idle)
    BY EndLocal
  <1>6. /\ \A f \in Three : file[f] # Torn
        /\ Lists(file["triggers"]) /\ Announces(file["webhooks"], m) /\ Pays(file["queue"])
    BY <1>3, <1>4 DEF Fine, FilesFine, Three, Writing
  <1>7. Announces(file["webhooks"], Idle)'
    <2>1. \A n \in Names \ half' : n \notin half /\ ~Adding(m, n)
      BY <1>3 DEF Adding
    <2> QED BY <1>3, <1>6, <2>1 DEF Announces
  <1>8. Fine(Idle)'
    <2>1. FilesFine(Idle)'
      <3>1. Lists(file["triggers"])' /\ Pays(file["queue"])'
        BY <1>3, <1>6 DEF Lists, Pays
      <3> QED BY <1>3, <1>6, <1>7, <3>1 DEF FilesFine, Three
    <2>2. EmitFine(Idle)' /\ AddFine(Idle)'
      BY IdleOk DEF EmitFine, AddFine, Saves
    <2> QED BY <2>1, <2>2 DEF Fine
  <1> QED BY <1>1, <1>5, <1>8, EventsMove

LEMMA EventsStep == TypeOK /\ InTurn /\ EventsInv /\ [Next]_vars => EventsInv'
  <1> SUFFICES ASSUME TypeOK, InTurn, EventsInv, [Next]_vars, overlaps' = 0, ~tornCrash' PROVE EventsInv'
    BY DEF EventsInv
  <1>1. CASE NextMinute \/ UNCHANGED vars
    <2>1. UNCHANGED <<file, loc, known, answers, owed, half, overlaps, tornCrash>>
      BY <1>1 DEF NextMinute, vars, ghosts, faults
    <2>2. \A l : Fine(l) => Fine(l)'
      <3> TAKE l
      <3>1. FilesFine(l) => FilesFine(l)'
        BY <2>1 DEF FilesFine, Lists, Announces, Pays, Writing, Adding, Adds
      <3>2. EmitFine(l) => EmitFine(l)'
        BY <2>1 DEF EmitFine, Lists, Served, AllServed, Promises, Pays, PaysOneMore, Saves, Emits
      <3>3. AddFine(l) => AddFine(l)'
        BY <2>1 DEF AddFine, Lists, Announces, Fresh, Adding, Adds, Saves
      <3> QED BY <3>1, <3>2, <3>3 DEF Fine
    <2>3. AllIdle' = AllIdle /\ Busy' = Busy /\ overlaps = 0 /\ ~tornCrash
      BY <2>1 DEF AllIdle, Busy
    <2>4. ASSUME NEW p \in Busy' PROVE Fine(loc[p])'
      <3>1. PICK l : l = loc[p] /\ l = loc'[p]
        BY <2>1
      <3>2. Fine(l)'
        BY <2>2, <2>3, <2>4, <3>1 DEF EventsInv
      <3> QED BY <2>4, <3>1, <3>2, FineIs DEF Busy
    <2>5. AllIdle' => Fine(Idle)'
      BY <2>2, <2>3 DEF EventsInv
    <2> QED BY <2>4, <2>5 DEF EventsInv
  <1> QED BY <1>1, CommandEvents, JobEvents, HookTriggerEvents, FindHookEvents, EnqueueEvents, SaveCountersEvents,
             TruncateEvents, WriteEvents, AnswerEvents, CrashEvents DEF Next, Continue

(* What was acknowledged is in the queue: as long as operations take turns *)
(* and no file is cut off, every acknowledged event has an item for every  *)
(* acknowledged trigger that matches.                                      *)
THEOREM EventsReachTheQueue == Spec => []EventsAreQueued
  <1>1. Init => EventsInv
    <2> SUFFICES ASSUME Init PROVE EventsInv
      OBVIOUS
    <2>1. /\ \A f \in Three : file[f] = <<>>
          /\ known = {} /\ \A g \in 1 .. MaxCalls : owed[g] = 0
          /\ \A n \in Names : answers[n] = None
      BY DEF Init, Three, Files, Names
    <2>2. \A f \in Three : file[f] # Torn
      <3>1. <<>> \in Seq(Trigger)
        OBVIOUS
      <3> QED BY <2>1, <3>1, ScheduleAssumption
    <2>3. Items(<<>>, 1) = 0 /\ \A g : Items(<<>>, g) = 0
      <3>1. \A g : {k \in DOMAIN <<>> : <<>>[k].trigger = g} = {}
        OBVIOUS
      <3> QED BY <3>1, FS_EmptySet DEF Items
    <2>4. Pays(file["queue"])
      BY <2>1, <2>3 DEF Pays, Three
    <2>5. Lists(file["triggers"]) /\ Announces(file["webhooks"], Idle)
      BY <2>1 DEF Lists, Announces, Three
    <2>6. FilesFine(Idle)
      BY <2>2, <2>4, <2>5 DEF FilesFine, Three
    <2>7. EmitFine(Idle) /\ AddFine(Idle)
      BY IdleOk DEF EmitFine, AddFine, Saves
    <2>8. Busy = {}
      BY IdleOk DEF Init, Busy
    <2> QED BY <2>6, <2>7, <2>8 DEF EventsInv, Fine
  <1>2. TypeOK /\ EventsInv => EventsAreQueued
    <2> SUFFICES ASSUME TypeOK, EventsInv, AllIdle, overlaps = 0, ~tornCrash, NEW g \in DOMAIN owed
                 PROVE  owed[g] <= Cardinality({k \in DOMAIN Load("queue") : Load("queue")[k].trigger = g})
      BY DEF EventsAreQueued
    <2>1. Pays(file["queue"]) /\ file["queue"] # Torn
      BY IdleOk DEF EventsInv, Fine, FilesFine, Writing
    <2>2. Load("queue") = file["queue"] /\ g \in 1 .. MaxCalls
      BY <2>1 DEF Load, TypeOK
    <2> QED BY <2>1, <2>2 DEF Pays, Items
  <1> QED BY <1>1, <1>2, EventsStep, TakesTurns, ScheduleTypes, PTL DEF Spec
=============================================================================

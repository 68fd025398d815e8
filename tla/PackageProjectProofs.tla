------------------------- MODULE PackageProjectProofs -------------------------
(***************************************************************************)
(* Proofs about PackageProject: its types, that a command which installs   *)
(* leaves no dependency behind, that a sync delivers every declared        *)
(* import, and that the lockfile falls out of step by one package per slip.*)
(***************************************************************************)
EXTENDS PackageProject, FiniteSetTheorems, SequenceTheorems, WellFoundedInduction, TLAPS

-----------------------------------------------------------------------------
(* The inductive invariant, ProjectInv below: the types of all files and   *)
(* of the command under way; what a command still has to do for the        *)
(* packages it visited or touched (VisitedInv, TouchedInv) and for the     *)
(* imports (SyncInv); and how far the lockfile may be from what is         *)
(* installed (SlipInv).                                                    *)
Job == [name : Names, spec : Specs, src : {"remote", "local", "offline"}, top : BOOLEAN]

IsMap(f) == f = [n \in DOMAIN f |-> f[n]] /\ DOMAIN f \subseteq Names /\ \A n \in DOMAIN f : f[n] \in Specs

IsLock(l) == /\ l = [packages |-> l.packages, root |-> l.root]
             /\ IsMap(l.packages) /\ l.root \subseteq Names

CmdShape(c) ==
    c = [pc |-> c.pc, todo |-> c.todo, ver |-> c.ver, entry |-> c.entry, visited |-> c.visited,
         new |-> c.new, then |-> c.then, left |-> c.left, fallback |-> c.fallback,
         added |-> c.added, kind |-> c.kind, touched |-> c.touched]

CmdOK(c) ==
    /\ CmdShape(c)
    /\ c.pc \in {"idle", "run", "extract", "lock", "lock_open", "resolve"}
    /\ c.todo \in Seq(Job)
    /\ c.ver \in Nat /\ c.entry \in Specs
    /\ c.visited \subseteq Names \X Specs
    /\ c.new = Torn \/ IsLock(c.new)
    /\ c.then \in {"end", "deps", "resolve"}
    /\ c.left \subseteq Names
    /\ c.fallback \in Seq(Job)
    /\ IsMap(c.added)
    /\ c.kind \in {"none", "install", "offline", "uninstall", "sync", "resolve"}
    /\ c.touched \subseteq Names

(* Only releases are published, remotely and locally.                      *)
StoreOK ==
    /\ DOMAIN remote = Names /\ remote = [n \in Names |-> remote[n]]
    /\ \A n \in Names : remote[n] \in Seq(Nat) /\ ToSet(remote[n]) \subseteq Releases[n]
    /\ DOMAIN local = Names /\ local = [n \in Names |-> local[n]]
    /\ \A n \in Names : local[n] \subseteq Releases[n]

(* The project's files.                                                    *)
ProjectOK ==
    /\ IsMap(manifest) /\ \A n \in DOMAIN manifest : manifest[n] # NoSpec
    /\ DOMAIN installed = Names /\ installed = [n \in Names |-> installed[n]]
    /\ \A n \in Names : installed[n] \in {None, Partial} \cup DOMAIN Deps[n]
    /\ lock = Torn \/ IsLock(lock)
    /\ imports \subseteq Names /\ importMap \subseteq imports /\ runtimeMap \subseteq imports
    /\ ops \in Nat /\ faults \in Nat /\ slips \in Nat /\ cut \in BOOLEAN

(* The job under way has begun and is not yet gone from the list.          *)
Locking == cmd.pc \in {"lock", "lock_open"}
Busy    == cmd.pc = "extract" \/ (Locking /\ cmd.then = "deps")
Working == cmd.pc = "run" \/ Busy

(* The version that a lock entry of n stands for while the command runs.   *)
VerOf(src, n, e) == IF src = "remote" \/ (e.op = "=" /\ e.ver \in local[n]) THEN e.ver ELSE Starter[n]

(* The jobs of a command have one source; where in the command they stand. *)
JobsOK ==
    /\ \A i \in DOMAIN cmd.todo : cmd.todo[i].src = cmd.todo[1].src
    /\ cmd.todo # <<>> /\ cmd.todo[1].src = "offline" => Len(cmd.todo) = 1 /\ cmd.pc \in {"run", "extract"}
    /\ (cmd.kind = "offline") <=> (cmd.todo # <<>> /\ cmd.todo[1].src = "offline")
    /\ Len(cmd.fallback) <= 1
    /\ \A i \in DOMAIN cmd.fallback : cmd.fallback[i].src = "remote" /\ cmd.fallback[i].top
    /\ cmd.pc = "idle" => cmd = Idle
    /\ Busy => /\ cmd.todo # <<>>
               /\ cmd.ver \in DOMAIN Deps[cmd.todo[1].name]
               /\ cmd.ver = VerOf(cmd.todo[1].src, cmd.todo[1].name, cmd.entry)
    /\ Busy /\ Locking => /\ installed[cmd.todo[1].name] = cmd.ver
                          /\ cmd.todo[1].name \in cmd.touched
    /\ \A n \in DOMAIN cmd.added : cmd.added[n] # NoSpec
    /\ Locking <=> (cmd.new # Torn)
    /\ cmd.pc \in {"run", "extract"} => cmd.then = "end"
    /\ cmd.then = "deps" => Locking
    /\ cmd.then = "resolve" \/ cmd.pc = "resolve" => cmd.kind = "resolve"

(* A dependency is met if it is installed or still to be installed.        *)
Pending(d) == \E i \in DOMAIN cmd.todo : cmd.todo[i].name = d
Met(d)     == d \in Names /\ (Has(d) \/ Pending(d))
AllMet(n, v) == \A d \in DOMAIN Deps[n][v] : Met(d)

(* Whatever was visited has its dependencies met, in the version that was  *)
(* chosen for it: this is what makes it safe to skip it the second time.   *)
VisitedInv ==
    Working /\ cmd.todo # <<>> /\ ~cmd.todo[1].top =>
        \A k \in cmd.visited : AllMet(k[1], VerOf(cmd.todo[1].src, k[1], k[2]))

TouchedInv ==
    Working => \A n \in cmd.touched : \/ Busy /\ n = cmd.todo[1].name
                                      \/ Has(n) /\ AllMet(n, installed[n])

(* How an import gets installed: it is still to be looked at, or there, or *)
(* being installed, with the registry to fall back to.                     *)
InHand(n) ==
    \/ n \in cmd.left \/ Has(n)
    \/ /\ cmd.todo # <<>> /\ cmd.todo[1].name = n /\ cmd.todo[1].top
       /\ cmd.todo[1].src = "local" => cmd.fallback # <<>> /\ cmd.fallback[1].name = n
    \/ cmd.pc = "extract" /\ cmd.todo[1].name = n

SyncInv ==
    /\ Working /\ cmd.kind \in {"sync", "resolve"} =>
          \A n \in imports \cap DOMAIN manifest : InHand(n)
    /\ Working => \A n \in DOMAIN cmd.added : Has(n) \/ (cmd.pc = "extract" /\ cmd.todo[1].name = n)
    /\ cmd.then = "resolve" \/ cmd.pc = "resolve" => \A n \in imports \cap DOMAIN manifest : Has(n)

(* The names at which a lockfile and the installed packages disagree.      *)
Fits(l, i, n) == IF n \in DOMAIN l.packages
                 THEN i[n] \notin {None, Partial} /\ l.packages[n] = Exact(i[n])
                 ELSE i[n] = None
Off(l, i) == {n \in Names : ~Fits(l, i, n)}

(* The lockfile that stands, or is about to.                               *)
Coming == IF Locking THEN cmd.new ELSE lock

(* The slip that was counted for the installation under way, but is not    *)
(* yet to be seen in the files.                                            *)
Allowance == IF cmd.kind = "offline" \/ (cmd.pc = "extract" /\ cmd.entry # Exact(cmd.ver)) THEN 1 ELSE 0

(* Outside of crashes the names that disagree are counted, the name that is *)
(* being extracted left out; and the lockfile about to be written changes  *)
(* at one name only, so that a crash before it is written costs one.       *)
SlipInv ==
    /\ lock = Torn => cut \/ cmd.pc = "lock_open"
    /\ ~cut /\ cmd.pc # "extract" => Cardinality(Off(Coming, installed)) + Allowance <= slips
    /\ ~cut /\ cmd.pc = "extract" =>
          Cardinality(Off(Coming, installed) \ {cmd.todo[1].name}) + Allowance <= slips
    /\ cmd.pc = "lock_open" => lock = Torn
    /\ ~cut /\ cmd.pc = "lock" =>
          \/ cmd.new = lock
          \/ \E n \in Names : \A m \in Names \ {n} :
                /\ m \in DOMAIN cmd.new.packages <=> m \in DOMAIN lock.packages
                /\ m \in DOMAIN lock.packages => cmd.new.packages[m] = lock.packages[m]
-----------------------------------------------------------------------------
(* What each step does to the command, field by field.                     *)

Fields(z, pc, todo, ver, entry, visited, new, then, left, fallback, added, kind, touched) ==
    /\ CmdShape(z)
    /\ z.pc = pc /\ z.todo = todo /\ z.ver = ver /\ z.entry = entry /\ z.visited = visited
    /\ z.new = new /\ z.then = then /\ z.left = left /\ z.fallback = fallback
    /\ z.added = added /\ z.kind = kind /\ z.touched = touched

(* A command that begins.                                                  *)
Started(z, pc, todo, new, left, kind) ==
    Fields(z, pc, todo, None, NoSpec, {}, new, "end", left, <<>>, NoDeps, kind, {})

LEMMA IdleFields == Started(Idle, "idle", <<>>, Torn, {}, "none")
BY DEF Idle, Started, Fields, CmdShape

LEMMA StartFields ==
  ASSUME NEW kind, NEW todo, Start(kind, todo)
  PROVE  Started(cmd', "run", todo, Torn, {}, kind)
BY DEF Start, Idle, Started, Fields, CmdShape

LEMMA SyncFields ==
  ASSUME NEW kind, Sync(kind)
  PROVE  Started(cmd', "run", <<>>, Torn, imports, kind)
BY DEF Sync, Idle, Started, Fields, CmdShape

LEMMA UninstallFields ==
  ASSUME NEW n, NEW declared, Uninstall(n, declared)
  PROVE  IF installed[n] = None THEN Started(cmd', "idle", <<>>, Torn, {}, "none")
         ELSE Started(cmd', "lock", <<>>, Unlocked(n), {}, "uninstall")
<1>1. CASE installed[n] = None
  <2>1. cmd' = Idle
    BY <1>1 DEF Uninstall
  <2> QED BY <1>1, <2>1, IdleFields
<1>2. CASE installed[n] # None
  <2>1. cmd' = [Idle EXCEPT !.pc = "lock", !.kind = "uninstall", !.new = Unlocked(n)]
    BY <1>2 DEF Uninstall
  <2>2. Started(cmd', "lock", <<>>, Unlocked(n), {}, "uninstall")
    BY <2>1 DEF Idle, Started, Fields, CmdShape
  <2> QED BY <1>2, <2>2
<1> QED BY <1>1, <1>2

LEMMA BeginFields ==
  ASSUME CmdShape(cmd), Begin
  PROVE  \E f \in Found(Head(cmd.todo)) :
            /\ Fields(cmd', "extract", cmd.todo, f.ver, f.entry, cmd.visited, cmd.new, cmd.then,
                      cmd.left, cmd.fallback, cmd.added, cmd.kind, cmd.touched)
            /\ slips' = IF f.entry = Exact(f.ver) THEN slips ELSE slips + 1
<1>1. PICK f \in Found(Head(cmd.todo)) :
          /\ cmd' = [cmd EXCEPT !.pc = "extract", !.ver = f.ver, !.entry = f.entry]
          /\ slips' = IF f.entry = Exact(f.ver) THEN slips ELSE slips + 1
  BY DEF Begin
<1>2. Fields(cmd', "extract", cmd.todo, f.ver, f.entry, cmd.visited, cmd.new, cmd.then,
                      cmd.left, cmd.fallback, cmd.added, cmd.kind, cmd.touched)
  BY <1>1 DEF CmdShape, Fields
<1> QED BY <1>1, <1>2

LEMMA ExtractFields ==
  ASSUME CmdShape(cmd), Extract
  PROVE  IF Head(cmd.todo).src = "offline" THEN Started(cmd', "idle", <<>>, Torn, {}, "none")
         ELSE Fields(cmd', "lock", cmd.todo, cmd.ver, cmd.entry, cmd.visited,
                     [packages |-> Put(Load.packages, Head(cmd.todo).name, cmd.entry),
                      root     |-> Load.root \cup {Head(cmd.todo).name}],
                     "deps", cmd.left, cmd.fallback, cmd.added, cmd.kind,
                     cmd.touched \cup {Head(cmd.todo).name})
<1>1. CASE Head(cmd.todo).src = "offline"
  <2>1. cmd' = Idle
    BY <1>1 DEF Extract
  <2> QED BY <1>1, <2>1, IdleFields
<1>2. CASE Head(cmd.todo).src # "offline"
  <2> DEFINE h == Head(cmd.todo).name
             l == [packages |-> Put(Load.packages, h, cmd.entry), root |-> Load.root \cup {h}]
  <2>1. cmd' = [cmd EXCEPT !.pc = "lock", !.then = "deps", !.touched = cmd.touched \cup {h}, !.new = l]
    BY <1>2 DEF Extract
  <2> HIDE DEF h, l
  <2>2. Fields(cmd', "lock", cmd.todo, cmd.ver, cmd.entry, cmd.visited, l,
               "deps", cmd.left, cmd.fallback, cmd.added, cmd.kind, cmd.touched \cup {h})
    BY <2>1 DEF CmdShape, Fields
  <2> QED BY <1>2, <2>2 DEF h, l
<1> QED BY <1>1, <1>2

LEMMA TruncateFields ==
  ASSUME CmdShape(cmd), TruncateLock
  PROVE  Fields(cmd', "lock_open", cmd.todo, cmd.ver, cmd.entry, cmd.visited, cmd.new, cmd.then,
                cmd.left, cmd.fallback, cmd.added, cmd.kind, cmd.touched)
BY DEF TruncateLock, CmdShape, Fields

(* The jobs that come next after a package and its lockfile.               *)
DepJobs(j, v) == {Install(d, Deps[j.name][v][d], j.src, FALSE) : d \in DOMAIN Deps[j.name][v]}
NextJobs(j)   == IF Key(j.name, cmd.entry) \in Visited(j) THEN <<>> ELSE SetToSeq(DepJobs(j, cmd.ver))

LEMMA DescendFields ==
  ASSUME CmdShape(cmd), WriteLock, cmd.then = "deps", NEW j, j = Head(cmd.todo)
  PROVE  Fields(cmd', "run", NextJobs(j) \o Tail(cmd.todo), None, NoSpec,
                Visited(j) \cup {Key(j.name, cmd.entry)}, Torn, "end", cmd.left, cmd.fallback,
                IF j.top /\ j.spec = NoSpec THEN Put(cmd.added, j.name, Caret(cmd.entry.ver)) ELSE cmd.added,
                cmd.kind, cmd.touched)
<1> DEFINE td == NextJobs(j) \o Tail(cmd.todo)
           vs == Visited(j) \cup {Key(j.name, cmd.entry)}
           ad == IF j.top /\ j.spec = NoSpec THEN Put(cmd.added, j.name, Caret(cmd.entry.ver)) ELSE cmd.added
<1>1. cmd' = Descend
  BY DEF WriteLock
<1>2. cmd' = [cmd EXCEPT !.pc = "run", !.then = "end", !.new = Torn, !.ver = None, !.entry = NoSpec,
                !.visited = vs, !.todo = td, !.added = ad]
  BY <1>1 DEF Descend, NextJobs, DepJobs
<1> HIDE DEF td, vs, ad
<1>3. Fields(cmd', "run", td, None, NoSpec, vs, Torn, "end", cmd.left, cmd.fallback, ad, cmd.kind, cmd.touched)
  BY <1>2 DEF CmdShape, Fields
<1> QED BY <1>3 DEF td, vs, ad

LEMMA WrittenFields ==
  ASSUME CmdShape(cmd), WriteLock
  PROVE  /\ cmd.then = "resolve" =>
              Fields(cmd', "resolve", cmd.todo, cmd.ver, cmd.entry, cmd.visited, Torn, cmd.then,
                     cmd.left, cmd.fallback, cmd.added, cmd.kind, cmd.touched)
         /\ cmd.then = "end" => Started(cmd', "idle", <<>>, Torn, {}, "none")
<1>1. ASSUME cmd.then = "resolve"
      PROVE  Fields(cmd', "resolve", cmd.todo, cmd.ver, cmd.entry, cmd.visited, Torn, cmd.then,
                     cmd.left, cmd.fallback, cmd.added, cmd.kind, cmd.touched)
  <2>1. cmd' = [cmd EXCEPT !.pc = "resolve", !.new = Torn]
    BY <1>1 DEF WriteLock
  <2> QED BY <2>1 DEF CmdShape, Fields
<1>2. ASSUME cmd.then = "end" PROVE Started(cmd', "idle", <<>>, Torn, {}, "none")
  <2>1. cmd' = Idle
    BY <1>2 DEF WriteLock
  <2> QED BY <2>1, IdleFields
<1> QED BY <1>1, <1>2

LEMMA FailFields ==
  ASSUME CmdShape(cmd), Fail
  PROVE  IF Head(cmd.todo).src # "local" THEN Started(cmd', "idle", <<>>, Torn, {}, "none")
         ELSE \E ad : /\ ad = [n \in DOMAIN ad |-> cmd.added[n]] /\ DOMAIN ad \subseteq DOMAIN cmd.added
                      /\ Fields(cmd', cmd.pc, cmd.fallback, cmd.ver, cmd.entry, cmd.visited, cmd.new, cmd.then,
                                cmd.left, <<>>, ad, cmd.kind, {})
<1>1. CASE Head(cmd.todo).src # "local"
  <2>1. cmd' = Idle
    BY <1>1 DEF Fail
  <2> QED BY <1>1, <2>1, IdleFields
<1>2. CASE Head(cmd.todo).src = "local"
  <2> DEFINE ds == DOMAIN cmd.added \ {j.name : j \in ToSet(cmd.fallback)}
             ad == [n \in ds |-> cmd.added[n]]
  <2>1. cmd' = [cmd EXCEPT !.todo = cmd.fallback, !.fallback = <<>>, !.touched = {}, !.added = ad]
    BY <1>2 DEF Fail
  <2>2. DOMAIN ad = ds /\ ds \subseteq DOMAIN cmd.added
    OBVIOUS
  <2>3. ad = [n \in DOMAIN ad |-> cmd.added[n]] /\ DOMAIN ad \subseteq DOMAIN cmd.added
    BY <2>2
  <2> HIDE DEF ad
  <2>4. Fields(cmd', cmd.pc, cmd.fallback, cmd.ver, cmd.entry, cmd.visited, cmd.new, cmd.then,
               cmd.left, <<>>, ad, cmd.kind, {})
    BY <2>1 DEF CmdShape, Fields
  <2> QED BY <1>2, <2>3, <2>4
<1> QED BY <1>1, <1>2

(* The spec of an import's installation, and its way to the registry.      *)
SpecOf(n) == IF n \in DOMAIN manifest THEN manifest[n] ELSE NoSpec
Retry(n)  == IF SpecOf(n) # NoSpec \/ local[n] # {} \/ n \in DOMAIN Starter
             THEN <<Install(n, SpecOf(n), "remote", TRUE)>> ELSE <<>>

LEMMA NextImportFields ==
  ASSUME CmdShape(cmd), NEW n, NextImport(n)
  PROVE  IF Has(n) THEN Fields(cmd', cmd.pc, cmd.todo, cmd.ver, cmd.entry, cmd.visited, cmd.new, cmd.then,
                               cmd.left \ {n}, cmd.fallback, cmd.added, cmd.kind, cmd.touched)
         ELSE Fields(cmd', cmd.pc, <<Install(n, SpecOf(n), "local", TRUE)>>, cmd.ver, cmd.entry, cmd.visited,
                     cmd.new, cmd.then, cmd.left \ {n}, Retry(n), cmd.added, cmd.kind, cmd.touched)
<1>1. CASE Has(n)
  <2>1. cmd' = [cmd EXCEPT !.left = cmd.left \ {n}]
    BY <1>1 DEF NextImport
  <2>2. Fields(cmd', cmd.pc, cmd.todo, cmd.ver, cmd.entry, cmd.visited, cmd.new, cmd.then,
               cmd.left \ {n}, cmd.fallback, cmd.added, cmd.kind, cmd.touched)
    BY <2>1 DEF CmdShape, Fields
  <2> QED BY <1>1, <2>2
<1>2. CASE ~Has(n)
  <2> DEFINE td == <<Install(n, SpecOf(n), "local", TRUE)>>
             fb == Retry(n)
  <2>1. cmd' = [cmd EXCEPT !.left = cmd.left \ {n}, !.todo = td, !.fallback = fb]
    BY <1>2 DEF NextImport, SpecOf, Retry
  <2> HIDE DEF td, fb
  <2>2. Fields(cmd', cmd.pc, td, cmd.ver, cmd.entry, cmd.visited, cmd.new, cmd.then,
               cmd.left \ {n}, fb, cmd.added, cmd.kind, cmd.touched)
    BY <2>1 DEF CmdShape, Fields
  <2> QED BY <1>2, <2>2 DEF td, fb
<1> QED BY <1>1, <1>2

LEMMA EndSyncFields ==
  ASSUME CmdShape(cmd), EndSync
  PROVE  Fields(cmd', "lock", cmd.todo, cmd.ver, cmd.entry, cmd.visited, Load,
                IF cmd.kind = "resolve" THEN "resolve" ELSE "end",
                cmd.left, cmd.fallback, cmd.added, cmd.kind, cmd.touched)
<1> DEFINE th == IF cmd.kind = "resolve" THEN "resolve" ELSE "end"
           ld == Load
<1>1. cmd' = [cmd EXCEPT !.pc = "lock", !.new = ld, !.then = th]
  BY DEF EndSync
<1> HIDE DEF th, ld
<1>2. Fields(cmd', "lock", cmd.todo, cmd.ver, cmd.entry, cmd.visited, ld, th,
                cmd.left, cmd.fallback, cmd.added, cmd.kind, cmd.touched)
  BY <1>1 DEF CmdShape, Fields
<1> QED BY <1>2 DEF th, ld

-----------------------------------------------------------------------------
(* Sequences and finite sets.                                              *)

LEMMA SeqFacts ==
  ASSUME NEW S, NEW s \in Seq(S)
  PROVE  /\ Len(s) \in Nat /\ DOMAIN s = 1 .. Len(s) /\ \A i \in DOMAIN s : s[i] \in S
         /\ s # <<>> <=> 1 \in DOMAIN s
         /\ s # <<>> => Head(s) = s[1]
<1>1. Len(s) \in Nat /\ s \in [1 .. Len(s) -> S] /\ DOMAIN s = 1 .. Len(s)
  BY LenProperties
<1>2. s # <<>> => Len(s) # 0
  BY EmptySeq
<1>3. s = <<>> => Len(s) = 0
  BY EmptySeq
<1>4. s # <<>> => Head(s) = s[1]
  OBVIOUS
<1> QED BY <1>1, <1>2, <1>3, <1>4

(* What replaces the first element of a sequence, and what stays.          *)
Joined(fs, gs, hs) ==
    /\ \A i \in DOMAIN hs : \/ \E k \in DOMAIN fs : hs[i] = fs[k]
                            \/ \E k \in DOMAIN gs : hs[i] = gs[k]
    /\ \A k \in DOMAIN fs : \E i \in DOMAIN hs : hs[i] = fs[k]
    /\ \A k \in DOMAIN gs : k # 1 => \E i \in DOMAIN hs : hs[i] = gs[k]

LEMMA JoinTail ==
  ASSUME NEW S, NEW fs \in Seq(S), NEW gs \in Seq(S), gs # <<>>
  PROVE  (fs \o Tail(gs)) \in Seq(S) /\ Joined(fs, gs, fs \o Tail(gs))
<1> DEFINE ts == Tail(gs)
           hs == fs \o Tail(gs)
<1>1. ts \in Seq(S) /\ Len(ts) = Len(gs) - 1 /\ \A i \in 1 .. Len(ts) : ts[i] = gs[i + 1]
  BY HeadTailProperties
<1>2. /\ Len(gs) \in Nat /\ DOMAIN gs = 1 .. Len(gs) /\ 1 \in DOMAIN gs
      /\ Len(fs) \in Nat /\ DOMAIN fs = 1 .. Len(fs)
      /\ Len(ts) \in Nat
  BY <1>1, SeqFacts
<1>3. hs = fs \o ts
  OBVIOUS
<1> HIDE DEF ts, hs
<1>4. /\ hs \in Seq(S) /\ Len(hs) = Len(fs) + Len(ts)
      /\ \A i \in 1 .. Len(fs) + Len(ts) : hs[i] = IF i <= Len(fs) THEN fs[i] ELSE ts[i - Len(fs)]
  BY <1>1, <1>3, ConcatProperties
<1>5. DOMAIN hs = 1 .. (Len(fs) + Len(ts))
  BY <1>4, SeqFacts
<1>6. ASSUME NEW i \in DOMAIN hs
      PROVE  \/ \E k \in DOMAIN fs : hs[i] = fs[k]
             \/ \E k \in DOMAIN gs : hs[i] = gs[k]
  <2>1. CASE i <= Len(fs)
    <3>1. i \in DOMAIN fs /\ hs[i] = fs[i]
      BY <1>2, <1>4, <1>5, <2>1
    <3> QED BY <3>1
  <2>2. CASE ~(i <= Len(fs))
    <3>1. i \in 1 .. (Len(fs) + Len(ts)) /\ i \in Int
      BY <1>2, <1>5
    <3>2. (i - Len(fs)) \in 1 .. Len(ts) /\ hs[i] = ts[i - Len(fs)]
      <4>1. (i - Len(fs)) \in 1 .. Len(ts)
        BY <1>2, <3>1, <2>2
      <4>2. hs[i] = ts[i - Len(fs)]
        BY <1>4, <3>1, <2>2
      <4> QED BY <4>1, <4>2
    <3>3. (i - Len(fs) + 1) \in DOMAIN gs /\ hs[i] = gs[i - Len(fs) + 1]
      BY <1>1, <1>2, <3>2
    <3> QED BY <3>3
  <2> QED BY <2>1, <2>2
<1>7. ASSUME NEW k \in DOMAIN fs PROVE \E i \in DOMAIN hs : hs[i] = fs[k]
  <2>1. k \in DOMAIN hs /\ hs[k] = fs[k]
    BY <1>2, <1>4, <1>5
  <2> QED BY <2>1
<1>8. ASSUME NEW k \in DOMAIN gs, k # 1 PROVE \E i \in DOMAIN hs : hs[i] = gs[k]
  <2> DEFINE i == Len(fs) + (k - 1)
  <2>1. (k - 1) \in 1 .. Len(ts) /\ ts[k - 1] = gs[(k - 1) + 1] /\ (k - 1) + 1 = k
    BY <1>1, <1>2, <1>8
  <2>2. i \in 1 .. (Len(fs) + Len(ts)) /\ ~(i <= Len(fs)) /\ i - Len(fs) = k - 1
    BY <1>2, <2>1
  <2>3. hs[i] = ts[i - Len(fs)]
    BY <1>4, <2>2
  <2>4. i \in DOMAIN hs /\ hs[i] = gs[k]
    BY <1>5, <2>1, <2>2, <2>3
  <2> QED BY <2>4
<1> QED BY <1>4, <1>6, <1>7, <1>8 DEF Joined, hs

(* SetToSeq lists the elements of a finite set.                            *)
LEMMA SetToSeqLists ==
  ASSUME NEW S, IsFiniteSet(S)
  PROVE  SetToSeq(S) \in Seq(S) /\ \A x \in S : \E i \in DOMAIN SetToSeq(S) : SetToSeq(S)[i] = x
<1> DEFINE n == Cardinality(S)
           s == SetToSeq(S)
<1>1. n \in Nat /\ \E f \in [1 .. n -> S] : IsInjective(f)
  BY FS_CardinalityType DEF ExistsBijection, Bijection, Injection
<1>2. s \in [1 .. n -> S] /\ IsInjective(s)
  BY <1>1 DEF SetToSeq
<1> HIDE DEF s
<1>3. s \in Injection(1 .. n, S) /\ IsFiniteSet(1 .. n) /\ Cardinality(1 .. n) = n
  BY <1>1, <1>2, FS_Interval DEF Injection
<1>4. s \in Surjection(1 .. n, S)
  BY <1>3, FS_Injection
<1>5. s \in Seq(S)
  <2> HIDE DEF n
  <2>1. s = [i \in 1 .. n |-> s[i]] /\ \A i \in 1 .. n : s[i] \in S
    BY <1>2
  <2>2. [i \in 1 .. n |-> s[i]] \in Seq(S)
    BY <1>1, <2>1, IsASeq
  <2> QED BY <2>1, <2>2
<1>6. \A x \in S : \E i \in DOMAIN s : s[i] = x
  BY <1>2, <1>4 DEF Surjection
<1> QED BY <1>5, <1>6 DEF s

(* A finite set of numbers has a greatest one: a least set without one     *)
(* would have a smaller one, by an element.                                *)
LEMMA FiniteMax ==
  ASSUME NEW S \in SUBSET Nat, IsFiniteSet(S), S # {}
  PROVE  \E m \in S : \A x \in S : x <= m
<1> DEFINE HasMax(U) == \E m \in U : \A x \in U : x <= m
           Bad == {U \in FiniteSubsetsOf(Nat) : U # {} /\ ~HasMax(U)}
<1>1. SUFFICES ASSUME Bad # {} PROVE FALSE
  BY DEF FiniteSubsetsOf
<1>2. Bad \subseteq FiniteSubsetsOf(Nat)
  OBVIOUS
<1>3. PICK U \in Bad : \A V \in Bad : <<V, U>> \notin StrictSubsetOrdering(Nat)
  <2> HIDE DEF Bad
  <2> QED BY <1>1, <1>2, FS_StrictSubsetOrderingWellFounded, WFMin
<1>4. PICK x \in U : TRUE
  OBVIOUS
<1> DEFINE V == U \ {x}
<1>5. V \in FiniteSubsetsOf(Nat)
  BY <1>2, FS_RemoveElement DEF FiniteSubsetsOf
<1>6. <<V, U>> \in StrictSubsetOrdering(Nat)
  BY <1>2, <1>4 DEF StrictSubsetOrdering, FiniteSubsetsOf
<1>7. V = {} \/ HasMax(V)
  BY <1>3, <1>5, <1>6
<1>8. U \subseteq Nat
  BY <1>2 DEF FiniteSubsetsOf
<1>9. CASE V = {}
  BY <1>4, <1>8, <1>9
<1>10. CASE HasMax(V)
  <2>1. PICK m \in V : \A y \in V : y <= m
    BY <1>10
  <2>2. m \in U /\ m \in Nat /\ x \in Nat
    BY <1>4, <1>8
  <2>3. CASE x <= m
    BY <2>1, <2>2, <2>3
  <2>4. CASE m <= x
    <3>1. \A y \in U : y <= x
      BY <2>1, <2>2, <2>4, <1>8
    <3> QED BY <3>1, <1>4
  <2> QED BY <2>2, <2>3, <2>4
<1> QED BY <1>7, <1>9, <1>10

LEMMA MaxIsIn ==
  ASSUME NEW S \in SUBSET Nat, IsFiniteSet(S), S # {}
  PROVE  Max(S) \in S
<1>1. PICK m \in S : \A x \in S : x <= m
  BY FiniteMax
<1>2. \A x \in S : m >= x
  BY <1>1
<1> QED BY <1>2 DEF Max

(* A version that is found can be installed, and its lock entry tells the  *)
(* version it is found as.                                                 *)
LEMMA FoundOK ==
  ASSUME StoreOK, NEW j \in Job, NEW f \in Found(j)
  PROVE  /\ f.ver \in DOMAIN Deps[j.name] /\ f.ver \in Nat \ {0, 1} /\ f.entry \in Specs
         /\ f.ver = VerOf(j.src, j.name, f.entry)
         /\ j.src = "remote" => f.entry = Exact(f.ver)
<1>1. /\ j.name \in Names /\ j.spec \in Specs /\ j.src \in {"remote", "local", "offline"}
  BY DEF Job
<1> DEFINE n == j.name
<1>2. /\ Releases[n] \subseteq Nat \ {0, 1} /\ IsFiniteSet(Releases[n])
      /\ DOMAIN Deps[n] = Releases[n] \cup {Starter[m] : m \in DOMAIN Starter \cap {n}}
      /\ \A m \in DOMAIN Starter : Starter[m] \in Nat \ {0, 1}
  BY <1>1, ProjectAssumption
<1> HIDE DEF n
<1>3. \A v \in Nat : Exact(v) \in Specs /\ Exact(v).op = "=" /\ Exact(v).ver = v
  BY DEF Exact, Specs
<1>4. CASE j.src = "remote"
  <2> DEFINE vs == ToSet(remote[n])
             fit == {v \in vs : Satisfies(v, j.spec)}
  <2>1. vs \subseteq Releases[n]
    BY <1>1 DEF StoreOK, n
  <2>2. f \in Choose(vs, j.spec)
    BY <1>4 DEF Found, n
  <2>3. fit # {} /\ f = [ver |-> Max(fit), entry |-> Exact(Max(fit))]
    BY <2>2 DEF Choose
  <2>4. fit \subseteq Releases[n] /\ fit \in SUBSET Nat
    BY <2>1, <1>2
  <2>5. IsFiniteSet(fit)
    BY <2>4, <1>2, FS_Subset
  <2>6. Max(fit) \in fit
    BY <2>3, <2>4, <2>5, MaxIsIn
  <2> HIDE DEF fit, vs
  <2>7. f.ver \in Releases[n] /\ f.entry = Exact(f.ver)
    BY <2>3, <2>4, <2>6
  <2> QED BY <1>2, <1>3, <1>4, <2>7 DEF VerOf, n
<1>5. CASE j.src # "remote"
  <2> DEFINE dirs == {v \in local[n] : j.spec \in {NoSpec, Exact(v)}}
  <2>1. f \in FindLocal(n, j.spec)
    BY <1>5 DEF Found, n
  <2>2. local[n] \subseteq Releases[n]
    BY <1>1 DEF StoreOK, n
  <2>3. CASE dirs # {}
    <3>1. PICK v \in dirs : f = [ver |-> v, entry |-> Exact(v)]
      BY <2>1, <2>3 DEF FindLocal
    <3>2. v \in local[n] /\ f.ver = v /\ f.entry = Exact(v)
      BY <3>1
    <3>3. v \in Releases[n] /\ v \in Nat \ {0, 1}
      BY <3>2, <2>2, <1>2
    <3>4. f.ver \in DOMAIN Deps[n]
      BY <1>2, <3>2, <3>3
    <3>5. f.ver = VerOf(j.src, n, f.entry)
      BY <1>3, <3>2, <3>3 DEF VerOf
    <3> QED BY <1>3, <1>5, <3>2, <3>3, <3>4, <3>5 DEF n
  <2>4. CASE dirs = {}
    <3>1. n \in DOMAIN Starter /\ f = [ver |-> Starter[n], entry |-> IF j.spec = NoSpec THEN Exact(Starter[n]) ELSE j.spec]
      BY <2>1, <2>4 DEF FindLocal
    <3>2. f.ver = Starter[n] /\ f.entry = (IF j.spec = NoSpec THEN Exact(Starter[n]) ELSE j.spec)
      BY <3>1
    <3>3. f.ver \in DOMAIN Deps[n] /\ f.ver \in Nat \ {0, 1} /\ f.entry \in Specs
      BY <1>1, <1>2, <1>3, <3>1, <3>2
    <3>4. ASSUME f.entry.op = "=", f.entry.ver \in local[n] PROVE f.entry.ver = Starter[n]
      <4>1. CASE j.spec = NoSpec
        BY <4>1, <3>2, <1>3, <3>3
      <4>2. CASE j.spec # NoSpec
        <5>1. j.spec.op = "=" /\ j.spec.ver \in local[n]
          BY <3>4, <3>2, <4>2
        <5>2. j.spec = Exact(j.spec.ver)
          BY <5>1, <1>1 DEF Specs, Exact
        <5> QED BY <5>1, <5>2, <2>4
      <4> QED BY <4>1, <4>2
    <3>5. f.ver = VerOf(j.src, n, f.entry)
      BY <1>5, <3>2, <3>4 DEF VerOf
    <3> QED BY <1>5, <3>3, <3>5 DEF n
  <2> QED BY <2>3, <2>4
<1> QED BY <1>4, <1>5

-----------------------------------------------------------------------------
(* Types: the maps, the lockfile and the jobs.                             *)

LEMMA NoMaps == IsMap(NoDeps) /\ DOMAIN NoDeps = {} /\ IsLock(NoLock)
<1>1. IsMap(NoDeps) /\ DOMAIN NoDeps = {}
  BY DEF IsMap, NoDeps
<1>2. IsLock(NoLock)
  <2>1. IsMap([n \in {} |-> None])
    BY DEF IsMap
  <2> QED BY <2>1 DEF IsLock, NoLock
<1> QED BY <1>1, <1>2

LEMMA PutFacts ==
  ASSUME NEW f, NEW k, NEW v
  PROVE  /\ DOMAIN Put(f, k, v) = DOMAIN f \cup {k} /\ Put(f, k, v)[k] = v
         /\ \A n \in DOMAIN f \ {k} : Put(f, k, v)[n] = f[n]
         /\ IsMap(f) /\ k \in Names /\ v \in Specs => IsMap(Put(f, k, v))
BY DEF Put, IsMap

LEMMA OverFacts ==
  ASSUME NEW f, NEW g
  PROVE  /\ DOMAIN Over(g, f) = DOMAIN g \cup DOMAIN f
         /\ \A n \in DOMAIN Over(g, f) : Over(g, f)[n] = IF n \in DOMAIN g THEN g[n] ELSE f[n]
         /\ IsMap(f) /\ IsMap(g) => IsMap(Over(g, f))
BY DEF Over, IsMap

LEMMA TornIsNoLock == \A l : IsLock(l) => l # Torn
<1>1. ASSUME NEW l, IsLock(l), l = Torn PROVE FALSE
  <2>1. DOMAIN l = {"packages", "root"}
    BY <1>1 DEF IsLock
  <2>2. DOMAIN Torn = {"left"}
    BY DEF Torn
  <2> QED BY <1>1, <2>1, <2>2
<1> QED BY <1>1

LEMMA LoadOK ==
  ASSUME ProjectOK
  PROVE  /\ IsLock(Load) /\ Load # Torn
         /\ lock # Torn => Load = lock
         /\ \A n : IsLock(Unlocked(n)) /\ Unlocked(n) # Torn
<1>1. IsLock(Load)
  BY NoMaps DEF ProjectOK, Load
<1>2. ASSUME NEW n PROVE IsLock(Unlocked(n))
  BY <1>1 DEF Unlocked, IsLock, IsMap
<1> QED BY <1>1, <1>2, TornIsNoLock DEF Load

LEMMA SpecFacts ==
  /\ NoSpec \in Specs /\ Latest \in Specs /\ Latest # NoSpec
  /\ \A v \in Nat : /\ Exact(v) \in Specs /\ Exact(v) # NoSpec /\ Caret(v) \in Specs /\ Caret(v) # NoSpec
                    /\ Exact(v).op = "=" /\ Exact(v).ver = v
BY DEF Specs, NoSpec, Latest, Exact, Caret

LEMMA InstallIsJob ==
  ASSUME NEW n \in Names, NEW s \in Specs, NEW src \in {"remote", "local", "offline"}, NEW top \in BOOLEAN
  PROVE  /\ Install(n, s, src, top) \in Job
         /\ Install(n, s, src, top).name = n /\ Install(n, s, src, top).spec = s
         /\ Install(n, s, src, top).src = src /\ Install(n, s, src, top).top = top
BY DEF Install, Job

LEMMA OneJob ==
  ASSUME NEW j \in Job
  PROVE  <<j>> \in Seq(Job) /\ Len(<<j>>) = 1 /\ <<j>>[1] = j /\ <<j>> # <<>> /\ DOMAIN <<j>> = {1}
OBVIOUS

(* The dependencies of a package become jobs that are not top ones.        *)
LEMMA NextJobsOK ==
  ASSUME NEW j \in Job, cmd.ver \in DOMAIN Deps[j.name]
  PROVE  /\ NextJobs(j) \in Seq(Job)
         /\ \A i \in DOMAIN NextJobs(j) : NextJobs(j)[i].src = j.src /\ ~NextJobs(j)[i].top
         /\ Key(j.name, cmd.entry) \notin Visited(j) =>
               \A d \in DOMAIN Deps[j.name][cmd.ver] : \E i \in DOMAIN NextJobs(j) : NextJobs(j)[i].name = d
<1> DEFINE D == DOMAIN Deps[j.name][cmd.ver]
           S == DepJobs(j, cmd.ver)
           f == [d \in D |-> Install(d, Deps[j.name][cmd.ver][d], j.src, FALSE)]
<1>1. j.name \in Names /\ j.src \in {"remote", "local", "offline"}
  BY DEF Job
<1>2. D \subseteq Names /\ (\A d \in D : Deps[j.name][cmd.ver][d] \in Specs) /\ IsFiniteSet(Names)
  BY <1>1, ProjectAssumption
<1>3. IsFiniteSet(D)
  BY <1>2, FS_Subset
<1>4. \A d \in D : /\ f[d] \in Job /\ f[d].name = d /\ f[d].src = j.src /\ ~f[d].top
  BY <1>1, <1>2 DEF Install, Job
<1>5. S = {f[d] : d \in D} /\ DOMAIN f = D
  BY DEF DepJobs
<1> HIDE DEF S, D, f
<1>6. f \in Surjection(D, S)
  <2>1. f = [d \in D |-> f[d]]
    BY DEF f
  <2> QED BY <2>1, <1>5 DEF Surjection
<1>7. IsFiniteSet(S)
  BY <1>3, <1>6, FS_Surjection
<1>8. S \subseteq Job /\ \A x \in S : x.src = j.src /\ ~x.top
  BY <1>4, <1>5
<1>9. CASE Key(j.name, cmd.entry) \in Visited(j)
  <2>1. NextJobs(j) = <<>>
    BY <1>9 DEF NextJobs
  <2> QED BY <1>9, <2>1, EmptySeq, SeqFacts
<1>10. CASE Key(j.name, cmd.entry) \notin Visited(j)
  <2> DEFINE s == NextJobs(j)
  <2>1. s = SetToSeq(S)
    BY <1>10 DEF NextJobs, S
  <2> HIDE DEF s
  <2>2. s \in Seq(S) /\ \A x \in S : \E i \in DOMAIN s : s[i] = x
    BY <2>1, <1>7, SetToSeqLists
  <2>3. Len(s) \in Nat /\ DOMAIN s = 1 .. Len(s) /\ \A i \in DOMAIN s : s[i] \in S
    BY <2>2, SeqFacts
  <2>4. s \in Seq(Job)
    BY <2>2, <1>8
  <2>5. \A i \in DOMAIN s : s[i].src = j.src /\ ~s[i].top
    BY <2>3, <1>8
  <2>6. ASSUME NEW d \in D PROVE \E i \in DOMAIN s : s[i].name = d
    <3>1. f[d] \in S /\ f[d].name = d
      BY <1>4, <1>5
    <3> QED BY <3>1, <2>2
  <2> QED BY <2>4, <2>5, <2>6 DEF s, D
<1> QED BY <1>9, <1>10

(* An update is planned as jobs for the registry.                          *)
LEMMA PlanOK ==
  ASSUME StoreOK, ProjectOK, NEW all, Update(all)
  PROVE  \E todo \in Seq(Job) : /\ \A i \in DOMAIN todo : todo[i].src = "remote" /\ todo[i].top
                                /\ Start("install", todo)
<1> DEFINE has == {n \in Names : Has(n)}
           targets == IF all THEN has \cup Load.root ELSE IF Load.root # {} THEN Load.root ELSE has
           behind == {n \in targets : remote[n] # <<>> /\ Last(remote[n]) > Current(n)}
           f == [n \in behind |-> Install(n, Exact(Last(remote[n])), "remote", TRUE)]
           S == {f[n] : n \in behind}
           todo == SetToSeq(S)
<1>1. Start("install", SetToSeq({Install(n, Exact(Last(remote[n])), "remote", TRUE) : n \in behind}))
  BY DEF Update
<1>2. S = {Install(n, Exact(Last(remote[n])), "remote", TRUE) : n \in behind}
  OBVIOUS
<1>3. Start("install", todo)
  BY <1>1, <1>2
<1>4. targets \subseteq Names
  BY LoadOK DEF IsLock
<1>5. behind \subseteq Names /\ \A n \in behind : remote[n] # <<>>
  BY <1>4
<1>6. IsFiniteSet(behind)
  BY <1>5, ProjectAssumption, FS_Subset
<1> HIDE DEF behind
<1>7. ASSUME NEW n \in behind
      PROVE  f[n] \in Job /\ f[n].src = "remote" /\ f[n].top
  <2>1. remote[n] \in Seq(Nat) /\ remote[n] # <<>> /\ n \in Names
    BY <1>5 DEF StoreOK
  <2>2. Len(remote[n]) \in DOMAIN remote[n]
    BY <2>1, EmptySeq, SeqFacts
  <2>3. Last(remote[n]) \in Nat
    BY <2>1, <2>2, SeqFacts DEF Last
  <2>4. Exact(Last(remote[n])) \in Specs
    BY <2>3, SpecFacts
  <2> QED BY <2>1, <2>4 DEF Install, Job
<1>8. f \in Surjection(behind, S)
  BY DEF Surjection
<1> HIDE DEF f
<1>9. IsFiniteSet(S)
  BY <1>6, <1>8, FS_Surjection
<1>10. S \subseteq Job /\ \A x \in S : x.src = "remote" /\ x.top
  BY <1>7
<1> HIDE DEF S
<1>11. todo \in Seq(S)
  BY <1>9, SetToSeqLists
<1> HIDE DEF todo
<1>12. todo \in Seq(Job) /\ \A i \in DOMAIN todo : todo[i] \in S
  <2>1. \A i \in DOMAIN todo : todo[i] \in S
    BY <1>11, SeqFacts
  <2>2. todo \in Seq(Job)
    BY <1>11, <1>10
  <2> QED BY <2>1, <2>2
<1> QED BY <1>3, <1>10, <1>12

(* Whom an action may be: the job under way.                               *)
LEMMA HeadFacts ==
  ASSUME CmdOK(cmd), cmd.todo # <<>>
  PROVE  /\ Head(cmd.todo) = cmd.todo[1] /\ cmd.todo[1] \in Job /\ 1 \in DOMAIN cmd.todo
         /\ cmd.todo[1].name \in Names /\ cmd.todo[1].src \in {"remote", "local", "offline"}
         /\ Len(cmd.todo) \in Nat
<1>1. cmd.todo \in Seq(Job)
  BY DEF CmdOK
<1>2. Head(cmd.todo) = cmd.todo[1] /\ cmd.todo[1] \in Job /\ 1 \in DOMAIN cmd.todo /\ Len(cmd.todo) \in Nat
  BY <1>1, SeqFacts
<1> QED BY <1>2 DEF Job

-----------------------------------------------------------------------------
(* Types are kept.                                                         *)

Typed == StoreOK /\ ProjectOK /\ CmdOK(cmd) /\ JobsOK

LEMMA InitTyped ==
  ASSUME Init
  PROVE  Typed
<1>1. CmdOK(cmd) /\ JobsOK
  <2>1. Started(cmd, "idle", <<>>, Torn, {}, "none") /\ cmd = Idle
    BY IdleFields DEF Init
  <2>2. <<>> \in Seq(Job) /\ DOMAIN <<>> = {} /\ Len(<<>>) = 0
    OBVIOUS
  <2>3. CmdOK(cmd)
    BY <2>1, <2>2, NoMaps, SpecFacts DEF Started, Fields, CmdOK, None
  <2>4. JobsOK
    BY <2>1, <2>2, NoMaps DEF Started, Fields, JobsOK, Busy, Locking
  <2> QED BY <2>3, <2>4
<1>2. ProjectOK
  BY NoMaps, ProjectAssumption DEF Init, ProjectOK, NoDeps, None
<1>3. StoreOK
  <2>1. remote \in [Names -> (UNION {SetToSeqs(Releases[n]) : n \in Names}) \cup {<<>>}]
    BY DEF Init
  <2>2. ASSUME NEW n \in Names
        PROVE  remote[n] \in Seq(Nat) /\ ToSet(remote[n]) \subseteq Releases[n]
    <3>1. CASE remote[n] = <<>>
      BY <3>1 DEF ToSet
    <3>2. CASE remote[n] # <<>>
      <4>1. PICK m \in Names : remote[n] \in SetToSeqs(Releases[m])
        BY <2>1, <3>2
      <4>2. Cardinality(Releases[m]) \in Nat /\ Releases[m] \subseteq Nat
        BY ProjectAssumption, FS_CardinalityType
      <4> DEFINE k == Cardinality(Releases[m])
                 r == remote[n]
      <4>3. r \in [1 .. k -> Releases[m]]
        BY <4>1 DEF SetToSeqs
      <4> HIDE DEF k, r
      <4>4. k \in Nat /\ r = [i \in 1 .. k |-> r[i]] /\ \A i \in 1 .. k : r[i] \in Nat
        BY <4>2, <4>3 DEF k
      <4>5. [i \in 1 .. k |-> r[i]] \in Seq(Nat)
        BY <4>4, IsASeq
      <4>6. ToSet(remote[n]) = Releases[n]
        BY <3>2 DEF Init
      <4> QED BY <4>4, <4>5, <4>6 DEF r
    <3> QED BY <3>1, <3>2
  <2> QED BY <2>1, <2>2 DEF Init, StoreOK
<1> QED BY <1>1, <1>2, <1>3 DEF Typed

(* A command that ends.                                                    *)
LEMMA EndedTyped ==
  ASSUME Started(cmd', "idle", <<>>, Torn, {}, "none")
  PROVE  CmdOK(cmd)' /\ JobsOK'
<1>1. <<>> \in Seq(Job) /\ DOMAIN <<>> = {} /\ Len(<<>>) = 0
  OBVIOUS
<1>2. CmdOK(cmd)'
  BY <1>1, NoMaps, SpecFacts DEF Started, Fields, CmdOK, None
<1>3. cmd' = Idle
  BY IdleFields DEF Started, Fields, CmdShape
<1>4. JobsOK'
  BY <1>1, <1>3, NoMaps DEF Started, Fields, JobsOK, Busy, Locking
<1> QED BY <1>2, <1>4

(* A command that begins.                                                  *)
LEMMA StartedTyped ==
  ASSUME Typed, NEW todo \in Seq(Job), NEW left \in SUBSET Names, NEW kind \in {"install", "offline", "sync", "resolve"},
         Started(cmd', "run", todo, Torn, left, kind),
         \A i \in DOMAIN todo : todo[i].src = IF kind = "offline" THEN "offline" ELSE "remote",
         kind = "offline" => Len(todo) = 1
  PROVE  CmdOK(cmd)' /\ JobsOK'
<1>1. <<>> \in Seq(Job) /\ DOMAIN <<>> = {} /\ Len(<<>>) = 0
  OBVIOUS
<1>2. CmdOK(cmd)'
  BY <1>1, NoMaps, SpecFacts DEF Started, Fields, CmdOK, None
<1>3. (todo # <<>> <=> 1 \in DOMAIN todo) /\ (Len(todo) = 1 => todo # <<>>)
  BY <1>1, SeqFacts
<1>4. JobsOK'
  BY <1>1, <1>3, NoMaps DEF Started, Fields, JobsOK, Busy, Locking
<1> QED BY <1>2, <1>4

LEMMA AddTyped ==
  ASSUME Typed, NEW n \in Names, NEW s \in {NoSpec} \cup UserSpecs(n), Add(n, s)
  PROVE  Typed'
<1>1. s \in Specs
  BY SpecFacts, ProjectAssumption DEF UserSpecs
<1> DEFINE found == Choose(ToSet(remote[n]), NoSpec)
           spec  == IF s # NoSpec THEN s
                    ELSE IF found = {} THEN Latest ELSE Caret((CHOOSE f \in found : TRUE).ver)
<1>2. spec \in Specs /\ spec # NoSpec
  <2>1. CASE s # NoSpec
    BY <1>1, <2>1
  <2>2. CASE s = NoSpec /\ found = {}
    BY <2>2, SpecFacts
  <2>3. CASE s = NoSpec /\ found # {}
    <3> DEFINE j == Install(n, NoSpec, "remote", TRUE)
               f == CHOOSE f \in found : TRUE
    <3>1. f \in found
      BY <2>3
    <3>2. j \in Job /\ Found(j) = found
      BY SpecFacts DEF Install, Job, Found
    <3>3. f.ver \in Nat
      <4> HIDE DEF f, j, found
      <4> QED BY <3>1, <3>2, FoundOK DEF Typed
    <3>4. spec = Caret(f.ver)
      BY <2>3
    <3> HIDE DEF f, spec
    <3> QED BY <3>3, <3>4, SpecFacts
  <2> QED BY <2>1, <2>2, <2>3
<1>3. Start("install", <<Install(n, spec, "remote", TRUE)>>) /\ manifest' = Put(manifest, n, spec)
  BY DEF Add
<1> HIDE DEF spec
<1> DEFINE j == Install(n, spec, "remote", TRUE)
           td == <<j>>
<1>4. j \in Job /\ j.src = "remote"
  BY <1>2 DEF Install, Job
<1>5. Started(cmd', "run", td, Torn, {}, "install")
  BY <1>3, StartFields
<1> HIDE DEF j
<1>6. td \in Seq(Job) /\ DOMAIN td = {1} /\ td[1] = j
  BY <1>4, OneJob
<1> HIDE DEF td
<1>7. CmdOK(cmd)' /\ JobsOK'
  BY <1>4, <1>5, <1>6, StartedTyped
<1>8. IsMap(manifest') /\ \A m \in DOMAIN manifest' : manifest'[m] # NoSpec
  <2>1. IsMap(manifest) /\ \A m \in DOMAIN manifest : manifest[m] # NoSpec
    BY DEF Typed, ProjectOK
  <2>2. IsMap(Put(manifest, n, spec)) /\ DOMAIN Put(manifest, n, spec) = DOMAIN manifest \cup {n}
    BY <1>2, <2>1, PutFacts
  <2>3. Put(manifest, n, spec)[n] = spec /\ \A m \in DOMAIN manifest \ {n} : Put(manifest, n, spec)[m] = manifest[m]
    BY DEF Put
  <2>4. \A m \in DOMAIN Put(manifest, n, spec) : Put(manifest, n, spec)[m] # NoSpec
    BY <1>2, <2>1, <2>2, <2>3
  <2> QED BY <1>3, <2>2, <2>4
<1>9. StoreOK' /\ ProjectOK'
  <2>1. StoreOK'
    BY DEF Typed, StoreOK, Add, store
  <2>2. ProjectOK'
    BY <1>8 DEF Typed, ProjectOK, Add, Start, maps, ghosts
  <2> QED BY <2>1, <2>2
<1> QED BY <1>7, <1>9 DEF Typed

LEMMA InstallOnlineTyped ==
  ASSUME Typed, NEW n \in Names, NEW s \in {NoSpec} \cup UserSpecs(n), InstallOnline(n, s)
  PROVE  Typed'
<1>1. s \in Specs
  BY SpecFacts, ProjectAssumption DEF UserSpecs
<1> DEFINE j == Install(n, s, "remote", TRUE)
           td == <<j>>
<1>2. Start("install", td)
  BY DEF InstallOnline
<1>3. j \in Job /\ j.src = "remote"
  BY <1>1 DEF Install, Job
<1>4. Started(cmd', "run", td, Torn, {}, "install")
  BY <1>2, StartFields
<1> HIDE DEF j
<1>5. td \in Seq(Job) /\ DOMAIN td = {1} /\ td[1] = j
  BY <1>3, OneJob
<1> HIDE DEF td
<1>6. CmdOK(cmd)' /\ JobsOK'
  BY <1>3, <1>4, <1>5, StartedTyped
<1>7. StoreOK'
  BY DEF Typed, StoreOK, InstallOnline, store
<1>8. ProjectOK'
  BY DEF Typed, ProjectOK, InstallOnline, Start, maps, ghosts
<1> QED BY <1>6, <1>7, <1>8 DEF Typed

LEMMA InstallOfflineTyped ==
  ASSUME Typed, NEW n \in Names, NEW v \in Releases[n], InstallOffline(n, v)
  PROVE  Typed'
<1>1. Exact(v) \in Specs
  BY SpecFacts, ProjectAssumption
<1> DEFINE j == Install(n, Exact(v), "offline", TRUE)
           td == <<j>>
<1>2. Start("offline", td)
  BY DEF InstallOffline
<1>3. j \in Job /\ j.src = "offline"
  BY <1>1 DEF Install, Job
<1>4. Started(cmd', "run", td, Torn, {}, "offline")
  BY <1>2, StartFields
<1> HIDE DEF j
<1>5. td \in Seq(Job) /\ DOMAIN td = {1} /\ td[1] = j /\ Len(td) = 1
  BY <1>3, OneJob
<1> HIDE DEF td
<1>6. CmdOK(cmd)' /\ JobsOK'
  BY <1>3, <1>4, <1>5, StartedTyped
<1>7. StoreOK'
  BY DEF Typed, StoreOK, InstallOffline, store
<1>8. ProjectOK'
  BY DEF Typed, ProjectOK, InstallOffline, Start, maps
<1> QED BY <1>6, <1>7, <1>8 DEF Typed

LEMMA UpdateTyped ==
  ASSUME Typed, NEW all \in BOOLEAN, Update(all)
  PROVE  Typed'
<1>1. PICK todo \in Seq(Job) : (\A i \in DOMAIN todo : todo[i].src = "remote" /\ todo[i].top) /\ Start("install", todo)
  BY PlanOK DEF Typed
<1>2. Started(cmd', "run", todo, Torn, {}, "install")
  BY <1>1, StartFields
<1>3. CmdOK(cmd)' /\ JobsOK'
  BY <1>1, <1>2, StartedTyped
<1>4. StoreOK'
  BY DEF Typed, StoreOK, Update, store
<1>5. ProjectOK'
  BY DEF Typed, ProjectOK, Update, Start, maps, ghosts
<1> QED BY <1>3, <1>4, <1>5 DEF Typed

LEMMA SyncTyped ==
  ASSUME Typed, NEW kind \in {"sync", "resolve"}, Sync(kind)
  PROVE  Typed'
<1>1. Started(cmd', "run", <<>>, Torn, imports, kind)
  BY SyncFields
<1>2. imports \in SUBSET Names /\ <<>> \in Seq(Job) /\ DOMAIN <<>> = {}
  BY DEF Typed, ProjectOK
<1>3. CmdOK(cmd)' /\ JobsOK'
  BY <1>1, <1>2, StartedTyped
<1>4. StoreOK'
  BY DEF Typed, StoreOK, Sync, store
<1>5. ProjectOK'
  BY DEF Typed, ProjectOK, Sync, maps, ghosts
<1> QED BY <1>3, <1>4, <1>5 DEF Typed

LEMMA UninstallTyped ==
  ASSUME Typed, NEW n \in Names, NEW declared \in BOOLEAN, Uninstall(n, declared)
  PROVE  Typed'
<1>1. StoreOK'
  BY DEF Typed, StoreOK, Uninstall, store
<1>2. ProjectOK'
  <2>1. IsMap(manifest') /\ \A m \in DOMAIN manifest' : manifest'[m] # NoSpec
    <3>1. manifest' = IF declared THEN [m \in DOMAIN manifest \ {n} |-> manifest[m]] ELSE manifest
      BY DEF Uninstall
    <3> QED BY <3>1 DEF Typed, ProjectOK, IsMap
  <2>2. installed' = [installed EXCEPT ![n] = None]
    BY DEF Uninstall
  <2> QED BY <2>1, <2>2 DEF Typed, ProjectOK, Uninstall, maps, ghosts
<1>3. CmdOK(cmd)' /\ JobsOK'
  <2>1. CASE installed[n] = None
    BY <2>1, UninstallFields, EndedTyped
  <2>2. CASE installed[n] # None
    <3>1. Started(cmd', "lock", <<>>, Unlocked(n), {}, "uninstall")
      BY <2>2, UninstallFields
    <3>2. IsLock(Unlocked(n)) /\ Unlocked(n) # Torn
      BY LoadOK DEF Typed
    <3>3. <<>> \in Seq(Job) /\ DOMAIN <<>> = {} /\ Len(<<>>) = 0
      OBVIOUS
    <3>4. CmdOK(cmd)'
      BY <3>1, <3>2, <3>3, NoMaps, SpecFacts DEF Started, Fields, CmdOK, None
    <3>5. JobsOK'
      BY <3>1, <3>2, <3>3, NoMaps DEF Started, Fields, JobsOK, Busy, Locking
    <3> QED BY <3>4, <3>5
  <2> QED BY <2>1, <2>2
<1> QED BY <1>1, <1>2, <1>3 DEF Typed

LEMMA BeginTyped ==
  ASSUME Typed, Begin
  PROVE  Typed'
<1> DEFINE j == cmd.todo[1]
<1>1. cmd.pc = "run" /\ cmd.todo # <<>>
  BY DEF Begin
<1>2. Head(cmd.todo) = j /\ j \in Job /\ j.name \in Names
  BY <1>1, HeadFacts DEF Typed
<1>3. PICK f \in Found(j) :
         Fields(cmd', "extract", cmd.todo, f.ver, f.entry, cmd.visited, cmd.new, cmd.then,
                cmd.left, cmd.fallback, cmd.added, cmd.kind, cmd.touched)
  BY <1>2, BeginFields DEF Typed, CmdOK
<1>4. /\ f.ver \in DOMAIN Deps[j.name] /\ f.ver \in Nat \ {0, 1} /\ f.entry \in Specs
      /\ f.ver = VerOf(j.src, j.name, f.entry)
  BY <1>2, FoundOK DEF Typed
<1>5. installed' = [installed EXCEPT ![j.name] = Partial] /\ slips' \in {slips, slips + 1}
  BY <1>2 DEF Begin
<1>6. StoreOK'
  BY DEF Typed, StoreOK, Begin, store
<1>7. ProjectOK'
  BY <1>5 DEF Typed, ProjectOK, Begin, maps, Partial
<1>8. CmdOK(cmd)'
  BY <1>3, <1>4 DEF Typed, CmdOK, Fields
<1>9. JobsOK'
  <2>1. local' = local
    BY DEF Begin, store
  <2>2. VerOf(cmd.todo[1].src, cmd.todo[1].name, cmd.entry)' = f.ver
    BY <1>3, <1>4, <2>1 DEF Fields, VerOf
  <2>3. cmd'.ver \in DOMAIN Deps[cmd'.todo[1].name]
    BY <1>3, <1>4 DEF Fields
  <2> QED BY <1>1, <1>3, <2>2, <2>3 DEF Typed, JobsOK, Busy, Locking, Fields
<1> QED BY <1>6, <1>7, <1>8, <1>9 DEF Typed

LEMMA ExtractTyped ==
  ASSUME Typed, Extract
  PROVE  Typed'
<1> DEFINE j == cmd.todo[1]
<1>1. cmd.pc = "extract" /\ cmd.todo # <<>>
  BY DEF Extract, Typed, JobsOK, Busy
<1>2. Head(cmd.todo) = j /\ j \in Job /\ j.name \in Names
  BY <1>1, HeadFacts DEF Typed
<1>3. /\ cmd.ver \in DOMAIN Deps[j.name] /\ cmd.ver = VerOf(j.src, j.name, cmd.entry)
  BY <1>1 DEF Typed, JobsOK, Busy
<1>4. installed' = [installed EXCEPT ![j.name] = cmd.ver]
  BY <1>2 DEF Extract
<1>5. StoreOK'
  BY DEF Typed, StoreOK, Extract, store
<1>6. ProjectOK'
  BY <1>2, <1>3, <1>4 DEF Typed, ProjectOK, Extract, maps, ghosts
<1>7. CASE j.src = "offline"
  BY <1>2, <1>5, <1>6, <1>7, ExtractFields, EndedTyped DEF Typed, CmdOK
<1>8. CASE j.src # "offline"
  <2> DEFINE l == [packages |-> Put(Load.packages, j.name, cmd.entry), root |-> Load.root \cup {j.name}]
  <2>1. Fields(cmd', "lock", cmd.todo, cmd.ver, cmd.entry, cmd.visited, l, "deps", cmd.left, cmd.fallback,
               cmd.added, cmd.kind, cmd.touched \cup {j.name})
    BY <1>2, <1>8, ExtractFields DEF Typed, CmdOK
  <2>2. IsLock(l) /\ l # Torn
    <3>1. IsLock(Load) /\ cmd.entry \in Specs
      BY LoadOK DEF Typed, CmdOK
    <3>2. IsMap(Put(Load.packages, j.name, cmd.entry))
      BY <3>1, <1>2, PutFacts DEF IsLock
    <3>3. IsLock(l)
      BY <3>1, <3>2, <1>2 DEF IsLock
    <3> HIDE DEF l
    <3> QED BY <3>3, TornIsNoLock
  <2> HIDE DEF l
  <2>3. CmdOK(cmd)'
    BY <1>2, <2>1, <2>2 DEF Typed, CmdOK, Fields
  <2>4. JobsOK'
    <3>1. local' = local
      BY DEF Extract, store
    <3>2. VerOf(cmd.todo[1].src, cmd.todo[1].name, cmd.entry)' = cmd.ver
      BY <2>1, <1>3, <3>1 DEF Fields, VerOf
    <3>3. installed'[j.name] = cmd.ver
      BY <1>2, <1>4 DEF Typed, ProjectOK
    <3> QED BY <1>1, <1>3, <1>8, <2>1, <2>2, <3>2, <3>3 DEF Typed, JobsOK, Busy, Locking, Fields
  <2> QED BY <1>5, <1>6, <2>3, <2>4 DEF Typed
<1> QED BY <1>7, <1>8

LEMMA ExtractFailsTyped ==
  ASSUME Typed, ExtractFails
  PROVE  Typed'
<1> DEFINE j == cmd.todo[1]
<1>1. cmd.pc = "extract" /\ cmd.todo # <<>>
  BY DEF ExtractFails, Typed, JobsOK, Busy
<1>2. Head(cmd.todo) = j /\ j \in Job /\ j.name \in Names
  BY <1>1, HeadFacts DEF Typed
<1>3. cmd.ver \in DOMAIN Deps[j.name]
  BY <1>1 DEF Typed, JobsOK, Busy
<1>4. PICK left \in {Partial, cmd.ver} : installed' = [installed EXCEPT ![j.name] = left]
  BY <1>2 DEF ExtractFails
<1>5. StoreOK'
  BY DEF Typed, StoreOK, ExtractFails, store
<1>6. ProjectOK'
  BY <1>2, <1>3, <1>4 DEF Typed, ProjectOK, ExtractFails, maps, Partial
<1>7. cmd' = Idle
  BY DEF ExtractFails
<1> QED BY <1>5, <1>6, <1>7, IdleFields, EndedTyped DEF Typed

LEMMA TruncateTyped ==
  ASSUME Typed, TruncateLock
  PROVE  Typed'
<1>1. Fields(cmd', "lock_open", cmd.todo, cmd.ver, cmd.entry, cmd.visited, cmd.new, cmd.then,
             cmd.left, cmd.fallback, cmd.added, cmd.kind, cmd.touched)
  BY TruncateFields DEF Typed, CmdOK
<1>2. cmd.pc = "lock" /\ local' = local /\ installed' = installed
  BY DEF TruncateLock, store
<1>3. StoreOK'
  BY DEF Typed, StoreOK, TruncateLock, store
<1>4. ProjectOK'
  BY DEF Typed, ProjectOK, TruncateLock, maps, ghosts
<1>5. CmdOK(cmd)'
  BY <1>1 DEF Typed, CmdOK, Fields
<1>6. JobsOK'
  <2>1. VerOf(cmd.todo[1].src, cmd.todo[1].name, cmd.entry)' = VerOf(cmd.todo[1].src, cmd.todo[1].name, cmd.entry)
    BY <1>1, <1>2 DEF Fields, VerOf
  <2> QED BY <1>1, <1>2, <2>1 DEF Typed, JobsOK, Busy, Locking, Fields
<1> QED BY <1>3, <1>4, <1>5, <1>6 DEF Typed

(* What is left to do once a package is installed.                         *)
Rest(j, td) ==
    /\ td \in Seq(Job) /\ j \in Job /\ j.name \in Names /\ Head(cmd.todo) = j
    /\ \A i \in DOMAIN td : td[i].src = j.src
    /\ \A i \in DOMAIN cmd.todo : i # 1 => \E k \in DOMAIN td : td[k] = cmd.todo[i]
    /\ Key(j.name, cmd.entry) \notin Visited(j) =>
          \A d \in DOMAIN Deps[j.name][cmd.ver] : \E k \in DOMAIN td : td[k].name = d

LEMMA RestOK ==
  ASSUME Typed, Busy
  PROVE  Rest(cmd.todo[1], NextJobs(cmd.todo[1]) \o Tail(cmd.todo))
<1>1. PICK j : j = cmd.todo[1]
  OBVIOUS
<1>2. PICK td : td = NextJobs(j) \o Tail(cmd.todo)
  OBVIOUS
<1>3. cmd.todo # <<>> /\ cmd.ver \in DOMAIN Deps[j.name] /\ cmd.todo \in Seq(Job)
  BY <1>1 DEF Typed, JobsOK, CmdOK
<1>4. j \in Job /\ Head(cmd.todo) = j /\ j.name \in Names
  BY <1>1, <1>3, HeadFacts DEF Typed
<1> DEFINE nj == NextJobs(j)
<1>5. /\ nj \in Seq(Job) /\ \A i \in DOMAIN nj : nj[i].src = j.src
      /\ Key(j.name, cmd.entry) \notin Visited(j) =>
            \A d \in DOMAIN Deps[j.name][cmd.ver] : \E i \in DOMAIN nj : nj[i].name = d
  BY <1>3, <1>4, NextJobsOK
<1> HIDE DEF nj
<1>6. td = nj \o Tail(cmd.todo)
  BY <1>2 DEF nj
<1>7. td \in Seq(Job) /\ Joined(nj, cmd.todo, td)
  <2> DEFINE gs == cmd.todo
             J == Job
  <2>1. nj \in Seq(J) /\ gs \in Seq(J) /\ gs # <<>>
    BY <1>3, <1>5
  <2> HIDE DEF gs, J
  <2>2. (nj \o Tail(gs)) \in Seq(J) /\ Joined(nj, gs, nj \o Tail(gs))
    BY <2>1, JoinTail
  <2> QED BY <2>2, <1>2, <1>6 DEF gs, J
<1>8. \A i \in DOMAIN cmd.todo : cmd.todo[i].src = j.src
  BY <1>1 DEF Typed, JobsOK
<1>9. ASSUME NEW i \in DOMAIN td PROVE td[i].src = j.src
  <2>1. CASE \E k \in DOMAIN nj : td[i] = nj[k]
    BY <2>1, <1>5
  <2>2. CASE \E k \in DOMAIN cmd.todo : td[i] = cmd.todo[k]
    BY <2>2, <1>8
  <2> QED BY <2>1, <2>2, <1>7 DEF Joined
<1>10. \A i \in DOMAIN cmd.todo : i # 1 => \E k \in DOMAIN td : td[k] = cmd.todo[i]
  BY <1>7 DEF Joined
<1>11. ASSUME Key(j.name, cmd.entry) \notin Visited(j), NEW d \in DOMAIN Deps[j.name][cmd.ver]
      PROVE  \E k \in DOMAIN td : td[k].name = d
  <2>1. PICK i \in DOMAIN nj : nj[i].name = d
    BY <1>5, <1>11
  <2>2. PICK k \in DOMAIN td : td[k] = nj[i]
    BY <1>7 DEF Joined
  <2> QED BY <2>1, <2>2
<1>12. Rest(j, td)
  BY <1>4, <1>7, <1>9, <1>10, <1>11 DEF Rest
<1> QED BY <1>1, <1>2, <1>12

LEMMA WriteTyped ==
  ASSUME Typed, WriteLock
  PROVE  Typed'
<1>1. cmd.pc = "lock_open" /\ CmdShape(cmd) /\ IsLock(cmd.new) /\ cmd.new # Torn /\ lock' = cmd.new
  BY DEF WriteLock, Typed, CmdOK, JobsOK, Locking
<1>2. StoreOK'
  BY DEF Typed, StoreOK, WriteLock, store
<1>3. ProjectOK'
  BY <1>1 DEF Typed, ProjectOK, WriteLock, maps, ghosts
<1>4. CASE cmd.then = "deps"
  <2> DEFINE j == cmd.todo[1]
             td == NextJobs(j) \o Tail(cmd.todo)
             vs == Visited(j) \cup {Key(j.name, cmd.entry)}
             ad == IF j.top /\ j.spec = NoSpec THEN Put(cmd.added, j.name, Caret(cmd.entry.ver)) ELSE cmd.added
  <2>1. Busy
    BY <1>1, <1>4 DEF Busy, Locking
  <2>2. /\ td \in Seq(Job) /\ j \in Job /\ j.name \in Names /\ Head(cmd.todo) = j
        /\ \A i \in DOMAIN td : td[i].src = j.src
    BY <2>1, RestOK DEF Rest
  <2>3. Fields(cmd', "run", td, None, NoSpec, vs, Torn, "end", cmd.left, cmd.fallback, ad, cmd.kind, cmd.touched)
    BY <1>1, <1>4, <2>2, DescendFields
  <2>4. cmd.entry \in Specs /\ cmd.entry.ver \in Nat
    BY DEF Typed, CmdOK, Specs
  <2>5. vs \subseteq Names \X Specs
    BY <2>2, <2>4 DEF Typed, CmdOK, Visited, Key
  <2>6. IsMap(ad)
    BY <2>2, <2>4, PutFacts, SpecFacts DEF Typed, CmdOK
  <2>7. \A n \in DOMAIN ad : ad[n] # NoSpec
    <3>1. \A n \in DOMAIN cmd.added : cmd.added[n] # NoSpec
      BY DEF Typed, JobsOK
    <3> QED BY <2>4, <3>1, SpecFacts DEF Put
  <2> HIDE DEF vs, ad, td
  <2>8. CmdOK(cmd)'
    BY <2>2, <2>3, <2>5, <2>6, SpecFacts DEF Typed, CmdOK, Fields, None
  <2>9. j.src # "offline" /\ cmd.kind # "offline"
    BY <1>1, <2>1 DEF Typed, JobsOK
  <2>10. td # <<>> <=> 1 \in DOMAIN td
    BY <2>2, SeqFacts
  <2>11. JobsOK'
    BY <2>2, <2>3, <2>9, <2>10, <2>7 DEF Typed, JobsOK, Busy, Locking, Fields
  <2> QED BY <1>2, <1>3, <2>8, <2>11 DEF Typed
<1>5. CASE cmd.then = "resolve"
  <2>1. Fields(cmd', "resolve", cmd.todo, cmd.ver, cmd.entry, cmd.visited, Torn, cmd.then,
               cmd.left, cmd.fallback, cmd.added, cmd.kind, cmd.touched)
    BY <1>1, <1>5, WrittenFields
  <2>2. CmdOK(cmd)'
    BY <2>1 DEF Typed, CmdOK, Fields
  <2>3. JobsOK'
    BY <1>1, <1>5, <2>1 DEF Typed, JobsOK, Busy, Locking, Fields
  <2> QED BY <1>2, <1>3, <2>2, <2>3 DEF Typed
<1>6. CASE cmd.then = "end"
  BY <1>1, <1>2, <1>3, <1>6, WrittenFields, EndedTyped DEF Typed
<1> QED BY <1>4, <1>5, <1>6 DEF Typed, CmdOK

LEMMA FailTyped ==
  ASSUME Typed, Fail
  PROVE  Typed'
<1>1. cmd.pc = "run" /\ cmd.todo # <<>> /\ CmdShape(cmd) /\ faults' \in {faults, faults + 1}
  BY DEF Fail, Typed, CmdOK
<1>2. Head(cmd.todo) = cmd.todo[1]
  BY <1>1, HeadFacts DEF Typed
<1>3. StoreOK'
  BY DEF Typed, StoreOK, Fail, store
<1>4. ProjectOK'
  BY <1>1 DEF Typed, ProjectOK, Fail, maps
<1>5. CASE cmd.todo[1].src # "local"
  BY <1>1, <1>2, <1>3, <1>4, <1>5, FailFields, EndedTyped DEF Typed
<1>6. CASE cmd.todo[1].src = "local"
  <2>1. PICK ad : /\ ad = [n \in DOMAIN ad |-> cmd.added[n]] /\ DOMAIN ad \subseteq DOMAIN cmd.added
                  /\ Fields(cmd', cmd.pc, cmd.fallback, cmd.ver, cmd.entry, cmd.visited, cmd.new, cmd.then,
                            cmd.left, <<>>, ad, cmd.kind, {})
    BY <1>1, <1>2, <1>6, FailFields
  <2>2. <<>> \in Seq(Job) /\ DOMAIN <<>> = {} /\ Len(<<>>) = 0
    OBVIOUS
  <2>3. IsMap(ad)
    BY <2>1 DEF Typed, CmdOK, IsMap
  <2>4. CmdOK(cmd)'
    BY <2>1, <2>2, <2>3 DEF Typed, CmdOK, Fields
  <2>5. cmd.fallback # <<>> <=> 1 \in DOMAIN cmd.fallback
    BY SeqFacts DEF Typed, CmdOK
  <2>6. JobsOK'
    BY <1>1, <1>6, <2>1, <2>2, <2>5 DEF Typed, JobsOK, Busy, Locking, Fields
  <2> QED BY <1>3, <1>4, <2>4, <2>6 DEF Typed
<1> QED BY <1>5, <1>6

LEMMA NextImportTyped ==
  ASSUME Typed, NEW n \in Names, NextImport(n)
  PROVE  Typed'
<1>1. cmd.pc = "run" /\ cmd.todo = <<>> /\ CmdShape(cmd)
  BY DEF NextImport, Typed, CmdOK
<1>2. StoreOK'
  BY DEF Typed, StoreOK, NextImport, store
<1>3. ProjectOK'
  BY DEF Typed, ProjectOK, NextImport, maps, ghosts
<1>4. CASE Has(n)
  <2>1. Fields(cmd', cmd.pc, cmd.todo, cmd.ver, cmd.entry, cmd.visited, cmd.new, cmd.then,
               cmd.left \ {n}, cmd.fallback, cmd.added, cmd.kind, cmd.touched)
    BY <1>1, <1>4, NextImportFields
  <2>2. CmdOK(cmd)'
    BY <2>1 DEF Typed, CmdOK, Fields
  <2>3. JobsOK'
    BY <1>1, <2>1 DEF Typed, JobsOK, Busy, Locking, Fields
  <2> QED BY <1>2, <1>3, <2>2, <2>3 DEF Typed
<1>5. CASE ~Has(n)
  <2> DEFINE j == Install(n, SpecOf(n), "local", TRUE)
             k == Install(n, SpecOf(n), "remote", TRUE)
             td == <<j>>
             fb == Retry(n)
  <2>1. Fields(cmd', cmd.pc, td, cmd.ver, cmd.entry, cmd.visited, cmd.new, cmd.then,
               cmd.left \ {n}, fb, cmd.added, cmd.kind, cmd.touched)
    BY <1>1, <1>5, NextImportFields
  <2>2. SpecOf(n) \in Specs
    BY SpecFacts DEF SpecOf, Typed, ProjectOK, IsMap
  <2>3. j \in Job /\ j.src = "local" /\ k \in Job /\ k.src = "remote" /\ k.top
    BY <2>2 DEF Install, Job
  <2>4. fb = <<k>> \/ fb = <<>>
    BY DEF Retry
  <2> HIDE DEF j, k
  <2>5. td \in Seq(Job) /\ DOMAIN td = {1} /\ td[1] = j /\ td # <<>>
    BY <2>3, OneJob
  <2>6. fb \in Seq(Job) /\ Len(fb) <= 1 /\ \A i \in DOMAIN fb : fb[i] = k
    <3>1. CASE fb = <<k>>
      <4>1. <<k>> \in Seq(Job) /\ Len(<<k>>) = 1 /\ <<k>>[1] = k /\ DOMAIN <<k>> = {1}
        BY <2>3, OneJob
      <4> HIDE DEF fb
      <4> QED BY <3>1, <4>1
    <3>2. CASE fb = <<>>
      <4> HIDE DEF fb
      <4> QED BY <3>2
    <3> QED BY <2>4, <3>1, <3>2
  <2> HIDE DEF td, fb
  <2>7. CmdOK(cmd)'
    BY <2>1, <2>5, <2>6 DEF Typed, CmdOK, Fields
  <2>8. JobsOK'
    BY <1>1, <2>1, <2>3, <2>5, <2>6 DEF Typed, JobsOK, Busy, Locking, Fields
  <2> QED BY <1>2, <1>3, <2>7, <2>8 DEF Typed
<1> QED BY <1>4, <1>5

LEMMA EndSyncTyped ==
  ASSUME Typed, EndSync
  PROVE  Typed'
<1> DEFINE th == IF cmd.kind = "resolve" THEN "resolve" ELSE "end"
<1>1. /\ cmd.pc = "run" /\ cmd.todo = <<>> /\ CmdShape(cmd) /\ cmd.kind \in {"sync", "resolve"}
      /\ manifest' = Over(cmd.added, manifest) /\ importMap' \subseteq imports
  BY DEF EndSync, Done, Typed, CmdOK
<1>2. Fields(cmd', "lock", cmd.todo, cmd.ver, cmd.entry, cmd.visited, Load, th,
                cmd.left, cmd.fallback, cmd.added, cmd.kind, cmd.touched)
  BY <1>1, EndSyncFields
<1>3. IsLock(Load) /\ Load # Torn
  BY LoadOK DEF Typed
<1>4. StoreOK'
  BY DEF Typed, StoreOK, EndSync, store
<1>5. IsMap(manifest') /\ \A m \in DOMAIN manifest' : manifest'[m] # NoSpec
  <2>1. IsMap(manifest) /\ IsMap(cmd.added)
    BY DEF Typed, ProjectOK, CmdOK
  <2>2. IsMap(Over(cmd.added, manifest))
    BY <2>1, OverFacts
  <2>3. \A m \in DOMAIN Over(cmd.added, manifest) :
          Over(cmd.added, manifest)[m] = IF m \in DOMAIN cmd.added THEN cmd.added[m] ELSE manifest[m]
    BY OverFacts
  <2>4. DOMAIN Over(cmd.added, manifest) = DOMAIN cmd.added \cup DOMAIN manifest
    BY OverFacts
  <2>5. \A m \in DOMAIN cmd.added : cmd.added[m] # NoSpec
    BY DEF Typed, JobsOK
  <2> QED BY <1>1, <2>2, <2>3, <2>4, <2>5 DEF Typed, ProjectOK
<1>6. ProjectOK'
  BY <1>1, <1>5 DEF Typed, ProjectOK, EndSync, ghosts
<1>7. CmdOK(cmd)'
  BY <1>2, <1>3 DEF Typed, CmdOK, Fields
<1>8. JobsOK'
  BY <1>1, <1>2, <1>3 DEF Typed, JobsOK, Busy, Locking, Fields
<1> QED BY <1>4, <1>6, <1>7, <1>8 DEF Typed

LEMMA OthersTyped ==
  ASSUME Typed, \/ EndInstall \/ Resolve \/ Crash
                \/ \E n \in Names : \E v \in Releases[n] : Publish(n, v) \/ PublishLocal(n, v)
  PROVE  Typed'
<1>1. CASE EndInstall
  <2>1. cmd' = Idle /\ UNCHANGED <<store, manifest, installed, lock, maps, ops, ghosts>>
    BY <1>1 DEF EndInstall
  <2>2. StoreOK' /\ ProjectOK'
    BY <2>1 DEF Typed, StoreOK, ProjectOK, store, maps, ghosts
  <2> QED BY <2>1, <2>2, IdleFields, EndedTyped DEF Typed
<1>2. CASE Resolve
  <2>1. cmd' = Idle /\ runtimeMap' \subseteq imports
    BY <1>2 DEF Resolve
  <2>2. StoreOK' /\ ProjectOK'
    BY <1>2, <2>1 DEF Resolve, Typed, StoreOK, ProjectOK, store, ghosts
  <2> QED BY <2>1, <2>2, IdleFields, EndedTyped DEF Typed
<1>3. CASE Crash
  <2>1. cmd' = Idle
    BY <1>3 DEF Crash
  <2>2. StoreOK' /\ ProjectOK'
    BY <1>3 DEF Crash, Typed, StoreOK, ProjectOK, store, maps
  <2> QED BY <2>1, <2>2, IdleFields, EndedTyped DEF Typed
<1>4. ASSUME NEW n \in Names, NEW v \in Releases[n], Publish(n, v) PROVE Typed'
  <2>1. remote' = [remote EXCEPT ![n] = Append(remote[n], v)] /\ local' = local
        /\ UNCHANGED <<manifest, installed, lock, maps, cmd, ghosts>> /\ ops' = ops + 1
    BY <1>4 DEF Publish
  <2>2. v \in Nat /\ remote[n] \in Seq(Nat) /\ ToSet(remote[n]) \subseteq Releases[n]
    BY ProjectAssumption DEF Typed, StoreOK
  <2>3. Append(remote[n], v) \in Seq(Nat) /\ ToSet(Append(remote[n], v)) \subseteq Releases[n]
    <3> DEFINE r == remote[n]
               q == Append(r, v)
    <3>1. /\ q \in Seq(Nat) /\ Len(q) = Len(r) + 1 /\ q[Len(r) + 1] = v
          /\ \A i \in 1 .. Len(r) : q[i] = r[i]
      BY <2>2, AppendProperties
    <3>2. Len(r) \in Nat /\ DOMAIN r = 1 .. Len(r) /\ DOMAIN q = 1 .. Len(q)
      BY <2>2, <3>1, SeqFacts
    <3> HIDE DEF q
    <3>3. \A i \in DOMAIN q : q[i] \in Releases[n]
      <4>1. \A i \in DOMAIN r : r[i] \in Releases[n]
        BY <2>2 DEF ToSet
      <4>2. \A i \in DOMAIN q : i \in DOMAIN r \/ i = Len(r) + 1
        BY <3>1, <3>2
      <4> QED BY <3>1, <3>2, <4>1, <4>2
    <3> QED BY <3>1, <3>3 DEF ToSet, q
  <2>4. StoreOK'
    BY <2>1, <2>3 DEF Typed, StoreOK
  <2>5. ProjectOK' /\ CmdOK(cmd)' /\ JobsOK'
    BY <2>1 DEF Typed, ProjectOK, maps, ghosts, JobsOK, Busy, Locking, VerOf
  <2> QED BY <2>4, <2>5 DEF Typed
<1>5. ASSUME NEW n \in Names, NEW v \in Releases[n], PublishLocal(n, v) PROVE Typed'
  <2>1. local' = [local EXCEPT ![n] = local[n] \cup {v}] /\ remote' = remote /\ cmd.pc = "idle"
        /\ UNCHANGED <<manifest, installed, lock, maps, cmd, ghosts>> /\ ops' = ops + 1
    BY <1>5 DEF PublishLocal
  <2>2. StoreOK'
    BY <2>1 DEF Typed, StoreOK
  <2>3. ProjectOK' /\ CmdOK(cmd)'
    BY <2>1 DEF Typed, ProjectOK, maps, ghosts
  <2>4. JobsOK'
    BY <2>1 DEF Typed, JobsOK, Busy, Locking
  <2> QED BY <2>2, <2>3, <2>4 DEF Typed
<1> QED BY <1>1, <1>2, <1>3, <1>4, <1>5

LEMMA StutterTyped ==
  ASSUME Typed, UNCHANGED vars
  PROVE  Typed'
BY DEF Typed, vars, StoreOK, ProjectOK, JobsOK, Busy, Locking, VerOf

-----------------------------------------------------------------------------
(* No dependency is forgotten.                                             *)

Closing == VisitedInv /\ TouchedInv

(* What can be installed is neither missing nor half there.                *)
LEMMA VersionIsThere ==
  ASSUME NEW n \in Names, NEW v \in DOMAIN Deps[n]
  PROVE  v \in Nat /\ v \notin {None, Partial}
BY ProjectAssumption DEF None, Partial

LEMMA IdleClosing ==
  ASSUME cmd'.pc \in {"idle", "resolve"} \/ (cmd'.pc \in {"lock", "lock_open"} /\ cmd'.then # "deps")
  PROVE  Closing'
BY DEF Closing, VisitedInv, TouchedInv, Working, Busy, Locking

LEMMA FreshClosing ==
  ASSUME cmd'.visited = {}, cmd'.touched = {}
  PROVE  Closing'
BY DEF Closing, VisitedInv, TouchedInv

LEMMA MetStays ==
  ASSUME \A d : Met(d) => Met(d)', NEW n, NEW v, AllMet(n, v)
  PROVE  AllMet(n, v)'
BY DEF AllMet

(* What every visited version needs stays met while the command goes on.   *)
LEMMA VisitedStays ==
  ASSUME VisitedInv, \A d : Met(d) => Met(d)', local' = local,
         Working, cmd'.todo = cmd.todo, cmd'.visited = cmd.visited
  PROVE  VisitedInv'
<1>1. ASSUME cmd.todo # <<>>, ~cmd.todo[1].top, NEW k \in cmd.visited
      PROVE  AllMet(k[1], VerOf(cmd.todo[1].src, k[1], k[2]))'
  <2>1. PICK v : v = VerOf(cmd.todo[1].src, k[1], k[2])
    OBVIOUS
  <2>2. AllMet(k[1], v)
    BY <1>1, <2>1 DEF VisitedInv
  <2>3. AllMet(k[1], v)'
    BY <2>2, MetStays
  <2>4. VerOf(cmd.todo[1].src, k[1], k[2])' = v
    BY <2>1 DEF VerOf
  <2> QED BY <2>3, <2>4 DEF AllMet
<1> QED BY <1>1 DEF VisitedInv

LEMMA BeginClosing ==
  ASSUME Typed, Closing, Begin
  PROVE  Closing'
<1>1. PICK j : j = cmd.todo[1]
  OBVIOUS
<1>2. cmd.pc = "run" /\ cmd.todo # <<>> /\ CmdShape(cmd) /\ local' = local
  BY DEF Begin, Typed, CmdOK, store
<1>3. Head(cmd.todo) = j /\ j \in Job /\ j.name \in Names /\ 1 \in DOMAIN cmd.todo
  BY <1>1, <1>2, HeadFacts DEF Typed
<1>4. cmd'.pc = "extract" /\ cmd'.todo = cmd.todo /\ cmd'.visited = cmd.visited /\ cmd'.touched = cmd.touched
  BY <1>2, BeginFields DEF Fields
<1>5. installed' = [installed EXCEPT ![j.name] = Partial] /\ DOMAIN installed = Names
  BY <1>3 DEF Begin, Typed, ProjectOK
<1>6. Working /\ ~Busy /\ Busy'
  BY <1>2, <1>4 DEF Working, Busy, Locking
<1>7. ASSUME NEW d, Met(d) PROVE Met(d)'
  <2>1. CASE d = j.name
    BY <2>1, <1>1, <1>3, <1>4 DEF Met, Pending
  <2>2. CASE d # j.name
    <3>1. d \in Names => (Has(d)' <=> Has(d))
      BY <2>2, <1>5 DEF Has
    <3>2. Pending(d)' <=> Pending(d)
      BY <1>4 DEF Pending
    <3> QED BY <3>1, <3>2, <1>7 DEF Met
  <2> QED BY <2>1, <2>2
<1>8. VisitedInv'
  BY <1>2, <1>4, <1>6, <1>7, VisitedStays DEF Closing
<1>9. ASSUME NEW n \in cmd.touched
      PROVE  (n = cmd.todo[1].name)' \/ (Has(n) /\ AllMet(n, installed[n]))'
  <2>1. n \in Names
    BY DEF Typed, CmdOK
  <2>2. Has(n) /\ AllMet(n, installed[n])
    BY <1>6 DEF Closing, TouchedInv
  <2>3. CASE n = j.name
    BY <2>3, <1>1, <1>4
  <2>4. CASE n # j.name
    <3>1. PICK v : v = installed[n]
      OBVIOUS
    <3>2. installed'[n] = v
      BY <2>1, <2>4, <3>1, <1>5
    <3>3. AllMet(n, v)'
      BY <1>7, <2>2, <3>1, MetStays
    <3>4. Has(n)'
      BY <2>2, <3>1, <3>2 DEF Has
    <3> QED BY <3>2, <3>3, <3>4 DEF AllMet
  <2> QED BY <2>3, <2>4
<1>10. TouchedInv'
  BY <1>4, <1>6, <1>9 DEF TouchedInv
<1> QED BY <1>8, <1>10 DEF Closing

LEMMA ExtractClosing ==
  ASSUME Typed, Closing, Extract
  PROVE  Closing'
<1>1. PICK j : j = cmd.todo[1]
  OBVIOUS
<1>2. cmd.pc = "extract" /\ cmd.todo # <<>> /\ CmdShape(cmd) /\ local' = local /\ Busy /\ Working
  BY DEF Extract, Typed, CmdOK, JobsOK, store, Busy, Working
<1>3. Head(cmd.todo) = j /\ j \in Job /\ j.name \in Names /\ cmd.ver \in DOMAIN Deps[j.name]
  BY <1>1, <1>2, HeadFacts DEF Typed, JobsOK
<1>4. CASE j.src = "offline"
  <2>1. cmd'.pc = "idle"
    BY <1>2, <1>3, <1>4, ExtractFields DEF Started, Fields
  <2> QED BY <2>1, IdleClosing
<1>5. CASE j.src # "offline"
  <2>1. /\ cmd'.pc = "lock" /\ cmd'.then = "deps" /\ cmd'.todo = cmd.todo /\ cmd'.visited = cmd.visited
        /\ cmd'.touched = cmd.touched \cup {j.name}
    BY <1>2, <1>3, <1>5, ExtractFields DEF Fields
  <2>2. Busy' /\ Working'
    BY <2>1 DEF Busy, Locking, Working
  <2>3. installed' = [installed EXCEPT ![j.name] = cmd.ver] /\ DOMAIN installed = Names
    BY <1>3 DEF Extract, Typed, ProjectOK
  <2>4. Has(j.name)'
    BY <1>3, <2>3, VersionIsThere DEF Has
  <2>5. ASSUME NEW d, Met(d) PROVE Met(d)'
    <3>1. d \in Names /\ (Has(d) => Has(d)')
      BY <2>3, <2>4, <2>5 DEF Has, Met
    <3>2. Pending(d)' <=> Pending(d)
      BY <2>1 DEF Pending
    <3> QED BY <3>1, <3>2, <2>5 DEF Met
  <2>6. VisitedInv'
    BY <1>2, <2>1, <2>5, VisitedStays DEF Closing
  <2>7. ASSUME NEW n \in cmd.touched, n # j.name
        PROVE  (Has(n) /\ AllMet(n, installed[n]))'
    <3>1. PICK v : v = installed[n]
      OBVIOUS
    <3>2. n \in Names /\ installed'[n] = v
      BY <2>7, <2>3, <3>1 DEF Typed, CmdOK
    <3>3. Has(n) /\ AllMet(n, v)
      BY <1>1, <1>2, <2>7, <3>1 DEF Closing, TouchedInv
    <3>4. AllMet(n, v)'
      BY <2>5, <3>3, MetStays
    <3>5. Has(n)'
      BY <3>1, <3>2, <3>3 DEF Has
    <3> QED BY <3>2, <3>4, <3>5 DEF AllMet
  <2>8. TouchedInv'
    BY <1>1, <2>1, <2>2, <2>7 DEF TouchedInv
  <2> QED BY <2>6, <2>8 DEF Closing
<1> QED BY <1>4, <1>5

LEMMA TruncateClosing ==
  ASSUME Typed, Closing, TruncateLock
  PROVE  Closing'
<1>1. /\ cmd'.pc = "lock_open" /\ cmd'.todo = cmd.todo /\ cmd'.visited = cmd.visited /\ cmd'.touched = cmd.touched
      /\ cmd'.then = cmd.then /\ cmd.pc = "lock"
  BY TruncateFields DEF Typed, CmdOK, Fields, TruncateLock
<1>2. local' = local /\ installed' = installed
  BY DEF TruncateLock, store
<1>3. CASE cmd.then # "deps"
  BY <1>1, <1>3, IdleClosing
<1>4. CASE cmd.then = "deps"
  <2>1. Working /\ Working' /\ Busy /\ Busy'
    BY <1>1, <1>4 DEF Working, Busy, Locking
  <2>2. \A d : Met(d)' <=> Met(d)
    BY <1>1, <1>2 DEF Met, Has, Pending
  <2>3. \A n, v : AllMet(n, v)' <=> AllMet(n, v)
    BY <2>2 DEF AllMet
  <2>4. VisitedInv'
    BY <1>1, <1>2, <2>1, <2>2, VisitedStays DEF Closing
  <2>5. ASSUME NEW n \in cmd.touched, n # cmd.todo[1].name
        PROVE  (Has(n) /\ AllMet(n, installed[n]))'
    <3>1. Has(n) /\ AllMet(n, installed[n])
      BY <2>1, <2>5 DEF Closing, TouchedInv
    <3> QED BY <3>1, <1>2, <2>2 DEF Has, AllMet
  <2>6. TouchedInv'
    BY <1>1, <2>1, <2>5 DEF TouchedInv
  <2> QED BY <2>4, <2>6 DEF Closing
<1> QED BY <1>3, <1>4

(* A package whose lockfile is written: its dependencies come next, unless *)
(* this version was visited, whose dependencies are met or still to come.  *)
LEMMA WriteClosing ==
  ASSUME Typed, Closing, WriteLock
  PROVE  Closing'
<1>1. cmd.pc = "lock_open" /\ CmdShape(cmd) /\ local' = local /\ installed' = installed
  BY DEF WriteLock, Typed, CmdOK, store
<1>2. CASE cmd.then # "deps"
  <2>1. cmd'.pc \in {"idle", "resolve"}
    BY <1>1, <1>2, WrittenFields DEF Typed, CmdOK, Started, Fields
  <2> QED BY <2>1, IdleClosing
<1>3. CASE cmd.then = "deps"
  <2>1. PICK j : j = cmd.todo[1]
    OBVIOUS
  <2>2. PICK td : td = NextJobs(j) \o Tail(cmd.todo)
    OBVIOUS
  <2>3. Busy /\ Locking /\ Working
    BY <1>1, <1>3 DEF Busy, Locking, Working
  <2>4. Rest(j, td)
    BY <2>1, <2>2, <2>3, RestOK
  <2>5. /\ td \in Seq(Job) /\ j.name \in Names /\ Head(cmd.todo) = j
        /\ \A i \in DOMAIN td : td[i].src = j.src
        /\ \A i \in DOMAIN cmd.todo : i # 1 => \E k \in DOMAIN td : td[k] = cmd.todo[i]
    BY <2>4 DEF Rest
  <2>6. /\ cmd'.pc = "run" /\ cmd'.todo = td /\ cmd'.touched = cmd.touched
        /\ cmd'.visited = Visited(j) \cup {Key(j.name, cmd.entry)}
    BY <1>1, <1>3, <2>2, <2>5, DescendFields DEF Fields
  <2>7. Working' /\ ~Busy'
    BY <2>6 DEF Working, Busy, Locking
  <2>8. PICK v : v = cmd.ver
    OBVIOUS
  <2>9. v \in DOMAIN Deps[j.name] /\ v = VerOf(j.src, j.name, cmd.entry) /\ installed[j.name] = v /\ cmd.todo # <<>>
    BY <2>1, <2>3, <2>8 DEF Typed, JobsOK
  <2>10. Has(j.name) /\ Has(j.name)'
    BY <1>1, <2>5, <2>9, VersionIsThere DEF Has
  <2>11. ASSUME NEW d, Met(d) PROVE Met(d)'
    <3>1. CASE Has(d)
      BY <1>1, <2>11, <3>1 DEF Has, Met
    <3>2. CASE ~Has(d)
      <4>1. d \in Names /\ d # j.name
        BY <2>10, <2>11, <3>2 DEF Met
      <4>2. PICK i \in DOMAIN cmd.todo : cmd.todo[i].name = d
        BY <2>11, <3>2 DEF Met, Pending
      <4>3. PICK k \in DOMAIN td : td[k] = cmd.todo[i]
        BY <2>1, <2>5, <4>1, <4>2
      <4> QED BY <2>6, <4>1, <4>2, <4>3 DEF Met, Pending
    <3> QED BY <3>1, <3>2
  <2>12. \A w \in cmd.visited : ~j.top => AllMet(w[1], VerOf(j.src, w[1], w[2]))
    BY <2>1, <2>3, <2>9 DEF Closing, VisitedInv
  <2>13. AllMet(j.name, v)'
    <3>1. CASE Key(j.name, cmd.entry) \in Visited(j)
      <4>1. ~j.top /\ <<j.name, cmd.entry>> \in cmd.visited
        BY <3>1 DEF Visited, Key
      <4>2. AllMet(<<j.name, cmd.entry>>[1], VerOf(j.src, <<j.name, cmd.entry>>[1], <<j.name, cmd.entry>>[2]))
        BY <4>1, <2>12
      <4>3. AllMet(j.name, v)
        BY <4>2, <2>9
      <4> QED BY <4>3, <2>11, MetStays
    <3>2. CASE Key(j.name, cmd.entry) \notin Visited(j)
      <4>1. \A d \in DOMAIN Deps[j.name][v] : \E k \in DOMAIN td : td[k].name = d
        BY <2>4, <2>8, <3>2 DEF Rest
      <4>2. DOMAIN Deps[j.name][v] \subseteq Names
        BY <2>5, <2>9, ProjectAssumption
      <4> QED BY <2>6, <4>1, <4>2 DEF AllMet, Met, Pending
    <3> QED BY <3>1, <3>2
  <2>14. \A src, n, e : VerOf(src, n, e)' = VerOf(src, n, e)
    BY <1>1 DEF VerOf
  <2>15. ASSUME td # <<>>, ~td[1].top, NEW w \in cmd'.visited
         PROVE  AllMet(w[1], VerOf(cmd.todo[1].src, w[1], w[2]))'
    <3>1. cmd'.todo[1].src = j.src
      BY <2>5, <2>6, <2>15, SeqFacts
    <3>2. PICK u : u = VerOf(j.src, w[1], w[2])
      OBVIOUS
    <3>3. AllMet(w[1], u)'
      <4>1. CASE w = Key(j.name, cmd.entry)
        <5>1. w[1] = j.name /\ w[2] = cmd.entry
          BY <4>1 DEF Key
        <5> QED BY <5>1, <3>2, <2>9, <2>13
      <4>2. CASE w \in Visited(j)
        <5>1. ~j.top /\ w \in cmd.visited
          BY <4>2 DEF Visited
        <5>2. AllMet(w[1], u)
          BY <5>1, <3>2, <2>12
        <5> QED BY <5>2, <2>11, MetStays
      <4> QED BY <4>1, <4>2, <2>6, <2>15
    <3>4. VerOf(cmd.todo[1].src, w[1], w[2])' = u
      BY <3>1, <3>2, <1>1 DEF VerOf
    <3> QED BY <3>3, <3>4 DEF AllMet
  <2>16. VisitedInv'
    BY <2>6, <2>15 DEF VisitedInv
  <2>17. ASSUME NEW n \in cmd.touched
         PROVE  (Has(n) /\ AllMet(n, installed[n]))'
    <3>1. CASE n = j.name
      BY <3>1, <2>9, <2>10, <2>13, <1>1 DEF AllMet
    <3>2. CASE n # j.name
      <4>1. PICK u : u = installed[n]
        OBVIOUS
      <4>2. Has(n) /\ AllMet(n, u)
        BY <2>1, <2>3, <3>2, <4>1 DEF Closing, TouchedInv
      <4>3. AllMet(n, u)'
        BY <2>11, <4>2, MetStays
      <4> QED BY <4>1, <4>2, <4>3, <1>1 DEF AllMet, Has
    <3> QED BY <3>1, <3>2
  <2>18. TouchedInv'
    BY <2>6, <2>7, <2>17 DEF TouchedInv
  <2> QED BY <2>16, <2>18 DEF Closing
<1> QED BY <1>2, <1>3

LEMMA FailClosing ==
  ASSUME Typed, Closing, Fail
  PROVE  Closing'
<1>1. cmd.pc = "run" /\ cmd.todo # <<>> /\ CmdShape(cmd)
  BY DEF Fail, Typed, CmdOK
<1>2. CASE Head(cmd.todo).src # "local"
  <2>1. cmd'.pc = "idle"
    BY <1>1, <1>2, FailFields DEF Started, Fields
  <2> QED BY <2>1, IdleClosing
<1>3. CASE Head(cmd.todo).src = "local"
  <2>1. cmd'.todo = cmd.fallback /\ cmd'.touched = {}
    BY <1>1, <1>3, FailFields DEF Fields
  <2>2. cmd.fallback # <<>> => 1 \in DOMAIN cmd.fallback
    BY SeqFacts DEF Typed, CmdOK
  <2>3. cmd'.todo # <<>> => cmd'.todo[1].top
    BY <2>1, <2>2 DEF Typed, JobsOK
  <2> QED BY <2>1, <2>3 DEF Closing, VisitedInv, TouchedInv
<1> QED BY <1>2, <1>3

LEMMA NextImportClosing ==
  ASSUME Typed, Closing, NEW n \in Names, NextImport(n)
  PROVE  Closing'
<1>1. cmd.pc = "run" /\ cmd.todo = <<>> /\ CmdShape(cmd) /\ installed' = installed
  BY DEF NextImport, Typed, CmdOK
<1>2. cmd'.pc = "run" /\ cmd'.touched = cmd.touched /\ (cmd'.todo = <<>> \/ cmd'.todo = <<Install(n, SpecOf(n), "local", TRUE)>>)
  BY <1>1, NextImportFields DEF Fields
<1>3. cmd'.todo # <<>> => cmd'.todo[1].top
  BY <1>2 DEF Install
<1>4. VisitedInv'
  BY <1>3 DEF VisitedInv
<1>5. Working /\ ~Busy /\ ~Busy'
  BY <1>1, <1>2 DEF Working, Busy, Locking
<1>6. ASSUME NEW d, Met(d) PROVE Met(d)'
  <2>1. ~Pending(d)
    BY <1>1 DEF Pending
  <2> QED BY <1>1, <1>6, <2>1 DEF Met, Has
<1>7. ASSUME NEW m \in cmd.touched
      PROVE  (Has(m) /\ AllMet(m, installed[m]))'
  <2>1. PICK u : u = installed[m]
    OBVIOUS
  <2>2. Has(m) /\ AllMet(m, u)
    BY <1>5, <2>1 DEF Closing, TouchedInv
  <2>3. AllMet(m, u)'
    BY <1>6, <2>2, MetStays
  <2> QED BY <2>1, <2>2, <2>3, <1>1 DEF AllMet, Has
<1>8. TouchedInv'
  BY <1>2, <1>5, <1>7 DEF TouchedInv
<1> QED BY <1>4, <1>8 DEF Closing

LEMMA ClosingStep ==
  ASSUME Typed, Closing, [Next]_vars
  PROVE  Closing'
<1>1. ASSUME NEW n \in Names, NEW s, Add(n, s) \/ InstallOnline(n, s) PROVE Closing'
  BY <1>1, StartFields, FreshClosing DEF Add, InstallOnline, Started, Fields
<1>2. ASSUME NEW n \in Names, NEW v, InstallOffline(n, v) PROVE Closing'
  BY <1>2, StartFields, FreshClosing DEF InstallOffline, Started, Fields
<1>3. ASSUME NEW all, Update(all) PROVE Closing'
  BY <1>3, StartFields, FreshClosing DEF Update, Started, Fields
<1>4. ASSUME NEW kind, Sync(kind) PROVE Closing'
  BY <1>4, SyncFields, FreshClosing DEF Started, Fields
<1>5. ASSUME NEW n, NEW declared, Uninstall(n, declared) PROVE Closing'
  BY <1>5, UninstallFields, FreshClosing DEF Started, Fields
<1>6. CASE EndSync
  <2>1. cmd'.pc = "lock" /\ cmd'.then # "deps"
    BY <1>6, EndSyncFields DEF Fields, Typed, CmdOK
  <2> QED BY <2>1, IdleClosing
<1>7. CASE ExtractFails \/ EndInstall \/ Resolve \/ Crash
  <2>1. cmd' = Idle
    BY <1>7 DEF ExtractFails, EndInstall, Resolve, Crash
  <2> QED BY <2>1, IdleFields, IdleClosing DEF Started, Fields
<1>8. ASSUME NEW n, NEW v, PublishLocal(n, v) PROVE Closing'
  <2>1. cmd'.pc = "idle"
    BY <1>8 DEF PublishLocal
  <2> QED BY <2>1, IdleClosing
<1>9. CASE (\E n \in Names : \E v \in Releases[n] : Publish(n, v)) \/ UNCHANGED vars
  <2>1. local' = local /\ installed' = installed /\ cmd' = cmd
    BY <1>9 DEF Publish, vars
  <2>2. \A d : Met(d)' <=> Met(d)
    BY <2>1 DEF Met, Has, Pending
  <2>3. \A n, v : AllMet(n, v)' <=> AllMet(n, v)
    BY <2>2 DEF AllMet
  <2>4. VisitedInv'
    <3>1. CASE Working
      BY <3>1, <2>1, <2>2, VisitedStays DEF Closing
    <3>2. CASE ~Working
      BY <3>2, <2>1 DEF VisitedInv, Working, Busy, Locking
    <3> QED BY <3>1, <3>2
  <2>5. TouchedInv'
    BY <2>1, <2>2 DEF Closing, TouchedInv, AllMet, Working, Busy, Locking, Has
  <2> QED BY <2>4, <2>5 DEF Closing
<1> QED BY <1>1, <1>2, <1>3, <1>4, <1>5, <1>6, <1>7, <1>8, <1>9, BeginClosing, ExtractClosing, TruncateClosing,
           WriteClosing, FailClosing, NextImportClosing DEF Next, Step

LEMMA ClosingMeans ==
  ASSUME Typed, Closing
  PROVE  ClosesDependencies
<1>1. SUFFICES ASSUME Done, NEW n \in cmd.touched, NEW d \in DOMAIN Deps[n][installed[n]]
               PROVE  Has(d)
  BY DEF ClosesDependencies
<1>2. Working /\ ~Busy /\ cmd.todo = <<>>
  BY <1>1 DEF Done, Working, Busy, Locking
<1>3. AllMet(n, installed[n]) /\ ~Pending(d)
  BY <1>2 DEF Closing, TouchedInv, Pending
<1> QED BY <1>3 DEF AllMet, Met

-----------------------------------------------------------------------------
(* A sync keeps every declared import in hand.                             *)

LEMMA QuietSync ==
  ASSUME cmd'.pc = "idle" \/ (cmd'.pc = "lock" /\ cmd'.todo = <<>>), cmd'.then = "end"
  PROVE  SyncInv'
BY DEF SyncInv, Working, Busy, Locking

LEMMA StartedSync ==
  ASSUME NEW todo, NEW left, NEW kind, Started(cmd', "run", todo, Torn, left, kind),
         kind \in {"sync", "resolve"} => left = imports'
  PROVE  SyncInv'
<1>1. cmd'.pc = "run" /\ cmd'.then = "end" /\ cmd'.left = left /\ cmd'.kind = kind /\ DOMAIN cmd'.added = {}
  BY NoMaps DEF Started, Fields
<1> QED BY <1>1 DEF SyncInv, InHand

LEMMA BeginSync ==
  ASSUME Typed, SyncInv, Begin
  PROVE  SyncInv'
<1>1. PICK j : j = cmd.todo[1]
  OBVIOUS
<1>2. cmd.pc = "run" /\ cmd.todo # <<>> /\ CmdShape(cmd) /\ imports' = imports /\ manifest' = manifest /\ cmd.then = "end"
  BY DEF Begin, Typed, CmdOK, JobsOK, maps
<1>3. Head(cmd.todo) = j
  BY <1>1, <1>2, HeadFacts DEF Typed
<1>4. /\ cmd'.pc = "extract" /\ cmd'.todo = cmd.todo /\ cmd'.left = cmd.left /\ cmd'.fallback = cmd.fallback
      /\ cmd'.added = cmd.added /\ cmd'.kind = cmd.kind /\ cmd'.then = cmd.then
  BY <1>2, BeginFields DEF Fields
<1>5. installed' = [installed EXCEPT ![j.name] = Partial] /\ DOMAIN installed = Names
  BY <1>3 DEF Begin, Typed, ProjectOK
<1>6. \A n \in Names : n # j.name => (Has(n)' <=> Has(n))
  BY <1>5 DEF Has
<1>7. Working
  BY <1>2 DEF Working
<1>8. imports \subseteq Names /\ DOMAIN cmd.added \subseteq Names
  BY DEF Typed, ProjectOK, CmdOK, IsMap
<1>9. \A n \in Names : InHand(n) => InHand(n)'
  BY <1>1, <1>4, <1>6 DEF InHand
<1> QED BY <1>1, <1>2, <1>4, <1>6, <1>7, <1>8, <1>9 DEF SyncInv

LEMMA ExtractSync ==
  ASSUME Typed, SyncInv, Extract
  PROVE  SyncInv'
<1>1. PICK j : j = cmd.todo[1]
  OBVIOUS
<1>2. /\ cmd.pc = "extract" /\ cmd.todo # <<>> /\ CmdShape(cmd) /\ imports' = imports /\ manifest' = manifest
      /\ cmd.then = "end" /\ Busy /\ Working
  BY DEF Extract, Typed, CmdOK, JobsOK, maps, Busy, Working
<1>3. Head(cmd.todo) = j /\ j.name \in Names /\ cmd.ver \in DOMAIN Deps[j.name]
  BY <1>1, <1>2, HeadFacts DEF Typed, JobsOK
<1>4. CASE j.src = "offline"
  <2>1. cmd'.pc = "idle" /\ cmd'.then = "end"
    BY <1>2, <1>3, <1>4, ExtractFields DEF Started, Fields
  <2> QED BY <2>1, QuietSync
<1>5. CASE j.src # "offline"
  <2>1. /\ cmd'.pc = "lock" /\ cmd'.then = "deps" /\ cmd'.todo = cmd.todo /\ cmd'.left = cmd.left
        /\ cmd'.fallback = cmd.fallback /\ cmd'.added = cmd.added /\ cmd'.kind = cmd.kind
    BY <1>2, <1>3, <1>5, ExtractFields DEF Fields
  <2>2. installed' = [installed EXCEPT ![j.name] = cmd.ver] /\ DOMAIN installed = Names
    BY <1>3 DEF Extract, Typed, ProjectOK
  <2>3. Has(j.name)'
    BY <1>3, <2>2, VersionIsThere DEF Has
  <2>4. \A n \in Names : Has(n) => Has(n)'
    BY <2>2, <2>3 DEF Has
  <2>5. \A n \in Names : InHand(n) => InHand(n)'
    BY <1>1, <2>1, <2>3, <2>4 DEF InHand
  <2>6. imports \subseteq Names /\ DOMAIN cmd.added \subseteq Names
    BY DEF Typed, ProjectOK, CmdOK, IsMap
  <2> QED BY <1>1, <1>2, <2>1, <2>3, <2>4, <2>5, <2>6 DEF SyncInv
<1> QED BY <1>4, <1>5

LEMMA TruncateSync ==
  ASSUME Typed, SyncInv, TruncateLock
  PROVE  SyncInv'
<1>1. /\ cmd'.pc = "lock_open" /\ cmd'.todo = cmd.todo /\ cmd'.left = cmd.left /\ cmd'.fallback = cmd.fallback
      /\ cmd'.added = cmd.added /\ cmd'.kind = cmd.kind /\ cmd'.then = cmd.then /\ cmd.pc = "lock"
  BY TruncateFields DEF Typed, CmdOK, Fields, TruncateLock
<1>2. imports' = imports /\ manifest' = manifest /\ installed' = installed
  BY DEF TruncateLock, maps
<1>3. Working' <=> Working
  BY <1>1 DEF Working, Busy, Locking
<1>4. \A n : Has(n)' <=> Has(n)
  BY <1>2 DEF Has
<1>5. \A n : InHand(n)' <=> InHand(n)
  BY <1>1, <1>4 DEF InHand
<1> QED BY <1>1, <1>2, <1>3, <1>4, <1>5 DEF SyncInv

LEMMA WriteSync ==
  ASSUME Typed, SyncInv, WriteLock
  PROVE  SyncInv'
<1>1. /\ cmd.pc = "lock_open" /\ CmdShape(cmd) /\ Locking
      /\ imports' = imports /\ manifest' = manifest /\ installed' = installed
  BY DEF WriteLock, Typed, CmdOK, maps, Locking
<1>2. \A n : Has(n)' <=> Has(n)
  BY <1>1 DEF Has
<1>3. CASE cmd.then = "end"
  <2>1. cmd'.pc = "idle" /\ cmd'.then = "end"
    BY <1>1, <1>3, WrittenFields DEF Started, Fields
  <2> QED BY <2>1, QuietSync
<1>4. CASE cmd.then = "resolve"
  <2>1. cmd'.pc = "resolve"
    BY <1>1, <1>4, WrittenFields DEF Fields
  <2> QED BY <1>1, <1>2, <1>4, <2>1 DEF SyncInv, Working, Busy, Locking
<1>5. CASE cmd.then = "deps"
  <2>1. PICK j : j = cmd.todo[1]
    OBVIOUS
  <2>2. Busy /\ Working /\ cmd.todo # <<>>
    BY <1>1, <1>5 DEF Busy, Working, Typed, JobsOK
  <2>3. Head(cmd.todo) = j /\ j.name \in Names
    BY <2>1, <2>2, HeadFacts DEF Typed
  <2>4. /\ cmd'.pc = "run" /\ cmd'.then = "end" /\ cmd'.left = cmd.left /\ cmd'.kind = cmd.kind
        /\ cmd'.added = IF j.top /\ j.spec = NoSpec THEN Put(cmd.added, j.name, Caret(cmd.entry.ver)) ELSE cmd.added
    BY <1>1, <1>5, <2>3, DescendFields DEF Fields
  <2>5. installed[j.name] = cmd.ver /\ cmd.ver \in DOMAIN Deps[j.name]
    BY <1>1, <2>1, <2>2 DEF Typed, JobsOK
  <2>6. Has(j.name)
    BY <2>3, <2>5, VersionIsThere DEF Has
  <2>7. \A n : InHand(n) => InHand(n)'
    BY <1>1, <1>2, <2>1, <2>4, <2>6 DEF InHand
  <2>8. DOMAIN cmd'.added \subseteq DOMAIN cmd.added \cup {j.name}
    <3>1. DOMAIN Put(cmd.added, j.name, Caret(cmd.entry.ver)) = DOMAIN cmd.added \cup {j.name}
      BY DEF Put
    <3> QED BY <2>4, <3>1
  <2>9. \A n \in DOMAIN cmd'.added : Has(n)
    BY <1>1, <2>2, <2>6, <2>8 DEF SyncInv
  <2> QED BY <1>1, <1>2, <2>2, <2>4, <2>7, <2>9 DEF SyncInv
<1> QED BY <1>3, <1>4, <1>5 DEF Typed, CmdOK

LEMMA FailSync ==
  ASSUME Typed, SyncInv, Fail
  PROVE  SyncInv'
<1>1. /\ cmd.pc = "run" /\ cmd.todo # <<>> /\ CmdShape(cmd) /\ Working /\ cmd.then = "end"
      /\ imports' = imports /\ manifest' = manifest /\ installed' = installed
  BY DEF Fail, Typed, CmdOK, JobsOK, maps, Working
<1>2. Head(cmd.todo) = cmd.todo[1]
  BY <1>1, HeadFacts DEF Typed
<1>3. CASE cmd.todo[1].src # "local"
  <2>1. cmd'.pc = "idle" /\ cmd'.then = "end"
    BY <1>1, <1>2, <1>3, FailFields DEF Started, Fields
  <2> QED BY <2>1, QuietSync
<1>4. CASE cmd.todo[1].src = "local"
  <2>1. /\ cmd'.pc = "run" /\ cmd'.todo = cmd.fallback /\ cmd'.left = cmd.left /\ DOMAIN cmd'.added \subseteq DOMAIN cmd.added
        /\ cmd'.kind = cmd.kind /\ cmd'.then = "end"
    BY <1>1, <1>2, <1>4, FailFields DEF Fields
  <2>2. cmd.fallback # <<>> => cmd.fallback[1].top /\ cmd.fallback[1].src = "remote"
    <3>1. cmd.fallback # <<>> => 1 \in DOMAIN cmd.fallback
      BY SeqFacts DEF Typed, CmdOK
    <3> QED BY <3>1 DEF Typed, JobsOK
  <2>3. \A n : Has(n)' <=> Has(n)
    BY <1>1 DEF Has
  <2>4. \A n : InHand(n) => InHand(n)'
    BY <1>1, <1>4, <2>1, <2>2, <2>3 DEF InHand
  <2> QED BY <1>1, <2>1, <2>3, <2>4 DEF SyncInv
<1> QED BY <1>3, <1>4

LEMMA NextImportSync ==
  ASSUME Typed, SyncInv, NEW m \in Names, NextImport(m)
  PROVE  SyncInv'
<1>1. /\ cmd.pc = "run" /\ cmd.todo = <<>> /\ CmdShape(cmd) /\ Working /\ cmd.then = "end"
      /\ imports' = imports /\ manifest' = manifest /\ installed' = installed
  BY DEF NextImport, Typed, CmdOK, JobsOK, maps, Working
<1>2. \A n : Has(n)' <=> Has(n)
  BY <1>1 DEF Has
<1>3. /\ cmd'.pc = "run" /\ cmd'.left = cmd.left \ {m} /\ cmd'.added = cmd.added
      /\ cmd'.kind = cmd.kind /\ cmd'.then = "end"
  BY <1>1, NextImportFields DEF Fields
<1>4. \A n : n # m /\ InHand(n) => InHand(n)'
  BY <1>1, <1>2, <1>3 DEF InHand
<1>5. ASSUME m \in DOMAIN manifest PROVE InHand(m)'
  <2>1. CASE Has(m)
    BY <2>1, <1>2 DEF InHand
  <2>2. CASE ~Has(m)
    <3>1. cmd'.todo = <<Install(m, SpecOf(m), "local", TRUE)>> /\ cmd'.fallback = Retry(m)
      BY <1>1, <2>2, NextImportFields DEF Fields
    <3>2. SpecOf(m) # NoSpec
      BY <1>5 DEF SpecOf, Typed, ProjectOK
    <3>3. cmd'.fallback = <<Install(m, SpecOf(m), "remote", TRUE)>>
      BY <3>1, <3>2 DEF Retry
    <3>4. \A x : <<x>> # <<>> /\ <<x>>[1] = x
      OBVIOUS
    <3>5. /\ cmd'.todo # <<>> /\ cmd'.todo[1] = Install(m, SpecOf(m), "local", TRUE)
          /\ cmd'.fallback # <<>> /\ cmd'.fallback[1] = Install(m, SpecOf(m), "remote", TRUE)
      BY <3>1, <3>3, <3>4
    <3>6. cmd'.todo[1].name = m /\ cmd'.todo[1].top /\ cmd'.fallback[1].name = m
      BY <3>5 DEF Install
    <3> QED BY <3>5, <3>6 DEF InHand
  <2> QED BY <2>1, <2>2
<1> QED BY <1>1, <1>2, <1>3, <1>4, <1>5 DEF SyncInv

LEMMA EndSyncSync ==
  ASSUME Typed, SyncInv, EndSync
  PROVE  SyncInv'
<1>1. /\ cmd.pc = "run" /\ cmd.todo = <<>> /\ cmd.left = {} /\ CmdShape(cmd) /\ cmd.kind \in {"sync", "resolve"} /\ Working
      /\ manifest' = Over(cmd.added, manifest) /\ imports' = imports /\ installed' = installed
  BY DEF EndSync, Done, Typed, CmdOK, Working
<1>2. cmd'.pc = "lock" /\ cmd'.then # "deps"
  BY <1>1, EndSyncFields DEF Fields
<1>3. \A n \in imports \cap DOMAIN manifest : Has(n)
  BY <1>1 DEF SyncInv, InHand
<1>4. \A n \in DOMAIN cmd.added : Has(n)
  BY <1>1 DEF SyncInv
<1>5. DOMAIN manifest' = DOMAIN cmd.added \cup DOMAIN manifest
  BY <1>1, OverFacts
<1>6. \A n \in imports' \cap DOMAIN manifest' : Has(n)'
  BY <1>1, <1>3, <1>4, <1>5 DEF Has
<1> QED BY <1>2, <1>6 DEF SyncInv, Working, Busy, Locking

LEMMA SyncStep ==
  ASSUME Typed, SyncInv, [Next]_vars
  PROVE  SyncInv'
<1>1. ASSUME NEW n \in Names, NEW s, Add(n, s) \/ InstallOnline(n, s) PROVE SyncInv'
  <2>1. PICK td : Start("install", td)
    BY <1>1 DEF Add, InstallOnline
  <2>2. Started(cmd', "run", td, Torn, {}, "install")
    BY <2>1, StartFields
  <2> QED BY <2>2, StartedSync
<1>2. ASSUME NEW n \in Names, NEW v, InstallOffline(n, v) PROVE SyncInv'
  <2>1. PICK td : Start("offline", td)
    BY <1>2 DEF InstallOffline
  <2>2. Started(cmd', "run", td, Torn, {}, "offline")
    BY <2>1, StartFields
  <2> QED BY <2>2, StartedSync
<1>3. ASSUME NEW all, Update(all) PROVE SyncInv'
  <2>1. PICK td : Start("install", td)
    BY <1>3 DEF Update
  <2>2. Started(cmd', "run", td, Torn, {}, "install")
    BY <2>1, StartFields
  <2> QED BY <2>2, StartedSync
<1>4. ASSUME NEW kind, Sync(kind) PROVE SyncInv'
  <2>1. Started(cmd', "run", <<>>, Torn, imports', kind)
    BY <1>4, SyncFields DEF Sync, maps
  <2> QED BY <2>1, StartedSync
<1>5. ASSUME NEW n, NEW declared, Uninstall(n, declared) PROVE SyncInv'
  BY <1>5, UninstallFields, QuietSync DEF Started, Fields
<1>6. CASE ExtractFails \/ EndInstall \/ Resolve \/ Crash
  <2>1. cmd' = Idle
    BY <1>6 DEF ExtractFails, EndInstall, Resolve, Crash
  <2> QED BY <2>1, IdleFields, QuietSync DEF Started, Fields
<1>7. ASSUME NEW n, NEW v, PublishLocal(n, v) PROVE SyncInv'
  <2>1. cmd'.pc = "idle" /\ cmd' = cmd /\ cmd.pc = "idle"
    BY <1>7 DEF PublishLocal
  <2>2. cmd.then = "end"
    BY <2>1, IdleFields DEF Typed, JobsOK, Started, Fields
  <2> QED BY <2>1, <2>2, QuietSync
<1>8. CASE (\E n \in Names : \E v \in Releases[n] : Publish(n, v)) \/ UNCHANGED vars
  <2>1. imports' = imports /\ manifest' = manifest /\ installed' = installed /\ cmd' = cmd
    BY <1>8 DEF Publish, vars, maps
  <2> QED BY <2>1 DEF SyncInv, InHand, Has, Working, Busy, Locking
<1> QED BY <1>1, <1>2, <1>3, <1>4, <1>5, <1>6, <1>7, <1>8, BeginSync, ExtractSync, TruncateSync,
           WriteSync, FailSync, NextImportSync, EndSyncSync DEF Next, Step

-----------------------------------------------------------------------------
(* The lockfile falls out of step by one package per slip.                 *)

LEMMA OffSize ==
  ASSUME NEW S \in SUBSET Names
  PROVE  /\ Cardinality(S) \in Nat
         /\ \A T : T \subseteq S => Cardinality(T) <= Cardinality(S)
         /\ \A T, x : T \ {x} \subseteq S => Cardinality(T) <= Cardinality(S) + 1
<1>1. IsFiniteSet(S)
  BY FS_Subset, ProjectAssumption
<1>2. Cardinality(S) \in Nat
  BY <1>1, FS_CardinalityType
<1>3. ASSUME NEW T, T \subseteq S PROVE Cardinality(T) <= Cardinality(S)
  BY <1>1, <1>3, FS_Subset
<1>4. ASSUME NEW T, NEW x, T \ {x} \subseteq S PROVE Cardinality(T) <= Cardinality(S) + 1
  <2> DEFINE U == S \cup {x}
  <2>1. IsFiniteSet(U) /\ Cardinality(U) <= Cardinality(S) + 1 /\ Cardinality(U) \in Nat
    BY <1>1, <1>2, FS_AddElement, FS_CardinalityType
  <2>2. T \in SUBSET U
    BY <1>4
  <2> HIDE DEF U
  <2>3. IsFiniteSet(T) /\ Cardinality(T) <= Cardinality(U)
    BY <2>1, <2>2, FS_Subset
  <2>4. Cardinality(T) \in Nat
    BY <2>3, FS_CardinalityType
  <2> QED BY <1>2, <2>1, <2>3, <2>4
<1> QED BY <1>2, <1>3, <1>4

LEMMA OffIn == \A l, i : Off(l, i) \in SUBSET Names
BY DEF Off

LEMMA AllowanceIs == Allowance \in {0, 1}
BY DEF Allowance

(* A step of the command that leaves lockfile and packages alone.          *)
LEMMA SlipSame ==
  ASSUME Typed, SlipInv, lock' = lock, installed' = installed, cut' = cut,
         cmd.pc \in {"idle", "run", "resolve"}, cmd'.pc \in {"idle", "run", "resolve"},
         slips' \in Nat, slips' >= slips + (IF cmd'.kind = "offline" /\ cmd.kind # "offline" THEN 1 ELSE 0)
  PROVE  SlipInv'
<1>1. ~Locking /\ ~Locking'
  BY DEF Locking
<1>2. Coming = lock /\ Coming' = lock
  BY <1>1 DEF Coming
<1>3. Off(Coming, installed)' = Off(Coming, installed)
  BY <1>2 DEF Off, Fits
<1> DEFINE c == Cardinality(Off(Coming, installed))
<1>4. c \in Nat /\ slips \in Nat
  BY OffIn, OffSize DEF Typed, ProjectOK
<1>5. Allowance = (IF cmd.kind = "offline" THEN 1 ELSE 0) /\ Allowance' = (IF cmd'.kind = "offline" THEN 1 ELSE 0)
  BY DEF Allowance
<1>6. ~cut => c + Allowance <= slips
  BY DEF SlipInv
<1>7. Cardinality(Off(Coming, installed))' = c
  BY <1>3
<1> HIDE DEF c
<1>8. ~cut => c + Allowance' <= slips'
  BY <1>4, <1>5, <1>6
<1> QED BY <1>7, <1>8 DEF SlipInv

LEMMA StartSlip ==
  ASSUME Typed, SlipInv, cmd.pc = "idle", NEW kind, NEW todo, NEW left, Started(cmd', "run", todo, Torn, left, kind),
         lock' = lock, installed' = installed, cut' = cut,
         slips' = slips + (IF kind = "offline" THEN 1 ELSE 0)
  PROVE  SlipInv'
<1>1. cmd'.pc = "run" /\ cmd'.kind = kind /\ slips \in Nat
  BY DEF Started, Fields, Typed, ProjectOK
<1> QED BY <1>1, SlipSame

(* A command that ends without having changed a package.                   *)
LEMMA EndSlip ==
  ASSUME Typed, SlipInv, cmd.pc \in {"idle", "run", "resolve"}, cmd' = Idle,
         lock' = lock, installed' = installed, cut' = cut, slips' \in {slips, slips + 1}
  PROVE  SlipInv'
<1>1. cmd'.pc = "idle" /\ cmd'.kind = "none" /\ slips \in Nat
  BY IdleFields DEF Started, Fields, Typed, ProjectOK
<1> QED BY <1>1, SlipSame

(* From one state to an idle one with at most one more package amiss.      *)
LEMMA OneMoreSlip ==
  ASSUME Typed, SlipInv, cmd' = Idle, lock' = lock, cut' = cut, cmd.pc \in {"lock", "extract"},
         NEW x, ~cut => Off(lock, installed') \ {x} \subseteq
                              Off(Coming, installed) \ (IF cmd.pc = "extract" THEN {cmd.todo[1].name} ELSE {}),
         slips' = slips + 1 \/ (slips' = slips /\ Allowance = 1)
  PROVE  SlipInv'
<1> DEFINE S == Off(Coming, installed) \ (IF cmd.pc = "extract" THEN {cmd.todo[1].name} ELSE {})
           T == Off(lock, installed')
<1>1. cmd'.pc = "idle" /\ cmd'.kind = "none" /\ slips \in Nat
  BY IdleFields DEF Started, Fields, Typed, ProjectOK
<1>2. Allowance' = 0 /\ Coming' = lock /\ ~Locking'
  BY <1>1 DEF Allowance, Coming, Locking
<1>3. ~cut => Cardinality(S) + Allowance <= slips
  <2>1. CASE cmd.pc = "extract"
    BY <2>1 DEF SlipInv
  <2>2. CASE cmd.pc = "lock"
    <3>1. S = Off(Coming, installed)
      BY <2>2
    <3> QED BY <2>2, <3>1 DEF SlipInv
  <2> QED BY <2>1, <2>2
<1>4. S \in SUBSET Names /\ T \in SUBSET Names
  BY OffIn
<1>5. ~cut => T \ {x} \subseteq S
  OBVIOUS
<1>6. Off(Coming, installed)' = T
  BY <1>2 DEF Off, Fits
<1> HIDE DEF S, T
<1>7. ~cut => Cardinality(T) <= Cardinality(S) + 1
  BY <1>4, <1>5, OffSize
<1>8. Cardinality(S) \in Nat /\ Cardinality(T) \in Nat /\ Allowance \in {0, 1}
  BY <1>4, OffSize, AllowanceIs
<1>9. ~cut => Cardinality(T) <= slips'
  BY <1>1, <1>3, <1>7, <1>8
<1>10. lock = Torn => cut
  BY DEF SlipInv
<1> QED BY <1>1, <1>2, <1>6, <1>8, <1>9, <1>10 DEF SlipInv

LEMMA UninstallSlip ==
  ASSUME Typed, SlipInv, NEW n \in Names, NEW declared \in BOOLEAN, Uninstall(n, declared)
  PROVE  SlipInv'
<1>1. /\ cmd.pc = "idle" /\ lock' = lock /\ cut' = cut /\ slips' = slips /\ slips \in Nat
      /\ installed' = [installed EXCEPT ![n] = None] /\ DOMAIN installed = Names /\ installed = [m \in Names |-> installed[m]]
  BY DEF Uninstall, ghosts, Typed, ProjectOK
<1>2. CASE installed[n] = None
  <2>1. installed' = installed
    BY <1>1, <1>2
  <2>2. cmd' = Idle
    BY <1>2 DEF Uninstall
  <2> QED BY <1>1, <2>1, <2>2, EndSlip
<1>3. CASE installed[n] # None
  <2>1. cmd'.pc = "lock" /\ cmd'.new = Unlocked(n) /\ cmd'.kind = "uninstall"
    BY <1>3, UninstallFields DEF Started, Fields
  <2>2. Locking' /\ ~Locking /\ Coming' = Unlocked(n) /\ Coming = lock /\ Allowance' = 0
    BY <1>1, <2>1 DEF Locking, Coming, Allowance
  <2>3. lock = Torn => cut
    BY <1>1 DEF SlipInv
  <2>4. ASSUME ~cut
        PROVE  /\ \A m \in Names \ {n} : /\ m \in DOMAIN Unlocked(n).packages <=> m \in DOMAIN lock.packages
                                         /\ m \in DOMAIN lock.packages => Unlocked(n).packages[m] = lock.packages[m]
               /\ n \notin DOMAIN Unlocked(n).packages
    <3>1. Load = lock
      BY <2>3, <2>4, LoadOK DEF Typed
    <3> QED BY <3>1 DEF Unlocked
  <2>5. ASSUME ~cut PROVE Off(Unlocked(n), installed') \subseteq Off(lock, installed)
    BY <1>1, <2>4, <2>5 DEF Off, Fits
  <2>6. Off(Coming, installed)' = Off(Unlocked(n), installed')
    BY <2>2 DEF Off, Fits
  <2>7. ~cut => Cardinality(Off(lock, installed)) + Allowance <= slips
    BY <1>1, <2>2 DEF SlipInv
  <2> DEFINE S == Off(lock, installed)
             T == Off(Unlocked(n), installed')
  <2>8. S \in SUBSET Names /\ T \in SUBSET Names
    BY OffIn
  <2> HIDE DEF S, T
  <2>9. ~cut => Cardinality(T) <= Cardinality(S)
    BY <2>5, <2>8, OffSize DEF S, T
  <2>10. Cardinality(S) \in Nat /\ Cardinality(T) \in Nat /\ Allowance \in {0, 1}
    BY <2>8, OffSize, AllowanceIs
  <2>11. ~cut => Cardinality(T) <= slips
    BY <1>1, <2>7, <2>9, <2>10 DEF S
  <2> QED BY <1>1, <2>1, <2>2, <2>3, <2>4, <2>6, <2>10, <2>11 DEF SlipInv, T
<1> QED BY <1>2, <1>3

LEMMA BeginSlip ==
  ASSUME Typed, SlipInv, Begin
  PROVE  SlipInv'
<1>1. PICK h : h = cmd.todo[1].name
  OBVIOUS
<1>2. /\ cmd.pc = "run" /\ cmd.todo # <<>> /\ CmdShape(cmd) /\ lock' = lock /\ cut' = cut /\ slips \in Nat
  BY DEF Begin, Typed, CmdOK, ProjectOK
<1>3. Head(cmd.todo) = cmd.todo[1]
  BY <1>2, HeadFacts DEF Typed
<1>4. PICK f \in Found(Head(cmd.todo)) :
         /\ Fields(cmd', "extract", cmd.todo, f.ver, f.entry, cmd.visited, cmd.new, cmd.then,
                   cmd.left, cmd.fallback, cmd.added, cmd.kind, cmd.touched)
         /\ slips' = IF f.entry = Exact(f.ver) THEN slips ELSE slips + 1
  BY <1>2, BeginFields
<1>5. cmd'.pc = "extract" /\ cmd'.todo = cmd.todo /\ cmd'.ver = f.ver /\ cmd'.entry = f.entry /\ cmd'.kind = cmd.kind
  BY <1>4 DEF Fields
<1>6. installed' = [installed EXCEPT ![h] = Partial] /\ DOMAIN installed = Names
  BY <1>1, <1>3 DEF Begin, Typed, ProjectOK
<1>7. ~Locking /\ ~Locking' /\ Coming = lock /\ Coming' = lock
  BY <1>2, <1>5 DEF Locking, Coming
<1>8. Off(lock, installed') \ {h} \subseteq Off(lock, installed)
  BY <1>6 DEF Off, Fits
<1> DEFINE S == Off(lock, installed)
           T == Off(lock, installed') \ {h}
<1>9. (Off(Coming, installed) \ {cmd.todo[1].name})' = T
  BY <1>1, <1>5, <1>7 DEF Off, Fits
<1>10. S \in SUBSET Names /\ T \in SUBSET Names /\ T \subseteq S
  BY <1>8, OffIn
<1>11. ~cut => Cardinality(S) + Allowance <= slips
  BY <1>2, <1>7 DEF SlipInv
<1> HIDE DEF S, T
<1>12. Cardinality(T) <= Cardinality(S) /\ Cardinality(S) \in Nat /\ Cardinality(T) \in Nat
  BY <1>10, OffSize
<1>13. Allowance = IF cmd.kind = "offline" THEN 1 ELSE 0
  BY <1>2 DEF Allowance
<1>14. Allowance' = IF cmd.kind = "offline" \/ f.entry # Exact(f.ver) THEN 1 ELSE 0
  BY <1>5 DEF Allowance
<1>15. ~cut => Cardinality(T) + Allowance' <= slips'
  <2>1. CASE f.entry = Exact(f.ver)
    BY <2>1, <1>2, <1>4, <1>11, <1>12, <1>13, <1>14
  <2>2. CASE f.entry # Exact(f.ver)
    BY <2>2, <1>2, <1>4, <1>11, <1>12, <1>13, <1>14
  <2> QED BY <2>1, <2>2
<1>16. lock = Torn => cut
  BY <1>2 DEF SlipInv
<1>17. ~cut' => Cardinality((Off(Coming, installed) \ {cmd.todo[1].name})') + Allowance' <= slips'
  BY <1>2, <1>9, <1>15
<1> QED BY <1>2, <1>5, <1>16, <1>17 DEF SlipInv

LEMMA ExtractSlip ==
  ASSUME Typed, SlipInv, Extract
  PROVE  SlipInv'
<1>1. PICK j : j = cmd.todo[1]
  OBVIOUS
<1>2. PICK h : h = j.name
  OBVIOUS
<1>3. /\ cmd.pc = "extract" /\ cmd.todo # <<>> /\ CmdShape(cmd) /\ lock' = lock /\ cut' = cut /\ slips \in Nat
      /\ slips' = slips /\ Busy /\ ~Locking
  BY DEF Extract, Typed, CmdOK, ProjectOK, JobsOK, ghosts, Busy, Locking
<1>4. Head(cmd.todo) = j /\ h \in Names /\ cmd.ver \in DOMAIN Deps[h]
  BY <1>1, <1>2, <1>3, HeadFacts DEF Typed, JobsOK
<1>5. installed' = [installed EXCEPT ![h] = cmd.ver] /\ DOMAIN installed = Names
  BY <1>2, <1>4 DEF Extract, Typed, ProjectOK
<1>6. Coming = lock /\ (lock = Torn => cut)
  BY <1>3 DEF Coming, SlipInv
<1>7. cmd.kind = "offline" <=> j.src = "offline"
  BY <1>1, <1>3 DEF Typed, JobsOK
<1>8. CASE j.src = "offline"
  <2>1. cmd' = Idle
    BY <1>4, <1>8 DEF Extract
  <2>2. Allowance = 1
    BY <1>7, <1>8 DEF Allowance
  <2>3. Off(lock, installed') \ {h} \subseteq Off(Coming, installed) \ {h}
    BY <1>5, <1>6 DEF Off, Fits
  <2>4. Off(lock, installed') \ {h} \subseteq
            Off(Coming, installed) \ (IF cmd.pc = "extract" THEN {cmd.todo[1].name} ELSE {})
    BY <1>1, <1>2, <1>3, <2>3
  <2> QED BY <1>3, <2>1, <2>2, <2>4, OneMoreSlip
<1>9. CASE j.src # "offline"
  <2>1. PICK l : l = [packages |-> Put(Load.packages, h, cmd.entry), root |-> Load.root \cup {h}]
    OBVIOUS
  <2>2. cmd'.pc = "lock" /\ cmd'.new = l /\ cmd'.kind = cmd.kind
    BY <1>2, <1>3, <1>4, <1>9, <2>1, ExtractFields DEF Fields
  <2>3. Locking' /\ Coming' = l /\ Allowance' = 0
    BY <1>7, <1>9, <2>2 DEF Locking, Coming, Allowance
  <2>4. ASSUME ~cut
        PROVE  /\ \A m \in Names \ {h} : /\ m \in DOMAIN l.packages <=> m \in DOMAIN lock.packages
                                         /\ m \in DOMAIN lock.packages => l.packages[m] = lock.packages[m]
               /\ h \in DOMAIN l.packages /\ l.packages[h] = cmd.entry
    <3>1. Load = lock
      BY <1>6, <2>4, LoadOK DEF Typed
    <3>2. l.packages = Put(lock.packages, h, cmd.entry)
      BY <2>1, <3>1
    <3> QED BY <3>2 DEF Put
  <2> DEFINE S == Off(lock, installed) \ {h}
             T == Off(l, installed')
  <2>5. ~cut => T \ {h} \subseteq S
    BY <1>5, <2>4 DEF Off, Fits
  <2>6. installed'[h] = cmd.ver /\ cmd.ver \notin {None, Partial}
    BY <1>4, <1>5, VersionIsThere
  <2>7. ~cut /\ cmd.entry = Exact(cmd.ver) => T \subseteq S
    <3>1. ~cut /\ cmd.entry = Exact(cmd.ver) => h \notin T
      BY <2>4, <2>6 DEF Off, Fits
    <3> HIDE DEF S, T
    <3> QED BY <2>5, <3>1
  <2>8. S \in SUBSET Names /\ T \in SUBSET Names
    BY OffIn
  <2>9. Off(Coming, installed)' = T
    BY <2>3 DEF Off, Fits
  <2>10. ~cut => Cardinality(S) + Allowance <= slips
    BY <1>1, <1>2, <1>3, <1>6 DEF SlipInv
  <2>11. Allowance = IF cmd.entry # Exact(cmd.ver) THEN 1 ELSE 0
    BY <1>3, <1>7, <1>9 DEF Allowance
  <2> HIDE DEF S, T
  <2>12. /\ Cardinality(S) \in Nat /\ Cardinality(T) \in Nat
         /\ ~cut => Cardinality(T) <= Cardinality(S) + 1
         /\ ~cut /\ cmd.entry = Exact(cmd.ver) => Cardinality(T) <= Cardinality(S)
    BY <2>5, <2>7, <2>8, OffSize
  <2>13. ~cut => Cardinality(T) <= slips
    BY <1>3, <2>10, <2>11, <2>12
  <2> QED BY <1>3, <1>4, <1>6, <2>2, <2>3, <2>4, <2>9, <2>12, <2>13 DEF SlipInv
<1> QED BY <1>8, <1>9

LEMMA ExtractFailsSlip ==
  ASSUME Typed, SlipInv, ExtractFails
  PROVE  SlipInv'
<1>1. PICK h : h = cmd.todo[1].name
  OBVIOUS
<1>2. /\ cmd.pc = "extract" /\ cmd.todo # <<>> /\ lock' = lock /\ cut' = cut /\ slips' = slips + 1 /\ cmd' = Idle /\ ~Locking
  BY DEF ExtractFails, Typed, JobsOK, Busy, Locking
<1>3. Head(cmd.todo) = cmd.todo[1]
  BY <1>2, HeadFacts DEF Typed
<1>4. PICK left : installed' = [installed EXCEPT ![h] = left]
  BY <1>1, <1>3 DEF ExtractFails
<1>5. Off(lock, installed') \ {h} \subseteq Off(Coming, installed) \ {h}
  BY <1>2, <1>4 DEF Off, Fits, Coming, Typed, ProjectOK
<1>6. Off(lock, installed') \ {h} \subseteq
            Off(Coming, installed) \ (IF cmd.pc = "extract" THEN {cmd.todo[1].name} ELSE {})
  BY <1>1, <1>2, <1>5
<1> QED BY <1>2, <1>6, OneMoreSlip

LEMMA TruncateSlip ==
  ASSUME Typed, SlipInv, TruncateLock
  PROVE  SlipInv'
<1>1. /\ cmd'.pc = "lock_open" /\ cmd'.new = cmd.new /\ cmd'.kind = cmd.kind /\ cmd.pc = "lock"
      /\ lock' = Torn /\ installed' = installed /\ slips' = slips /\ cut' = cut
  BY TruncateFields DEF Typed, CmdOK, Fields, TruncateLock, ghosts
<1>2. Coming' = Coming /\ Allowance' = Allowance
  BY <1>1 DEF Coming, Locking, Allowance
<1>3. Off(Coming, installed)' = Off(Coming, installed)
  BY <1>1, <1>2 DEF Off, Fits
<1> QED BY <1>1, <1>2, <1>3 DEF SlipInv

LEMMA WriteSlip ==
  ASSUME Typed, SlipInv, WriteLock
  PROVE  SlipInv'
<1>1. /\ cmd.pc = "lock_open" /\ CmdShape(cmd) /\ Locking /\ cmd.new # Torn /\ lock' = cmd.new
      /\ installed' = installed /\ slips' = slips /\ cut' = cut /\ cmd.then \in {"end", "deps", "resolve"}
  BY DEF WriteLock, ghosts, Typed, CmdOK, JobsOK, Locking
<1>2. cmd.kind # "offline"
  BY <1>1 DEF Typed, JobsOK
<1>3. CASE cmd.then = "deps"
  <2>1. Busy /\ cmd.todo # <<>>
    BY <1>1, <1>3 DEF Busy, Typed, JobsOK
  <2>2. Head(cmd.todo) = cmd.todo[1]
    BY <2>1, HeadFacts DEF Typed
  <2>3. cmd'.pc = "run" /\ cmd'.kind = cmd.kind
    BY <1>1, <1>3, <2>2, DescendFields DEF Fields
  <2>4. Coming = cmd.new /\ Coming' = cmd.new /\ Allowance' = 0 /\ Allowance = 0
    BY <1>1, <1>2, <2>3 DEF Coming, Locking, Allowance
  <2>5. Off(Coming, installed)' = Off(Coming, installed)
    BY <1>1, <2>4 DEF Off, Fits
  <2> QED BY <1>1, <2>3, <2>4, <2>5 DEF SlipInv
<1>4. CASE cmd.then # "deps"
  <2>1. cmd'.pc \in {"resolve", "idle"} /\ cmd'.kind # "offline"
    BY <1>1, <1>2, <1>4, WrittenFields DEF Started, Fields
  <2>2. Coming = cmd.new /\ Coming' = cmd.new /\ Allowance' = 0 /\ Allowance = 0
    BY <1>1, <1>2, <2>1 DEF Coming, Locking, Allowance
  <2>3. Off(Coming, installed)' = Off(Coming, installed)
    BY <1>1, <2>2 DEF Off, Fits
  <2> QED BY <1>1, <2>1, <2>2, <2>3 DEF SlipInv
<1> QED BY <1>3, <1>4

LEMMA FailSlip ==
  ASSUME Typed, SlipInv, Fail
  PROVE  SlipInv'
<1>1. /\ cmd.pc = "run" /\ CmdShape(cmd) /\ lock' = lock /\ installed' = installed /\ slips' = slips /\ cut' = cut
      /\ slips \in Nat
  BY DEF Fail, Typed, CmdOK, ProjectOK
<1>2. cmd'.pc \in {"idle", "run"} /\ (cmd'.kind = cmd.kind \/ cmd'.kind = "none")
  BY <1>1, FailFields DEF Started, Fields
<1> QED BY <1>1, <1>2, SlipSame

LEMMA NextImportSlip ==
  ASSUME Typed, SlipInv, NEW n \in Names, NextImport(n)
  PROVE  SlipInv'
<1>1. /\ cmd.pc = "run" /\ CmdShape(cmd) /\ lock' = lock /\ installed' = installed /\ slips' = slips /\ cut' = cut
      /\ slips \in Nat
  BY DEF NextImport, ghosts, Typed, CmdOK, ProjectOK
<1>2. cmd'.pc = "run" /\ cmd'.kind = cmd.kind
  BY <1>1, NextImportFields DEF Fields
<1> QED BY <1>1, <1>2, SlipSame

LEMMA EndSyncSlip ==
  ASSUME Typed, SlipInv, EndSync
  PROVE  SlipInv'
<1>1. /\ cmd.pc = "run" /\ CmdShape(cmd) /\ lock' = lock /\ installed' = installed /\ slips' = slips /\ cut' = cut
      /\ cmd.kind \in {"sync", "resolve"}
  BY DEF EndSync, Done, ghosts, Typed, CmdOK
<1>2. cmd'.pc = "lock" /\ cmd'.new = Load /\ cmd'.kind = cmd.kind
  BY <1>1, EndSyncFields DEF Fields
<1>3. lock = Torn => cut
  BY <1>1 DEF SlipInv
<1>4. ~cut => Load = lock
  BY <1>3, LoadOK DEF Typed
<1>5. Coming = lock /\ Coming' = Load /\ Allowance' = 0 /\ Allowance = 0
  BY <1>1, <1>2 DEF Coming, Locking, Allowance
<1>6. ~cut => Off(Coming, installed)' = Off(Coming, installed)
  BY <1>1, <1>4, <1>5 DEF Off, Fits
<1>7. ~cut => Cardinality(Off(Coming, installed)') + 0 <= slips
  BY <1>1, <1>5, <1>6 DEF SlipInv
<1>8. lock' = Torn => cut'
  BY <1>1, <1>3
<1>9. ~cut' => cmd'.new = lock'
  BY <1>1, <1>2, <1>4
<1> QED BY <1>1, <1>2, <1>5, <1>7, <1>8, <1>9 DEF SlipInv

LEMMA CrashSlip ==
  ASSUME Typed, SlipInv, Crash
  PROVE  SlipInv'
<1>1. /\ cmd' = Idle /\ lock' = lock /\ installed' = installed /\ slips' = slips + 1 /\ cut' = (cut \/ lock = Torn)
      /\ slips \in Nat /\ cut \in BOOLEAN
  BY DEF Crash, Typed, ProjectOK
<1>2. CASE cut' = TRUE
  <2>1. cmd'.pc = "idle"
    BY <1>1, IdleFields DEF Started, Fields
  <2> QED BY <2>1, <1>2 DEF SlipInv
<1>3. CASE cut' # TRUE
  <2>1. ~cut /\ lock # Torn /\ cut' = cut
    BY <1>1, <1>3
  <2>2. CASE cmd.pc \in {"idle", "run", "resolve"}
    BY <1>1, <2>1, <2>2, EndSlip
  <2>3. CASE cmd.pc = "extract"
    <3>1. Coming = lock
      BY <2>3 DEF Coming, Locking
    <3>2. Off(lock, installed') \ {cmd.todo[1].name} \subseteq
              Off(Coming, installed) \ (IF cmd.pc = "extract" THEN {cmd.todo[1].name} ELSE {})
      BY <1>1, <2>3, <3>1 DEF Off, Fits
    <3> QED BY <1>1, <2>1, <2>3, <3>2, OneMoreSlip
  <2>4. CASE cmd.pc = "lock"
    <3>1. Coming = cmd.new
      BY <2>4 DEF Coming, Locking
    <3>2. \E x : Off(lock, installed') \ {x} \subseteq Off(Coming, installed)
      <4>1. CASE cmd.new = lock
        <5>1. Off(lock, installed') \ {1} \subseteq Off(Coming, installed)
          BY <1>1, <3>1, <4>1 DEF Off, Fits
        <5> QED BY <5>1
      <4>2. CASE cmd.new # lock
        <5>1. PICK n \in Names : \A m \in Names \ {n} :
                  /\ m \in DOMAIN cmd.new.packages <=> m \in DOMAIN lock.packages
                  /\ m \in DOMAIN lock.packages => cmd.new.packages[m] = lock.packages[m]
          BY <2>1, <2>4, <4>2 DEF SlipInv
        <5>2. Off(lock, installed') \ {n} \subseteq Off(Coming, installed)
          BY <1>1, <3>1, <5>1 DEF Off, Fits
        <5> QED BY <5>2
      <4> QED BY <4>1, <4>2
    <3>3. PICK x : Off(lock, installed') \ {x} \subseteq Off(Coming, installed)
      BY <3>2
    <3>4. Off(lock, installed') \ {x} \subseteq
              Off(Coming, installed) \ (IF cmd.pc = "extract" THEN {cmd.todo[1].name} ELSE {})
      BY <2>4, <3>3
    <3> QED BY <1>1, <2>1, <2>4, <3>4, OneMoreSlip
  <2>5. CASE cmd.pc = "lock_open"
    BY <2>1, <2>5 DEF SlipInv
  <2> QED BY <2>2, <2>3, <2>4, <2>5 DEF Typed, CmdOK
<1> QED BY <1>2, <1>3

LEMMA SlipStep ==
  ASSUME Typed, SlipInv, [Next]_vars
  PROVE  SlipInv'
<1>1. ASSUME NEW n \in Names, NEW s, Add(n, s) \/ InstallOnline(n, s) PROVE SlipInv'
  <2>1. /\ cmd.pc = "idle" /\ lock' = lock /\ installed' = installed /\ slips' = slips /\ cut' = cut
        /\ \E td : Start("install", td)
    BY <1>1 DEF Add, InstallOnline, ghosts, Start
  <2>2. slips' = slips + (IF "install" = "offline" THEN 1 ELSE 0)
    BY <2>1 DEF Typed, ProjectOK
  <2> QED BY <2>1, <2>2, StartFields, StartSlip
<1>2. ASSUME NEW n \in Names, NEW v, InstallOffline(n, v) PROVE SlipInv'
  <2>1. /\ cmd.pc = "idle" /\ lock' = lock /\ installed' = installed /\ slips' = slips + 1 /\ cut' = cut
        /\ \E td : Start("offline", td)
    BY <1>2 DEF InstallOffline, Start
  <2>2. slips' = slips + (IF "offline" = "offline" THEN 1 ELSE 0)
    BY <2>1
  <2> QED BY <2>1, <2>2, StartFields, StartSlip
<1>3. ASSUME NEW all, Update(all) PROVE SlipInv'
  <2>1. /\ cmd.pc = "idle" /\ lock' = lock /\ installed' = installed /\ slips' = slips /\ cut' = cut
        /\ \E td : Start("install", td)
    BY <1>3 DEF Update, ghosts, Start
  <2>2. slips' = slips + (IF "install" = "offline" THEN 1 ELSE 0)
    BY <2>1 DEF Typed, ProjectOK
  <2> QED BY <2>1, <2>2, StartFields, StartSlip
<1>4. ASSUME NEW kind \in {"sync", "resolve"}, Sync(kind) PROVE SlipInv'
  <2>1. /\ cmd.pc = "idle" /\ lock' = lock /\ installed' = installed /\ slips' = slips /\ cut' = cut
        /\ Started(cmd', "run", <<>>, Torn, imports, kind)
    BY <1>4, SyncFields DEF Sync, ghosts
  <2>2. slips' = slips + (IF kind = "offline" THEN 1 ELSE 0)
    BY <2>1 DEF Typed, ProjectOK
  <2> QED BY <2>1, <2>2, StartSlip
<1>5. CASE EndInstall
  <2>1. /\ cmd.pc = "run" /\ cmd' = Idle /\ lock' = lock /\ installed' = installed /\ slips' = slips /\ cut' = cut
    BY <1>5 DEF EndInstall, Done, ghosts
  <2> QED BY <2>1, EndSlip
<1>6. CASE Resolve
  <2>1. /\ cmd.pc = "resolve" /\ cmd' = Idle /\ lock' = lock /\ installed' = installed /\ slips' = slips /\ cut' = cut
    BY <1>6 DEF Resolve, ghosts
  <2> QED BY <2>1, EndSlip
<1>7. CASE (\E n \in Names : \E v \in Releases[n] : Publish(n, v) \/ PublishLocal(n, v)) \/ UNCHANGED vars
  <2>1. cmd' = cmd /\ lock' = lock /\ installed' = installed /\ slips' = slips /\ cut' = cut
    BY <1>7 DEF Publish, PublishLocal, vars, ghosts
  <2> QED BY <2>1 DEF SlipInv, Coming, Locking, Allowance, Off, Fits
<1> QED BY <1>1, <1>2, <1>3, <1>4, <1>5, <1>6, <1>7, UninstallSlip, BeginSlip, ExtractSlip, ExtractFailsSlip,
           TruncateSlip, WriteSlip, FailSlip, NextImportSlip, EndSyncSlip, CrashSlip DEF Next, Step

LEMMA SlipMeans ==
  ASSUME Typed, SlipInv
  PROVE  OneSlipOnePackage
<1>1. SUFFICES ASSUME cmd.pc = "idle", ~cut PROVE Cardinality({n \in Names : ~Agrees(n)}) <= slips
  BY DEF OneSlipOnePackage
<1>2. Coming = lock
  BY <1>1 DEF Coming, Locking
<1>3. Off(Coming, installed) = {n \in Names : ~Agrees(n)}
  BY <1>2 DEF Off, Fits, Agrees, Has
<1>4. Cardinality(Off(Coming, installed)) + Allowance <= slips
  BY <1>1 DEF SlipInv
<1>5. Cardinality(Off(Coming, installed)) \in Nat /\ Allowance \in {0, 1} /\ slips \in Nat
  BY OffIn, OffSize, AllowanceIs DEF Typed, ProjectOK
<1> QED BY <1>3, <1>4, <1>5

-----------------------------------------------------------------------------
(* The theorems.                                                           *)

ProjectInv == Typed /\ Closing /\ SyncInv /\ SlipInv

LEMMA TypedStep ==
  ASSUME Typed, [Next]_vars
  PROVE  Typed'
<1>1. CASE UNCHANGED vars
  BY <1>1, StutterTyped
<1>2. CASE Next
  BY <1>2, AddTyped, InstallOnlineTyped, InstallOfflineTyped, UpdateTyped, SyncTyped, UninstallTyped, BeginTyped,
     ExtractTyped, ExtractFailsTyped, TruncateTyped, WriteTyped, FailTyped, NextImportTyped, EndSyncTyped,
     OthersTyped DEF Next, Step
<1> QED BY <1>1, <1>2

LEMMA ProjectInit ==
  ASSUME Init
  PROVE  ProjectInv
<1>1. Typed
  BY InitTyped
<1>2. /\ cmd.pc = "idle" /\ cmd.kind = "none" /\ cmd.then = "end"
      /\ lock = NoLock /\ installed = [n \in Names |-> None] /\ slips = 0
  BY IdleFields DEF Init, Started, Fields
<1>3. Closing
  BY <1>2 DEF Closing, VisitedInv, TouchedInv, Working, Busy, Locking
<1>4. SyncInv
  BY <1>2 DEF SyncInv, Working, Busy, Locking
<1>5. SlipInv
  <2>1. Coming = lock /\ Allowance = 0
    BY <1>2 DEF Coming, Locking, Allowance
  <2>2. Off(Coming, installed) = {}
    BY <1>2, <2>1 DEF Off, Fits, NoLock
  <2>3. Cardinality(Off(Coming, installed)) = 0
    BY <2>2, FS_EmptySet
  <2>4. lock # Torn
    BY <1>2, NoMaps, TornIsNoLock
  <2> QED BY <1>2, <2>1, <2>3, <2>4 DEF SlipInv
<1> QED BY <1>1, <1>3, <1>4, <1>5 DEF ProjectInv

LEMMA ProjectStep ==
  ASSUME ProjectInv, [Next]_vars
  PROVE  ProjectInv'
BY TypedStep, ClosingStep, SyncStep, SlipStep DEF ProjectInv

LEMMA ProjectInvariant == Spec => []ProjectInv
<1>1. Init => ProjectInv
  BY ProjectInit
<1>2. ProjectInv /\ [Next]_vars => ProjectInv'
  BY ProjectStep
<1> QED BY <1>1, <1>2, PTL DEF Spec

(* Manifest, packages, lockfile, maps and the command under way keep their *)
(* types: package_manager.py never installs what no release offers, never  *)
(* declares a dependency without a spec, and both maps hold imports only.  *)
THEOREM ProjectTypes == Spec => [](StoreOK /\ ProjectOK /\ CmdOK(cmd))
<1>1. ProjectInv => StoreOK /\ ProjectOK /\ CmdOK(cmd)
  BY DEF ProjectInv, Typed
<1> QED BY <1>1, ProjectInvariant, PTL

(* install_remote and install_local_package_into_project leave no package  *)
(* without its dependencies, in any catalogue: what was visited is met or  *)
(* still to come.                                                          *)
THEOREM DependenciesClosed == Spec => []ClosesDependencies
<1>1. ProjectInv => ClosesDependencies
  BY ClosingMeans DEF ProjectInv
<1> QED BY <1>1, ProjectInvariant, PTL

(* A sync that gets through has every declared import installed: one that  *)
(* fails locally is handed to the registry, and one that fails there ends  *)
(* the command.                                                            *)
THEOREM SyncComplete == Spec => []SyncDelivers
<1>1. ProjectInv => SyncDelivers
  BY DEF ProjectInv, SyncInv, SyncDelivers
<1> QED BY <1>1, ProjectInvariant, PTL

(* mellow.lock and the installed packages differ at no more names than     *)
(* there were interruptions, failed extractions, offline installs and      *)
(* starter packages standing in for a declared version.                    *)
THEOREM LockInStep == Spec => []OneSlipOnePackage
<1>1. ProjectInv => OneSlipOnePackage
  BY SlipMeans DEF ProjectInv
<1> QED BY <1>1, ProjectInvariant, PTL

=============================================================================

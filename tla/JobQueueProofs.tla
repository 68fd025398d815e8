--------------------------- MODULE JobQueueProofs ---------------------------
(* Proofs about JobQueue for every number of processes, jobs, workers and  *)
(* attempts and every bound.                                               *)
EXTENDS JobQueue, FiniteSetTheorems, SequenceTheorems, TLAPS

PCs        == {"idle", "retry", "work", "save_dlq", "write_dlq", "save_queue", "write_queue"}
PhaseNames == {"todo", "running", "dl_save", "dl_write", "fin"}
Phases     == UNION {[D -> PhaseNames] : D \in SUBSET Nat}
Letters    == UNION {[D -> Seq(Item)] : D \in SUBSET Nat}

Locals     == [pc : PCs, q : Seq(Item), d : Seq(Item), job : 0 .. MaxJobs, phase : Phases, dl : Letters]

(* What every process keeps: progress is kept of places in its queue only, *)
(* and only while it drains.                                               *)
LocalOk(l) ==
    /\ l \in Locals
    /\ DOMAIN l.phase \subseteq DOMAIN l.q
    /\ DOMAIN l.dl = DOMAIN l.phase
    /\ l.pc # "work" => DOMAIN l.phase = {}

TypeInv ==
    /\ file \in [Files -> Seq(Item) \cup {Torn}]
    /\ DOMAIN loc = Procs /\ \A p \in Procs : LocalOk(loc[p])
    /\ submitted \in 0 .. MaxJobs
    /\ accepted \subseteq 1 .. submitted
    /\ runs \in [Jobs -> Nat] /\ revived \in [Jobs -> Nat]
    /\ overlaps \in 0 .. MaxOverlap
    /\ crashes \in 0 .. MaxFaults /\ tornCrash \in BOOLEAN /\ orphaned \subseteq accepted

-----------------------------------------------------------------------------
(* Lemmas about the operators of the queue.                                *)

LEMMA LoadType == TypeInv => \A f \in Files : Load(f) \in Seq(Item)
  BY DEF TypeInv, Load

LEMMA NewItemType == \A j \in Jobs : NewItem(j) \in Item
  BY DEF NewItem, Item

LEMMA RemoveAtType ==
    ASSUME NEW s \in Seq(Item), NEW k \in DOMAIN s
    PROVE  /\ RemoveAt(s, k) \in Seq(Item)
           /\ \A i \in DOMAIN RemoveAt(s, k) : \E h \in DOMAIN s \ {k} : RemoveAt(s, k)[i] = s[h]
           /\ \A h \in DOMAIN s \ {k} : \E i \in DOMAIN RemoveAt(s, k) : RemoveAt(s, k)[i] = s[h]
  <1>1. DOMAIN s = 1 .. Len(s) /\ Len(s) \in Nat /\ Len(s) - 1 \in Nat
    BY LenProperties
  <1>2. \A i \in 1 .. Len(s) - 1 : (IF i < k THEN s[i] ELSE s[i + 1]) \in Item
    BY <1>1
  <1>3. RemoveAt(s, k) \in [1 .. Len(s) - 1 -> Item]
    BY <1>2 DEF RemoveAt
  <1>4. RemoveAt(s, k) \in Seq(Item) /\ DOMAIN RemoveAt(s, k) = 1 .. Len(s) - 1
    BY <1>1, <1>3, SeqDef
  <1>5. \A i \in 1 .. Len(s) - 1 : \E h \in DOMAIN s \ {k} : RemoveAt(s, k)[i] = s[h]
    <2> TAKE i \in 1 .. Len(s) - 1
    <2>1. CASE i < k
      BY <1>1, <2>1 DEF RemoveAt
    <2>2. CASE ~(i < k)
      <3>1. i + 1 \in DOMAIN s \ {k} /\ RemoveAt(s, k)[i] = s[i + 1]
        BY <1>1, <2>2 DEF RemoveAt
      <3> QED BY <3>1
    <2> QED BY <2>1, <2>2
  <1>6. \A h \in DOMAIN s \ {k} : \E i \in 1 .. Len(s) - 1 : RemoveAt(s, k)[i] = s[h]
    <2> TAKE h \in DOMAIN s \ {k}
    <2>1. CASE h < k
      <3>1. h \in 1 .. Len(s) - 1 /\ RemoveAt(s, k)[h] = s[h]
        BY <1>1, <2>1 DEF RemoveAt
      <3> QED BY <3>1
    <2>2. CASE h > k
      <3>1. h - 1 \in 1 .. Len(s) - 1 /\ RemoveAt(s, k)[h - 1] = s[h]
        BY <1>1, <2>2 DEF RemoveAt
      <3> QED BY <3>1
    <2> QED BY <1>1, <2>1, <2>2
  <1> QED BY <1>4, <1>5, <1>6

(* The n-th element of a finite set of numbers: the ranks are 1 .. its     *)
(* cardinality, each taken once.                                           *)
LEMMA RanksAreUnique ==
    ASSUME NEW S \in SUBSET Nat, IsFiniteSet(S)
    PROVE  /\ Cardinality(S) \in Nat
           /\ \A i \in S : Rank(S, i) \in 1 .. Cardinality(S)
           /\ \A i, j \in S : Rank(S, i) = Rank(S, j) => i = j
           /\ \A n \in 1 .. Cardinality(S) : \E i \in S : Rank(S, i) = n
  <1> DEFINE T(i) == {k \in S : k <= i}
             f == [i \in S |-> Rank(S, i)]
  <1>1. Cardinality(S) \in Nat
    BY FS_CardinalityType
  <1>2. \A i \in S : IsFiniteSet(T(i)) /\ Cardinality(T(i)) \in Nat /\ Cardinality(T(i)) <= Cardinality(S)
    <2> TAKE i \in S
    <2>1. T(i) \subseteq S
      OBVIOUS
    <2> HIDE DEF T
    <2> QED BY <2>1, FS_Subset, FS_CardinalityType
  <1>3. \A i \in S : Cardinality(T(i)) # 0
    <2> TAKE i \in S
    <2>1. i \in T(i)
      OBVIOUS
    <2>2. T(i) # {}
      BY <2>1
    <2>3. IsFiniteSet(T(i))
      BY <1>2
    <2> HIDE DEF T
    <2> QED BY <2>2, <2>3, FS_EmptySet
  <1>4. \A i, j \in S : i < j => Cardinality(T(i)) < Cardinality(T(j))
    <2> SUFFICES ASSUME NEW i \in S, NEW j \in S, i < j PROVE Cardinality(T(i)) < Cardinality(T(j))
      OBVIOUS
    <2>1. T(i) \subseteq T(j) /\ j \in T(j) /\ j \notin T(i)
      <3>1. i \in Nat /\ j \in Nat /\ \A k \in S : k \in Nat
        OBVIOUS
      <3>2. \A k \in S : k <= i => k <= j
        BY <3>1
      <3>3. j <= j /\ ~(j <= i)
        BY <3>1
      <3> QED BY <3>2, <3>3
    <2>2. IsFiniteSet(T(j)) /\ Cardinality(T(i)) \in Nat /\ Cardinality(T(j)) \in Nat
      BY <1>2
    <2>3. T(i) # T(j)
      BY <2>1
    <2> HIDE DEF T
    <2>4. Cardinality(T(i)) <= Cardinality(T(j)) /\ Cardinality(T(i)) # Cardinality(T(j))
      BY <2>1, <2>2, <2>3, FS_Subset
    <2> QED BY <2>2, <2>4
  <1>5. \A i \in S : Rank(S, i) = Cardinality(T(i))
    BY DEF Rank
  <1> HIDE DEF T
  <1>6. \A i \in S : Rank(S, i) \in 1 .. Cardinality(S)
    BY <1>1, <1>2, <1>3, <1>5
  <1>7. \A i, j \in S : Rank(S, i) = Rank(S, j) => i = j
    BY <1>2, <1>4, <1>5
  <1>8. \A n \in 1 .. Cardinality(S) : \E i \in S : Rank(S, i) = n
    <2>1. f \in Injection(S, 1 .. Cardinality(S))
      BY <1>6, <1>7 DEF Injection, IsInjective
    <2>2. IsFiniteSet(1 .. Cardinality(S)) /\ Cardinality(1 .. Cardinality(S)) = Cardinality(S)
      BY <1>1, FS_Interval
    <2>3. f \in Surjection(S, 1 .. Cardinality(S))
      <3> HIDE DEF f
      <3> QED BY <2>1, <2>2, FS_Injection
    <2> QED BY <2>3 DEF Surjection
  <1> QED BY <1>1, <1>6, <1>7, <1>8

(* Live keeps every item that is no dead letter, once.                     *)
LEMMA LiveItems ==
    ASSUME NEW q \in Seq(Item)
    PROVE  /\ Live(q) \in Seq(Item)
           /\ \A n \in DOMAIN Live(q) : \E i \in DOMAIN q : Live(q)[n] = q[i] /\ q[i].st # "dead-letter"
           /\ \A i \in DOMAIN q : q[i].st # "dead-letter" => \E n \in DOMAIN Live(q) : Live(q)[n] = q[i]
           /\ (\A i, k \in DOMAIN q : q[i].id = q[k].id => i = k) =>
                 \A i, k \in DOMAIN Live(q) : Live(q)[i].id = Live(q)[k].id => i = k
  <1> DEFINE kept == {i \in DOMAIN q : q[i].st # "dead-letter"}
             At(n) == CHOOSE i \in kept : Rank(kept, i) = n
             N == Cardinality(kept)
  <1>1. DOMAIN q = 1 .. Len(q) /\ Len(q) \in Nat
    BY LenProperties
  <1>2. kept \in SUBSET Nat /\ kept \subseteq DOMAIN q
    BY <1>1
  <1>3. IsFiniteSet(kept)
    <2>1. IsFiniteSet(1 .. Len(q))
      BY <1>1, FS_Interval
    <2> HIDE DEF kept
    <2> QED BY <1>1, <1>2, <2>1, FS_Subset
  <1>4. Live(q) = [n \in 1 .. N |-> q[At(n)]]
    BY DEF Live
  <1>5. \A i \in DOMAIN q : i \in kept <=> q[i].st # "dead-letter"
    OBVIOUS
  <1> HIDE DEF kept
  <1>6. /\ N \in Nat
        /\ \A i \in kept : Rank(kept, i) \in 1 .. N
        /\ \A i, j \in kept : Rank(kept, i) = Rank(kept, j) => i = j
        /\ \A n \in 1 .. N : \E i \in kept : Rank(kept, i) = n
    BY <1>2, <1>3, RanksAreUnique
  <1>7. \A n \in 1 .. N : At(n) \in kept /\ Rank(kept, At(n)) = n
    BY <1>6
  <1>8. \A i \in kept : At(Rank(kept, i)) = i
    BY <1>6, <1>7
  <1> HIDE DEF At, N
  <1>9. \A n \in 1 .. N : q[At(n)] \in Item
    BY <1>2, <1>7, ElementOfSeq, <1>1
  <1>10. Live(q) \in [1 .. N -> Item]
    BY <1>4, <1>9
  <1>11. Live(q) \in Seq(Item) /\ DOMAIN Live(q) = 1 .. N
    BY <1>6, <1>10, SeqDef
  <1>12. \A n \in 1 .. N : \E i \in DOMAIN q : Live(q)[n] = q[i] /\ q[i].st # "dead-letter"
    BY <1>2, <1>4, <1>5, <1>7
  <1>13. \A i \in DOMAIN q : q[i].st # "dead-letter" => \E n \in 1 .. N : Live(q)[n] = q[i]
    BY <1>4, <1>5, <1>6, <1>8
  <1>14. ASSUME \A i, k \in DOMAIN q : q[i].id = q[k].id => i = k,
                NEW i \in 1 .. N, NEW k \in 1 .. N, Live(q)[i].id = Live(q)[k].id
         PROVE  i = k
    <2>1. At(i) = At(k)
      BY <1>2, <1>4, <1>7, <1>14
    <2> QED BY <1>7, <2>1
  <1> QED BY <1>11, <1>12, <1>13, <1>14

-----------------------------------------------------------------------------
(* The ids of a file under the operations on it.                           *)
Unique(s) == \A i, k \in DOMAIN s : s[i].id = s[k].id => i = k

LEMMA IdsAppend ==
    ASSUME NEW s \in Seq(Item), NEW x \in Item
    PROVE  /\ Ids(Append(s, x)) = Ids(s) \cup {x.id}
           /\ Unique(s) /\ x.id \notin Ids(s) => Unique(Append(s, x))
  <1> DEFINE t == Append(s, x)
  <1>1. /\ DOMAIN s = 1 .. Len(s) /\ Len(s) \in Nat /\ DOMAIN t = 1 .. Len(s) + 1
        /\ \A i \in 1 .. Len(s) : t[i] = s[i]
        /\ t[Len(s) + 1] = x
    BY AppendProperties, LenProperties
  <1> HIDE DEF t
  <1>2. DOMAIN t = DOMAIN s \cup {Len(s) + 1} /\ Len(s) + 1 \notin DOMAIN s
    BY <1>1
  <1>3. Ids(t) = Ids(s) \cup {x.id}
    BY <1>1, <1>2 DEF Ids
  <1>4. Unique(s) /\ x.id \notin Ids(s) => Unique(t)
    BY <1>1, <1>2 DEF Unique, Ids
  <1> QED BY <1>3, <1>4 DEF t

LEMMA IdsRemove ==
    ASSUME NEW s \in Seq(Item), NEW k \in DOMAIN s
    PROVE  /\ Ids(s) = Ids(RemoveAt(s, k)) \cup {s[k].id}
           /\ Unique(s) => Unique(RemoveAt(s, k)) /\ s[k].id \notin Ids(RemoveAt(s, k))
  <1> DEFINE t == RemoveAt(s, k)
             At(i) == IF i < k THEN i ELSE i + 1
  <1>1. DOMAIN s = 1 .. Len(s) /\ Len(s) \in Nat /\ DOMAIN t = 1 .. Len(s) - 1
    BY LenProperties DEF RemoveAt
  <1>2. \A i \in DOMAIN t : t[i] = s[At(i)] /\ At(i) \in DOMAIN s \ {k}
    BY <1>1 DEF RemoveAt
  <1>3. \A i, j \in DOMAIN t : At(i) = At(j) => i = j
    BY <1>1
  <1>4. \A h \in DOMAIN s \ {k} : \E i \in DOMAIN t : t[i] = s[h]
    BY RemoveAtType
  <1> HIDE DEF t, At
  <1>5. Ids(s) = Ids(t) \cup {s[k].id}
    BY <1>2, <1>4 DEF Ids
  <1>6. Unique(s) => Unique(t) /\ s[k].id \notin Ids(t)
    BY <1>2, <1>3 DEF Ids, Unique
  <1> QED BY <1>5, <1>6 DEF t

LEMMA IdsReplace ==
    ASSUME NEW s, NEW i \in DOMAIN s, NEW x, x.id = s[i].id, NEW t,
           DOMAIN t = DOMAIN s, t[i] = x, \A k \in DOMAIN s : k # i => t[k] = s[k]
    PROVE  Ids(t) = Ids(s) /\ (Unique(s) => Unique(t))
  <1>1. \A k \in DOMAIN s : t[k].id = s[k].id
    OBVIOUS
  <1> QED BY <1>1 DEF Ids, Unique

LEMMA IdsLive ==
    ASSUME NEW q \in Seq(Item)
    PROVE  /\ Ids(Live(q)) = {q[i].id : i \in {k \in DOMAIN q : q[k].st # "dead-letter"}}
           /\ Unique(q) => Unique(Live(q))
  <1>1. /\ \A n \in DOMAIN Live(q) : \E i \in DOMAIN q : Live(q)[n] = q[i] /\ q[i].st # "dead-letter"
        /\ \A i \in DOMAIN q : q[i].st # "dead-letter" => \E n \in DOMAIN Live(q) : Live(q)[n] = q[i]
        /\ (\A i, k \in DOMAIN q : q[i].id = q[k].id => i = k) =>
              \A i, k \in DOMAIN Live(q) : Live(q)[i].id = Live(q)[k].id => i = k
    BY LiveItems
  <1> QED BY <1>1 DEF Ids, Unique

-----------------------------------------------------------------------------
(* What an action does to the locals of its process.                       *)
LEMMA DomPhases ==
    ASSUME NEW f \in Phases, NEW i \in DOMAIN f, NEW s \in PhaseNames
    PROVE  [f EXCEPT ![i] = s] \in Phases /\ DOMAIN [f EXCEPT ![i] = s] = DOMAIN f
  BY DEF Phases

LEMMA DomLetters ==
    ASSUME NEW f \in Letters, NEW i \in DOMAIN f, NEW s \in Seq(Item)
    PROVE  [f EXCEPT ![i] = s] \in Letters /\ DOMAIN [f EXCEPT ![i] = s] = DOMAIN f
  BY DEF Letters

LEMMA IdleOk == LocalOk(Idle) /\ Idle.pc = "idle"
  <1>1. <<>> \in [{} -> PhaseNames] /\ <<>> \in [{} -> Seq(Item)]
    OBVIOUS
  <1>2. <<>> \in Phases /\ <<>> \in Letters
    <2>1. {} \in SUBSET Nat
      OBVIOUS
    <2> QED BY <1>1, <2>1 DEF Phases, Letters
  <1>4. <<>> \in Seq(Item) /\ DOMAIN <<>> = {}
    BY <1>1
  <1>3. 0 \in 0 .. MaxJobs
    BY QueueAssumption
  <1> QED BY <1>2, <1>3, <1>4 DEF LocalOk, Locals, Idle, PCs

(* Settled items: what queue.json and dead_letter.json may show.           *)
InQueue(x) == x.st \in {"queued", "done"} \/ (x.st = "retry" /\ x.att < MaxAtt)
InDlq(x)   == x.st = "dead-letter" /\ x.att >= MaxAtt

(* Where a candidate is on its way through a drain.                        *)
Progress(l, i) ==
    /\ l.phase[i] = "todo" => InQueue(l.q[i])
    /\ l.phase[i] \in {"running", "dl_save", "dl_write"} => l.q[i].st = "running"
    /\ l.phase[i] \in {"dl_save", "dl_write"} => \A k \in DOMAIN l.dl[i] : InDlq(l.dl[i][k])
    /\ l.phase[i] = "fin" => InQueue(l.q[i]) \/ l.q[i].st = "dead-letter"

LocalSettled(l) ==
    /\ l.pc \in {"save_dlq", "write_dlq", "save_queue", "write_queue"} =>
          \A i \in DOMAIN l.q : InQueue(l.q[i])
    /\ l.pc \in {"retry", "save_dlq", "write_dlq"} => \A i \in DOMAIN l.d : InDlq(l.d[i])
    /\ l.pc = "work" => /\ \A i \in DOMAIN l.q \ DOMAIN l.phase : InQueue(l.q[i])
                        /\ \A i \in DOMAIN l.phase : Progress(l, i)

SettledInv == OnlySettledItemsAreSaved /\ \A p \in Procs : LocalSettled(loc[p])

Whole == TypeInv /\ SettledInv

(* Only p moves, to locals that are as they should be.                     *)
LEMMA LocStep ==
    ASSUME Whole, NEW p \in Procs, NEW l, LocalOk(l), LocalSettled(l), loc' = [loc EXCEPT ![p] = l]
    PROVE  /\ DOMAIN loc' = Procs
           /\ \A r \in Procs : LocalOk(loc'[r]) /\ LocalSettled(loc'[r])
  <1>1. \A r \in Procs : loc'[r] = IF r = p THEN l ELSE loc[r]
    BY DEF Whole, TypeInv
  <1> QED BY <1>1 DEF Whole, TypeInv, SettledInv

LEMMA SubmitStep ==
    ASSUME Whole, NEW p \in Procs, SubmitLoad(p) PROVE Whole'
  <1>1. submitted' \in 1 .. MaxJobs /\ submitted' = submitted + 1
    BY QueueAssumption DEF SubmitLoad, Whole, TypeInv
  <1> DEFINE l == [Idle EXCEPT !.pc = "save_queue", !.q = Append(Load("queue"), NewItem(submitted')),
                               !.job = submitted']
  <1>2. loc' = [loc EXCEPT ![p] = l]
    BY DEF SubmitLoad
  <1>3. NewItem(submitted') \in Item /\ InQueue(NewItem(submitted'))
    BY <1>1, NewItemType DEF Jobs, NewItem, InQueue
  <1>4. Load("queue") \in Seq(Item) /\ \A i \in DOMAIN Load("queue") : InQueue(Load("queue")[i])
    BY LoadType DEF Files, Whole, SettledInv, OnlySettledItemsAreSaved, InQueue
  <1>5. Append(Load("queue"), NewItem(submitted')) \in Seq(Item)
    BY <1>3, <1>4
  <1>6. \A i \in DOMAIN Append(Load("queue"), NewItem(submitted')) :
            InQueue(Append(Load("queue"), NewItem(submitted'))[i])
    BY <1>3, <1>4, AppendProperties
  <1>a. submitted' \in 0 .. MaxJobs
    BY <1>1, QueueAssumption
  <1>7. LocalOk(l)
    BY <1>a, <1>5, IdleOk DEF LocalOk, Locals, Idle, PCs
  <1>8. LocalSettled(l)
    BY <1>6 DEF LocalSettled, Idle
  <1> HIDE DEF l
  <1>9. DOMAIN loc' = Procs /\ \A r \in Procs : LocalOk(loc'[r]) /\ LocalSettled(loc'[r])
    BY <1>2, <1>7, <1>8, LocStep
  <1>10. SettledInv'
    BY <1>9 DEF SubmitLoad, Whole, SettledInv, OnlySettledItemsAreSaved, Load
  <1>11. TypeInv'
    BY <1>1, <1>9 DEF SubmitLoad, Start, faults, Whole, TypeInv
  <1> QED BY <1>10, <1>11 DEF Whole

LEMMA RetryLoadDlqStep ==
    ASSUME Whole, NEW p \in Procs, RetryLoadDlq(p) PROVE Whole'
  <1>1. PICK j \in accepted :
            loc' = [loc EXCEPT ![p] = [Idle EXCEPT !.pc = "retry", !.d = Load("dlq"), !.job = j]]
    BY DEF RetryLoadDlq
  <1> DEFINE l == [Idle EXCEPT !.pc = "retry", !.d = Load("dlq"), !.job = j]
  <1>2. j \in 0 .. MaxJobs
    BY <1>1, QueueAssumption DEF Whole, TypeInv
  <1>3. Load("dlq") \in Seq(Item) /\ \A i \in DOMAIN Load("dlq") : InDlq(Load("dlq")[i])
    BY LoadType DEF Files, Whole, SettledInv, OnlySettledItemsAreSaved, InDlq
  <1>4. LocalOk(l)
    BY <1>2, <1>3, IdleOk DEF LocalOk, Locals, Idle, PCs
  <1>5. LocalSettled(l)
    BY <1>3 DEF LocalSettled, Idle
  <1>6. loc' = [loc EXCEPT ![p] = l]
    BY <1>1
  <1> HIDE DEF l
  <1>7. DOMAIN loc' = Procs /\ \A r \in Procs : LocalOk(loc'[r]) /\ LocalSettled(loc'[r])
    BY <1>4, <1>5, <1>6, LocStep
  <1>8. SettledInv'
    BY <1>7 DEF RetryLoadDlq, Whole, SettledInv, OnlySettledItemsAreSaved, Load
  <1>9. TypeInv'
    BY <1>7 DEF RetryLoadDlq, Start, faults, Whole, TypeInv
  <1> QED BY <1>8, <1>9 DEF Whole

(* The new locals of a requeue that found its item, at place k.            *)
LEMMA RequeuedLocals ==
    ASSUME Whole, NEW p \in Procs, loc[p].pc = "retry", NEW k \in DOMAIN loc[p].d,
           NEW l, l = [loc[p] EXCEPT !.pc = "save_dlq",
                           !.q = Append(Load("queue"), [loc[p].d[k] EXCEPT !.st = "queued"]),
                           !.d = RemoveAt(loc[p].d, k)]
    PROVE  LocalOk(l) /\ LocalSettled(l)
  <1> DEFINE x == [loc[p].d[k] EXCEPT !.st = "queued"]
  <1>a. LocalOk(loc[p]) /\ LocalSettled(loc[p])
    BY DEF Whole, TypeInv, SettledInv
  <1>b. loc[p].d \in Seq(Item)
    BY <1>a DEF LocalOk, Locals
  <1>1. LocalOk(loc[p]) /\ LocalSettled(loc[p]) /\ loc[p].d \in Seq(Item) /\ loc[p].d[k] \in Item
    BY <1>a, <1>b, ElementOfSeq, LenProperties
  <1>2. x \in Item /\ x.st = "queued" /\ InQueue(x)
    BY <1>1 DEF Item, InQueue
  <1> HIDE DEF x
  <1>3. Load("queue") \in Seq(Item) /\ \A i \in DOMAIN Load("queue") : InQueue(Load("queue")[i])
    BY LoadType DEF Files, Whole, SettledInv, OnlySettledItemsAreSaved, InQueue
  <1>4. Append(Load("queue"), x) \in Seq(Item)
    BY <1>2, <1>3
  <1>5. \A i \in DOMAIN Append(Load("queue"), x) : InQueue(Append(Load("queue"), x)[i])
    BY <1>2, <1>3, AppendProperties
  <1>6. RemoveAt(loc[p].d, k) \in Seq(Item)
        /\ \A i \in DOMAIN RemoveAt(loc[p].d, k) : InDlq(RemoveAt(loc[p].d, k)[i])
    BY <1>1, RemoveAtType DEF LocalSettled
  <1>7. l = [loc[p] EXCEPT !.pc = "save_dlq", !.q = Append(Load("queue"), x), !.d = RemoveAt(loc[p].d, k)]
    BY DEF x
  <1>8. /\ l.pc = "save_dlq" /\ l.q = Append(Load("queue"), x) /\ l.d = RemoveAt(loc[p].d, k)
        /\ l.job = loc[p].job /\ l.phase = loc[p].phase /\ l.dl = loc[p].dl
        /\ l = [pc |-> l.pc, q |-> l.q, d |-> l.d, job |-> l.job, phase |-> l.phase, dl |-> l.dl]
    BY <1>1, <1>7 DEF LocalOk, Locals
  <1>9. LocalOk(l)
    BY <1>1, <1>4, <1>6, <1>8 DEF LocalOk, Locals, PCs
  <1>10. LocalSettled(l)
    BY <1>5, <1>6, <1>8 DEF LocalSettled
  <1> QED BY <1>9, <1>10

LEMMA RetryLoadQueueStep ==
    ASSUME Whole, NEW p \in Procs, RetryLoadQueue(p) PROVE Whole'
  <1>1. PICK l : LocalOk(l) /\ LocalSettled(l) /\ loc' = [loc EXCEPT ![p] = l]
    <2>1. CASE loc' = [loc EXCEPT ![p] = Idle]
      BY <2>1, IdleOk DEF LocalSettled
    <2>2. CASE loc' # [loc EXCEPT ![p] = Idle]
      <3>1. PICK k \in DOMAIN loc[p].d :
                loc' = [loc EXCEPT ![p].pc = "save_dlq",
                                   ![p].q  = Append(Load("queue"), [loc[p].d[k] EXCEPT !.st = "queued"]),
                                   ![p].d  = RemoveAt(loc[p].d, k)]
        BY <2>2 DEF RetryLoadQueue
      <3> DEFINE l == [loc[p] EXCEPT !.pc = "save_dlq",
                           !.q = Append(Load("queue"), [loc[p].d[k] EXCEPT !.st = "queued"]),
                           !.d = RemoveAt(loc[p].d, k)]
      <3>2. loc' = [loc EXCEPT ![p] = l]
        BY <3>1 DEF Whole, TypeInv
      <3>3. LocalOk(l) /\ LocalSettled(l)
        BY RequeuedLocals DEF RetryLoadQueue
      <3> QED BY <3>2, <3>3
    <2> QED BY <2>1, <2>2
  <1>2. DOMAIN loc' = Procs /\ \A r \in Procs : LocalOk(loc'[r]) /\ LocalSettled(loc'[r])
    BY <1>1, LocStep
  <1>3. SettledInv'
    BY <1>2 DEF RetryLoadQueue, Whole, SettledInv, OnlySettledItemsAreSaved, Load
  <1>4. TypeInv'
    BY <1>2 DEF RetryLoadQueue, faults, Whole, TypeInv
  <1> QED BY <1>3, <1>4 DEF Whole

LEMMA DrainLoadStep ==
    ASSUME Whole, NEW p \in Procs, NEW avail, DrainLoad(p, avail) PROVE Whole'
  <1> DEFINE q == Load("queue")
             taken == {i \in Candidates(q, avail) : runs[q[i].id] < MaxRuns}
             l == [Idle EXCEPT !.pc = "work", !.q = q, !.phase = [i \in taken |-> "todo"],
                               !.dl = [i \in taken |-> <<>>]]
  <1>1. loc' = [loc EXCEPT ![p] = l]
    BY DEF DrainLoad
  <1>2. q \in Seq(Item) /\ \A i \in DOMAIN q : InQueue(q[i])
    BY LoadType DEF Files, Whole, SettledInv, OnlySettledItemsAreSaved, InQueue
  <1>3. taken \subseteq DOMAIN q
    BY DEF Candidates, Eligible
  <1> HIDE DEF q, taken
  <1>4. taken \in SUBSET Nat
    BY <1>2, <1>3, LenProperties
  <1>5. [i \in taken |-> "todo"] \in Phases
    <2>1. [i \in taken |-> "todo"] \in [taken -> PhaseNames]
      BY DEF PhaseNames
    <2> QED BY <1>4, <2>1 DEF Phases
  <1>6. [i \in taken |-> <<>>] \in Letters
    <2>1. <<>> \in Seq(Item)
      OBVIOUS
    <2>2. [i \in taken |-> <<>>] \in [taken -> Seq(Item)]
      BY <2>1
    <2> QED BY <1>4, <2>2 DEF Letters
  <1>7. LocalOk(l)
    BY <1>2, <1>3, <1>5, <1>6, IdleOk DEF LocalOk, Locals, Idle, PCs
  <1>8. LocalSettled(l)
    BY <1>2, <1>3 DEF LocalSettled, Progress, Idle
  <1> HIDE DEF l
  <1>9. DOMAIN loc' = Procs /\ \A r \in Procs : LocalOk(loc'[r]) /\ LocalSettled(loc'[r])
    BY <1>1, <1>7, <1>8, LocStep
  <1>10. SettledInv'
    BY <1>9 DEF DrainLoad, Whole, SettledInv, OnlySettledItemsAreSaved, Load
  <1>11. TypeInv'
    <2>1. overlaps' \in 0 .. MaxOverlap /\ UNCHANGED <<file, submitted, accepted, runs, revived, faults>>
      BY DEF DrainLoad, Start, Whole, TypeInv
    <2> QED BY <1>9, <2>1 DEF faults, Whole, TypeInv
  <1> QED BY <1>10, <1>11 DEF Whole

LEMMA CandidateItem ==
    ASSUME Whole, NEW p \in Procs, NEW i \in DOMAIN loc[p].phase
    PROVE  /\ loc[p].q \in Seq(Item) /\ loc[p].q[i] \in Item
           /\ loc[p].dl \in Letters /\ loc[p].dl[i] \in Seq(Item)
           /\ i \in DOMAIN loc[p].q /\ i \in DOMAIN loc[p].dl
           /\ loc[p].pc = "work" /\ Progress(loc[p], i)
           /\ loc[p] \in Locals
  <1>1. LocalOk(loc[p]) /\ LocalSettled(loc[p])
    BY DEF Whole, TypeInv, SettledInv
  <1>2. /\ loc[p].q \in Seq(Item) /\ loc[p].dl \in Letters
        /\ i \in DOMAIN loc[p].q /\ i \in DOMAIN loc[p].dl /\ loc[p].pc = "work"
    BY <1>1 DEF LocalOk, Locals
  <1>3. loc[p].q[i] \in Item
    BY <1>2, ElementOfSeq, LenProperties
  <1>4. loc[p].dl[i] \in Seq(Item)
    BY <1>2 DEF Letters
  <1> QED BY <1>1, <1>2, <1>3, <1>4 DEF LocalSettled, LocalOk, Locals

(* Candidate i moves to phase s with item x and letters w.                 *)
Moved(k, i, s, x, w) ==
    [k EXCEPT !.phase = [k.phase EXCEPT ![i] = s], !.q = [k.q EXCEPT ![i] = x], !.dl = [k.dl EXCEPT ![i] = w]]

(* The updates a worker writes, each as such a move.                       *)
SetItem(l, i, s, x)    == [l EXCEPT !.phase[i] = s, !.q[i] = x]
SetStatus(l, i, s, st) == [l EXCEPT !.phase[i] = s, !.q[i].st = st]
SetLetters(l, i, s, w) == [l EXCEPT !.phase[i] = s, !.dl[i] = w]
SetPhase(l, i, s)      == [l EXCEPT !.phase[i] = s]
SetDead(l, i)          == [l EXCEPT !.phase[i] = "fin", !.dl[i] = <<>>, !.q[i].st = "dead-letter"]

LEMMA SameCandidate ==
    ASSUME NEW l \in Locals, NEW i
    PROVE  l.dl = [l.dl EXCEPT ![i] = l.dl[i]] /\ l.q = [l.q EXCEPT ![i] = l.q[i]]
  BY DEF Locals, Letters

LEMMA ItemUpdate == \A l \in Locals : \A i, s, x : SetItem(l, i, s, x) = Moved(l, i, s, x, l.dl[i])
  <1> SUFFICES ASSUME NEW l \in Locals, NEW i, NEW s, NEW x
               PROVE  SetItem(l, i, s, x) = Moved(l, i, s, x, l.dl[i])
    OBVIOUS
  <1>1. SetItem(l, i, s, x) =
           [l EXCEPT !.phase = [l.phase EXCEPT ![i] = s], !.q = [l.q EXCEPT ![i] = x], !.dl = l.dl]
    BY DEF Locals, SetItem
  <1> QED BY <1>1, SameCandidate DEF Moved

LEMMA StatusUpdate ==
    \A l \in Locals : \A i, s, st :
        SetStatus(l, i, s, st) = Moved(l, i, s, [l.q[i] EXCEPT !.st = st], l.dl[i])
  <1> SUFFICES ASSUME NEW l \in Locals, NEW i, NEW s, NEW st
               PROVE  SetStatus(l, i, s, st) = Moved(l, i, s, [l.q[i] EXCEPT !.st = st], l.dl[i])
    OBVIOUS
  <1>1. SetStatus(l, i, s, st) =
           [l EXCEPT !.phase = [l.phase EXCEPT ![i] = s],
                     !.q = [l.q EXCEPT ![i] = [l.q[i] EXCEPT !.st = st]], !.dl = l.dl]
    BY DEF Locals, SetStatus
  <1> QED BY <1>1, SameCandidate DEF Moved

LEMMA LettersUpdate == \A l \in Locals : \A i, s, w : SetLetters(l, i, s, w) = Moved(l, i, s, l.q[i], w)
  <1> SUFFICES ASSUME NEW l \in Locals, NEW i, NEW s, NEW w
               PROVE  SetLetters(l, i, s, w) = Moved(l, i, s, l.q[i], w)
    OBVIOUS
  <1>1. SetLetters(l, i, s, w) =
           [l EXCEPT !.phase = [l.phase EXCEPT ![i] = s], !.q = l.q, !.dl = [l.dl EXCEPT ![i] = w]]
    BY DEF Locals, SetLetters
  <1> QED BY <1>1, SameCandidate DEF Moved

LEMMA PhaseUpdate == \A l \in Locals : \A i, s : SetPhase(l, i, s) = Moved(l, i, s, l.q[i], l.dl[i])
  <1> SUFFICES ASSUME NEW l \in Locals, NEW i, NEW s
               PROVE  SetPhase(l, i, s) = Moved(l, i, s, l.q[i], l.dl[i])
    OBVIOUS
  <1>1. SetPhase(l, i, s) = [l EXCEPT !.phase = [l.phase EXCEPT ![i] = s], !.q = l.q, !.dl = l.dl]
    BY DEF Locals, SetPhase
  <1> QED BY <1>1, SameCandidate DEF Moved

LEMMA DeadUpdate ==
    \A l \in Locals : \A i :
        SetDead(l, i) = Moved(l, i, "fin", [l.q[i] EXCEPT !.st = "dead-letter"], <<>>)
  <1> SUFFICES ASSUME NEW l \in Locals, NEW i
               PROVE  SetDead(l, i) = Moved(l, i, "fin", [l.q[i] EXCEPT !.st = "dead-letter"], <<>>)
    OBVIOUS
  <1> QED BY DEF Locals, SetDead, Moved

LEMMA WorkerSteps ==
    ASSUME Whole, NEW p \in Procs, NEW i \in DOMAIN loc[p].phase,
           NEW s \in PhaseNames, NEW x \in Item, NEW w \in Seq(Item),
           s # "todo", s \in {"running", "dl_save", "dl_write"} => x.st = "running",
           s \in {"dl_save", "dl_write"} => \A k \in DOMAIN w : InDlq(w[k]),
           s = "fin" => InQueue(x) \/ x.st = "dead-letter",
           loc' = [loc EXCEPT ![p] = Moved(loc[p], i, s, x, w)]
    PROVE  DOMAIN loc' = Procs /\ \A r \in Procs : LocalOk(loc'[r]) /\ LocalSettled(loc'[r])
  <1> DEFINE l == Moved(loc[p], i, s, x, w)
  <1>b. loc' = [loc EXCEPT ![p] = l]
    OBVIOUS
  <1>1. LocalOk(loc[p]) /\ LocalSettled(loc[p])
    BY DEF Whole, TypeInv, SettledInv
  <1>2. /\ loc[p].phase \in Phases /\ loc[p].dl \in Letters /\ loc[p].q \in Seq(Item)
        /\ DOMAIN loc[p].dl = DOMAIN loc[p].phase /\ DOMAIN loc[p].phase \subseteq DOMAIN loc[p].q
        /\ loc[p].pc = "work"
    BY <1>1 DEF LocalOk, Locals
  <1> DEFINE f == [loc[p].phase EXCEPT ![i] = s]
             g == [loc[p].q EXCEPT ![i] = x]
             h == [loc[p].dl EXCEPT ![i] = w]
  <1>3. f \in Phases /\ DOMAIN f = DOMAIN loc[p].phase
    BY <1>2, DomPhases
  <1>4. h \in Letters /\ DOMAIN h = DOMAIN loc[p].dl
    BY <1>2, DomLetters
  <1>5. g \in Seq(Item) /\ DOMAIN g = DOMAIN loc[p].q
    <2>1. DOMAIN loc[p].q = 1 .. Len(loc[p].q)
      BY <1>2, LenProperties
    <2> QED BY <1>2, <2>1, ExceptSeq
  <1>c. l = [loc[p] EXCEPT !.phase = f, !.q = g, !.dl = h]
    BY DEF Moved
  <1>d. /\ g[i] = x /\ f[i] = s /\ h[i] = w
        /\ \A k \in DOMAIN loc[p].q : k # i => g[k] = loc[p].q[k]
        /\ \A k \in DOMAIN loc[p].phase : k # i => f[k] = loc[p].phase[k] /\ h[k] = loc[p].dl[k]
    BY <1>2 DEF Phases, Letters
  <1> HIDE DEF l, f, g, h
  <1>a. /\ l \in Locals
        /\ l.pc = loc[p].pc /\ l.q = g /\ l.phase = f /\ l.dl = h
    BY <1>1, <1>3, <1>4, <1>5, <1>c DEF LocalOk, Locals
  <1>6. LocalOk(l)
    BY <1>a, <1>1, <1>2, <1>3, <1>4, <1>5 DEF LocalOk
  <1>7. l.q[i] = x /\ l.phase[i] = s /\ l.dl[i] = w
    BY <1>a, <1>d
  <1>8. \A k \in DOMAIN loc[p].q : k # i => l.q[k] = loc[p].q[k]
    BY <1>a, <1>d
  <1>9. \A k \in DOMAIN loc[p].phase : k # i => l.phase[k] = loc[p].phase[k] /\ l.dl[k] = loc[p].dl[k]
    BY <1>a, <1>d
  <1>10. ASSUME NEW k \in DOMAIN l.phase PROVE Progress(l, k)
    <2>1. CASE k = i
      BY <1>7, <2>1 DEF Progress
    <2>2. CASE k # i
      BY <1>a, <1>1, <1>2, <1>3, <1>8, <1>9, <1>10, <2>2 DEF Progress, LocalSettled
    <2> QED BY <2>1, <2>2
  <1>11. \A k \in DOMAIN l.q \ DOMAIN l.phase : InQueue(l.q[k])
    BY <1>a, <1>1, <1>2, <1>3, <1>5, <1>8 DEF LocalSettled
  <1>12. LocalSettled(l)
    BY <1>a, <1>2, <1>10, <1>11 DEF LocalSettled
  <1> QED BY <1>6, <1>12, <1>b, LocStep

LEMMA StartedType ==
    ASSUME NEW y \in Item
    PROVE  /\ Started(y) \in Item
           /\ Started(y).st = "running" /\ Started(y).id = y.id /\ Started(y).att = y.att + 1
  <1>1. y.att + 1 \in Nat
    BY DEF Item
  <1>2. Started(y) = [y EXCEPT !.st = "running", !.att = y.att + 1]
    BY DEF Started
  <1> QED BY <1>1, <1>2 DEF Item

(* One candidate i of p moves to phase s with item x, of the same id, and  *)
(* letters w: what holds of the others still holds.                        *)
Follows(k, l, i, s, x, w) ==
    /\ l.pc = "work" /\ Ids(l.q) = Ids(k.q) /\ (Unique(k.q) => Unique(l.q))
    /\ DOMAIN l.phase = DOMAIN k.phase /\ DOMAIN l.q = DOMAIN k.q /\ i \in DOMAIN l.q
    /\ l.phase[i] = s /\ l.q[i] = x /\ l.dl[i] = w /\ l.d = k.d
    /\ \A h \in DOMAIN l.phase : h # i => l.phase[h] = k.phase[h] /\ l.dl[h] = k.dl[h]
    /\ \A h \in DOMAIN l.q : h # i => l.q[h] = k.q[h]
    /\ \A h \in DOMAIN l.phase : l.q[h].id = k.q[h].id

LEMMA CandidateMoves ==
    ASSUME Whole, NEW p \in Procs, NEW i \in DOMAIN loc[p].phase,
           NEW s, NEW x, NEW w, x.id = loc[p].q[i].id,
           NEW l, l = Moved(loc[p], i, s, x, w)
    PROVE  Follows(loc[p], l, i, s, x, w)
  <1>1. /\ loc[p] \in Locals /\ loc[p].pc = "work" /\ loc[p].q \in Seq(Item) /\ loc[p].phase \in Phases
        /\ loc[p].dl \in Letters /\ i \in DOMAIN loc[p].q /\ i \in DOMAIN loc[p].dl
        /\ DOMAIN loc[p].phase \subseteq DOMAIN loc[p].q /\ DOMAIN loc[p].phase = DOMAIN loc[p].dl
    BY CandidateItem DEF Whole, TypeInv, LocalOk, Locals
  <1>2. /\ l.pc = "work" /\ l.phase = [loc[p].phase EXCEPT ![i] = s] /\ l.d = loc[p].d
        /\ l.q = [loc[p].q EXCEPT ![i] = x] /\ l.dl = [loc[p].dl EXCEPT ![i] = w]
    BY <1>1 DEF Locals, Moved
  <1>3. /\ DOMAIN l.phase = DOMAIN loc[p].phase /\ l.phase[i] = s /\ l.dl[i] = w
        /\ \A k \in DOMAIN l.phase : k # i => l.phase[k] = loc[p].phase[k] /\ l.dl[k] = loc[p].dl[k]
    BY <1>1, <1>2 DEF Phases, Letters
  <1>4. /\ DOMAIN l.q = DOMAIN loc[p].q /\ l.q[i] = x
        /\ \A k \in DOMAIN l.q : k # i => l.q[k] = loc[p].q[k]
    BY <1>1, <1>2
  <1>5. Ids(l.q) = Ids(loc[p].q) /\ (Unique(loc[p].q) => Unique(l.q))
    BY <1>1, <1>4, IdsReplace
  <1> QED BY <1>1, <1>2, <1>3, <1>4, <1>5 DEF Follows

(* The steps of a worker as such a move.                                   *)
LEMMA WorkStartMove ==
    ASSUME Whole, NEW p \in Procs, NEW i \in DOMAIN loc[p].phase, WorkStart(p, i)
    PROVE  \E x \in Item : /\ x = Started(loc[p].q[i]) /\ x.id = loc[p].q[i].id /\ x.st = "running"
                           /\ loc' = [loc EXCEPT ![p] = Moved(loc[p], i, "running", x, loc[p].dl[i])]
  <1> DEFINE x == Started(loc[p].q[i])
  <1>1. loc' = [loc EXCEPT ![p] = SetItem(loc[p], i, "running", x)]
    BY Zenon DEF WorkStart, SetItem
  <1>2. /\ x = Started(loc[p].q[i]) /\ x \in Item /\ x.id = loc[p].q[i].id /\ x.st = "running"
        /\ loc[p] \in Locals
    BY CandidateItem, StartedType
  <1> HIDE DEF x
  <1>3. loc' = [loc EXCEPT ![p] = Moved(loc[p], i, "running", x, loc[p].dl[i])]
    <2>1. SetItem(loc[p], i, "running", x) = Moved(loc[p], i, "running", x, loc[p].dl[i])
      BY <1>2, ItemUpdate
    <2> QED BY <1>1, <2>1
  <1> QED BY <1>2, <1>3

LEMMA WorkEndMove ==
    ASSUME Whole, NEW p \in Procs, NEW i \in DOMAIN loc[p].phase, WorkOk(p, i) \/ WorkRetry(p, i)
    PROVE  \E x \in Item : /\ x.id = loc[p].q[i].id /\ x.att = loc[p].q[i].att
                           /\ x.st \in {"done", "retry"} /\ x.st # "dead-letter" /\ InQueue(x)
                           /\ loc' = [loc EXCEPT ![p] = Moved(loc[p], i, "fin", x, loc[p].dl[i])]
  <1>1. PICK st \in {"done", "retry"} :
            /\ loc' = [loc EXCEPT ![p].phase[i] = "fin", ![p].q[i].st = st]
            /\ st = "retry" => loc[p].q[i].att < MaxAtt
    BY Zenon DEF WorkOk, WorkRetry
  <1> DEFINE x == [loc[p].q[i] EXCEPT !.st = st]
  <1>2. loc[p].q[i] \in Item /\ loc[p] \in Locals
    BY CandidateItem
  <1>3. /\ x \in Item /\ x.id = loc[p].q[i].id /\ x.att = loc[p].q[i].att
        /\ x.st \in {"done", "retry"} /\ x.st # "dead-letter" /\ InQueue(x)
    BY <1>1, <1>2 DEF Item, InQueue
  <1>4. loc' = [loc EXCEPT ![p] = SetStatus(loc[p], i, "fin", st)]
    BY Zenon, <1>1 DEF SetStatus
  <1>5. loc' = [loc EXCEPT ![p] = Moved(loc[p], i, "fin", x, loc[p].dl[i])]
    <2>1. SetStatus(loc[p], i, "fin", st) = Moved(loc[p], i, "fin", x, loc[p].dl[i])
      BY <1>2, StatusUpdate
    <2> QED BY <1>4, <2>1
  <1> HIDE DEF x
  <1> QED BY <1>3, <1>5

LEMMA WorkDeadLoadMove ==
    ASSUME Whole, NEW p \in Procs, NEW i \in DOMAIN loc[p].phase, WorkDeadLoad(p, i)
    PROVE  \E w \in Seq(Item), y \in Item :
              /\ w = Append(Load("dlq"), y) /\ y.id = loc[p].q[i].id
              /\ \A k \in DOMAIN w : InDlq(w[k])
              /\ Ids(w) = Ids(Load("dlq")) \cup {loc[p].q[i].id}
              /\ Unique(Load("dlq")) /\ loc[p].q[i].id \notin Ids(Load("dlq")) => Unique(w)
              /\ loc' = [loc EXCEPT ![p] = Moved(loc[p], i, "dl_save", loc[p].q[i], w)]
  <1> DEFINE y == [loc[p].q[i] EXCEPT !.st = "dead-letter"]
             w == Append(Load("dlq"), y)
  <1>1. loc' = [loc EXCEPT ![p] = SetLetters(loc[p], i, "dl_save", w)]
    BY Zenon DEF WorkDeadLoad, SetLetters
  <1>2. /\ loc[p].q[i] \in Item /\ loc[p] \in Locals
        /\ Load("dlq") \in Seq(Item) /\ \A k \in DOMAIN Load("dlq") : InDlq(Load("dlq")[k])
    BY CandidateItem, LoadType DEF Whole, SettledInv, OnlySettledItemsAreSaved, InDlq, Files
  <1>3. y \in Item /\ y.id = loc[p].q[i].id /\ InDlq(y)
    BY <1>2 DEF WorkDeadLoad, Item, InDlq
  <1> HIDE DEF y
  <1>4. /\ Ids(w) = Ids(Load("dlq")) \cup {loc[p].q[i].id}
        /\ Unique(Load("dlq")) /\ loc[p].q[i].id \notin Ids(Load("dlq")) => Unique(w)
    BY <1>2, <1>3, IdsAppend
  <1>5. w \in Seq(Item) /\ \A k \in DOMAIN w : InDlq(w[k])
    BY <1>2, <1>3, AppendProperties
  <1>a. w = Append(Load("dlq"), y)
    OBVIOUS
  <1> HIDE DEF w
  <1>6. loc' = [loc EXCEPT ![p] = Moved(loc[p], i, "dl_save", loc[p].q[i], w)]
    <2>1. SetLetters(loc[p], i, "dl_save", w) = Moved(loc[p], i, "dl_save", loc[p].q[i], w)
      BY <1>2, LettersUpdate
    <2> QED BY <1>1, <2>1
  <1> QED BY <1>3, <1>a, <1>4, <1>5, <1>6

LEMMA WorkDeadTruncateMove ==
    ASSUME Whole, NEW p \in Procs, NEW i \in DOMAIN loc[p].phase, WorkDeadTruncate(p, i)
    PROVE  loc' = [loc EXCEPT ![p] = Moved(loc[p], i, "dl_write", loc[p].q[i], loc[p].dl[i])]
  <1>1. loc' = [loc EXCEPT ![p] = SetPhase(loc[p], i, "dl_write")]
    BY Zenon DEF WorkDeadTruncate, SetPhase
  <1>2. loc[p] \in Locals
    BY CandidateItem
  <1> QED BY <1>1, <1>2, PhaseUpdate

LEMMA WorkDeadWriteMove ==
    ASSUME Whole, NEW p \in Procs, NEW i \in DOMAIN loc[p].phase, WorkDeadWrite(p, i)
    PROVE  \E x \in Item : /\ x.id = loc[p].q[i].id /\ x.st = "dead-letter"
                           /\ loc' = [loc EXCEPT ![p] = Moved(loc[p], i, "fin", x, <<>>)]
  <1> DEFINE x == [loc[p].q[i] EXCEPT !.st = "dead-letter"]
  <1>1. loc' = [loc EXCEPT ![p] = SetDead(loc[p], i)]
    BY Zenon DEF WorkDeadWrite, SetDead
  <1>2. loc[p].q[i] \in Item /\ loc[p] \in Locals
    BY CandidateItem
  <1>3. x \in Item /\ x.id = loc[p].q[i].id /\ x.st = "dead-letter"
    BY <1>2 DEF Item
  <1>4. loc' = [loc EXCEPT ![p] = Moved(loc[p], i, "fin", x, <<>>)]
    BY <1>1, <1>2, DeadUpdate
  <1> HIDE DEF x
  <1> QED BY <1>3, <1>4

LEMMA WorkStartStep ==
    ASSUME Whole, NEW p \in Procs, NEW i \in DOMAIN loc[p].phase, WorkStart(p, i) PROVE Whole'
  <1>1. loc[p].q[i] \in Item /\ loc[p].dl[i] \in Seq(Item)
    BY CandidateItem
  <1>2. DOMAIN loc' = Procs /\ \A r \in Procs : LocalOk(loc'[r]) /\ LocalSettled(loc'[r])
    BY <1>1, WorkStartMove, WorkerSteps DEF PhaseNames
  <1>3. SettledInv'
    BY <1>2 DEF WorkStart, Whole, SettledInv, OnlySettledItemsAreSaved, Load
  <1>4. runs' \in [Jobs -> Nat]
    BY <1>1 DEF WorkStart, Whole, TypeInv, Item
  <1>5. TypeInv'
    BY <1>2, <1>4 DEF WorkStart, faults, Whole, TypeInv
  <1> QED BY <1>3, <1>5 DEF Whole

(* The callback answered, or failed; the dead letter is loaded.            *)
LEMMA WorkQuietStep ==
    ASSUME Whole, NEW p \in Procs, NEW i \in DOMAIN loc[p].phase,
           WorkOk(p, i) \/ WorkRetry(p, i) \/ WorkDeadLoad(p, i)
    PROVE  Whole'
  <1>1. loc[p].q[i] \in Item /\ loc[p].dl[i] \in Seq(Item) /\ Progress(loc[p], i)
    BY CandidateItem
  <1>2. DOMAIN loc' = Procs /\ \A r \in Procs : LocalOk(loc'[r]) /\ LocalSettled(loc'[r])
    <2>1. CASE WorkOk(p, i) \/ WorkRetry(p, i)
      BY <1>1, <2>1, WorkEndMove, WorkerSteps DEF PhaseNames
    <2>2. CASE WorkDeadLoad(p, i)
      <3>1. loc[p].q[i].st = "running"
        BY <1>1, <2>2 DEF WorkDeadLoad, Progress
      <3>2. PICK w \in Seq(Item) :
                /\ \A k \in DOMAIN w : InDlq(w[k])
                /\ loc' = [loc EXCEPT ![p] = Moved(loc[p], i, "dl_save", loc[p].q[i], w)]
        BY <2>2, WorkDeadLoadMove
      <3> QED BY <1>1, <3>1, <3>2, WorkerSteps DEF PhaseNames
    <2> QED BY <2>1, <2>2
  <1>3. UNCHANGED <<file, submitted, accepted, runs, revived, overlaps, faults>>
    BY DEF WorkOk, WorkRetry, WorkDeadLoad
  <1>4. SettledInv'
    BY <1>2, <1>3 DEF Whole, SettledInv, OnlySettledItemsAreSaved, Load
  <1>5. TypeInv'
    BY <1>2, <1>3 DEF faults, Whole, TypeInv
  <1> QED BY <1>4, <1>5 DEF Whole

LEMMA WorkDeadTruncateStep ==
    ASSUME Whole, NEW p \in Procs, NEW i \in DOMAIN loc[p].phase, WorkDeadTruncate(p, i) PROVE Whole'
  <1>1. /\ loc[p].q[i] \in Item /\ loc[p].dl[i] \in Seq(Item)
        /\ loc[p].q[i].st = "running" /\ \A k \in DOMAIN loc[p].dl[i] : InDlq(loc[p].dl[i][k])
    BY CandidateItem DEF WorkDeadTruncate, Progress
  <1>2. DOMAIN loc' = Procs /\ \A r \in Procs : LocalOk(loc'[r]) /\ LocalSettled(loc'[r])
    BY <1>1, WorkDeadTruncateMove, WorkerSteps DEF PhaseNames
  <1>3. /\ UNCHANGED <<submitted, accepted, runs, revived, overlaps, faults>>
        /\ file' = [file EXCEPT !["dlq"] = Torn]
    BY DEF WorkDeadTruncate
  <1>4. Load("queue")' = Load("queue") /\ Load("dlq")' = <<>>
    BY <1>3 DEF Load, Files, Whole, TypeInv
  <1>5. SettledInv'
    BY <1>2, <1>4 DEF Whole, SettledInv, OnlySettledItemsAreSaved
  <1>6. TypeInv'
    BY <1>2, <1>3 DEF faults, Whole, TypeInv
  <1> QED BY <1>5, <1>6 DEF Whole

LEMMA WorkDeadWriteStep ==
    ASSUME Whole, NEW p \in Procs, NEW i \in DOMAIN loc[p].phase, WorkDeadWrite(p, i) PROVE Whole'
  <1>1. loc[p].dl[i] \in Seq(Item) /\ \A k \in DOMAIN loc[p].dl[i] : InDlq(loc[p].dl[i][k])
    BY CandidateItem DEF WorkDeadWrite, Progress
  <1>2. <<>> \in Seq(Item)
    OBVIOUS
  <1>3. DOMAIN loc' = Procs /\ \A r \in Procs : LocalOk(loc'[r]) /\ LocalSettled(loc'[r])
    <2>1. PICK x \in Item : /\ x.st = "dead-letter"
                            /\ loc' = [loc EXCEPT ![p] = Moved(loc[p], i, "fin", x, <<>>)]
      BY WorkDeadWriteMove
    <2>2. \A k \in DOMAIN <<>> : InDlq(<<>>[k])
      OBVIOUS
    <2>3. PICK w : w = <<>>
      OBVIOUS
    <2> QED BY <1>2, <2>1, <2>3, WorkerSteps DEF PhaseNames
  <1>4. /\ UNCHANGED <<submitted, accepted, runs, revived, overlaps, faults>>
        /\ file' = [file EXCEPT !["dlq"] = loc[p].dl[i]]
    BY DEF WorkDeadWrite
  <1>5. Load("queue")' = Load("queue") /\ Load("dlq")' \in {<<>>, loc[p].dl[i]}
    BY <1>4 DEF Load, Files, Whole, TypeInv
  <1>6. \A k \in DOMAIN Load("dlq")' : InDlq(Load("dlq")'[k])
    BY <1>1, <1>5
  <1>7. SettledInv'
    BY <1>3, <1>5, <1>6 DEF Whole, SettledInv, OnlySettledItemsAreSaved, InDlq
  <1>8. TypeInv'
    BY <1>1, <1>3, <1>4 DEF faults, Whole, TypeInv
  <1> QED BY <1>7, <1>8 DEF Whole

LEMMA DrainDoneStep ==
    ASSUME Whole, NEW p \in Procs, DrainDone(p) PROVE Whole'
  <1> DEFINE l == [Idle EXCEPT !.pc = "save_queue", !.q = Live(loc[p].q)]
  <1>1. LocalOk(loc[p]) /\ LocalSettled(loc[p])
    BY DEF Whole, TypeInv, SettledInv
  <1>2. /\ loc[p].q \in Seq(Item) /\ DOMAIN loc[p].phase \subseteq DOMAIN loc[p].q
        /\ loc[p].pc = "work" /\ \A i \in DOMAIN loc[p].phase : loc[p].phase[i] = "fin"
    BY <1>1 DEF LocalOk, Locals, DrainDone
  <1>3. \A i \in DOMAIN loc[p].q : InQueue(loc[p].q[i]) \/ loc[p].q[i].st = "dead-letter"
    BY <1>1, <1>2 DEF LocalSettled, Progress
  <1>4. /\ Live(loc[p].q) \in Seq(Item)
        /\ \A n \in DOMAIN Live(loc[p].q) : InQueue(Live(loc[p].q)[n])
    BY <1>2, <1>3, LiveItems
  <1>5. LocalOk(l)
    BY <1>4, IdleOk DEF LocalOk, Locals, Idle, PCs
  <1>6. LocalSettled(l)
    BY <1>4 DEF LocalSettled, Idle
  <1>7. loc' = [loc EXCEPT ![p] = l]
    BY DEF DrainDone
  <1> HIDE DEF l
  <1>8. DOMAIN loc' = Procs /\ \A r \in Procs : LocalOk(loc'[r]) /\ LocalSettled(loc'[r])
    BY <1>5, <1>6, <1>7, LocStep
  <1>9. SettledInv'
    BY <1>8 DEF DrainDone, Whole, SettledInv, OnlySettledItemsAreSaved, Load
  <1>10. TypeInv'
    BY <1>8 DEF DrainDone, faults, Whole, TypeInv
  <1> QED BY <1>9, <1>10 DEF Whole

LEMMA TruncateStep ==
    ASSUME Whole, NEW p \in Procs, Truncate(p) PROVE Whole'
  <1>1. LocalOk(loc[p]) /\ LocalSettled(loc[p])
    BY DEF Whole, TypeInv, SettledInv
  <1>2. PICK pc \in {"write_dlq", "write_queue"}, f \in Files :
            /\ loc' = [loc EXCEPT ![p].pc = pc]
            /\ file' = [file EXCEPT ![f] = Torn]
            /\ pc = "write_dlq" => loc[p].pc = "save_dlq"
            /\ pc = "write_queue" => loc[p].pc = "save_queue"
    BY Zenon DEF Truncate, Files
  <1> DEFINE l == [loc[p] EXCEPT !.pc = pc]
  <1>3. /\ l \in Locals /\ l.pc = pc /\ l.q = loc[p].q /\ l.d = loc[p].d
        /\ l.phase = loc[p].phase /\ l.dl = loc[p].dl
    BY <1>1 DEF LocalOk, Locals, PCs
  <1>4. loc' = [loc EXCEPT ![p] = l]
    BY <1>2
  <1> HIDE DEF l
  <1>5. LocalOk(l)
    BY <1>1, <1>2, <1>3 DEF LocalOk
  <1>6. LocalSettled(l)
    BY <1>1, <1>2, <1>3 DEF LocalSettled
  <1>7. DOMAIN loc' = Procs /\ \A r \in Procs : LocalOk(loc'[r]) /\ LocalSettled(loc'[r])
    BY <1>4, <1>5, <1>6, LocStep
  <1>8. \A g \in Files : Load(g)' = Load(g) \/ Load(g)' = <<>>
    BY <1>2 DEF Load, Whole, TypeInv
  <1>9. SettledInv'
    <2>1. OnlySettledItemsAreSaved'
      BY <1>8 DEF Files, Whole, SettledInv, OnlySettledItemsAreSaved
    <2> QED BY <1>7, <2>1 DEF SettledInv
  <1>10. TypeInv'
    BY <1>2, <1>7 DEF Truncate, faults, Whole, TypeInv
  <1> QED BY <1>9, <1>10 DEF Whole

LEMMA WriteDlqStep ==
    ASSUME Whole, NEW p \in Procs, WriteDlq(p) PROVE Whole'
  <1>1. LocalOk(loc[p]) /\ LocalSettled(loc[p]) /\ loc[p].pc = "write_dlq"
    BY DEF Whole, TypeInv, SettledInv, WriteDlq
  <1> DEFINE l == [loc[p] EXCEPT !.pc = "save_queue"]
  <1>2. /\ l \in Locals /\ l.pc = "save_queue" /\ l.q = loc[p].q
        /\ l.phase = loc[p].phase /\ l.dl = loc[p].dl
    BY <1>1 DEF LocalOk, Locals, PCs
  <1>3. loc' = [loc EXCEPT ![p] = l]
    BY Zenon DEF WriteDlq
  <1> HIDE DEF l
  <1>4. LocalOk(l)
    BY <1>1, <1>2 DEF LocalOk
  <1>5. LocalSettled(l)
    BY <1>1, <1>2 DEF LocalSettled
  <1>6. DOMAIN loc' = Procs /\ \A r \in Procs : LocalOk(loc'[r]) /\ LocalSettled(loc'[r])
    BY <1>3, <1>4, <1>5, LocStep
  <1>7. loc[p].d \in Seq(Item) /\ \A i \in DOMAIN loc[p].d : InDlq(loc[p].d[i])
    BY <1>1 DEF LocalOk, Locals, LocalSettled
  <1>8. Load("queue")' = Load("queue") /\ Load("dlq")' \in {<<>>, loc[p].d}
    BY DEF WriteDlq, Load, Files, Whole, TypeInv
  <1>9. SettledInv'
    <2>1. \A i \in DOMAIN Load("dlq")' : InDlq(Load("dlq")'[i])
      BY <1>7, <1>8
    <2> QED BY <1>6, <1>8, <2>1 DEF Whole, SettledInv, OnlySettledItemsAreSaved, InDlq
  <1>10. revived' \in [Jobs -> Nat]
    <2>1. revived' = [revived EXCEPT ![loc[p].job] = revived[loc[p].job] + 1] /\ revived \in [Jobs -> Nat]
      BY DEF WriteDlq, Whole, TypeInv
    <2>2. CASE loc[p].job \in Jobs
      <3>1. revived[loc[p].job] + 1 \in Nat
        BY <2>1, <2>2
      <3> QED BY <2>1, <3>1
    <2>3. CASE loc[p].job \notin Jobs
      BY <2>1, <2>3
    <2> QED BY <2>2, <2>3
  <1>11. TypeInv'
    BY <1>6, <1>7, <1>10 DEF WriteDlq, faults, Whole, TypeInv
  <1> QED BY <1>9, <1>11 DEF Whole

(* A process works on a job whose id was handed out.                       *)
JobInv == \A p \in Procs : loc[p].job \in 0 .. submitted

LEMMA WriteQueueStep ==
    ASSUME Whole, JobInv, NEW p \in Procs, WriteQueue(p) PROVE Whole'
  <1>1. LocalOk(loc[p]) /\ LocalSettled(loc[p]) /\ loc[p].pc = "write_queue"
    BY DEF Whole, TypeInv, SettledInv, WriteQueue
  <1>2. loc' = [loc EXCEPT ![p] = Idle]
    BY DEF WriteQueue
  <1>3. LocalSettled(Idle)
    BY DEF LocalSettled, Idle
  <1>4. DOMAIN loc' = Procs /\ \A r \in Procs : LocalOk(loc'[r]) /\ LocalSettled(loc'[r])
    BY <1>2, <1>3, IdleOk, LocStep
  <1>5. loc[p].q \in Seq(Item) /\ \A i \in DOMAIN loc[p].q : InQueue(loc[p].q[i])
    BY <1>1 DEF LocalOk, Locals, LocalSettled
  <1>6. Load("dlq")' = Load("dlq") /\ Load("queue")' \in {<<>>, loc[p].q}
    BY DEF WriteQueue, Load, Files, Whole, TypeInv
  <1>7. SettledInv'
    <2>1. \A i \in DOMAIN Load("queue")' : InQueue(Load("queue")'[i])
      BY <1>5, <1>6
    <2> QED BY <1>4, <1>6, <2>1 DEF Whole, SettledInv, OnlySettledItemsAreSaved, InQueue
  <1>8. accepted' \subseteq 1 .. submitted
    <2>1. loc[p].job \in 0 .. submitted /\ submitted \in Nat
      BY DEF JobInv, Whole, TypeInv
    <2>2. {loc[p].job} \ {0} \subseteq 1 .. submitted
      BY <2>1
    <2>3. accepted' = accepted \cup ({loc[p].job} \ {0}) /\ accepted \subseteq 1 .. submitted
      BY DEF WriteQueue, Whole, TypeInv
    <2> QED BY <2>2, <2>3
  <1>9. TypeInv'
    BY <1>4, <1>5, <1>8 DEF WriteQueue, faults, Whole, TypeInv
  <1> QED BY <1>7, <1>9 DEF Whole

LEMMA CrashStep ==
    ASSUME Whole, NEW p \in Procs, Crash(p) PROVE Whole'
  <1>1. loc' = [loc EXCEPT ![p] = Idle]
    BY DEF Crash
  <1>2. LocalSettled(Idle)
    BY DEF LocalSettled, Idle
  <1>3. DOMAIN loc' = Procs /\ \A r \in Procs : LocalOk(loc'[r]) /\ LocalSettled(loc'[r])
    BY <1>1, <1>2, IdleOk, LocStep
  <1>4. SettledInv'
    BY <1>3 DEF Crash, Whole, SettledInv, OnlySettledItemsAreSaved, Load
  <1>5. crashes' \in 0 .. MaxFaults
    BY QueueAssumption DEF Crash, Whole, TypeInv
  <1>6. orphaned' \subseteq accepted /\ tornCrash' \in BOOLEAN
    BY DEF Crash, Whole, TypeInv
  <1>7. TypeInv'
    BY <1>3, <1>5, <1>6 DEF Crash, Whole, TypeInv
  <1> QED BY <1>4, <1>7 DEF Whole

LEMMA NextStep == Whole /\ JobInv /\ [Next]_vars => Whole'
  <1> SUFFICES ASSUME Whole, JobInv, [Next]_vars PROVE Whole'
    OBVIOUS
  <1>1. ASSUME NEW p \in Procs, SubmitLoad(p) PROVE Whole'
    BY <1>1, SubmitStep
  <1>2. ASSUME NEW p \in Procs, RetryLoadDlq(p) PROVE Whole'
    BY <1>2, RetryLoadDlqStep
  <1>3. ASSUME NEW p \in Procs, NEW avail \in SUBSET Jobs, DrainLoad(p, avail) PROVE Whole'
    BY <1>3, DrainLoadStep
  <1>4. ASSUME NEW p \in Procs, Drain(p) PROVE Whole'
    BY <1>4, DrainDoneStep, WorkStartStep, WorkQuietStep, WorkDeadTruncateStep,
       WorkDeadWriteStep DEF Drain
  <1>5. ASSUME NEW p \in Procs, RetryLoadQueue(p) \/ Truncate(p) \/ WriteDlq(p) \/ WriteQueue(p)
        PROVE  Whole'
    BY <1>5, RetryLoadQueueStep, TruncateStep, WriteDlqStep, WriteQueueStep
  <1>6. ASSUME NEW p \in Procs, Crash(p) PROVE Whole'
    BY <1>6, CrashStep
  <1>7. CASE UNCHANGED vars
    BY <1>7 DEF vars, faults, Whole, TypeInv, SettledInv, OnlySettledItemsAreSaved, Load
  <1> QED BY <1>1, <1>2, <1>3, <1>4, <1>5, <1>6, <1>7 DEF Next, Step

LEMMA JobStep == Whole /\ JobInv /\ [Next]_vars => JobInv'
  <1> SUFFICES ASSUME Whole, JobInv, [Next]_vars, NEW r \in Procs PROVE loc'[r].job \in 0 .. submitted'
    BY DEF JobInv
  <1>1. loc[r].job \in 0 .. submitted /\ 0 \in 0 .. submitted /\ submitted \in Nat /\ accepted \subseteq 1 .. submitted
    BY DEF JobInv, Whole, TypeInv
  <1>2. DOMAIN loc = Procs /\ loc[r] \in Locals
    BY DEF Whole, TypeInv, LocalOk
  <1>3. ASSUME NEW p \in Procs, SubmitLoad(p) PROVE loc'[r].job \in 0 .. submitted'
    BY <1>1, <1>2, <1>3 DEF SubmitLoad, Idle
  <1>4. ASSUME NEW p \in Procs, RetryLoadDlq(p) PROVE loc'[r].job \in 0 .. submitted'
    BY <1>1, <1>2, <1>4 DEF RetryLoadDlq, Idle
  <1>5. ASSUME NEW p \in Procs, NEW avail \in SUBSET Jobs, DrainLoad(p, avail)
        PROVE  loc'[r].job \in 0 .. submitted'
    BY <1>1, <1>2, <1>5 DEF DrainLoad, Idle
  <1>6. ASSUME NEW p \in Procs, Step(p) \/ Crash(p) PROVE loc'[r].job \in 0 .. submitted'
    <2>1. submitted' = submitted
      BY <1>6 DEF Step, Crash, Drain, DrainDone, WorkStart, WorkOk, WorkRetry, WorkDeadLoad, WorkDeadTruncate,
                  WorkDeadWrite, RetryLoadQueue, Truncate, WriteDlq, WriteQueue
    <2>2. loc'[r].job \in {loc[r].job, 0}
      <3>1. ASSUME Drain(p) PROVE loc'[r].job \in {loc[r].job, 0}
        <4>1. CASE DrainDone(p)
          BY <1>2, <4>1 DEF DrainDone, Idle
        <4>2. ASSUME NEW i \in DOMAIN loc[p].phase, WorkStart(p, i)
              PROVE  loc'[r].job \in {loc[r].job, 0}
          BY <1>2, <4>2 DEF WorkStart, Locals
        <4>3. ASSUME NEW i \in DOMAIN loc[p].phase, WorkOk(p, i) \/ WorkRetry(p, i)
              PROVE  loc'[r].job \in {loc[r].job, 0}
          BY <1>2, <4>3 DEF WorkOk, WorkRetry, Locals
        <4>4. ASSUME NEW i \in DOMAIN loc[p].phase, WorkDeadLoad(p, i)
              PROVE  loc'[r].job \in {loc[r].job, 0}
          BY <1>2, <4>4 DEF WorkDeadLoad, Locals
        <4>5. ASSUME NEW i \in DOMAIN loc[p].phase, WorkDeadTruncate(p, i)
              PROVE  loc'[r].job \in {loc[r].job, 0}
          BY <1>2, <4>5 DEF WorkDeadTruncate, Locals
        <4>6. ASSUME NEW i \in DOMAIN loc[p].phase, WorkDeadWrite(p, i)
              PROVE  loc'[r].job \in {loc[r].job, 0}
          BY <1>2, <4>6 DEF WorkDeadWrite, Locals
        <4> QED BY <3>1, <4>1, <4>2, <4>3, <4>4, <4>5, <4>6 DEF Drain
      <3>2. ASSUME RetryLoadQueue(p) PROVE loc'[r].job \in {loc[r].job, 0}
        <4>1. CASE loc' = [loc EXCEPT ![p] = Idle]
          BY <1>2, <4>1 DEF Idle
        <4>2. CASE loc' # [loc EXCEPT ![p] = Idle]
          <5>1. PICK q, d : loc' = [loc EXCEPT ![p].pc = "save_dlq", ![p].q = q, ![p].d = d]
            BY Zenon, <3>2, <4>2 DEF RetryLoadQueue
          <5> QED BY <1>2, <5>1 DEF Locals
        <4> QED BY <4>1, <4>2
      <3>3. ASSUME Truncate(p) \/ WriteDlq(p) \/ WriteQueue(p) \/ Crash(p)
            PROVE  loc'[r].job \in {loc[r].job, 0}
        BY <1>2, <3>3 DEF Truncate, WriteDlq, WriteQueue, Crash, Locals, Idle
      <3> QED BY <1>6, <3>1, <3>2, <3>3 DEF Step
    <2> QED BY <1>1, <2>1, <2>2
  <1>7. CASE UNCHANGED vars
    BY <1>1, <1>7 DEF vars
  <1> QED BY <1>3, <1>4, <1>5, <1>6, <1>7 DEF Next

LEMMA InitWhole == Init => Whole /\ JobInv
  <1> SUFFICES ASSUME Init PROVE Whole /\ JobInv
    OBVIOUS
  <1>1. /\ file = [f \in Files |-> <<>>] /\ loc = [p \in Procs |-> Idle] /\ submitted = 0 /\ accepted = {}
        /\ runs = [j \in Jobs |-> 0] /\ revived = [j \in Jobs |-> 0]
        /\ overlaps = 0 /\ crashes = 0 /\ tornCrash = FALSE /\ orphaned = {}
    BY DEF Init
  <1>2. <<>> \in Seq(Item) /\ DOMAIN <<>> = {}
    OBVIOUS
  <1>3. TypeInv
    <2>1. file \in [Files -> Seq(Item) \cup {Torn}]
      BY <1>1, <1>2
    <2>2. DOMAIN loc = Procs /\ \A p \in Procs : LocalOk(loc[p])
      BY <1>1, IdleOk
    <2>3. 0 \in 0 .. MaxJobs /\ 0 \in 0 .. MaxOverlap /\ 0 \in 0 .. MaxFaults
      BY QueueAssumption
    <2> QED BY <1>1, <2>1, <2>2, <2>3 DEF TypeInv
  <1>4. SettledInv
    BY <1>1, <1>2 DEF SettledInv, OnlySettledItemsAreSaved, LocalSettled, Idle, Load, Files
  <1>5. JobInv
    BY <1>1 DEF JobInv, Idle
  <1> QED BY <1>3, <1>4, <1>5 DEF Whole

LEMMA WholeIsTyped == Whole => TypeOK
  BY DEF Whole, TypeInv, LocalOk, Locals, PCs, TypeOK

(* The types of every variable, whatever the operations do to each other.  *)
THEOREM QueueTypes == Spec => []TypeOK
  <1>1. Whole /\ JobInv /\ [Next]_vars => (Whole /\ JobInv)'
    BY NextStep, JobStep
  <1> QED BY InitWhole, <1>1, WholeIsTyped, PTL DEF Spec

(* However submits, drains, requeues and crashes interleave, the files     *)
(* show no half-processed item (drain.py saves a snapshot only when all    *)
(* its candidates are through).                                            *)
THEOREM SettledItems == Spec => []OnlySettledItemsAreSaved
  <1>1. Whole /\ JobInv /\ [Next]_vars => (Whole /\ JobInv)'
    BY NextStep, JobStep
  <1>2. Whole => OnlySettledItemsAreSaved
    BY DEF Whole, SettledInv
  <1> QED BY InitWhole, <1>1, <1>2, PTL DEF Spec

-----------------------------------------------------------------------------
(* Operations that take turns.  Kept: the accepted jobs the property is    *)
(* about; Dead: the ids on the dead letter, once the save under way ends.  *)
Kept      == accepted \ orphaned
QIds      == Ids(Load("queue"))
DIds      == Ids(Load("dlq"))
Saving(l) == {i \in DOMAIN l.phase : l.phase[i] = "dl_write"}
Dead(l)   == DIds \cup UNION {Ids(l.dl[i]) : i \in Saving(l)}

AtMostOne == \A p, r \in Procs : loc[p].pc # "idle" /\ loc[r].pc # "idle" => p = r

(* A file is torn exactly while its writer is under way.                   *)
Untorn(l) ==
    /\ file["queue"] = Torn <=> l.pc = "write_queue"
    /\ file["dlq"] = Torn <=> l.pc = "write_dlq" \/ Saving(l) # {}

(* Where the kept jobs are, at each step of a submit or a requeue.         *)
Covers(l) ==
    /\ l.pc \in {"idle", "retry", "save_dlq"} => Kept \subseteq QIds \cup DIds
    /\ l.pc = "retry" => l.d = file["dlq"]
    /\ l.pc \in {"save_dlq", "write_dlq"} =>
          /\ l.job \in Ids(l.q)
          /\ Kept \subseteq Ids(l.q) \cup Ids(l.d)
          /\ Kept \ {l.job} \subseteq QIds \cup Ids(l.d)
    /\ l.pc = "save_queue" => Kept \ {l.job} \subseteq QIds \cup DIds
    /\ l.pc \in {"save_queue", "write_queue"} =>
          /\ l.job # 0 => l.job \in Ids(l.q)
          /\ Kept \subseteq Ids(l.q) \cup DIds

(* ... and while a drain with one worker handles its candidates.           *)
CoversWork(l) ==
    l.pc = "work" =>
        /\ Kept \subseteq QIds \cup Dead(l)
        /\ QIds \subseteq Ids(l.q)
        /\ \A i, k \in DOMAIN l.phase :
              l.phase[i] \notin {"todo", "fin"} /\ l.phase[k] \notin {"todo", "fin"} => i = k
        /\ \A i \in DOMAIN l.phase :
              /\ l.phase[i] = "fin" /\ l.q[i].st = "dead-letter" => l.q[i].id \in Dead(l)
              /\ l.phase[i] \in {"dl_save", "dl_write"} => DIds \cup {l.q[i].id} \subseteq Ids(l.dl[i])

Good(l) == Untorn(l) /\ Covers(l) /\ CoversWork(l)

Mine(p) == AllIdle \/ loc[p].pc # "idle"

KeepsInv == overlaps = 0 /\ ~tornCrash => AtMostOne /\ \A p \in Procs : Mine(p) => Good(loc[p])

LEMMA GoodNext == ASSUME NEW r, NEW k, k = loc'[r], Good(k)' PROVE Good(loc[r])'
  BY DEF Good, Untorn, Covers, CoversWork, Saving, Dead

(* An operation that starts or goes on without company leaves the queue    *)
(* good if it leaves its own locals good.                                  *)
LEMMA TakingTurns ==
    ASSUME Whole, Whole', KeepsInv, NEW p \in Procs, NEW l, loc' = [loc EXCEPT ![p] = l],
           overlaps' = 0 => overlaps = 0 /\ Mine(p), tornCrash => tornCrash',
           overlaps = 0 /\ overlaps' = 0 /\ ~tornCrash /\ ~tornCrash' /\ Good(loc[p]) => Good(l)'
    PROVE  KeepsInv'
  <1> SUFFICES ASSUME overlaps' = 0, ~tornCrash' PROVE AtMostOne' /\ \A r \in Procs : Mine(r)' => Good(loc[r])'
    BY DEF KeepsInv
  <1>1. \A r \in Procs : loc'[r] = IF r = p THEN l ELSE loc[r]
    BY DEF Whole, TypeInv
  <1>2. AtMostOne /\ Mine(p) /\ Good(loc[p])
    BY DEF KeepsInv
  <1>3. \A r \in Procs : r # p => loc[r].pc = "idle"
    BY <1>2 DEF AtMostOne, Mine, AllIdle
  <1>4. Good(l)'
    BY <1>2
  <1>5. AtMostOne'
    BY <1>1, <1>3 DEF AtMostOne
  <1>6. ASSUME NEW r \in Procs, Mine(r)' PROVE Good(loc[r])'
    <2>1. CASE r = p
      BY <1>1, <1>4, <2>1, GoodNext
    <2>2. CASE r # p
      <3>1. loc'[r] = loc[r] /\ loc[r].pc = "idle" /\ l.pc = "idle"
        BY <1>1, <1>3, <1>6, <2>2 DEF Mine, AllIdle
      <3>2. LocalOk(l) /\ LocalOk(loc[r])
        <4>1. \A s \in Procs : LocalOk(loc[s])'
          BY DEF Whole, TypeInv
        <4>2. LocalOk(l)
          BY <1>1, <4>1 DEF LocalOk
        <4> QED BY <4>2 DEF Whole, TypeInv
      <3>3. PICK k : k = loc[r]
        OBVIOUS
      <3>4. Saving(l) = {} /\ Saving(k) = {}
        BY <3>1, <3>2, <3>3 DEF LocalOk, Saving
      <3>5. Good(k)'
        BY <1>4, <3>1, <3>3, <3>4 DEF Good, Untorn, Covers, CoversWork, Saving
      <3> QED BY <3>1, <3>3, <3>5, GoodNext
    <2> QED BY <2>1, <2>2
  <1> QED BY <1>5, <1>6

LEMMA StartAlone ==
    ASSUME Whole, NEW p \in Procs, NEW op, Start(p, op)
    PROVE  loc[p].pc = "idle" /\ (overlaps' = 0 => overlaps = 0 /\ Mine(p))
  BY DEF Start, Mine, Whole, TypeInv

(* What an idle process finds when it takes its turn.                      *)
LEMMA AtRest ==
    ASSUME Whole, NEW p \in Procs, loc[p].pc = "idle", Good(loc[p])
    PROVE  /\ Kept \subseteq QIds \cup DIds
           /\ \A f \in Files : file[f] # Torn /\ file[f] \in Seq(Item) /\ Load(f) = file[f]
  <1>1. Saving(loc[p]) = {}
    BY DEF Whole, TypeInv, LocalOk, Saving
  <1>2. \A f \in Files : file[f] # Torn
    BY <1>1 DEF Good, Untorn, Files
  <1> QED BY <1>2 DEF Good, Covers, Whole, TypeInv, Load

LEMMA SubmitKeeps ==
    ASSUME Whole, Whole', KeepsInv, NEW p \in Procs, SubmitLoad(p) PROVE KeepsInv'
  <1>1. PICK n : n = submitted'
    OBVIOUS
  <1>2. n \in Jobs
    BY <1>1, QueueAssumption DEF SubmitLoad, Whole, TypeInv, Jobs
  <1> DEFINE q == Append(Load("queue"), NewItem(n))
  <1>a. PICK l : l = [Idle EXCEPT !.pc = "save_queue", !.q = q, !.job = n]
    OBVIOUS
  <1>3. loc' = [loc EXCEPT ![p] = l]
    BY <1>1, <1>a DEF SubmitLoad
  <1>4. UNCHANGED <<file, accepted, orphaned, tornCrash>>
    BY DEF SubmitLoad, faults
  <1>5. Ids(q) = QIds \cup {n}
    BY <1>2, LoadType, NewItemType, IdsAppend DEF Files, Whole, QIds, NewItem
  <1>6. l.pc = "save_queue" /\ l.q = q /\ l.job = n /\ Saving(l) = {}
    BY <1>a DEF Idle, Saving
  <1> HIDE DEF q
  <1>7. ASSUME Good(loc[p]) PROVE Good(l)'
    <2>1. Kept \subseteq QIds \cup DIds /\ file["queue"] # Torn /\ file["dlq"] # Torn
      BY <1>7, AtRest, StartAlone DEF SubmitLoad, Files
    <2>2. Kept' = Kept /\ QIds' = QIds /\ DIds' = DIds
      BY <1>4 DEF Kept, QIds, DIds, Load
    <2>3. Saving(l)' = Saving(l)
      BY DEF Saving
    <2>4. Untorn(l)'
      BY <1>4, <1>6, <2>1, <2>3 DEF Untorn
    <2>5. Covers(l)'
      BY <1>5, <1>6, <2>1, <2>2 DEF Covers
    <2> QED BY <1>6, <2>4, <2>5 DEF Good, CoversWork
  <1>8. overlaps' = 0 => overlaps = 0 /\ Mine(p)
    BY StartAlone DEF SubmitLoad
  <1> QED BY <1>3, <1>4, <1>7, <1>8, TakingTurns

LEMMA RetryLoadDlqKeeps ==
    ASSUME Whole, Whole', KeepsInv, NEW p \in Procs, RetryLoadDlq(p) PROVE KeepsInv'
  <1>1. PICK j \in accepted :
            loc' = [loc EXCEPT ![p] = [Idle EXCEPT !.pc = "retry", !.d = Load("dlq"), !.job = j]]
    BY DEF RetryLoadDlq
  <1>a. PICK l : l = [Idle EXCEPT !.pc = "retry", !.d = Load("dlq"), !.job = j]
    OBVIOUS
  <1>2. loc' = [loc EXCEPT ![p] = l]
    BY <1>1, <1>a
  <1>3. UNCHANGED <<file, accepted, orphaned, tornCrash>>
    BY DEF RetryLoadDlq, faults
  <1>4. l.pc = "retry" /\ l.d = Load("dlq") /\ Saving(l) = {}
    BY <1>a DEF Idle, Saving
  <1>5. ASSUME Good(loc[p]) PROVE Good(l)'
    <2>1. /\ Kept \subseteq QIds \cup DIds /\ file["queue"] # Torn /\ file["dlq"] # Torn
          /\ Load("dlq") = file["dlq"]
      BY <1>5, AtRest, StartAlone DEF RetryLoadDlq, Files
    <2>2. Kept' = Kept /\ QIds' = QIds /\ DIds' = DIds
      BY <1>3 DEF Kept, QIds, DIds, Load
    <2>3. Saving(l)' = Saving(l)
      BY DEF Saving
    <2>4. Untorn(l)'
      BY <1>3, <1>4, <2>1, <2>3 DEF Untorn
    <2>5. Covers(l)'
      BY <1>3, <1>4, <2>1, <2>2 DEF Covers
    <2> QED BY <1>4, <2>4, <2>5 DEF Good, CoversWork
  <1>6. overlaps' = 0 => overlaps = 0 /\ Mine(p)
    BY StartAlone DEF RetryLoadDlq
  <1> QED BY <1>2, <1>3, <1>5, <1>6, TakingTurns

(* The requeue that found its item at place k.                             *)
LEMMA RequeuedGood ==
    ASSUME Whole, NEW p \in Procs, loc[p].pc = "retry", Good(loc[p]),
           NEW k \in DOMAIN loc[p].d, loc[p].d[k].id = loc[p].job, NEW l,
           l = [loc[p] EXCEPT !.pc = "save_dlq",
                    !.q = Append(Load("queue"), [loc[p].d[k] EXCEPT !.st = "queued"]),
                    !.d = RemoveAt(loc[p].d, k)]
    PROVE  Good(l)
  <1> DEFINE x == [loc[p].d[k] EXCEPT !.st = "queued"]
  <1>1. LocalOk(loc[p]) /\ loc[p].d \in Seq(Item)
    BY DEF Whole, TypeInv, LocalOk, Locals
  <1>2. loc[p].d[k] \in Item
    BY <1>1, ElementOfSeq, LenProperties
  <1>3. x \in Item /\ x.id = loc[p].job
    BY <1>2 DEF Item
  <1>4. l = [loc[p] EXCEPT !.pc = "save_dlq", !.q = Append(Load("queue"), x), !.d = RemoveAt(loc[p].d, k)]
    OBVIOUS
  <1> HIDE DEF x
  <1>5. Load("queue") \in Seq(Item)
    BY LoadType DEF Whole, Files
  <1>6. /\ l.pc = "save_dlq" /\ l.q = Append(Load("queue"), x) /\ l.d = RemoveAt(loc[p].d, k)
        /\ l.job = loc[p].job /\ l.phase = loc[p].phase
    BY <1>1, <1>4 DEF LocalOk, Locals
  <1>7. Saving(l) = {} /\ Saving(loc[p]) = {}
    BY <1>1, <1>6 DEF LocalOk, Saving
  <1>8. file["queue"] # Torn /\ file["dlq"] # Torn /\ loc[p].d = file["dlq"] /\ Kept \subseteq QIds \cup DIds
    BY <1>7 DEF Good, Untorn, Covers
  <1>9. DIds = Ids(loc[p].d)
    BY <1>8 DEF DIds, Load
  <1>10. Ids(l.q) = QIds \cup {loc[p].job}
    BY <1>3, <1>5, <1>6, IdsAppend DEF QIds
  <1>11. DIds = Ids(l.d) \cup {loc[p].job}
    BY <1>1, <1>6, <1>9, IdsRemove
  <1>12. Untorn(l)
    BY <1>7, <1>8 DEF Untorn
  <1>13. Covers(l)
    BY <1>6, <1>8, <1>10, <1>11 DEF Covers
  <1> QED BY <1>6, <1>12, <1>13 DEF Good, CoversWork

(* Nothing that Good speaks of besides the locals changed.                 *)
LEMMA GoodStill ==
    ASSUME UNCHANGED <<file, accepted, orphaned>>, NEW l, Good(l)
    PROVE  Good(l)'
  <1>1. Kept' = Kept /\ QIds' = QIds /\ DIds' = DIds
    BY DEF Kept, QIds, DIds, Load
  <1>2. Saving(l)' = Saving(l) /\ Dead(l)' = Dead(l)
    BY <1>1 DEF Saving, Dead
  <1>3. Untorn(l)'
    BY <1>2 DEF Good, Untorn
  <1>4. Covers(l)'
    BY <1>1 DEF Good, Covers
  <1>5. CoversWork(l)'
    BY <1>1, <1>2 DEF Good, CoversWork
  <1> QED BY <1>3, <1>4, <1>5 DEF Good

LEMMA RetryLoadQueueKeeps ==
    ASSUME Whole, Whole', KeepsInv, NEW p \in Procs, RetryLoadQueue(p) PROVE KeepsInv'
  <1>1. /\ UNCHANGED <<file, accepted, orphaned, overlaps, tornCrash>> /\ loc[p].pc = "retry"
        /\ DOMAIN loc = Procs
    BY DEF RetryLoadQueue, faults, Whole, TypeInv
  <1>2. PICK l : loc' = [loc EXCEPT ![p] = l] /\ (Good(loc[p]) => Good(l))
    <2>1. CASE loc' = [loc EXCEPT ![p] = Idle]
      <3>a. LocalOk(loc[p]) /\ LocalOk(Idle) /\ Idle.pc = "idle"
        BY IdleOk DEF Whole, TypeInv
      <3>1. Saving(loc[p]) = {} /\ Saving(Idle) = {}
        BY <1>1, <3>a DEF LocalOk, Saving
      <3>2. Good(loc[p]) => Good(Idle)
        BY <1>1, <3>1 DEF Good, Untorn, Covers, CoversWork, Idle
      <3> QED BY <2>1, <3>2
    <2>2. CASE loc' # [loc EXCEPT ![p] = Idle]
      <3>1. PICK k \in DOMAIN loc[p].d :
                /\ loc[p].d[k].id = loc[p].job
                /\ loc' = [loc EXCEPT ![p].pc = "save_dlq",
                                      ![p].q  = Append(Load("queue"), [loc[p].d[k] EXCEPT !.st = "queued"]),
                                      ![p].d  = RemoveAt(loc[p].d, k)]
        BY <2>2 DEF RetryLoadQueue
      <3> DEFINE l == [loc[p] EXCEPT !.pc = "save_dlq",
                           !.q = Append(Load("queue"), [loc[p].d[k] EXCEPT !.st = "queued"]),
                           !.d = RemoveAt(loc[p].d, k)]
      <3>2. loc' = [loc EXCEPT ![p] = l]
        BY <1>1, <3>1
      <3>3. Good(loc[p]) => Good(l)
        BY <1>1, <3>1, RequeuedGood
      <3> QED BY <3>2, <3>3
    <2> QED BY <2>1, <2>2
  <1>3. overlaps' = 0 => overlaps = 0 /\ Mine(p)
    BY <1>1 DEF Mine
  <1>4. Good(loc[p]) => Good(l)'
    BY <1>1, <1>2, GoodStill
  <1> QED BY <1>1, <1>2, <1>3, <1>4, TakingTurns

LEMMA DrainLoadKeeps ==
    ASSUME Whole, Whole', KeepsInv, NEW p \in Procs, NEW avail, DrainLoad(p, avail) PROVE KeepsInv'
  <1> DEFINE q == Load("queue")
             taken == {i \in Candidates(q, avail) : runs[q[i].id] < MaxRuns}
  <1>1. PICK l : l = [Idle EXCEPT !.pc = "work", !.q = q, !.phase = [i \in taken |-> "todo"],
                                  !.dl = [i \in taken |-> <<>>]]
    OBVIOUS
  <1>2. loc' = [loc EXCEPT ![p] = l]
    BY <1>1 DEF DrainLoad
  <1>3. UNCHANGED <<file, accepted, orphaned, tornCrash>>
    BY DEF DrainLoad, faults
  <1> HIDE DEF taken
  <1>4. /\ l.pc = "work" /\ l.q = Load("queue") /\ DOMAIN l.phase = taken
        /\ \A i \in DOMAIN l.phase : l.phase[i] = "todo"
    BY <1>1 DEF Idle
  <1>5. Saving(l) = {} /\ Dead(l) = DIds
    BY <1>4 DEF Saving, Dead
  <1>6. ASSUME Good(loc[p]) PROVE Good(l)
    <2>1. Kept \subseteq QIds \cup DIds /\ file["queue"] # Torn /\ file["dlq"] # Torn
      BY <1>6, AtRest, StartAlone DEF DrainLoad, Files
    <2>2. Untorn(l)
      BY <1>4, <1>5, <2>1 DEF Untorn
    <2>3. Covers(l)
      BY <1>4 DEF Covers
    <2>4. CoversWork(l)
      BY <1>4, <1>5, <2>1 DEF CoversWork, QIds
    <2> QED BY <2>2, <2>3, <2>4 DEF Good
  <1>7. overlaps' = 0 => overlaps = 0 /\ Mine(p)
    BY StartAlone DEF DrainLoad
  <1>8. Good(loc[p]) => Good(l)'
    BY <1>3, <1>6, GoodStill
  <1> QED BY <1>2, <1>3, <1>7, <1>8, TakingTurns

LEMMA DrainDoneKeeps ==
    ASSUME Whole, Whole', KeepsInv, NEW p \in Procs, DrainDone(p) PROVE KeepsInv'
  <1>1. PICK l : l = [Idle EXCEPT !.pc = "save_queue", !.q = Live(loc[p].q)]
    OBVIOUS
  <1>2. loc' = [loc EXCEPT ![p] = l]
    BY <1>1 DEF DrainDone
  <1>3. UNCHANGED <<file, accepted, orphaned, overlaps, tornCrash>>
    BY DEF DrainDone, faults
  <1>4. /\ loc[p].pc = "work" /\ loc[p].q \in Seq(Item)
        /\ \A i \in DOMAIN loc[p].phase : loc[p].phase[i] = "fin"
        /\ \A i \in DOMAIN loc[p].q \ DOMAIN loc[p].phase : InQueue(loc[p].q[i])
    BY DEF DrainDone, Whole, TypeInv, SettledInv, LocalOk, Locals, LocalSettled
  <1>5. l.pc = "save_queue" /\ l.q = Live(loc[p].q) /\ l.job = 0 /\ Saving(l) = {}
    BY <1>1 DEF Idle, Saving
  <1>6. Saving(loc[p]) = {} /\ Dead(loc[p]) = DIds
    BY <1>4 DEF Saving, Dead
  <1>7. ASSUME Good(loc[p]) PROVE Good(l)
    <2>1. /\ Kept \subseteq QIds \cup DIds /\ QIds \subseteq Ids(loc[p].q)
          /\ \A i \in DOMAIN loc[p].phase : loc[p].q[i].st = "dead-letter" => loc[p].q[i].id \in DIds
      BY <1>4, <1>6, <1>7 DEF Good, CoversWork
    <2>2. \A i \in DOMAIN loc[p].q : loc[p].q[i].st = "dead-letter" => loc[p].q[i].id \in DIds
      BY <1>4, <2>1 DEF InQueue
    <2>3. Ids(loc[p].q) \subseteq Ids(l.q) \cup DIds
      <3>1. ASSUME NEW i \in DOMAIN loc[p].q PROVE loc[p].q[i].id \in Ids(l.q) \cup DIds
        <4>1. CASE loc[p].q[i].st = "dead-letter"
          BY <2>2, <4>1
        <4>2. CASE loc[p].q[i].st # "dead-letter"
          BY <1>4, <1>5, <4>2, IdsLive
        <4> QED BY <4>1, <4>2
      <3> QED BY <3>1 DEF Ids
    <2>4. Untorn(l)
      BY <1>4, <1>5, <1>6, <1>7 DEF Good, Untorn
    <2>5. Covers(l)
      BY <1>5, <2>1, <2>3 DEF Covers
    <2> QED BY <1>5, <2>4, <2>5 DEF Good, CoversWork
  <1>8. overlaps' = 0 => overlaps = 0 /\ Mine(p)
    BY <1>3, <1>4 DEF Mine
  <1>9. Good(loc[p]) => Good(l)'
    BY <1>3, <1>7, GoodStill
  <1> QED BY <1>2, <1>3, <1>8, <1>9, TakingTurns

(* The saves of a submit, a requeue and a drain.                           *)
LEMMA TruncateKeeps ==
    ASSUME Whole, Whole', KeepsInv, NEW p \in Procs, Truncate(p) PROVE KeepsInv'
  <1>1. PICK pc \in {"write_dlq", "write_queue"}, f \in Files :
            /\ loc' = [loc EXCEPT ![p].pc = pc]
            /\ file' = [file EXCEPT ![f] = Torn]
            /\ pc = "write_dlq" => loc[p].pc = "save_dlq" /\ f = "dlq"
            /\ pc = "write_queue" => loc[p].pc = "save_queue" /\ f = "queue"
    BY Zenon DEF Truncate, Files
  <1>2. PICK l : l = [loc[p] EXCEPT !.pc = pc]
    OBVIOUS
  <1>3. loc' = [loc EXCEPT ![p] = l] /\ UNCHANGED <<accepted, orphaned, overlaps, tornCrash>>
    BY <1>1, <1>2 DEF Truncate, faults
  <1>4. /\ l.pc = pc /\ l.q = loc[p].q /\ l.d = loc[p].d /\ l.job = loc[p].job
        /\ Saving(l) = {} /\ Saving(loc[p]) = {}
    <2>1. LocalOk(loc[p]) /\ loc[p].pc # "work"
      BY <1>1 DEF Whole, TypeInv
    <2> QED BY <1>2, <2>1 DEF LocalOk, Locals, Saving
  <1>5. file'[f] = Torn /\ \A g \in Files : g # f => file'[g] = file[g]
    BY <1>1 DEF Whole, TypeInv
  <1>6. ASSUME Good(loc[p]) PROVE Good(l)'
    <2>1. file["queue"] # Torn /\ file["dlq"] # Torn
      BY <1>1, <1>4, <1>6 DEF Good, Untorn
    <2>2. Kept' = Kept /\ (f = "dlq" => QIds' = QIds) /\ (f = "queue" => DIds' = DIds)
      BY <1>3, <1>5 DEF Kept, QIds, DIds, Load, Files
    <2>3. Saving(l)' = {}
      BY <1>4 DEF Saving
    <2>4. Untorn(l)'
      BY <1>1, <1>4, <1>5, <2>1, <2>3 DEF Untorn, Files
    <2>5. Covers(l)'
      BY <1>1, <1>4, <1>6, <2>2 DEF Good, Covers
    <2> QED BY <1>1, <1>4, <2>4, <2>5 DEF Good, CoversWork
  <1>7. overlaps' = 0 => overlaps = 0 /\ Mine(p)
    BY <1>1, <1>3 DEF Mine
  <1> QED BY <1>3, <1>6, <1>7, TakingTurns

LEMMA WriteDlqKeeps ==
    ASSUME Whole, Whole', KeepsInv, NEW p \in Procs, WriteDlq(p) PROVE KeepsInv'
  <1>1. PICK l : l = [loc[p] EXCEPT !.pc = "save_queue"]
    OBVIOUS
  <1>2. loc' = [loc EXCEPT ![p] = l] /\ UNCHANGED <<accepted, orphaned, overlaps, tornCrash>>
    BY Zenon, <1>1 DEF WriteDlq, faults
  <1>3. /\ l.pc = "save_queue" /\ l.q = loc[p].q /\ l.d = loc[p].d /\ l.job = loc[p].job
        /\ Saving(l) = {} /\ Saving(loc[p]) = {} /\ loc[p].pc = "write_dlq" /\ loc[p].d \in Seq(Item)
    BY <1>1 DEF WriteDlq, Whole, TypeInv, LocalOk, Locals, Saving
  <1>4. file'["dlq"] = loc[p].d /\ file'["queue"] = file["queue"]
    BY DEF WriteDlq, Whole, TypeInv, Files
  <1>5. ASSUME Good(loc[p]) PROVE Good(l)'
    <2>1. file'["queue"] # Torn /\ file'["dlq"] # Torn
      BY <1>3, <1>4, <1>5, QueueAssumption DEF Good, Untorn
    <2>2. Kept' = Kept /\ QIds' = QIds /\ DIds' = Ids(loc[p].d)
      BY <1>2, <1>4, <2>1 DEF Kept, QIds, DIds, Load
    <2>3. Saving(l)' = {}
      BY <1>3 DEF Saving
    <2>4. Untorn(l)'
      BY <1>3, <2>1, <2>3 DEF Untorn
    <2>5. Covers(l)'
      BY <1>3, <1>5, <2>2 DEF Good, Covers
    <2> QED BY <1>3, <2>4, <2>5 DEF Good, CoversWork
  <1>6. overlaps' = 0 => overlaps = 0 /\ Mine(p)
    BY <1>2, <1>3 DEF Mine
  <1> QED BY <1>2, <1>5, <1>6, TakingTurns

LEMMA WriteQueueKeeps ==
    ASSUME Whole, Whole', KeepsInv, NEW p \in Procs, WriteQueue(p) PROVE KeepsInv'
  <1>1. PICK l : l = Idle
    OBVIOUS
  <1>2. /\ loc' = [loc EXCEPT ![p] = l] /\ UNCHANGED <<orphaned, overlaps, tornCrash>>
        /\ accepted' = accepted \cup ({loc[p].job} \ {0})
    BY <1>1 DEF WriteQueue, faults
  <1>3. /\ l.pc = "idle" /\ Saving(l) = {} /\ Saving(loc[p]) = {}
        /\ loc[p].pc = "write_queue" /\ loc[p].q \in Seq(Item)
    BY <1>1 DEF WriteQueue, Whole, TypeInv, LocalOk, Locals, Saving, Idle
  <1>4. file'["queue"] = loc[p].q /\ file'["dlq"] = file["dlq"]
    BY DEF WriteQueue, Whole, TypeInv, Files
  <1>5. ASSUME Good(loc[p]) PROVE Good(l)'
    <2>1. file'["queue"] # Torn /\ file'["dlq"] # Torn
      BY <1>3, <1>4, <1>5, QueueAssumption DEF Good, Untorn
    <2>2. /\ Kept' \subseteq Kept \cup ({loc[p].job} \ {0})
          /\ QIds' = Ids(loc[p].q) /\ DIds' = DIds
      BY <1>2, <1>4, <2>1 DEF Kept, QIds, DIds, Load
    <2>3. Saving(l)' = {}
      BY <1>3 DEF Saving
    <2>4. Untorn(l)'
      BY <1>3, <2>1, <2>3 DEF Untorn
    <2>5. Kept' \subseteq QIds' \cup DIds'
      BY <1>3, <1>5, <2>2 DEF Good, Covers
    <2>6. Covers(l)'
      BY <1>3, <2>5 DEF Covers
    <2> QED BY <1>3, <2>4, <2>6 DEF Good, CoversWork
  <1>6. overlaps' = 0 => overlaps = 0 /\ Mine(p)
    BY <1>2, <1>3 DEF Mine
  <1> QED BY <1>2, <1>5, <1>6, TakingTurns

LEMMA CrashKeeps ==
    ASSUME Whole, Whole', KeepsInv, NEW p \in Procs, Crash(p) PROVE KeepsInv'
  <1>1. PICK l : l = Idle
    OBVIOUS
  <1>2. /\ loc' = [loc EXCEPT ![p] = l] /\ UNCHANGED <<file, accepted, overlaps>>
        /\ tornCrash' = (tornCrash \/ Torn \in {file[f] : f \in Files}) /\ loc[p].pc # "idle"
        /\ orphaned \subseteq orphaned'
        /\ loc[p].pc \in {"save_queue", "write_queue"} => {loc[p].job} \cap accepted \subseteq orphaned'
    BY <1>1 DEF Crash
  <1>3. l.pc = "idle" /\ Saving(l) = {}
    BY <1>1 DEF Saving, Idle
  <1>4. tornCrash => tornCrash'
    BY <1>2
  <1>5. ASSUME Good(loc[p]), ~tornCrash' PROVE Good(l)'
    <2>1. file["queue"] # Torn /\ file["dlq"] # Torn
      BY <1>2, <1>5 DEF Files
    <2>2. /\ Kept' \subseteq Kept /\ QIds' = QIds /\ DIds' = DIds
          /\ loc[p].pc \in {"save_queue", "write_queue"} => Kept' \subseteq Kept \ {loc[p].job}
      BY <1>2 DEF Kept, QIds, DIds, Load
    <2>3. Saving(l)' = {}
      BY <1>3 DEF Saving
    <2>4. Untorn(l)'
      BY <1>3, <1>2, <2>1, <2>3 DEF Untorn
    <2>5. Kept' \subseteq QIds \cup DIds
      <3>1. CASE loc[p].pc \in {"retry", "save_dlq"}
        BY <1>5, <2>2, <3>1 DEF Good, Covers
      <3>2. CASE loc[p].pc = "work"
        <4>1. Saving(loc[p]) = {}
          BY <1>5, <2>1 DEF Good, Untorn
        <4>2. Dead(loc[p]) = DIds
          BY <4>1 DEF Dead
        <4> QED BY <1>5, <2>2, <3>2, <4>2 DEF Good, CoversWork
      <3>3. CASE loc[p].pc = "save_queue"
        BY <1>5, <2>2, <3>3 DEF Good, Covers
      <3>4. CASE loc[p].pc \in {"write_dlq", "write_queue"}
        BY <1>5, <2>1, <3>4 DEF Good, Untorn
      <3> QED BY <1>2, <3>1, <3>2, <3>3, <3>4 DEF Whole, TypeInv, LocalOk, Locals, PCs
    <2>6. Covers(l)'
      BY <1>3, <2>2, <2>5 DEF Covers
    <2> QED BY <1>3, <2>4, <2>6 DEF Good, CoversWork
  <1>6. overlaps' = 0 => overlaps = 0 /\ Mine(p)
    BY <1>2 DEF Mine
  <1> QED BY <1>2, <1>4, <1>5, <1>6, TakingTurns

(* A step that neither begins nor ends a save of the dead letter.          *)
LEMMA DeadSame ==
    ASSUME NEW k, NEW l, NEW i \in DOMAIN k.phase, DOMAIN l.phase = DOMAIN k.phase,
           l.phase[i] # "dl_write", k.phase[i] # "dl_write",
           \A h \in DOMAIN l.phase : h # i => l.phase[h] = k.phase[h] /\ l.dl[h] = k.dl[h]
    PROVE  Saving(l) = Saving(k) /\ Dead(l) = Dead(k)
  <1>1. Saving(l) = Saving(k)
    BY DEF Saving
  <1>2. \A h \in Saving(k) : l.dl[h] = k.dl[h]
    BY DEF Saving
  <1>3. {Ids(l.dl[h]) : h \in Saving(l)} = {Ids(k.dl[h]) : h \in Saving(k)}
    BY <1>1, <1>2
  <1> QED BY <1>1, <1>3 DEF Dead

LEMMA NobodyBusy ==
    ASSUME Whole, Workers = 1, NEW p \in Procs, NEW i \in DOMAIN loc[p].phase, WorkStart(p, i)
    PROVE  \A k \in DOMAIN loc[p].phase : loc[p].phase[k] \in {"todo", "fin"}
  <1>1. loc[p].q \in Seq(Item) /\ DOMAIN loc[p].phase \subseteq DOMAIN loc[p].q
    BY CandidateItem DEF Whole, TypeInv, LocalOk
  <1>2. IsFiniteSet(DOMAIN loc[p].q)
    BY <1>1, LenProperties, FS_Interval
  <1>3. Busy(p) \subseteq DOMAIN loc[p].q
    BY <1>1 DEF Busy
  <1>4. IsFiniteSet(Busy(p)) /\ Cardinality(Busy(p)) \in Nat
    BY <1>2, <1>3, FS_Subset, FS_CardinalityType
  <1>5. Cardinality(Busy(p)) = 0
    BY <1>4 DEF WorkStart
  <1>6. Busy(p) = {}
    BY <1>4, <1>5, FS_EmptySet
  <1> QED BY <1>6 DEF Busy

(* The steps of the one worker that leave the files alone.                 *)
LEMMA QuietMoveKeeps ==
    ASSUME Whole, NEW p \in Procs, Good(loc[p]), NEW i \in DOMAIN loc[p].phase,
           NEW s \in {"running", "dl_save", "fin"}, NEW x, NEW w, x.id = loc[p].q[i].id,
           loc[p].phase[i] # "dl_write",
           s # "fin" => \A k \in DOMAIN loc[p].phase : k # i => loc[p].phase[k] \in {"todo", "fin"},
           s = "fin" => x.st # "dead-letter",
           s = "dl_save" => DIds \cup {x.id} \subseteq Ids(w),
           NEW l, l = Moved(loc[p], i, s, x, w)
    PROVE  Good(l)
  <1>1. /\ l.pc = "work" /\ Ids(l.q) = Ids(loc[p].q)
        /\ DOMAIN l.phase = DOMAIN loc[p].phase /\ DOMAIN l.q = DOMAIN loc[p].q /\ i \in DOMAIN l.q
        /\ l.phase[i] = s /\ l.q[i] = x /\ l.dl[i] = w
        /\ \A k \in DOMAIN l.phase : k # i => l.phase[k] = loc[p].phase[k] /\ l.dl[k] = loc[p].dl[k]
        /\ \A k \in DOMAIN l.q : k # i => l.q[k] = loc[p].q[k]
        /\ \A k \in DOMAIN l.phase : l.q[k].id = loc[p].q[k].id
    <2>1. Follows(loc[p], l, i, s, x, w)
      BY CandidateMoves
    <2> QED BY <2>1 DEF Follows
  <1>2. loc[p].pc = "work" /\ DOMAIN loc[p].phase \subseteq DOMAIN loc[p].q
    BY CandidateItem DEF Whole, TypeInv, LocalOk
  <1>3. Saving(l) = Saving(loc[p]) /\ Dead(l) = Dead(loc[p])
    BY <1>1, DeadSame
  <1>4. Untorn(l)
    BY <1>1, <1>2, <1>3 DEF Good, Untorn
  <1>5. Covers(l)
    BY <1>1 DEF Covers
  <1>6. Kept \subseteq QIds \cup Dead(l) /\ QIds \subseteq Ids(l.q)
    BY <1>1, <1>2, <1>3 DEF Good, CoversWork
  <1>7. ASSUME NEW j \in DOMAIN l.phase, NEW k \in DOMAIN l.phase,
               l.phase[j] \notin {"todo", "fin"}, l.phase[k] \notin {"todo", "fin"}
        PROVE  j = k
    <2>1. CASE s = "fin"
      BY <1>1, <1>2, <1>7, <2>1 DEF Good, CoversWork
    <2>2. CASE s # "fin"
      BY <1>1, <1>7, <2>2
    <2> QED BY <2>1, <2>2
  <1>8. ASSUME NEW k \in DOMAIN l.phase
        PROVE  /\ l.phase[k] = "fin" /\ l.q[k].st = "dead-letter" => l.q[k].id \in Dead(l)
               /\ l.phase[k] \in {"dl_save", "dl_write"} => DIds \cup {l.q[k].id} \subseteq Ids(l.dl[k])
    <2>1. CASE k = i
      BY <1>1, <2>1
    <2>2. CASE k # i
      BY <1>1, <1>2, <1>3, <2>2 DEF Good, CoversWork
    <2> QED BY <2>1, <2>2
  <1>9. CoversWork(l)
    BY <1>6, <1>7, <1>8 DEF CoversWork
  <1> QED BY <1>4, <1>5, <1>9 DEF Good

LEMMA WorkStartKeeps ==
    ASSUME Whole, Whole', KeepsInv, Workers = 1, NEW p \in Procs, NEW i \in DOMAIN loc[p].phase, WorkStart(p, i)
    PROVE  KeepsInv'
  <1>a. PICK x : /\ x.id = loc[p].q[i].id
                 /\ loc' = [loc EXCEPT ![p] = Moved(loc[p], i, "running", x, loc[p].dl[i])]
    BY WorkStartMove
  <1>1. PICK l : l = Moved(loc[p], i, "running", x, loc[p].dl[i])
    OBVIOUS
  <1>2. loc' = [loc EXCEPT ![p] = l] /\ x.id = loc[p].q[i].id
    BY <1>a, <1>1
  <1>3. UNCHANGED <<file, accepted, orphaned, overlaps, tornCrash>> /\ loc[p].phase[i] = "todo"
    BY DEF WorkStart, faults
  <1>4. Good(loc[p]) => Good(l)
    BY <1>1, <1>2, <1>3, NobodyBusy, QuietMoveKeeps
  <1>5. Good(loc[p]) => Good(l)'
    BY <1>3, <1>4, GoodStill
  <1>6. overlaps' = 0 => overlaps = 0 /\ Mine(p)
    BY <1>3 DEF Mine, WorkStart
  <1> QED BY <1>2, <1>3, <1>5, <1>6, TakingTurns

LEMMA WorkEndKeeps ==
    ASSUME Whole, Whole', KeepsInv, NEW p \in Procs, NEW i \in DOMAIN loc[p].phase,
           WorkOk(p, i) \/ WorkRetry(p, i)
    PROVE  KeepsInv'
  <1>1. PICK x : /\ x.id = loc[p].q[i].id /\ x.st # "dead-letter"
                 /\ loc' = [loc EXCEPT ![p] = Moved(loc[p], i, "fin", x, loc[p].dl[i])]
    BY WorkEndMove
  <1>2. PICK l : l = Moved(loc[p], i, "fin", x, loc[p].dl[i])
    OBVIOUS
  <1>3. UNCHANGED <<file, accepted, orphaned, overlaps, tornCrash>> /\ loc[p].phase[i] = "running"
    BY DEF WorkOk, WorkRetry, faults
  <1>4. Good(loc[p]) => Good(l)
    BY <1>1, <1>2, <1>3, QuietMoveKeeps
  <1>5. Good(loc[p]) => Good(l)'
    BY <1>3, <1>4, GoodStill
  <1>6. overlaps' = 0 => overlaps = 0 /\ Mine(p)
    BY <1>3, CandidateItem DEF Mine
  <1> QED BY <1>1, <1>2, <1>3, <1>5, <1>6, TakingTurns

LEMMA WorkDeadLoadKeeps ==
    ASSUME Whole, Whole', KeepsInv, NEW p \in Procs, NEW i \in DOMAIN loc[p].phase, WorkDeadLoad(p, i)
    PROVE  KeepsInv'
  <1>1. PICK w : /\ Ids(w) = DIds \cup {loc[p].q[i].id}
                 /\ loc' = [loc EXCEPT ![p] = Moved(loc[p], i, "dl_save", loc[p].q[i], w)]
    BY WorkDeadLoadMove DEF DIds
  <1>2. PICK l : l = Moved(loc[p], i, "dl_save", loc[p].q[i], w)
    OBVIOUS
  <1>3. UNCHANGED <<file, accepted, orphaned, overlaps, tornCrash>> /\ loc[p].phase[i] = "running"
    BY DEF WorkDeadLoad, faults
  <1>4. loc[p].pc = "work"
    BY CandidateItem
  <1>5. Good(loc[p]) => \A k \in DOMAIN loc[p].phase : k # i => loc[p].phase[k] \in {"todo", "fin"}
    BY <1>3, <1>4 DEF Good, CoversWork
  <1>6. Good(loc[p]) => Good(l)
    BY <1>1, <1>2, <1>3, <1>5, QuietMoveKeeps
  <1>7. Good(loc[p]) => Good(l)'
    BY <1>3, <1>6, GoodStill
  <1>8. overlaps' = 0 => overlaps = 0 /\ Mine(p)
    BY <1>3, <1>4 DEF Mine
  <1> QED BY <1>1, <1>2, <1>3, <1>7, <1>8, TakingTurns

LEMMA WorkDeadTruncateKeeps ==
    ASSUME Whole, Whole', KeepsInv, NEW p \in Procs, NEW i \in DOMAIN loc[p].phase, WorkDeadTruncate(p, i)
    PROVE  KeepsInv'
  <1>1. PICK l : l = Moved(loc[p], i, "dl_write", loc[p].q[i], loc[p].dl[i])
    OBVIOUS
  <1>2. loc' = [loc EXCEPT ![p] = l]
    BY <1>1, WorkDeadTruncateMove
  <1>3. /\ l.pc = "work" /\ Ids(l.q) = Ids(loc[p].q)
        /\ DOMAIN l.phase = DOMAIN loc[p].phase /\ DOMAIN l.q = DOMAIN loc[p].q /\ i \in DOMAIN l.q
        /\ l.phase[i] = "dl_write" /\ l.q[i] = loc[p].q[i] /\ l.dl[i] = loc[p].dl[i]
        /\ \A k \in DOMAIN l.phase : k # i => l.phase[k] = loc[p].phase[k] /\ l.dl[k] = loc[p].dl[k]
        /\ \A k \in DOMAIN l.q : k # i => l.q[k] = loc[p].q[k]
    <2>1. Follows(loc[p], l, i, "dl_write", loc[p].q[i], loc[p].dl[i])
      BY <1>1, CandidateMoves
    <2> QED BY <2>1 DEF Follows
  <1>4. /\ UNCHANGED <<accepted, orphaned, overlaps, tornCrash>> /\ loc[p].phase[i] = "dl_save"
        /\ file'["dlq"] = Torn /\ file'["queue"] = file["queue"]
    BY DEF WorkDeadTruncate, faults, Whole, TypeInv, Files
  <1>5. loc[p].pc = "work" /\ DOMAIN loc[p].phase \subseteq DOMAIN loc[p].q
    BY CandidateItem DEF Whole, TypeInv, LocalOk
  <1>6. ASSUME Good(loc[p]) PROVE Good(l)'
    <2>1. /\ \A k \in DOMAIN l.phase : k # i => l.phase[k] \in {"todo", "fin"}
          /\ DIds \cup {loc[p].q[i].id} \subseteq Ids(loc[p].dl[i])
      BY <1>3, <1>4, <1>5, <1>6 DEF Good, CoversWork
    <2>2. Saving(l) = {i} /\ Saving(loc[p]) = {}
      BY <1>3, <1>4, <2>1 DEF Saving
    <2>3. Dead(loc[p]) = DIds
      BY <2>2 DEF Dead
    <2>4. Kept' = Kept /\ QIds' = QIds /\ DIds' = {}
      BY <1>4 DEF Kept, QIds, DIds, Load, Ids
    <2>5. Saving(l)' = {i} /\ Dead(l)' = Ids(loc[p].dl[i])
      BY <1>3, <2>2, <2>4 DEF Saving, Dead
    <2>6. Untorn(l)'
      BY <1>3, <1>4, <1>5, <1>6, <2>5 DEF Good, Untorn
    <2>7. Covers(l)'
      BY <1>3 DEF Covers
    <2>8. Dead(loc[p]) \subseteq Dead(l)'
      BY <2>1, <2>3, <2>5
    <2>9. CoversWork(l)'
      <3>1. Kept' \subseteq QIds' \cup Dead(l)' /\ QIds' \subseteq Ids(l.q)'
        BY <1>3, <1>5, <1>6, <2>4, <2>8 DEF Good, CoversWork
      <3>2. \A k \in DOMAIN l.phase : l.phase[k] = "fin" /\ l.q[k].st = "dead-letter" => l.q[k].id \in Dead(l)'
        BY <1>3, <1>5, <1>6, <2>8 DEF Good, CoversWork
      <3>3. \A k \in DOMAIN l.phase :
                l.phase[k] \in {"dl_save", "dl_write"} => DIds' \cup {l.q[k].id} \subseteq Ids(l.dl[k])
        BY <1>3, <2>1, <2>4
      <3> QED BY <2>1, <3>1, <3>2, <3>3 DEF CoversWork, Ids
    <2> QED BY <2>6, <2>7, <2>9 DEF Good
  <1>7. overlaps' = 0 => overlaps = 0 /\ Mine(p)
    BY <1>4, <1>5 DEF Mine
  <1> QED BY <1>2, <1>4, <1>6, <1>7, TakingTurns

LEMMA WorkDeadWriteKeeps ==
    ASSUME Whole, Whole', KeepsInv, NEW p \in Procs, NEW i \in DOMAIN loc[p].phase, WorkDeadWrite(p, i)
    PROVE  KeepsInv'
  <1>1. PICK x : /\ x.id = loc[p].q[i].id /\ x.st = "dead-letter"
                 /\ loc' = [loc EXCEPT ![p] = Moved(loc[p], i, "fin", x, <<>>)]
    BY WorkDeadWriteMove
  <1>2. PICK l : l = Moved(loc[p], i, "fin", x, <<>>)
    OBVIOUS
  <1>3. /\ l.pc = "work" /\ Ids(l.q) = Ids(loc[p].q)
        /\ DOMAIN l.phase = DOMAIN loc[p].phase /\ DOMAIN l.q = DOMAIN loc[p].q /\ i \in DOMAIN l.q
        /\ l.phase[i] = "fin" /\ l.q[i] = x
        /\ \A k \in DOMAIN l.phase : k # i => l.phase[k] = loc[p].phase[k] /\ l.dl[k] = loc[p].dl[k]
        /\ \A k \in DOMAIN l.q : k # i => l.q[k] = loc[p].q[k]
    <2>1. Follows(loc[p], l, i, "fin", x, <<>>)
      BY <1>1, <1>2, CandidateMoves
    <2> QED BY <2>1 DEF Follows
  <1>4. /\ UNCHANGED <<accepted, orphaned, overlaps, tornCrash>> /\ loc[p].phase[i] = "dl_write"
        /\ file'["dlq"] = loc[p].dl[i] /\ file'["queue"] = file["queue"]
    BY DEF WorkDeadWrite, faults, Whole, TypeInv, Files
  <1>5. /\ loc[p].pc = "work" /\ DOMAIN loc[p].phase \subseteq DOMAIN loc[p].q
        /\ loc[p].dl[i] \in Seq(Item)
    BY CandidateItem DEF Whole, TypeInv, LocalOk
  <1>6. ASSUME Good(loc[p]) PROVE Good(l)'
    <2>1. /\ \A k \in DOMAIN l.phase : l.phase[k] \in {"todo", "fin"}
          /\ loc[p].q[i].id \in Ids(loc[p].dl[i])
      BY <1>3, <1>4, <1>5, <1>6 DEF Good, CoversWork
    <2>2. Saving(l) = {} /\ Saving(loc[p]) = {i}
      BY <1>3, <1>4, <2>1 DEF Saving
    <2>3. file["dlq"] = Torn /\ file["queue"] # Torn
      BY <1>5, <1>6, <2>2 DEF Good, Untorn
    <2>4. Kept' = Kept /\ QIds' = QIds /\ DIds' = Ids(loc[p].dl[i]) /\ DIds = {}
      BY <1>4, <1>5, <2>3, QueueAssumption DEF Kept, QIds, DIds, Load, Ids
    <2>5. Saving(l)' = {} /\ Dead(l)' = Ids(loc[p].dl[i]) /\ Dead(loc[p]) = Ids(loc[p].dl[i])
      BY <2>2, <2>4 DEF Saving, Dead
    <2>6. Untorn(l)'
      BY <1>3, <1>4, <1>5, <2>3, <2>5, QueueAssumption DEF Untorn
    <2>7. Covers(l)'
      BY <1>3 DEF Covers
    <2>8. CoversWork(l)'
      <3>1. Kept' \subseteq QIds' \cup Dead(l)' /\ QIds' \subseteq Ids(l.q)
        BY <1>3, <1>5, <1>6, <2>4, <2>5 DEF Good, CoversWork
      <3>2. \A k \in DOMAIN l.phase : l.phase[k] = "fin" /\ l.q[k].st = "dead-letter" => l.q[k].id \in Dead(l)'
        BY <1>1, <1>3, <1>5, <1>6, <2>1, <2>5 DEF Good, CoversWork
      <3> QED BY <2>1, <3>1, <3>2 DEF CoversWork, Ids
    <2> QED BY <2>6, <2>7, <2>8 DEF Good
  <1>7. overlaps' = 0 => overlaps = 0 /\ Mine(p)
    BY <1>4, <1>5 DEF Mine
  <1> QED BY <1>1, <1>2, <1>4, <1>6, <1>7, TakingTurns

-----------------------------------------------------------------------------
LEMMA KeepsStep == Workers = 1 /\ Whole /\ Whole' /\ KeepsInv /\ [Next]_vars => KeepsInv'
  <1> SUFFICES ASSUME Workers = 1, Whole, Whole', KeepsInv, [Next]_vars PROVE KeepsInv'
    OBVIOUS
  <1>1. ASSUME NEW p \in Procs, SubmitLoad(p) PROVE KeepsInv'
    BY <1>1, SubmitKeeps
  <1>2. ASSUME NEW p \in Procs, RetryLoadDlq(p) PROVE KeepsInv'
    BY <1>2, RetryLoadDlqKeeps
  <1>3. ASSUME NEW p \in Procs, NEW avail \in SUBSET Jobs, DrainLoad(p, avail) PROVE KeepsInv'
    BY <1>3, DrainLoadKeeps
  <1>4. ASSUME NEW p \in Procs, Drain(p) PROVE KeepsInv'
    BY <1>4, DrainDoneKeeps, WorkStartKeeps, WorkEndKeeps, WorkDeadLoadKeeps, WorkDeadTruncateKeeps,
       WorkDeadWriteKeeps DEF Drain
  <1>5. ASSUME NEW p \in Procs, RetryLoadQueue(p) \/ Truncate(p) \/ WriteDlq(p) \/ WriteQueue(p)
        PROVE  KeepsInv'
    BY <1>5, RetryLoadQueueKeeps, TruncateKeeps, WriteDlqKeeps, WriteQueueKeeps
  <1>6. ASSUME NEW p \in Procs, Crash(p) PROVE KeepsInv'
    BY <1>6, CrashKeeps
  <1>7. CASE UNCHANGED vars
    <2>1. UNCHANGED <<file, accepted, orphaned>> /\ UNCHANGED <<loc, overlaps, tornCrash>>
      BY <1>7 DEF vars, faults
    <2>2. ASSUME NEW p \in Procs, Good(loc[p]) PROVE Good(loc[p])'
      <3>1. PICK k : k = loc'[p] /\ k = loc[p]
        BY <2>1
      <3> QED BY <2>1, <2>2, <3>1, GoodStill, GoodNext
    <2> QED BY <2>1, <2>2 DEF KeepsInv, AtMostOne, Mine, AllIdle
  <1> QED BY <1>1, <1>2, <1>3, <1>4, <1>5, <1>6, <1>7 DEF Next, Step

LEMMA InitKeeps == Init => KeepsInv
  <1> SUFFICES ASSUME Init PROVE KeepsInv
    OBVIOUS
  <1>1. \A p \in Procs : loc[p] = Idle
    BY DEF Init
  <1>2. file["queue"] # Torn /\ file["dlq"] # Torn
    <2>1. <<>> \in Seq(Item)
      OBVIOUS
    <2> QED BY <2>1, QueueAssumption DEF Init, Files
  <1>3. Saving(Idle) = {} /\ Kept = {}
    BY DEF Saving, Idle, Kept, Init
  <1>4. Good(Idle)
    BY <1>2, <1>3 DEF Good, Untorn, Covers, CoversWork, Idle
  <1> QED BY <1>1, <1>4 DEF KeepsInv, AtMostOne, Idle

LEMMA PlacesOfId ==
    ASSUME NEW j, j \in QIds \cup DIds PROVE Places(j) # {}
  <1>1. PICK f \in Files : j \in Ids(Load(f))
    BY DEF QIds, DIds, Files
  <1>3. PICK i \in DOMAIN Load(f) : Load(f)[i].id = j
    BY <1>1 DEF Ids
  <1>2. <<f, i>> \in Places(j)
    BY <1>3 DEF Places
  <1> QED BY <1>2

(* Operations that take turns, each with one worker, and die between any   *)
(* two steps but not inside a file write, lose no accepted job, except the *)
(* one a requeue had off the dead letter and not yet in the queue.  (With  *)
(* two workers it is false: they save dead_letter.json over each other,    *)
(* drain.py:36-41.)                                                        *)
THEOREM CrashesKeepJobs ==
    ASSUME Workers = 1
    PROVE  Spec => []CrashKeepsJobs
  <1> DEFINE I == Whole /\ JobInv /\ KeepsInv
  <1>1. I /\ [Next]_vars => I'
    BY NextStep, JobStep, KeepsStep
  <1>2. I => CrashKeepsJobs
    <2> SUFFICES ASSUME I, AllIdle, overlaps = 0, ~tornCrash, NEW j \in accepted \ orphaned
                 PROVE  Places(j) # {}
      BY DEF CrashKeepsJobs
    <2>1. PICK p \in Procs : TRUE
      BY QueueAssumption
    <2>2. Good(loc[p]) /\ loc[p].pc = "idle"
      BY DEF KeepsInv, Mine, AllIdle
    <2>3. j \in QIds \cup DIds
      BY <2>2 DEF Good, Covers, Kept
    <2> QED BY <2>3, PlacesOfId
  <1>3. Init => I
    BY InitWhole, InitKeeps
  <1> HIDE DEF I
  <1> QED BY <1>1, <1>2, <1>3, PTL DEF Spec

-----------------------------------------------------------------------------
(* Without a crash, and in turns, every id is in one place.                *)
Apart(l) ==
    /\ QIds \cup DIds \subseteq 1 .. submitted
    /\ l.pc \in {"idle", "retry"} =>
          Unique(Load("queue")) /\ Unique(Load("dlq")) /\ QIds \cap DIds = {}
    /\ l.pc \in {"save_dlq", "write_dlq"} =>
          /\ Unique(l.q) /\ Unique(l.d) /\ Ids(l.q) \cap Ids(l.d) = {}
          /\ Ids(l.q) \cup Ids(l.d) \subseteq 1 .. submitted
    /\ l.pc \in {"save_queue", "write_queue"} =>
          /\ Unique(l.q) /\ Unique(Load("dlq")) /\ Ids(l.q) \cap DIds = {}
          /\ Ids(l.q) \subseteq 1 .. submitted

(* A candidate is on the dead letter when its item says so, or its save is *)
(* under way.                                                              *)
ApartWork(l) ==
    l.pc = "work" =>
        /\ Unique(l.q) /\ Unique(Load("dlq")) /\ Ids(l.q) \subseteq 1 .. submitted
        /\ \A i \in DOMAIN l.q :
              l.q[i].st # "dead-letter" /\ i \notin Saving(l) => l.q[i].id \notin Dead(l)
        /\ \A i \in DOMAIN l.phase :
              /\ l.phase[i] \in {"dl_save", "dl_write"} => Unique(l.dl[i]) /\ Ids(l.dl[i]) \subseteq 1 .. submitted
              /\ l.phase[i] = "dl_save" => Ids(l.dl[i]) = DIds \cup {l.q[i].id}

Lone(l) == Apart(l) /\ ApartWork(l)

NoTraces == crashes = 0 => ~tornCrash /\ orphaned = {}

ApartInv == NoTraces /\ (overlaps = 0 /\ crashes = 0 => \A p \in Procs : Mine(p) => Lone(loc[p]))

LEMMA LoneNext == ASSUME NEW r, NEW k, k = loc'[r], Lone(k)' PROVE Lone(loc[r])'
  BY DEF Lone, Apart, ApartWork, Saving, Dead

LEMMA LoneStill ==
    ASSUME UNCHANGED <<file, submitted>>, NEW l, Lone(l)
    PROVE  Lone(l)'
  <1>1. QIds' = QIds /\ DIds' = DIds /\ Load("queue")' = Load("queue") /\ Load("dlq")' = Load("dlq")
    BY DEF QIds, DIds, Load
  <1>2. Saving(l)' = Saving(l) /\ Dead(l)' = Dead(l)
    BY <1>1 DEF Saving, Dead
  <1>3. Apart(l)'
    BY <1>1 DEF Lone, Apart, Unique
  <1>4. ApartWork(l)'
    BY <1>1, <1>2 DEF Lone, ApartWork, Unique
  <1> QED BY <1>3, <1>4 DEF Lone

LEMMA LoneTurns ==
    ASSUME Whole, Whole', KeepsInv, ApartInv, NEW p \in Procs, NEW l, loc' = [loc EXCEPT ![p] = l],
           overlaps' = 0 => overlaps = 0 /\ Mine(p), crashes' = crashes /\ UNCHANGED <<tornCrash, orphaned>>,
           ~tornCrash /\ Good(loc[p]) /\ Lone(loc[p]) => Lone(l)'
    PROVE  ApartInv'
  <1>1. NoTraces'
    BY DEF ApartInv, NoTraces
  <1> SUFFICES ASSUME overlaps' = 0, crashes' = 0, NEW r \in Procs, Mine(r)' PROVE Lone(loc[r])'
    BY <1>1 DEF ApartInv
  <1>2. \A s \in Procs : loc'[s] = IF s = p THEN l ELSE loc[s]
    BY DEF Whole, TypeInv
  <1>3. ~tornCrash /\ AtMostOne /\ Mine(p) /\ Good(loc[p]) /\ Lone(loc[p])
    BY DEF ApartInv, NoTraces, KeepsInv
  <1>4. Lone(l)'
    BY <1>3
  <1>5. CASE r = p
    BY <1>2, <1>4, <1>5, LoneNext
  <1>6. CASE r # p
    <2>1. loc'[r] = loc[r] /\ loc[r].pc = "idle" /\ l.pc = "idle"
      BY <1>2, <1>3, <1>6 DEF Mine, AllIdle, AtMostOne
    <2>2. PICK k : k = loc[r]
      OBVIOUS
    <2>3. Lone(k)'
      BY <1>4, <2>1, <2>2 DEF Lone, Apart, ApartWork
    <2> QED BY <2>1, <2>2, <2>3, LoneNext
  <1> QED BY <1>5, <1>6

LEMMA SubmitLone ==
    ASSUME Whole, Whole', KeepsInv, ApartInv, NEW p \in Procs, SubmitLoad(p) PROVE ApartInv'
  <1>1. PICK n : n = submitted'
    OBVIOUS
  <1>2. n \in Jobs /\ n = submitted + 1 /\ submitted \in Nat
    BY <1>1, QueueAssumption DEF SubmitLoad, Whole, TypeInv, Jobs
  <1> DEFINE q == Append(Load("queue"), NewItem(n))
  <1>3. PICK l : l = [Idle EXCEPT !.pc = "save_queue", !.q = q, !.job = n]
    OBVIOUS
  <1>4. loc' = [loc EXCEPT ![p] = l]
    BY <1>1, <1>3 DEF SubmitLoad
  <1>5. UNCHANGED <<file, crashes, tornCrash, orphaned>>
    BY DEF SubmitLoad, faults
  <1>6. Load("queue") \in Seq(Item) /\ NewItem(n) \in Item /\ NewItem(n).id = n
    BY <1>2, LoadType, NewItemType DEF Files, Whole, NewItem
  <1>7. Ids(q) = QIds \cup {n} /\ (Unique(Load("queue")) /\ n \notin QIds => Unique(q))
    BY <1>6, IdsAppend DEF QIds
  <1>8. l.pc = "save_queue" /\ l.q = q
    BY <1>3 DEF Idle
  <1> HIDE DEF q
  <1>9. ASSUME Lone(loc[p]) PROVE Lone(l)'
    <2>1. /\ QIds \cup DIds \subseteq 1 .. submitted /\ QIds \cap DIds = {}
          /\ Unique(Load("queue")) /\ Unique(Load("dlq"))
      BY <1>9, StartAlone DEF SubmitLoad, Lone, Apart
    <2>2. QIds' = QIds /\ DIds' = DIds /\ Load("dlq")' = Load("dlq")
      BY <1>5 DEF QIds, DIds, Load
    <2>3. n \notin QIds \cup DIds /\ 1 .. submitted \subseteq 1 .. n /\ n \in 1 .. n
      BY <1>2, <2>1
    <2>4. Unique(l.q) /\ Unique(Load("dlq"))' /\ Ids(l.q) \cap DIds' = {} /\ Ids(l.q) \subseteq 1 .. n
      BY <1>7, <1>8, <2>1, <2>2, <2>3 DEF Unique
    <2>5. Apart(l)'
      BY <1>1, <1>8, <2>1, <2>2, <2>3, <2>4 DEF Apart, Unique, Ids
    <2> QED BY <1>8, <2>5 DEF Lone, ApartWork
  <1>10. overlaps' = 0 => overlaps = 0 /\ Mine(p)
    BY StartAlone DEF SubmitLoad
  <1> QED BY <1>4, <1>5, <1>9, <1>10, LoneTurns

LEMMA RetryLoadDlqLone ==
    ASSUME Whole, Whole', KeepsInv, ApartInv, NEW p \in Procs, RetryLoadDlq(p) PROVE ApartInv'
  <1>1. PICK j : loc' = [loc EXCEPT ![p] = [Idle EXCEPT !.pc = "retry", !.d = Load("dlq"), !.job = j]]
    BY DEF RetryLoadDlq
  <1>2. PICK l : l = [Idle EXCEPT !.pc = "retry", !.d = Load("dlq"), !.job = j]
    OBVIOUS
  <1>3. UNCHANGED <<file, submitted, crashes, tornCrash, orphaned>>
    BY DEF RetryLoadDlq, faults
  <1>4. l.pc = "retry" /\ loc[p].pc = "idle"
    BY <1>2, StartAlone DEF Idle, RetryLoadDlq
  <1>5. Lone(loc[p]) => Lone(l)
    BY <1>4 DEF Lone, Apart, ApartWork
  <1>6. Lone(loc[p]) => Lone(l)'
    BY <1>3, <1>5, LoneStill
  <1>7. overlaps' = 0 => overlaps = 0 /\ Mine(p)
    BY StartAlone DEF RetryLoadDlq
  <1> QED BY <1>1, <1>2, <1>3, <1>6, <1>7, LoneTurns

LEMMA RequeuedLone ==
    ASSUME Whole, NEW p \in Procs, loc[p].pc = "retry", Good(loc[p]), Lone(loc[p]),
           NEW k \in DOMAIN loc[p].d, NEW l,
           l = [loc[p] EXCEPT !.pc = "save_dlq",
                    !.q = Append(Load("queue"), [loc[p].d[k] EXCEPT !.st = "queued"]),
                    !.d = RemoveAt(loc[p].d, k)]
    PROVE  Lone(l)
  <1> DEFINE x == [loc[p].d[k] EXCEPT !.st = "queued"]
  <1>1. LocalOk(loc[p]) /\ loc[p].d \in Seq(Item)
    BY DEF Whole, TypeInv, LocalOk, Locals
  <1>2. loc[p].d[k] \in Item
    BY <1>1, ElementOfSeq, LenProperties
  <1>3. x \in Item /\ x.id = loc[p].d[k].id
    BY <1>2 DEF Item
  <1>4. l = [loc[p] EXCEPT !.pc = "save_dlq", !.q = Append(Load("queue"), x), !.d = RemoveAt(loc[p].d, k)]
    OBVIOUS
  <1> HIDE DEF x
  <1>5. l.pc = "save_dlq" /\ l.q = Append(Load("queue"), x) /\ l.d = RemoveAt(loc[p].d, k)
    BY <1>1, <1>4 DEF LocalOk, Locals
  <1>6. Saving(loc[p]) = {}
    BY <1>1 DEF LocalOk, Saving
  <1>7. loc[p].d = file["dlq"] /\ file["dlq"] # Torn /\ loc[p].d = Load("dlq")
    BY <1>6 DEF Good, Untorn, Covers, Load
  <1>8. /\ QIds \cup DIds \subseteq 1 .. submitted /\ QIds \cap DIds = {}
        /\ Unique(Load("queue")) /\ Unique(loc[p].d) /\ DIds = Ids(loc[p].d)
    BY <1>7 DEF Lone, Apart, DIds
  <1>9. /\ DIds = Ids(l.d) \cup {x.id} /\ x.id \notin Ids(l.d) /\ Unique(l.d)
    BY <1>1, <1>3, <1>5, <1>8, IdsRemove
  <1>10. Load("queue") \in Seq(Item)
    BY LoadType DEF Whole, Files
  <1>11. Ids(l.q) = QIds \cup {x.id} /\ Unique(l.q)
    BY <1>3, <1>5, <1>8, <1>9, <1>10, IdsAppend DEF QIds
  <1>12. Apart(l)
    BY <1>5, <1>8, <1>9, <1>11 DEF Apart
  <1> QED BY <1>5, <1>12 DEF Lone, ApartWork

LEMMA RetryLoadQueueLone ==
    ASSUME Whole, Whole', KeepsInv, ApartInv, NEW p \in Procs, RetryLoadQueue(p) PROVE ApartInv'
  <1>1. /\ UNCHANGED <<file, submitted, overlaps, crashes, tornCrash, orphaned>> /\ loc[p].pc = "retry"
        /\ DOMAIN loc = Procs
    BY DEF RetryLoadQueue, faults, Whole, TypeInv
  <1>2. PICK l : loc' = [loc EXCEPT ![p] = l] /\ (Good(loc[p]) /\ Lone(loc[p]) => Lone(l))
    <2>1. CASE loc' = [loc EXCEPT ![p] = Idle]
      <3>1. Lone(loc[p]) => Lone(Idle)
        BY <1>1 DEF Lone, Apart, ApartWork, Idle
      <3> QED BY <2>1, <3>1
    <2>2. CASE loc' # [loc EXCEPT ![p] = Idle]
      <3>1. PICK k \in DOMAIN loc[p].d :
                loc' = [loc EXCEPT ![p].pc = "save_dlq",
                                   ![p].q  = Append(Load("queue"), [loc[p].d[k] EXCEPT !.st = "queued"]),
                                   ![p].d  = RemoveAt(loc[p].d, k)]
        BY <2>2 DEF RetryLoadQueue
      <3> DEFINE l == [loc[p] EXCEPT !.pc = "save_dlq",
                           !.q = Append(Load("queue"), [loc[p].d[k] EXCEPT !.st = "queued"]),
                           !.d = RemoveAt(loc[p].d, k)]
      <3>2. loc' = [loc EXCEPT ![p] = l]
        BY <1>1, <3>1
      <3>3. Good(loc[p]) /\ Lone(loc[p]) => Lone(l)
        BY <1>1, RequeuedLone
      <3> QED BY <3>2, <3>3
    <2> QED BY <2>1, <2>2
  <1>3. overlaps' = 0 => overlaps = 0 /\ Mine(p)
    BY <1>1 DEF Mine
  <1>4. Good(loc[p]) /\ Lone(loc[p]) => Lone(l)'
    BY <1>1, <1>2, LoneStill
  <1> QED BY <1>1, <1>2, <1>3, <1>4, LoneTurns

LEMMA DrainLoadLone ==
    ASSUME Whole, Whole', KeepsInv, ApartInv, NEW p \in Procs, NEW avail, DrainLoad(p, avail)
    PROVE  ApartInv'
  <1> DEFINE q == Load("queue")
             taken == {i \in Candidates(q, avail) : runs[q[i].id] < MaxRuns}
  <1>1. PICK l : l = [Idle EXCEPT !.pc = "work", !.q = q, !.phase = [i \in taken |-> "todo"],
                                  !.dl = [i \in taken |-> <<>>]]
    OBVIOUS
  <1>2. loc' = [loc EXCEPT ![p] = l]
    BY <1>1 DEF DrainLoad
  <1>3. UNCHANGED <<file, submitted, crashes, tornCrash, orphaned>>
    BY DEF DrainLoad, faults
  <1> HIDE DEF taken
  <1>4. /\ l.pc = "work" /\ l.q = Load("queue") /\ DOMAIN l.phase = taken
        /\ \A i \in DOMAIN l.phase : l.phase[i] = "todo"
    BY <1>1 DEF Idle
  <1>5. Saving(l) = {} /\ Dead(l) = DIds
    BY <1>4 DEF Saving, Dead
  <1>6. loc[p].pc = "idle"
    BY StartAlone DEF DrainLoad
  <1>7. ASSUME Lone(loc[p]) PROVE Lone(l)
    <2>1. /\ QIds \cup DIds \subseteq 1 .. submitted /\ QIds \cap DIds = {}
          /\ Unique(Load("queue")) /\ Unique(Load("dlq"))
      BY <1>6, <1>7 DEF Lone, Apart
    <2>2. Apart(l)
      BY <1>4, <2>1 DEF Apart
    <2>3. \A i \in DOMAIN l.q : l.q[i].id \in QIds
      BY <1>4 DEF QIds, Ids
    <2>4. ApartWork(l)
      BY <1>4, <1>5, <2>1, <2>3 DEF ApartWork, QIds
    <2> QED BY <2>2, <2>4 DEF Lone
  <1>8. overlaps' = 0 => overlaps = 0 /\ Mine(p)
    BY StartAlone DEF DrainLoad
  <1>9. Lone(loc[p]) => Lone(l)'
    BY <1>3, <1>7, LoneStill
  <1> QED BY <1>2, <1>3, <1>8, <1>9, LoneTurns

LEMMA DrainDoneLone ==
    ASSUME Whole, Whole', KeepsInv, ApartInv, NEW p \in Procs, DrainDone(p) PROVE ApartInv'
  <1>1. PICK l : l = [Idle EXCEPT !.pc = "save_queue", !.q = Live(loc[p].q)]
    OBVIOUS
  <1>2. loc' = [loc EXCEPT ![p] = l]
    BY <1>1 DEF DrainDone
  <1>3. UNCHANGED <<file, submitted, overlaps, crashes, tornCrash, orphaned>>
    BY DEF DrainDone, faults
  <1>4. /\ loc[p].pc = "work" /\ loc[p].q \in Seq(Item)
        /\ \A i \in DOMAIN loc[p].phase : loc[p].phase[i] = "fin"
    BY DEF DrainDone, Whole, TypeInv, LocalOk, Locals
  <1>5. l.pc = "save_queue" /\ l.q = Live(loc[p].q)
    BY <1>1 DEF Idle
  <1>6. Saving(loc[p]) = {} /\ Dead(loc[p]) = DIds
    BY <1>4 DEF Saving, Dead
  <1>7. ASSUME Lone(loc[p]) PROVE Lone(l)
    <2>1. /\ Unique(loc[p].q) /\ Unique(Load("dlq")) /\ Ids(loc[p].q) \subseteq 1 .. submitted
          /\ \A i \in DOMAIN loc[p].q : loc[p].q[i].st # "dead-letter" => loc[p].q[i].id \notin DIds
      BY <1>4, <1>6, <1>7 DEF Lone, ApartWork
    <2>2. Ids(l.q) \cap DIds = {} /\ Ids(l.q) \subseteq Ids(loc[p].q) /\ Unique(l.q)
      <3>1. /\ Ids(l.q) = {loc[p].q[i].id : i \in {k \in DOMAIN loc[p].q : loc[p].q[k].st # "dead-letter"}}
            /\ Unique(l.q)
        BY <1>4, <1>5, <2>1, IdsLive
      <3> QED BY <2>1, <3>1 DEF Ids
    <2>3. Apart(l)
      BY <1>5, <1>7, <2>1, <2>2 DEF Lone, Apart
    <2> QED BY <1>5, <2>3 DEF Lone, ApartWork
  <1>8. overlaps' = 0 => overlaps = 0 /\ Mine(p)
    BY <1>3, <1>4 DEF Mine
  <1>9. Lone(loc[p]) => Lone(l)'
    BY <1>3, <1>7, LoneStill
  <1> QED BY <1>2, <1>3, <1>8, <1>9, LoneTurns

LEMMA TruncateLone ==
    ASSUME Whole, Whole', KeepsInv, ApartInv, NEW p \in Procs, Truncate(p) PROVE ApartInv'
  <1>1. PICK pc \in {"write_dlq", "write_queue"}, f \in Files :
            /\ loc' = [loc EXCEPT ![p].pc = pc]
            /\ file' = [file EXCEPT ![f] = Torn]
            /\ pc = "write_dlq" => loc[p].pc = "save_dlq" /\ f = "dlq"
            /\ pc = "write_queue" => loc[p].pc = "save_queue" /\ f = "queue"
    BY Zenon DEF Truncate, Files
  <1>2. PICK l : l = [loc[p] EXCEPT !.pc = pc]
    OBVIOUS
  <1>3. loc' = [loc EXCEPT ![p] = l] /\ UNCHANGED <<submitted, overlaps, crashes, tornCrash, orphaned>>
    BY <1>1, <1>2 DEF Truncate, faults
  <1>4. l.pc = pc /\ l.q = loc[p].q /\ l.d = loc[p].d
    BY <1>1, <1>2 DEF Whole, TypeInv, LocalOk, Locals
  <1>5. file'[f] = Torn /\ \A g \in Files : g # f => file'[g] = file[g]
    BY <1>1 DEF Whole, TypeInv
  <1>6. ASSUME Lone(loc[p]) PROVE Lone(l)'
    <2>1. /\ QIds' \subseteq QIds /\ DIds' \subseteq DIds
          /\ f = "queue" => Load("dlq")' = Load("dlq")
      BY <1>5 DEF QIds, DIds, Ids, Load, Files
    <2>2. Apart(l)'
      <3>1. CASE f = "dlq"
        <4>1. (QIds \cup DIds)' \subseteq 1 .. submitted'
          BY <1>3, <1>6, <2>1 DEF Lone, Apart
        <4>2. /\ Unique(l.q) /\ Unique(l.d) /\ Ids(l.q) \cap Ids(l.d) = {}
              /\ Ids(l.q) \cup Ids(l.d) \subseteq 1 .. submitted
          BY <1>1, <1>4, <1>6, <3>1 DEF Lone, Apart
        <4>3. /\ Unique(l.q)' /\ Unique(l.d)' /\ (Ids(l.q) \cap Ids(l.d))' = {}
              /\ (Ids(l.q) \cup Ids(l.d))' \subseteq 1 .. submitted'
          BY <1>3, <4>2 DEF Unique, Ids
        <4> QED BY <1>1, <1>4, <3>1, <4>1, <4>3 DEF Apart
      <3>2. CASE f = "queue"
        <4>1. (QIds \cup DIds)' \subseteq 1 .. submitted'
          BY <1>3, <1>6, <2>1 DEF Lone, Apart
        <4>2. Unique(l.q) /\ Unique(Load("dlq")) /\ Ids(l.q) \cap DIds = {} /\ Ids(l.q) \subseteq 1 .. submitted
          BY <1>1, <1>4, <1>6, <3>2 DEF Lone, Apart
        <4>3. Unique(l.q)' /\ Unique(Load("dlq"))' /\ (Ids(l.q) \cap DIds)' = {} /\ Ids(l.q)' \subseteq 1 .. submitted'
          BY <1>3, <2>1, <3>2, <4>2 DEF Unique, Ids
        <4> QED BY <1>1, <1>4, <3>2, <4>1, <4>3 DEF Apart
      <3> QED BY <3>1, <3>2 DEF Files
    <2> QED BY <1>1, <1>4, <2>2 DEF Lone, ApartWork
  <1>7. overlaps' = 0 => overlaps = 0 /\ Mine(p)
    BY <1>1, <1>3 DEF Mine
  <1> QED BY <1>3, <1>6, <1>7, LoneTurns

LEMMA WriteDlqLone ==
    ASSUME Whole, Whole', KeepsInv, ApartInv, NEW p \in Procs, WriteDlq(p) PROVE ApartInv'
  <1>1. PICK l : l = [loc[p] EXCEPT !.pc = "save_queue"]
    OBVIOUS
  <1>2. loc' = [loc EXCEPT ![p] = l] /\ UNCHANGED <<submitted, overlaps, crashes, tornCrash, orphaned>>
    BY Zenon, <1>1 DEF WriteDlq, faults
  <1>3. /\ l.pc = "save_queue" /\ l.q = loc[p].q /\ loc[p].pc = "write_dlq" /\ loc[p].d \in Seq(Item)
    BY <1>1 DEF WriteDlq, Whole, TypeInv, LocalOk, Locals
  <1>4. file'["dlq"] = loc[p].d /\ file'["queue"] = file["queue"]
    BY DEF WriteDlq, Whole, TypeInv, Files
  <1>5. ASSUME Lone(loc[p]) PROVE Lone(l)'
    <2>1. QIds' = QIds /\ Load("dlq")' = loc[p].d /\ DIds' = Ids(loc[p].d)
      BY <1>3, <1>4, QueueAssumption DEF QIds, DIds, Load
    <2>2. Apart(l)'
      <3>1. /\ Unique(l.q) /\ Unique(loc[p].d) /\ Ids(l.q) \cap Ids(loc[p].d) = {}
            /\ Ids(l.q) \cup Ids(loc[p].d) \subseteq 1 .. submitted /\ QIds \subseteq 1 .. submitted
        BY <1>3, <1>5 DEF Lone, Apart
      <3>2. /\ Unique(l.q)' /\ Unique(Load("dlq"))' /\ Ids(l.q)' \cap DIds' = {}
            /\ Ids(l.q)' \subseteq 1 .. submitted' /\ QIds' \cup DIds' \subseteq 1 .. submitted'
        BY <1>2, <2>1, <3>1 DEF Unique, Ids
      <3> QED BY <1>3, <3>2 DEF Apart
    <2> QED BY <1>3, <2>2 DEF Lone, ApartWork
  <1>6. overlaps' = 0 => overlaps = 0 /\ Mine(p)
    BY <1>2, <1>3 DEF Mine
  <1> QED BY <1>2, <1>5, <1>6, LoneTurns

LEMMA WriteQueueLone ==
    ASSUME Whole, Whole', KeepsInv, ApartInv, NEW p \in Procs, WriteQueue(p) PROVE ApartInv'
  <1>1. PICK l : l = Idle
    OBVIOUS
  <1>2. loc' = [loc EXCEPT ![p] = l] /\ UNCHANGED <<submitted, overlaps, crashes, tornCrash, orphaned>>
    BY <1>1 DEF WriteQueue, faults
  <1>3. l.pc = "idle" /\ loc[p].pc = "write_queue" /\ loc[p].q \in Seq(Item)
    BY <1>1 DEF WriteQueue, Whole, TypeInv, LocalOk, Locals, Idle
  <1>4. file'["queue"] = loc[p].q /\ file'["dlq"] = file["dlq"]
    BY DEF WriteQueue, Whole, TypeInv, Files
  <1>5. ASSUME Lone(loc[p]) PROVE Lone(l)'
    <2>1. /\ Load("queue")' = loc[p].q /\ QIds' = Ids(loc[p].q)
          /\ Load("dlq")' = Load("dlq") /\ DIds' = DIds
      BY <1>3, <1>4, QueueAssumption DEF QIds, DIds, Load
    <2>2. Apart(l)'
      BY <1>2, <1>3, <1>5, <2>1 DEF Lone, Apart, Unique
    <2> QED BY <1>3, <2>2 DEF Lone, ApartWork
  <1>6. overlaps' = 0 => overlaps = 0 /\ Mine(p)
    BY <1>2, <1>3 DEF Mine
  <1> QED BY <1>2, <1>5, <1>6, LoneTurns

LEMMA CrashLone == ASSUME Whole, ApartInv, NEW p \in Procs, Crash(p) PROVE ApartInv'
  <1>1. crashes' # 0
    BY DEF Crash, Whole, TypeInv
  <1> QED BY <1>1 DEF ApartInv, NoTraces

(* The steps of the one worker.                                            *)
LEMMA QuietMoveLone ==
    ASSUME Whole, NEW p \in Procs, Lone(loc[p]), NEW i \in DOMAIN loc[p].phase,
           NEW s \in {"running", "dl_save", "fin"}, NEW x, NEW w, x.id = loc[p].q[i].id,
           loc[p].phase[i] # "dl_write", loc[p].q[i].st # "dead-letter",
           s = "dl_save" => Ids(w) = DIds \cup {x.id} /\ Unique(w),
           NEW l, l = Moved(loc[p], i, s, x, w)
    PROVE  Lone(l)
  <1>1. /\ l.pc = "work" /\ Ids(l.q) = Ids(loc[p].q) /\ (Unique(loc[p].q) => Unique(l.q))
        /\ DOMAIN l.phase = DOMAIN loc[p].phase /\ DOMAIN l.q = DOMAIN loc[p].q /\ i \in DOMAIN l.q
        /\ l.phase[i] = s /\ l.q[i] = x /\ l.dl[i] = w
        /\ \A k \in DOMAIN l.phase : k # i => l.phase[k] = loc[p].phase[k] /\ l.dl[k] = loc[p].dl[k]
        /\ \A k \in DOMAIN l.q : k # i => l.q[k] = loc[p].q[k]
    <2>1. Follows(loc[p], l, i, s, x, w)
      BY CandidateMoves
    <2> QED BY <2>1 DEF Follows
  <1>2. loc[p].pc = "work" /\ DOMAIN loc[p].phase \subseteq DOMAIN loc[p].q
    BY CandidateItem DEF Whole, TypeInv, LocalOk
  <1>3. Saving(l) = Saving(loc[p]) /\ Dead(l) = Dead(loc[p])
    BY <1>1, DeadSame
  <1>4. /\ QIds \cup DIds \subseteq 1 .. submitted /\ Ids(loc[p].q) \subseteq 1 .. submitted
        /\ Unique(loc[p].q) /\ Unique(Load("dlq"))
    BY <1>2 DEF Lone, Apart, ApartWork
  <1>5. Apart(l)
    BY <1>1, <1>4 DEF Apart
  <1>6. i \notin Saving(loc[p])
    BY DEF Saving
  <1>7. ASSUME NEW k \in DOMAIN l.q, l.q[k].st # "dead-letter", k \notin Saving(l)
        PROVE  l.q[k].id \notin Dead(l)
    BY <1>1, <1>2, <1>3, <1>6, <1>7 DEF Lone, ApartWork
  <1>8. ASSUME NEW k \in DOMAIN l.phase
        PROVE  /\ l.phase[k] \in {"dl_save", "dl_write"} => Unique(l.dl[k]) /\ Ids(l.dl[k]) \subseteq 1 .. submitted
               /\ l.phase[k] = "dl_save" => Ids(l.dl[k]) = DIds \cup {l.q[k].id}
    <2>1. CASE k = i
      <3>1. x.id \in 1 .. submitted
        BY <1>1, <1>2, <1>4 DEF Ids
      <3> QED BY <1>1, <1>4, <2>1, <3>1
    <2>2. CASE k # i
      BY <1>1, <1>2, <2>2 DEF Lone, ApartWork
    <2> QED BY <2>1, <2>2
  <1>9. ApartWork(l)
    BY <1>1, <1>4, <1>7, <1>8 DEF ApartWork
  <1> QED BY <1>5, <1>9 DEF Lone

LEMMA WorkStartLone ==
    ASSUME Whole, Whole', KeepsInv, ApartInv, NEW p \in Procs, NEW i \in DOMAIN loc[p].phase, WorkStart(p, i)
    PROVE  ApartInv'
  <1>1. PICK x : /\ x.id = loc[p].q[i].id
                 /\ loc' = [loc EXCEPT ![p] = Moved(loc[p], i, "running", x, loc[p].dl[i])]
    BY WorkStartMove
  <1>2. PICK l : l = Moved(loc[p], i, "running", x, loc[p].dl[i])
    OBVIOUS
  <1>3. UNCHANGED <<file, submitted, overlaps, crashes, tornCrash, orphaned>> /\ loc[p].phase[i] = "todo"
    BY DEF WorkStart, faults
  <1>4. loc[p].pc = "work" /\ loc[p].q[i].st # "dead-letter"
    BY <1>3, CandidateItem DEF Progress, InQueue
  <1>5. Lone(loc[p]) => Lone(l)
    BY <1>1, <1>2, <1>3, <1>4, QuietMoveLone
  <1>6. Lone(loc[p]) => Lone(l)'
    BY <1>3, <1>5, LoneStill
  <1>7. overlaps' = 0 => overlaps = 0 /\ Mine(p)
    BY <1>3, <1>4 DEF Mine
  <1> QED BY <1>1, <1>2, <1>3, <1>6, <1>7, LoneTurns

LEMMA WorkEndLone ==
    ASSUME Whole, Whole', KeepsInv, ApartInv, NEW p \in Procs, NEW i \in DOMAIN loc[p].phase,
           WorkOk(p, i) \/ WorkRetry(p, i)
    PROVE  ApartInv'
  <1>1. PICK x : /\ x.id = loc[p].q[i].id
                 /\ loc' = [loc EXCEPT ![p] = Moved(loc[p], i, "fin", x, loc[p].dl[i])]
    BY WorkEndMove
  <1>2. PICK l : l = Moved(loc[p], i, "fin", x, loc[p].dl[i])
    OBVIOUS
  <1>3. UNCHANGED <<file, submitted, overlaps, crashes, tornCrash, orphaned>> /\ loc[p].phase[i] = "running"
    BY DEF WorkOk, WorkRetry, faults
  <1>4. loc[p].pc = "work" /\ loc[p].q[i].st # "dead-letter"
    BY <1>3, CandidateItem DEF Progress
  <1>5. Lone(loc[p]) => Lone(l)
    BY <1>1, <1>2, <1>3, <1>4, QuietMoveLone
  <1>6. Lone(loc[p]) => Lone(l)'
    BY <1>3, <1>5, LoneStill
  <1>7. overlaps' = 0 => overlaps = 0 /\ Mine(p)
    BY <1>3, <1>4 DEF Mine
  <1> QED BY <1>1, <1>2, <1>3, <1>6, <1>7, LoneTurns

LEMMA WorkDeadLoadLone ==
    ASSUME Whole, Whole', KeepsInv, ApartInv, NEW p \in Procs, NEW i \in DOMAIN loc[p].phase, WorkDeadLoad(p, i)
    PROVE  ApartInv'
  <1>1. PICK w : /\ Ids(w) = DIds \cup {loc[p].q[i].id}
                 /\ Unique(Load("dlq")) /\ loc[p].q[i].id \notin DIds => Unique(w)
                 /\ loc' = [loc EXCEPT ![p] = Moved(loc[p], i, "dl_save", loc[p].q[i], w)]
    BY WorkDeadLoadMove DEF DIds
  <1>2. PICK l : l = Moved(loc[p], i, "dl_save", loc[p].q[i], w)
    OBVIOUS
  <1>3. UNCHANGED <<file, submitted, overlaps, crashes, tornCrash, orphaned>> /\ loc[p].phase[i] = "running"
    BY DEF WorkDeadLoad, faults
  <1>4. loc[p].pc = "work" /\ loc[p].q[i].st # "dead-letter" /\ i \in DOMAIN loc[p].q /\ i \notin Saving(loc[p])
    BY <1>3, CandidateItem DEF Progress, Saving
  <1>5. ASSUME Lone(loc[p]) PROVE Unique(w)
    BY <1>1, <1>4, <1>5 DEF Lone, ApartWork, Dead
  <1>6. Lone(loc[p]) => Lone(l)
    BY <1>1, <1>2, <1>3, <1>4, <1>5, QuietMoveLone
  <1>7. Lone(loc[p]) => Lone(l)'
    BY <1>3, <1>6, LoneStill
  <1>8. overlaps' = 0 => overlaps = 0 /\ Mine(p)
    BY <1>3, <1>4 DEF Mine
  <1> QED BY <1>1, <1>2, <1>3, <1>7, <1>8, LoneTurns

LEMMA WorkDeadTruncateLone ==
    ASSUME Whole, Whole', KeepsInv, ApartInv, NEW p \in Procs, NEW i \in DOMAIN loc[p].phase, WorkDeadTruncate(p, i)
    PROVE  ApartInv'
  <1>1. PICK l : l = Moved(loc[p], i, "dl_write", loc[p].q[i], loc[p].dl[i])
    OBVIOUS
  <1>2. loc' = [loc EXCEPT ![p] = l]
    BY <1>1, WorkDeadTruncateMove
  <1>3. /\ l.pc = "work" /\ Ids(l.q) = Ids(loc[p].q) /\ (Unique(loc[p].q) => Unique(l.q))
        /\ DOMAIN l.phase = DOMAIN loc[p].phase /\ DOMAIN l.q = DOMAIN loc[p].q /\ i \in DOMAIN l.q
        /\ l.phase[i] = "dl_write" /\ l.q[i] = loc[p].q[i] /\ l.dl[i] = loc[p].dl[i]
        /\ \A k \in DOMAIN l.phase : k # i => l.phase[k] = loc[p].phase[k] /\ l.dl[k] = loc[p].dl[k]
        /\ \A k \in DOMAIN l.q : k # i => l.q[k] = loc[p].q[k]
    <2>1. Follows(loc[p], l, i, "dl_write", loc[p].q[i], loc[p].dl[i])
      BY <1>1, CandidateMoves
    <2> QED BY <2>1 DEF Follows
  <1>4. /\ UNCHANGED <<submitted, overlaps, crashes, tornCrash, orphaned>> /\ loc[p].phase[i] = "dl_save"
        /\ file'["dlq"] = Torn /\ file'["queue"] = file["queue"]
    BY DEF WorkDeadTruncate, faults, Whole, TypeInv, Files
  <1>5. loc[p].pc = "work" /\ DOMAIN loc[p].phase \subseteq DOMAIN loc[p].q
    BY CandidateItem DEF Whole, TypeInv, LocalOk
  <1>6. ASSUME Good(loc[p]), Lone(loc[p]) PROVE Lone(l)'
    <2>1. \A k \in DOMAIN l.phase : k # i => l.phase[k] \in {"todo", "fin"}
      BY <1>3, <1>4, <1>5, <1>6 DEF Good, CoversWork
    <2>2. Saving(l) = {i} /\ Saving(loc[p]) = {}
      BY <1>3, <1>4, <2>1 DEF Saving
    <2>3. Dead(loc[p]) = DIds
      BY <2>2 DEF Dead
    <2>4. QIds' = QIds /\ DIds' = {} /\ Load("dlq")' = <<>>
      BY <1>4 DEF QIds, DIds, Load, Ids
    <2>5. Saving(l)' = {i} /\ Dead(l)' = Ids(loc[p].dl[i])
      BY <1>3, <2>2, <2>4 DEF Saving, Dead
    <2>6. /\ Unique(loc[p].q) /\ Ids(loc[p].q) \subseteq 1 .. submitted /\ QIds \subseteq 1 .. submitted
          /\ \A k \in DOMAIN loc[p].q : loc[p].q[k].st # "dead-letter" => loc[p].q[k].id \notin DIds
          /\ Unique(loc[p].dl[i]) /\ Ids(loc[p].dl[i]) \subseteq 1 .. submitted
          /\ Ids(loc[p].dl[i]) = DIds \cup {loc[p].q[i].id}
      BY <1>4, <1>5, <1>6, <2>2, <2>3 DEF Lone, Apart, ApartWork
    <2>7. Apart(l)'
      BY <1>3, <1>4, <2>4, <2>6 DEF Apart
    <2>8. \A k \in DOMAIN l.q : l.q[k].st # "dead-letter" /\ k # i => l.q[k].id \notin Dead(l)'
      BY <1>3, <1>5, <2>5, <2>6 DEF Unique
    <2>9. Unique(l.q)' /\ Unique(Load("dlq"))' /\ Ids(l.q)' \subseteq 1 .. submitted'
      BY <1>3, <1>4, <2>4, <2>6 DEF Unique, Ids
    <2>10. \A k \in DOMAIN l.phase :
              /\ l.phase[k] \in {"dl_save", "dl_write"} =>
                    Unique(l.dl[k])' /\ Ids(l.dl[k])' \subseteq 1 .. submitted'
              /\ l.phase[k] # "dl_save"
      BY <1>3, <1>4, <2>1, <2>6 DEF Unique, Ids
    <2>11. ApartWork(l)'
      BY <2>5, <2>8, <2>9, <2>10 DEF ApartWork
    <2> QED BY <2>7, <2>11 DEF Lone
  <1>7. overlaps' = 0 => overlaps = 0 /\ Mine(p)
    BY <1>4, <1>5 DEF Mine
  <1> QED BY <1>2, <1>4, <1>6, <1>7, LoneTurns

LEMMA WorkDeadWriteLone ==
    ASSUME Whole, Whole', KeepsInv, ApartInv, NEW p \in Procs, NEW i \in DOMAIN loc[p].phase, WorkDeadWrite(p, i)
    PROVE  ApartInv'
  <1>1. PICK x : /\ x.id = loc[p].q[i].id /\ x.st = "dead-letter"
                 /\ loc' = [loc EXCEPT ![p] = Moved(loc[p], i, "fin", x, <<>>)]
    BY WorkDeadWriteMove
  <1>2. PICK l : l = Moved(loc[p], i, "fin", x, <<>>)
    OBVIOUS
  <1>3. /\ l.pc = "work" /\ Ids(l.q) = Ids(loc[p].q) /\ (Unique(loc[p].q) => Unique(l.q))
        /\ DOMAIN l.phase = DOMAIN loc[p].phase /\ DOMAIN l.q = DOMAIN loc[p].q /\ i \in DOMAIN l.q
        /\ l.phase[i] = "fin" /\ l.q[i] = x
        /\ \A k \in DOMAIN l.phase : k # i => l.phase[k] = loc[p].phase[k] /\ l.dl[k] = loc[p].dl[k]
        /\ \A k \in DOMAIN l.q : k # i => l.q[k] = loc[p].q[k]
    <2>1. Follows(loc[p], l, i, "fin", x, <<>>)
      BY <1>1, <1>2, CandidateMoves
    <2> QED BY <2>1 DEF Follows
  <1>4. /\ UNCHANGED <<submitted, overlaps, crashes, tornCrash, orphaned>> /\ loc[p].phase[i] = "dl_write"
        /\ file'["dlq"] = loc[p].dl[i] /\ file'["queue"] = file["queue"]
    BY DEF WorkDeadWrite, faults, Whole, TypeInv, Files
  <1>5. /\ loc[p].pc = "work" /\ DOMAIN loc[p].phase \subseteq DOMAIN loc[p].q
        /\ loc[p].dl[i] \in Seq(Item)
    BY CandidateItem DEF Whole, TypeInv, LocalOk
  <1>6. ASSUME Good(loc[p]), Lone(loc[p]) PROVE Lone(l)'
    <2>1. \A k \in DOMAIN l.phase : l.phase[k] \in {"todo", "fin"}
      BY <1>3, <1>4, <1>5, <1>6 DEF Good, CoversWork
    <2>2. Saving(l) = {} /\ Saving(loc[p]) = {i}
      BY <1>3, <1>4, <2>1 DEF Saving
    <2>3. file["dlq"] = Torn /\ file["queue"] # Torn
      BY <1>5, <1>6, <2>2 DEF Good, Untorn
    <2>4. QIds' = QIds /\ Load("dlq")' = loc[p].dl[i] /\ DIds' = Ids(loc[p].dl[i]) /\ DIds = {}
      BY <1>4, <1>5, <2>3, QueueAssumption DEF QIds, DIds, Load, Ids
    <2>5. Saving(l)' = {} /\ Dead(l)' = Ids(loc[p].dl[i]) /\ Dead(loc[p]) = Ids(loc[p].dl[i])
      BY <2>2, <2>4 DEF Saving, Dead
    <2>6. /\ Unique(loc[p].q) /\ Ids(loc[p].q) \subseteq 1 .. submitted /\ QIds \subseteq 1 .. submitted
          /\ \A k \in DOMAIN loc[p].q : loc[p].q[k].st # "dead-letter" /\ k # i => loc[p].q[k].id \notin Dead(loc[p])
          /\ Unique(loc[p].dl[i]) /\ Ids(loc[p].dl[i]) \subseteq 1 .. submitted
      BY <1>4, <1>5, <1>6, <2>2 DEF Lone, Apart, ApartWork
    <2>7. Apart(l)'
      BY <1>3, <1>4, <2>4, <2>6 DEF Apart
    <2>8. \A k \in DOMAIN l.q : l.q[k].st # "dead-letter" => l.q[k].id \notin Dead(l)'
      BY <1>1, <1>3, <2>5, <2>6
    <2>9. Unique(l.q)' /\ Unique(Load("dlq"))' /\ Ids(l.q)' \subseteq 1 .. submitted'
      BY <1>3, <1>4, <2>4, <2>6 DEF Unique, Ids
    <2>10. ApartWork(l)'
      BY <2>1, <2>5, <2>8, <2>9 DEF ApartWork
    <2> QED BY <2>7, <2>10 DEF Lone
  <1>7. overlaps' = 0 => overlaps = 0 /\ Mine(p)
    BY <1>4, <1>5 DEF Mine
  <1> QED BY <1>1, <1>2, <1>4, <1>6, <1>7, LoneTurns

LEMMA ApartStep == Workers = 1 /\ Whole /\ Whole' /\ KeepsInv /\ ApartInv /\ [Next]_vars => ApartInv'
  <1> SUFFICES ASSUME Workers = 1, Whole, Whole', KeepsInv, ApartInv, [Next]_vars PROVE ApartInv'
    OBVIOUS
  <1>1. ASSUME NEW p \in Procs, SubmitLoad(p) PROVE ApartInv'
    BY <1>1, SubmitLone
  <1>2. ASSUME NEW p \in Procs, RetryLoadDlq(p) PROVE ApartInv'
    BY <1>2, RetryLoadDlqLone
  <1>3. ASSUME NEW p \in Procs, NEW avail \in SUBSET Jobs, DrainLoad(p, avail) PROVE ApartInv'
    BY <1>3, DrainLoadLone
  <1>4. ASSUME NEW p \in Procs, Drain(p) PROVE ApartInv'
    BY <1>4, DrainDoneLone, WorkStartLone, WorkEndLone, WorkDeadLoadLone, WorkDeadTruncateLone,
       WorkDeadWriteLone DEF Drain
  <1>5. ASSUME NEW p \in Procs, RetryLoadQueue(p) \/ Truncate(p) \/ WriteDlq(p) \/ WriteQueue(p)
        PROVE  ApartInv'
    BY <1>5, RetryLoadQueueLone, TruncateLone, WriteDlqLone, WriteQueueLone
  <1>6. ASSUME NEW p \in Procs, Crash(p) PROVE ApartInv'
    BY <1>6, CrashLone
  <1>7. CASE UNCHANGED vars
    <2>1. UNCHANGED <<file, submitted>> /\ UNCHANGED <<loc, overlaps, crashes, tornCrash, orphaned>>
      BY <1>7 DEF vars, faults
    <2>2. ASSUME NEW p \in Procs, Lone(loc[p]) PROVE Lone(loc[p])'
      <3>1. PICK k : k = loc'[p] /\ k = loc[p]
        BY <2>1
      <3> QED BY <2>1, <2>2, <3>1, LoneStill, LoneNext
    <2> QED BY <2>1, <2>2 DEF ApartInv, NoTraces, Mine, AllIdle
  <1> QED BY <1>1, <1>2, <1>3, <1>4, <1>5, <1>6, <1>7 DEF Next, Step

LEMMA InitApart == Init => ApartInv
  <1> SUFFICES ASSUME Init PROVE ApartInv
    OBVIOUS
  <1>1. \A p \in Procs : loc[p] = Idle
    BY DEF Init
  <1>2. Load("queue") = <<>> /\ Load("dlq") = <<>>
    BY DEF Init, Files, Load
  <1>3. QIds = {} /\ DIds = {} /\ Unique(<<>>)
    BY <1>2 DEF QIds, DIds, Ids, Unique
  <1>4. Lone(Idle)
    BY <1>2, <1>3 DEF Lone, Apart, ApartWork, Idle
  <1> QED BY <1>1, <1>4 DEF ApartInv, NoTraces, Init

(* One entry with the id, in one file: one place.                          *)
LEMMA OnePlace ==
    ASSUME NEW j, j \in QIds \cup DIds, QIds \cap DIds = {}, Unique(Load("queue")), Unique(Load("dlq"))
    PROVE  Cardinality(Places(j)) = 1
  <1>1. PICK f \in Files : j \in Ids(Load(f))
    BY DEF QIds, DIds, Files
  <1>2. PICK i \in DOMAIN Load(f) : Load(f)[i].id = j
    BY <1>1 DEF Ids
  <1>3. \A g \in Files : g # f => j \notin Ids(Load(g))
    BY <1>1 DEF QIds, DIds, Files
  <1>4. \A g \in Files : {k \in DOMAIN Load(g) : Load(g)[k].id = j} = IF g = f THEN {i} ELSE {}
    <2> TAKE g \in Files
    <2>1. CASE g = f
      BY <1>2, <2>1 DEF Unique, Files
    <2>2. CASE g # f
      BY <1>3, <2>2 DEF Ids
    <2> QED BY <2>1, <2>2
  <1>5. Places(j) = {<<f, i>>}
    <2>1. \A g \in Files : {<<g, k>> : k \in {m \in DOMAIN Load(g) : Load(g)[m].id = j}} =
                              IF g = f THEN {<<f, i>>} ELSE {}
      BY <1>4
    <2> QED BY <1>1, <2>1 DEF Places
  <1> QED BY <1>5, FS_Singleton

(* Operations that take turns, with one worker and no crash, neither lose  *)
(* nor duplicate an accepted job: it is in queue.json or dead_letter.json, *)
(* once (queue.py enqueue_job and retry_queue_item, drain.py).             *)
THEOREM OnePlaceEach ==
    ASSUME Workers = 1
    PROVE  Spec => []ExactlyOnePlace
  <1> DEFINE I == Whole /\ JobInv /\ KeepsInv /\ ApartInv
  <1>1. I /\ [Next]_vars => I'
    BY NextStep, JobStep, KeepsStep, ApartStep
  <1>2. I => ExactlyOnePlace
    <2> SUFFICES ASSUME I, AllIdle, overlaps = 0, crashes = 0, NEW j \in accepted
                 PROVE  Cardinality(Places(j)) = 1
      BY DEF ExactlyOnePlace
    <2>1. PICK p \in Procs : TRUE
      BY QueueAssumption
    <2>2. ~tornCrash /\ orphaned = {} /\ Lone(loc[p]) /\ Good(loc[p]) /\ loc[p].pc = "idle"
      BY DEF ApartInv, NoTraces, KeepsInv, Mine, AllIdle
    <2>3. j \in QIds \cup DIds
      BY <2>2 DEF Good, Covers, Kept
    <2>4. QIds \cap DIds = {} /\ Unique(Load("queue")) /\ Unique(Load("dlq"))
      BY <2>2 DEF Lone, Apart
    <2> QED BY <2>3, <2>4, OnePlace
  <1>3. Init => I
    BY InitWhole, InitKeeps, InitApart
  <1> HIDE DEF I
  <1> QED BY <1>1, <1>2, <1>3, PTL DEF Spec
-----------------------------------------------------------------------------
(* How often a job runs.  A file or a list in memory may hold a job more   *)
(* than once: Copies, and those that are no dead letters.  Chances are the *)
(* runs that an item is good for until it is done or a dead letter, and    *)
(* Left holds one pair for each of them, of all copies of a job.           *)
Chances(x) ==
    IF x.st \in {"queued", "retry"} THEN IF x.att < MaxAtt THEN MaxAtt - x.att ELSE 1
    ELSE IF x.st = "running" /\ x.att < MaxAtt THEN MaxAtt - x.att ELSE 0

Copies(s, j) == {i \in DOMAIN s : s[i].id = j}
Alive(s, j)  == {i \in Copies(s, j) : s[i].st # "dead-letter"}
Left(s, j)   == {t \in (DOMAIN s) \X (1 .. MaxAtt) : s[t[1]].id = j /\ t[2] <= Chances(s[t[1]])}

Count(s, j)  == Cardinality(Copies(s, j))
Tries(s, j)  == Cardinality(Left(s, j))

(* Two to the n are the subsets of n things.                               *)
LEMMA Doubling ==
    ASSUME NEW n \in Nat
    PROVE  2 ^ n \in Nat \ {0} /\ 2 ^ (n + 1) = 2 * 2 ^ n /\ 2 ^ 0 = 1
  <1> DEFINE S == 1 .. n
             T == 1 .. (n + 1)
             A == {U \in SUBSET T : n + 1 \in U}
  <1>1. /\ IsFiniteSet(S) /\ Cardinality(S) = n
        /\ IsFiniteSet(T) /\ Cardinality(T) = n + 1
    BY FS_Interval
  <1>2. /\ IsFiniteSet(SUBSET S) /\ Cardinality(SUBSET S) = 2 ^ n
        /\ IsFiniteSet(SUBSET T) /\ Cardinality(SUBSET T) = 2 ^ (n + 1)
    BY <1>1, FS_SUBSET
  <1>3. SUBSET T = (SUBSET S) \cup A /\ (SUBSET S) \cap A = {}
    <2>1. n + 1 \notin S /\ T = S \cup {n + 1}
      OBVIOUS
    <2> HIDE DEF S, T
    <2>2. \A U \in SUBSET T : U \in A \/ U \in SUBSET S
      BY <2>1
    <2>3. \A U \in SUBSET S : U \in SUBSET T /\ U \notin A
      BY <2>1
    <2>4. A \subseteq SUBSET T
      OBVIOUS
    <2> DEFINE P == SUBSET S
               R == SUBSET T
    <2>5. /\ \A U \in R : U \in A \/ U \in P
          /\ \A U \in P : U \in R /\ U \notin A
          /\ A \subseteq R
      BY <2>2, <2>3, <2>4
    <2> HIDE DEF A, P, R
    <2>6. R = P \cup A /\ P \cap A = {}
      BY <2>5
    <2> QED BY <2>6 DEF P, R
  <1>4. IsFiniteSet(A) /\ Cardinality(A) = Cardinality(SUBSET S)
    <2> DEFINE f == [U \in SUBSET S |-> U \cup {n + 1}]
    <2>1. n + 1 \notin S /\ T = S \cup {n + 1}
      OBVIOUS
    <2> HIDE DEF S, T
    <2>2. f \in [SUBSET S -> A]
      BY <2>1
    <2>3. \A U, V \in SUBSET S : f[U] = f[V] => U = V
      BY <2>1
    <2>4. \A V \in A : \E U \in SUBSET S : f[U] = V
      <3> TAKE V \in A
      <3>1. V \ {n + 1} \in SUBSET S /\ V = (V \ {n + 1}) \cup {n + 1}
        BY <2>1
      <3> QED BY <3>1
    <2>5. f \in Bijection(SUBSET S, A)
      <3> HIDE DEF f
      <3> QED BY <2>2, <2>3, <2>4 DEF Bijection, Injection, Surjection, IsInjective
    <2> QED BY <1>2, <2>5, FS_Bijection DEF ExistsBijection
  <1>5. Cardinality(SUBSET T) = Cardinality(SUBSET S) + Cardinality(A) - Cardinality({})
    BY <1>2, <1>3, <1>4, FS_Union
  <1>6. Cardinality({}) = 0 /\ Cardinality(SUBSET S) \in Nat /\ SUBSET S # {}
    BY <1>2, FS_EmptySet, FS_CardinalityType
  <1>7. Cardinality(SUBSET S) # 0
    BY <1>2, <1>6, FS_EmptySet
  <1>8. 2 ^ 0 = 1
    <2>1. IsFiniteSet({}) /\ Cardinality({}) = 0
      BY FS_EmptySet
    <2>2. Cardinality(SUBSET {}) = 2 ^ 0
      BY <2>1, FS_SUBSET
    <2>3. SUBSET {} = {{}}
      OBVIOUS
    <2> QED BY <2>2, <2>3, FS_Singleton
  <1> HIDE DEF S, T, A
  <1> QED BY <1>2, <1>4, <1>5, <1>6, <1>7, <1>8

LEMMA ChancesType == \A x \in Item : Chances(x) \in 0 .. MaxAtt
  BY QueueAssumption DEF Chances, Item

LEMMA Finite ==
    ASSUME NEW s \in Seq(Item), NEW j
    PROVE  /\ IsFiniteSet(Copies(s, j)) /\ Count(s, j) \in Nat
           /\ IsFiniteSet(Alive(s, j)) /\ Cardinality(Alive(s, j)) \in Nat
           /\ IsFiniteSet(Left(s, j)) /\ Tries(s, j) \in Nat
           /\ Alive(s, j) \subseteq Copies(s, j) /\ Cardinality(Alive(s, j)) <= Count(s, j)
  <1>1. DOMAIN s = 1 .. Len(s) /\ Len(s) \in Nat
    BY LenProperties
  <1>2. IsFiniteSet(DOMAIN s) /\ IsFiniteSet(1 .. MaxAtt)
    BY <1>1, FS_Interval, QueueAssumption
  <1>3. IsFiniteSet((DOMAIN s) \X (1 .. MaxAtt))
    BY <1>2, FS_Product
  <1>4. Left(s, j) \in SUBSET ((DOMAIN s) \X (1 .. MaxAtt)) /\ Copies(s, j) \in SUBSET (DOMAIN s)
        /\ Alive(s, j) \in SUBSET Copies(s, j)
    BY DEF Left, Copies, Alive
  <1>5. IsFiniteSet(Left(s, j)) /\ IsFiniteSet(Copies(s, j))
    BY <1>2, <1>3, <1>4, FS_Subset
  <1>6. IsFiniteSet(Alive(s, j)) /\ Cardinality(Alive(s, j)) <= Cardinality(Copies(s, j))
    BY <1>4, <1>5, FS_Subset
  <1> QED BY <1>4, <1>5, <1>6, FS_CardinalityType DEF Count, Tries

LEMMA NoneOfEmpty == \A j : Count(<<>>, j) = 0 /\ Tries(<<>>, j) = 0
  <1> TAKE j
  <1>1. Copies(<<>>, j) = {} /\ Left(<<>>, j) = {}
    BY DEF Copies, Left
  <1> QED BY <1>1, FS_EmptySet DEF Count, Tries

(* A copy more, with its chances.                                          *)
LEMMA CountAppend ==
    ASSUME NEW s \in Seq(Item), NEW x \in Item, NEW j
    PROVE  /\ Count(Append(s, x), j) = Count(s, j) + (IF x.id = j THEN 1 ELSE 0)
           /\ Tries(Append(s, x), j) = Tries(s, j) + (IF x.id = j THEN Chances(x) ELSE 0)
  <1> DEFINE t == Append(s, x)
             n == Len(s) + 1
             N == {<<n, k>> : k \in 1 .. Chances(x)}
  <1>1. /\ DOMAIN s = 1 .. Len(s) /\ Len(s) \in Nat /\ DOMAIN t = 1 .. n
        /\ \A i \in 1 .. Len(s) : t[i] = s[i]
        /\ t[n] = x
    BY AppendProperties, LenProperties
  <1> HIDE DEF t
  <1>2. DOMAIN t = DOMAIN s \cup {n} /\ n \notin DOMAIN s
    BY <1>1
  <1>3. \A i \in DOMAIN s : t[i] = s[i]
    BY <1>1
  <1>4. Chances(x) \in 0 .. MaxAtt /\ MaxAtt \in Nat
    BY ChancesType, QueueAssumption
  <1> HIDE DEF n
  <1>5. Copies(t, j) = Copies(s, j) \cup (IF x.id = j THEN {n} ELSE {}) /\ n \notin Copies(s, j)
    BY <1>1, <1>2, <1>3 DEF Copies
  <1>6. Count(t, j) = Count(s, j) + (IF x.id = j THEN 1 ELSE 0)
    <2>1. IsFiniteSet(Copies(s, j)) /\ Cardinality(Copies(s, j)) \in Nat
      BY Finite DEF Count
    <2>2. Cardinality(Copies(s, j) \cup {n}) = Cardinality(Copies(s, j)) + 1
      BY <1>5, <2>1, FS_AddElement
    <2>3. CASE x.id = j
      BY <1>5, <2>1, <2>2, <2>3 DEF Count
    <2>4. CASE x.id # j
      <3>1. Copies(t, j) = Copies(s, j)
        BY <1>5, <2>4
      <3> QED BY <2>1, <2>4, <3>1 DEF Count
    <2> QED BY <2>3, <2>4
  <1>7. Left(t, j) = Left(s, j) \cup (IF x.id = j THEN N ELSE {}) /\ Left(s, j) \cap N = {}
    <2>1. \A i, k : <<i, k>> \in Left(t, j) <=>
              i \in DOMAIN t /\ k \in 1 .. MaxAtt /\ t[i].id = j /\ k <= Chances(t[i])
      BY DEF Left
    <2>2. \A i, k : <<i, k>> \in Left(s, j) <=>
              i \in DOMAIN s /\ k \in 1 .. MaxAtt /\ s[i].id = j /\ k <= Chances(s[i])
      BY DEF Left
    <2>3. \A i, k : <<i, k>> \in N <=> i = n /\ k \in 1 .. Chances(x)
      OBVIOUS
    <2>4. \A k : k \in 1 .. MaxAtt /\ k <= Chances(x) <=> k \in 1 .. Chances(x)
      BY <1>4
    <2> DEFINE R == Left(s, j) \cup (IF x.id = j THEN N ELSE {})
    <2>5. \A i, k : <<i, k>> \in Left(t, j) <=> <<i, k>> \in R
      <3> HIDE DEF N
      <3> QED BY <1>1, <1>2, <1>3, <2>1, <2>2, <2>3, <2>4
    <2>6. \A u \in Left(t, j) \cup R : \E i, k : u = <<i, k>>
      BY DEF Left
    <2>7. Left(t, j) = R
      <3> HIDE DEF R
      <3>1. ASSUME NEW u \in Left(t, j) \cup R PROVE u \in Left(t, j) /\ u \in R
        <4>1. PICK i, k : u = <<i, k>>
          BY <2>6
        <4> QED BY <2>5, <4>1
      <3> QED BY <3>1
    <2>8. Left(s, j) \cap N = {}
      BY <1>2 DEF Left
    <2> QED BY <2>7, <2>8
  <1>8. IsFiniteSet(N) /\ Cardinality(N) = Chances(x)
    <2> DEFINE f == [k \in 1 .. Chances(x) |-> <<n, k>>]
    <2>1. f \in Bijection(1 .. Chances(x), N)
      BY DEF Bijection, Injection, Surjection, IsInjective
    <2>2. IsFiniteSet(1 .. Chances(x)) /\ Cardinality(1 .. Chances(x)) = Chances(x)
      BY <1>4, FS_Interval
    <2> HIDE DEF f, N
    <2> QED BY <2>1, <2>2, FS_Bijection DEF ExistsBijection
  <1> HIDE DEF N
  <1>9. Tries(t, j) = Tries(s, j) + (IF x.id = j THEN Chances(x) ELSE 0)
    <2>1. IsFiniteSet(Left(s, j)) /\ Cardinality(Left(s, j)) \in Nat
      BY Finite DEF Tries
    <2>2. CASE x.id = j
      <3>1. Cardinality(Left(s, j) \cup N) = Cardinality(Left(s, j)) + Cardinality(N) - Cardinality({})
        BY <1>7, <1>8, <2>1, FS_Union
      <3> QED BY <1>4, <1>7, <1>8, <2>1, <2>2, <3>1, FS_EmptySet DEF Tries
    <2>3. CASE x.id # j
      BY <1>7, <2>1, <2>3 DEF Tries
    <2> QED BY <2>2, <2>3
  <1> QED BY <1>6, <1>9 DEF t


(* What stands for an item may be worth less, never more.                  *)
Replaced(s, t, i, x) ==
    /\ DOMAIN t = DOMAIN s /\ i \in DOMAIN s /\ t[i] = x /\ x.id = s[i].id
    /\ \A k \in DOMAIN s : k # i => t[k] = s[k]

Cheaper(s, t, i, x, j) ==
    /\ Copies(t, j) = Copies(s, j)
    /\ Tries(t, j) <= Tries(s, j)
    /\ x.id = j /\ Chances(x) < Chances(s[i]) => Tries(t, j) + 1 <= Tries(s, j)

LEMMA ReplaceCounts ==
    ASSUME NEW s \in Seq(Item), NEW t \in Seq(Item), NEW i, NEW x \in Item, Replaced(s, t, i, x),
           Chances(x) <= Chances(s[i]), NEW j
    PROVE  Cheaper(s, t, i, x, j)
  <1>1. \A k \in DOMAIN s : t[k].id = s[k].id /\ Chances(t[k]) <= Chances(s[k])
    <2> TAKE k \in DOMAIN s
    <2>1. CASE k = i
      BY <2>1 DEF Replaced
    <2>2. CASE k # i
      <3>1. t[k] = s[k] /\ s[k] \in Item
        BY <2>2, LenProperties, ElementOfSeq DEF Replaced
      <3>2. Chances(s[k]) \in 0 .. MaxAtt
        BY <3>1, ChancesType
      <3> QED BY <3>1, <3>2, QueueAssumption
    <2> QED BY <2>1, <2>2
  <1>2. \A k \in DOMAIN s : Chances(t[k]) \in Int /\ Chances(s[k]) \in 0 .. MaxAtt
    <2> TAKE k \in DOMAIN s
    <2>1. t[k] \in Item /\ s[k] \in Item
      BY LenProperties, ElementOfSeq DEF Replaced
    <2> QED BY <2>1, ChancesType, QueueAssumption
  <1>3. Copies(t, j) = Copies(s, j)
    BY <1>1 DEF Copies, Replaced
  <1>4. Left(t, j) \subseteq Left(s, j)
    <2> SUFFICES ASSUME NEW u \in Left(t, j) PROVE u \in Left(s, j)
      OBVIOUS
    <2>1. u \in (DOMAIN s) \X (1 .. MaxAtt) /\ s[u[1]].id = j /\ u[2] <= Chances(t[u[1]])
      BY <1>1 DEF Left, Replaced
    <2>2. u[2] \in Int /\ u[1] \in DOMAIN s
      BY <2>1
    <2>3. u[2] <= Chances(s[u[1]])
      BY <1>1, <1>2, <2>1, <2>2
    <2> QED BY <2>1, <2>3 DEF Left
  <1>5. /\ IsFiniteSet(Left(s, j)) /\ Cardinality(Left(s, j)) \in Nat
        /\ IsFiniteSet(Left(t, j)) /\ Cardinality(Left(t, j)) \in Nat
    BY Finite DEF Tries
  <1>6. Tries(t, j) <= Tries(s, j)
    BY <1>4, <1>5, FS_Subset DEF Tries
  <1>7. ASSUME x.id = j, Chances(x) < Chances(s[i]) PROVE Tries(t, j) + 1 <= Tries(s, j)
    <2> DEFINE u == <<i, Chances(s[i])>>
    <2>1. i \in DOMAIN s /\ Chances(s[i]) \in 1 .. MaxAtt /\ t[i] = x /\ s[i].id = j
      <3>1. i \in DOMAIN s /\ t[i] = x /\ s[i].id = j
        BY <1>7 DEF Replaced
      <3> QED BY <1>2, <1>7, <3>1, ChancesType, QueueAssumption
    <2>2. u \in Left(s, j)
      BY <2>1, QueueAssumption DEF Left
    <2>3. u \notin Left(t, j)
      BY <1>7, <2>1, ChancesType DEF Left
    <2>4. Left(t, j) \subseteq Left(s, j) \ {u}
      BY <1>4, <2>3
    <2> HIDE DEF u
    <2>5. IsFiniteSet(Left(s, j) \ {u}) /\ Cardinality(Left(s, j) \ {u}) = Cardinality(Left(s, j)) - 1
      BY <1>5, <2>2, FS_RemoveElement
    <2>6. Cardinality(Left(t, j)) <= Cardinality(Left(s, j) \ {u})
      BY <2>4, <2>5, FS_Subset
    <2> QED BY <1>5, <2>5, <2>6 DEF Tries
  <1> QED BY <1>3, <1>6, <1>7 DEF Cheaper

(* A queue whose items are those of another one, each at its own place.    *)
LEMMA EmbeddedCounts ==
    ASSUME NEW s \in Seq(Item), NEW t \in Seq(Item), NEW f \in [DOMAIN s -> DOMAIN t],
           \A n, m \in DOMAIN s : f[n] = f[m] => n = m, \A n \in DOMAIN s : s[n] = t[f[n]],
           NEW j, NEW E, IsFiniteSet(E), \A n \in Copies(s, j) : f[n] \in E
    PROVE  Tries(s, j) <= Tries(t, j) /\ Count(s, j) <= Cardinality(E)
  <1>1. Count(s, j) <= Cardinality(E)
    <2> DEFINE g == [n \in Copies(s, j) |-> f[n]]
    <2>1. Copies(s, j) \subseteq DOMAIN s
      BY DEF Copies
    <2>2. g \in Injection(Copies(s, j), E)
      BY <2>1 DEF Injection, IsInjective
    <2> HIDE DEF g
    <2> QED BY <2>2, FS_Injection DEF Count
  <1>2. Tries(s, j) <= Tries(t, j)
    <2> DEFINE g == [u \in Left(s, j) |-> <<f[u[1]], u[2]>>]
    <2>1. \A u \in Left(s, j) :
              /\ u = <<u[1], u[2]>> /\ u[1] \in DOMAIN s /\ u[2] \in 1 .. MaxAtt
              /\ s[u[1]].id = j /\ u[2] <= Chances(s[u[1]])
      BY DEF Left
    <2>2. \A u \in Left(s, j) : g[u] \in Left(t, j)
      BY <2>1 DEF Left
    <2>3. \A u, v \in Left(s, j) : g[u] = g[v] => u = v
      <3> SUFFICES ASSUME NEW u \in Left(s, j), NEW v \in Left(s, j), g[u] = g[v] PROVE u = v
        OBVIOUS
      <3>1. f[u[1]] = f[v[1]] /\ u[2] = v[2]
        OBVIOUS
      <3>2. u[1] = v[1]
        BY <2>1, <3>1
      <3> QED BY <2>1, <3>1, <3>2
    <2>4. g \in Injection(Left(s, j), Left(t, j))
      <3>1. g \in [Left(s, j) -> Left(t, j)]
        BY <2>2
      <3> HIDE DEF g
      <3> QED BY <2>3, <3>1 DEF Injection, IsInjective
    <2> HIDE DEF g
    <2> QED BY <2>4, Finite, FS_Injection DEF Tries
  <1> QED BY <1>1, <1>2

LEMMA LiveCounts ==
    ASSUME NEW q \in Seq(Item), NEW j
    PROVE  Tries(Live(q), j) <= Tries(q, j) /\ Count(Live(q), j) <= Cardinality(Alive(q, j))
  <1> DEFINE kept == {i \in DOMAIN q : q[i].st # "dead-letter"}
             At(n) == CHOOSE i \in kept : Rank(kept, i) = n
             N == Cardinality(kept)
             f == [n \in 1 .. N |-> At(n)]
  <1>1. DOMAIN q = 1 .. Len(q) /\ Len(q) \in Nat
    BY LenProperties
  <1>2. kept \in SUBSET Nat /\ kept \in SUBSET (DOMAIN q)
    BY <1>1
  <1>3. IsFiniteSet(kept)
    <2>1. IsFiniteSet(DOMAIN q)
      BY <1>1, FS_Interval
    <2> HIDE DEF kept
    <2> QED BY <1>2, <2>1, FS_Subset
  <1>4. Live(q) = [n \in 1 .. N |-> q[At(n)]]
    BY DEF Live
  <1>5. \A i \in kept : q[i].st # "dead-letter"
    OBVIOUS
  <1> HIDE DEF kept
  <1>6. N \in Nat /\ \A n \in 1 .. N : \E i \in kept : Rank(kept, i) = n
    BY <1>2, <1>3, RanksAreUnique
  <1>7. \A n \in 1 .. N : At(n) \in kept /\ Rank(kept, At(n)) = n
    BY <1>6
  <1> HIDE DEF At, N
  <1>8. /\ DOMAIN Live(q) = 1 .. N /\ f \in [1 .. N -> DOMAIN q]
        /\ \A n \in 1 .. N : f[n] = At(n) /\ Live(q)[n] = q[f[n]] /\ f[n] \in kept
    BY <1>2, <1>4, <1>7
  <1>9. \A n, m \in 1 .. N : f[n] = f[m] => n = m
    BY <1>7, <1>8
  <1> HIDE DEF f
  <1>10. \A n \in Copies(Live(q), j) : f[n] \in Alive(q, j)
    <2> TAKE n \in Copies(Live(q), j)
    <2>1. n \in 1 .. N /\ Live(q)[n].id = j
      BY <1>8 DEF Copies
    <2> QED BY <1>2, <1>5, <1>8, <2>1 DEF Copies, Alive
  <1>11. Live(q) \in Seq(Item) /\ IsFiniteSet(Alive(q, j))
    BY LiveItems, Finite
  <1>12. /\ f \in [DOMAIN Live(q) -> DOMAIN q] /\ \A n \in DOMAIN Live(q) : Live(q)[n] = q[f[n]]
         /\ \A n, m \in DOMAIN Live(q) : f[n] = f[m] => n = m
    BY <1>8, <1>9
  <1>13. PICK l, E : l = Live(q) /\ E = Alive(q, j)
    OBVIOUS
  <1> QED BY <1>10, <1>11, <1>12, <1>13, EmbeddedCounts

LEMMA RemoveCounts ==
    ASSUME NEW s \in Seq(Item), NEW k \in DOMAIN s, NEW j
    PROVE  Count(RemoveAt(s, k), j) + (IF s[k].id = j THEN 1 ELSE 0) <= Count(s, j)
  <1> DEFINE t == RemoveAt(s, k)
             f == [i \in DOMAIN t |-> IF i < k THEN i ELSE i + 1]
  <1>1. DOMAIN s = 1 .. Len(s) /\ Len(s) \in Nat /\ DOMAIN t = 1 .. Len(s) - 1
    BY LenProperties DEF RemoveAt
  <1>2. \A i \in DOMAIN t : t[i] = s[f[i]] /\ f[i] \in DOMAIN s \ {k}
    BY <1>1 DEF RemoveAt
  <1>3. \A i, m \in DOMAIN t : f[i] = f[m] => i = m
    BY <1>1
  <1>4. t \in Seq(Item) /\ f \in [DOMAIN t -> DOMAIN s]
    BY <1>2, RemoveAtType
  <1> HIDE DEF t, f
  <1>5. \A i \in Copies(t, j) : f[i] \in Copies(s, j) \ {k}
    BY <1>2 DEF Copies
  <1>6. IsFiniteSet(Copies(s, j)) /\ Cardinality(Copies(s, j)) \in Nat
    BY Finite DEF Count
  <1>7. /\ IsFiniteSet(Copies(s, j) \ {k})
        /\ Cardinality(Copies(s, j) \ {k}) =
               IF k \in Copies(s, j) THEN Cardinality(Copies(s, j)) - 1 ELSE Cardinality(Copies(s, j))
    BY <1>6, FS_RemoveElement
  <1>8. Count(t, j) <= Cardinality(Copies(s, j) \ {k})
    BY <1>2, <1>3, <1>4, <1>5, <1>7, EmbeddedCounts
  <1>9. k \in Copies(s, j) <=> s[k].id = j
    BY DEF Copies
  <1>10. Count(t, j) \in Nat
    BY <1>4, Finite
  <1> QED BY <1>6, <1>7, <1>8, <1>9, <1>10 DEF t, Count


(* A crash may double the copies of a job: a drain that dies leaves the    *)
(* queue as it was and beside it the dead letters it wrote.  It loses      *)
(* count of one run for each copy in the queue.  A job not submitted yet   *)
(* has no copies and no runs.  Now(j) is all that counts of j's state.     *)
Cap(j)   == IF j <= submitted THEN 2 ^ crashes ELSE 0
Bound(j) == IF j <= submitted THEN MaxAtt + revived[j] + 2 ^ crashes - 1 ELSE 0
Now(j)   == [q |-> Load("queue"), d |-> Load("dlq"), runs |-> runs[j], cap |-> Cap(j), bound |-> Bound(j)]

Ledgers  == [q : Seq(Item), d : Seq(Item), runs : Nat, cap : Nat, bound : Nat]

Once(q, d, m, j)  == m.runs + Tries(q, j) <= m.bound /\ Count(q, j) + Count(d, j) <= m.cap
Twice(q, d, m, j) == m.runs + Tries(q, j) <= m.bound + m.cap /\ Count(q, j) + Count(d, j) <= 2 * m.cap

Begun(l, j) == {i \in DOMAIN l.phase : l.phase[i] # "todo" /\ l.q[i].id = j}

(* Between operations and in a requeue; in the save that ends every        *)
(* operation, where a crash leaves the files as they were; in a drain.     *)
Requeueing(l, m, j) ==
    /\ l.pc \in {"idle", "retry", "save_dlq", "write_dlq"} => Once(m.q, m.d, m, j)
    /\ l.pc = "retry" => Count(m.q, j) + Count(l.d, j) <= m.cap
    /\ l.pc \in {"save_dlq", "write_dlq"} =>
          /\ Count(l.q, j) + Count(l.d, j) <= m.cap
          /\ m.runs + Tries(l.q, j) <= m.bound + (IF j = l.job THEN 1 ELSE 0)

Replacing(l, m, j) ==
    l.pc \in {"save_queue", "write_queue"} => Twice(m.q, m.d, m, j) /\ Once(l.q, m.d, m, j)

Drained(l, m, j) ==
    /\ Copies(l.q, j) = Copies(m.q, j) /\ Count(m.q, j) <= m.cap
    /\ m.runs + Tries(m.q, j) <= m.bound + Cardinality(Begun(l, j))
    /\ m.runs + Tries(l.q, j) <= m.bound
    /\ Cardinality(Alive(l.q, j)) + Count(m.d, j) <= m.cap
    /\ \A i \in DOMAIN l.phase : l.phase[i] \in {"dl_save", "dl_write"} =>
          Count(l.dl[i], j) + Cardinality(Alive(l.q, j) \ {i}) <= m.cap

Draining(l, m, j) == l.pc = "work" => Drained(l, m, j)

Fits(l, m, j) == Requeueing(l, m, j) /\ Replacing(l, m, j) /\ Draining(l, m, j)

Waiting(l) ==
    l.pc = "work" => \A i \in DOMAIN l.phase : l.phase[i] = "todo" => l.q[i].st \in {"queued", "retry"}

Bounded(l) == Waiting(l) /\ \A j \in Jobs : Fits(l, Now(j), j)

BoundInv == overlaps = 0 => AtMostOne /\ \A p \in Procs : Mine(p) => Bounded(loc[p])

LEMMA LimitTypes ==
    ASSUME Whole, NEW j \in Jobs
    PROVE  Cap(j) \in Nat /\ Bound(j) \in Nat /\ runs[j] \in Nat /\ revived[j] \in Nat
  <1>1. crashes \in Nat /\ submitted \in Nat /\ runs[j] \in Nat /\ revived[j] \in Nat /\ MaxAtt \in Nat \ {0}
    BY QueueAssumption DEF Whole, TypeInv
  <1>2. PICK n : n = 2 ^ crashes
    OBVIOUS
  <1>3. n \in Nat \ {0}
    BY <1>1, <1>2, Doubling
  <1>4. Bound(j) = IF j <= submitted THEN MaxAtt + revived[j] + n - 1 ELSE 0
    BY <1>2 DEF Bound
  <1>5. Cap(j) = IF j <= submitted THEN n ELSE 0
    BY <1>2 DEF Cap
  <1> QED BY <1>1, <1>3, <1>4, <1>5

LEMMA NowTypes ==
    ASSUME Whole, NEW j \in Jobs
    PROVE  Now(j) \in Ledgers
  <1>1. Load("queue") \in Seq(Item) /\ Load("dlq") \in Seq(Item)
    BY LoadType DEF Whole, Files
  <1> QED BY <1>1, LimitTypes DEF Now, Ledgers

LEMMA NextTypes ==
    Whole' => (\A j \in Jobs : Now(j) \in Ledgers)'
  <1>1. Whole => \A j \in Jobs : Now(j) \in Ledgers
    BY NowTypes
  <1> QED BY <1>1, PTL

LEMMA NowSame ==
    ASSUME UNCHANGED <<file, submitted, runs, revived, crashes>>
    PROVE  \A j : Now(j)' = Now(j)
  BY DEF Now, Cap, Bound, Load

LEMMA Numbers ==
    \A s \in Seq(Item) : \A j :
        /\ Count(s, j) \in Nat /\ Tries(s, j) \in Nat
        /\ Cardinality(Alive(s, j)) \in Nat /\ Cardinality(Alive(s, j)) <= Count(s, j)
  BY Finite

LEMMA FitsNext ==
    ASSUME NEW r, NEW l, l = loc'[r], NEW j, NEW n, n = Now(j)', Fits(l, n, j)
    PROVE  Fits(loc[r], Now(j), j)'
  <1>1. Requeueing(loc[r], Now(j), j)'
    BY DEF Fits, Requeueing, Once
  <1>2. Replacing(loc[r], Now(j), j)'
    BY DEF Fits, Replacing, Once, Twice
  <1>3. Draining(loc[r], Now(j), j)'
    BY DEF Fits, Draining, Drained
  <1> QED BY <1>1, <1>2, <1>3 DEF Fits

(* An operation that starts or goes on without company.                    *)
LEMMA BoundedTurns ==
    ASSUME Whole, Whole', BoundInv, NEW p \in Procs, NEW l, loc' = [loc EXCEPT ![p] = l],
           overlaps' = 0 => overlaps = 0 /\ Mine(p),
           Waiting(loc[p]) => Waiting(l),
           \A j \in Jobs : Waiting(loc[p]) /\ Fits(loc[p], Now(j), j) => Fits(l, Now(j)', j)
    PROVE  BoundInv'
  <1> SUFFICES ASSUME overlaps' = 0 PROVE AtMostOne' /\ \A r \in Procs : Mine(r)' => Bounded(loc[r])'
    BY DEF BoundInv
  <1>1. \A r \in Procs : loc'[r] = IF r = p THEN l ELSE loc[r]
    BY DEF Whole, TypeInv
  <1>2. AtMostOne /\ Mine(p) /\ Bounded(loc[p])
    BY DEF BoundInv
  <1>3. \A r \in Procs : r # p => loc[r].pc = "idle"
    BY <1>2 DEF AtMostOne, Mine, AllIdle
  <1>4. Waiting(l) /\ \A j \in Jobs : Fits(l, Now(j)', j)
    BY <1>2 DEF Bounded
  <1>5. AtMostOne'
    BY <1>1, <1>3 DEF AtMostOne
  <1>6. ASSUME NEW r \in Procs, Mine(r)' PROVE Bounded(loc[r])'
    <2>1. PICK k : k = loc'[r]
      OBVIOUS
    <2>2. k = l \/ (k.pc = "idle" /\ l.pc = "idle")
      BY <1>1, <1>3, <1>6, <2>1 DEF Mine, AllIdle
    <2>3. ASSUME NEW j \in Jobs PROVE Fits(loc[r], Now(j), j)'
      <3>1. PICK n : n = Now(j)'
        OBVIOUS
      <3>2. Fits(l, n, j)
        BY <1>4, <3>1
      <3>3. Fits(k, n, j)
        BY <2>2, <3>2 DEF Fits, Requeueing, Replacing, Draining
      <3> QED BY <2>1, <3>1, <3>3, FitsNext
    <2>4. Waiting(loc[r])'
      BY <1>4, <2>1, <2>2 DEF Waiting
    <2> QED BY <2>3, <2>4 DEF Bounded
  <1> QED BY <1>5, <1>6


(* The operations that start.                                              *)
LEMMA SubmitBounded ==
    ASSUME Whole, Whole', BoundInv, NEW p \in Procs, SubmitLoad(p) PROVE BoundInv'
  <1>1. PICK s : s = submitted'
    OBVIOUS
  <1>2. s \in Jobs /\ s = submitted + 1 /\ submitted \in Nat
    BY <1>1, QueueAssumption DEF SubmitLoad, Whole, TypeInv, Jobs
  <1> DEFINE q == Append(Load("queue"), NewItem(s))
  <1>3. PICK l : l = [Idle EXCEPT !.pc = "save_queue", !.q = q, !.job = s]
    OBVIOUS
  <1>4. loc' = [loc EXCEPT ![p] = l] /\ UNCHANGED <<file, runs, revived, crashes>>
    BY <1>1, <1>3 DEF SubmitLoad, faults
  <1>5. l.pc = "save_queue" /\ l.q = q
    BY <1>3 DEF Idle
  <1>6. NewItem(s) \in Item /\ NewItem(s).id = s /\ Chances(NewItem(s)) = MaxAtt
    BY <1>2, NewItemType, QueueAssumption DEF NewItem, Chances
  <1>7. loc[p].pc = "idle" /\ (overlaps' = 0 => overlaps = 0 /\ Mine(p))
    BY StartAlone DEF SubmitLoad
  <1>8. ASSUME NEW j \in Jobs, Fits(loc[p], Now(j), j) PROVE Fits(l, Now(j)', j)
    <2>1. PICK m, n : m = Now(j) /\ n = Now(j)'
      OBVIOUS
    <2>2. /\ m \in Ledgers
          /\ n \in Ledgers
      BY <2>1, NowTypes, NextTypes
    <2>3. n.q = m.q /\ n.d = m.d /\ n.runs = m.runs /\ m.q = Load("queue")
      BY <1>4, <2>1 DEF Now, Load
    <2>4. Once(m.q, m.d, m, j)
      BY <1>7, <1>8, <2>1 DEF Fits, Requeueing
    <2>5. /\ Count(q, j) = Count(m.q, j) + (IF s = j THEN 1 ELSE 0)
          /\ Tries(q, j) = Tries(m.q, j) + (IF s = j THEN MaxAtt ELSE 0)
      BY <1>6, <2>2, <2>3, CountAppend DEF Ledgers
    <2>6. /\ Count(m.q, j) \in Nat /\ Tries(m.q, j) \in Nat /\ Count(m.d, j) \in Nat
      BY <2>2, Numbers DEF Ledgers
    <2>7. CASE j # s
      <3>1. n.cap = m.cap /\ n.bound = m.bound
        <4>1. j <= submitted' <=> j <= submitted
          BY <1>1, <1>2, <2>7 DEF Jobs
        <4>2. Cap(j)' = Cap(j) /\ Bound(j)' = Bound(j)
          BY <1>4, <4>1 DEF Cap, Bound
        <4> QED BY <2>1, <4>2 DEF Now
      <3>2. Twice(n.q, n.d, n, j) /\ Once(q, n.d, n, j)
        BY <2>2, <2>3, <2>4, <2>5, <2>6, <2>7, <3>1 DEF Once, Twice, Ledgers
      <3> QED BY <1>5, <2>1, <3>2 DEF Fits, Requeueing, Replacing, Draining
    <2>8. CASE j = s
      <3>1. PICK c, v : c = 2 ^ crashes /\ v = revived[j]
        OBVIOUS
      <3>2. c \in Nat \ {0} /\ v \in Nat /\ MaxAtt \in Nat
        BY <3>1, Doubling, QueueAssumption DEF Whole, TypeInv
      <3>3. m.cap = 0 /\ m.bound = 0
        BY <1>2, <2>1, <2>8 DEF Now, Cap, Bound
      <3>4. n.cap = c /\ n.bound = MaxAtt + v + c - 1
        BY <1>1, <1>4, <2>1, <2>8, <3>1 DEF Now, Cap, Bound, Jobs
      <3>5. Twice(n.q, n.d, n, j) /\ Once(q, n.d, n, j)
        BY <2>2, <2>3, <2>4, <2>5, <2>6, <2>8, <3>2, <3>3, <3>4 DEF Once, Twice, Ledgers
      <3> QED BY <1>5, <2>1, <3>5 DEF Fits, Requeueing, Replacing, Draining
    <2> QED BY <2>7, <2>8
  <1>9. Waiting(l)
    BY <1>5 DEF Waiting
  <1> QED BY <1>4, <1>7, <1>8, <1>9, BoundedTurns

LEMMA RetryLoadDlqBounded ==
    ASSUME Whole, Whole', BoundInv, NEW p \in Procs, RetryLoadDlq(p) PROVE BoundInv'
  <1>1. PICK a \in accepted :
            loc' = [loc EXCEPT ![p] = [Idle EXCEPT !.pc = "retry", !.d = Load("dlq"), !.job = a]]
    BY DEF RetryLoadDlq
  <1>2. PICK l : l = [Idle EXCEPT !.pc = "retry", !.d = Load("dlq"), !.job = a]
    OBVIOUS
  <1>3. UNCHANGED <<file, submitted, runs, revived, crashes>>
    BY DEF RetryLoadDlq, faults
  <1>4. l.pc = "retry" /\ l.d = Load("dlq")
    BY <1>2 DEF Idle
  <1>5. loc[p].pc = "idle" /\ (overlaps' = 0 => overlaps = 0 /\ Mine(p))
    BY StartAlone DEF RetryLoadDlq
  <1>6. ASSUME NEW j \in Jobs, Fits(loc[p], Now(j), j) PROVE Fits(l, Now(j)', j)
    <2>1. PICK m : m = Now(j) /\ m = Now(j)' /\ l.d = m.d
      <3>1. Now(j).d = l.d
        BY <1>4 DEF Now
      <3> QED BY <1>3, <3>1, NowSame
    <2>2. Once(m.q, m.d, m, j)
      BY <1>5, <1>6, <2>1 DEF Fits, Requeueing
    <2>3. Fits(l, m, j)
      BY <1>4, <2>1, <2>2 DEF Once, Fits, Requeueing, Replacing, Draining
    <2> QED BY <2>1, <2>3
  <1>7. Waiting(l)
    BY <1>4 DEF Waiting
  <1>8. loc' = [loc EXCEPT ![p] = l]
    BY <1>1, <1>2
  <1> QED BY <1>5, <1>6, <1>7, <1>8, BoundedTurns

LEMMA DrainLoadBounded ==
    ASSUME Whole, Whole', BoundInv, NEW p \in Procs, NEW avail, DrainLoad(p, avail) PROVE BoundInv'
  <1> DEFINE q == Load("queue")
             taken == {i \in Candidates(q, avail) : runs[q[i].id] < MaxRuns}
  <1>1. PICK l : l = [Idle EXCEPT !.pc = "work", !.q = q, !.phase = [i \in taken |-> "todo"],
                                  !.dl = [i \in taken |-> <<>>]]
    OBVIOUS
  <1>2. loc' = [loc EXCEPT ![p] = l]
    BY <1>1 DEF DrainLoad
  <1>3. UNCHANGED <<file, submitted, runs, revived, crashes>>
    BY DEF DrainLoad, faults
  <1>4. \A i \in taken : q[i].st \in {"queued", "retry"}
    BY DEF Candidates, Eligible
  <1> HIDE DEF taken
  <1>5. /\ l.pc = "work" /\ l.q = Load("queue") /\ DOMAIN l.phase = taken
        /\ \A i \in DOMAIN l.phase : l.phase[i] = "todo"
    BY <1>1 DEF Idle
  <1>6. Waiting(l)
    BY <1>4, <1>5 DEF Waiting
  <1>7. loc[p].pc = "idle" /\ (overlaps' = 0 => overlaps = 0 /\ Mine(p))
    BY StartAlone DEF DrainLoad
  <1>8. ASSUME NEW j \in Jobs, Fits(loc[p], Now(j), j) PROVE Fits(l, Now(j)', j)
    <2>1. PICK m : m = Now(j) /\ m = Now(j)' /\ l.q = m.q
      <3>1. Now(j).q = l.q
        BY <1>5 DEF Now
      <3> QED BY <1>3, <3>1, NowSame
    <2>2. m \in Ledgers
      BY <2>1, NowTypes
    <2>3. Once(m.q, m.d, m, j)
      BY <1>7, <1>8, <2>1 DEF Fits, Requeueing
    <2>4. /\ Count(m.q, j) \in Nat /\ Tries(m.q, j) \in Nat /\ Count(m.d, j) \in Nat
          /\ Cardinality(Alive(m.q, j)) \in Nat /\ Cardinality(Alive(m.q, j)) <= Count(m.q, j)
      BY <2>2, Numbers DEF Ledgers
    <2>5. Begun(l, j) = {}
      BY <1>5 DEF Begun
    <2>6. Cardinality(Begun(l, j)) = 0
      BY <2>5, FS_EmptySet
    <2>7. Drained(l, m, j)
      BY <1>5, <2>1, <2>2, <2>3, <2>4, <2>6 DEF Drained, Once, Ledgers
    <2> QED BY <1>5, <2>1, <2>7 DEF Fits, Requeueing, Replacing, Draining
  <1> QED BY <1>2, <1>6, <1>7, <1>8, BoundedTurns

(* The requeue that found its item at place k: one more chance.            *)
LEMMA RequeuedBounded ==
    ASSUME Whole, NEW p \in Procs, loc[p].pc = "retry", NEW j \in Jobs,
           NEW k \in DOMAIN loc[p].d, loc[p].d[k].id = loc[p].job, NEW l,
           l = [loc[p] EXCEPT !.pc = "save_dlq",
                    !.q = Append(Load("queue"), [loc[p].d[k] EXCEPT !.st = "queued"]),
                    !.d = RemoveAt(loc[p].d, k)],
           Fits(loc[p], Now(j), j)
    PROVE  Fits(l, Now(j), j)
  <1> DEFINE x == [loc[p].d[k] EXCEPT !.st = "queued"]
  <1>1. LocalOk(loc[p]) /\ LocalSettled(loc[p]) /\ loc[p].d \in Seq(Item)
    BY DEF Whole, TypeInv, SettledInv, LocalOk, Locals
  <1>2. loc[p].d[k] \in Item /\ loc[p].d[k].att >= MaxAtt
    BY <1>1, ElementOfSeq, LenProperties DEF LocalSettled, InDlq
  <1>3. x \in Item /\ x.id = loc[p].job /\ Chances(x) = 1
    BY <1>2, QueueAssumption DEF Item, Chances
  <1>4. l = [loc[p] EXCEPT !.pc = "save_dlq", !.q = Append(Load("queue"), x), !.d = RemoveAt(loc[p].d, k)]
    OBVIOUS
  <1> HIDE DEF x
  <1>5. PICK m : m = Now(j) /\ m.q = Load("queue")
    BY DEF Now
  <1>6. m \in Ledgers
    BY <1>5, NowTypes
  <1>7. l.pc = "save_dlq" /\ l.q = Append(m.q, x) /\ l.d = RemoveAt(loc[p].d, k) /\ l.job = loc[p].job
    BY <1>1, <1>4, <1>5 DEF LocalOk, Locals
  <1>8. Once(m.q, m.d, m, j) /\ Count(m.q, j) + Count(loc[p].d, j) <= m.cap
    BY <1>5 DEF Fits, Requeueing
  <1>9. /\ Count(l.q, j) = Count(m.q, j) + (IF x.id = j THEN 1 ELSE 0)
        /\ Tries(l.q, j) = Tries(m.q, j) + (IF x.id = j THEN 1 ELSE 0)
    <2>1. m.q \in Seq(Item) /\ x \in Item
      BY <1>3, <1>6 DEF Ledgers
    <2>2. /\ Count(Append(m.q, x), j) = Count(m.q, j) + (IF x.id = j THEN 1 ELSE 0)
          /\ Tries(Append(m.q, x), j) = Tries(m.q, j) + (IF x.id = j THEN Chances(x) ELSE 0)
      BY <2>1, CountAppend
    <2> QED BY <1>3, <1>7, <2>2
  <1>10. Count(l.d, j) + (IF x.id = j THEN 1 ELSE 0) <= Count(loc[p].d, j)
    BY <1>1, <1>3, <1>7, RemoveCounts
  <1>11. /\ Count(m.q, j) \in Nat /\ Tries(m.q, j) \in Nat /\ Count(loc[p].d, j) \in Nat
         /\ Count(l.d, j) \in Nat
    BY <1>1, <1>6, <1>7, Numbers, RemoveAtType DEF Ledgers
  <1>12. /\ Count(l.q, j) + Count(l.d, j) <= m.cap
         /\ m.runs + Tries(l.q, j) <= m.bound + (IF j = l.job THEN 1 ELSE 0)
    <2>1. x.id = j <=> j = l.job
      BY <1>3, <1>7
    <2>2. m.runs \in Nat /\ m.cap \in Nat /\ m.bound \in Nat
      BY <1>6 DEF Ledgers
    <2> QED BY <1>8, <1>9, <1>10, <1>11, <2>1, <2>2 DEF Once
  <1> QED BY <1>5, <1>7, <1>8, <1>12 DEF Fits, Requeueing, Replacing, Draining

LEMMA RetryLoadQueueBounded ==
    ASSUME Whole, Whole', BoundInv, NEW p \in Procs, RetryLoadQueue(p) PROVE BoundInv'
  <1>1. /\ UNCHANGED <<file, submitted, runs, revived, crashes, overlaps>> /\ loc[p].pc = "retry"
        /\ DOMAIN loc = Procs
    BY DEF RetryLoadQueue, faults, Whole, TypeInv
  <1>2. PICK l : /\ loc' = [loc EXCEPT ![p] = l] /\ Waiting(l)
                 /\ \A j \in Jobs : Fits(loc[p], Now(j), j) => Fits(l, Now(j), j)
    <2>1. CASE loc' = [loc EXCEPT ![p] = Idle]
      <3>1. Waiting(Idle) /\ \A j \in Jobs : Fits(loc[p], Now(j), j) => Fits(Idle, Now(j), j)
        BY <1>1, IdleOk DEF Waiting, Fits, Requeueing, Replacing, Draining
      <3> QED BY <2>1, <3>1
    <2>2. CASE loc' # [loc EXCEPT ![p] = Idle]
      <3>1. PICK k \in DOMAIN loc[p].d :
                /\ loc[p].d[k].id = loc[p].job
                /\ loc' = [loc EXCEPT ![p].pc = "save_dlq",
                                      ![p].q  = Append(Load("queue"), [loc[p].d[k] EXCEPT !.st = "queued"]),
                                      ![p].d  = RemoveAt(loc[p].d, k)]
        BY <2>2 DEF RetryLoadQueue
      <3>2. PICK l : l = [loc[p] EXCEPT !.pc = "save_dlq",
                              !.q = Append(Load("queue"), [loc[p].d[k] EXCEPT !.st = "queued"]),
                              !.d = RemoveAt(loc[p].d, k)]
        OBVIOUS
      <3>3. loc' = [loc EXCEPT ![p] = l]
        BY <1>1, <3>1, <3>2
      <3>4. \A j \in Jobs : Fits(loc[p], Now(j), j) => Fits(l, Now(j), j)
        BY <1>1, <3>1, <3>2, RequeuedBounded
      <3>5. l.pc = "save_dlq"
        BY <3>2 DEF Whole, TypeInv, LocalOk, Locals
      <3> QED BY <3>3, <3>4, <3>5 DEF Waiting
    <2> QED BY <2>1, <2>2
  <1>3. overlaps' = 0 => overlaps = 0 /\ Mine(p)
    BY <1>1 DEF Mine
  <1>4. ASSUME NEW j \in Jobs, Fits(loc[p], Now(j), j) PROVE Fits(l, Now(j)', j)
    <2>1. PICK m : m = Now(j) /\ m = Now(j)'
      BY <1>1, NowSame
    <2>2. Fits(l, m, j)
      BY <1>2, <1>4, <2>1
    <2> QED BY <2>1, <2>2
  <1> QED BY <1>2, <1>3, <1>4, BoundedTurns


-----------------------------------------------------------------------------
(* A candidate that moves on: its item may be worth fewer chances, one     *)
(* fewer if it ran.                                                        *)
LEMMA AliveMoves ==
    ASSUME NEW s, NEW t, NEW i, NEW x, Replaced(s, t, i, x), s[i].st # "dead-letter", NEW j
    PROVE  Alive(t, j) = IF x.st = "dead-letter" THEN Alive(s, j) \ {i} ELSE Alive(s, j)
  BY DEF Replaced, Alive, Copies

LEMMA CandidateReplaced ==
    ASSUME Whole, NEW p \in Procs, NEW i \in DOMAIN loc[p].phase,
           NEW s, NEW x \in Item, NEW w, x.id = loc[p].q[i].id,
           NEW l, l = Moved(loc[p], i, s, x, w)
    PROVE  Replaced(loc[p].q, l.q, i, x) /\ loc[p].q \in Seq(Item) /\ l.q \in Seq(Item)
  <1>1. Follows(loc[p], l, i, s, x, w)
    BY CandidateMoves
  <1>2. /\ loc[p] \in Locals /\ loc[p].q \in Seq(Item) /\ i \in DOMAIN loc[p].q
        /\ DOMAIN loc[p].q = 1 .. Len(loc[p].q)
    BY CandidateItem, LenProperties
  <1>3. l.q = [loc[p].q EXCEPT ![i] = x]
    BY <1>2 DEF Moved, Locals
  <1>4. l.q \in Seq(Item)
    BY <1>2, <1>3, ExceptSeq
  <1> QED BY <1>1, <1>2, <1>4 DEF Follows, Replaced

MoveOk(k, l, i, s, x, w, m, n, j) ==
    /\ l = Moved(k, i, s, x, w) /\ s # "todo" /\ x \in Item /\ x.id = k.q[i].id
    /\ m \in Ledgers /\ n \in Ledgers /\ Fits(k, m, j)
    /\ n.q = m.q /\ n.cap = m.cap /\ n.bound = m.bound
    /\ Chances(x) <= Chances(k.q[i])
    /\ IF k.phase[i] # "todo" THEN n.runs = m.runs
       ELSE Chances(x) < Chances(k.q[i]) /\ n.runs = m.runs + (IF x.id = j THEN 1 ELSE 0)
    /\ Alive(l.q, j) \subseteq Alive(k.q, j)
    /\ Cardinality(Alive(l.q, j)) + Count(n.d, j) <= n.cap
    /\ s \in {"dl_save", "dl_write"} => Count(w, j) + Cardinality(Alive(l.q, j) \ {i}) <= n.cap

(* A chance that is used up becomes a run.                                 *)
LEMMA TriesTurn ==
    \A r, v, a, b, c, e \in Nat :
        r + a <= v + e /\ r + b <= v =>
            /\ c <= b => r + c <= v
            /\ c + 1 <= b => (r + 1) + a <= v + (e + 1) /\ (r + 1) + c <= v
  OBVIOUS

LEMMA MoveFits ==
    ASSUME Whole, NEW p \in Procs, NEW i \in DOMAIN loc[p].phase,
           NEW l, NEW s, NEW x, NEW w, NEW m, NEW n, NEW j, MoveOk(loc[p], l, i, s, x, w, m, n, j)
    PROVE  Fits(l, n, j)
  <1>0. /\ l = Moved(loc[p], i, s, x, w) /\ s # "todo" /\ x \in Item /\ x.id = loc[p].q[i].id
        /\ m \in Ledgers /\ n \in Ledgers /\ Fits(loc[p], m, j)
    BY DEF MoveOk
  <1>1. PICK k : k = loc[p]
    OBVIOUS
  <1>a. /\ n.q = m.q /\ n.cap = m.cap /\ n.bound = m.bound
        /\ Chances(x) <= Chances(k.q[i])
        /\ k.phase[i] # "todo" => n.runs = m.runs
        /\ k.phase[i] = "todo" =>
              Chances(x) < Chances(k.q[i]) /\ n.runs = m.runs + (IF x.id = j THEN 1 ELSE 0)
        /\ Alive(l.q, j) \subseteq Alive(k.q, j)
        /\ Cardinality(Alive(l.q, j)) + Count(n.d, j) <= n.cap
        /\ s \in {"dl_save", "dl_write"} => Count(w, j) + Cardinality(Alive(l.q, j) \ {i}) <= n.cap
    BY <1>1 DEF MoveOk
  <1>2. /\ k.pc = "work" /\ l.pc = "work" /\ i \in DOMAIN k.phase /\ DOMAIN k.phase \subseteq DOMAIN k.q
        /\ DOMAIN l.phase = DOMAIN k.phase /\ DOMAIN l.q = DOMAIN k.q
        /\ l.phase[i] = s /\ l.q[i] = x /\ l.dl[i] = w
        /\ \A h \in DOMAIN l.phase : h # i => l.phase[h] = k.phase[h] /\ l.dl[h] = k.dl[h]
        /\ \A h \in DOMAIN l.phase : l.q[h].id = k.q[h].id
    <2>1. Follows(loc[p], l, i, s, x, w)
      BY <1>0, CandidateMoves
    <2> QED BY <1>0, <1>1, <2>1, CandidateItem DEF Follows, Whole, TypeInv, LocalOk
  <1>3. Drained(k, m, j)
    BY <1>0, <1>1, <1>2 DEF Fits, Draining
  <1>4. Replaced(k.q, l.q, i, x) /\ k.q \in Seq(Item) /\ l.q \in Seq(Item) /\ x.id = k.q[i].id
    BY <1>0, <1>1, CandidateReplaced
  <1>5. Cheaper(k.q, l.q, i, x, j)
    BY <1>0, <1>a, <1>4, ReplaceCounts
  <1>6. /\ Tries(l.q, j) \in Nat /\ Tries(k.q, j) \in Nat /\ Tries(m.q, j) \in Nat
        /\ m.runs \in Nat /\ n.runs \in Nat /\ m.bound \in Nat /\ m.cap \in Nat
    BY <1>0, <1>4, Numbers DEF Ledgers
  <1>7. /\ IsFiniteSet(Begun(k, j)) /\ Cardinality(Begun(k, j)) \in Nat
        /\ IF k.phase[i] # "todo" \/ x.id # j THEN Begun(l, j) = Begun(k, j)
           ELSE Begun(l, j) = Begun(k, j) \cup {i} /\ i \notin Begun(k, j)
    <2>1. Begun(k, j) \in SUBSET Copies(k.q, j) /\ IsFiniteSet(Copies(k.q, j))
      <3>1. Begun(k, j) \subseteq Copies(k.q, j)
        BY <1>2 DEF Begun, Copies
      <3> QED BY <1>4, <3>1, Finite
    <2>2. IsFiniteSet(Begun(k, j)) /\ Cardinality(Begun(k, j)) \in Nat
      BY <2>1, FS_Subset, FS_CardinalityType
    <2>3. CASE k.phase[i] # "todo" \/ x.id # j
      <3>1. \A h : h \in Begun(l, j) <=> h \in Begun(k, j)
        BY <1>0, <1>1, <1>2, <1>4, <2>3 DEF Begun
      <3>2. Begun(l, j) = Begun(k, j)
        BY <3>1
      <3> QED BY <2>2, <2>3, <3>2
    <2>4. CASE k.phase[i] = "todo" /\ x.id = j
      BY <1>0, <1>2, <1>4, <2>2, <2>4 DEF Begun
    <2> QED BY <2>3, <2>4
  <1>8. /\ n.runs + Tries(m.q, j) <= m.bound + Cardinality(Begun(l, j))
        /\ n.runs + Tries(l.q, j) <= m.bound
    <2>1. /\ m.runs + Tries(m.q, j) <= m.bound + Cardinality(Begun(k, j))
          /\ m.runs + Tries(k.q, j) <= m.bound
      BY <1>3 DEF Drained
    <2>2. CASE k.phase[i] # "todo" \/ x.id # j
      <3>1. n.runs = m.runs /\ Tries(l.q, j) <= Tries(k.q, j) /\ Begun(l, j) = Begun(k, j)
        BY <1>a, <1>5, <1>6, <1>7, <2>2 DEF Cheaper
      <3> QED BY <1>6, <1>7, <2>1, <3>1, TriesTurn
    <2>3. CASE k.phase[i] = "todo" /\ x.id = j
      <3>1. Cardinality(Begun(k, j) \cup {i}) = Cardinality(Begun(k, j)) + 1
        BY <1>7, <2>3, FS_AddElement
      <3>2. Cardinality(Begun(l, j)) = Cardinality(Begun(k, j)) + 1
        BY <1>7, <2>3, <3>1
      <3>3. n.runs = m.runs + 1 /\ Tries(l.q, j) + 1 <= Tries(k.q, j)
        BY <1>a, <1>5, <2>3 DEF Cheaper
      <3>4. /\ (m.runs + 1) + Tries(m.q, j) <= m.bound + (Cardinality(Begun(k, j)) + 1)
            /\ (m.runs + 1) + Tries(l.q, j) <= m.bound
        <4>1. Tries(l.q, j) + 1 <= Tries(k.q, j)
          BY <3>3
        <4>2. PICK a \in Nat, b \in Nat, c \in Nat, e \in Nat :
                  a = Tries(m.q, j) /\ b = Tries(k.q, j) /\ c = Tries(l.q, j) /\ e = Cardinality(Begun(k, j))
          BY <1>6, <1>7
        <4>3. PICK r \in Nat, v \in Nat : r = m.runs /\ v = m.bound
          BY <1>6
        <4>4. r + a <= v + e /\ r + b <= v /\ c + 1 <= b
          BY <2>1, <4>1, <4>2, <4>3
        <4>5. (r + 1) + a <= v + (e + 1) /\ (r + 1) + c <= v
          BY <4>4, TriesTurn
        <4> QED BY <4>2, <4>3, <4>5
      <3> QED BY <3>2, <3>3, <3>4
    <2> QED BY <2>2, <2>3
  <1>9. ASSUME NEW h \in DOMAIN l.phase, l.phase[h] \in {"dl_save", "dl_write"}
        PROVE  Count(l.dl[h], j) + Cardinality(Alive(l.q, j) \ {h}) <= n.cap
    <2>1. CASE h = i
      BY <1>a, <1>2, <1>9, <2>1
    <2>2. CASE h # i
      <3>1. Count(l.dl[h], j) + Cardinality(Alive(k.q, j) \ {h}) <= m.cap
        BY <1>2, <1>3, <1>9, <2>2 DEF Drained
      <3>2. IsFiniteSet(Alive(k.q, j))
        BY <1>4, Finite
      <3>3. Alive(k.q, j) \ {h} \in SUBSET Alive(k.q, j) /\ Alive(l.q, j) \ {h} \in SUBSET (Alive(k.q, j) \ {h})
        BY <1>a
      <3>4. IsFiniteSet(Alive(k.q, j) \ {h})
        BY <3>2, <3>3, FS_Subset
      <3>5. /\ Cardinality(Alive(l.q, j) \ {h}) <= Cardinality(Alive(k.q, j) \ {h})
            /\ Cardinality(Alive(l.q, j) \ {h}) \in Nat /\ Cardinality(Alive(k.q, j) \ {h}) \in Nat
        BY <3>3, <3>4, FS_Subset, FS_CardinalityType
      <3>6. Count(l.dl[h], j) \in Nat
        <4>1. l.dl[h] = loc[p].dl[h] /\ h \in DOMAIN loc[p].phase
          BY <1>1, <1>2, <2>2
        <4>2. loc[p].dl[h] \in Seq(Item)
          BY <4>1, CandidateItem
        <4> QED BY <4>1, <4>2, Numbers
      <3> QED BY <1>a, <1>6, <3>1, <3>5, <3>6
    <2> QED BY <2>1, <2>2
  <1>10. Drained(l, n, j)
    BY <1>a, <1>3, <1>5, <1>8, <1>9 DEF Drained, Cheaper
  <1> QED BY <1>2, <1>10 DEF Fits, Requeueing, Replacing, Draining


LEMMA MoveWaits ==
    ASSUME Whole, NEW p \in Procs, NEW i \in DOMAIN loc[p].phase,
           NEW s, NEW x, NEW w, x.id = loc[p].q[i].id, s # "todo",
           NEW l, l = Moved(loc[p], i, s, x, w), Waiting(loc[p])
    PROVE  Waiting(l)
  <1>1. /\ l.pc = "work" /\ loc[p].pc = "work" /\ DOMAIN l.phase = DOMAIN loc[p].phase
        /\ DOMAIN loc[p].phase \subseteq DOMAIN loc[p].q /\ DOMAIN l.q = DOMAIN loc[p].q
        /\ l.phase[i] = s
        /\ \A h \in DOMAIN l.phase : h # i => l.phase[h] = loc[p].phase[h]
        /\ \A h \in DOMAIN l.q : h # i => l.q[h] = loc[p].q[h]
    <2>1. Follows(loc[p], l, i, s, x, w)
      BY CandidateMoves
    <2> QED BY <2>1, CandidateItem DEF Follows, Whole, TypeInv, LocalOk
  <1> QED BY <1>1 DEF Waiting

LEMMA AliveRoom ==
    ASSUME Whole, NEW p \in Procs, loc[p].pc = "work", NEW m, NEW j, Fits(loc[p], m, j)
    PROVE  /\ Cardinality(Alive(loc[p].q, j)) + Count(m.d, j) <= m.cap
           /\ \A i \in DOMAIN loc[p].phase : loc[p].phase[i] \in {"dl_save", "dl_write"} =>
                 Count(loc[p].dl[i], j) + Cardinality(Alive(loc[p].q, j) \ {i}) <= m.cap
           /\ loc[p].q \in Seq(Item)
  BY DEF Fits, Draining, Drained, Whole, TypeInv, LocalOk, Locals

LEMMA CandidateAlive ==
    ASSUME Whole, NEW p \in Procs, NEW i \in DOMAIN loc[p].phase, loc[p].phase[i] # "fin"
    PROVE  loc[p].q[i].st # "dead-letter"
  <1>1. loc[p].phase \in Phases /\ Progress(loc[p], i)
    BY CandidateItem DEF Locals
  <1>2. loc[p].phase[i] \in PhaseNames
    BY <1>1 DEF Phases
  <1> QED BY <1>1, <1>2 DEF PhaseNames, Progress, InQueue

LEMMA WorkStartBounded ==
    ASSUME Whole, Whole', BoundInv, NEW p \in Procs, NEW i \in DOMAIN loc[p].phase, WorkStart(p, i)
    PROVE  BoundInv'
  <1>1. PICK x \in Item : /\ x = Started(loc[p].q[i]) /\ x.id = loc[p].q[i].id /\ x.st = "running"
                          /\ loc' = [loc EXCEPT ![p] = Moved(loc[p], i, "running", x, loc[p].dl[i])]
    BY WorkStartMove
  <1>2. PICK l : l = Moved(loc[p], i, "running", x, loc[p].dl[i])
    OBVIOUS
  <1>3. /\ UNCHANGED <<file, submitted, revived, crashes, overlaps>>
        /\ loc[p].pc = "work" /\ loc[p].phase[i] = "todo"
        /\ runs' = [runs EXCEPT ![loc[p].q[i].id] = @ + 1]
    BY DEF WorkStart, faults
  <1>4. Replaced(loc[p].q, l.q, i, x) /\ loc[p].q[i].st # "dead-letter"
    BY <1>1, <1>2, <1>3, CandidateReplaced, CandidateAlive
  <1>5. Waiting(loc[p]) => Chances(x) < Chances(loc[p].q[i])
    <2> SUFFICES ASSUME Waiting(loc[p]) PROVE Chances(x) < Chances(loc[p].q[i])
      OBVIOUS
    <2>1. PICK y \in Item : y = loc[p].q[i]
      BY CandidateItem
    <2>2. y.st \in {"queued", "retry"} /\ y.att \in Nat
      BY <1>3, <2>1 DEF Waiting, Item
    <2>3. x.st = "running" /\ x.att = y.att + 1
      BY <1>1, <2>1, StartedType
    <2>4. Chances(x) < Chances(y)
      BY <2>2, <2>3, QueueAssumption DEF Chances
    <2> QED BY <2>1, <2>4
  <1>6. ASSUME NEW j \in Jobs, Waiting(loc[p]), Fits(loc[p], Now(j), j) PROVE Fits(l, Now(j)', j)
    <2>1. PICK m, n : m = Now(j) /\ n = Now(j)'
      OBVIOUS
    <2>2. /\ m \in Ledgers
          /\ n \in Ledgers
      BY <2>1, NowTypes, NextTypes
    <2>3. n.q = m.q /\ n.d = m.d /\ n.cap = m.cap /\ n.bound = m.bound
      BY <1>3, <2>1 DEF Now, Load, Cap, Bound
    <2>4. n.runs = m.runs + (IF x.id = j THEN 1 ELSE 0)
      <3>1. runs'[j] = runs[j] + (IF x.id = j THEN 1 ELSE 0)
        BY <1>1, <1>3 DEF Whole, TypeInv
      <3> QED BY <2>1, <3>1 DEF Now
    <2>5. Alive(l.q, j) = Alive(loc[p].q, j)
      BY <1>1, <1>4, AliveMoves
    <2>6. Cardinality(Alive(loc[p].q, j)) + Count(m.d, j) <= m.cap
      BY <1>3, <1>6, <2>1, AliveRoom
    <2>7. Chances(x) \in Nat /\ Chances(loc[p].q[i]) \in Nat /\ Chances(x) < Chances(loc[p].q[i])
      BY <1>5, <1>6, ChancesType, CandidateItem
    <2>8. Chances(x) <= Chances(loc[p].q[i])
      BY <2>7
    <2>9. Cardinality(Alive(l.q, j)) + Count(n.d, j) <= n.cap
      BY <2>3, <2>5, <2>6
    <2>10. MoveOk(loc[p], l, i, "running", x, loc[p].dl[i], m, n, j)
      BY <1>1, <1>2, <1>3, <1>6, <2>1, <2>2, <2>3, <2>4, <2>5, <2>7, <2>8, <2>9 DEF MoveOk
    <2>11. Fits(l, n, j)
      BY <2>10, MoveFits
    <2> QED BY <2>1, <2>11
  <1>7. Waiting(loc[p]) => Waiting(l)
    BY <1>1, <1>2, MoveWaits
  <1>8. loc' = [loc EXCEPT ![p] = l] /\ (overlaps' = 0 => overlaps = 0 /\ Mine(p))
    BY <1>1, <1>2, <1>3 DEF Mine
  <1> QED BY <1>6, <1>7, <1>8, BoundedTurns

LEMMA WorkEndBounded ==
    ASSUME Whole, Whole', BoundInv, NEW p \in Procs, NEW i \in DOMAIN loc[p].phase,
           WorkOk(p, i) \/ WorkRetry(p, i)
    PROVE  BoundInv'
  <1>1. PICK x \in Item : /\ x.id = loc[p].q[i].id /\ x.att = loc[p].q[i].att
                          /\ x.st \in {"done", "retry"} /\ x.st # "dead-letter" /\ InQueue(x)
                          /\ loc' = [loc EXCEPT ![p] = Moved(loc[p], i, "fin", x, loc[p].dl[i])]
    BY WorkEndMove
  <1>2. PICK l : l = Moved(loc[p], i, "fin", x, loc[p].dl[i])
    OBVIOUS
  <1>3. UNCHANGED <<file, submitted, runs, revived, crashes, overlaps>> /\ loc[p].phase[i] = "running"
    BY DEF WorkOk, WorkRetry, faults
  <1>4. loc[p].pc = "work" /\ loc[p].q[i].st = "running" /\ loc[p].q[i] \in Item
    BY <1>3, CandidateItem DEF Progress
  <1>5. Replaced(loc[p].q, l.q, i, x)
    BY <1>1, <1>2, CandidateReplaced
  <1>7. Chances(x) <= Chances(loc[p].q[i])
    <2>1. PICK y \in Item : y = loc[p].q[i]
      BY <1>4
    <2>2. x.st = "done" \/ (x.st = "retry" /\ x.att < MaxAtt)
      BY <1>1 DEF InQueue
    <2>3. x.att = y.att /\ y.st = "running" /\ y.att \in Nat
      BY <1>1, <1>4, <2>1 DEF Item
    <2>4. Chances(x) <= Chances(y)
      BY <2>2, <2>3, QueueAssumption DEF Chances
    <2> QED BY <2>1, <2>4
  <1>8. ASSUME NEW j \in Jobs, Fits(loc[p], Now(j), j) PROVE Fits(l, Now(j)', j)
    <2>1. PICK m : m = Now(j) /\ m = Now(j)'
      BY <1>3, NowSame
    <2>2. m \in Ledgers
      BY <2>1, NowTypes
    <2>3. Alive(l.q, j) = Alive(loc[p].q, j)
      BY <1>1, <1>4, <1>5, AliveMoves
    <2>4. Cardinality(Alive(l.q, j)) + Count(m.d, j) <= m.cap
      BY <1>4, <1>8, <2>1, <2>3, AliveRoom
    <2>5. MoveOk(loc[p], l, i, "fin", x, loc[p].dl[i], m, m, j)
      BY <1>1, <1>2, <1>3, <1>7, <1>8, <2>1, <2>2, <2>3, <2>4 DEF MoveOk
    <2>6. Fits(l, m, j)
      BY <2>5, MoveFits
    <2> QED BY <2>1, <2>6
  <1>9. Waiting(loc[p]) => Waiting(l)
    BY <1>1, <1>2, MoveWaits
  <1>10. loc' = [loc EXCEPT ![p] = l] /\ (overlaps' = 0 => overlaps = 0 /\ Mine(p))
    BY <1>1, <1>2, <1>3, <1>4 DEF Mine
  <1> QED BY <1>8, <1>9, <1>10, BoundedTurns

LEMMA WorkDeadLoadBounded ==
    ASSUME Whole, Whole', BoundInv, NEW p \in Procs, NEW i \in DOMAIN loc[p].phase, WorkDeadLoad(p, i)
    PROVE  BoundInv'
  <1>1. PICK w \in Seq(Item), y \in Item :
            /\ w = Append(Load("dlq"), y) /\ y.id = loc[p].q[i].id
            /\ loc' = [loc EXCEPT ![p] = Moved(loc[p], i, "dl_save", loc[p].q[i], w)]
    BY WorkDeadLoadMove
  <1>2. PICK x \in Item : x = loc[p].q[i]
    BY CandidateItem
  <1>3. PICK l : l = Moved(loc[p], i, "dl_save", x, w)
    OBVIOUS
  <1>4. UNCHANGED <<file, submitted, runs, revived, crashes, overlaps>> /\ loc[p].phase[i] = "running"
    BY DEF WorkDeadLoad, faults
  <1>5. loc[p].pc = "work" /\ x.st = "running" /\ i \in DOMAIN loc[p].q
    BY <1>2, <1>4, CandidateItem DEF Progress
  <1>6. Replaced(loc[p].q, l.q, i, x)
    BY <1>2, <1>3, CandidateReplaced
  <1>7. Chances(x) <= Chances(loc[p].q[i])
    BY <1>2, ChancesType
  <1>8. ASSUME NEW j \in Jobs, Fits(loc[p], Now(j), j) PROVE Fits(l, Now(j)', j)
    <2>1. PICK m : m = Now(j) /\ m = Now(j)' /\ m.d = Load("dlq")
      <3>1. Now(j).d = Load("dlq")
        BY DEF Now
      <3> QED BY <1>4, <3>1, NowSame
    <2>2. m \in Ledgers
      BY <2>1, NowTypes
    <2>3. Alive(l.q, j) = Alive(loc[p].q, j)
      BY <1>2, <1>5, <1>6, AliveMoves
    <2>4. Cardinality(Alive(loc[p].q, j)) + Count(m.d, j) <= m.cap /\ loc[p].q \in Seq(Item)
      BY <1>5, <1>8, <2>1, AliveRoom
    <2>5. Count(w, j) = Count(m.d, j) + (IF x.id = j THEN 1 ELSE 0)
      BY <1>1, <1>2, <2>1, <2>2, CountAppend
    <2>6. IsFiniteSet(Alive(loc[p].q, j)) /\ Cardinality(Alive(loc[p].q, j)) \in Nat /\ Count(m.d, j) \in Nat
      BY <2>2, <2>4, Finite, Numbers DEF Ledgers
    <2>7. Count(w, j) + Cardinality(Alive(l.q, j) \ {i}) <= m.cap
      <3>1. CASE x.id = j
        <4>1. i \in Alive(loc[p].q, j)
          BY <1>2, <1>5, <3>1 DEF Alive, Copies
        <4>2. Cardinality(Alive(loc[p].q, j) \ {i}) = Cardinality(Alive(loc[p].q, j)) - 1
          BY <2>6, <4>1, FS_RemoveElement
        <4> QED BY <2>2, <2>3, <2>4, <2>5, <2>6, <3>1, <4>2
      <3>2. CASE x.id # j
        <4>1. i \notin Alive(loc[p].q, j)
          BY <1>2, <3>2 DEF Alive, Copies
        <4>2. Alive(loc[p].q, j) \ {i} = Alive(loc[p].q, j)
          BY <4>1
        <4>3. Count(w, j) = Count(m.d, j)
          BY <2>5, <2>6, <3>2
        <4>4. Count(m.d, j) + Cardinality(Alive(loc[p].q, j)) <= m.cap
          BY <2>4, <2>6
        <4> QED BY <2>3, <4>2, <4>3, <4>4
      <3> QED BY <3>1, <3>2
    <2>8. MoveOk(loc[p], l, i, "dl_save", x, w, m, m, j)
      BY <1>2, <1>3, <1>4, <1>7, <1>8, <2>1, <2>2, <2>3, <2>4, <2>7 DEF MoveOk
    <2>9. Fits(l, m, j)
      BY <2>8, MoveFits
    <2> QED BY <2>1, <2>9
  <1>9. Waiting(loc[p]) => Waiting(l)
    BY <1>2, <1>3, MoveWaits
  <1>10. loc' = [loc EXCEPT ![p] = l] /\ (overlaps' = 0 => overlaps = 0 /\ Mine(p))
    BY <1>1, <1>2, <1>3, <1>4, <1>5 DEF Mine
  <1> QED BY <1>8, <1>9, <1>10, BoundedTurns

LEMMA WorkDeadTruncateBounded ==
    ASSUME Whole, Whole', BoundInv, NEW p \in Procs, NEW i \in DOMAIN loc[p].phase, WorkDeadTruncate(p, i)
    PROVE  BoundInv'
  <1>1. PICK x \in Item, w \in Seq(Item) : x = loc[p].q[i] /\ w = loc[p].dl[i]
    BY CandidateItem
  <1>2. PICK l : l = Moved(loc[p], i, "dl_write", x, w)
    OBVIOUS
  <1>3. /\ UNCHANGED <<submitted, runs, revived, crashes, overlaps>> /\ loc[p].phase[i] = "dl_save"
        /\ file'["dlq"] = Torn /\ file'["queue"] = file["queue"]
    BY DEF WorkDeadTruncate, faults, Whole, TypeInv, Files
  <1>4. loc[p].pc = "work" /\ x.st = "running"
    BY <1>1, <1>3, CandidateItem DEF Progress
  <1>5. Replaced(loc[p].q, l.q, i, x)
    BY <1>1, <1>2, CandidateReplaced
  <1>6. Chances(x) <= Chances(loc[p].q[i])
    BY <1>1, ChancesType
  <1>7. ASSUME NEW j \in Jobs, Fits(loc[p], Now(j), j) PROVE Fits(l, Now(j)', j)
    <2>1. PICK m, n : m = Now(j) /\ n = Now(j)'
      OBVIOUS
    <2>2. /\ m \in Ledgers
          /\ n \in Ledgers
      BY <2>1, NowTypes, NextTypes
    <2>3. n.q = m.q /\ n.d = <<>> /\ n.cap = m.cap /\ n.bound = m.bound /\ n.runs = m.runs
      BY <1>3, <2>1 DEF Now, Load, Cap, Bound
    <2>4. Alive(l.q, j) = Alive(loc[p].q, j)
      BY <1>1, <1>4, <1>5, AliveMoves
    <2>5. /\ Cardinality(Alive(loc[p].q, j)) + Count(m.d, j) <= m.cap /\ loc[p].q \in Seq(Item)
          /\ Count(w, j) + Cardinality(Alive(l.q, j) \ {i}) <= m.cap
      BY <1>1, <1>3, <1>4, <1>7, <2>1, <2>4, AliveRoom
    <2>6. Cardinality(Alive(loc[p].q, j)) \in Nat /\ Count(m.d, j) \in Nat /\ Count(n.d, j) = 0
      BY <2>2, <2>3, <2>5, Numbers, NoneOfEmpty DEF Ledgers
    <2>7. Cardinality(Alive(l.q, j)) + Count(n.d, j) <= n.cap
      BY <2>2, <2>3, <2>4, <2>5, <2>6 DEF Ledgers
    <2>8. MoveOk(loc[p], l, i, "dl_write", x, w, m, n, j)
      BY <1>1, <1>2, <1>3, <1>6, <1>7, <2>1, <2>2, <2>3, <2>4, <2>5, <2>7 DEF MoveOk
    <2>9. Fits(l, n, j)
      BY <2>8, MoveFits
    <2> QED BY <2>1, <2>9
  <1>8. Waiting(loc[p]) => Waiting(l)
    BY <1>1, <1>2, MoveWaits
  <1>9. loc' = [loc EXCEPT ![p] = l] /\ (overlaps' = 0 => overlaps = 0 /\ Mine(p))
    BY <1>1, <1>2, <1>3, <1>4, WorkDeadTruncateMove DEF Mine
  <1> QED BY <1>7, <1>8, <1>9, BoundedTurns

LEMMA WorkDeadWriteBounded ==
    ASSUME Whole, Whole', BoundInv, NEW p \in Procs, NEW i \in DOMAIN loc[p].phase, WorkDeadWrite(p, i)
    PROVE  BoundInv'
  <1>1. PICK x \in Item : /\ x.id = loc[p].q[i].id /\ x.st = "dead-letter"
                          /\ loc' = [loc EXCEPT ![p] = Moved(loc[p], i, "fin", x, <<>>)]
    BY WorkDeadWriteMove
  <1>2. PICK l : l = Moved(loc[p], i, "fin", x, <<>>)
    OBVIOUS
  <1>3. PICK w \in Seq(Item) : w = loc[p].dl[i]
    BY CandidateItem
  <1>4. /\ UNCHANGED <<submitted, runs, revived, crashes, overlaps>> /\ loc[p].phase[i] = "dl_write"
        /\ file'["dlq"] = w /\ file'["queue"] = file["queue"]
    BY <1>3 DEF WorkDeadWrite, faults, Whole, TypeInv, Files
  <1>5. loc[p].pc = "work" /\ loc[p].q[i].st = "running"
    BY <1>4, CandidateItem DEF Progress
  <1>6. Replaced(loc[p].q, l.q, i, x)
    BY <1>1, <1>2, CandidateReplaced
  <1>7. Chances(x) <= Chances(loc[p].q[i])
    BY <1>1, CandidateItem, ChancesType, QueueAssumption DEF Chances
  <1>8. ASSUME NEW j \in Jobs, Fits(loc[p], Now(j), j) PROVE Fits(l, Now(j)', j)
    <2>1. PICK m, n : m = Now(j) /\ n = Now(j)'
      OBVIOUS
    <2>2. /\ m \in Ledgers
          /\ n \in Ledgers
      BY <2>1, NowTypes, NextTypes
    <2>3. n.q = m.q /\ n.d = w /\ n.cap = m.cap /\ n.bound = m.bound /\ n.runs = m.runs
      <3>1. Load("queue")' = Load("queue") /\ Load("dlq")' = w
        BY <1>4, QueueAssumption DEF Load
      <3>2. Cap(j)' = Cap(j) /\ Bound(j)' = Bound(j) /\ runs'[j] = runs[j]
        BY <1>4 DEF Cap, Bound
      <3> QED BY <2>1, <3>1, <3>2 DEF Now
    <2>4. Alive(l.q, j) = Alive(loc[p].q, j) \ {i}
      BY <1>1, <1>5, <1>6, AliveMoves
    <2>5. Count(w, j) + Cardinality(Alive(loc[p].q, j) \ {i}) <= m.cap /\ loc[p].q \in Seq(Item)
      BY <1>3, <1>4, <1>5, <1>8, <2>1, AliveRoom
    <2>6. Cardinality(Alive(l.q, j)) \in Nat /\ Count(w, j) \in Nat
      <3>1. l.q \in Seq(Item)
        BY <1>1, <1>2, CandidateReplaced
      <3> QED BY <3>1, Numbers
    <2>7. Cardinality(Alive(l.q, j)) + Count(n.d, j) <= n.cap
      BY <2>2, <2>3, <2>4, <2>5, <2>6 DEF Ledgers
    <2>8. Alive(l.q, j) \subseteq Alive(loc[p].q, j)
      BY <2>4
    <2>9. Fits(l, n, j)
      <3>1. PICK v : v = <<>>
        OBVIOUS
      <3>2. l = Moved(loc[p], i, "fin", x, v)
        BY <1>2, <3>1
      <3>3. MoveOk(loc[p], l, i, "fin", x, v, m, n, j)
        BY <1>1, <1>4, <1>7, <1>8, <2>1, <2>2, <2>3, <2>7, <2>8, <3>2 DEF MoveOk
      <3> QED BY <3>3, MoveFits
    <2> QED BY <2>1, <2>9
  <1>9. Waiting(loc[p]) => Waiting(l)
    BY <1>1, <1>2, MoveWaits
  <1>10. loc' = [loc EXCEPT ![p] = l] /\ (overlaps' = 0 => overlaps = 0 /\ Mine(p))
    BY <1>1, <1>2, <1>4, <1>5 DEF Mine
  <1> QED BY <1>8, <1>9, <1>10, BoundedTurns


-----------------------------------------------------------------------------
(* What a drain would leave behind if it died.                             *)
LEMMA DrainedTwice ==
    ASSUME Whole, NEW p \in Procs, loc[p].pc = "work", NEW m \in Ledgers, NEW j, Fits(loc[p], m, j)
    PROVE  Twice(m.q, m.d, m, j)
  <1>1. PICK k : k = loc[p]
    OBVIOUS
  <1>2. k.q \in Seq(Item) /\ DOMAIN k.phase \subseteq DOMAIN k.q
    BY <1>1 DEF Whole, TypeInv, LocalOk, Locals
  <1>3. Drained(k, m, j)
    BY <1>1 DEF Fits, Draining
  <1>4. /\ Count(m.q, j) \in Nat /\ Tries(m.q, j) \in Nat /\ Count(m.d, j) \in Nat
        /\ Cardinality(Alive(k.q, j)) \in Nat /\ m.runs \in Nat /\ m.cap \in Nat /\ m.bound \in Nat
    BY <1>2, Numbers DEF Ledgers
  <1>5. Begun(k, j) \in SUBSET Copies(k.q, j) /\ Copies(k.q, j) = Copies(m.q, j)
    BY <1>2, <1>3 DEF Begun, Copies, Drained
  <1>6. IsFiniteSet(Copies(m.q, j)) /\ Count(m.q, j) = Cardinality(Copies(m.q, j))
    BY Finite DEF Ledgers, Count
  <1>7. Cardinality(Begun(k, j)) \in Nat /\ Cardinality(Begun(k, j)) <= Count(m.q, j)
    BY <1>5, <1>6, FS_Subset, FS_CardinalityType
  <1> QED BY <1>3, <1>4, <1>7 DEF Drained, Twice

LEMMA DrainDoneBounded ==
    ASSUME Whole, Whole', BoundInv, NEW p \in Procs, DrainDone(p) PROVE BoundInv'
  <1>1. PICK l : l = [Idle EXCEPT !.pc = "save_queue", !.q = Live(loc[p].q)]
    OBVIOUS
  <1>2. loc' = [loc EXCEPT ![p] = l]
    BY <1>1 DEF DrainDone
  <1>3. UNCHANGED <<file, submitted, runs, revived, crashes, overlaps>> /\ loc[p].pc = "work"
    BY DEF DrainDone, faults
  <1>4. l.pc = "save_queue" /\ l.q = Live(loc[p].q)
    BY <1>1 DEF Idle
  <1>5. loc[p].q \in Seq(Item) /\ l.q \in Seq(Item)
    BY <1>4, LiveItems DEF Whole, TypeInv, LocalOk, Locals
  <1>6. ASSUME NEW j \in Jobs, Fits(loc[p], Now(j), j) PROVE Fits(l, Now(j)', j)
    <2>1. PICK m : m = Now(j) /\ m = Now(j)'
      BY <1>3, NowSame
    <2>2. m \in Ledgers
      BY <2>1, NowTypes
    <2>3. Twice(m.q, m.d, m, j)
      BY <1>3, <1>6, <2>1, <2>2, DrainedTwice
    <2>4. Drained(loc[p], m, j)
      BY <1>3, <1>6, <2>1 DEF Fits, Draining
    <2>5. Tries(l.q, j) <= Tries(loc[p].q, j) /\ Count(l.q, j) <= Cardinality(Alive(loc[p].q, j))
      BY <1>4, <1>5, LiveCounts
    <2>6. /\ Count(l.q, j) \in Nat /\ Tries(l.q, j) \in Nat /\ Tries(loc[p].q, j) \in Nat
          /\ Cardinality(Alive(loc[p].q, j)) \in Nat /\ Count(m.d, j) \in Nat
          /\ m.runs \in Nat /\ m.cap \in Nat /\ m.bound \in Nat
      BY <1>5, <2>2, Numbers DEF Ledgers
    <2>7. Once(l.q, m.d, m, j)
      BY <2>4, <2>5, <2>6 DEF Drained, Once
    <2> QED BY <1>4, <2>1, <2>3, <2>7 DEF Fits, Requeueing, Replacing, Draining
  <1>7. Waiting(l)
    BY <1>4 DEF Waiting
  <1>8. overlaps' = 0 => overlaps = 0 /\ Mine(p)
    BY <1>3 DEF Mine
  <1> QED BY <1>2, <1>6, <1>7, <1>8, BoundedTurns

LEMMA TruncateBounded ==
    ASSUME Whole, Whole', BoundInv, NEW p \in Procs, Truncate(p) PROVE BoundInv'
  <1>1. PICK pc \in {"write_dlq", "write_queue"}, f \in Files :
            /\ loc' = [loc EXCEPT ![p].pc = pc]
            /\ file' = [file EXCEPT ![f] = Torn]
            /\ pc = "write_dlq" => loc[p].pc = "save_dlq" /\ f = "dlq"
            /\ pc = "write_queue" => loc[p].pc = "save_queue" /\ f = "queue"
    BY Zenon DEF Truncate, Files
  <1>2. PICK l : l = [loc[p] EXCEPT !.pc = pc]
    OBVIOUS
  <1>3. loc' = [loc EXCEPT ![p] = l] /\ UNCHANGED <<submitted, runs, revived, crashes, overlaps>>
    BY <1>1, <1>2 DEF Truncate, faults
  <1>4. l.pc = pc /\ l.q = loc[p].q /\ l.d = loc[p].d /\ l.job = loc[p].job
    BY <1>2 DEF Whole, TypeInv, LocalOk, Locals
  <1>5. file'[f] = Torn /\ \A g \in Files : g # f => file'[g] = file[g]
    BY <1>1 DEF Whole, TypeInv
  <1>6. ASSUME NEW j \in Jobs, Fits(loc[p], Now(j), j) PROVE Fits(l, Now(j)', j)
    <2>1. PICK m, n : m = Now(j) /\ n = Now(j)'
      OBVIOUS
    <2>2. m \in Ledgers /\ n \in Ledgers
      BY <2>1, NowTypes, NextTypes
    <2>3. /\ f = "dlq" => n.q = m.q /\ n.d = <<>>
          /\ f = "queue" => n.q = <<>> /\ n.d = m.d
      BY <1>5, <2>1 DEF Now, Load, Files
    <2>4. n.cap = m.cap /\ n.bound = m.bound /\ n.runs = m.runs
      <3>1. Cap(j)' = Cap(j) /\ Bound(j)' = Bound(j) /\ runs'[j] = runs[j]
        BY <1>3 DEF Cap, Bound
      <3> QED BY <2>1, <3>1 DEF Now
    <2>5. /\ Count(m.q, j) \in Nat /\ Tries(m.q, j) \in Nat /\ Count(m.d, j) \in Nat
          /\ m.runs \in Nat /\ m.cap \in Nat /\ m.bound \in Nat
      BY <2>2, Numbers DEF Ledgers
    <2>6. Fits(loc[p], m, j)
      BY <1>6, <2>1
    <2>7. CASE pc = "write_dlq"
      <3>1. n.q = m.q /\ Count(n.d, j) = 0 /\ l.pc = "write_dlq" /\ loc[p].pc = "save_dlq"
        BY <1>1, <1>4, <2>3, <2>7, NoneOfEmpty
      <3>2. /\ Once(m.q, m.d, m, j) /\ Count(loc[p].q, j) + Count(loc[p].d, j) <= m.cap
            /\ m.runs + Tries(loc[p].q, j) <= m.bound + (IF j = loc[p].job THEN 1 ELSE 0)
        BY <2>6, <3>1 DEF Fits, Requeueing
      <3>3. Once(n.q, n.d, n, j)
        BY <2>4, <2>5, <3>1, <3>2 DEF Once
      <3>4. Requeueing(l, n, j)
        BY <1>4, <2>4, <3>1, <3>2, <3>3 DEF Requeueing
      <3> QED BY <2>1, <3>1, <3>4 DEF Fits, Replacing, Draining
    <2>8. CASE pc = "write_queue"
      <3>1. /\ n.d = m.d /\ Count(n.q, j) = 0 /\ Tries(n.q, j) = 0
            /\ l.pc = "write_queue" /\ loc[p].pc = "save_queue"
        BY <1>1, <1>4, <2>3, <2>8, NoneOfEmpty
      <3>2. Twice(m.q, m.d, m, j) /\ Once(loc[p].q, m.d, m, j)
        BY <2>6, <3>1 DEF Fits, Replacing
      <3>3. Twice(n.q, n.d, n, j)
        BY <2>4, <2>5, <3>1, <3>2 DEF Twice
      <3>4. Once(l.q, n.d, n, j)
        BY <1>4, <2>4, <3>1, <3>2 DEF Once
      <3> QED BY <2>1, <3>1, <3>3, <3>4 DEF Fits, Requeueing, Replacing, Draining
    <2> QED BY <2>7, <2>8
  <1>7. Waiting(l)
    BY <1>1, <1>4 DEF Waiting
  <1>8. overlaps' = 0 => overlaps = 0 /\ Mine(p)
    BY <1>1, <1>3 DEF Mine
  <1> QED BY <1>3, <1>6, <1>7, <1>8, BoundedTurns

LEMMA WriteDlqBounded ==
    ASSUME Whole, Whole', JobInv, BoundInv, NEW p \in Procs, WriteDlq(p) PROVE BoundInv'
  <1>1. PICK l : l = [loc[p] EXCEPT !.pc = "save_queue"]
    OBVIOUS
  <1>2. loc' = [loc EXCEPT ![p] = l] /\ UNCHANGED <<submitted, runs, crashes, overlaps>>
    BY Zenon, <1>1 DEF WriteDlq, faults
  <1>3. /\ l.pc = "save_queue" /\ l.q = loc[p].q /\ loc[p].pc = "write_dlq"
        /\ loc[p].d \in Seq(Item) /\ loc[p].q \in Seq(Item)
    BY <1>1 DEF WriteDlq, Whole, TypeInv, LocalOk, Locals
  <1>4. file'["dlq"] = loc[p].d /\ file'["queue"] = file["queue"]
    BY DEF WriteDlq, Whole, TypeInv, Files
  <1>5. PICK k : k = loc[p].job
    OBVIOUS
  <1>6. revived' = [revived EXCEPT ![k] = @ + 1] /\ k \in 0 .. submitted
    BY <1>5 DEF WriteDlq, JobInv
  <1>7. ASSUME NEW j \in Jobs, Fits(loc[p], Now(j), j) PROVE Fits(l, Now(j)', j)
    <2>1. PICK m, n : m = Now(j) /\ n = Now(j)'
      OBVIOUS
    <2>2. m \in Ledgers /\ n \in Ledgers
      BY <2>1, NowTypes, NextTypes
    <2>3. n.q = m.q /\ n.d = loc[p].d /\ n.cap = m.cap /\ n.runs = m.runs
      <3>1. Load("queue")' = Load("queue") /\ Load("dlq")' = loc[p].d
        BY <1>3, <1>4, QueueAssumption DEF Load
      <3>2. Cap(j)' = Cap(j) /\ runs'[j] = runs[j]
        BY <1>2 DEF Cap
      <3> QED BY <2>1, <3>1, <3>2 DEF Now
    <2>4. n.bound = m.bound + (IF j = k THEN 1 ELSE 0)
      <3>1. PICK c, v : c = 2 ^ crashes /\ v = revived[j]
        OBVIOUS
      <3>2. c \in Nat \ {0} /\ v \in Nat /\ MaxAtt \in Nat /\ submitted \in Nat
        BY <3>1, Doubling, QueueAssumption DEF Whole, TypeInv
      <3>3. revived'[j] = v + (IF j = k THEN 1 ELSE 0)
        BY <1>6, <3>1 DEF Whole, TypeInv
      <3>4. m.bound = IF j <= submitted THEN MaxAtt + v + c - 1 ELSE 0
        BY <2>1, <3>1 DEF Now, Bound
      <3>5. n.bound = IF j <= submitted THEN MaxAtt + (v + (IF j = k THEN 1 ELSE 0)) + c - 1 ELSE 0
        BY <1>2, <2>1, <3>1, <3>3 DEF Now, Bound
      <3>6. j = k => j <= submitted
        BY <1>6, <3>2
      <3> QED BY <3>2, <3>4, <3>5, <3>6
    <2>5. /\ Count(m.q, j) \in Nat /\ Tries(m.q, j) \in Nat /\ Count(m.d, j) \in Nat
          /\ Count(l.q, j) \in Nat /\ Tries(l.q, j) \in Nat /\ Count(loc[p].d, j) \in Nat
          /\ m.runs \in Nat /\ m.cap \in Nat /\ m.bound \in Nat
      BY <1>3, <2>2, Numbers DEF Ledgers
    <2>6. /\ Once(m.q, m.d, m, j) /\ Count(l.q, j) + Count(loc[p].d, j) <= m.cap
          /\ m.runs + Tries(l.q, j) <= m.bound + (IF j = k THEN 1 ELSE 0)
      BY <1>3, <1>5, <1>7, <2>1 DEF Fits, Requeueing
    <2>7. Twice(n.q, n.d, n, j)
      BY <2>3, <2>4, <2>5, <2>6 DEF Once, Twice
    <2>8. Once(l.q, n.d, n, j)
      BY <2>3, <2>4, <2>5, <2>6 DEF Once
    <2> QED BY <1>3, <2>1, <2>7, <2>8 DEF Fits, Requeueing, Replacing, Draining
  <1>8. Waiting(l)
    BY <1>3 DEF Waiting
  <1>9. overlaps' = 0 => overlaps = 0 /\ Mine(p)
    BY <1>2, <1>3 DEF Mine
  <1> QED BY <1>2, <1>7, <1>8, <1>9, BoundedTurns

LEMMA WriteQueueBounded ==
    ASSUME Whole, Whole', BoundInv, NEW p \in Procs, WriteQueue(p) PROVE BoundInv'
  <1>1. PICK l : l = Idle
    OBVIOUS
  <1>2. loc' = [loc EXCEPT ![p] = l] /\ UNCHANGED <<submitted, runs, revived, crashes, overlaps>>
    BY <1>1 DEF WriteQueue, faults
  <1>3. l.pc = "idle" /\ loc[p].pc = "write_queue" /\ loc[p].q \in Seq(Item)
    BY <1>1 DEF WriteQueue, Whole, TypeInv, LocalOk, Locals, Idle
  <1>4. file'["queue"] = loc[p].q /\ file'["dlq"] = file["dlq"]
    BY DEF WriteQueue, Whole, TypeInv, Files
  <1>5. ASSUME NEW j \in Jobs, Fits(loc[p], Now(j), j) PROVE Fits(l, Now(j)', j)
    <2>1. PICK m, n : m = Now(j) /\ n = Now(j)'
      OBVIOUS
    <2>2. n.q = loc[p].q /\ n.d = m.d /\ n.cap = m.cap /\ n.bound = m.bound /\ n.runs = m.runs
      <3>1. Load("queue")' = loc[p].q /\ Load("dlq")' = Load("dlq")
        BY <1>3, <1>4, QueueAssumption DEF Load
      <3>2. Cap(j)' = Cap(j) /\ Bound(j)' = Bound(j) /\ runs'[j] = runs[j]
        BY <1>2 DEF Cap, Bound
      <3> QED BY <2>1, <3>1, <3>2 DEF Now
    <2>3. Once(loc[p].q, m.d, m, j)
      BY <1>3, <1>5, <2>1 DEF Fits, Replacing
    <2>4. Once(n.q, n.d, n, j)
      BY <2>2, <2>3 DEF Once
    <2> QED BY <1>3, <2>1, <2>4 DEF Fits, Requeueing, Replacing, Draining
  <1>6. Waiting(l)
    BY <1>3 DEF Waiting
  <1>7. overlaps' = 0 => overlaps = 0 /\ Mine(p)
    BY <1>2, <1>3 DEF Mine
  <1> QED BY <1>2, <1>5, <1>6, <1>7, BoundedTurns

(* A crash doubles what may be left of a job.                              *)
LEMMA CrashBounded ==
    ASSUME Whole, Whole', BoundInv, NEW p \in Procs, Crash(p) PROVE BoundInv'
  <1>1. PICK l : l = Idle
    OBVIOUS
  <1>2. /\ loc' = [loc EXCEPT ![p] = l] /\ UNCHANGED <<file, submitted, runs, revived, overlaps>>
        /\ crashes' = crashes + 1 /\ loc[p].pc # "idle"
    BY <1>1 DEF Crash
  <1>3. l.pc = "idle"
    BY <1>1 DEF Idle
  <1>4. ASSUME NEW j \in Jobs, Fits(loc[p], Now(j), j) PROVE Fits(l, Now(j)', j)
    <2>1. PICK m, n : m = Now(j) /\ n = Now(j)'
      OBVIOUS
    <2>2. m \in Ledgers /\ n \in Ledgers
      BY <2>1, NowTypes, NextTypes
    <2>3. n.q = m.q /\ n.d = m.d /\ n.runs = m.runs
      BY <1>2, <2>1 DEF Now, Load
    <2>4. n.cap = 2 * m.cap /\ n.bound = m.bound + m.cap
      <3>1. PICK c, e, v : c = 2 ^ crashes /\ e = 2 ^ (crashes + 1) /\ v = revived[j]
        OBVIOUS
      <3>2. c \in Nat \ {0} /\ e = 2 * c /\ v \in Nat /\ MaxAtt \in Nat
        BY <3>1, Doubling, QueueAssumption DEF Whole, TypeInv
      <3>3. m.cap = (IF j <= submitted THEN c ELSE 0)
            /\ m.bound = (IF j <= submitted THEN MaxAtt + v + c - 1 ELSE 0)
        BY <2>1, <3>1 DEF Now, Cap, Bound
      <3>4. n.cap = (IF j <= submitted THEN e ELSE 0)
            /\ n.bound = (IF j <= submitted THEN MaxAtt + v + e - 1 ELSE 0)
        BY <1>2, <2>1, <3>1 DEF Now, Cap, Bound
      <3> QED BY <3>2, <3>3, <3>4
    <2>5. /\ Count(m.q, j) \in Nat /\ Tries(m.q, j) \in Nat /\ Count(m.d, j) \in Nat
          /\ m.runs \in Nat /\ m.cap \in Nat /\ m.bound \in Nat
      BY <2>2, Numbers DEF Ledgers
    <2>6. Fits(loc[p], m, j)
      BY <1>4, <2>1
    <2>7. Twice(m.q, m.d, m, j)
      <3>1. CASE loc[p].pc \in {"retry", "save_dlq", "write_dlq"}
        <4>1. Once(m.q, m.d, m, j)
          BY <2>6, <3>1 DEF Fits, Requeueing
        <4> QED BY <2>5, <4>1 DEF Once, Twice
      <3>2. CASE loc[p].pc = "work"
        BY <2>2, <2>6, <3>2, DrainedTwice
      <3>3. CASE loc[p].pc \in {"save_queue", "write_queue"}
        BY <2>6, <3>3 DEF Fits, Replacing
      <3> QED BY <1>2, <3>1, <3>2, <3>3 DEF Whole, TypeInv, LocalOk, Locals, PCs
    <2>8. Once(n.q, n.d, n, j)
      BY <2>3, <2>4, <2>7 DEF Once, Twice
    <2> QED BY <1>3, <2>1, <2>8 DEF Fits, Requeueing, Replacing, Draining
  <1>5. Waiting(l)
    BY <1>3 DEF Waiting
  <1>6. overlaps' = 0 => overlaps = 0 /\ Mine(p)
    BY <1>2 DEF Mine
  <1> QED BY <1>2, <1>4, <1>5, <1>6, BoundedTurns

-----------------------------------------------------------------------------
LEMMA BoundStep == Whole /\ Whole' /\ JobInv /\ BoundInv /\ [Next]_vars => BoundInv'
  <1> SUFFICES ASSUME Whole, Whole', JobInv, BoundInv, [Next]_vars PROVE BoundInv'
    OBVIOUS
  <1>1. ASSUME NEW p \in Procs, SubmitLoad(p) PROVE BoundInv'
    BY <1>1, SubmitBounded
  <1>2. ASSUME NEW p \in Procs, RetryLoadDlq(p) PROVE BoundInv'
    BY <1>2, RetryLoadDlqBounded
  <1>3. ASSUME NEW p \in Procs, NEW avail \in SUBSET Jobs, DrainLoad(p, avail) PROVE BoundInv'
    BY <1>3, DrainLoadBounded
  <1>4. ASSUME NEW p \in Procs, Drain(p) PROVE BoundInv'
    BY <1>4, DrainDoneBounded, WorkStartBounded, WorkEndBounded, WorkDeadLoadBounded,
       WorkDeadTruncateBounded, WorkDeadWriteBounded DEF Drain
  <1>5. ASSUME NEW p \in Procs, RetryLoadQueue(p) \/ Truncate(p) \/ WriteDlq(p) \/ WriteQueue(p)
        PROVE  BoundInv'
    BY <1>5, RetryLoadQueueBounded, TruncateBounded, WriteDlqBounded, WriteQueueBounded
  <1>6. ASSUME NEW p \in Procs, Crash(p) PROVE BoundInv'
    BY <1>6, CrashBounded
  <1>7. CASE UNCHANGED vars
    <2>1. UNCHANGED <<file, submitted, runs, revived, crashes>> /\ UNCHANGED <<loc, overlaps>>
      BY <1>7 DEF vars, faults
    <2>2. ASSUME NEW p \in Procs, Bounded(loc[p]) PROVE Bounded(loc[p])'
      <3>1. PICK k : k = loc'[p] /\ k = loc[p]
        BY <2>1
      <3>2. ASSUME NEW j \in Jobs PROVE Fits(loc[p], Now(j), j)'
        <4>1. PICK n : n = Now(j)' /\ n = Now(j)
          BY <2>1, NowSame
        <4>2. Fits(k, n, j)
          BY <2>2, <3>1, <4>1 DEF Bounded
        <4> QED BY <3>1, <4>1, <4>2, FitsNext
      <3>3. Waiting(loc[p])'
        BY <2>2, <3>1 DEF Bounded, Waiting
      <3> QED BY <3>2, <3>3 DEF Bounded
    <2> QED BY <2>1, <2>2 DEF BoundInv, AtMostOne, Mine, AllIdle
  <1> QED BY <1>1, <1>2, <1>3, <1>4, <1>5, <1>6, <1>7 DEF Next, Step

LEMMA InitBound == Init => BoundInv
  <1> SUFFICES ASSUME Init PROVE BoundInv
    OBVIOUS
  <1>1. \A p \in Procs : loc[p] = Idle
    BY DEF Init
  <1>2. ASSUME NEW j \in Jobs PROVE Fits(Idle, Now(j), j)
    <2>1. PICK m : m = Now(j)
      OBVIOUS
    <2>2. m.q = <<>> /\ m.d = <<>> /\ m.runs = 0 /\ m.cap = 0 /\ m.bound = 0
      <3>1. Load("queue") = <<>> /\ Load("dlq") = <<>> /\ runs[j] = 0
        BY DEF Init, Load, Files
      <3>2. Cap(j) = 0 /\ Bound(j) = 0
        BY DEF Init, Cap, Bound, Jobs
      <3> QED BY <2>1, <3>1, <3>2 DEF Now
    <2>3. Once(m.q, m.d, m, j)
      BY <2>2, NoneOfEmpty DEF Once
    <2> QED BY <2>1, <2>3 DEF Idle, Fits, Requeueing, Replacing, Draining
  <1>3. Waiting(Idle)
    BY DEF Waiting, Idle
  <1> QED BY <1>1, <1>2, <1>3 DEF BoundInv, Bounded, AtMostOne, Idle

(* However long it goes on, and with any number of workers in a drain:     *)
(* operations that take turns run a job max_attempts times, once more for  *)
(* every requeue that was answered ok, and lose count of no more than      *)
(* 2^crashes - 1 runs (drain.py _process_queue_item counts an attempt in   *)
(* memory; only the save that ends the drain keeps it).                    *)
THEOREM RunsAreBounded == Spec => []RunsBounded
  <1> DEFINE I == Whole /\ JobInv /\ BoundInv
  <1>1. I /\ [Next]_vars => I'
    BY NextStep, JobStep, BoundStep
  <1>2. I => RunsBounded
    <2> SUFFICES ASSUME I, overlaps = 0, NEW j \in Jobs
                 PROVE  runs[j] <= MaxAtt + revived[j] + 2 ^ crashes - 1
      BY DEF RunsBounded
    <2>1. PICK p \in Procs : Mine(p)
      BY QueueAssumption DEF Mine, AllIdle
    <2>2. PICK m : m = Now(j)
      OBVIOUS
    <2>3. Fits(loc[p], m, j) /\ m \in Ledgers
      BY <2>1, <2>2, NowTypes DEF BoundInv, Bounded
    <2>4. m.runs <= m.bound
      <3>1. /\ loc[p].q \in Seq(Item) /\ Tries(m.q, j) \in Nat /\ Tries(loc[p].q, j) \in Nat
            /\ m.runs \in Nat /\ m.bound \in Nat
        BY <2>3, Numbers DEF Ledgers, Whole, TypeInv, LocalOk, Locals
      <3>2. CASE loc[p].pc \in {"idle", "retry", "save_dlq", "write_dlq"}
        BY <2>3, <3>1, <3>2 DEF Fits, Requeueing, Once
      <3>3. CASE loc[p].pc \in {"save_queue", "write_queue"}
        BY <2>3, <3>1, <3>3 DEF Fits, Replacing, Once
      <3>4. CASE loc[p].pc = "work"
        BY <2>3, <3>1, <3>4 DEF Fits, Draining, Drained
      <3> QED BY <3>2, <3>3, <3>4 DEF Whole, TypeInv, LocalOk, Locals, PCs
    <2>5. PICK c, v : c = 2 ^ crashes /\ v = revived[j]
      OBVIOUS
    <2>6. c \in Nat \ {0} /\ v \in Nat /\ MaxAtt \in Nat /\ runs[j] \in Nat
      BY <2>5, Doubling, QueueAssumption DEF Whole, TypeInv
    <2>7. m.runs = runs[j] /\ m.bound = IF j <= submitted THEN MaxAtt + v + c - 1 ELSE 0
      BY <2>2, <2>5 DEF Now, Bound
    <2>8. runs[j] <= MaxAtt + v + c - 1
      BY <2>4, <2>6, <2>7
    <2> QED BY <2>5, <2>8
  <1>3. Init => I
    BY InitWhole, InitBound
  <1> HIDE DEF I
  <1> QED BY <1>1, <1>2, <1>3, PTL DEF Spec
=============================================================================

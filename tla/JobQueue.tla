------------------------------ MODULE JobQueue ------------------------------
(***************************************************************************)
(* The file-backed agent job queue: src/mellowlang/agents/scheduling/      *)
(* queue.py, drain.py, paths.py, state.py.  Submitting, draining and       *)
(* requeueing each load a whole JSON file, change it in memory and write   *)
(* it back; nothing locks the files.  A process is one operation at a      *)
(* time: a CLI command, the background runner, or one HTTP handler.        *)
(***************************************************************************)
EXTENDS Integers, Sequences, FiniteSets

CONSTANTS
    Procs,      \* operating-system processes or handler threads
    Ops,        \* operations they perform: a subset of {"submit", "drain", "retry"}
    Workers,    \* drain_queue(workers=...)
    Limit,      \* drain_queue(limit=...)
    MaxAtt,     \* max_attempts of an item: retries + 1
    Torn,       \* contents of a file that was truncated and not yet written
    MaxJobs,    \* bound: jobs submitted
    MaxRevived, \* bound: requeues of a job from the dead letter
    MaxRuns,    \* bound: a drain passes over a job that ran this often
    MaxOverlap, \* bound: operations started while another is under way
    MaxFaults   \* bound: crashes and such overlaps together

Jobs == 1 .. MaxJobs
Item == [id : Jobs, st : {"queued", "running", "done", "retry", "dead-letter"}, att : Nat]

ASSUME QueueAssumption ==
    /\ Procs # {} /\ Ops \subseteq {"submit", "drain", "retry"}
    /\ Workers \in Nat \ {0} /\ MaxAtt \in Nat \ {0} /\ MaxJobs \in Nat \ {0}
    /\ Limit \in Nat /\ MaxRevived \in Nat /\ MaxRuns \in Nat
    /\ MaxOverlap \in Nat /\ MaxFaults \in Nat
    /\ Torn \notin Seq(Item)

VARIABLES
    file,       \* queue.json and dead_letter.json
    loc,        \* the local variables of every process
    submitted,  \* ids handed out (uuid4) so far: 1 .. submitted
    accepted,   \* ids whose submission was answered ok
    runs,       \* callback invocations per id
    revived,    \* requeues from the dead letter that were answered ok
    overlaps,   \* operations started while another was under way
    crashes,    \* crashes so far
    tornCrash,  \* a crash left a truncated file behind
    orphaned    \* requeued jobs whose process died before it saved the queue

faults == <<crashes, tornCrash, orphaned>>
vars == <<file, loc, submitted, accepted, runs, revived, overlaps, faults>>

Files == {"queue", "dlq"}

NewItem(j) == [id |-> j, st |-> "queued", att |-> 0]

(* pc; the loaded queue and dead letter; the id submitted or requeued; the *)
(* progress of every candidate of a drain and the dead letter it loaded.   *)
Idle == [pc |-> "idle", q |-> <<>>, d |-> <<>>, job |-> 0, phase |-> <<>>, dl |-> <<>>]

(* _load_json: a file that does not parse reads as the empty default. *)
Load(f) == IF file[f] = Torn THEN <<>> ELSE file[f]

Ids(s) == {s[i].id : i \in DOMAIN s}

RemoveAt(s, k) == [i \in 1 .. Len(s) - 1 |-> IF i < k THEN s[i] ELSE s[i + 1]]

(* A queue without its dead letters, the others in their order.            *)
Rank(S, i) == Cardinality({k \in S : k <= i})
Live(q) ==
    LET kept == {i \in DOMAIN q : q[i].st # "dead-letter"}
    IN  [n \in 1 .. Cardinality(kept) |-> q[CHOOSE i \in kept : Rank(kept, i) = n]]

Init ==
    /\ file = [f \in Files |-> <<>>]
    /\ loc = [p \in Procs |-> Idle]
    /\ submitted = 0
    /\ accepted = {}
    /\ runs = [j \in Jobs |-> 0]
    /\ revived = [j \in Jobs |-> 0]
    /\ overlaps = 0
    /\ crashes = 0
    /\ tornCrash = FALSE
    /\ orphaned = {}

AllIdle == \A p \in Procs : loc[p].pc = "idle"

Start(p, op) ==
    /\ op \in Ops
    /\ loc[p].pc = "idle"
    /\ overlaps' = IF AllIdle THEN overlaps ELSE overlaps + 1
    /\ overlaps' <= MaxOverlap /\ overlaps' + crashes <= MaxFaults

-----------------------------------------------------------------------------
(* enqueue_job / submit_job *)
SubmitLoad(p) ==
    /\ Start(p, "submit")
    /\ submitted < MaxJobs
    /\ submitted' = submitted + 1
    /\ loc' = [loc EXCEPT ![p] = [Idle EXCEPT
                  !.pc  = "save_queue",
                  !.q   = Append(Load("queue"), NewItem(submitted')),
                  !.job = submitted']]
    /\ UNCHANGED <<file, accepted, runs, revived, faults>>

(* retry_queue_item: both files are loaded, one after the other, ...       *)
RetryLoadDlq(p) ==
    /\ Start(p, "retry")
    /\ \E j \in accepted :
          /\ revived[j] < MaxRevived
          /\ loc' = [loc EXCEPT ![p] = [Idle EXCEPT !.pc = "retry", !.d = Load("dlq"), !.job = j]]
    /\ UNCHANGED <<file, submitted, accepted, runs, revived, faults>>

(* Mutant: the requeued item starts with a fresh attempt count.            *)
RetryLoadQueue_ResetsAttempts(p) ==
    /\ loc[p].pc = "retry"
    /\ LET d    == loc[p].d
           hits == {k \in DOMAIN d : d[k].id = loc[p].job}
       IN  \/ /\ hits = {}
              /\ loc' = [loc EXCEPT ![p] = Idle]
           \/ \E k \in hits :
              /\ \A h \in hits : k <= h
              /\ loc' = [loc EXCEPT
                    ![p].pc = "save_dlq",
                    ![p].q  = Append(Load("queue"), NewItem(d[k].id)),
                    ![p].d  = RemoveAt(d, k)]
    /\ UNCHANGED <<file, submitted, accepted, runs, revived, overlaps, faults>>

(* ... and the first entry with the id moves; its attempts stay.           *)
RetryLoadQueue(p) ==
    /\ loc[p].pc = "retry"
    /\ LET d    == loc[p].d
           hits == {k \in DOMAIN d : d[k].id = loc[p].job}
       IN  \/ /\ hits = {}
              /\ loc' = [loc EXCEPT ![p] = Idle]
           \/ \E k \in hits :
              /\ \A h \in hits : k <= h
              /\ loc' = [loc EXCEPT
                    ![p].pc = "save_dlq",
                    ![p].q  = Append(Load("queue"), [d[k] EXCEPT !.st = "queued"]),
                    ![p].d  = RemoveAt(d, k)]
    /\ UNCHANGED <<file, submitted, accepted, runs, revived, overlaps, faults>>

-----------------------------------------------------------------------------
(* drain_queue. An item waiting for a retry is a candidate once available. *)

(* Mutant: items waiting for a retry are never taken up again.             *)
Eligible_QueuedOnly(q, avail) == {i \in DOMAIN q : q[i].st = "queued"}

Eligible(q, avail) ==
    {i \in DOMAIN q : q[i].st = "queued" \/ (q[i].st = "retry" /\ q[i].id \in avail)}

Candidates(q, avail) ==
    {i \in Eligible(q, avail) : Cardinality({k \in Eligible(q, avail) : k < i}) < Limit}

(* Mutant: the drain claims its candidates by taking them off the file.    *)
DrainLoad_Claims(p, avail) ==
    /\ Start(p, "drain")
    /\ LET q     == Load("queue")
           taken == {i \in Candidates(q, avail) : runs[q[i].id] < MaxRuns}
           Unclaimed(item) == item.id \notin {q[i].id : i \in taken}
       IN  /\ file' = [file EXCEPT !["queue"] = SelectSeq(q, Unclaimed)]
           /\ loc' = [loc EXCEPT ![p] = [Idle EXCEPT
                         !.pc    = "work",
                         !.q     = q,
                         !.phase = [i \in taken |-> "todo"],
                         !.dl    = [i \in taken |-> <<>>]]]
    /\ UNCHANGED <<submitted, accepted, runs, revived, faults>>

DrainLoad(p, avail) ==
    /\ Start(p, "drain")
    /\ LET q     == Load("queue")
           taken == {i \in Candidates(q, avail) : runs[q[i].id] < MaxRuns}
       IN  loc' = [loc EXCEPT ![p] = [Idle EXCEPT
                      !.pc    = "work",
                      !.q     = q,
                      !.phase = [i \in taken |-> "todo"],
                      !.dl    = [i \in taken |-> <<>>]]]
    /\ UNCHANGED <<file, submitted, accepted, runs, revived, faults>>

Busy(p) == {i \in DOMAIN loc[p].phase : loc[p].phase[i] \notin {"todo", "fin"}}

Started(item) == [item EXCEPT !.st = "running", !.att = @ + 1]

(* _process_queue_item up to the callback. The pool starts items in order. *)
WorkStart(p, i) ==
    /\ loc[p].pc = "work"
    /\ loc[p].phase[i] = "todo"
    /\ \A k \in DOMAIN loc[p].phase : k < i => loc[p].phase[k] # "todo"
    /\ Cardinality(Busy(p)) < Workers
    /\ loc' = [loc EXCEPT ![p].phase[i] = "running",
                          ![p].q[i]     = Started(loc[p].q[i])]
    /\ runs' = [runs EXCEPT ![loc[p].q[i].id] = @ + 1]
    /\ UNCHANGED <<file, submitted, accepted, revived, overlaps, faults>>

WorkOk(p, i) ==
    /\ loc[p].phase[i] = "running"
    /\ loc' = [loc EXCEPT ![p].phase[i] = "fin", ![p].q[i].st = "done"]
    /\ UNCHANGED <<file, submitted, accepted, runs, revived, overlaps, faults>>

WorkRetry(p, i) ==
    /\ loc[p].phase[i] = "running"
    /\ loc[p].q[i].att < MaxAtt
    /\ loc' = [loc EXCEPT ![p].phase[i] = "fin", ![p].q[i].st = "retry"]
    /\ UNCHANGED <<file, submitted, accepted, runs, revived, overlaps, faults>>

(* The last attempt failed: _move_to_dead_letter loads, appends and saves. *)
WorkDeadLoad(p, i) ==
    /\ loc[p].phase[i] = "running"
    /\ loc[p].q[i].att >= MaxAtt
    /\ loc' = [loc EXCEPT
          ![p].phase[i] = "dl_save",
          ![p].dl[i] = Append(Load("dlq"), [loc[p].q[i] EXCEPT !.st = "dead-letter"])]
    /\ UNCHANGED <<file, submitted, accepted, runs, revived, overlaps, faults>>

WorkDeadTruncate(p, i) ==
    /\ loc[p].phase[i] = "dl_save"
    /\ file' = [file EXCEPT !["dlq"] = Torn]
    /\ loc' = [loc EXCEPT ![p].phase[i] = "dl_write"]
    /\ UNCHANGED <<submitted, accepted, runs, revived, overlaps, faults>>

WorkDeadWrite(p, i) ==
    /\ loc[p].phase[i] = "dl_write"
    /\ file' = [file EXCEPT !["dlq"] = loc[p].dl[i]]
    /\ loc' = [loc EXCEPT ![p].phase[i] = "fin", ![p].dl[i] = <<>>,
                          ![p].q[i].st = "dead-letter"]
    /\ UNCHANGED <<submitted, accepted, runs, revived, overlaps, faults>>

(* Mutant: the snapshot is saved with its dead letters.                    *)
DrainDone_KeepsDead(p) ==
    /\ loc[p].pc = "work"
    /\ \A i \in DOMAIN loc[p].phase : loc[p].phase[i] = "fin"
    /\ loc' = [loc EXCEPT ![p] = [Idle EXCEPT !.pc = "save_queue", !.q = loc[p].q]]
    /\ UNCHANGED <<file, submitted, accepted, runs, revived, overlaps, faults>>

(* Mutant: the save does not wait for the items that are still running.    *)
DrainDone_Early(p) ==
    /\ loc[p].pc = "work"
    /\ loc' = [loc EXCEPT ![p] = [Idle EXCEPT !.pc = "save_queue", !.q = Live(loc[p].q)]]
    /\ UNCHANGED <<file, submitted, accepted, runs, revived, overlaps, faults>>

(* All candidates are through: the snapshot without the dead letters is    *)
(* what queue.json is about to be replaced with.                           *)
DrainDone(p) ==
    /\ loc[p].pc = "work"
    /\ \A i \in DOMAIN loc[p].phase : loc[p].phase[i] = "fin"
    /\ loc' = [loc EXCEPT ![p] = [Idle EXCEPT !.pc = "save_queue", !.q = Live(loc[p].q)]]
    /\ UNCHANGED <<file, submitted, accepted, runs, revived, overlaps, faults>>

-----------------------------------------------------------------------------
(* _save_json is write_text: the file is truncated, then written.          *)
Truncate(p) ==
    /\ \/ /\ loc[p].pc = "save_dlq"
          /\ file' = [file EXCEPT !["dlq"] = Torn]
          /\ loc' = [loc EXCEPT ![p].pc = "write_dlq"]
       \/ /\ loc[p].pc = "save_queue"
          /\ file' = [file EXCEPT !["queue"] = Torn]
          /\ loc' = [loc EXCEPT ![p].pc = "write_queue"]
    /\ UNCHANGED <<submitted, accepted, runs, revived, overlaps, faults>>

WriteDlq(p) ==
    /\ loc[p].pc = "write_dlq"
    /\ file' = [file EXCEPT !["dlq"] = loc[p].d]
    /\ loc' = [loc EXCEPT ![p].pc = "save_queue"]
    /\ revived' = [revived EXCEPT ![loc[p].job] = @ + 1]
    /\ UNCHANGED <<submitted, accepted, runs, overlaps, faults>>

(* Mutant: every operation is counted as an accepted submission.           *)
WriteQueue_AcceptsAny(p) ==
    /\ loc[p].pc = "write_queue"
    /\ file' = [file EXCEPT !["queue"] = loc[p].q]
    /\ loc' = [loc EXCEPT ![p] = Idle]
    /\ accepted' = accepted \cup {loc[p].job}
    /\ UNCHANGED <<submitted, runs, revived, overlaps, faults>>

(* The last save of every operation: it returns ok to its caller.          *)
WriteQueue(p) ==
    /\ loc[p].pc = "write_queue"
    /\ file' = [file EXCEPT !["queue"] = loc[p].q]
    /\ loc' = [loc EXCEPT ![p] = Idle]
    /\ accepted' = accepted \cup ({loc[p].job} \ {0})
    /\ UNCHANGED <<submitted, runs, revived, overlaps, faults>>

(* The process dies. What it had truncated stays truncated.                *)
Crash(p) ==
    /\ crashes + overlaps < MaxFaults
    /\ loc[p].pc # "idle"
    /\ crashes' = crashes + 1
    /\ tornCrash' = (tornCrash \/ Torn \in {file[f] : f \in Files})
    /\ orphaned' = orphaned \cup
          (IF loc[p].pc \in {"save_queue", "write_queue"} THEN {loc[p].job} \cap accepted ELSE {})
    /\ loc' = [loc EXCEPT ![p] = Idle]
    /\ UNCHANGED <<file, submitted, accepted, runs, revived, overlaps>>

Drain(p) ==
    \/ DrainDone(p)
    \/ \E i \in DOMAIN loc[p].phase :
          \/ WorkStart(p, i) \/ WorkOk(p, i) \/ WorkRetry(p, i)
          \/ WorkDeadLoad(p, i) \/ WorkDeadTruncate(p, i) \/ WorkDeadWrite(p, i)

(* The steps of an operation that is under way.                            *)
Step(p) == Drain(p) \/ RetryLoadQueue(p) \/ Truncate(p) \/ WriteDlq(p) \/ WriteQueue(p)

Next == \E p \in Procs :
    \/ SubmitLoad(p)
    \/ RetryLoadDlq(p)
    \/ \E avail \in SUBSET Jobs : DrainLoad(p, avail)
    \/ Step(p)
    \/ Crash(p)

Spec == Init /\ [][Next]_vars

(* An operation that started goes on (callbacks return), and the runner    *)
(* drains again and again after every backoff delay has passed.            *)
FairSpec ==
    /\ Spec
    /\ \A p \in Procs : WF_vars(Step(p)) /\ SF_vars(DrainLoad(p, Jobs))

-----------------------------------------------------------------------------
TypeOK ==
    /\ \A f \in Files : file[f] = Torn \/ file[f] \in Seq(Item)
    /\ \A p \in Procs :
          /\ loc[p].pc \in {"idle", "retry", "work", "save_dlq", "write_dlq",
                            "save_queue", "write_queue"}
          /\ loc[p].q \in Seq(Item) /\ loc[p].d \in Seq(Item)
          /\ loc[p].job \in 0 .. MaxJobs
          /\ DOMAIN loc[p].phase \subseteq DOMAIN loc[p].q
          /\ DOMAIN loc[p].dl = DOMAIN loc[p].phase
    /\ submitted \in 0 .. MaxJobs
    /\ accepted \subseteq 1 .. submitted
    /\ runs \in [Jobs -> Nat] /\ revived \in [Jobs -> Nat]
    /\ overlaps \in 0 .. MaxOverlap
    /\ crashes \in 0 .. MaxFaults /\ tornCrash \in BOOLEAN /\ orphaned \subseteq accepted

Places(j) == UNION {{<<f, i>> : i \in {k \in DOMAIN Load(f) : Load(f)[k].id = j}} : f \in Files}

(* tests/test_v189_queue_jobs.py:11-15 - a job whose submission was        *)
(* answered ok can be fetched (get_queue_item: queue, then dead letter).   *)
AcceptedIsFetchable == AllIdle => \A j \in accepted : Places(j) # {}

(* One operation at a time, none cut short, neither loses nor duplicates a *)
(* job.                                                                    *)
ExactlyOnePlace ==
    AllIdle /\ overlaps = 0 /\ crashes = 0 =>
        \A j \in accepted : Cardinality(Places(j)) = 1

(* A job runs at most max_attempts times and once more per requeue, when   *)
(* operations take turns.  A drain that dies has run its jobs without      *)
(* saving their count, and leaves each job it moved to the dead letter     *)
(* twice behind: the runs lost may double with every crash.                *)
RunsBounded ==
    overlaps = 0 => \A j \in Jobs : runs[j] <= MaxAtt + revived[j] + 2 ^ crashes - 1

(* Whatever the interleaving of submits, drains and requeues, no file      *)
(* shows a half-processed item: queue.json holds queued, done and retry    *)
(* items with an attempt left, dead_letter.json only dead letters.         *)
OnlySettledItemsAreSaved ==
    /\ \A i \in DOMAIN Load("queue") :
          LET item == Load("queue")[i]
          IN  item.st \in {"queued", "done"} \/ (item.st = "retry" /\ item.att < MaxAtt)
    /\ \A i \in DOMAIN Load("dlq") :
          Load("dlq")[i].st = "dead-letter" /\ Load("dlq")[i].att >= MaxAtt

(* Operations that take turns and die between any two steps, but not       *)
(* inside a file write, lose no accepted job: at worst it runs again.  The *)
(* one window is a requeue that has taken the item off the dead letter and *)
(* not yet saved the queue.                                                *)
CrashKeepsJobs ==
    AllIdle /\ overlaps = 0 /\ ~tornCrash =>
        \A j \in accepted \ orphaned : Places(j) # {}

(* Every accepted job is eventually done or in the dead letter, unless one *)
(* of the losses above befell it.                                          *)
Settled(j) ==
    \/ \E i \in DOMAIN Load("queue") : Load("queue")[i].id = j /\ Load("queue")[i].st = "done"
    \/ j \in Ids(Load("dlq"))

Lost(j) == overlaps > 0 \/ tornCrash \/ j \in orphaned

JobsSettle == \A j \in Jobs : j \in accepted ~> Settled(j) \/ Lost(j)
=============================================================================

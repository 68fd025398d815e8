------------------------------ MODULE Schedules ------------------------------
(***************************************************************************)
(* Scheduled jobs, event triggers and webhooks of the agents:              *)
(* src/mellowlang/agents/scheduling/ cron.py, jobs.py, runner.py,          *)
(* webhooks.py on the files of paths.py and state.py.  CLI commands, the   *)
(* background runner and the handlers of the webhook server are processes  *)
(* that load, change and save the same unlocked files.  What a queued item *)
(* goes through afterwards is the business of JobQueue.                    *)
(***************************************************************************)
EXTENDS Integers, Sequences, FiniteSets

CONSTANTS
    Procs,       \* processes and handler threads
    Hour,        \* minutes of an hour
    Day,         \* hours of a day
    MaxProbe,    \* next_run(max_minutes=...)
    Crons,       \* schedules in use: [minute, hour] of fields
    Triggers,    \* triggers in use: [event, filter]
    Hooks,       \* webhooks in use: [name, event]
    Payloads,    \* event payloads
    Iterations,  \* run_background_runner(iterations=...)
    Torn,        \* contents of a file that was truncated and not yet written
    None,        \* no filter, no last run, no status file
    MaxTime,     \* bound: minutes that pass
    MaxCalls,    \* bound: operations started
    MaxFaults    \* bound: crashes and operations started beside another

Events == {g.event : g \in Triggers} \cup {h.event : h \in Hooks}

(* Entries of triggers.json, and items of the queue.                       *)
Trigger == [id : 1 .. MaxCalls, event : Events, filter : {g.filter : g \in Triggers} \cup {None},
            count : Nat]
Item == [trigger : 1 .. MaxCalls]

(* What runner.json says of a runner.                                      *)
Status == [running : BOOLEAN, iterations : Nat, executed : Nat]

ASSUME ScheduleAssumption ==
    /\ Hour \in Nat \ {0} /\ Day \in Nat \ {0} /\ MaxProbe \in Nat \ {0}
    /\ Iterations \in Nat \ {0}
    /\ MaxTime \in Nat /\ MaxCalls \in Nat /\ MaxFaults \in Nat
    /\ None \notin Nat /\ None \notin Hooks /\ None \notin Events /\ None \notin Trigger /\ None \notin Status
    /\ Torn \notin Seq(Trigger) /\ Torn \notin Seq(Hooks) /\ Torn \notin Seq(Item)

VARIABLES
    time,        \* the current minute, UTC
    file,        \* jobs, triggers, webhooks, queue and runner .json
    loc,         \* the local variables of every process
    made,        \* ids handed out: 1 .. made
    ran,         \* callbacks called, per job and minute
    queued,      \* queue items saved, per trigger
    known,       \* triggers whose add was answered ok
    answers,     \* webhook name -> event of its first acknowledged add
    owed,        \* acknowledged events, per known trigger they match
    half,        \* webhook names whose add died before it saved the trigger
    overlaps, crashes, raises, tornCrash

faults == <<overlaps, crashes, raises, tornCrash>>
ghosts == <<ran, queued, known, answers, owed, half>>
vars == <<time, file, loc, made, ghosts, faults>>

-----------------------------------------------------------------------------
(* cron.py. A field is a star (step 1), a star with a step or ranges.      *)

Step(n)      == [step |-> n, ranges |-> {}]
Ranges(rs)   == [step |-> 0, ranges |-> rs]

ParseField(field, v) ==
    \/ field.step > 0 /\ v % field.step = 0
    \/ \E r \in field.ranges : r[1] <= v /\ v <= r[2]

CronMatches(cron, t) ==
    /\ ParseField(cron.minute, t % Hour)
    /\ ParseField(cron.hour, (t \div Hour) % Day)

(* The minutes next_run probes that match; it raises when there are none.  *)
Matching(cron, t) == {u \in t + 1 .. t + MaxProbe : CronMatches(cron, u)}

NextRun(cron, t) == CHOOSE u \in Matching(cron, t) : \A w \in Matching(cron, t) : u <= w

(* Mutant: a job that already ran in this minute is due again.             *)
ShouldRun_Again(job, t) == CronMatches(job.cron, t)

ShouldRun(job, t) == CronMatches(job.cron, t) /\ job.last # t

-----------------------------------------------------------------------------
Files == {"jobs", "triggers", "webhooks", "queue", "runner"}

Stopped == [running |-> FALSE, iterations |-> 0, executed |-> 0]

(* _load_json and read_runner_status: the default for what does not parse. *)
Load(f) ==
    IF file[f] # Torn THEN file[f] ELSE IF f = "runner" THEN <<Stopped>> ELSE <<>>

(* pc; the loaded document and how far it was gone through; the save under *)
(* way and what follows it; the call's arguments; the runner's status.     *)
Idle == [pc |-> "idle", doc |-> <<>>, i |-> 0, f |-> "jobs", v |-> <<>>, then |-> "idle",
         arg |-> None, hook |-> None, now |-> 0, count |-> 0, status |-> None]

AllIdle == \A p \in Procs : loc[p].pc = "idle"

Init ==
    /\ time = 0
    /\ file = [f \in Files |-> IF f = "runner" THEN <<Stopped>> ELSE <<>>]
    /\ loc = [p \in Procs |-> Idle]
    /\ made = 0
    /\ ran = [j \in 1 .. MaxCalls |-> [t \in 0 .. MaxTime |-> 0]]
    /\ queued = [g \in 1 .. MaxCalls |-> 0]
    /\ known = {}
    /\ answers = [n \in {h.name : h \in Hooks} |-> None]
    /\ owed = [g \in 1 .. MaxCalls |-> 0]
    /\ half = {}
    /\ overlaps = 0 /\ crashes = 0 /\ raises = 0 /\ tornCrash = FALSE

NextMinute ==
    /\ time < MaxTime
    /\ time' = time + 1
    /\ UNCHANGED <<file, loc, made, ghosts, faults>>

Start(p) ==
    /\ loc[p].pc = "idle"
    /\ made < MaxCalls
    /\ made' = made + 1
    /\ overlaps' = IF AllIdle THEN overlaps ELSE overlaps + 1
    /\ overlaps' + crashes <= MaxFaults
    /\ UNCHANGED <<time, file, ghosts, crashes, raises, tornCrash>>

(* The locals of l when it is about to save v to f and go on at pc.        *)
Saving(l, f, v, pc) == [l EXCEPT !.pc = "truncate", !.f = f, !.v = v, !.then = pc]

NewTrigger(id, g) == [id |-> id, event |-> g.event, filter |-> g.filter, count |-> 0]

AddJob(p, cron) ==
    /\ Start(p)
    /\ Matching(cron, time) # {}
    /\ LET job == [id |-> made', cron |-> cron, next |-> NextRun(cron, time),
                   last |-> None, count |-> 0]
       IN  loc' = [loc EXCEPT ![p] = Saving(Idle, "jobs", Append(Load("jobs"), job), "done")]

AddTrigger(p, g) ==
    /\ Start(p)
    /\ loc' = [loc EXCEPT ![p] = Saving([Idle EXCEPT !.arg = NewTrigger(made', g)], "triggers",
                                        Append(Load("triggers"), NewTrigger(made', g)), "done")]

(* add_webhook saves the hook first, and then adds a trigger for its event. *)
AddWebhook(p, h) ==
    /\ Start(p)
    /\ loc' = [loc EXCEPT ![p] = Saving(
          [Idle EXCEPT !.arg = NewTrigger(made', [event |-> h.event, filter |-> None]), !.hook = h],
          "webhooks", Append(Load("webhooks"), h), "hooked")]

HookTrigger(p) ==
    /\ loc[p].pc = "hooked"
    /\ loc' = [loc EXCEPT ![p] = Saving(@, "triggers", Append(Load("triggers"), @.arg), "done")]
    /\ UNCHANGED <<time, file, made, ghosts, faults>>

-----------------------------------------------------------------------------
(* run_due_jobs, called once by the CLI or in every round of the runner.   *)

RunDue(p) ==
    /\ Start(p)
    /\ loc' = [loc EXCEPT ![p] = [Idle EXCEPT !.pc = "tick"]]

StartRunner(p) ==
    /\ Start(p)
    /\ LET status == [Stopped EXCEPT !.running = TRUE]
       IN  loc' = [loc EXCEPT ![p] = Saving([Idle EXCEPT !.status = status], "runner", <<status>>, "tick")]

LoadDue(p) ==
    /\ loc[p].pc = "tick"
    /\ loc' = [loc EXCEPT ![p].pc = "jobs", ![p].doc = Load("jobs"), ![p].now = time,
                          ![p].i = 0, ![p].count = 0]
    /\ UNCHANGED <<time, file, made, ghosts, faults>>

Due(l) == {k \in DOMAIN l.doc : k > l.i /\ ShouldRun(l.doc[k], l.now)}

IsNext(k, ks) == k \in ks /\ \A h \in ks : k <= h

(* The callback returned, and a next run was found.                        *)
JobRuns(p) ==
    /\ loc[p].pc = "jobs"
    /\ \E k \in DOMAIN loc[p].doc :
          LET job == loc[p].doc[k] IN
          /\ IsNext(k, Due(loc[p]))
          /\ Matching(job.cron, loc[p].now) # {}
          /\ loc' = [loc EXCEPT
                ![p].i = k,
                ![p].count = @ + 1,
                ![p].doc[k] = [job EXCEPT !.last = loc[p].now, !.count = job.count + 1,
                                          !.next = NextRun(job.cron, loc[p].now)]]
          /\ ran' = [ran EXCEPT ![job.id][loc[p].now] = @ + 1]
    /\ UNCHANGED <<time, file, made, queued, known, answers, owed, half, faults>>

(* The callback raised, or next_run did after it: nothing of this round is *)
(* saved, and the runner's finally clause stops the runner.                *)

(* Mutant: the runner has no finally clause.                               *)
JobRaises_NoFinally(p) ==
    /\ loc[p].pc = "jobs"
    /\ \E k \in DOMAIN loc[p].doc :
          /\ IsNext(k, Due(loc[p]))
          /\ ran' = [ran EXCEPT ![loc[p].doc[k].id][loc[p].now] = @ + 1]
    /\ raises' = raises + 1
    /\ loc' = [loc EXCEPT ![p] = Idle]
    /\ UNCHANGED <<time, file, made, queued, known, answers, owed, half, overlaps, crashes, tornCrash>>

JobRaises(p) ==
    /\ loc[p].pc = "jobs"
    /\ \E k \in DOMAIN loc[p].doc :
          /\ IsNext(k, Due(loc[p]))
          /\ ran' = [ran EXCEPT ![loc[p].doc[k].id][loc[p].now] = @ + 1]
    /\ raises' = raises + 1
    /\ loc' = [loc EXCEPT ![p] = IF @.status = None THEN Idle ELSE [@ EXCEPT !.pc = "stop"]]
    /\ UNCHANGED <<time, file, made, queued, known, answers, owed, half, overlaps, crashes, tornCrash>>

SaveDue(p) ==
    /\ loc[p].pc = "jobs"
    /\ Due(loc[p]) = {}
    /\ loc' = [loc EXCEPT ![p] = Saving(@, "jobs", @.doc, IF @.status = None THEN "done" ELSE "round")]
    /\ UNCHANGED <<time, file, made, ghosts, faults>>

(* The status is written after every round, and again when the loop ends.  *)
RoundEnds(p) ==
    /\ loc[p].pc = "round"
    /\ LET s == [loc[p].status EXCEPT !.iterations = @ + 1, !.executed = @ + loc[p].count]
       IN  loc' = [loc EXCEPT ![p] = Saving([@ EXCEPT !.status = s], "runner", <<s>>,
                                            IF s.iterations < Iterations THEN "tick" ELSE "stop")]
    /\ UNCHANGED <<time, file, made, ghosts, faults>>

RunnerStops(p) ==
    /\ loc[p].pc = "stop"
    /\ loc' = [loc EXCEPT ![p] = Saving(@, "runner", <<[@.status EXCEPT !.running = FALSE]>>, "done")]
    /\ UNCHANGED <<time, file, made, ghosts, faults>>

-----------------------------------------------------------------------------
(* emit_event *)

Matches(trig, arg) ==
    trig.event = arg.event /\ (trig.filter = None \/ trig.filter = arg.payload)

(* Mutant: the counters are saved before the items are queued.             *)
Emitting_CountsFirst(l, event, payload) ==
    LET arg  == [event |-> event, payload |-> payload]
        trig == Load("triggers")
    IN  Saving([l EXCEPT !.doc = trig, !.i = 0, !.arg = arg], "triggers",
               [k \in DOMAIN trig |-> IF Matches(trig[k], arg)
                                      THEN [trig[k] EXCEPT !.count = @ + 1] ELSE trig[k]], "match")

Emitting(l, event, payload) ==
    [l EXCEPT !.pc = "match", !.doc = Load("triggers"), !.i = 0,
              !.arg = [event |-> event, payload |-> payload]]

Emit(p, event, payload) ==
    /\ Start(p)
    /\ loc' = [loc EXCEPT ![p] = Emitting(Idle, event, payload)]

(* receive_webhook emits the event of the first hook of that name.         *)
Receive(p, name, payload) ==
    /\ Start(p)
    /\ loc' = [loc EXCEPT ![p] = [Idle EXCEPT !.pc = "received", !.hook = [name |-> name],
                                              !.arg = [payload |-> payload],
                                              !.doc = Load("webhooks")]]

(* Mutant: the last hook of that name answers.                             *)
FindHook_Last(p) ==
    /\ loc[p].pc = "received"
    /\ LET hits == {k \in DOMAIN loc[p].doc : loc[p].doc[k].name = loc[p].hook.name}
       IN  loc' = [loc EXCEPT ![p] =
              IF hits = {} THEN Idle
              ELSE Emitting(@, @.doc[CHOOSE k \in hits : \A h \in hits : h <= k].event, @.arg.payload)]
    /\ UNCHANGED <<time, file, made, ghosts, faults>>

FindHook(p) ==
    /\ loc[p].pc = "received"
    /\ LET hits == {k \in DOMAIN loc[p].doc : loc[p].doc[k].name = loc[p].hook.name}
       IN  loc' = [loc EXCEPT ![p] =
              IF hits = {} THEN Idle
              ELSE Emitting(@, @.doc[CHOOSE k \in hits : IsNext(k, hits)].event, @.arg.payload)]
    /\ UNCHANGED <<time, file, made, ghosts, faults>>

Matched(l) == {k \in DOMAIN l.doc : k > l.i /\ Matches(l.doc[k], l.arg)}

(* enqueue_job for the next trigger that matches; the counters change in   *)
(* memory only.                                                            *)
Enqueue(p) ==
    /\ loc[p].pc = "match"
    /\ \E k \in Matched(loc[p]) :
          /\ IsNext(k, Matched(loc[p]))
          /\ loc' = [loc EXCEPT ![p] = Saving([loc[p] EXCEPT !.i = k, !.doc[k].count = @ + 1], "queue",
                                              Append(Load("queue"), [trigger |-> loc[p].doc[k].id]), "match")]
    /\ UNCHANGED <<time, file, made, ghosts, faults>>

SaveCounters(p) ==
    /\ loc[p].pc = "match"
    /\ Matched(loc[p]) = {}
    /\ loc' = [loc EXCEPT ![p] = Saving(@, "triggers", @.doc, "done")]
    /\ UNCHANGED <<time, file, made, ghosts, faults>>

-----------------------------------------------------------------------------
(* _save_json is write_text: the file is truncated, then written.          *)
Truncate(p) ==
    /\ loc[p].pc = "truncate"
    /\ file' = [file EXCEPT ![loc[p].f] = Torn]
    /\ loc' = [loc EXCEPT ![p].pc = "write"]
    /\ UNCHANGED <<time, made, ghosts, faults>>

Write(p) ==
    /\ loc[p].pc = "write"
    /\ file' = [file EXCEPT ![loc[p].f] = loc[p].v]
    /\ loc' = [loc EXCEPT ![p].pc = loc[p].then]
    /\ queued' = IF loc[p].f # "queue" THEN queued
                 ELSE [queued EXCEPT ![loc[p].v[Len(loc[p].v)].trigger] = @ + 1]
    /\ UNCHANGED <<time, made, ran, known, answers, owed, half, faults>>

(* The answer that a hook's first add and a received name promise: events  *)
(* under that name reach the event's triggers.                             *)
Promised(l) ==
    IF l.hook = None \/ answers[l.hook.name] = None THEN l.arg.event ELSE answers[l.hook.name]

(* The operation answers ok. *)
Answer(p) ==
    LET l == loc[p]
        added   == l.arg # None /\ "id" \in DOMAIN l.arg
        emitted == l.arg # None /\ "payload" \in DOMAIN l.arg
    IN
    /\ l.pc = "done"
    /\ loc' = [loc EXCEPT ![p] = Idle]
    /\ known' = IF added THEN known \cup {l.arg} ELSE known
    /\ answers' = IF added /\ l.hook # None /\ answers[l.hook.name] = None
                  THEN [answers EXCEPT ![l.hook.name] = l.hook.event] ELSE answers
    /\ owed' = IF emitted /\ (l.hook = None \/ l.hook.name \notin half)
               THEN [g \in DOMAIN owed |->
                        IF \E trig \in known : trig.id = g
                              /\ Matches(trig, [event |-> Promised(l), payload |-> l.arg.payload])
                        THEN owed[g] + 1 ELSE owed[g]]
               ELSE owed
    /\ UNCHANGED <<time, file, made, ran, queued, half, faults>>

(* The process dies. What it had truncated stays truncated.                *)
Crash(p) ==
    /\ loc[p].pc # "idle"
    /\ crashes + overlaps < MaxFaults
    /\ crashes' = crashes + 1
    /\ tornCrash' = (tornCrash \/ loc[p].pc = "write")
    /\ half' = IF loc[p].hook \in Hooks THEN half \cup {loc[p].hook.name} ELSE half
    /\ loc' = [loc EXCEPT ![p] = Idle]
    /\ UNCHANGED <<time, file, made, ran, queued, known, answers, owed, overlaps, raises>>

Continue(p) ==
    \/ HookTrigger(p) \/ LoadDue(p) \/ JobRuns(p) \/ JobRaises(p) \/ SaveDue(p)
    \/ RoundEnds(p) \/ RunnerStops(p) \/ FindHook(p) \/ Enqueue(p) \/ SaveCounters(p)
    \/ Truncate(p) \/ Write(p) \/ Answer(p)

(* The commands of mellow agent, and the handler of a posted webhook.      *)
ScheduleCommand(p) == RunDue(p) \/ \E cron \in Crons : AddJob(p, cron)

TriggerCommand(p) ==
    \/ \E g \in Triggers : AddTrigger(p, g)
    \/ \E g \in Triggers, payload \in Payloads : Emit(p, g.event, payload)

WebhookCommand(p) == \E h \in Hooks : AddWebhook(p, h)

DoPost(p) == \E h \in Hooks, payload \in Payloads : Receive(p, h.name, payload)

Next ==
    \/ NextMinute
    \/ \E p \in Procs :
          \/ ScheduleCommand(p) \/ StartRunner(p)
          \/ TriggerCommand(p) \/ WebhookCommand(p) \/ DoPost(p)
          \/ Continue(p) \/ Crash(p)

Spec == Init /\ [][Next]_vars

(* Code that is running continues; nobody needs to call it again.          *)
FairSpec == Spec /\ \A p \in Procs : WF_vars(Continue(p))

-----------------------------------------------------------------------------
Sum(f) == LET Total[t \in -1 .. MaxTime] == IF t < 0 THEN 0 ELSE f[t] + Total[t - 1]
          IN  Total[MaxTime]

(* The callbacks of a job.                                                 *)
Runs(j) == Sum(ran[j])

(* The counters on file never run ahead of the work: a job's run_count is  *)
(* at most the number of its callbacks, a trigger's at most the number of  *)
(* items it put into the queue, whatever overlaps, dies or raises.         *)
CountersAreCovered ==
    /\ \A k \in DOMAIN Load("jobs") : Load("jobs")[k].count <= Runs(Load("jobs")[k].id)
    /\ \A k \in DOMAIN Load("triggers") :
          Load("triggers")[k].count <= queued[Load("triggers")[k].id]

(* A job runs once in a minute, as long as operations take turns: only a   *)
(* round that raised or died, and so saved nothing, is repeated.           *)
OnceAMinute ==
    overlaps = 0 =>
        \A j \in DOMAIN ran : \A t \in DOMAIN ran[j] : ran[j][t] <= 1 + crashes + raises

(* An acknowledged event, and an acknowledged call of an acknowledged      *)
(* webhook, has put an item into the queue for every acknowledged trigger  *)
(* that matches, as long as operations take turns and no file is cut off.  *)
EventsAreQueued ==
    AllIdle /\ overlaps = 0 /\ ~tornCrash =>
        \A g \in DOMAIN owed :
            owed[g] <= Cardinality({k \in DOMAIN Load("queue") : Load("queue")[k].trigger = g})

(* A runner that is not killed ends up reported as stopped, also when a    *)
(* job raises and when other runners overwrite its status.                 *)
RunnerReportsItsEnd == <>[](crashes > 0 \/ ~Load("runner")[1].running)
=============================================================================

----------------------------- MODULE AgentRuns -----------------------------
(***************************************************************************)
(* Running agents: agents/runtime.py, workflow.py, policy.py, memory.py    *)
(* and observability.py, behind `mellow agent run`, `workflow` and `serve` *)
(* (a thread for every request).  Every caller builds a runtime of its     *)
(* own; they share the agent's memory file.                                *)
(*                                                                         *)
(* Left out: the texts of prompts, answers and hits, secrets, and the      *)
(* observability file, which gets the lines of a run's own list of events. *)
(***************************************************************************)
EXTENDS Integers, Sequences, FiniteSets

CONSTANTS
    Callers,     \* commands and threads of the server
    Tools,       \* names a tool can be asked by
    Registered,  \* those of them that are in the registry
    Policies,    \* settings tried: the lists, sandbox, and whether a key
                 \* was given and the policy file's signature is right
    Retries,     \* retries of a step
    Cut,         \* a line of the memory file that is no JSON
    MaxJobs,     \* bound: commands, ...
    Weight,      \* ... of which a workflow counts for so many
    SlowSteps,   \* bound: places of the steps that may take too long
    MaxFull,     \* bound: appends that fail half way
    MaxWipes     \* bound: installs of the agent while it runs

ASSUME RunsAssumption ==
    /\ Registered \subseteq Tools
    /\ Retries \in Nat /\ MaxJobs \in Nat /\ Weight \in Nat \ {0} /\ SlowSteps \subseteq Nat /\ MaxFull \in Nat /\ MaxWipes \in Nat
    /\ \A id \in 0 .. MaxJobs, role \in {"user", "assistant"} : Cut # <<id, role>>

VARIABLES
    memory,      \* lines of the memory file: <<job, role>> or Cut
    job,         \* per caller: the command under way or the last one
    jobs, full, wipes,
    ended,       \* runs that ended well since the agent was installed
    broken       \* runs that lost a line to a failed append or an install

runVars == <<memory, job, jobs, full, wipes, ended, broken>>

NoTool == ""
NoKids == [t \in {} |-> 0]
NoJob  == [pc |-> "idle", id |-> 0, policy |-> 0, tool |-> NoTool, steps |-> <<>>, attempts |-> 0,
           kids |-> NoKids, results |-> <<>>, events |-> <<>>, number |-> 0]

RunsInit ==
    /\ memory = <<>>
    /\ job = [c \in Callers |-> NoJob]
    /\ jobs = 0 /\ full = 0 /\ wipes = 0
    /\ ended = {} /\ broken = {}

-----------------------------------------------------------------------------
(* check_tool, check_capability: a registered tool's capability is its own *)
(* name; tools are denied unless a list allows them.                       *)
Allowed(policy, t) ==
    /\ t \notin policy.denied_tools
    /\ t \in policy.allowed_tools
    /\ t \notin policy.denied_capabilities
    /\ policy.allowed_capabilities # {} => t \in policy.allowed_capabilities
    /\ policy.sandbox => policy.allowed_capabilities # {}

(* _seq is counted up, read again when the event is made, and the event    *)
(* then appended: for one thread a single step.                            *)
Emit(j, kind, t) ==
    [j EXCEPT !.number = @ + 1,
              !.events = Append(@, [kind |-> kind, tool |-> t, number |-> j.number + 1])]

Step(c, j) == job' = [job EXCEPT ![c] = j]
At(c, pc) == job[c].pc = pc
Over == {"idle", "done"}

(* With its runtime a run's list of events goes.                           *)
Fails(c) == Step(c, NoJob)

-----------------------------------------------------------------------------
(* _make_agent_runtime: every line of the memory file must parse, and a    *)
(* policy file checked with a key must be signed with it.                  *)
MakeRuntime(c, policy, j, weight) ==
    /\ job[c].pc \in Over /\ jobs + weight <= MaxJobs
    /\ jobs' = jobs + weight
    /\ Step(c, IF (policy.keyed => policy.signed) /\ \A i \in DOMAIN memory : memory[i] # Cut
               THEN [j EXCEPT !.id = jobs + 1, !.policy = policy]
               ELSE NoJob)
    /\ UNCHANGED <<memory, full, wipes, ended, broken>>

(* AgentRuntime.run, with the tool it was told to call first, if any.      *)
BeginRun(c) ==
    \E policy \in Policies, t \in Tools \cup {NoTool} :
        MakeRuntime(c, policy, [Emit(NoJob, "agent.start", NoTool) EXCEPT
                                  !.pc = IF t = NoTool THEN "ask" ELSE "check", !.tool = t], 1)

(* call_tool: the deadline, the registry, the policy ...                   *)
CheckTool(c) ==
    LET j == job[c] IN
    /\ At(c, "check")
    /\ \/ Fails(c)
       \/ /\ j.tool \in Registered /\ Allowed(j.policy, j.tool)
          /\ Step(c, [Emit(j, "policy.check", j.tool) EXCEPT !.pc = "call"])
    /\ UNCHANGED <<memory, jobs, full, wipes, ended, broken>>

(* ... and the call.                                                       *)
CallTool(c) ==
    /\ At(c, "call")
    /\ Step(c, [Emit(job[c], "tool.call", job[c].tool) EXCEPT !.pc = "ask"])
    /\ UNCHANGED <<memory, jobs, full, wipes, ended, broken>>

(* The deadline again, then the model; no deadline after that.             *)
AskModel(c) ==
    /\ At(c, "ask")
    /\ \/ Fails(c)
       \/ Step(c, [Emit(job[c], "model.tokens", NoTool) EXCEPT !.pc = "user"])
    /\ UNCHANGED <<memory, jobs, full, wipes, ended, broken>>

(* Mutant: writes what it loaded and its own line, not only its line.      *)
Appended_Own(j, line) == SelectSeq(memory, LAMBDA l : l # Cut /\ l[1] <= j.id) \o <<line>>

(* MemoryStore.add appends a line; behind a line cut short it is glued on. *)
Appended(j, line) ==
    IF memory # <<>> /\ memory[Len(memory)] = Cut THEN memory ELSE Append(memory, line)

(* memory.add of the task and of the answer; the write may fail half way   *)
(* and end the run.                                                        *)
Remember(c, role, next) ==
    LET j == job[c] IN
    /\ At(c, role)
    /\ \/ /\ memory' = Appended(j, <<j.id, role>>)
          /\ broken' = IF memory' = memory THEN broken \cup {j.id} ELSE broken
          /\ Step(c, [j EXCEPT !.pc = next])
          /\ UNCHANGED full
       \/ /\ full < MaxFull
          /\ full' = full + 1
          /\ memory' = Appended(j, Cut)
          /\ Fails(c)
          /\ UNCHANGED broken
    /\ UNCHANGED <<jobs, wipes, ended>>

Finish(c) ==
    /\ At(c, "finish")
    /\ ended' = ended \cup {job[c].id}
    /\ Step(c, NoJob)
    /\ UNCHANGED <<memory, jobs, full, wipes, broken>>

(* install_agent_package removes the installed directory, memory and all.  *)
Reinstall ==
    /\ wipes < MaxWipes
    /\ wipes' = wipes + 1
    /\ memory' = <<>>
    /\ ended' = {}
    /\ broken' = broken \cup {job[c].id : c \in Callers}
    /\ UNCHANGED <<job, jobs, full>>

-----------------------------------------------------------------------------
(* _cmd_agent_workflow: two look-ups, two tools, one after the other or in *)
(* parallel, and the model.  A step is the set of the tools it calls.      *)
Sequential == <<{}, {}, {"search.docs"}, {"time.now"}, {}>>
Parallel   == <<{}, {}, {"search.docs", "time.now"}, {}>>

BeginWorkflow(c) ==
    \E policy \in Policies, steps \in {Sequential, Parallel} :
        MakeRuntime(c, [policy EXCEPT !.allowed_tools = {"search.docs", "time.now"}],
                    [NoJob EXCEPT !.pc = "step", !.steps = steps], Weight)

Current(j) == j.steps[Len(j.results) + 1]
MaySlow(j) == Len(j.results) + 1 \in SlowSteps

(* _run_single_step: a thread for every child of a parallel step.          *)
NewKid == [pc |-> "count", kind |-> "policy.check", number |-> 0, ok |-> TRUE]
BeginAttempt(c) ==
    LET j == job[c] IN
    /\ At(c, "step")
    /\ Step(c, [j EXCEPT !.pc = "attempt", !.attempts = @ + 1,
                         !.kids = [t \in Current(j) |-> NewKid]])
    /\ UNCHANGED <<memory, jobs, full, wipes, ended, broken>>

Kid(c, t, kid) == [job[c] EXCEPT !.kids[t] = kid]
KidAt(c, t, pc) == At(c, "attempt") /\ t \in DOMAIN job[c].kids /\ job[c].kids[t].pc = pc

(* ObservationLog.emit by one of several threads: count, ...               *)
CountEvent(c, t) ==
    LET k == job[c].kids[t] IN
    /\ KidAt(c, t, "count")
    /\ Step(c, [Kid(c, t, [k EXCEPT !.pc = "read"]) EXCEPT !.number = @ + 1])
    /\ UNCHANGED <<memory, jobs, full, wipes, ended, broken>>

(* ... read the count, ...                                                 *)
ReadCount(c, t) ==
    LET k == job[c].kids[t] IN
    /\ KidAt(c, t, "read")
    /\ Step(c, Kid(c, t, [k EXCEPT !.pc = "append", !.number = job[c].number]))
    /\ UNCHANGED <<memory, jobs, full, wipes, ended, broken>>

(* ... and append.  After the check comes the call, unless it is denied;   *)
(* after the call the child is over, well or timed out.                    *)
AppendEvent(c, t) ==
    LET k == job[c].kids[t]
        logged(kid) == [Kid(c, t, kid) EXCEPT
                          !.events = Append(@, [kind |-> k.kind, tool |-> t, number |-> k.number])]
    IN
    /\ KidAt(c, t, "append")
    /\ \/ /\ k.kind = "policy.check" /\ Allowed(job[c].policy, t)
          /\ Step(c, logged([k EXCEPT !.pc = "count", !.kind = "tool.call"]))
       \/ /\ k.kind = "policy.check" /\ ~Allowed(job[c].policy, t)
          /\ Step(c, logged([k EXCEPT !.pc = "over", !.ok = FALSE]))
       \/ /\ k.kind = "tool.call"
          /\ \E ok \in {TRUE, ~MaySlow(job[c])} : Step(c, logged([k EXCEPT !.pc = "over", !.ok = ok]))
    /\ UNCHANGED <<memory, jobs, full, wipes, ended, broken>>

(* Mutant: the first child that fails ends the attempt.                    *)
AttemptOver_First(j) ==
    \/ \A t \in DOMAIN j.kids : j.kids[t].pc = "over"
    \/ \E t \in DOMAIN j.kids : ~j.kids[t].ok

(* Leaving the pool waits for every child.                                 *)
AttemptOver(j) == \A t \in DOMAIN j.kids : j.kids[t].pc = "over"

(* Mutant: one attempt too few.                                            *)
GivesUp_Early(j) == j.attempts >= Retries

GivesUp(j) == j.attempts > Retries

(* WorkflowRunner.run: the result, another attempt, or the error.  An      *)
(* attempt that ended well may have taken too long.                        *)
EndAttempt(c) ==
    LET j == job[c]
        passed(ok) == [j EXCEPT !.results = Append(@, [ok |-> ok, attempts |-> j.attempts]),
                                !.attempts = 0, !.kids = NoKids,
                                !.pc = IF Len(j.results) + 1 = Len(j.steps) THEN "done" ELSE "step"]
    IN
    /\ At(c, "attempt") /\ AttemptOver(j)
    /\ \/ /\ \A t \in DOMAIN j.kids : j.kids[t].ok
          /\ Step(c, passed(TRUE))
       \/ /\ MaySlow(j) \/ \E t \in DOMAIN j.kids : ~j.kids[t].ok
          /\ Step(c, IF GivesUp(j) THEN passed(FALSE) ELSE [j EXCEPT !.pc = "step"])
    /\ UNCHANGED <<memory, jobs, full, wipes, ended, broken>>

RunsNext ==
    \/ \E c \in Callers :
          \/ BeginRun(c) \/ CheckTool(c) \/ CallTool(c) \/ AskModel(c)
          \/ Remember(c, "user", "assistant") \/ Remember(c, "assistant", "finish") \/ Finish(c)
          \/ BeginWorkflow(c) \/ BeginAttempt(c) \/ EndAttempt(c)
          \/ \E t \in Tools : CountEvent(c, t) \/ ReadCount(c, t) \/ AppendEvent(c, t)
    \/ Reinstall

RunsSpec == RunsInit /\ [][RunsNext]_runVars

-----------------------------------------------------------------------------
(* Runs at the same time do not lose each other's memory (memory.py:39     *)
(* appends where the other files of the agents are rewritten whole): of    *)
(* every run that ended since the agent was installed the memory file has  *)
(* the task and after it the answer, once each, unless an append failed    *)
(* half way just before or the agent was installed meanwhile.              *)
EndedRunsAreRemembered ==
    \A r \in ended \ broken :
        \E i, k \in DOMAIN memory :
            /\ i < k /\ memory[i] = <<r, "user">> /\ memory[k] = <<r, "assistant">>
            /\ \A l \in DOMAIN memory \ {i, k} : memory[l] = Cut \/ memory[l][1] # r

Happened(j, kind, t) == Cardinality({i \in DOMAIN j.events : j.events[i].kind = kind /\ j.events[i].tool = t})

(* The attempts of a step take turns, and what a workflow reports of them  *)
(* is what happened (workflow.py:48-67): each tool of a step was checked   *)
(* once in each attempt reported, at most one call was made in each, at    *)
(* least one when the step ended well, none when the policy denies it, and *)
(* a step reported as failed was tried as often as it may be.              *)
AttemptsAreReported ==
    \A c \in Callers :
        LET j == job[c] IN
        \A i \in DOMAIN j.results :
            LET r == j.results[i] IN
            /\ r.attempts \in 1 .. Retries + 1
            /\ ~r.ok => r.attempts = Retries + 1
            /\ \A t \in j.steps[i] :
                  /\ Happened(j, "policy.check", t) = r.attempts
                  /\ Happened(j, "tool.call", t) <= r.attempts
                  /\ IF Allowed(j.policy, t) THEN Happened(j, "tool.call", t) > 0
                     ELSE Happened(j, "tool.call", t) = 0 /\ ~r.ok

(* The numbers of events put the events of one tool in the order they      *)
(* happened, and run ahead of an event's place in the log by less than the *)
(* threads that log at the same time (observability.py:31-33 reads the     *)
(* count again after another thread may have counted on); while no event   *)
(* is being made the count is the number of events.                        *)
EventsNumberedInOrder ==
    \A c \in Callers :
        LET j == job[c] IN
        /\ \A i \in DOMAIN j.events :
              /\ j.events[i].number - i < IF j.steps = Parallel THEN 2 ELSE 1
              /\ \A k \in 1 .. i - 1 :
                    j.events[k].tool = j.events[i].tool => j.events[k].number < j.events[i].number
        /\ (\A t \in DOMAIN j.kids : j.kids[t].pc \in {"count", "over"}) => j.number = Len(j.events)
=============================================================================

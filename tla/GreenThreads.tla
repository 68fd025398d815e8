---------------------------- MODULE GreenThreads ----------------------------
(***************************************************************************)
(* The native runtime's cooperative ("green") threads, its FIFO channels   *)
(* and the mark/sweep collector of channel handles:                        *)
(*   native/standalone/src/mellowrt_scheduler.c                            *)
(*   native/standalone/src/mellowrt_core_part4.inc   (SYSCALL, task exit)  *)
(*   native/standalone/src/mellowrt_syscalls_part1.inc, _part3.inc         *)
(* One opcode runs at a time: every action is one opcode of the current    *)
(* task.  The bytecode is arbitrary, so the choice of opcode is free.      *)
(***************************************************************************)
EXTENDS Naturals, Sequences

CONSTANTS
    Addr,       \* heap addresses a channel can be allocated at (reused after free)
    Null,       \* the NULL pointer
    Payload,    \* message values that carry no channel handle
    MaxTasks,   \* bound: length of the task table
    MaxQueue    \* bound: values queued in one channel

ASSUME ConstAssumption ==
    /\ Null \notin Addr
    /\ Addr \cap Payload = {}
    /\ MaxTasks \in Nat \ {0}
    /\ MaxQueue \in Nat

VARIABLES
    vm,         \* "running", "halted" (mvm_run returned 1) or "failed" (returned 0)
    cur,        \* vm->current_task
    nTasks,     \* vm->task_len
    status,     \* MTask.active / finished / blocked
    waiting,    \* MTask.waiting_native
    operand,    \* channel of the recv a task must execute again, left on its stack
    held,       \* channel handles in a task's stack and locals
    live,       \* channels allocated and not freed: the native registry
    queue       \* MellowChannel.items

vars == <<vm, cur, nTasks, status, waiting, operand, held, live, queue>>

Slot == 0 .. MaxTasks - 1
Msg  == Addr \cup Payload
Status == {"unused", "ready", "blocked", "finished"}

Active == 0 .. nTasks - 1

TypeOK ==
    /\ vm \in {"running", "halted", "failed"}
    /\ nTasks \in 1 .. MaxTasks
    /\ cur \in Active
    /\ status \in [Slot -> Status]
    /\ \A t \in Slot : status[t] = "unused" <=> t \notin Active
    /\ waiting \in [Slot -> Addr \cup {Null}]
    /\ operand \in [Slot -> Addr \cup {Null}]
    /\ held \in [Slot -> SUBSET Addr]
    /\ live \in SUBSET Addr
    /\ queue \in [Addr -> Seq(Msg)]

(* mellowrt_scheduler_bootstrap: the main program is task 0. *)
Init ==
    /\ vm = "running"
    /\ cur = 0
    /\ nTasks = 1
    /\ status = [t \in Slot |-> IF t = 0 THEN "ready" ELSE "unused"]
    /\ waiting = [t \in Slot |-> Null]
    /\ operand = [t \in Slot |-> Null]
    /\ held = [t \in Slot |-> {}]
    /\ live = {}
    /\ queue = [a \in Addr |-> <<>>]

-----------------------------------------------------------------------------
(* Round robin: the ring is walked from the task after the current one and *)
(* ends with the current task itself.                                      *)

(* Mutant: the walk always starts at slot 0.                               *)
RingDistance_FromZero(t) == t

RingDistance(t) == IF t > cur THEN t - cur ELSE t + nTasks - cur

Ready(st) == {t \in Active : st[t] = "ready"}

(* Mutant: the blocked flag is not tested.                                 *)
IsNextRunnable_IgnoresBlocked(st, t) ==
    LET Eligible == {u \in Active : st[u] \in {"ready", "blocked"}}
    IN  t \in Eligible /\ \A u \in Eligible : RingDistance(t) <= RingDistance(u)

IsNextRunnable(st, t) ==
    /\ t \in Ready(st)
    /\ \A u \in Ready(st) : RingDistance(t) <= RingDistance(u)

(* Mutant: NULL is not treated as a wildcard.                              *)
Unblocked_ExactMatch(ptr) ==
    {t \in Active : status[t] = "blocked" /\ waiting[t] = ptr}

(* unblock_native_waiters: NULL selects every blocked task. *)
Unblocked(ptr) ==
    {t \in Active : status[t] = "blocked" /\ (ptr = Null \/ waiting[t] = ptr)}

Wake(ptr) ==
    /\ status'  = [t \in Slot |-> IF t \in Unblocked(ptr) THEN "ready" ELSE status[t]]
    /\ waiting' = [t \in Slot |-> IF t \in Unblocked(ptr) THEN Null ELSE waiting[t]]

-----------------------------------------------------------------------------
(* The opcode loop is about to execute a fresh instruction of task cur,    *)
(* or (AtRecv) a recv it executes for the first time or again.             *)
Fresh == vm = "running" /\ operand[cur] = Null
AtRecv(a) == vm = "running" /\ a \in held[cur] /\ operand[cur] \in {Null, a}

(* set_error(...); return 0 : the run ends, nothing else is touched. *)
Fail ==
    /\ vm' = "failed"
    /\ UNCHANGED <<cur, nTasks, status, waiting, operand, held, live, queue>>

OpcodeError == Fresh /\ Fail

(* Syscall 24. The current task is runnable, so there always is a next one. *)
Yield ==
    /\ Fresh
    /\ \E t \in Active : IsNextRunnable(status, t) /\ cur' = t
    /\ UNCHANGED <<vm, nTasks, status, waiting, operand, held, live, queue>>

(* Mutant: the new slot is not marked active.                              *)
Spawn_Inactive ==
    /\ Fresh
    /\ nTasks < MaxTasks
    /\ nTasks' = nTasks + 1
    /\ \E locals \in SUBSET held[cur] : held' = [held EXCEPT ![nTasks] = locals]
    /\ UNCHANGED <<vm, cur, status, waiting, operand, live, queue>>

(* Syscall 23. The new task's locals are clones of the spawner's locals;   *)
(* handles that are only on the operand stack are not among them.          *)
Spawn ==
    /\ Fresh
    /\ nTasks < MaxTasks
    /\ nTasks' = nTasks + 1
    /\ status' = [status EXCEPT ![nTasks] = "ready"]
    /\ \E locals \in SUBSET held[cur] : held' = [held EXCEPT ![nTasks] = locals]
    /\ UNCHANGED <<vm, cur, waiting, operand, live, queue>>

(* Syscall 25. calloc may hand out the address of a freed channel again. *)
Channel ==
    /\ Fresh
    /\ \E a \in Addr \ live :
          /\ live' = live \cup {a}
          /\ queue' = [queue EXCEPT ![a] = <<>>]
          /\ held' = [held EXCEPT ![cur] = @ \cup {a}]
    /\ UNCHANGED <<vm, cur, nTasks, status, waiting, operand>>

(* POP, RETURN or a store overwrites the last copy of a handle. *)
Drop ==
    /\ Fresh
    /\ \E a \in held[cur] : held' = [held EXCEPT ![cur] = @ \ {a}]
    /\ UNCHANGED <<vm, cur, nTasks, status, waiting, operand, live, queue>>

(* Syscall 26. A handle whose channel was freed fails the magic test. *)
SendDangling == Fresh /\ held[cur] \ live # {} /\ Fail

Send ==
    /\ Fresh
    /\ \E a \in held[cur] \cap live, m \in held[cur] \cup Payload :
          /\ Len(queue[a]) < MaxQueue
          /\ queue' = [queue EXCEPT ![a] = Append(@, m)]
    /\ Wake(Null)
    /\ UNCHANGED <<vm, cur, nTasks, operand, held, live>>

(* Syscall 27 in its four outcomes. *)
RecvDangling == \E a \in Addr \ live : AtRecv(a) /\ Fail

RecvValue ==
    \E a \in live :
       /\ AtRecv(a)
       /\ queue[a] # <<>>
       /\ queue' = [queue EXCEPT ![a] = Tail(@)]
       /\ held' = [held EXCEPT ![cur] = @ \cup ({Head(queue[a])} \cap Addr)]
       /\ operand' = [operand EXCEPT ![cur] = Null]
       /\ UNCHANGED <<vm, cur, nTasks, status, waiting, live>>

RecvBlock ==
    \E a \in live :
       /\ AtRecv(a)
       /\ queue[a] = <<>>
       /\ status' = [status EXCEPT ![cur] = "blocked"]
       /\ waiting' = [waiting EXCEPT ![cur] = a]
       /\ operand' = [operand EXCEPT ![cur] = a]
       /\ \E t \in Active : IsNextRunnable(status', t) /\ cur' = t
       /\ UNCHANGED <<vm, nTasks, held, live, queue>>

RecvNone ==
    \E a \in live :
       /\ AtRecv(a)
       /\ queue[a] = <<>>
       /\ Ready(status) = {cur}
       /\ operand' = [operand EXCEPT ![cur] = Null]
       /\ UNCHANGED <<vm, cur, nTasks, status, waiting, held, live, queue>>

(* Mutant: the run ends together with the main task.                       *)
Finish_MainEndsRun ==
    /\ Fresh
    /\ status' = [status EXCEPT ![cur] = "finished"]
    /\ \/ /\ cur # 0
          /\ \E t \in Active : IsNextRunnable(status', t) /\ cur' = t
          /\ vm' = vm
       \/ /\ cur = 0 \/ Ready(status') = {}
          /\ vm' = "halted"
          /\ cur' = cur
    /\ UNCHANGED <<nTasks, waiting, operand, held, live, queue>>

(* Task exit: end of code, HALT, STOP, or RETURN from the last frame. *)
Finish ==
    /\ Fresh
    /\ status' = [status EXCEPT ![cur] = "finished"]
    /\ \/ /\ \E t \in Active : IsNextRunnable(status', t) /\ cur' = t
          /\ vm' = vm
       \/ /\ Ready(status') = {}
          /\ vm' = "halted"
          /\ cur' = cur
    /\ UNCHANGED <<nTasks, waiting, operand, held, live, queue>>

-----------------------------------------------------------------------------
(* mark_value / mark_channel: the least set that holds the roots and, for  *)
(* every live channel in it, the handles queued there.                     *)
Queued(a) == {queue[a][i] : i \in DOMAIN queue[a]} \cap Addr

Closed(S) == \A a \in S \cap live : Queued(a) \subseteq S

(* Mutant: queued handles are not marked.                                  *)
Marked_RootsOnly(roots) == roots

Marked(roots) ==
    {a \in Addr : \A S \in SUBSET Addr : roots \subseteq S /\ Closed(S) => a \in S}

(* Syscall 21: mellowrt_collect_garbage marks from the stack and the       *)
(* locals loaded in the VM, which are those of the current task alone.     *)
GcRoots == held[cur]

GcCollect ==
    /\ Fresh
    /\ live' = live \cap Marked(GcRoots)
    /\ queue' = [a \in Addr |-> IF a \in live' THEN queue[a] ELSE <<>>]
    /\ UNCHANGED <<vm, cur, nTasks, status, waiting, operand, held>>

Next ==
    \/ Yield \/ Spawn \/ Channel \/ Drop
    \/ Send \/ SendDangling
    \/ RecvValue \/ RecvBlock \/ RecvNone \/ RecvDangling
    \/ Finish \/ GcCollect \/ OpcodeError

Terminated == vm # "running" /\ UNCHANGED vars

Spec == Init /\ [][Next \/ Terminated]_vars

(* A recv that a woken task executes again, without a new instruction. *)
Retry == operand[cur] # Null /\ (RecvValue \/ RecvBlock \/ RecvNone \/ RecvDangling)

(* A cooperative program: the task that runs sooner or later yields. The   *)
(* opcode loop itself executes a pending recv. Nothing is assumed of send, *)
(* recv, spawn, gc or exit.                                                *)
FairSpec == Spec /\ WF_vars(Yield) /\ WF_vars(Retry)

-----------------------------------------------------------------------------
Unfinished == {t \in Active : status[t] # "finished"}

(* A task that is switched in can run: the opcode loop is never left on a  *)
(* blocked, finished or unused slot of the task table.                     *)
CurrentIsReady == vm = "running" => status[cur] = "ready"

(* No lost wakeup: a task is blocked only while the channel whose recv it  *)
(* will execute again is empty, whatever tasks sent, received, collected   *)
(* or re-allocated in between.                                             *)
NoLostWakeup ==
    \A t \in Active : status[t] = "blocked" =>
        /\ waiting[t] # Null
        /\ operand[t] = waiting[t]
        /\ queue[waiting[t]] = <<>>

(* The run ends regularly only when no task could go on: each one has      *)
(* finished or waits for a message nobody is left to send.                 *)
HaltIsQuiescent ==
    vm = "halted" => \A t \in Active :
        \/ status[t] = "finished"
        \/ status[t] = "blocked" /\ queue[waiting[t]] = <<>>

(* A program that never spawned never meets a freed channel: whatever it   *)
(* queues, drops, collects and receives back, the handles it holds are     *)
(* live, although some were reachable only through other channels' queues. *)
SoleTaskSafe == nTasks = 1 => held[0] \subseteq live

(* Starvation freedom: a runnable task is eventually switched in.          *)
ReadyRuns ==
    \A t \in Slot : (vm = "running" /\ status[t] = "ready")
                      ~> (cur = t \/ vm # "running")

(* docs: the collector marks from "task state" and sweeps only what is     *)
(* unreachable. What the code keeps alive is only the current task's.      *)
NoDanglingHandle ==
    vm = "running" => \A t \in Unfinished : held[t] \subseteq live
=============================================================================

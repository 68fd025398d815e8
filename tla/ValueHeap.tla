----------------------------- MODULE ValueHeap -----------------------------
(***************************************************************************)
(* The value heap of the native runtime: mellowrt_core_part1.inc,          *)
(* mellowrt_heap.inc, the ownership rules of the opcodes and the syscalls, *)
(* and the release of everything when `mellow run` ends.                   *)
(*                                                                         *)
(* A value is a block, with at most one value nested in it.  A block       *)
(* made by heap_alloc is tracked: only the collector frees it.  Blocks     *)
(* that syscalls get from malloc are raw: whoever drops them frees them.   *)
(* Scalars own no block and are left out.  So is the order in which the    *)
(* scheduler runs tasks and which channels a collection closes: both are   *)
(* open here and settled in GreenThreads.                                  *)
(***************************************************************************)
EXTENDS Integers, FiniteSets

CONSTANTS
    Block,      \* addresses of heap blocks
    Null,       \* no block
    Chan,       \* addresses of channels
    MaxTasks,   \* bound: slots of the task table
    MaxQueue    \* bound: values in one channel

ASSUME HeapAssumption ==
    /\ Null \notin Block
    /\ MaxTasks \in Nat \ {0}
    /\ MaxQueue \in Nat

Tasks == 0 .. MaxTasks - 1
Phases == {"run", "halted", "result_freed", "natives_swept", "vm_freed", "done"}

VARIABLES
    phase,      \* progress of `mellow run`
    fault,      \* a release met memory that is not allocated
    alloc,      \* blocks malloc considers in use
    tracked,    \* blocks in g_heap_blocks and its index
    child,      \* the value nested in a block
    nTasks, cur, finished,
    stack,      \* values on the operand stack of every task
    locals,     \* values in its locals
    result,     \* out->result (slot 0) and task->result
    open,       \* channels that are allocated
    queue       \* values waiting in them

mem   == <<alloc, tracked, child, fault>>
sched == <<nTasks, cur, finished>>
vars  == <<phase, mem, sched, stack, locals, result, open, queue>>

Own(t) == stack[t] \cup locals[t]

Unfinished == {t \in Tasks : t < nTasks} \ finished

Init ==
    /\ phase = "run" /\ fault = FALSE
    /\ alloc = {} /\ tracked = {}
    /\ child = [b \in Block |-> Null]
    /\ nTasks = 1 /\ cur = 0 /\ finished = {}
    /\ stack = [t \in Tasks |-> {}] /\ locals = [t \in Tasks |-> {}]
    /\ result = [t \in Tasks |-> Null]
    /\ open = {}
    /\ queue = [c \in Chan |-> {}]

-----------------------------------------------------------------------------
(* A value and what is nested in it. *)
Reach(S) == S \cup ({child[b] : b \in S} \ {Null})

(* mvalue_free: a tracked block is forgotten, a raw one is freed after     *)
(* what is nested in it.                                                   *)
Visited(S)  == S \cup ({child[b] : b \in S \ tracked} \ {Null})
Released(S) == Visited(S) \ tracked
Faulty(S)   == ~(Visited(S) \subseteq alloc)

(* The blocks of a deep copy of v: mvalue_clone.                           *)
Fresh == Block \ alloc
Copies(v) == {p \in Fresh \X (Fresh \cup {Null}) :
                 p[1] # p[2] /\ (p[2] = Null <=> child[v] = Null)}
Blocks(p) == {p[1], p[2]} \ {Null}

(* A freed block has no contents; heap_alloc's calloc gives it none. *)
Emptied(S) == [b \in Block |-> IF b \in S THEN Null ELSE child[b]]

(* New tracked blocks p, while the values in S are released. *)
CloneAndFree(p, S) ==
    /\ alloc'   = (alloc \ Released(S)) \cup Blocks(p)
    /\ tracked' = tracked \cup Blocks(p)
    /\ child'   = [Emptied(Released(S)) EXCEPT ![p[1]] = p[2]]
    /\ fault'   = (fault \/ Faulty(S))

Free(S) ==
    /\ alloc' = alloc \ Released(S)
    /\ child' = Emptied(Released(S))
    /\ fault' = (fault \/ Faulty(S))
    /\ UNCHANGED tracked

Running == phase = "run"

-----------------------------------------------------------------------------
(* PUSH_CONST, and every opcode that pops operands, releases them and      *)
(* pushes a new string.                                                    *)
PushNew ==
    /\ Running
    /\ \E b \in Fresh, S \in SUBSET stack[cur] :
          /\ Cardinality(S) <= 2
          /\ CloneAndFree(<<b, Null>>, S)
          /\ stack' = [stack EXCEPT ![cur] = (@ \ S) \cup {b}]
    /\ UNCHANGED <<phase, sched, locals, result, open, queue>>

(* LOAD_LOCAL copies the local. *)
LoadLocal ==
    /\ Running
    /\ \E v \in locals[cur] : \E p \in Copies(v) :
          /\ CloneAndFree(p, {})
          /\ stack' = [stack EXCEPT ![cur] = @ \cup {p[1]}]
    /\ UNCHANGED <<phase, sched, locals, result, open, queue>>

(* STORE_LOCAL into a slot that owns nothing (Drop empties it first), and  *)
(* the arguments of a call: the value moves.                               *)
StoreLocal ==
    /\ Running
    /\ \E v \in stack[cur] :
          /\ stack'  = [stack EXCEPT ![cur] = @ \ {v}]
          /\ locals' = [locals EXCEPT ![cur] = @ \cup {v}]
    /\ UNCHANGED <<phase, mem, sched, result, open, queue>>

(* GETITEM copies the element, then frees the container. *)
GetItem ==
    /\ Running
    /\ \E v \in stack[cur] :
          /\ child[v] # Null
          /\ \E p \in Copies(child[v]) :
                /\ CloneAndFree(p, {v})
                /\ stack' = [stack EXCEPT ![cur] = (@ \ {v}) \cup {p[1]}]
    /\ UNCHANGED <<phase, sched, locals, result, open, queue>>

(* BUILD_LIST, BUILD_MAP: the element moves from the stack into the new    *)
(* block. (Bound: one level of nesting.)                                   *)
Build ==
    /\ Running
    /\ \E v \in stack[cur], b \in Fresh :
          /\ child[v] = Null
          /\ alloc' = alloc \cup {b} /\ tracked' = tracked \cup {b}
          /\ child' = [child EXCEPT ![b] = v]
          /\ stack' = [stack EXCEPT ![cur] = (@ \ {v}) \cup {b}]
    /\ UNCHANGED <<fault, phase, sched, locals, result, open, queue>>

(* A syscall that returns a list or a string it got from malloc. *)
SyscallRaw ==
    /\ Running
    /\ \E b \in Fresh, c \in Fresh \cup {Null} :
          /\ b # c
          /\ alloc' = alloc \cup ({b, c} \ {Null})
          /\ child' = [child EXCEPT ![b] = c]
          /\ stack' = [stack EXCEPT ![cur] = @ \cup {b}]
    /\ UNCHANGED <<tracked, fault, phase, sched, locals, result, open, queue>>

(* POP, an overwritten local, the locals of a frame that returns, the      *)
(* arguments of a syscall.                                                 *)
Drop ==
    /\ Running
    /\ \E v \in Own(cur) :
          /\ Free({v})
          /\ stack'  = [stack EXCEPT ![cur] = @ \ {v}]
          /\ locals' = [locals EXCEPT ![cur] = @ \ {v}]
    /\ UNCHANGED <<phase, sched, result, open, queue>>

Channel ==
    /\ Running
    /\ \E c \in Chan \ open : open' = open \cup {c}
    /\ UNCHANGED <<phase, mem, sched, stack, locals, result, queue>>

(* channel_push clones the value; then the syscall's arguments are freed.  *)
Send ==
    /\ Running
    /\ \E c \in open, v \in stack[cur] : \E p \in Copies(v) :
          /\ Cardinality(queue[c]) < MaxQueue
          /\ CloneAndFree(p, {v})
          /\ queue' = [queue EXCEPT ![c] = @ \cup {p[1]}]
          /\ stack' = [stack EXCEPT ![cur] = @ \ {v}]
    /\ UNCHANGED <<phase, sched, locals, result, open>>

(* channel_pop hands the queued value itself over. *)
Recv ==
    /\ Running
    /\ \E c \in open : \E v \in queue[c] :
          /\ queue' = [queue EXCEPT ![c] = @ \ {v}]
          /\ stack' = [stack EXCEPT ![cur] = @ \cup {v}]
    /\ UNCHANGED <<phase, mem, sched, locals, result, open>>

(* mellowrt_scheduler_spawn clones the spawner's locals. (Bound: at most   *)
(* one of them owns a block.)                                              *)
Spawn ==
    /\ Running
    /\ nTasks < MaxTasks
    /\ nTasks' = nTasks + 1
    /\ \/ UNCHANGED <<mem, locals>>
       \/ \E v \in locals[cur] : \E p \in Copies(v) :
          /\ CloneAndFree(p, {})
          /\ locals' = [locals EXCEPT ![nTasks] = {p[1]}]
    /\ UNCHANGED <<phase, cur, finished, stack, result, open, queue>>

(* yield, or a recv that blocks. *)
Switch ==
    /\ Running
    /\ cur' \in Unfinished \ {cur}
    /\ UNCHANGED <<phase, mem, nTasks, finished, stack, locals, result, open, queue>>

(* Mutant: channel queues are not roots (no marker is passed).             *)
GcRoots_NoQueues(kept) == UNION {Own(t) : t \in Unfinished}

(* mvm_gc_collect_with_marker: stacks and locals of the tasks that have    *)
(* not finished, and what waits in the channels. Results are no roots.     *)
GcRoots(kept) == UNION ({Own(t) : t \in Unfinished} \cup {queue[c] : c \in kept})

(* Mutant: a swept block is not taken out of the index.                    *)
GcCollect_KeepsIndex ==
    /\ Running
    /\ \E kept \in SUBSET open :
          LET closing == UNION {queue[c] : c \in open \ kept}
              swept   == tracked \ Reach(GcRoots(kept))
          IN  /\ alloc' = alloc \ (Released(closing) \cup swept)
              /\ child' = Emptied(Released(closing) \cup swept)
              /\ fault' = (fault \/ Faulty(closing))
              /\ open'  = kept
              /\ queue' = [c \in Chan |-> IF c \in kept THEN queue[c] ELSE {}]
    /\ UNCHANGED <<phase, tracked, sched, stack, locals, result>>

(* gc_collect(): channels the native collector finds unreachable are       *)
(* closed, then the tracked blocks that are not marked are swept.          *)
GcCollect ==
    /\ Running
    /\ \E kept \in SUBSET open :
          LET closing == UNION {queue[c] : c \in open \ kept}
              swept   == tracked \ Reach(GcRoots(kept))
          IN  /\ alloc'   = alloc \ (Released(closing) \cup swept)
              /\ tracked' = tracked \ swept
              /\ child'   = Emptied(Released(closing) \cup swept)
              /\ fault'   = (fault \/ Faulty(closing))
              /\ open'    = kept
              /\ queue'   = [c \in Chan |-> IF c \in kept THEN queue[c] ELSE {}]
    /\ UNCHANGED <<phase, sched, stack, locals, result>>

(* The task is over. Another one runs, or, when the rest is finished or    *)
(* blocked, the run ends. The finished task keeps its stack and locals.    *)
Leave ==
    /\ finished' = finished \cup {cur}
    /\ \/ cur' \in Unfinished \ {cur} /\ phase' = "run"
       \/ cur' = cur /\ phase' = "halted"

(* Mutant: the result is the stack's top itself, not a copy.               *)
Finish_Shares ==
    /\ Running
    /\ Leave
    /\ \E v \in stack[cur] : result' = [result EXCEPT ![cur] = v]
    /\ UNCHANGED <<mem, nTasks, stack, locals, open, queue>>

(* HALT and the end of the code copy the top of the stack, if any. *)
Finish ==
    /\ Running
    /\ Leave
    /\ \/ UNCHANGED <<mem, result>>
       \/ \E v \in stack[cur] : \E p \in Copies(v) :
          /\ CloneAndFree(p, {})
          /\ result' = [result EXCEPT ![cur] = p[1]]
    /\ UNCHANGED <<nTasks, stack, locals, open, queue>>

(* RETURN in the outermost frame moves it. *)
FinishReturn ==
    /\ Running
    /\ Leave
    /\ \E v \in stack[cur] :
          /\ result' = [result EXCEPT ![cur] = v]
          /\ stack'  = [stack EXCEPT ![cur] = @ \ {v}]
    /\ UNCHANGED <<mem, nTasks, locals, open, queue>>

(* An opcode or a syscall fails. *)
RunError ==
    /\ Running
    /\ phase' = "halted"
    /\ UNCHANGED <<mem, sched, stack, locals, result, open, queue>>

-----------------------------------------------------------------------------
(* main(): free_run_result, mellowrt_collect_garbage, mvm_free,            *)
(* mellowrt_collect_garbage again.                                         *)
FreeResult ==
    /\ phase = "halted" /\ phase' = "result_freed"
    /\ Free({result[0]} \ {Null})
    /\ result' = [result EXCEPT ![0] = Null]
    /\ UNCHANGED <<sched, stack, locals, open, queue>>

SweepNatives ==
    /\ phase = "result_freed" /\ phase' = "natives_swept"
    /\ \E kept \in SUBSET open :
          /\ Free(UNION {queue[c] : c \in open \ kept})
          /\ open' = kept
          /\ queue' = [c \in Chan |-> IF c \in kept THEN queue[c] ELSE {}]
    /\ UNCHANGED <<sched, stack, locals, result>>

(* Every task's values are released, then all tracked blocks are swept.    *)
FreeVm ==
    /\ phase = "natives_swept" /\ phase' = "vm_freed"
    /\ LET held == (UNION {Own(t) : t \in Tasks}) \cup ({result[t] : t \in Tasks} \ {Null})
       IN  /\ alloc' = alloc \ (Released(held) \cup tracked)
           /\ child' = Emptied(Released(held) \cup tracked)
           /\ fault' = (fault \/ Faulty(held))
    /\ tracked' = {}
    /\ stack' = [t \in Tasks |-> {}] /\ locals' = [t \in Tasks |-> {}]
    /\ result' = [t \in Tasks |-> Null]
    /\ UNCHANGED <<sched, open, queue>>

FreeChannels ==
    /\ phase = "vm_freed" /\ phase' = "done"
    /\ Free(UNION {queue[c] : c \in open})
    /\ open' = {}
    /\ queue' = [c \in Chan |-> {}]
    /\ UNCHANGED <<sched, stack, locals, result>>

Exited == phase = "done" /\ UNCHANGED vars

Next ==
    \/ PushNew \/ LoadLocal \/ StoreLocal \/ GetItem \/ Build \/ SyscallRaw \/ Drop
    \/ Channel \/ Send \/ Recv
    \/ Spawn \/ Switch \/ GcCollect \/ Finish \/ FinishReturn \/ RunError
    \/ FreeResult \/ SweepNatives \/ FreeVm \/ FreeChannels \/ Exited

Spec == Init /\ [][Next]_vars

-----------------------------------------------------------------------------
TypeOK ==
    /\ phase \in Phases /\ fault \in BOOLEAN
    /\ alloc \subseteq Block /\ tracked \subseteq alloc
    /\ child \in [Block -> Block \cup {Null}]
    /\ nTasks \in 1 .. MaxTasks /\ cur \in 0 .. nTasks - 1 /\ finished \subseteq 0 .. nTasks - 1
    /\ stack \in [Tasks -> SUBSET Block] /\ locals \in [Tasks -> SUBSET Block]
    /\ result \in [Tasks -> Block \cup {Null}]
    /\ open \subseteq Chan
    /\ queue \in [Chan -> SUBSET Block]

(* What a task that still runs, or a channel, holds.                       *)
Held == UNION ({Own(t) : t \in Unfinished} \cup {queue[c] : c \in open})

(* While the program runs, no collection and no release takes a block      *)
(* that a task which may still run, or a queued value, needs: it is        *)
(* allocated, and it is independently owned (core_part1.inc:222), held     *)
(* neither by two tasks or channels nor inside two values, so that         *)
(* releasing a raw value never takes memory from another holder.           *)
HeldBySoleOwner ==
    Running =>
        /\ Reach(Held) \subseteq alloc
        /\ \A t \in Unfinished : Reach(stack[t]) \cap Reach(locals[t]) = {}
        /\ \A t, u \in Unfinished : t # u => Reach(Own(t)) \cap Reach(Own(u)) = {}
        /\ \A c, d \in open : c # d => Reach(queue[c]) \cap Reach(queue[d]) = {}
        /\ \A t \in Unfinished, c \in open : Reach(Own(t)) \cap Reach(queue[c]) = {}
        /\ \A x, y \in Held : child[x] # y
        /\ \A x, y \in Held : x # y /\ child[x] = child[y] => child[x] = Null

(* core_part2.inc:168-169 - moves and copies are arranged so that the      *)
(* release of the VM frees nothing twice.                                  *)
NothingFreedTwice == ~fault

(* Where that holds: while the program runs, whatever it collects, and, for *)
(* a program that never spawned, also through the release of its result,   *)
(* of unreachable channels and of the VM, up to the last channels.         *)
FreedOnce == Running \/ (nTasks = 1 /\ phase # "done") => ~fault
=============================================================================

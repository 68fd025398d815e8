# Verification of the Mellow runtime

TLA+ models of the stateful parts of the Mellow programming language, checked with TLC, and theorems about them
checked with TLAPS. Paths are relative to the repository root; `native/` stands for `native/standalone/src/`,
`scheduling/` for `src/mellowlang/agents/scheduling/`, and a path that begins with a directory or file of
`src/mellowlang/` is written without that prefix.

## 1. The system

Mellow is a language with two implementations (a Python one and a native one) and a set of services around it.

| component | where | state | operations | what is hard |
|---|---|---|---|---|
| green threads and channels | `native/mellowrt_scheduler.c`, `mellowrt_core_part4.inc`, `mellowrt_syscalls_part*.inc` | table of tasks (program counter, stack, frames, locals, flags), current task, channels with their queues, registry of native handles | spawn, yield, send, recv, channel, exit, gc_collect | interleaving of tasks, blocking and waking, handles reachable only from other tasks or queues |
| value heap | `native/mellowrt_core_part1-3.inc`, `mellowrt_heap.inc` | tracked blocks and their index, raw blocks of syscalls, operand stacks, locals, results | load/store/pop/build/get, clone, release, mark and sweep, teardown | who owns a block, in which order a run is torn down |
| VM call frames | `native/mellowrt_core_part3.inc` | frames, local windows | call, return | windows must not overlap; pointers across realloc |
| native compiler, server, packages, libraries, embedding API, CLI | `native/mellowc*`, `mellowrt_server.c`, `_pkg*`, `_std*`, `_ai*`, `mellow_runtime.c`, `_main*` | syntax trees; one VM per request; downloads | compile, serve, install, run | large sequential transformations; lifetime of results |
| Python parser and compiler | `parsing`, `compiler` | syntax trees, labelled instructions, bytecode, flow graph | parse, lower, optimize, assemble | scoping of labels, what an optimizer takes for equal |
| Python VM and its debugger | `vm`, `playground/server.py` | stack, frames, variables, nested machines, pauses | execute, call, list.map, step | two interpreters of the same instructions |
| other engines | `fastlang`, `mvi`, `vm/cbridge_groups` | Python text; binary images with slots | transpile, encode, decode | must show what the first engine shows |
| ledger and saves | `ledger_core.py`, `save_core.py`, `vm/interp/call_save.py` | hash-chained entries; device secret, encrypted slots, signatures | post, verify, balance; commit, load, delete | rounding, tampering; several processes on one directory |
| agent job queue | `scheduling/queue.py`, `drain.py`, `paths.py` | `queue.json`, `dead_letter.json` | submit, drain (worker threads), retry, dead-letter, requeue | load-then-save without locks, crashes, torn files |
| agent schedules and triggers | `scheduling/jobs.py`, `runner.py`, `cron.py`, `webhooks.py` | cron jobs, triggers, webhooks, runner status | add, run due jobs, emit, receive | same pattern, plus callbacks that raise |
| agent control plane | `agents/control_plane_groups` | revisions, traffic split, metrics, alerts in one file | deploy, roll out, canary, roll back, report | consistency of revisions and traffic |
| agent packages | `agents/registry_groups`, `agents/manifests.py` | author's directory with archives and `agent.lock`, published and installed packages, download cache | build, publish, lock, install, install from a lock, remote install | several versions and cycles, archives left in the tree, commands killed half way |
| agent runs and workflows | `agents/runtime.py`, `workflow.py`, `policy.py`, `memory.py`, `observability.py` | memory file, numbered events, attempts | run, workflow with retries and parallel steps | threads that log together, callers that share a memory file |
| agent secrets and deployment | `agents/secrets.py`, `deployment.py` | secret files, bundles | add, remove, deploy | - |
| package registry server | `registry/server_groups` | index, tokens, archives | login, publish, describe, download | threaded handlers on shared files, partial publishes |
| packages of a project | `package_manager.py`, `packages` | manifest, installed tree, `mellow.lock`, import and runtime maps | add, install, update, remove, sync | several files changed one after the other |
| public registry worker, editor, SDK, UI, media | `apps`, `vscode-extension`, `sdk`, `frameworks`, `packages/npm` | hosted services, rendering | - | outside the repository's own state |

**How they interact.** A Mellow program is parsed, lowered, optimized when it has no control flow, and run by one of
four engines: the Python interpreter, the "fast" transpiler, the native machine on a binary image, or the standalone
native runtime. In the native machine, syscalls call into the libraries with pointers into the operand stack;
channels are native handles that live outside the value heap, but their queues hold heap values, so the native
collector asks the VM for roots and the heap collector asks the channels for theirs. The scheduler moves the loaded
stack, frames and locals in and out of the task table. Scripts keep books in ledgers and ledgers in saves. The agent
services, the registry and the package commands share nothing but files: HTTP handlers, CLI commands and background
runners all load, change and save the same JSON documents.

**What makes each part correct.** Green threads: only runnable tasks are dispatched, wakeups are not lost, a runnable
task is not starved, the run ends only when nothing can go on, live handles are not collected. Heap: what a running
program holds stays allocated, every block has one owner, nothing is freed twice. Job queue: an accepted job is in
exactly one place until done, runs a bounded number of times, survives crashes, and settles. Schedules: a job runs
once in its minute, counters claim no work that was not done, an acknowledged event reaches its job. Frames: the
windows of nested calls tile the locals. Compiler and VM: what a program shows is what its source means, whichever
engine runs it. Ledger: what is posted balances to the cent, and of a chain that was altered no entry passes that is
not the one posted in its place (entries cut off the end are not noticed). Saves: an acknowledged save
can be loaded, and what is loaded was saved under that name. Control plane: traffic points at revisions that take it.
Agents: an install that reports success has installed what it names and everything that needs (whole, unless the
publish of it was killed), a run that ended is remembered, a workflow reports the attempts that happened.
Registry: what the index says is what the archive holds. Packages: what a command reports as installed is installed
with its dependencies, and the lockfile says so.

`PROJECT.json` lists every component with its status and every hazard at its line.

## 2. Modules

| module | models | composed with |
|---|---|---|
| `GreenThreads` | scheduler, channels, native-handle collector | `MCGreenThreads` (symmetry), `GreenThreadsProofs` |
| `ValueHeap` | ownership in the value heap, collection, teardown | `MCValueHeap`, `ValueHeapProofs` |
| `JobQueue` | the file-backed job queue | `MCJobQueue`, `JobQueueProofs` |
| `Schedules` | cron jobs, triggers, webhooks, the background runner | `MCSchedules`, `SchedulesProofs` |
| `PackageCatalog` | abstract: what a registry offers and has stored | refined by `PackageRegistry` |
| `PackageRegistry` | the registry server and an installing client | `MCPackageRegistry`, `PackageRegistryProofs` |
| `PackageProject` | one project's manifest, packages, lockfile and maps | `MCPackageProject`, `PackageProjectProofs` |
| `ControlPlane` | one agent deployment and its commands | `AgentPlatform` |
| `AgentPackages` | building, publishing, locking and installing agents | `AgentPlatform` |
| `AgentRuns` | runs and workflows of agents | `AgentPlatform` |
| `AgentPlatform` | the agent commands side by side | `MCAgentPlatform`, `AgentPlatformProofs` |
| `Ledger`, `SaveSystem` | hash-chained books; the encrypted saves that hold them | `MCSaveSystem`, `SaveSystemProofs` |
| `MellowLang` | syntax trees and what they mean | all `Mellow*` modules |
| `MellowSource` | abstract: a run shows the lines its source means | refined by `MellowVM`, `MellowDebugger` |
| `MellowText`, `MellowParser` | the grammar, as a rendering of trees in two spellings; the parser | `MellowVM` |
| `MellowOptimizer`, `MellowCompiler` | optimizer passes; lowering and assembly | `MellowVM`, `MellowImage` |
| `MellowVM` | the Python interpreter, with the nested machines of `list.map` | `MellowDebugger` |
| `MellowDebugger` | debugging sessions over that interpreter | `MCMellowVM` |
| `MellowFlow` | basic blocks, dominators, loops, SSA form | `MellowEngines` |
| `MellowFast`, `MellowImage` | the fast engine; native images and the native stack machine | `MellowEngines` |
| `MellowEngines` | states that all readers of a program agree | `MCMellowVM` |

Definitions whose name has a suffix after an underscore, such as `LoadLocal_Shares`, are variants of the definition
without it that carry a plausible bug, each noted `Mutant:`; no specification uses them. They serve to show that the
properties notice. The types of `GreenThreads` are checked by a run and proved; those of the seven other
components with a proof module are proved (section 5). `TypeOK` of `MellowVM` only documents the shape of its state.
### 2.1 GreenThreads

Every action is one opcode of the current task; the bytecode is arbitrary, so the choice is free.
`status` folds `MTask.active/finished/blocked`, `waiting` is `waiting_native`, `operand` remembers that a blocked recv
left its program counter and operand in place and will be executed again, `held` is the set of channel handles in a
task's stack and locals, `live` the registry of native handles, `queue` the channels' FIFOs. Addresses are a small
set, so a new channel can come to lie where a freed one was.

- `Yield`, `Spawn`, `Finish` and `RecvBlock` dispatch through `IsNextRunnable`: the first ready task on the ring that
  starts behind the current one.
- `Send` wakes every blocked task (`mellowrt_scheduler_unblock_native_waiters(vm, NULL)`), each of which retries.
- recv has four outcomes: `RecvValue`, `RecvBlock`, `RecvNone` (nobody else can run) and `RecvDangling` (the handle's
  channel is gone, the syscall fails).
- `GcCollect` computes the least closed set of handles that contains the current task's, and frees the rest. It looks
  at no other task because the code does not.
- `OpcodeError` and `SendDangling` end the run as `set_error` does.

Abstracted: scalars and ordinary values (`Payload`), arithmetic, frames, task deadlines, files and streams as native
handles. A handle that another task holds may be freed; using it is undefined in C, and the model takes the outcome in
which the freed block's magic number no longer matches. The run that shows this defect does not depend on that choice.

### 2.2 ValueHeap

A block is `alloc`ated or not, `tracked` by the heap's index or raw, and contains at most one other value (`child`).
`stack` and `locals` are the sets of blocks a task owns there, `result` is `out->result` and `task->result`. Opcodes
copy (`LoadLocal`, `GetItem`, `Send`, `Spawn`), move (`StoreLocal`, `Build`, `Recv`, `FinishReturn`) or release
(`Drop`, `PushNew`). `GcCollect` first closes the channels the native collector found unreachable (any subset: which
ones is `GreenThreads`' business), then sweeps what is not marked. After the run, `FreeResult`, `SweepNatives`,
`FreeVm` and `FreeChannels` follow `mellowrt_main_part2.inc` line by line. `fault` records a release of memory that
is not allocated.

Which task runs next is open (`Switch`, `Leave`); scalars are left out because they own nothing. A freed block's
content is reset, since `calloc` hands it out empty.

### 2.3 JobQueue

Each process (`Procs`) performs one operation at a time. `loc[p]` holds the local variables of that operation: the
program counter, the loaded queue, the loaded dead letter. Every load, every save and every callback is a step, and a
save is two: the file is truncated, then written, as `Path.write_text` does (`Truncate`, `WriteQueue`, `WriteDlq`);
`Load` of a truncated file is the empty default, as `_load_json` answers. A drain keeps at most `Workers` items under
way, and saves only when all are through (`DrainDone`). `Crash` forgets the locals. Backoff delays are abstracted to
"may or may not have passed": a drain considers any subset of the retry items. The payload, the callback's answer and
the queue's bookkeeping of times are left out. A job's identity is a number, because ids are fresh uuids. `orphaned`
(jobs requeued by a process that died before it saved the queue), `tornCrash` (a crash cut a file) and `revived`
(requeues) are history.

### 2.4 Schedules

Jobs, triggers, webhooks and the runner's status are four files; each load and each save is a step of its own, a save
truncates first. Time is a number of minutes; a cron expression is a minute field and an hour field (`Matching`), with
`Hour` minutes in an hour and `Day` hours in a day, and `NextRun` probes at most `MaxProbe` minutes ahead and raises
behind that, as `next_run` does after 31 days. `run_due_jobs` gathers the due jobs, runs each callback (which may
raise), and saves its copy at the end; `run_background_runner` repeats that and reports what became of it. `Receive`
finds the first webhook of a name. The stored `next` is never consulted: due is what matches now and did not run in
this minute, so minutes nobody was awake in are skipped. Left out: the date and weekday fields, rejected tokens, the
queue-backed runner (a drain of `JobQueue`), the server's status files and listings. Two findings are written into the
properties' premises: a job whose next run is out of reach runs, but its round is not saved and its runner dies; and
runners that overlap run a job more than once in a minute.

### 2.5 PackageRegistry, PackageCatalog

The server is threaded: a handler loads, changes and rewrites whole files. A publish writes archive, `meta.json` and
index in that order; a download counts itself by rewriting the index. The client reads the description, downloads,
compares the checksum and caches the archive. `PackageCatalog` has two variables, what is stored and what is offered;
`CatalogSpec` states that the server implements it: nothing is offered that is not stored, nothing stored is
forgotten, whatever is lost in races. Search, author profiles and signatures only read and are left out.

### 2.6 PackageProject

One variable per file: `manifest`, `installed`, `lock`, `importMap`, `runtimeMap`, plus the remote and the local
registry and the imports of the project's source. A version such as 12 stands for 1.2; a spec is a comparison with a
version. An update changes a package whose version is not the registry's last; what is not installed counts as the
version in the lockfile (`Current`). Commands (`add`, `remove`, `install`, `uninstall`, `update`, `sync-imports`,
`resolve-runtime`) are sequences of steps, each of which changes one file, and a recursion over
dependencies is a work list with the visited `name@version` pairs. A
download may fail, an extraction may fail half way, and the process may die at any step. `Torn` is a lockfile that was
truncated and not written; it reads as the empty default. `slips` counts what may put the lockfile out of step with the
installed packages: interruptions, failed extractions, installs that write no lock, and starter packages that stand in
for another version. `ProjectAssumption` says that names and releases are finitely many and dependencies are names with
a specification; the catalogue may be circular and miss packages that others depend on. Left out: aliases,
`with_deps=False`, the host-module allowlist, the preloading of starters for a fresh `mellow.json`, torn manifests
and maps, completion of names by prefix, and the search for the project directory.

### 2.7 The agent commands

**`ControlPlane`.** 
One deployment: its revisions with status, the current one, the traffic split, metrics history, alert rules and
alerts. A process is one command: `Load`, then the command's change, then `Truncate` and `Write`, which is what
`_save_state` does. Percentages are taken from `Percents` and `Splits`, which contain values out of range because the
code clamps them. Left out: the remote transport, which sends the same commands over HTTP, and the listings.

**`AgentPackages`.** A version of a package is a release (`Own` for the author's); a tree is what a directory holds,
archives and `agent.lock` included, and stands for its archive and for that archive's sha256, because archives are
written reproducibly. A published directory (`Dir`) is a tree beside its `agent.toml`, the archives in it and its
`agent-manifest.json`. One command is under way at a time (`task.pc`), one file operation is one step, and `Killed` may
end it at each; a publish that is killed while it removes the old directory leaves any of its files (`Remnants`), one
that is killed while it copies leaves any part of the new one, files cut short among them (`PartCopies`). What is left
is read as the code reads it: the dependencies from `agent-manifest.json` or else `agent.toml` (`Manifest`), the hash
from the first archive or else `agent-manifest.json` (`LocalSha`), and where there is no archive an install copies the
directory as it lies (`Unpacked`). An install is a stack of frames, one for each package that
waits for its dependencies, as the recursion of `install_agent_package` is; `seen` is `_seen`. The registry's order of
versions is that of strings
(`Rank`, any numbering of versions in the assumption), what an install resolves to is the least set closed under
dependencies (`Resolved`), and the archive that `_local_archive_and_sha` takes is the first one listed, in an
order the file system chooses. Left out: signatures, tokens, search, names that need normalising.

**`AgentRuns`.** A caller is a command or a thread of `mellow agent serve`; each builds its own runtime (`MakeRuntime`,
which fails on a memory line that does not parse) and appends to the agent's memory file (`Remember`). Every deadline
check may fail. A workflow's step is attempted, its tools run in threads (`BeginAttempt`), each event is numbered by
three steps (`CountEvent`, `ReadCount`, `AppendEvent`), because `_seq` is counted and read again without a lock, and
the step ends when all its threads have (`EndAttempt`). A time limit is checked when a step is over.

**`AgentPlatform`** puts the three beside each other: the groups share no file, so a behaviour follows the commands of
one group, and the others' state stays as it is.

### 2.8 Ledger, SaveSystem

A book is a sequence of entries that hold the hash of the one before; a hash is the value it is taken of. Amounts are
tenths of a cent, so that rounding is visible. `SaveSystem` has several game processes on one directory: device
secret, slots, temporary files that have the same name for every process. A builtin re-reads the secret each time and
makes one if there is none; a blob opens with the secret and the name it was sealed with and with nothing else. Kills
strike between any two file operations, edits change a plain book a game passes on. A caught error is not modelled: an
error ends the script. App ids, the size quota and paths are left out. Games verify the plain book they read. Edits
change, remove or reverse entries and put any hash that is in the book at its head; they compute no hash. `stored`
remembers the book as it was last passed on. `Script` says which transactions a game posts, and in which order.

### 2.9 The language: MellowLang to MellowDebugger

`MellowLang` says what a syntax tree means, as an evaluator over states; values are integers, none and lists.
`MellowText` writes trees down by the grammar of `docs/LANGUAGE_SPEC_2_9.md`, with as few brackets as it allows, in
two spellings, and `MellowParser` reads them back, so the parser is checked against the documented grammar and not
against itself. `MellowCompiler` lowers trees to labelled instructions, as `compiler/lowering` does, `MellowOptimizer`
is applied where the compiler applies it (programs without labels), and `Assemble` turns labels into addresses.
`MellowVM` executes: one opcode is one step, `list.map` pushes a nested machine, which has its own instruction
semantics (`KeepNested`, `StricterNested`, `CallNested`, `ReturnNested`, and a jump of its own in `GoTo`) because the
code has a second implementation of the instructions. `SourceSpec` is `MellowSource` under the
mapping "lines shown, ended": every step of the machine shows the next line the source means, or stutters.

`MellowFlow` works out blocks, dominators, loops and SSA form as `compiler/optimizations/graph.py` does; `FlowIsKnown`
compares that with the paths of the graph. `MellowFast` is Python's meaning of the transpiled text; `MellowImage`
lowers bytecode to an image with slots and runs it. `MellowDebugger` adds pauses and commands.

Where the code is known to depart from the documents, the programs of `MCMellowVM` keep away from it, and section 4
lists the departures; each was seen as a counterexample while the model was being written.

## 3. Runs

| run | shows | properties | bounds |
|---|---|---|---|
| `green_safety` | scheduling is safe under every interleaving; no runnable task starves | `TypeOK CurrentIsReady NoLostWakeup HaltIsQuiescent SoleTaskSafe ReadyRuns` | 3 tasks, 2 addresses, queue of 1 |
| `green_dangling` | **violated**: a collection frees a channel another task holds | `NoDanglingHandle` | 2 tasks |
| `heap_owners` | held values stay allocated and have one owner; nothing is freed twice while the program runs | `HeldBySoleOwner FreedOnce` | 4 blocks, 1 channel, 2 tasks, queue of 1 |
| `heap_unread` | **violated**: an unread message is freed twice at exit | `NothingFreedTwice` | 3 blocks, 1 channel |
| `queue_all` | jobs are neither lost, copied nor over-run without overlaps, a crash loses only what a torn file or a half requeue can take, no file shows a half-processed item, repeated drains settle what is left | `ExactlyOnePlace RunsBounded OnlySettledItemsAreSaved CrashKeepsJobs JobsSettle` | 2 processes, 2 jobs, 2 attempts, 1 requeue, 4 runs a job, 1 overlap, 1 fault (119 377 states) |
| `queue_lost` | **violated**: a drain erases a job submitted meanwhile | `AcceptedIsFetchable` | 2 processes |
| `schedules` | counters claim no work that was not done, a job runs once a minute, acknowledged events are queued, a runner reports its end | `CountersAreCovered OnceAMinute EventsAreQueued RunnerReportsItsEnd` | 2 processes, 3 calls, 2 minutes, 2 rounds, 1 fault (569 311 states) |
| `registry` | what is offered can be fetched, what was acknowledged is offered, an install is what the description says; the server implements the catalogue | `AckedIsFetchable InstalledAsDescribed CatalogSpec` | 2 publishers, 2 versions, 2 publishes, 1 login, 2 fetches, 1 crash (77 628 states) |
| `project` | commands end with all dependencies installed, the lockfile falls out of step by one package per slip | `ClosesDependencies OneSlipOnePackage SyncDelivers CommandsEnd` | 3 names with a dependency cycle, two versions of one, a starter; 2 commands, 1 fault (873 982 states) |
| `agents` | control plane: traffic goes to revisions that take it, acknowledged deployments stay, replicas and alerts follow the newest reports. Packages: what an install reports is installed, with all it depends on, whole unless its publish was killed. Runs: ended runs are remembered, attempts and numbers of events are what happened | `TrafficGoesToLive AckedRevisionKept DerivedFollowsReports ReportedIsInstalled InstallClosesDependencies EndedRunsAreRemembered AttemptsAreReported EventsNumberedInOrder` | control plane: 2 processes, 2 bundles, 3 revisions, 5 calls, 1 crash; packages: 3 names in a cycle, 2 versions of two of them, 4 commands with an install last, 1 kill; runs: 2 callers, 3 runs or a workflow, 1 retry, 1 failed append, 1 reinstall (1 325 365 states in all, 710 492 of them of packages) |
| `vm` | programs show what their source means in every engine, also when debugged; their flow graph is right | `FlowIsKnown EnginesAgree SourceSpec` | 491 programs of at most 1000 steps, 5 of them also debugged (about 41 000 states) |
| `saves` | acknowledged saves load, what loads was saved, books balance, an edited book that verifies is the stored one or a beginning of it | `AckedLoads QuotaBound BooksBalance EditsOnlyShorten LoadsAreCommits` | 2 games, 1 slot, 4 transactions, books of up to 3 entries, 1 fault (1 143 215 states) |

**Why the bounds are enough.** Three tasks are the least with a current task, one that waits and one that sends, and
the least for which the ring's order matters. Two addresses let one channel's handle travel through another and let an
address be used again after a free; chains of any length through queues are covered by the proof of
`SoleTaskNeverDangles`. Four blocks hold two nested values at once, so every pair of owners can exist. Two processes
on the same files give every pair of overlapping operations; a third adds no new conflict, since a save overwrites
whatever was there. Two jobs let one be moved beside another. `MaxRuns` bounds how often a job is rerun under crashes
and overlaps: it only stops drains from taking up a job that already ran that often. One fault is enough for every
"cut in two" of a sequence of file operations; the properties that speak of faults count the damage per fault. The
package catalogue has a cycle, a diamond through a starter, and two versions of the package that everything depends
on, which are the three shapes the recursion treats differently. The programs of `vm` combine every statement with
every other as body, and early exits with every kind of enclosing loop; 3 breakpoint sets and 3 commands suffice for
each kind of step to follow each other one. Of `agents`, the published packages have
a cycle and a diamond over two versions of one package, and four commands suffice to build, edit, publish and install,
or to lock, publish and install from the lock; a publish that is cut off and the install of what it left are two of
them. The last command allowed is an install, because only installs report something. Books of three entries are the
least with a middle: the edits of `saves` take it out, swap its neighbours, change it, or cut the end off. In the part
about runs a workflow has the bound for itself (`Weight`): it writes no memory, and nothing that other callers do
reaches it. Only its third step, the one with the tools, may exceed its time (`SlowSteps`).

Deadlock is checked where the modelled system does not stop: `Terminated` in `GreenThreads` and `Exited` in
`ValueHeap` stutter once the program has ended, and only then; in `JobQueue` an idle process can always start another
drain. `schedules`, `registry`, `project`, `agents`, `vm` and `saves` say `CHECK_DEADLOCK FALSE`: their processes
stop when they have made the calls the bounds allow, or the program has ended.

**Fairness.** `GreenThreads!FairSpec` assumes weak fairness of `Yield` and of `Retry`: the program is cooperative and
its running task sooner or later yields, and the opcode loop executes a pending recv without being asked. Nothing is
assumed of send, recv, spawn, collection or exit. `JobQueue!FairSpec` assumes weak fairness of an operation's own
steps (code that is running continues) and strong fairness of starting a drain that finds all waiting retries ready:
`run_background_runner` (`scheduling/runner.py:66-83`) drains again and again, and a backoff delay is finite.
`Schedules!FairSpec` and `PackageProject!FairSpec` assume weak fairness of a started command's next step.
`MellowVM` assumes it of the machine, `MellowDebugger` also that the user goes on with a paused session: the
abstract specification says that a run ends, and a pause nobody ends is no run. No fairness is assumed of callbacks'
success.

## 4. What the checks say of the code

Three runs are violated, each by what the code does against what the repository says.

1. `green_dangling`: `native/mellowrt_syscalls_part1.inc:205` - the native collector marks only the calling task;
   `docs/SYNTAX_REFERENCE.md` says it marks from "VM stack/locals/task state".
2. `heap_unread`: `native/mellowrt_syscalls_part1.inc:4` - the VM's heap is swept before channels are closed: unread
   values are freed twice.
3. `queue_lost`: `scheduling/drain.py:115` - a drain saves the queue it loaded before it ran the callbacks, so a job
   accepted in between disappears.

The first two were also reproduced with a sanitizer build of the native runtime. `FreedOnce` says where nothing is
freed twice, and its exceptions are real: besides unread messages, the values a finished task still holds are swept by
another task's `gc_collect()` (`native/mellowrt_core_part1.inc:78` skips finished tasks) and freed again with the VM.
With `Chan = {}` and `MaxTasks = 2`, TLC finds `NothingFreedTwice` violated that way.

Further departures met while modelling. They are modelled as the code has them, and the premises of the properties or
the inputs of the runs keep them apart:

- **Tasks.** Tasks blocked in recv, the main program included, are abandoned without an answer when the last runnable
  task finishes (`native/mellowrt_core_part4.inc:99`; `docs/STDLIB_REFERENCE.md:30` promises a value or `none`).
- **Job queue.** Two worker threads append to the dead letter without a lock (`scheduling/drain.py:36`), and one entry
  is lost; `queue_all` has one worker.
- **Parser.** A condition is the text between the first "(" and the last ")" (`parsing/block_core.py:143`, against
  `docs/LANGUAGE_SPEC_2_9.md:80`); tokens behind an expression are ignored, so `print (1) + (2)` prints 1; a name that
  begins with a keyword is taken for a statement; `end` after an if ends the enclosing block; `**` associates to the
  left.
- **Lowering and VM.** Parameters are bound in reverse (`sub(5,3)` is -2, `compiler/lowering/statements.py:219`);
  `continue` in a for loop misses the increment's label (`docs/SYNTAX_REFERENCE.md:492-500`); the limit of a times loop
  is evaluated again in each round, and a range always counts up to below its end; scoping is dynamic; modulo by zero
  is none; in a skill handed to `list.map`, `let` is ignored, errors are ignored, and a jump lands one instruction
  early (`vm/interp/invocation.py:131`).
- **Optimizer.** `x = [1]`, `y = [2]`, `a = x == y`, `x = [2]`, `b = x == y` prints a stale `b`
  (`compiler/optimizations/rewrite.py:80`; value numbering ignores lists).
- **Flow graph.** Dead blocks behind break, return and continue count among the predecessors of what follows and take
  dominators away; the SSA walk does not reach what no edge enters, skill bodies among it; a loop header that is the
  entry gets no phi. Of all passes only the straight-line ones are reachable from the compiler.
- **Fast engine.** `and`/`or` give an operand; remainder by zero and comparisons with none raise; a range includes its
  end; a call before its skill's definition, a missing argument and a top-level return raise. Of 490 trees 58 differ.
- **Native images.** A skill is taken for ended behind its first RETURN; every name a skill mentions gets a slot of its
  own, so a global it reads is none; surplus arguments are accepted; a program without skills that calls an unknown
  name starts again at its first instruction.
- **Debugger.** "continue" never leaves a breakpoint (`vm/debugger_groups/stepping.py:88-90`); every pause counts as an
  executed step; step_out in the main program never pauses; nested machines never pause.
- **Engine choice.** `vm/vm.py` names an undefined `e` in one of its fallbacks; engine "auto" runs a program again from
  its start when the native machine failed part way.
- **Saves.** An unsigned load leaves `$signature` in the buffer, and the next signed load of it fails
  (`vm/interp/call_save.py:160`, `docs/STDLIB_REFERENCE.md:297-299`); slot names are folded to file names, so two can
  share a file.
- **Ledger.** `verify` does not notice entries cut off the end when the head is set back to the last hash left
  (`ledger_core.py:137`): a book does not say how long it is. `docs/LEDGER_CORE.md` asks hosts to anchor audit records
  outside under "Security Boundary". `EditsOnlyShorten` says that an edit can do no more than this.
- **Registry and packages.** A republish overwrites (`registry/server_groups/store.py:85-88`;
  `docs/PACKAGE_SYSTEM_2_9.md:209` says it is rejected); torn index and token files read as empty; a starter stands in
  for any declared version and the lockfile stores the specification (`docs/LOCKFILE_AND_IMPORTS.md:12`); a remove
  whose directory is missing keeps the lock entry (`docs/CLI_160.md:16`); a plain `pkg install` writes no lock; an
  update takes the version published last and ignores the specification.
- **Control plane.** A rollback without a revision may promote the canary.
- **Agent packages.** `build` leaves its archive in the package directory, a later publish copies it, and an install
  of the new version may unpack the old one (`agents/registry_groups/lock.py:20`). A publish killed in `rmtree` or
  `copytree` (`archive.py:65-66`) leaves part of a directory. Where that has an `agent.toml` and no archive, an install
  copies what lies there and answers ok (`install.py:76-106`; the docstring in line 1 speaks of "verified archive");
  without `agent-manifest.json` too there is no hash to compare with the lock's (`install.py:90`), and with it the hash
  compared is the one the manifest names (`lock.py:23-27`), not one of the files. Where nothing is left, dependencies
  resolve to another version. An install from the lock resolves dependencies
  anew, to the newest version that fits; versions are ordered as strings, so 9.0.0 is newer than 10.0.0.
- **Agent runs.** A memory line cut short makes every later run of the agent fail (`agents/memory.py:31`); parallel
  tools can get the same event number (`observability.py:31-33`); the `retries` of a parallel child are ignored, and a
  time limit is noticed only when the step is over (`workflow.py:41-49`).
- **Deployment.** A bundle's `package` directory is created and left empty (`agents/deployment.py:166`), and every
  revision of the control plane points at the same bundle directory.

## 5. Proofs

Eight modules hold theorems, each beside the component it is about. All theorems are for every value of the constants
that the component's named assumption allows (`ConstAssumption`, `HeapAssumption`, `QueueAssumption`,
`ScheduleAssumption`, `RegistryAssumption`, `ProjectAssumption`, `ControlAssumption`, `PackagesAssumption`,
`RunsAssumption`, `SaveAssumption`): any number of tasks, processes, callers, jobs, versions, games and faults. Those
assumptions say that bounds are numbers, that a torn file is no document (and a cut line no line), that "none" is no
value and that a directory lists a file once. The rest comes from the code: a file's own stem is a slot name that gets
that file (`save_core.py:78-83`), a limit of 0 slots stands for 10 (`call_save.py:29`), rows of a transaction have an
account and a number (`ledger_core.py:79-84`), and the registered tools are among those asked for. Bounds such as
`MaxJobs` stay constants: the theorems hold for all of them.

| module | theorem | states |
|---|---|---|
| `GreenThreadsProofs` | `TypeCorrect`, `DispatchesReadyTasks`, `WakeupsAreNotLost`, `HaltsOnlyWhenQuiescent`, `SoleTaskNeverDangles` | the five safety invariants of `green_safety` |
| `ValueHeapProofs` | `HeapTypes`, `ValuesHaveOneOwner`, `FreedOnceWhileRunning` | `TypeOK`, `HeldBySoleOwner`, `FreedOnce` |
| `JobQueueProofs` | `QueueTypes`, `SettledItems`, `RunsAreBounded`; with one worker `CrashesKeepJobs`, `OnePlaceEach` | `TypeOK`, `OnlySettledItemsAreSaved`, `RunsBounded`, `CrashKeepsJobs`, `ExactlyOnePlace` |
| `SchedulesProofs` | `ScheduleTypes`, `CountersCovered`, `JobsRunOnce`, `EventsReachTheQueue` | `TypeOK`, `CountersAreCovered`, `OnceAMinute`, `EventsAreQueued` |
| `PackageRegistryProofs` | `RegistryTypes`, `InstallsMatch`, `AckedFetchable`, `ImplementsCatalog` | types, `InstalledAsDescribed`, `AckedIsFetchable`, the refinement of `PackageCatalog` |
| `PackageProjectProofs` | `ProjectTypes`, `DependenciesClosed`, `SyncComplete`, `LockInStep` | types, `ClosesDependencies`, `SyncDelivers`, `OneSlipOnePackage` |
| `AgentPlatformProofs` | `ControlTypes`, `TrafficIsRouted`, `DerivedIsCurrent`, `AckedAreKept` | of the control plane: `TypeOK`, `TrafficGoesToLive`, `DerivedFollowsReports`, `AckedRevisionKept` |
| | `PackagesTyped`, `ReportTrue`, `InstallClosed` | of packages: types, `ReportedIsInstalled`, `InstallClosesDependencies` |
| | `RunTypes`, `WorkflowsReport`, `EventsInOrder`, `EndedRunsRemembered` | of runs: types, `AttemptsAreReported`, `EventsNumberedInOrder`, `EndedRunsAreRemembered` |
| | `PlatformKeepsPromises` | all of these of `PlatformSpec`, the specification the run checks |
| `SaveSystemProofs` | `SaveTypes`, `OnlyTheEndIsCut`, `BooksAlwaysBalance`, `LoadsCommitted`, `QuotaKept`, `AckedSavesLoad` | types, `EditsOnlyShorten`, `BooksBalance`, `LoadsAreCommits` (an action property), `QuotaBound`, `AckedLoads` |

The argument is the same everywhere: a property of the files is not inductive, because what a process is about to save
decides what the file will hold; the inductive invariant speaks of the copies in the processes too, step by step. TLC
checked each of them on the run's instance before it was proved.

- **`GreenThreads`.** The four scheduling invariants are inductive only together (`SchedInv`): that a halt is quiescent
  needs that blocked tasks wait on empty channels; that this survives a collection, which empties the queue of a freed
  channel, needs the type of `queue`; that the dispatched task is in the table needs `IsNextRunnable`'s guard.
  `SoleTaskSafe` says nothing of queues, out of which handles come; `SoleInv` says that everything reachable from the
  task's handles through queues of live channels is live, by three lemmas about what a collection marks.
- **`ValueHeap`.** `HeapInv` gives every block one owner among tasks, channels and the result, and adds what the
  property does not say: slots of tasks not yet spawned own nothing, nothing waits in channels that are not open, and a
  program of one task keeps sole ownership from its end to the release of the VM. `FreedOnceWhileRunning` has the
  conditions of `FreedOnce`: the program is running, or it has ended, never had a second task and its channels are not
  yet being closed; outside of them values are freed twice (section 4). Moves of a value between owners are
  lemmas about `Owned`.
- **`JobQueue`.** `LocalSettled` follows each candidate of a drain through its phases up to the save of the snapshot.
  `KeepsInv` and `ApartInv` say, for the one process at work (`Mine`), which of the two files and its own lists has each
  accepted job at each step. Both assume `Workers = 1`: two worker threads save `dead_letter.json` over each other
  (`scheduling/drain.py:36`), and with them the properties are false. `BoundInv` needs no such assumption. It counts,
  for each job, its copies (`Count`) and the runs these are still good for (`Tries`: an attempt left each, or one for an
  item requeued after its last) in both files and in the lists of the process at work. A drain moves chances into runs
  and leaves the file as it was, so that what a crash can leave behind is twice what there was (`Twice`): up to
  2^crashes copies of a job, each with its chances. Between operations the files hold what the bound allows (`Once`).
- **`Schedules`.** `CountInv` covers the counters in documents about to be saved by the runs and events they count;
  `OnceInv` says of every document in memory that its jobs' last minutes are those of the file or the current round's,
  under `InTurn` (without overlaps at most one process is at work); `EventsInv` names, step by step of emit and add,
  which file has the trigger, the hook and the items.
- **`PackageRegistry`.** `ChecksumInv` ties what a client has fetched to what the description said; `FilesInv` says that
  every copy of the index, stored, loaded or about to be saved, describes files that are there; `AckedInv` that the
  handler about to save the index has every acknowledged version in its copy. `ImplementsCatalog` is the step simulation
  under the refinement mapping of `PackageRegistry`.
- **`ControlPlane`.** `DocsInv` says that the file is torn or `Fit` and so is the document of every caller, whichever of
  them overlap; each command preserves `Fit`, which is where the arithmetic of the normalised shares is. `AckedInv` is
  for callers that take turns.
- **`PackageProject`.** What a command visited has its dependencies met, which means installed or still in the work list
  (`VisitedInv`), in the version that `VerOf` recovers from the lock entry; that is why a name visited before may be
  skipped, in a cycle too. What a command touched is either under way or there with its dependencies met (`TouchedInv`).
  An import stays `InHand`: still to be looked at, there, or being installed with the registry to fall back to. For the
  lockfile, `Off` is the set of names at which the lockfile that stands or is `Coming` differs from what is installed.
  `SlipInv` bounds its size by `slips`, with an `Allowance` for a slip counted before the files show it, and says that
  the lockfile about to be written changes at one name at most, so that a crash before the write costs one.
- **`AgentPackages`.** `StackInv` follows the recursion of an install: packages on the stack have met the dependencies
  they are done with, and whatever was seen and is no longer on the stack is as the registry directory has it and needs
  nothing that was not seen; so the packages seen are closed at the end and contain `Resolved`, the least closed set.
  `InstallInv` carries that over to the roots of an install from the lock, and `FoundOK` says what holds of each archive
  reported. `ShelfInv` and `WriterInv` say which half-written directories a publish
  under way or killed can leave: only those have no archive, and only a package that lies like that (`AsItLies`) may be
  installed in part. That the directory is installed exactly as it lies is stated of these too.
- **`AgentRuns`.** Per job: `Reports` counts its events exactly, tool by tool and attempt by attempt, a thread that has
  counted but not appended apart; `Numbered` gives the exact number of events counted and not yet appended. `MemoryInv`
  says where the lines of a run under way are, and that ids of runs are their own.
- **`SaveSystem`.** `ChainInv`: the head of a book the ledger made is the head of no other book that verifies
  (`PostUnforgeable`, by the last entry, which has the head of the book before in it), and every hash in the plain book
  is the head of a book made on the way to the stored one (`Starts`), since edits make no hash. A plain book that
  verifies is therefore one of those, which is a beginning of the stored book. `QuotaInv` counts files together with
  those the commits under way will place. `OneMaker` and `OneWriter` say whose the temporary files of the secret and of
  a slot are, and what is in them, as long as no two games write them at a time. `BooksInv`: every book made is sound,
  that is, it verifies and its amounts are integers. That the accounts of a sound book sum to zero needs two facts
  about sums of any length: amounts are rounded once (`RoundedOnce`), so that what is kept adds up to what was checked,
  and a table adds up to the same by rows and by columns (`SumByColumns`). The recursive function behind `SumFunction`
  is shown to exist (`SumsExist`), and `EverySubset` stands for induction over finite sets: it takes the set of those
  that have the property, not an operator, and rests on the least size of a set that is not in it.

**Only model-checked.** `FlowIsKnown` and `EnginesAgree`: the `Mellow*` modules are built from RECURSIVE operators over
syntax trees, of which the proof system can prove nothing. Liveness (`ReadyRuns`, `JobsSettle`, `RunnerReportsItsEnd`,
`CommandsEnd`, the end of a run in `SourceSpec`) and ENABLED are beyond it.

## 6. Plan

1. **`Mailboxes`** - an abstract specification of tasks with mailboxes, in which recv is one atomic choice between a
   value, waiting and none; `GreenThreads` refines it. It composes the two collectors' view of a channel.
2. **`CallFrames`** - calls and returns in the task-local arrays: windows tile the locals, a return restores the
   caller; a second run with the stale frame pointer as a nondeterministic read.
3. **Events in `MellowVM`** - `emit` re-enters the opcode loop on the same machine.
4. **Engine choice and fallback of `mellow run`**; **`EmbeddedTeardown`**, the embedding
   API's order of collections as a second specification over `ValueHeap`.

## 7. Not modelled

The lexer, linters, language server, media codecs and HTML generation are sequential transformations of text and
bytes. The optimizer's passes over several basic blocks cannot be reached from the compiler, which optimizes only
programs that are one block. The native compiler, libraries, packages and server are twins of Python parts, or
sequential I/O; sockets and rendering are outside what a model checker reaches; numeric and AI libraries too. The
hosted registry worker depends on a database whose guarantees are not in the repository. `mellowvm`, `melv` and `sm`
are earlier native parts that the current runtime does not call for the behaviour modelled here. Memory exhaustion (a
failing `malloc`) is left out everywhere.

-------------------------- MODULE GreenThreadsProofs --------------------------
(* Proofs about GreenThreads for every number of tasks, set of addresses,  *)
(* set of payloads and queue bound.                                        *)
EXTENDS GreenThreads, TLAPS

(* The scheduler only ever selects a runnable slot of the task table.      *)
LEMMA NextRunnableIsReady ==
    ASSUME NEW st, NEW t, IsNextRunnable(st, t)
    PROVE  t \in Active /\ st[t] = "ready"
  BY DEF IsNextRunnable, Ready

-----------------------------------------------------------------------------
(* Safety of scheduling: the four invariants are inductive together.       *)

SchedInv == TypeOK /\ CurrentIsReady /\ NoLostWakeup /\ HaltIsQuiescent

LEMMA InitSchedInv == Init => SchedInv
  BY ConstAssumption
     DEF Init, SchedInv, TypeOK, CurrentIsReady, NoLostWakeup, HaltIsQuiescent,
         Active, Slot, Status, Msg

(* Every action leaves the state well typed.                               *)
LEMMA TypeStep == TypeOK /\ Next => TypeOK'
  <1> SUFFICES ASSUME TypeOK, Next PROVE TypeOK'
    OBVIOUS
  <1> USE ConstAssumption DEF Active, Slot, Status
  <1>1. CASE Yield
    BY <1>1, NextRunnableIsReady DEF TypeOK, Yield
  <1>2. CASE Spawn
    BY <1>2 DEF TypeOK, Spawn, Fresh
  <1>3. CASE Channel
    BY <1>3 DEF TypeOK, Channel, Msg
  <1>4. CASE Drop
    BY <1>4 DEF TypeOK, Drop
  <1>5. CASE Send
    <2>1. queue' \in [Addr -> Seq(Msg)]
      BY <1>5 DEF TypeOK, Send, Msg
    <2>2. /\ status' \in [Slot -> Status]
          /\ waiting' \in [Slot -> Addr \cup {Null}]
          /\ \A t \in Slot : status'[t] = "unused" <=> status[t] = "unused"
      BY <1>5 DEF TypeOK, Send, Wake, Unblocked
    <2> QED
      BY <1>5, <2>1, <2>2 DEF TypeOK, Send
  <1>6. CASE RecvValue
    <2>1. PICK a \in live : /\ queue[a] # <<>>
                            /\ queue' = [queue EXCEPT ![a] = Tail(@)]
                            /\ held' = [held EXCEPT ![cur] = @ \cup ({Head(queue[a])} \cap Addr)]
      BY <1>6 DEF RecvValue
    <2>2. queue' \in [Addr -> Seq(Msg)]
      BY <2>1 DEF TypeOK
    <2>3. held' \in [Slot -> SUBSET Addr]
      BY <2>1 DEF TypeOK
    <2> QED
      BY <1>6, <2>2, <2>3 DEF TypeOK, RecvValue
  <1>7. CASE RecvBlock
    <2>1. PICK a \in live : /\ status' = [status EXCEPT ![cur] = "blocked"]
                            /\ waiting' = [waiting EXCEPT ![cur] = a]
                            /\ operand' = [operand EXCEPT ![cur] = a]
      BY <1>7 DEF RecvBlock
    <2>2. nTasks' = nTasks /\ cur' \in Active
      BY <1>7 DEF RecvBlock
    <2>3. a \in Addr /\ cur \in Slot /\ cur \in Active
      BY DEF TypeOK
    <2> QED
      BY <1>7, <2>1, <2>2, <2>3 DEF TypeOK, RecvBlock
  <1>8. CASE RecvNone
    BY <1>8 DEF TypeOK, RecvNone
  <1>9. CASE Finish
    BY <1>9, NextRunnableIsReady DEF TypeOK, Finish
  <1>10. CASE GcCollect
    BY <1>10 DEF TypeOK, GcCollect, Msg
  <1>11. CASE SendDangling \/ RecvDangling \/ OpcodeError
    BY <1>11 DEF TypeOK, SendDangling, RecvDangling, OpcodeError, Fail
  <1> QED
    BY <1>1, <1>2, <1>3, <1>4, <1>5, <1>6, <1>7, <1>8, <1>9, <1>10, <1>11 DEF Next

(* A step taken while the VM runs keeps the three scheduling invariants.   *)
LEMMA SchedStep == SchedInv /\ Next => SchedInv'
  <1> SUFFICES ASSUME SchedInv, Next PROVE SchedInv'
    OBVIOUS
  <1> USE DEF SchedInv
  <1>t. TypeOK'
    BY TypeStep
  <1>r. vm = "running" /\ status[cur] = "ready" /\ cur \in Slot
    BY ConstAssumption
       DEF TypeOK, CurrentIsReady, Next, Yield, Spawn, Channel, Drop, Send, SendDangling,
           RecvValue, RecvBlock, RecvNone, RecvDangling, Finish, GcCollect, OpcodeError,
           Fresh, AtRecv, Active, Slot
  <1> USE <1>t, <1>r, ConstAssumption
          DEF CurrentIsReady, NoLostWakeup, HaltIsQuiescent, Active, Slot
  <1>1. CASE Yield
    BY <1>1, NextRunnableIsReady DEF TypeOK, Yield
  <1>2. CASE Spawn
    BY <1>2 DEF TypeOK, Spawn
  <1>3. CASE Channel
    BY <1>3 DEF TypeOK, Channel
  <1>4. CASE Drop
    BY <1>4 DEF TypeOK, Drop
  <1>5. CASE Send
    <2>1. \A t \in Slot : status'[t] = IF t \in Active /\ status[t] = "blocked"
                                       THEN "ready" ELSE status[t]
      BY <1>5 DEF TypeOK, Send, Wake, Unblocked
    <2> QED
      BY <1>5, <2>1 DEF TypeOK, Send
  <1>6. CASE RecvValue
    <2>1. PICK a \in live : queue[a] # <<>> /\ queue' = [queue EXCEPT ![a] = Tail(@)]
      BY <1>6 DEF RecvValue
    <2>2. \A t \in Active : operand'[t] = IF t = cur THEN Null ELSE operand[t]
      BY <1>6 DEF TypeOK, RecvValue
    <2>3. UNCHANGED <<vm, cur, nTasks, status, waiting>>
      BY <1>6 DEF RecvValue
    <2>4. \A b \in Addr : queue[b] = <<>> => queue'[b] = <<>>
      BY <2>1 DEF TypeOK
    <2>5. NoLostWakeup'
      <3> SUFFICES ASSUME NEW t \in Active, status[t] = "blocked"
                   PROVE  /\ waiting[t] # Null
                          /\ operand'[t] = waiting[t]
                          /\ queue'[waiting[t]] = <<>>
        BY <2>3
      <3>1. t \in Slot /\ waiting[t] \in Addr /\ t # cur
        BY DEF TypeOK
      <3> QED
        BY <2>2, <2>4, <3>1
    <2> QED
      BY <2>3, <2>5
  <1>7. CASE RecvBlock
    <2>0. PICK a \in live : /\ queue[a] = <<>>
                            /\ status' = [status EXCEPT ![cur] = "blocked"]
                            /\ waiting' = [waiting EXCEPT ![cur] = a]
                            /\ operand' = [operand EXCEPT ![cur] = a]
                            /\ \E t \in Active : IsNextRunnable(status', t) /\ cur' = t
      BY <1>7 DEF RecvBlock
    <2>1. CurrentIsReady'
      BY <2>0, NextRunnableIsReady
    <2>2. NoLostWakeup'
      <3> SUFFICES ASSUME NEW t \in Active, status'[t] = "blocked"
                   PROVE  /\ waiting'[t] # Null
                          /\ operand'[t] = waiting'[t]
                          /\ queue[waiting'[t]] = <<>>
        BY <1>7 DEF RecvBlock
      <3>0. a \in Addr /\ t \in Slot
        BY DEF TypeOK
      <3>1. CASE t = cur
        BY <2>0, <3>0, <3>1 DEF TypeOK
      <3>2. CASE t # cur
        <4>1. status'[t] = status[t] /\ waiting'[t] = waiting[t] /\ operand'[t] = operand[t]
          BY <2>0, <3>0, <3>2 DEF TypeOK
        <4> QED
          BY <4>1
      <3> QED
        BY <3>1, <3>2
    <2>3. HaltIsQuiescent'
      <3>1. vm' = vm
        BY <1>7 DEF RecvBlock
      <3> QED
        BY <3>1
    <2>4. TypeOK' /\ CurrentIsReady' /\ NoLostWakeup' /\ HaltIsQuiescent'
      BY ONLY <1>t, <2>1, <2>2, <2>3
    <2> QED
      BY ONLY <2>4 DEF SchedInv
  <1>8. CASE RecvNone
    BY <1>8 DEF TypeOK, RecvNone
  <1>9. CASE Finish
    <2>1. CurrentIsReady'
      <3>1. \/ \E t \in Active : IsNextRunnable(status', t) /\ cur' = t
            \/ vm' = "halted"
        BY <1>9 DEF Finish
      <3> QED
        BY <3>1, NextRunnableIsReady
    <2>2. NoLostWakeup'
      BY <1>9 DEF TypeOK, Finish
    <2>3. HaltIsQuiescent'
      <3>1. CASE vm' = vm
        BY <3>1
      <3>2. CASE Ready(status') = {} /\ UNCHANGED <<nTasks, queue, waiting>>
        <4> SUFFICES ASSUME NEW t \in Active', status'[t] # "finished"
                     PROVE  status'[t] = "blocked"
          BY <2>2, <3>2
        <4>1. t \in Active /\ t \in Slot
          BY <3>2 DEF TypeOK
        <4>2. status'[t] \in Status /\ status'[t] # "unused"
          BY <4>1 DEF TypeOK
        <4>3. status'[t] # "ready"
          BY <3>2, <4>1 DEF Ready
        <4> QED
          BY <4>2, <4>3 DEF Status
      <3> QED
        BY <1>9, <3>1, <3>2 DEF Finish
    <2> QED
      BY <2>1, <2>2, <2>3
  <1>10. CASE GcCollect
    BY <1>10 DEF TypeOK, GcCollect
  <1>11. CASE SendDangling \/ RecvDangling \/ OpcodeError
    BY <1>11 DEF SendDangling, RecvDangling, OpcodeError, Fail
  <1> QED
    BY <1>1, <1>2, <1>3, <1>4, <1>5, <1>6, <1>7, <1>8, <1>9, <1>10, <1>11 DEF Next

LEMMA SchedStutter == SchedInv /\ UNCHANGED vars => SchedInv'
  BY DEF SchedInv, TypeOK, CurrentIsReady, NoLostWakeup, HaltIsQuiescent, vars, Active, Slot

LEMMA SchedInvariant == Spec => []SchedInv
  <1>1. SchedInv /\ [Next \/ Terminated]_vars => SchedInv'
    BY SchedStep, SchedStutter DEF Terminated
  <1> QED
    BY <1>1, InitSchedInv, PTL DEF Spec

(* The task table, the task states and the channel registry keep their     *)
(* types in every run of the scheduler.                                    *)
THEOREM TypeCorrect == Spec => []TypeOK
  <1>1. SchedInv => TypeOK
    BY DEF SchedInv
  <1> QED
    BY <1>1, SchedInvariant, PTL

(* The opcode loop never runs a blocked, finished or unused task.          *)
THEOREM DispatchesReadyTasks == Spec => []CurrentIsReady
  <1>1. SchedInv => CurrentIsReady
    BY DEF SchedInv
  <1> QED
    BY <1>1, SchedInvariant, PTL

(* No wakeup is lost: a blocked receiver's channel is empty.               *)
THEOREM WakeupsAreNotLost == Spec => []NoLostWakeup
  <1>1. SchedInv => NoLostWakeup
    BY DEF SchedInv
  <1> QED
    BY <1>1, SchedInvariant, PTL

(* The runtime halts only in a state in which no task could go on.         *)
THEOREM HaltsOnlyWhenQuiescent == Spec => []HaltIsQuiescent
  <1>1. SchedInv => HaltIsQuiescent
    BY DEF SchedInv
  <1> QED
    BY <1>1, SchedInvariant, PTL

-----------------------------------------------------------------------------
(* The collector. Marked(R) is the least closed set of addresses above R.  *)

LEMMA MarkedContainsRoots ==
    ASSUME NEW R \in SUBSET Addr
    PROVE  R \subseteq Marked(R) /\ Marked(R) \subseteq Addr
  BY DEF Marked

LEMMA MarkedIsClosed ==
    ASSUME NEW R \in SUBSET Addr
    PROVE  Closed(Marked(R))
  <1> SUFFICES ASSUME NEW a \in Marked(R) \cap live, NEW b \in Queued(a)
               PROVE  b \in Marked(R)
    BY DEF Closed
  <1>1. b \in Addr
    BY DEF Queued
  <1>2. ASSUME NEW S \in SUBSET Addr, R \subseteq S, Closed(S)
        PROVE  b \in S
    <2>1. a \in S
      BY <1>2 DEF Marked
    <2> QED
      BY <1>2, <2>1 DEF Closed
  <1> QED
    BY <1>1, <1>2 DEF Marked

(* What a task that never spawned can reach is live. SoleTaskSafe alone is *)
(* not inductive: a handle may come back out of a queue, so the invariant  *)
(* speaks of all that is reachable through queues.                         *)
SoleInv == nTasks = 1 => Marked(held[0]) \subseteq live

(* The step of any instruction keeps the reachable handles within a set S  *)
(* that was reachable, or newly allocated, before it.                      *)
LEMMA SoleStep == TypeOK /\ SoleInv /\ Next => SoleInv'
  <1> SUFFICES ASSUME TypeOK, SoleInv, Next, nTasks' = 1
               PROVE  Marked(held[0])' \subseteq live'
    BY DEF SoleInv
  <1>0. nTasks = 1 /\ cur = 0 /\ 0 \in Slot /\ held[0] \in SUBSET Addr
    <2>1. nTasks' = nTasks \/ nTasks' = nTasks + 1
      BY DEF Next, Yield, Spawn, Channel, Drop, Send, SendDangling, RecvValue, RecvBlock,
             RecvNone, RecvDangling, Finish, GcCollect, OpcodeError, Fail
    <2> QED
      BY <2>1, ConstAssumption DEF TypeOK, Active, Slot
  <1> DEFINE M == Marked(held[0])
  <1>1. M \in SUBSET Addr /\ held[0] \subseteq M /\ M \subseteq live
    BY <1>0, MarkedContainsRoots DEF SoleInv
  <1>2. \A a \in M \cap live : Queued(a) \subseteq M
    BY <1>0, MarkedIsClosed DEF Closed
  <1>3. ASSUME NEW S \in SUBSET Addr, held'[0] \subseteq S,
               \A a \in S \cap live' : Queued(a)' \subseteq S
        PROVE  Marked(held[0])' \subseteq S
    BY <1>3 DEF Marked, Closed
  <1> HIDE DEF M
  <1>4. CASE UNCHANGED <<held, live, queue>>
    <2>1. \A a \in M \cap live' : Queued(a)' \subseteq M
      BY <1>2, <1>4 DEF Queued
    <2> QED
      BY <1>1, <1>3, <1>4, <2>1
  <1>5. CASE Channel
    <2>1. PICK a \in Addr \ live : /\ live' = live \cup {a}
                                   /\ queue' = [queue EXCEPT ![a] = <<>>]
                                   /\ held' = [held EXCEPT ![cur] = @ \cup {a}]
      BY <1>5 DEF Channel
    <2> DEFINE S == M \cup {a}
    <2>2. S \in SUBSET Addr /\ held'[0] \subseteq S /\ S \subseteq live'
      BY <1>0, <1>1, <2>1 DEF TypeOK
    <2>3. ASSUME NEW b \in S \cap live' PROVE Queued(b)' \subseteq S
      <3>1. CASE b = a
        BY <2>1, <3>1 DEF Queued, TypeOK
      <3>2. CASE b # a
        <4>1. b \in M \cap live /\ b \in Addr /\ queue'[b] = queue[b]
          BY <1>1, <2>1, <2>3, <3>2 DEF TypeOK
        <4> QED
          BY <1>2, <4>1 DEF Queued
      <3> QED
        BY <3>1, <3>2
    <2> HIDE DEF S
    <2> QED
      BY <1>3, <2>2, <2>3
  <1>6. CASE Drop
    <2>1. held'[0] \subseteq M /\ UNCHANGED <<live, queue>>
      BY <1>0, <1>1, <1>6 DEF Drop, TypeOK
    <2>2. \A a \in M \cap live' : Queued(a)' \subseteq M
      BY <1>2, <2>1 DEF Queued
    <2> QED
      BY <1>1, <1>3, <2>1, <2>2
  <1>7. CASE Send
    <2>1. PICK a \in held[0] \cap live, m \in held[0] \cup Payload :
             queue' = [queue EXCEPT ![a] = Append(@, m)]
      BY <1>0, <1>7 DEF Send
    <2>2. UNCHANGED <<held, live>>
      BY <1>7 DEF Send
    <2>3. ASSUME NEW b \in M \cap live' PROVE Queued(b)' \subseteq M
      <3>1. CASE b # a
        <4>1. queue'[b] = queue[b]
          BY <1>1, <2>1, <3>1 DEF TypeOK
        <4> QED
          BY <1>2, <2>2, <2>3, <4>1 DEF Queued
      <3>2. CASE b = a
        <4>1. queue[a] \in Seq(Msg) /\ queue'[a] = Append(queue[a], m)
          BY <1>0, <1>1, <2>1 DEF TypeOK
        <4>2. m \in Msg
          BY <1>0 DEF Msg
        <4>3. {queue'[a][i] : i \in DOMAIN queue'[a]}
                \subseteq {queue[a][i] : i \in DOMAIN queue[a]} \cup {m}
          BY <4>1, <4>2
        <4>4. m \in Addr => m \in M
          BY <1>1, ConstAssumption
        <4> QED
          BY <1>1, <1>2, <2>1, <3>2, <4>3, <4>4 DEF Queued
      <3> QED
        BY <3>1, <3>2
    <2> QED
      BY <1>1, <1>3, <2>2, <2>3
  <1>8. CASE RecvValue
    <2>1. PICK a \in live : /\ a \in held[0]
                            /\ queue[a] # <<>>
                            /\ queue' = [queue EXCEPT ![a] = Tail(@)]
                            /\ held' = [held EXCEPT ![0] = @ \cup ({Head(queue[a])} \cap Addr)]
      BY <1>0, <1>8 DEF RecvValue, AtRecv
    <2>2. live' = live
      BY <1>8 DEF RecvValue
    <2>3. a \in M /\ a \in Addr /\ queue[a] \in Seq(Msg)
      BY <1>1, <2>1 DEF TypeOK
    <2>4. Head(queue[a]) = queue[a][1] /\ 1 \in DOMAIN queue[a]
      BY <2>1, <2>3
    <2>5. {Head(queue[a])} \cap Addr \subseteq M
      BY <1>2, <2>1, <2>3, <2>4 DEF Queued
    <2>6. held'[0] \subseteq M
      BY <1>0, <1>1, <2>1, <2>5 DEF TypeOK
    <2>7. ASSUME NEW b \in M \cap live' PROVE Queued(b)' \subseteq M
      <3>1. CASE b # a
        <4>1. queue'[b] = queue[b]
          BY <1>1, <2>1, <3>1 DEF TypeOK
        <4> QED
          BY <1>2, <2>2, <2>7, <4>1 DEF Queued
      <3>2. CASE b = a
        <4>1. queue'[a] = Tail(queue[a])
          BY <2>1, <2>3 DEF TypeOK
        <4>2. {queue'[a][i] : i \in DOMAIN queue'[a]} \subseteq {queue[a][i] : i \in DOMAIN queue[a]}
          BY <2>1, <2>3, <4>1
        <4> QED
          BY <1>2, <2>1, <2>3, <3>2, <4>2 DEF Queued
      <3> QED
        BY <3>1, <3>2
    <2> QED
      BY <1>1, <1>3, <2>2, <2>6, <2>7
  <1>9. CASE GcCollect
    <2>1. held' = held /\ live' = live \cap M
      BY <1>0, <1>9 DEF GcCollect, GcRoots, M
    <2>2. ASSUME NEW b \in M \cap live' PROVE Queued(b)' \subseteq M
      <3>1. queue'[b] = queue[b]
        BY <1>1, <1>9, <2>2 DEF GcCollect
      <3> QED
        BY <1>2, <2>1, <2>2, <3>1 DEF Queued
    <2> QED
      BY <1>1, <1>3, <2>1, <2>2
  <1>10. CASE Spawn
    BY <1>0, <1>10 DEF Spawn
  <1> QED
    <2>1. \/ Channel \/ Drop \/ Send \/ RecvValue \/ GcCollect \/ Spawn
          \/ UNCHANGED <<held, live, queue>>
      BY DEF Next, Yield, SendDangling, RecvBlock, RecvNone, RecvDangling, Finish,
             OpcodeError, Fail
    <2> QED
      BY <1>4, <1>5, <1>6, <1>7, <1>8, <1>9, <1>10, <2>1

(* A program without spawn never holds a handle of a collected channel.    *)
THEOREM SoleTaskNeverDangles == Spec => []SoleTaskSafe
  <1>1. Init => SoleInv
    <2> SUFFICES ASSUME Init PROVE Marked(held[0]) \subseteq live
      BY DEF SoleInv
    <2>1. held[0] = {} /\ live = {}
      BY ConstAssumption DEF Init, Slot
    <2>2. Closed({})
      BY DEF Closed
    <2> QED
      BY <2>1, <2>2 DEF Marked
  <1>2. TypeOK /\ SoleInv /\ [Next \/ Terminated]_vars => SoleInv'
    <2> SUFFICES ASSUME TypeOK, SoleInv, UNCHANGED vars PROVE SoleInv'
      BY SoleStep DEF Terminated
    <2> QED
      BY DEF SoleInv, Marked, Closed, Queued, vars
  <1>3. TypeOK /\ SoleInv => SoleTaskSafe
    <2> SUFFICES ASSUME TypeOK, SoleInv, nTasks = 1 PROVE held[0] \subseteq live
      BY DEF SoleTaskSafe
    <2>1. held[0] \in SUBSET Addr
      BY ConstAssumption DEF TypeOK, Slot
    <2> QED
      BY <2>1, MarkedContainsRoots DEF SoleInv
  <1> QED
    BY <1>1, <1>2, <1>3, TypeCorrect, PTL DEF Spec
=============================================================================

-------------------------- MODULE ValueHeapProofs --------------------------
(* Proofs about ValueHeap for every set of blocks and channels and every   *)
(* bound.                                                                  *)
EXTENDS ValueHeap, TLAPS

-----------------------------------------------------------------------------
(* Types.                                                                  *)
Children == [Block -> Block \cup {Null}]

LEMMA FreeTypes ==
    ASSUME TypeOK, NEW S \in SUBSET Block
    PROVE  /\ Visited(S) \subseteq Block /\ Released(S) \subseteq Block
           /\ Released(S) \cap tracked = {}
           /\ Emptied(Released(S)) \in Children
           /\ Faulty(S) \in BOOLEAN
  BY DEF TypeOK, Visited, Released, Emptied, Faulty, Children

MemOK ==
    /\ alloc \subseteq Block /\ tracked \subseteq alloc /\ child \in Children /\ fault \in BOOLEAN

LEMMA CloneTypes ==
    ASSUME TypeOK, NEW S \in SUBSET Block, NEW b \in Fresh, NEW c \in Fresh \cup {Null},
           CloneAndFree(<<b, c>>, S)
    PROVE  MemOK'
  <1>1. Blocks(<<b, c>>) \subseteq Block
    BY DEF Blocks, Fresh
  <1>2. Released(S) \subseteq Block /\ Released(S) \cap tracked = {} /\ Emptied(Released(S)) \in Children
        /\ Faulty(S) \in BOOLEAN
    BY FreeTypes
  <1>3. alloc' \subseteq Block /\ tracked' \subseteq alloc' /\ fault' \in BOOLEAN
    BY <1>1, <1>2 DEF CloneAndFree, TypeOK
  <1>4. child' \in Children
    BY <1>2 DEF CloneAndFree, Children, Fresh
  <1> QED BY <1>3, <1>4 DEF MemOK

LEMMA CopyPairs ==
    ASSUME NEW v, NEW p \in Copies(v)
    PROVE  /\ p[1] \in Fresh /\ p[2] \in Fresh \cup {Null} /\ p[1] # p[2] /\ p = <<p[1], p[2]>>
           /\ p[1] \in Block \ alloc
  BY DEF Copies, Fresh

LEMMA FreeMem ==
    ASSUME TypeOK, NEW S \in SUBSET Block, Free(S)
    PROVE  MemOK'
  BY FreeTypes DEF Free, MemOK, TypeOK

LEMMA InitTypes == Init => TypeOK
  <1> SUFFICES ASSUME Init PROVE TypeOK
    OBVIOUS
  <1>1. phase \in Phases /\ nTasks \in 1 .. MaxTasks /\ cur \in 0 .. nTasks - 1 /\ finished \subseteq 0 .. nTasks - 1
    BY HeapAssumption DEF Init, Phases
  <1>2. child \in [Block -> Block \cup {Null}] /\ result \in [Tasks -> Block \cup {Null}]
    BY DEF Init
  <1>3. /\ stack \in [Tasks -> SUBSET Block] /\ locals \in [Tasks -> SUBSET Block]
        /\ queue \in [Chan -> SUBSET Block]
    BY DEF Init
  <1> QED BY <1>1, <1>2, <1>3 DEF Init, TypeOK

LEMMA TypeStep == TypeOK /\ [Next]_vars => TypeOK'
  <1> SUFFICES ASSUME TypeOK, [Next]_vars PROVE TypeOK'
    OBVIOUS
  <1> DEFINE Rest == /\ phase \in Phases
                     /\ nTasks \in 1 .. MaxTasks /\ cur \in 0 .. nTasks - 1 /\ finished \subseteq 0 .. nTasks - 1
                     /\ stack \in [Tasks -> SUBSET Block] /\ locals \in [Tasks -> SUBSET Block]
                     /\ result \in [Tasks -> Block \cup {Null}]
                     /\ open \subseteq Chan
                     /\ queue \in [Chan -> SUBSET Block]
  <1>0. (TypeOK <=> MemOK /\ Rest) /\ (TypeOK' <=> MemOK' /\ Rest')
    BY DEF TypeOK, MemOK, Children
  <1>r. Rest
    BY <1>0
  <1>c. cur \in Tasks
    BY HeapAssumption DEF TypeOK, Tasks
  <1>s. stack[cur] \subseteq Block /\ locals[cur] \subseteq Block
    BY <1>c DEF TypeOK
  <1>m. MemOK /\ (UNCHANGED mem => MemOK')
    BY <1>0 DEF MemOK, mem
  <1>1. CASE PushNew
    <2>1. PICK b \in Fresh, S \in SUBSET stack[cur] :
              CloneAndFree(<<b, Null>>, S) /\ stack' = [stack EXCEPT ![cur] = (@ \ S) \cup {b}]
      BY <1>1 DEF PushNew
    <2>2. MemOK'
      BY <1>s, <2>1, CloneTypes
    <2>3. stack' \in [Tasks -> SUBSET Block]
      BY <1>r, <2>1 DEF Fresh
    <2>4. Rest'
      BY <1>r, <1>1, <2>3 DEF PushNew, sched
    <2> QED BY <1>0, <2>2, <2>4
  <1>2. CASE LoadLocal
    <2>1. PICK v \in locals[cur] : \E p \in Copies(v) :
              CloneAndFree(p, {}) /\ stack' = [stack EXCEPT ![cur] = @ \cup {p[1]}]
      BY <1>2 DEF LoadLocal
    <2>2. PICK p \in Copies(v) : CloneAndFree(p, {}) /\ stack' = [stack EXCEPT ![cur] = @ \cup {p[1]}]
      BY <2>1
    <2>3. MemOK'
      BY <2>2, CopyPairs, CloneTypes
    <2>4. stack' \in [Tasks -> SUBSET Block]
      BY <1>r, <2>2, CopyPairs
    <2>5. Rest'
      BY <1>r, <1>2, <2>4 DEF LoadLocal, sched
    <2> QED BY <1>0, <2>3, <2>5
  <1>3. CASE StoreLocal
    <2>0. PICK v \in stack[cur] : /\ stack'  = [stack EXCEPT ![cur] = @ \ {v}]
                                  /\ locals' = [locals EXCEPT ![cur] = @ \cup {v}]
      BY <1>3 DEF StoreLocal
    <2>1. stack' \in [Tasks -> SUBSET Block] /\ locals' \in [Tasks -> SUBSET Block]
      BY <1>r, <1>s, <2>0
    <2>2. Rest'
      BY <1>r, <1>3, <2>1 DEF StoreLocal, sched
    <2> QED BY <1>0, <1>3, <1>m, <2>2 DEF StoreLocal
  <1>4. CASE GetItem
    <2>1. PICK v \in stack[cur] : child[v] # Null /\ \E p \in Copies(child[v]) :
              CloneAndFree(p, {v}) /\ stack' = [stack EXCEPT ![cur] = (@ \ {v}) \cup {p[1]}]
      BY <1>4 DEF GetItem
    <2>2. PICK p \in Copies(child[v]) :
              CloneAndFree(p, {v}) /\ stack' = [stack EXCEPT ![cur] = (@ \ {v}) \cup {p[1]}]
      BY <2>1
    <2>3. MemOK'
      BY <1>s, <2>2, CopyPairs, CloneTypes
    <2>4. stack' \in [Tasks -> SUBSET Block]
      BY <1>r, <2>2, CopyPairs
    <2>5. Rest'
      BY <1>r, <1>4, <2>4 DEF GetItem, sched
    <2> QED BY <1>0, <2>3, <2>5
  <1>5. CASE Build
    <2>1. PICK v \in stack[cur], b \in Fresh :
              /\ alloc' = alloc \cup {b} /\ tracked' = tracked \cup {b}
              /\ child' = [child EXCEPT ![b] = v]
              /\ stack' = [stack EXCEPT ![cur] = (@ \ {v}) \cup {b}]
      BY <1>5 DEF Build
    <2>2. MemOK'
      BY <1>m, <1>s, <2>1, <1>5 DEF MemOK, Children, Fresh, Build
    <2>3. stack' \in [Tasks -> SUBSET Block]
      BY <1>r, <2>1 DEF Fresh
    <2>4. Rest'
      BY <1>r, <1>5, <2>3 DEF Build, sched
    <2> QED BY <1>0, <2>2, <2>4
  <1>6. CASE SyscallRaw
    <2>1. PICK b \in Fresh, c \in Fresh \cup {Null} :
              /\ alloc' = alloc \cup ({b, c} \ {Null})
              /\ child' = [child EXCEPT ![b] = c]
              /\ stack' = [stack EXCEPT ![cur] = @ \cup {b}]
      BY <1>6 DEF SyscallRaw
    <2>2. MemOK'
      BY <1>m, <2>1, <1>6 DEF MemOK, Children, Fresh, SyscallRaw
    <2>3. stack' \in [Tasks -> SUBSET Block]
      BY <1>r, <2>1 DEF Fresh
    <2>4. Rest'
      BY <1>r, <1>6, <2>3 DEF SyscallRaw, sched
    <2> QED BY <1>0, <2>2, <2>4
  <1>7. CASE Drop
    <2>1. PICK v \in Own(cur) : /\ Free({v})
                                /\ stack'  = [stack EXCEPT ![cur] = @ \ {v}]
                                /\ locals' = [locals EXCEPT ![cur] = @ \ {v}]
      BY <1>7 DEF Drop
    <2>2. MemOK'
      BY <1>s, <2>1, FreeMem DEF Own
    <2>3. stack' \in [Tasks -> SUBSET Block] /\ locals' \in [Tasks -> SUBSET Block]
      BY <1>r, <2>1
    <2>4. Rest'
      BY <1>r, <1>7, <2>3 DEF Drop, sched
    <2> QED BY <1>0, <2>2, <2>4
  <1>8. CASE Channel
    <2>1. Rest'
      BY <1>r, <1>8 DEF Channel, sched
    <2> QED BY <1>0, <1>8, <1>m, <2>1 DEF Channel
  <1>9. CASE Send
    <2>1. PICK c \in open, v \in stack[cur] : \E p \in Copies(v) :
              /\ CloneAndFree(p, {v})
              /\ queue' = [queue EXCEPT ![c] = @ \cup {p[1]}]
              /\ stack' = [stack EXCEPT ![cur] = @ \ {v}]
      BY <1>9 DEF Send
    <2>2. PICK p \in Copies(v) :
              /\ CloneAndFree(p, {v})
              /\ queue' = [queue EXCEPT ![c] = @ \cup {p[1]}]
              /\ stack' = [stack EXCEPT ![cur] = @ \ {v}]
      BY <2>1
    <2>3. MemOK'
      BY <1>s, <2>2, CopyPairs, CloneTypes
    <2>4. stack' \in [Tasks -> SUBSET Block] /\ queue' \in [Chan -> SUBSET Block]
      BY <1>r, <2>2, CopyPairs
    <2>5. Rest'
      BY <1>r, <1>9, <2>4 DEF Send, sched
    <2> QED BY <1>0, <2>3, <2>5
  <1>10. CASE Recv
    <2>0. PICK c \in open : \E v \in queue[c] : /\ queue' = [queue EXCEPT ![c] = @ \ {v}]
                                                /\ stack' = [stack EXCEPT ![cur] = @ \cup {v}]
      BY <1>10 DEF Recv
    <2>1. PICK v \in queue[c] : /\ queue' = [queue EXCEPT ![c] = @ \ {v}]
                                /\ stack' = [stack EXCEPT ![cur] = @ \cup {v}]
      BY <2>0
    <2>2. v \in Block
      BY <1>r
    <2>3. stack' \in [Tasks -> SUBSET Block] /\ queue' \in [Chan -> SUBSET Block]
      BY <1>r, <2>1, <2>2
    <2>4. Rest'
      BY <1>r, <1>10, <2>3 DEF Recv, sched
    <2> QED BY <1>0, <1>10, <1>m, <2>4 DEF Recv
  <1>11. CASE Spawn
    <2>1. nTasks' \in 1 .. MaxTasks /\ cur' \in 0 .. nTasks' - 1 /\ finished' \subseteq 0 .. nTasks' - 1
      BY <1>r, <1>11, HeapAssumption DEF Spawn
    <2>2. MemOK' /\ locals' \in [Tasks -> SUBSET Block]
      <3>1. CASE UNCHANGED <<mem, locals>>
        BY <3>1, <1>m, <1>r
      <3>2. CASE \E v \in locals[cur] : \E p \in Copies(v) :
                    CloneAndFree(p, {}) /\ locals' = [locals EXCEPT ![nTasks] = {p[1]}]
        <4>1. PICK v \in locals[cur] : \E p \in Copies(v) :
                    CloneAndFree(p, {}) /\ locals' = [locals EXCEPT ![nTasks] = {p[1]}]
          BY <3>2
        <4>2. PICK p \in Copies(v) : CloneAndFree(p, {}) /\ locals' = [locals EXCEPT ![nTasks] = {p[1]}]
          BY <4>1
        <4>3. MemOK'
          BY <4>2, CopyPairs, CloneTypes
        <4>4. locals' \in [Tasks -> SUBSET Block]
          BY <1>r, <4>2, CopyPairs
        <4> QED BY <4>3, <4>4
      <3> QED BY <1>11, <3>1, <3>2 DEF Spawn
    <2>3. Rest'
      BY <1>r, <1>11, <2>1, <2>2 DEF Spawn
    <2> QED BY <1>0, <2>2, <2>3
  <1>12. CASE Switch
    <2>1. cur' \in 0 .. nTasks - 1
      BY <1>r, <1>12 DEF Switch, Unfinished, Tasks
    <2>2. Rest'
      BY <1>r, <1>12, <2>1 DEF Switch
    <2> QED BY <1>0, <1>12, <1>m, <2>2 DEF Switch
  <1>13. CASE GcCollect
    <2>1. PICK kept \in SUBSET open :
              LET closing == UNION {queue[c] : c \in open \ kept}
                  swept   == tracked \ Reach(GcRoots(kept))
              IN  /\ alloc'   = alloc \ (Released(closing) \cup swept)
                  /\ tracked' = tracked \ swept
                  /\ child'   = Emptied(Released(closing) \cup swept)
                  /\ fault'   = (fault \/ Faulty(closing))
                  /\ open'    = kept
                  /\ queue'   = [c \in Chan |-> IF c \in kept THEN queue[c] ELSE {}]
      BY <1>13 DEF GcCollect
    <2> DEFINE closing == UNION {queue[c] : c \in open \ kept}
               swept   == tracked \ Reach(GcRoots(kept))
    <2>2. closing \subseteq Block
      BY <1>r
    <2>3. Released(closing) \cap tracked = {} /\ Faulty(closing) \in BOOLEAN
      BY <2>2, FreeTypes
    <2> HIDE DEF closing, swept
    <2>4. MemOK'
      <3>1. alloc' \subseteq Block /\ tracked' \subseteq alloc' /\ fault' \in BOOLEAN
        BY <2>1, <2>3, <1>m DEF MemOK, closing, swept
      <3>2. \A S : Emptied(S) \in Children
        BY <1>m DEF Emptied, MemOK, Children
      <3> QED BY <3>1, <3>2, <2>1 DEF MemOK
    <2>5. open' \subseteq Chan /\ queue' \in [Chan -> SUBSET Block]
      BY <1>r, <2>1
    <2>6. Rest'
      BY <1>r, <1>13, <2>5 DEF GcCollect, sched
    <2> QED BY <1>0, <2>4, <2>6
  <1>14. ASSUME Leave PROVE finished' \subseteq 0 .. nTasks - 1 /\ cur' \in 0 .. nTasks - 1 /\ phase' \in Phases
    BY <1>r, <1>14 DEF Leave, Unfinished, Tasks, Phases
  <1>15. CASE Finish
    <2>1. MemOK' /\ result' \in [Tasks -> Block \cup {Null}]
      <3>1. CASE UNCHANGED <<mem, result>>
        BY <3>1, <1>m, <1>r
      <3>2. CASE \E v \in stack[cur] : \E p \in Copies(v) :
                    CloneAndFree(p, {}) /\ result' = [result EXCEPT ![cur] = p[1]]
        <4>1. PICK v \in stack[cur] : \E p \in Copies(v) :
                    CloneAndFree(p, {}) /\ result' = [result EXCEPT ![cur] = p[1]]
          BY <3>2
        <4>2. PICK p \in Copies(v) : CloneAndFree(p, {}) /\ result' = [result EXCEPT ![cur] = p[1]]
          BY <4>1
        <4>3. MemOK'
          BY <4>2, CopyPairs, CloneTypes
        <4>4. result' \in [Tasks -> Block \cup {Null}]
          BY <1>r, <4>2, CopyPairs
        <4> QED BY <4>3, <4>4
      <3> QED BY <1>15, <3>1, <3>2 DEF Finish
    <2>2. Rest'
      BY <1>r, <1>14, <1>15, <2>1 DEF Finish
    <2> QED BY <1>0, <2>1, <2>2
  <1>16. CASE FinishReturn
    <2>1. stack' \in [Tasks -> SUBSET Block] /\ result' \in [Tasks -> Block \cup {Null}]
      BY <1>r, <1>s, <1>16 DEF FinishReturn
    <2>2. Rest'
      BY <1>r, <1>14, <1>16, <2>1 DEF FinishReturn
    <2> QED BY <1>0, <1>16, <1>m, <2>2 DEF FinishReturn
  <1>17. CASE RunError
    <2>1. Rest'
      BY <1>r, <1>17 DEF RunError, sched, Phases
    <2> QED BY <1>0, <1>17, <1>m, <2>1 DEF RunError
  <1>18. CASE FreeResult
    <2>1. {result[0]} \ {Null} \subseteq Block
      BY <1>r, HeapAssumption DEF Tasks
    <2>2. MemOK'
      BY <1>18, <2>1, FreeMem DEF FreeResult
    <2>3. Rest'
      BY <1>r, <1>18 DEF FreeResult, sched, Phases
    <2> QED BY <1>0, <2>2, <2>3
  <1>19. CASE SweepNatives
    <2>1. PICK kept \in SUBSET open :
              /\ Free(UNION {queue[c] : c \in open \ kept})
              /\ open' = kept
              /\ queue' = [c \in Chan |-> IF c \in kept THEN queue[c] ELSE {}]
      BY <1>19 DEF SweepNatives
    <2>2. UNION {queue[c] : c \in open \ kept} \subseteq Block
      BY <1>r
    <2>3. MemOK'
      BY <2>1, <2>2, FreeMem
    <2>4. open' \subseteq Chan /\ queue' \in [Chan -> SUBSET Block]
      BY <1>r, <2>1
    <2>5. Rest'
      BY <1>r, <1>19, <2>4 DEF SweepNatives, sched, Phases
    <2> QED BY <1>0, <2>3, <2>5
  <1>20. CASE FreeVm
    <2> DEFINE owned   == UNION {Own(t) : t \in Tasks}
               results == {result[t] : t \in Tasks} \ {Null}
               held    == owned \cup results
    <2>1. held \subseteq Block
      <3>1. owned \subseteq Block
        BY <1>r DEF Own
      <3>2. results \subseteq Block
        BY <1>r
      <3> HIDE DEF owned, results
      <3> QED BY <3>1, <3>2
    <2>2. /\ alloc' = alloc \ (Released(held) \cup tracked)
          /\ child' = Emptied(Released(held) \cup tracked)
          /\ fault' = (fault \/ Faulty(held))
          /\ tracked' = {}
      BY <1>20 DEF FreeVm
    <2> HIDE DEF owned, results, held
    <2>3. MemOK'
      <3>1. Faulty(held) \in BOOLEAN
        BY <2>1, FreeTypes
      <3>2. \A S : Emptied(S) \in Children
        BY <1>m DEF Emptied, MemOK, Children
      <3> QED BY <3>1, <3>2, <2>2, <1>m DEF MemOK
    <2>4. Rest'
      BY <1>r, <1>20 DEF FreeVm, sched, Phases
    <2> QED BY <1>0, <2>3, <2>4
  <1>21. CASE FreeChannels
    <2>1. UNION {queue[c] : c \in open} \subseteq Block
      BY <1>r
    <2>2. MemOK'
      BY <1>21, <2>1, FreeMem DEF FreeChannels
    <2>3. Rest'
      BY <1>r, <1>21 DEF FreeChannels, sched, Phases
    <2> QED BY <1>0, <2>2, <2>3
  <1>22. CASE Exited \/ UNCHANGED vars
    BY <1>22 DEF Exited, vars, mem, sched, TypeOK
  <1> QED BY <1>1, <1>2, <1>3, <1>4, <1>5, <1>6, <1>7, <1>8, <1>9, <1>10, <1>11, <1>12, <1>13, <1>15, <1>16,
             <1>17, <1>18, <1>19, <1>20, <1>21, <1>22 DEF Next

(* Whatever happens, the heap's tables, the task table, stacks, locals and *)
(* queues keep their shape, and every tracked block is allocated.          *)
THEOREM HeapTypes == Spec => []TypeOK
  BY InitTypes, TypeStep, PTL DEF Spec

-----------------------------------------------------------------------------
(* Ownership.  The values in S are sound in a heap (the allocated blocks   *)
(* and what is nested in each): they and what is nested in them are        *)
(* allocated, none is nested in another and no two share what is nested.   *)
Sound(S, heap, ch) ==
    /\ S \subseteq Block
    /\ \A x \in S : x \in heap /\ (ch[x] # Null => ch[x] \in heap)
    /\ \A x, y \in S : ch[x] # y /\ (x # y /\ ch[x] = ch[y] => ch[x] = Null)

LEMMA SoundPart ==
    ASSUME NEW S, NEW heap, NEW ch, Sound(S, heap, ch), NEW T, T \subseteq S
    PROVE  Sound(T, heap, ch)
  BY DEF Sound

(* Freeing what none of them needs leaves values sound.                    *)
LEMMA SoundFree ==
    ASSUME NEW S, Sound(S, alloc, child), NEW F,
           \A x \in S : x \notin F /\ child[x] \notin F
    PROVE  Sound(S, alloc \ F, Emptied(F))
  <1>1. \A x \in S : Emptied(F)[x] = child[x]
    BY DEF Sound, Emptied
  <1> QED BY <1>1 DEF Sound

(* Releasing some of them, raw or tracked, takes nothing from the others.  *)
LEMMA SoundRelease ==
    ASSUME NEW S, Sound(S, alloc, child), NEW R, R \subseteq S
    PROVE  /\ Sound(S \ R, alloc \ Released(R), Emptied(Released(R)))
           /\ ~Faulty(R)
  <1>1. \A x \in Released(R) : x \in R \/ \E y \in R : x = child[y] /\ x # Null
    BY DEF Released, Visited
  <1>2. \A x \in S \ R : x \notin Released(R) /\ child[x] \notin Released(R)
    BY <1>1 DEF Sound
  <1>3. Sound(S \ R, alloc, child)
    BY SoundPart
  <1>4. Sound(S \ R, alloc \ Released(R), Emptied(Released(R)))
    BY <1>2, <1>3, SoundFree
  <1>5. Visited(R) \subseteq alloc
    BY DEF Visited, Sound
  <1> QED BY <1>4, <1>5 DEF Faulty

(* A new block with a new block or nothing nested in it joins them.        *)
LEMMA SoundNew ==
    ASSUME NEW S, NEW heap, NEW ch \in Children, Sound(S, heap, ch),
           NEW b \in Block \ heap, NEW c \in (Block \ heap) \cup {Null}, b # c
    PROVE  Sound(S \cup {b}, heap \cup ({b, c} \ {Null}), [ch EXCEPT ![b] = c])
  <1> DEFINE ch2 == [ch EXCEPT ![b] = c]
  <1>1. b # Null /\ \A x \in S : x # b /\ ch[x] # b /\ (ch[x] # Null => ch[x] # c) /\ (c # Null => x # c)
    BY HeapAssumption DEF Sound
  <1>2. ch2[b] = c /\ \A x \in S : ch2[x] = ch[x]
    BY <1>1 DEF Children, Sound
  <1> HIDE DEF ch2
  <1>3. \A x \in S \cup {b} : x \in heap \cup ({b, c} \ {Null}) /\ (ch2[x] # Null => ch2[x] \in heap \cup ({b, c} \ {Null}))
    BY <1>1, <1>2 DEF Sound
  <1>4. \A x, y \in S \cup {b} : ch2[x] # y
    <2>1. \A x \in S : ch2[x] # b /\ ch2[b] # x
      BY <1>1, <1>2, HeapAssumption DEF Sound
    <2> QED BY <1>2, <2>1 DEF Sound
  <1>5. \A x, y \in S \cup {b} : x # y /\ ch2[x] = ch2[y] => ch2[x] = Null
    BY <1>1, <1>2 DEF Sound
  <1> QED BY <1>3, <1>4, <1>5 DEF Sound, ch2

(* The two together: CloneAndFree.                                         *)
LEMMA SoundClone ==
    ASSUME TypeOK, NEW S, Sound(S, alloc, child), NEW R, R \subseteq S,
           NEW b \in Fresh, NEW c \in Fresh \cup {Null}, b # c, CloneAndFree(<<b, c>>, R)
    PROVE  /\ Sound((S \ R) \cup {b}, alloc', child') /\ fault' = fault
           /\ b \in Block /\ b \notin S
  <1>1. Sound(S \ R, alloc \ Released(R), Emptied(Released(R))) /\ ~Faulty(R)
    BY SoundRelease
  <1>2. Emptied(Released(R)) \in Children
    BY DEF TypeOK, Emptied, Children
  <1>3. b \in Block \ (alloc \ Released(R)) /\ c \in (Block \ (alloc \ Released(R))) \cup {Null}
    BY DEF Fresh
  <1>4. /\ alloc' = (alloc \ Released(R)) \cup ({b, c} \ {Null})
        /\ child' = [Emptied(Released(R)) EXCEPT ![b] = c]
        /\ fault' = (fault \/ Faulty(R))
    BY DEF CloneAndFree, Blocks
  <1>5. Sound((S \ R) \cup {b}, alloc', child')
    BY <1>1, <1>2, <1>3, <1>4, SoundNew
  <1>6. fault' = fault
    BY <1>1, <1>4 DEF TypeOK
  <1> QED BY <1>5, <1>6 DEF Fresh, Sound

-----------------------------------------------------------------------------
(* Who owns what: tasks T on their stacks and in their locals, open        *)
(* channels in their queues, and results R.                                *)
Owned(T, R) ==
    {x \in Block : \/ \E t \in T : x \in stack[t] \/ x \in locals[t]
                   \/ \E c \in open : x \in queue[c]
                   \/ x \in R}

Apart(T, R) ==
    /\ \A t \in T : stack[t] \cap locals[t] = {}
    /\ \A t \in T : (stack[t] \cup locals[t]) \cap R = {}
    /\ \A t, u \in T : t # u => (stack[t] \cup locals[t]) \cap (stack[u] \cup locals[u]) = {}
    /\ \A c \in open : queue[c] \cap R = {}
    /\ \A t \in T, c \in open : (stack[t] \cup locals[t]) \cap queue[c] = {}
    /\ \A c, d \in open : c # d => queue[c] \cap queue[d] = {}

Sole(T, R) == Apart(T, R) /\ Sound(Owned(T, R), alloc, child)

(* While the program runs the current task can go on and what unfinished   *)
(* tasks and channels own has one owner; when a program of one task has    *)
(* ended this is so for the values it left behind and for its result, up   *)
(* to the release of the VM.  Slots of tasks not yet spawned own nothing   *)
(* and nothing waits in channels that are not open.                        *)
HeapInv ==
    /\ \A c \in Chan \ open : queue[c] = {}
    /\ \A t \in Tasks : t >= nTasks => stack[t] = {} /\ locals[t] = {} /\ result[t] = Null
    /\ Running => /\ cur \in Unfinished /\ ~fault
                  /\ \A t \in Tasks \ finished : result[t] = Null
                  /\ Sole(Unfinished, {})
    /\ nTasks = 1 /\ phase \in {"halted", "result_freed", "natives_swept"} =>
          ~fault /\ Sole({0}, {result[0]} \ {Null})
    /\ nTasks = 1 /\ phase = "vm_freed" => ~fault

LEMMA OwnedParts ==
    ASSUME TypeOK, NEW T \in SUBSET Tasks, NEW R
    PROVE  /\ \A t \in T : stack[t] \subseteq Owned(T, R) /\ locals[t] \subseteq Owned(T, R)
           /\ \A c \in open : queue[c] \subseteq Owned(T, R)
           /\ Owned(T, R) \subseteq Block
  BY DEF Owned, TypeOK

(* What follows for the property of the runs.                              *)
LEMMA HeapImplies == TypeOK /\ HeapInv => HeldBySoleOwner /\ FreedOnce
  <1> SUFFICES ASSUME TypeOK, HeapInv PROVE HeldBySoleOwner /\ FreedOnce
    OBVIOUS
  <1>1. FreedOnce
    BY DEF HeapInv, FreedOnce, TypeOK, Phases, Running
  <1>2. HeldBySoleOwner
    <2> SUFFICES ASSUME Running
                 PROVE  /\ Reach(Held) \subseteq alloc
                        /\ \A t \in Unfinished : Reach(stack[t]) \cap Reach(locals[t]) = {}
                        /\ \A t, u \in Unfinished : t # u => Reach(Own(t)) \cap Reach(Own(u)) = {}
                        /\ \A c, d \in open : c # d => Reach(queue[c]) \cap Reach(queue[d]) = {}
                        /\ \A t \in Unfinished, c \in open : Reach(Own(t)) \cap Reach(queue[c]) = {}
                        /\ \A x, y \in Held : child[x] # y
                        /\ \A x, y \in Held : x # y /\ child[x] = child[y] => child[x] = Null
      BY Zenon DEF HeldBySoleOwner
    <2> DEFINE O == Owned(Unfinished, {})
    <2>1. Apart(Unfinished, {}) /\ Sound(O, alloc, child)
      BY DEF HeapInv, Sole
    <2>2. Unfinished \subseteq Tasks
      BY DEF Unfinished
    <2>3. /\ \A t \in Unfinished : stack[t] \subseteq O /\ locals[t] \subseteq O
          /\ \A c \in open : queue[c] \subseteq O
      BY <2>2, OwnedParts
    <2> HIDE DEF O
    <2>4. Held \subseteq O
      BY <2>3 DEF Held, Own
    <2>5. Reach(Held) \subseteq alloc
      BY <2>1, <2>4 DEF Reach, Sound
    <2>6. /\ \A x, y \in Held : child[x] # y
          /\ \A x, y \in Held : x # y /\ child[x] = child[y] => child[x] = Null
      BY <2>1, <2>4 DEF Sound
    <2>7. ASSUME NEW A, NEW B, A \subseteq O, B \subseteq O, A \cap B = {} PROVE Reach(A) \cap Reach(B) = {}
      BY <2>1, <2>7 DEF Reach, Sound
    <2>8. \A t \in Unfinished : Reach(stack[t]) \cap Reach(locals[t]) = {}
      BY <2>1, <2>3, <2>7 DEF Apart
    <2>9. \A t, u \in Unfinished : t # u => Reach(Own(t)) \cap Reach(Own(u)) = {}
      BY <2>1, <2>3, <2>7 DEF Apart, Own
    <2>10. \A c, d \in open : c # d => Reach(queue[c]) \cap Reach(queue[d]) = {}
      BY <2>1, <2>3, <2>7 DEF Apart
    <2>11. \A t \in Unfinished, c \in open : Reach(Own(t)) \cap Reach(queue[c]) = {}
      BY <2>1, <2>3, <2>7 DEF Apart, Own
    <2> QED BY <2>5, <2>6, <2>8, <2>9, <2>10, <2>11
  <1> QED BY <1>1, <1>2

LEMMA InitHeap == Init => HeapInv
  <1> SUFFICES ASSUME Init PROVE HeapInv
    OBVIOUS
  <1>1. Tasks \subseteq Nat /\ 0 \in Tasks /\ Unfinished = {0}
    BY HeapAssumption DEF Init, Tasks, Unfinished
  <1>2. stack[0] = {} /\ locals[0] = {} /\ open = {}
    BY <1>1 DEF Init
  <1>3. Owned({0}, {}) = {} /\ Apart({0}, {})
    BY <1>2 DEF Owned, Apart
  <1>4. Sole(Unfinished, {})
    BY <1>1, <1>3 DEF Sole, Sound
  <1>5. \A t \in Tasks : stack[t] = {} /\ locals[t] = {} /\ result[t] = Null
    BY DEF Init
  <1>6. \A c \in Chan : queue[c] = {}
    BY DEF Init
  <1> QED BY <1>1, <1>4, <1>5, <1>6 DEF Init, HeapInv

-----------------------------------------------------------------------------
(* The steps of a running program.                                         *)
LEMMA RunFacts ==
    ASSUME TypeOK, HeapInv, Running, NEW O, O = Owned(Unfinished, {})
    PROVE  /\ cur \in Unfinished /\ Unfinished \subseteq Tasks /\ cur \in Tasks
           /\ \A t \in Unfinished : t < nTasks
           /\ ~fault /\ Apart(Unfinished, {}) /\ Sound(O, alloc, child)
           /\ \A t \in Unfinished : stack[t] \subseteq O /\ locals[t] \subseteq O
           /\ \A c \in open : queue[c] \subseteq O
           /\ \A x \in O : \/ \E t \in Unfinished : x \in stack[t] \/ x \in locals[t]
                           \/ \E c \in open : x \in queue[c]
  <1>1. Unfinished \subseteq Tasks /\ \A t \in Unfinished : t < nTasks
    BY DEF Unfinished
  <1>2. cur \in Unfinished /\ ~fault /\ Apart(Unfinished, {}) /\ Sound(O, alloc, child)
    BY DEF HeapInv, Sole
  <1>3. /\ \A t \in Unfinished : stack[t] \subseteq O /\ locals[t] \subseteq O
        /\ \A c \in open : queue[c] \subseteq O
    BY <1>1, OwnedParts
  <1>4. \A x \in O : \/ \E t \in Unfinished : x \in stack[t] \/ x \in locals[t]
                     \/ \E c \in open : x \in queue[c]
    BY DEF Owned
  <1> QED BY <1>1, <1>2, <1>3, <1>4

(* What a step that lets the program run on has to show.                   *)
LEMMA RunsOn ==
    ASSUME TypeOK, TypeOK', HeapInv, Running, UNCHANGED <<phase, sched, result>>, fault' = fault,
           \A t \in Tasks : t >= nTasks => stack'[t] = stack[t] /\ locals'[t] = locals[t],
           \A c \in Chan \ open' : queue'[c] = {},
           NEW X, Sound(X, alloc', child'),
           \A t \in Unfinished : stack'[t] \subseteq X /\ locals'[t] \subseteq X,
           \A c \in open' : queue'[c] \subseteq X,
           Apart(Unfinished, {})'
    PROVE  HeapInv'
  <1>1. Unfinished' = Unfinished
    BY DEF Unfinished, sched
  <1>2. Owned(Unfinished, {})' \subseteq X
    BY <1>1 DEF Owned
  <1>3. Sound(Owned(Unfinished, {}), alloc, child)'
    BY <1>2, SoundPart
  <1>4. Sole(Unfinished, {})'
    BY <1>3 DEF Sole
  <1>5. phase' = "run"
    BY DEF Running
  <1>6. cur' \in Unfinished' /\ ~fault' /\ \A t \in Tasks \ finished' : result'[t] = Null
    BY <1>1 DEF HeapInv, sched
  <1>7. \A t \in Tasks : t >= nTasks' => stack'[t] = {} /\ locals'[t] = {} /\ result'[t] = Null
    BY DEF HeapInv, sched
  <1> QED BY <1>4, <1>5, <1>6, <1>7 DEF HeapInv

LEMMA PushNewHeap == ASSUME TypeOK, TypeOK', HeapInv, PushNew PROVE HeapInv'
  <1>0. Running
    BY DEF PushNew
  <1>1. PICK O : O = Owned(Unfinished, {})
    OBVIOUS
  <1>2. PICK b \in Fresh, S \in SUBSET stack[cur] :
            CloneAndFree(<<b, Null>>, S) /\ stack' = [stack EXCEPT ![cur] = (@ \ S) \cup {b}]
    BY DEF PushNew
  <1>3. Sound((O \ S) \cup {b}, alloc', child') /\ fault' = fault /\ b \in Block /\ b \notin O
    <2>1. S \subseteq O /\ Sound(O, alloc, child)
      BY <1>0, <1>1, <1>2, RunFacts
    <2>2. b \in Fresh /\ Null \in Fresh \cup {Null} /\ b # Null /\ CloneAndFree(<<b, Null>>, S)
      BY <1>2, CopyPairs, HeapAssumption DEF Fresh
    <2> QED BY <2>1, <2>2, SoundClone
  <1>4. /\ stack'[cur] = (stack[cur] \ S) \cup {b}
        /\ \A t \in Tasks \ {cur} : stack'[t] = stack[t]
    BY <1>0, <1>2, RunFacts DEF TypeOK
  <1>5. UNCHANGED <<locals, queue, open, phase, sched, result>> /\ Unfinished' = Unfinished
    BY DEF PushNew, Unfinished, sched
  <1>6. /\ \A t \in Unfinished : stack'[t] \subseteq ((O \ S) \cup {b}) /\ locals'[t] \subseteq ((O \ S) \cup {b})
        /\ \A c \in open' : queue'[c] \subseteq ((O \ S) \cup {b})
    BY <1>0, <1>1, <1>2, <1>3, <1>4, <1>5, RunFacts DEF Apart
  <1>7. Apart(Unfinished, {})'
    BY <1>0, <1>1, <1>2, <1>3, <1>4, <1>5, RunFacts DEF Apart
  <1>8. \A t \in Tasks : t >= nTasks => stack'[t] = stack[t] /\ locals'[t] = locals[t]
    BY <1>0, <1>1, <1>4, <1>5, RunFacts DEF Tasks, TypeOK
  <1>9. \A c \in Chan \ open' : queue'[c] = {}
    BY <1>4, <1>5 DEF HeapInv
  <1> QED BY <1>0, <1>3, <1>5, <1>6, <1>7, <1>8, <1>9, RunsOn


LEMMA LoadLocalHeap == ASSUME TypeOK, TypeOK', HeapInv, LoadLocal PROVE HeapInv'
  <1>0. Running
    BY DEF LoadLocal
  <1>1. PICK O : O = Owned(Unfinished, {})
    OBVIOUS
  <1>v. PICK v \in locals[cur] : \E p \in Copies(v) :
            CloneAndFree(p, {}) /\ stack' = [stack EXCEPT ![cur] = @ \cup {p[1]}]
    BY DEF LoadLocal
  <1>2. PICK p \in Copies(v) : CloneAndFree(p, {}) /\ stack' = [stack EXCEPT ![cur] = @ \cup {p[1]}]
    BY <1>v
  <1>3. Sound((O \ {}) \cup {p[1]}, alloc', child') /\ fault' = fault /\ p[1] \in Block /\ p[1] \notin O
    <2>1. {} \subseteq O /\ Sound(O, alloc, child)
      BY <1>0, <1>1, <1>2, RunFacts
    <2>2. p[1] \in Fresh /\ p[2] \in Fresh \cup {Null} /\ p[1] # p[2] /\ CloneAndFree(<<p[1], p[2]>>, {})
      BY <1>2, CopyPairs, HeapAssumption DEF Fresh
    <2> QED BY <2>1, <2>2, SoundClone
  <1>4. /\ stack'[cur] = stack[cur] \cup {p[1]}
        /\ \A t \in Tasks \ {cur} : stack'[t] = stack[t]
    BY <1>0, <1>2, RunFacts DEF TypeOK
  <1>5. UNCHANGED <<locals, queue, open, phase, sched, result>> /\ Unfinished' = Unfinished
    BY DEF LoadLocal, Unfinished, sched
  <1>6. /\ \A t \in Unfinished : stack'[t] \subseteq ((O \ {}) \cup {p[1]}) /\ locals'[t] \subseteq ((O \ {}) \cup {p[1]})
        /\ \A c \in open' : queue'[c] \subseteq ((O \ {}) \cup {p[1]})
    BY <1>0, <1>1, <1>2, <1>3, <1>4, <1>5, RunFacts DEF Apart
  <1>7. Apart(Unfinished, {})'
    BY <1>0, <1>1, <1>2, <1>3, <1>4, <1>5, RunFacts DEF Apart
  <1>8. \A t \in Tasks : t >= nTasks => stack'[t] = stack[t] /\ locals'[t] = locals[t]
    BY <1>0, <1>1, <1>4, <1>5, RunFacts DEF Tasks, TypeOK
  <1>9. \A c \in Chan \ open' : queue'[c] = {}
    BY <1>4, <1>5 DEF HeapInv
  <1> QED BY <1>0, <1>3, <1>5, <1>6, <1>7, <1>8, <1>9, RunsOn


LEMMA GetItemHeap == ASSUME TypeOK, TypeOK', HeapInv, GetItem PROVE HeapInv'
  <1>0. Running
    BY DEF GetItem
  <1>1. PICK O : O = Owned(Unfinished, {})
    OBVIOUS
  <1>v. PICK v \in stack[cur] : child[v] # Null /\ \E p \in Copies(child[v]) :
            CloneAndFree(p, {v}) /\ stack' = [stack EXCEPT ![cur] = (@ \ {v}) \cup {p[1]}]
    BY DEF GetItem
  <1>2. PICK p \in Copies(child[v]) :
            CloneAndFree(p, {v}) /\ stack' = [stack EXCEPT ![cur] = (@ \ {v}) \cup {p[1]}]
    BY <1>v
  <1>3. Sound((O \ {v}) \cup {p[1]}, alloc', child') /\ fault' = fault /\ p[1] \in Block /\ p[1] \notin O
    <2>1. {v} \subseteq O /\ Sound(O, alloc, child)
      BY <1>0, <1>1, <1>2, RunFacts
    <2>2. p[1] \in Fresh /\ p[2] \in Fresh \cup {Null} /\ p[1] # p[2] /\ CloneAndFree(<<p[1], p[2]>>, {v})
      BY <1>2, CopyPairs, HeapAssumption DEF Fresh
    <2> QED BY <2>1, <2>2, SoundClone
  <1>4. /\ stack'[cur] = (stack[cur] \ {v}) \cup {p[1]}
        /\ \A t \in Tasks \ {cur} : stack'[t] = stack[t]
    BY <1>0, <1>2, RunFacts DEF TypeOK
  <1>5. UNCHANGED <<locals, queue, open, phase, sched, result>> /\ Unfinished' = Unfinished
    BY DEF GetItem, Unfinished, sched
  <1>6. /\ \A t \in Unfinished : stack'[t] \subseteq ((O \ {v}) \cup {p[1]}) /\ locals'[t] \subseteq ((O \ {v}) \cup {p[1]})
        /\ \A c \in open' : queue'[c] \subseteq ((O \ {v}) \cup {p[1]})
    BY <1>0, <1>1, <1>2, <1>3, <1>4, <1>5, RunFacts DEF Apart
  <1>7. Apart(Unfinished, {})'
    BY <1>0, <1>1, <1>2, <1>3, <1>4, <1>5, RunFacts DEF Apart
  <1>8. \A t \in Tasks : t >= nTasks => stack'[t] = stack[t] /\ locals'[t] = locals[t]
    BY <1>0, <1>1, <1>4, <1>5, RunFacts DEF Tasks, TypeOK
  <1>9. \A c \in Chan \ open' : queue'[c] = {}
    BY <1>4, <1>5 DEF HeapInv
  <1> QED BY <1>0, <1>3, <1>5, <1>6, <1>7, <1>8, <1>9, RunsOn


LEMMA SendHeap == ASSUME TypeOK, TypeOK', HeapInv, Send PROVE HeapInv'
  <1>0. Running
    BY DEF Send
  <1>1. PICK O : O = Owned(Unfinished, {})
    OBVIOUS
  <1>v. PICK c \in open, v \in stack[cur] : \E p \in Copies(v) :
            /\ CloneAndFree(p, {v})
            /\ queue' = [queue EXCEPT ![c] = @ \cup {p[1]}]
            /\ stack' = [stack EXCEPT ![cur] = @ \ {v}]
    BY DEF Send
  <1>2. PICK p \in Copies(v) :
            /\ CloneAndFree(p, {v})
            /\ queue' = [queue EXCEPT ![c] = @ \cup {p[1]}]
            /\ stack' = [stack EXCEPT ![cur] = @ \ {v}]
    BY <1>v
  <1>3. Sound((O \ {v}) \cup {p[1]}, alloc', child') /\ fault' = fault /\ p[1] \in Block /\ p[1] \notin O
    <2>1. {v} \subseteq O /\ Sound(O, alloc, child)
      BY <1>0, <1>1, <1>2, RunFacts
    <2>2. p[1] \in Fresh /\ p[2] \in Fresh \cup {Null} /\ p[1] # p[2] /\ CloneAndFree(<<p[1], p[2]>>, {v})
      BY <1>2, CopyPairs, HeapAssumption DEF Fresh
    <2> QED BY <2>1, <2>2, SoundClone
  <1>4. /\ stack'[cur] = stack[cur] \ {v}
        /\ \A t \in Tasks \ {cur} : stack'[t] = stack[t]
        /\ queue'[c] = queue[c] \cup {p[1]}
        /\ \A d \in Chan \ {c} : queue'[d] = queue[d]
    BY <1>0, <1>2, RunFacts DEF TypeOK
  <1>5. UNCHANGED <<locals, open, phase, sched, result>> /\ Unfinished' = Unfinished
    BY DEF Send, Unfinished, sched
  <1>6. /\ \A t \in Unfinished : stack'[t] \subseteq ((O \ {v}) \cup {p[1]}) /\ locals'[t] \subseteq ((O \ {v}) \cup {p[1]})
        /\ \A d \in open' : queue'[d] \subseteq ((O \ {v}) \cup {p[1]})
    BY <1>0, <1>1, <1>2, <1>3, <1>4, <1>5, RunFacts DEF Apart
  <1>7. Apart(Unfinished, {})'
    BY <1>0, <1>1, <1>2, <1>3, <1>4, <1>5, RunFacts DEF Apart
  <1>8. \A t \in Tasks : t >= nTasks => stack'[t] = stack[t] /\ locals'[t] = locals[t]
    BY <1>0, <1>1, <1>4, <1>5, RunFacts DEF Tasks, TypeOK
  <1>9. \A d \in Chan \ open' : queue'[d] = {}
    BY <1>4, <1>5 DEF HeapInv
  <1> QED BY <1>0, <1>3, <1>5, <1>6, <1>7, <1>8, <1>9, RunsOn

LEMMA StoreLocalHeap == ASSUME TypeOK, TypeOK', HeapInv, StoreLocal PROVE HeapInv'
  <1>0. Running
    BY DEF StoreLocal
  <1>1. PICK O : O = Owned(Unfinished, {})
    OBVIOUS
  <1>2. PICK v \in stack[cur] : /\ stack'  = [stack EXCEPT ![cur] = @ \ {v}]
                                /\ locals' = [locals EXCEPT ![cur] = @ \cup {v}]
    BY DEF StoreLocal
  <1>3. Sound(O, alloc', child') /\ fault' = fault
    BY <1>0, <1>1, RunFacts DEF StoreLocal, mem
  <1>4. /\ stack'[cur] = stack[cur] \ {v}
        /\ \A t \in Tasks \ {cur} : stack'[t] = stack[t]
        /\ locals'[cur] = locals[cur] \cup {v}
        /\ \A t \in Tasks \ {cur} : locals'[t] = locals[t]
    BY <1>0, <1>2, RunFacts DEF TypeOK
  <1>5. UNCHANGED <<queue, open, phase, sched, result>> /\ Unfinished' = Unfinished
    BY DEF StoreLocal, Unfinished, sched
  <1>6. /\ \A t \in Unfinished : stack'[t] \subseteq O /\ locals'[t] \subseteq O
        /\ \A c \in open' : queue'[c] \subseteq O
    BY <1>0, <1>1, <1>2, <1>3, <1>4, <1>5, RunFacts DEF Apart
  <1>7. Apart(Unfinished, {})'
    BY <1>0, <1>1, <1>2, <1>3, <1>4, <1>5, RunFacts DEF Apart
  <1>8. \A t \in Tasks : t >= nTasks => stack'[t] = stack[t] /\ locals'[t] = locals[t]
    BY <1>0, <1>1, <1>4, <1>5, RunFacts DEF Tasks, TypeOK
  <1>9. \A c \in Chan \ open' : queue'[c] = {}
    BY <1>4, <1>5 DEF HeapInv
  <1> QED BY <1>0, <1>3, <1>5, <1>6, <1>7, <1>8, <1>9, RunsOn


LEMMA BuildHeap == ASSUME TypeOK, TypeOK', HeapInv, Build PROVE HeapInv'
  <1>0. Running
    BY DEF Build
  <1>1. PICK O : O = Owned(Unfinished, {})
    OBVIOUS
  <1>2. PICK v \in stack[cur], b \in Fresh :
            /\ child[v] = Null
            /\ alloc' = alloc \cup {b} /\ tracked' = tracked \cup {b}
            /\ child' = [child EXCEPT ![b] = v]
            /\ stack' = [stack EXCEPT ![cur] = (@ \ {v}) \cup {b}]
    BY DEF Build
  <1>3. Sound((O \ {v}) \cup {b}, alloc', child') /\ fault' = fault /\ b \in Block /\ b \notin O
    <2>1. v \in O /\ Sound(O, alloc, child)
      BY <1>0, <1>1, <1>2, RunFacts
    <2>2. b \in Block /\ b \notin alloc /\ b \notin O /\ v \in Block /\ v # b
      BY <1>2, <2>1 DEF Fresh, Sound
    <2>3. child'[b] = v /\ \A x \in O : child'[x] = child[x]
      BY <1>2, <2>1, <2>2 DEF TypeOK, Sound
    <2>4. \A x \in O : child[x] # b /\ child[x] # v
      BY <2>1, <2>2, HeapAssumption DEF Sound
    <2>5. Sound((O \ {v}) \cup {b}, alloc', child')
      <3>1. \A x \in (O \ {v}) \cup {b} : x \in alloc' /\ (child'[x] # Null => child'[x] \in alloc')
        BY <1>2, <2>1, <2>3 DEF Sound
      <3>2. \A x, y \in (O \ {v}) \cup {b} : child'[x] # y
        BY <2>1, <2>2, <2>3, <2>4 DEF Sound
      <3>3. \A x, y \in (O \ {v}) \cup {b} : x # y /\ child'[x] = child'[y] => child'[x] = Null
        BY <2>1, <2>2, <2>3, <2>4 DEF Sound
      <3> QED BY <2>1, <2>2, <3>1, <3>2, <3>3 DEF Sound
    <2> QED BY <2>2, <2>5 DEF Build
  <1>4. /\ stack'[cur] = (stack[cur] \ {v}) \cup {b}
        /\ \A t \in Tasks \ {cur} : stack'[t] = stack[t]
    BY <1>0, <1>2, RunFacts DEF TypeOK
  <1>5. UNCHANGED <<locals, queue, open, phase, sched, result>> /\ Unfinished' = Unfinished
    BY DEF Build, Unfinished, sched
  <1>6. /\ \A t \in Unfinished : stack'[t] \subseteq ((O \ {v}) \cup {b}) /\ locals'[t] \subseteq ((O \ {v}) \cup {b})
        /\ \A c \in open' : queue'[c] \subseteq ((O \ {v}) \cup {b})
    BY <1>0, <1>1, <1>2, <1>3, <1>4, <1>5, RunFacts DEF Apart
  <1>7. Apart(Unfinished, {})'
    BY <1>0, <1>1, <1>2, <1>3, <1>4, <1>5, RunFacts DEF Apart
  <1>8. \A t \in Tasks : t >= nTasks => stack'[t] = stack[t] /\ locals'[t] = locals[t]
    BY <1>0, <1>1, <1>4, <1>5, RunFacts DEF Tasks, TypeOK
  <1>9. \A c \in Chan \ open' : queue'[c] = {}
    BY <1>4, <1>5 DEF HeapInv
  <1> QED BY <1>0, <1>3, <1>5, <1>6, <1>7, <1>8, <1>9, RunsOn


LEMMA SyscallRawHeap == ASSUME TypeOK, TypeOK', HeapInv, SyscallRaw PROVE HeapInv'
  <1>0. Running
    BY DEF SyscallRaw
  <1>1. PICK O : O = Owned(Unfinished, {})
    OBVIOUS
  <1>2. PICK b \in Fresh, c \in Fresh \cup {Null} :
            /\ b # c
            /\ alloc' = alloc \cup ({b, c} \ {Null})
            /\ child' = [child EXCEPT ![b] = c]
            /\ stack' = [stack EXCEPT ![cur] = @ \cup {b}]
    BY DEF SyscallRaw
  <1>3. Sound(O \cup {b}, alloc', child') /\ fault' = fault /\ b \in Block /\ b \notin O
    <2>1. Sound(O, alloc, child) /\ child \in Children
      BY <1>0, <1>1, RunFacts DEF TypeOK, Children
    <2>2. b \in Block \ alloc /\ c \in (Block \ alloc) \cup {Null}
      BY DEF Fresh
    <2>3. Sound(O \cup {b}, alloc', child')
      BY <1>2, <2>1, <2>2, SoundNew
    <2> QED BY <2>1, <2>2, <2>3 DEF SyscallRaw, Sound
  <1>4. /\ stack'[cur] = stack[cur] \cup {b}
        /\ \A t \in Tasks \ {cur} : stack'[t] = stack[t]
    BY <1>0, <1>2, RunFacts DEF TypeOK
  <1>5. UNCHANGED <<locals, queue, open, phase, sched, result>> /\ Unfinished' = Unfinished
    BY DEF SyscallRaw, Unfinished, sched
  <1>6. /\ \A t \in Unfinished : stack'[t] \subseteq (O \cup {b}) /\ locals'[t] \subseteq (O \cup {b})
        /\ \A d \in open' : queue'[d] \subseteq (O \cup {b})
    BY <1>0, <1>1, <1>2, <1>3, <1>4, <1>5, RunFacts DEF Apart
  <1>7. Apart(Unfinished, {})'
    BY <1>0, <1>1, <1>2, <1>3, <1>4, <1>5, RunFacts DEF Apart
  <1>8. \A t \in Tasks : t >= nTasks => stack'[t] = stack[t] /\ locals'[t] = locals[t]
    BY <1>0, <1>1, <1>4, <1>5, RunFacts DEF Tasks, TypeOK
  <1>9. \A d \in Chan \ open' : queue'[d] = {}
    BY <1>4, <1>5 DEF HeapInv
  <1> QED BY <1>0, <1>3, <1>5, <1>6, <1>7, <1>8, <1>9, RunsOn


LEMMA DropHeap == ASSUME TypeOK, TypeOK', HeapInv, Drop PROVE HeapInv'
  <1>0. Running
    BY DEF Drop
  <1>1. PICK O : O = Owned(Unfinished, {})
    OBVIOUS
  <1>2. PICK v \in stack[cur] \cup locals[cur] : /\ Free({v})
                                              /\ stack'  = [stack EXCEPT ![cur] = @ \ {v}]
                                              /\ locals' = [locals EXCEPT ![cur] = @ \ {v}]
    BY DEF Drop, Own
  <1>3. Sound(O \ {v}, alloc', child') /\ fault' = fault
    <2>1. {v} \subseteq O /\ Sound(O, alloc, child)
      BY <1>0, <1>1, <1>2, RunFacts
    <2>2. Sound(O \ {v}, alloc \ Released({v}), Emptied(Released({v}))) /\ ~Faulty({v})
      BY <2>1, SoundRelease
    <2> QED BY <1>2, <2>2 DEF Free, TypeOK
  <1>4. /\ stack'[cur] = stack[cur] \ {v}
        /\ \A t \in Tasks \ {cur} : stack'[t] = stack[t]
        /\ locals'[cur] = locals[cur] \ {v}
        /\ \A t \in Tasks \ {cur} : locals'[t] = locals[t]
    BY <1>0, <1>2, RunFacts DEF TypeOK
  <1>5. UNCHANGED <<queue, open, phase, sched, result>> /\ Unfinished' = Unfinished
    BY DEF Drop, Unfinished, sched
  <1>6. /\ \A t \in Unfinished : stack'[t] \subseteq (O \ {v}) /\ locals'[t] \subseteq (O \ {v})
        /\ \A c \in open' : queue'[c] \subseteq (O \ {v})
    BY <1>0, <1>1, <1>2, <1>3, <1>4, <1>5, RunFacts DEF Apart
  <1>7. Apart(Unfinished, {})'
    BY <1>0, <1>1, <1>2, <1>3, <1>4, <1>5, RunFacts DEF Apart
  <1>8. \A t \in Tasks : t >= nTasks => stack'[t] = stack[t] /\ locals'[t] = locals[t]
    BY <1>0, <1>1, <1>4, <1>5, RunFacts DEF Tasks, TypeOK
  <1>9. \A c \in Chan \ open' : queue'[c] = {}
    BY <1>4, <1>5 DEF HeapInv
  <1> QED BY <1>0, <1>3, <1>5, <1>6, <1>7, <1>8, <1>9, RunsOn


LEMMA ChannelHeap == ASSUME TypeOK, TypeOK', HeapInv, Channel PROVE HeapInv'
  <1>0. Running
    BY DEF Channel
  <1>1. PICK O : O = Owned(Unfinished, {})
    OBVIOUS
  <1>2. PICK c \in Chan \ open : open' = open \cup {c}
    BY DEF Channel
  <1>3. Sound(O, alloc', child') /\ fault' = fault
    BY <1>0, <1>1, RunFacts DEF Channel, mem
  <1>4. queue[c] = {}
    BY <1>2 DEF HeapInv
  <1>5. UNCHANGED <<stack, locals, queue, phase, sched, result>> /\ Unfinished' = Unfinished
    BY DEF Channel, Unfinished, sched
  <1>6. /\ \A t \in Unfinished : stack'[t] \subseteq O /\ locals'[t] \subseteq O
        /\ \A d \in open' : queue'[d] \subseteq O
    BY <1>0, <1>1, <1>2, <1>3, <1>4, <1>5, RunFacts DEF Apart
  <1>7. Apart(Unfinished, {})'
    BY <1>0, <1>1, <1>2, <1>3, <1>4, <1>5, RunFacts DEF Apart
  <1>8. \A t \in Tasks : t >= nTasks => stack'[t] = stack[t] /\ locals'[t] = locals[t]
    BY <1>0, <1>1, <1>4, <1>5, RunFacts DEF Tasks, TypeOK
  <1>9. \A d \in Chan \ open' : queue'[d] = {}
    BY <1>2, <1>5 DEF HeapInv
  <1> QED BY <1>0, <1>3, <1>5, <1>6, <1>7, <1>8, <1>9, RunsOn


LEMMA RecvHeap == ASSUME TypeOK, TypeOK', HeapInv, Recv PROVE HeapInv'
  <1>0. Running
    BY DEF Recv
  <1>1. PICK O : O = Owned(Unfinished, {})
    OBVIOUS
  <1>v. PICK c \in open : \E v \in queue[c] : /\ queue' = [queue EXCEPT ![c] = @ \ {v}]
                                              /\ stack' = [stack EXCEPT ![cur] = @ \cup {v}]
    BY DEF Recv
  <1>2. PICK v \in queue[c] : /\ queue' = [queue EXCEPT ![c] = @ \ {v}]
                              /\ stack' = [stack EXCEPT ![cur] = @ \cup {v}]
    BY <1>v
  <1>3. Sound(O, alloc', child') /\ fault' = fault
    BY <1>0, <1>1, RunFacts DEF Recv, mem
  <1>4. /\ stack'[cur] = stack[cur] \cup {v}
        /\ \A t \in Tasks \ {cur} : stack'[t] = stack[t]
        /\ queue'[c] = queue[c] \ {v}
        /\ \A d \in Chan \ {c} : queue'[d] = queue[d]
    BY <1>0, <1>2, RunFacts DEF TypeOK
  <1>5. UNCHANGED <<locals, open, phase, sched, result>> /\ Unfinished' = Unfinished
    BY DEF Recv, Unfinished, sched
  <1>6. /\ \A t \in Unfinished : stack'[t] \subseteq O /\ locals'[t] \subseteq O
        /\ \A d \in open' : queue'[d] \subseteq O
    BY <1>0, <1>1, <1>2, <1>3, <1>4, <1>5, RunFacts DEF Apart
  <1>7. Apart(Unfinished, {})'
    BY <1>0, <1>1, <1>2, <1>3, <1>4, <1>5, RunFacts DEF Apart
  <1>8. \A t \in Tasks : t >= nTasks => stack'[t] = stack[t] /\ locals'[t] = locals[t]
    BY <1>0, <1>1, <1>4, <1>5, RunFacts DEF Tasks, TypeOK
  <1>9. \A d \in Chan \ open' : queue'[d] = {}
    BY <1>4, <1>5 DEF HeapInv
  <1> QED BY <1>0, <1>3, <1>5, <1>6, <1>7, <1>8, <1>9, RunsOn


LEMMA GcCollectHeap == ASSUME TypeOK, TypeOK', HeapInv, GcCollect PROVE HeapInv'
  <1>0. Running
    BY DEF GcCollect
  <1>1. PICK O : O = Owned(Unfinished, {})
    OBVIOUS
  <1>2. PICK kept \in SUBSET open :
            LET closing == UNION {queue[c] : c \in open \ kept}
                swept   == tracked \ Reach(GcRoots(kept))
            IN  /\ alloc'   = alloc \ (Released(closing) \cup swept)
                /\ tracked' = tracked \ swept
                /\ child'   = Emptied(Released(closing) \cup swept)
                /\ fault'   = (fault \/ Faulty(closing))
                /\ open'    = kept
                /\ queue'   = [c \in Chan |-> IF c \in kept THEN queue[c] ELSE {}]
    BY DEF GcCollect
  <1> DEFINE closing == UNION {queue[c] : c \in open \ kept}
             swept   == tracked \ Reach(GcRoots(kept))
  <1>a. closing \subseteq O
    BY <1>0, <1>1, RunFacts
  <1>b. /\ GcRoots(kept) \subseteq O
        /\ \A t \in Unfinished : stack[t] \subseteq GcRoots(kept) /\ locals[t] \subseteq GcRoots(kept)
        /\ \A c \in kept : queue[c] \subseteq GcRoots(kept)
    <2>1. \A x \in GcRoots(kept) : (\E t \in Unfinished : x \in Own(t)) \/ (\E c \in kept : x \in queue[c])
      BY DEF GcRoots
    <2>2. /\ \A t \in Unfinished : Own(t) \subseteq GcRoots(kept)
          /\ \A c \in kept : queue[c] \subseteq GcRoots(kept)
      BY DEF GcRoots
    <2>3. GcRoots(kept) \subseteq O
      BY <1>0, <1>1, <2>1, RunFacts DEF Own
    <2> QED BY <2>2, <2>3 DEF Own
  <1>c. GcRoots(kept) \cap closing = {}
    BY <1>0, <1>1, RunFacts DEF GcRoots, Own, Apart
  <1>3. Sound(GcRoots(kept), alloc', child') /\ fault' = fault
    <2> HIDE DEF closing
    <2>1. Sound(O, alloc, child)
      BY <1>0, <1>1, RunFacts
    <2>2. Sound(GcRoots(kept), alloc, child)
      BY <1>b, <2>1, SoundPart
    <2>3. ~Faulty(closing)
      BY <1>a, <2>1, SoundRelease
    <2>4. \A x \in Released(closing) : x \in closing \/ \E y \in closing : x = child[y] /\ x # Null
      BY DEF Released, Visited
    <2>5. \A x \in GcRoots(kept) : x \notin Released(closing) /\ child[x] \notin Released(closing)
      BY <1>a, <1>b, <1>c, <2>1, <2>4 DEF Sound
    <2>6. \A x \in GcRoots(kept) : x \notin swept /\ child[x] \notin swept
      <3>1. Null \notin tracked
        BY HeapAssumption DEF TypeOK
      <3> QED BY <3>1 DEF Reach
    <2> HIDE DEF swept
    <2>7. \A x \in GcRoots(kept) : x \notin Released(closing) \cup swept /\ child[x] \notin Released(closing) \cup swept
      BY <2>5, <2>6
    <2>8. Sound(GcRoots(kept), alloc \ (Released(closing) \cup swept), Emptied(Released(closing) \cup swept))
      BY <2>2, <2>7, SoundFree
    <2>9. /\ alloc' = alloc \ (Released(closing) \cup swept)
          /\ child' = Emptied(Released(closing) \cup swept)
          /\ fault' = (fault \/ Faulty(closing))
      BY <1>2 DEF closing, swept
    <2> QED BY <2>3, <2>8, <2>9 DEF TypeOK
  <1>4. /\ open' = kept /\ \A c \in kept : queue'[c] = queue[c]
        /\ \A c \in Chan \ kept : queue'[c] = {}
    BY <1>2 DEF TypeOK
  <1>5. UNCHANGED <<stack, locals, phase, sched, result>> /\ Unfinished' = Unfinished
    BY DEF GcCollect, Unfinished, sched
  <1>6. /\ \A t \in Unfinished : stack'[t] \subseteq GcRoots(kept) /\ locals'[t] \subseteq GcRoots(kept)
        /\ \A c \in open' : queue'[c] \subseteq GcRoots(kept)
    BY <1>b, <1>4, <1>5
  <1>7. Apart(Unfinished, {})'
    BY <1>0, <1>1, <1>4, <1>5, RunFacts DEF Apart
  <1>8. \A t \in Tasks : t >= nTasks => stack'[t] = stack[t] /\ locals'[t] = locals[t]
    BY <1>0, <1>1, <1>4, <1>5, RunFacts DEF Tasks, TypeOK
  <1>9. \A c \in Chan \ open' : queue'[c] = {}
    BY <1>4
  <1> QED BY <1>0, <1>3, <1>5, <1>6, <1>7, <1>8, <1>9, RunsOn

(* Switching and spawning change who is unfinished.                        *)
LEMMA SoleNext ==
    ASSUME TypeOK', NEW X, Sound(X, alloc', child'),
           \A t \in Unfinished' : stack'[t] \subseteq X /\ locals'[t] \subseteq X,
           \A c \in open' : queue'[c] \subseteq X,
           Apart(Unfinished, {})'
    PROVE  Sole(Unfinished, {})'
  <1>1. Owned(Unfinished, {})' \subseteq X
    BY DEF Owned
  <1>2. Sound(Owned(Unfinished, {}), alloc, child)'
    BY <1>1, SoundPart
  <1> QED BY <1>2 DEF Sole

LEMMA SwitchHeap == ASSUME TypeOK, TypeOK', HeapInv, Switch PROVE HeapInv'
  <1>1. Unfinished' = Unfinished /\ cur' \in Unfinished /\ phase = "run" /\ phase' = "run"
    BY DEF Switch, Unfinished, Running
  <1>2. UNCHANGED <<mem, nTasks, finished, stack, locals, result, open, queue>>
    BY DEF Switch
  <1>3. Sole(Unfinished, {})'
    BY <1>1, <1>2 DEF HeapInv, Running, Sole, Apart, Owned, Sound, mem
  <1> QED BY <1>1, <1>2, <1>3 DEF HeapInv, Running, mem

LEMMA SpawnHeap == ASSUME TypeOK, TypeOK', HeapInv, Spawn PROVE HeapInv'
  <1>0. Running /\ phase' = "run" /\ UNCHANGED <<cur, finished, stack, result, open, queue>>
    BY DEF Spawn, Running
  <1>1. PICK O : O = Owned(Unfinished, {})
    OBVIOUS
  <1>2. /\ nTasks' = nTasks + 1 /\ nTasks \in Tasks /\ nTasks \notin finished /\ nTasks \notin Unfinished
        /\ Unfinished' = Unfinished \cup {nTasks} /\ cur \in Unfinished'
    <2>1. nTasks' = nTasks + 1 /\ nTasks < MaxTasks
      BY DEF Spawn
    <2>2. nTasks \in Nat /\ nTasks \in Tasks /\ nTasks \notin finished
      BY <2>1, HeapAssumption DEF TypeOK, Tasks
    <2>3. \A t \in Tasks : t < nTasks + 1 <=> t < nTasks \/ t = nTasks
      BY <2>2 DEF Tasks
    <2>4. Unfinished' = Unfinished \cup {nTasks} /\ nTasks \notin Unfinished
      <3>1. ~(nTasks < nTasks)
        BY <2>2
      <3>2. nTasks \notin Unfinished
        BY <3>1 DEF Unfinished
      <3>3. Unfinished' = {t \in Tasks : t < nTasks + 1} \ finished
        BY <1>0, <2>1 DEF Unfinished
      <3>4. {t \in Tasks : t < nTasks + 1} = {t \in Tasks : t < nTasks} \cup {nTasks}
        BY <2>2, <2>3, Zenon
      <3>5. Unfinished' = Unfinished \cup {nTasks}
        BY <2>2, <3>3, <3>4, Zenon DEF Unfinished
      <3> QED BY <3>2, <3>5
    <2> QED BY <1>0, <1>1, <2>1, <2>2, <2>4, RunFacts
  <1>3. stack[nTasks] = {} /\ locals[nTasks] = {} /\ result[nTasks] = Null
    BY <1>2 DEF HeapInv, TypeOK
  <1>4. PICK N : /\ Sound(O \cup N, alloc', child') /\ fault' = fault /\ N \cap O = {}
                 /\ locals'[nTasks] = N /\ \A t \in Tasks \ {nTasks} : locals'[t] = locals[t]
    <2>1. CASE UNCHANGED <<mem, locals>>
      <3>1. Sound(O \cup {}, alloc', child') /\ fault' = fault
        <4>1. Sound(O, alloc, child) /\ O \cup {} = O
          BY <1>0, <1>1, RunFacts
        <4> QED BY <2>1, <4>1 DEF mem
      <3> WITNESS {}
      <3> QED BY <2>1, <3>1, <1>3
    <2>2. CASE \E v \in locals[cur] : \E p \in Copies(v) :
                  CloneAndFree(p, {}) /\ locals' = [locals EXCEPT ![nTasks] = {p[1]}]
      <3>1. PICK v \in locals[cur] : \E p \in Copies(v) :
                  CloneAndFree(p, {}) /\ locals' = [locals EXCEPT ![nTasks] = {p[1]}]
        BY <2>2
      <3>2. PICK p \in Copies(v) : CloneAndFree(p, {}) /\ locals' = [locals EXCEPT ![nTasks] = {p[1]}]
        BY <3>1
      <3>3. Sound((O \ {}) \cup {p[1]}, alloc', child') /\ fault' = fault /\ p[1] \notin O
        <4>1. {} \subseteq O /\ Sound(O, alloc, child)
          BY <1>0, <1>1, RunFacts
        <4> QED BY <3>2, <4>1, CopyPairs, SoundClone
      <3>4. O \ {} = O
        OBVIOUS
      <3> WITNESS {p[1]}
      <3> QED BY <3>2, <3>3, <3>4, <1>2 DEF TypeOK
    <2> QED BY <2>1, <2>2 DEF Spawn
  <1>5. /\ \A t \in Unfinished' : stack'[t] \subseteq O \cup N /\ locals'[t] \subseteq O \cup N
        /\ \A c \in open' : queue'[c] \subseteq O \cup N
    BY <1>0, <1>1, <1>2, <1>3, <1>4, RunFacts
  <1>6. Apart(Unfinished, {})'
    <2>1. Apart(Unfinished, {})
      BY <1>0, <1>1, RunFacts
    <2>2. \A t \in Unfinished : t \in Tasks \ {nTasks} /\ stack[t] \subseteq O /\ locals[t] \subseteq O
      BY <1>0, <1>1, <1>2, RunFacts
    <2>3. \A c \in open : queue[c] \subseteq O
      BY <1>0, <1>1, RunFacts
    <2> QED BY <1>0, <1>2, <1>3, <1>4, <2>1, <2>2, <2>3 DEF Apart
  <1>7. Sole(Unfinished, {})'
    BY <1>4, <1>5, <1>6, SoleNext
  <1>8. \A t \in Tasks : t >= nTasks' => stack'[t] = {} /\ locals'[t] = {} /\ result'[t] = Null
    <2>1. \A t \in Tasks : t >= nTasks' => t >= nTasks /\ t # nTasks
      BY <1>2 DEF TypeOK, Tasks
    <2> QED BY <1>0, <1>4, <2>1 DEF HeapInv
  <1> QED BY <1>0, <1>2, <1>4, <1>7, <1>8 DEF HeapInv, Running

(* A task leaves the table and its result is its own.                      *)
LEMMA LeaveHeap ==
    ASSUME TypeOK, TypeOK', HeapInv, Running, Leave, UNCHANGED <<nTasks, locals, open, queue>>,
           fault' = fault,
           stack'[cur] \subseteq stack[cur], \A t \in Tasks \ {cur} : stack'[t] = stack[t],
           \A t \in Tasks \ {cur} : result'[t] = result[t],
           NEW r, r = result'[cur],
           NEW X, Sound(X, alloc', child'), Owned(Unfinished, {}) \subseteq X, r # Null => r \in X,
           r \notin stack'[cur], r \notin locals[cur], \A c \in open : r \notin queue[c]
    PROVE  HeapInv'
  <1>1. PICK O : O = Owned(Unfinished, {})
    OBVIOUS
  <1>2. Unfinished' = Unfinished \ {cur} /\ Unfinished \subseteq Tasks /\ cur \in Tasks /\ cur < nTasks
    BY RunFacts DEF Unfinished, Leave
  <1>3. \A t \in Tasks : stack'[t] \subseteq stack[t] /\ locals'[t] = locals[t]
    OBVIOUS
  <1>4. CASE cur' \in Unfinished \ {cur} /\ phase' = "run"
    <2>1. /\ \A t \in Unfinished' : stack'[t] \subseteq X /\ locals'[t] \subseteq X
          /\ \A c \in open' : queue'[c] \subseteq X
      BY <1>1, <1>2, <1>3, RunFacts
    <2>2. Apart(Unfinished, {})'
      BY <1>1, <1>2, <1>3, RunFacts DEF Apart
    <2>3. Sole(Unfinished, {})'
      BY <2>1, <2>2, SoleNext
    <2>4. nTasks' # 1 \/ phase' \notin {"halted", "result_freed", "natives_swept", "vm_freed"}
      BY <1>4
    <2>5. \A t \in Tasks \ finished' : result'[t] = Null
      BY DEF HeapInv, Leave
    <2>6. \A t \in Tasks : t >= nTasks' => stack'[t] = {} /\ locals'[t] = {} /\ result'[t] = Null
      BY <1>2, <1>3 DEF HeapInv, TypeOK, Tasks
    <2>7. cur' \in Unfinished' /\ ~fault' /\ \A c \in Chan \ open' : queue'[c] = {}
      BY <1>2, <1>4 DEF HeapInv
    <2> QED BY <1>4, <2>3, <2>4, <2>5, <2>6, <2>7 DEF HeapInv, Running
  <1>5. CASE cur' = cur /\ phase' = "halted"
    <2>1. ASSUME nTasks = 1 PROVE Sole({0}, {result[0]} \ {Null})'
      <3>1. cur = 0 /\ 0 \in Unfinished
        BY <2>1, <1>1, RunFacts DEF TypeOK
      <3>3. Apart({0}, {result[0]} \ {Null})'
        <4>1. Apart(Unfinished, {})
          BY <1>1, RunFacts
        <4> QED BY <1>3, <3>1, <4>1 DEF Apart
      <3>4. Owned({0}, {result[0]} \ {Null})' \subseteq X
        <4>1. /\ stack[0] \subseteq X /\ locals[0] \subseteq X
              /\ \A c \in open : queue[c] \subseteq X
          BY <1>1, <3>1, RunFacts
        <4> QED BY <3>1, <4>1 DEF Owned
      <3>5. Sound(Owned({0}, {result[0]} \ {Null}), alloc, child)'
        BY <3>4, SoundPart
      <3> QED BY <3>3, <3>5 DEF Sole
    <2>2. \A t \in Tasks : t >= nTasks' => stack'[t] = {} /\ locals'[t] = {} /\ result'[t] = Null
      BY <1>2, <1>3 DEF HeapInv, TypeOK, Tasks
    <2>3. ~fault' /\ \A c \in Chan \ open' : queue'[c] = {}
      BY DEF HeapInv
    <2> QED BY <1>5, <2>1, <2>2, <2>3 DEF HeapInv, Running
  <1> QED BY <1>4, <1>5 DEF Leave

LEMMA FinishHeap == ASSUME TypeOK, TypeOK', HeapInv, Finish PROVE HeapInv'
  <1>0. Running /\ Leave /\ UNCHANGED <<nTasks, stack, locals, open, queue>>
    BY DEF Finish
  <1>1. PICK O : O = Owned(Unfinished, {})
    OBVIOUS
  <1>2. Sound(O, alloc, child) /\ cur \in Tasks /\ cur \in Unfinished /\ Null \notin O
    BY <1>0, <1>1, RunFacts, HeapAssumption DEF Sound
  <1>3. stack[cur] \subseteq O /\ locals[cur] \subseteq O /\ \A c \in open : queue[c] \subseteq O
    BY <1>0, <1>1, RunFacts
  <1>4. CASE UNCHANGED <<mem, result>>
    <2>1. result[cur] = Null
      BY <1>0, <1>2 DEF HeapInv, Unfinished
    <2>2. Sound(O, alloc', child') /\ fault' = fault
      BY <1>2, <1>4 DEF mem
    <2> QED BY <1>0, <1>1, <1>2, <1>3, <1>4, <2>1, <2>2, LeaveHeap
  <1>5. CASE \E v \in stack[cur] : \E p \in Copies(v) :
                CloneAndFree(p, {}) /\ result' = [result EXCEPT ![cur] = p[1]]
    <2>1. PICK v \in stack[cur] : \E p \in Copies(v) :
                CloneAndFree(p, {}) /\ result' = [result EXCEPT ![cur] = p[1]]
      BY <1>5
    <2>2. PICK p \in Copies(v) : CloneAndFree(p, {}) /\ result' = [result EXCEPT ![cur] = p[1]]
      BY <2>1
    <2>3. Sound((O \ {}) \cup {p[1]}, alloc', child') /\ fault' = fault /\ p[1] \notin O
      <3>1. {} \subseteq O
        OBVIOUS
      <3> QED BY <1>2, <2>2, <3>1, CopyPairs, SoundClone
    <2>4. result'[cur] = p[1] /\ \A t \in Tasks \ {cur} : result'[t] = result[t]
      BY <1>2, <2>2 DEF TypeOK
    <2>5. PICK X : X = (O \ {}) \cup {p[1]}
      OBVIOUS
    <2>6. Sound(X, alloc', child') /\ O \subseteq X /\ p[1] \in X
      BY <2>3, <2>5
    <2>7. p[1] \notin stack'[cur] /\ p[1] \notin locals[cur] /\ \A c \in open : p[1] \notin queue[c]
      BY <1>0, <1>3, <2>3
    <2> QED BY <1>0, <1>1, <2>3, <2>4, <2>6, <2>7, LeaveHeap
  <1> QED BY <1>4, <1>5 DEF Finish

LEMMA FinishReturnHeap == ASSUME TypeOK, TypeOK', HeapInv, FinishReturn PROVE HeapInv'
  <1>0. Running /\ Leave /\ UNCHANGED <<mem, nTasks, locals, open, queue>>
    BY DEF FinishReturn
  <1>1. PICK O : O = Owned(Unfinished, {})
    OBVIOUS
  <1>2. Sound(O, alloc, child) /\ cur \in Tasks /\ cur \in Unfinished
    BY <1>0, <1>1, RunFacts
  <1>3. PICK v \in stack[cur] : /\ result' = [result EXCEPT ![cur] = v]
                                /\ stack'  = [stack EXCEPT ![cur] = @ \ {v}]
    BY DEF FinishReturn
  <1>4. /\ stack'[cur] = stack[cur] \ {v} /\ \A t \in Tasks \ {cur} : stack'[t] = stack[t]
        /\ result'[cur] = v /\ \A t \in Tasks \ {cur} : result'[t] = result[t]
    BY <1>2, <1>3 DEF TypeOK
  <1>5. v \in O /\ v \notin locals[cur] /\ \A c \in open : v \notin queue[c]
    BY <1>0, <1>1, <1>2, RunFacts DEF Apart
  <1>6. Sound(O, alloc', child') /\ fault' = fault
    BY <1>0, <1>2 DEF mem
  <1> QED BY <1>0, <1>1, <1>4, <1>5, <1>6, LeaveHeap

LEMMA RunErrorHeap == ASSUME TypeOK, TypeOK', HeapInv, RunError PROVE HeapInv'
  <1>0. Running /\ phase' = "halted" /\ UNCHANGED <<mem, sched, stack, locals, result, open, queue>>
    BY DEF RunError
  <1>1. ASSUME nTasks = 1 PROVE Sole({0}, {result[0]} \ {Null})'
    <2>1. PICK O : O = Owned(Unfinished, {})
      OBVIOUS
    <2>2. cur = 0 /\ 0 \in Unfinished /\ Unfinished = {0} /\ result[0] = Null
      <3>1. cur = 0 /\ cur \in Unfinished /\ \A t \in Unfinished : t < 1 /\ t \in Tasks
        BY <1>0, <1>1, <2>1, RunFacts DEF TypeOK
      <3>2. \A t \in Unfinished : t = 0
        BY <3>1 DEF Tasks
      <3> QED BY <1>0, <3>1, <3>2 DEF HeapInv, Unfinished
    <2>3. {result[0]} \ {Null} = {}
      BY <2>2
    <2>4. Sole({0}, {result[0]} \ {Null})
      BY <1>0, <2>2, <2>3 DEF HeapInv
    <2> QED BY <1>0, <2>4 DEF Sole, Apart, Owned, Sound, mem
  <1> QED BY <1>0, <1>1 DEF HeapInv, Running, mem, sched

-----------------------------------------------------------------------------
(* The release of everything when a program of one task has ended.         *)
LEMMA EndFacts ==
    ASSUME TypeOK, HeapInv, nTasks = 1, phase \in {"halted", "result_freed", "natives_swept"},
           NEW R, R = {result[0]} \ {Null}, NEW O, O = Owned({0}, R)
    PROVE  /\ ~fault /\ Apart({0}, R) /\ Sound(O, alloc, child)
           /\ stack[0] \subseteq O /\ locals[0] \subseteq O /\ \A c \in open : queue[c] \subseteq O
           /\ R \subseteq O
           /\ \A x \in O : x \in stack[0] \/ x \in locals[0] \/ x \in R \/ \E c \in open : x \in queue[c]
  <1>1. 0 \in Tasks
    BY HeapAssumption DEF Tasks
  <1>2. R \subseteq Block
    BY <1>1 DEF TypeOK
  <1>3. stack[0] \subseteq O /\ locals[0] \subseteq O /\ \A c \in open : queue[c] \subseteq O
    BY <1>1, OwnedParts
  <1> QED BY <1>2, <1>3 DEF HeapInv, Sole, Owned

LEMMA FreeResultHeap == ASSUME TypeOK, TypeOK', HeapInv, FreeResult PROVE HeapInv'
  <1>1. phase = "halted" /\ phase' = "result_freed" /\ UNCHANGED <<sched, stack, locals, open, queue>>
        /\ Free({result[0]} \ {Null}) /\ result' = [result EXCEPT ![0] = Null]
    BY DEF FreeResult
  <1>2. 0 \in Tasks /\ result'[0] = Null /\ \A t \in Tasks \ {0} : result'[t] = result[t]
    BY <1>1, HeapAssumption DEF Tasks, TypeOK
  <1>3. ASSUME nTasks = 1 PROVE ~fault' /\ Sole({0}, {result[0]} \ {Null})'
    <2>1. PICK R : R = {result[0]} \ {Null}
      OBVIOUS
    <2>2. PICK O : O = Owned({0}, R)
      OBVIOUS
    <2>3. /\ ~fault /\ Apart({0}, R) /\ Sound(O, alloc, child)
          /\ stack[0] \subseteq O /\ locals[0] \subseteq O /\ \A c \in open : queue[c] \subseteq O
          /\ R \subseteq O
      BY <1>1, <1>3, <2>1, <2>2, EndFacts
    <2>4. Sound(O \ R, alloc \ Released(R), Emptied(Released(R))) /\ ~Faulty(R)
      BY <2>3, SoundRelease
    <2>5. Sound(O \ R, alloc', child') /\ ~fault'
      BY <1>1, <2>1, <2>3, <2>4 DEF Free
    <2>6. Owned({0}, {})' \subseteq O \ R /\ Apart({0}, {})'
      <3>1. Apart({0}, {})'
        BY <1>1, <2>3 DEF Apart
      <3>2. Owned({0}, {})' \subseteq O \ R
        BY <1>1, <2>3 DEF Owned, Apart
      <3> QED BY <3>1, <3>2
    <2>7. ({result[0]} \ {Null})' = {}
      BY <1>2
    <2>8. Sound(Owned({0}, {}), alloc, child)'
      BY <2>5, <2>6, SoundPart
    <2>9. Sole({0}, {})'
      BY <2>6, <2>8 DEF Sole
    <2> QED BY <2>5, <2>7, <2>9
  <1> QED BY <1>1, <1>2, <1>3 DEF HeapInv, Running, sched

LEMMA SweepNativesHeap == ASSUME TypeOK, TypeOK', HeapInv, SweepNatives PROVE HeapInv'
  <1>1. PICK kept \in SUBSET open :
            /\ Free(UNION {queue[c] : c \in open \ kept})
            /\ open' = kept
            /\ queue' = [c \in Chan |-> IF c \in kept THEN queue[c] ELSE {}]
    BY DEF SweepNatives
  <1>2. phase = "result_freed" /\ phase' = "natives_swept" /\ UNCHANGED <<sched, stack, locals, result>>
    BY DEF SweepNatives
  <1>3. /\ open' = kept /\ \A c \in kept : queue'[c] = queue[c]
        /\ \A c \in Chan \ kept : queue'[c] = {}
    BY <1>1 DEF TypeOK
  <1>4. ASSUME nTasks = 1 PROVE ~fault' /\ Sole({0}, {result[0]} \ {Null})'
    <2>1. PICK R : R = {result[0]} \ {Null}
      OBVIOUS
    <2>2. PICK O : O = Owned({0}, R)
      OBVIOUS
    <2>3. PICK F : F = UNION {queue[c] : c \in open \ kept}
      OBVIOUS
    <2>4. /\ ~fault /\ Apart({0}, R) /\ Sound(O, alloc, child)
          /\ stack[0] \subseteq O /\ locals[0] \subseteq O /\ \A c \in open : queue[c] \subseteq O
          /\ R \subseteq O
      BY <1>2, <1>4, <2>1, <2>2, EndFacts
    <2>5. F \subseteq O
      BY <2>3, <2>4
    <2>6. Sound(O \ F, alloc', child') /\ ~fault'
      <3>1. Sound(O \ F, alloc \ Released(F), Emptied(Released(F))) /\ ~Faulty(F)
        BY <2>4, <2>5, SoundRelease
      <3> QED BY <1>1, <2>3, <2>4, <3>1 DEF Free
    <2>7. Apart({0}, R)'
      BY <1>1, <1>2, <1>3, <2>4 DEF Apart
    <2>8. Owned({0}, R)' \subseteq O \ F
      <3>1. \A x \in F : \E c \in open \ kept : x \in queue[c]
        BY <2>3
      <3>2. /\ \A x \in stack[0] \cup locals[0] \cup R : x \notin F
            /\ \A c \in kept : \A x \in queue[c] : x \notin F
        BY <2>4, <3>1 DEF Apart
      <3> QED BY <1>2, <1>3, <2>4, <3>2 DEF Owned
    <2>9. Sound(Owned({0}, R), alloc, child)'
      BY <2>6, <2>8, SoundPart
    <2>10. Sole({0}, R)'
      BY <2>7, <2>9 DEF Sole
    <2>11. ({result[0]} \ {Null})' = R
      BY <1>2, <2>1
    <2> QED BY <2>6, <2>10, <2>11
  <1> QED BY <1>2, <1>3, <1>4 DEF HeapInv, Running, sched

LEMMA FreeVmHeap == ASSUME TypeOK, TypeOK', HeapInv, FreeVm PROVE HeapInv'
  <1> DEFINE owned   == UNION {Own(t) : t \in Tasks}
             results == {result[t] : t \in Tasks} \ {Null}
             held    == owned \cup results
  <1>1. phase = "natives_swept" /\ phase' = "vm_freed" /\ UNCHANGED <<sched, open, queue>>
        /\ fault' = (fault \/ Faulty(held))
    BY DEF FreeVm
  <1>2. \A t \in Tasks : stack'[t] = {} /\ locals'[t] = {} /\ result'[t] = Null
    BY DEF FreeVm
  <1>3. ASSUME nTasks = 1 PROVE ~fault'
    <2>1. PICK R : R = {result[0]} \ {Null}
      OBVIOUS
    <2>2. PICK O : O = Owned({0}, R)
      OBVIOUS
    <2>3. /\ ~fault /\ Sound(O, alloc, child)
          /\ stack[0] \subseteq O /\ locals[0] \subseteq O /\ R \subseteq O
      BY <1>1, <1>3, <2>1, <2>2, EndFacts
    <2>4. \A t \in Tasks : t # 0 => stack[t] = {} /\ locals[t] = {} /\ result[t] = Null
      BY <1>3 DEF HeapInv, Tasks
    <2>5. owned \subseteq O
      BY <2>3, <2>4 DEF Own
    <2>6. results \subseteq O
      BY <2>1, <2>3, <2>4
    <2> HIDE DEF owned, results
    <2>7. held \subseteq O
      BY <2>5, <2>6
    <2> HIDE DEF held
    <2>8. ~Faulty(held)
      BY <2>3, <2>7, SoundRelease
    <2> QED BY <1>1, <2>3, <2>8
  <1> QED BY <1>1, <1>2, <1>3 DEF HeapInv, Running, sched

LEMMA FreeChannelsHeap == ASSUME TypeOK, TypeOK', HeapInv, FreeChannels PROVE HeapInv'
  <1>1. phase' = "done" /\ open' = {} /\ UNCHANGED <<sched, stack, locals, result>>
        /\ \A c \in Chan : queue'[c] = {}
    BY DEF FreeChannels
  <1> QED BY <1>1 DEF HeapInv, Running, sched

-----------------------------------------------------------------------------
LEMMA HeapStep == TypeOK /\ TypeOK' /\ HeapInv /\ [Next]_vars => HeapInv'
  <1> SUFFICES ASSUME TypeOK, TypeOK', HeapInv, [Next]_vars PROVE HeapInv'
    OBVIOUS
  <1>1. CASE Exited \/ UNCHANGED vars
    BY <1>1 DEF Exited, vars, mem, sched, HeapInv, Running, Unfinished, Sole, Apart, Owned, Sound
  <1> QED BY <1>1, PushNewHeap, LoadLocalHeap, StoreLocalHeap, GetItemHeap, BuildHeap, SyscallRawHeap, DropHeap,
             ChannelHeap, SendHeap, RecvHeap, SpawnHeap, SwitchHeap, GcCollectHeap, FinishHeap, FinishReturnHeap,
             RunErrorHeap, FreeResultHeap, SweepNativesHeap, FreeVmHeap, FreeChannelsHeap DEF Next

LEMMA HeapAlways == Spec => [](TypeOK /\ HeapInv)
  BY InitTypes, InitHeap, TypeStep, HeapStep, PTL DEF Spec

(* Whatever a program does, no collection (mvm_gc_collect_with_marker) and *)
(* no release (mvalue_free) takes what a task that may still run or a      *)
(* queued value needs, and every value has one owner.                      *)
THEOREM ValuesHaveOneOwner == Spec => []HeldBySoleOwner
  BY HeapAlways, HeapImplies, PTL

(* While a program runs, no opcode and no collection frees what is not     *)
(* allocated; of one that never spawned, neither does the release of its   *)
(* result and of the VM, until the channels still open are closed          *)
(* (mellowrt_collect_garbage, mvm_free).  Nothing is said of the teardown  *)
(* of a program that spawned, nor of messages left in those channels: both *)
(* are freed twice (core_part1.inc:78, syscalls_part1.inc:4).              *)
THEOREM FreedOnceWhileRunning == Spec => []FreedOnce
  BY HeapAlways, HeapImplies, PTL
=============================================================================

----------------------- MODULE PackageRegistryProofs -----------------------
(* Proofs about PackageRegistry for every set of publishers, versions and  *)
(* archives and every bound.                                               *)
EXTENDS PackageRegistry, TLAPS

(* What is the value of a variable, for every one a handler changes.       *)
Indexes  == UNION {[S -> Archives] : S \in SUBSET Versions}
Contents == Archives \cup {Absent, Torn}
States   == {"idle", "tokens", "tokens_open", "archive", "archive_open", "meta", "meta_open",
             "load", "index", "index_open", "version", "download", "bytes", "cache",
             "cache_open", "extract", "unpack"}
Locals   == [pc : States, ver : Versions \cup {Absent}, raw : Contents,
             sum : Archives \cup {Unknown}, new : Indexes \cup (SUBSET Nat) \cup {Torn}]

TypeInv ==
    /\ archive \in [Versions -> Contents]
    /\ meta \in [Versions -> Contents]
    /\ index \in Indexes \cup {Torn}
    /\ tokens \in (SUBSET Nat) \cup {Torn}
    /\ cache \in [Versions -> Contents]
    /\ loc \in [Actors -> Locals]
    /\ issued \in Nat
    /\ uploads \in [Versions -> Nat]
    /\ acked \in SUBSET Versions

ClientStates    == {"idle", "version", "download", "index", "index_open", "bytes",
                    "cache", "cache_open", "extract", "unpack"}
Publishing      == {"archive", "archive_open", "meta", "meta_open", "load", "index", "index_open"}
PublisherStates == {"idle", "tokens", "tokens_open"} \cup Publishing

(* Who is where, and what handlers on their way through a publish or a     *)
(* fetch carry.                                                            *)
ClientOk(l) ==
    /\ l.pc \in ClientStates
    /\ l.pc # "idle" => l.ver \in Versions
    /\ l.pc \in {"index", "index_open"} => l.new \in Indexes

PublisherOk(l) ==
    /\ l.pc \in PublisherStates
    /\ l.pc \in Publishing => l.ver \in Versions /\ l.raw \in Archives
    /\ l.pc \in {"tokens", "tokens_open"} => l.new \in SUBSET Nat
    /\ l.pc \in {"index", "index_open"} => l.new \in Indexes

LocalsInv == ClientOk(loc[Client]) /\ \A p \in Publishers : PublisherOk(loc[p])

LEMMA InitTypes == Init => TypeInv /\ LocalsInv
  <1> SUFFICES ASSUME Init PROVE TypeInv /\ LocalsInv
    OBVIOUS
  <1>1. NoIndex \in Indexes
    <2>1. NoIndex \in [{} -> Archives]
      BY DEF NoIndex
    <2> QED BY <2>1 DEF Indexes
  <1>2. Idle \in Locals
    BY DEF Idle, Locals, States, Contents
  <1>3. \A x \in Actors : loc[x] = Idle
    BY DEF Init
  <1>4. TypeInv
    BY <1>1, <1>2 DEF Init, TypeInv, Contents
  <1>5. LocalsInv
    BY <1>3, RegistryAssumption DEF LocalsInv, ClientOk, PublisherOk, Idle, ClientStates, PublisherStates, Publishing, Actors
  <1> QED BY <1>4, <1>5

(* A file that reads as an index is one.                                   *)
LEMMA LoadIsIndex == TypeInv => LoadIndex \in Indexes
  <1>1. NoIndex \in [{} -> Archives]
    BY DEF NoIndex
  <1>2. NoIndex \in Indexes
    BY <1>1 DEF Indexes
  <1> QED BY <1>2 DEF TypeInv, LoadIndex

(* The new index of a publish.                                             *)
LEMMA ExtendedIsIndex ==
    ASSUME NEW g \in Indexes, NEW v \in Versions, NEW a \in Archives
    PROVE  [u \in DOMAIN g \cup {v} |-> IF u = v THEN a ELSE g[u]] \in Indexes
  <1>1. PICK S \in SUBSET Versions : g \in [S -> Archives]
    BY DEF Indexes
  <1>2. [u \in DOMAIN g \cup {v} |-> IF u = v THEN a ELSE g[u]] \in [S \cup {v} -> Archives]
    BY <1>1
  <1> QED BY <1>2 DEF Indexes

(* Only x changes its local state, to l.                                   *)
LEMMA LocalsStep ==
    ASSUME TypeInv, LocalsInv, NEW x \in Actors, NEW l \in Locals,
           x = Client => ClientOk(l), x \in Publishers => PublisherOk(l),
           loc' = [loc EXCEPT ![x] = l]
    PROVE  loc' \in [Actors -> Locals] /\ LocalsInv'
  <1>1. \A y \in Actors : loc'[y] = IF y = x THEN l ELSE loc[y]
    BY DEF TypeInv
  <1> QED BY <1>1, RegistryAssumption DEF TypeInv, LocalsInv, Actors

LEMMA IdleIsOk == Idle \in Locals /\ ClientOk(Idle) /\ PublisherOk(Idle)
  BY DEF Idle, Locals, States, Contents, ClientOk, PublisherOk, ClientStates, PublisherStates, Publishing

LEMMA TypeStep == TypeInv /\ LocalsInv /\ [Next]_vars => TypeInv' /\ LocalsInv'
  <1> SUFFICES ASSUME TypeInv, LocalsInv, [Next]_vars PROVE TypeInv' /\ LocalsInv'
    OBVIOUS
  <1> USE DEF Actors, ClientStates, PublisherStates, Publishing
  <1>1. CASE UNCHANGED vars
    BY <1>1 DEF vars, TypeInv, LocalsInv
  <1>2. ASSUME NEW p \in Publishers, LoginLoad(p) PROVE TypeInv' /\ LocalsInv'
    <2> DEFINE l == [Idle EXCEPT !.pc = "tokens", !.new = LoadTokens \cup {issued'}]
    <2>1. LoadTokens \cup {issued'} \in SUBSET Nat
      BY <1>2 DEF LoginLoad, LoadTokens, TypeInv
    <2>2. l \in Locals /\ PublisherOk(l)
      BY <2>1 DEF Idle, Locals, States, Contents, PublisherOk
    <2>3. loc' = [loc EXCEPT ![p] = l]
      BY <1>2 DEF LoginLoad
    <2> HIDE DEF l
    <2>4. loc' \in [Actors -> Locals] /\ LocalsInv'
      BY <2>2, <2>3, LocalsStep, RegistryAssumption
    <2> QED BY <1>2, <2>4 DEF LoginLoad, files, TypeInv
  <1>3. ASSUME NEW p \in Publishers, NEW v \in Versions, NEW a \in Archives, PublishCheck(p, v, a)
        PROVE  TypeInv' /\ LocalsInv'
    <2> DEFINE l == [Idle EXCEPT !.pc = "archive", !.ver = v, !.raw = a]
    <2>1. l \in Locals /\ PublisherOk(l)
      BY DEF Idle, Locals, States, Contents, PublisherOk
    <2>2. loc' = [loc EXCEPT ![p] = l]
      BY <1>3 DEF PublishCheck
    <2> HIDE DEF l
    <2>3. loc' \in [Actors -> Locals] /\ LocalsInv'
      BY <2>1, <2>2, LocalsStep, RegistryAssumption
    <2> QED BY <1>3, <2>3 DEF PublishCheck, files, TypeInv
  <1>4. ASSUME NEW p \in Publishers, PublishLoadIndex(p) PROVE TypeInv' /\ LocalsInv'
    <2> DEFINE g == [v \in DOMAIN LoadIndex \cup {loc[p].ver} |->
                        IF v = loc[p].ver THEN loc[p].raw ELSE LoadIndex[v]]
               l == [loc[p] EXCEPT !.pc = "index", !.new = g]
    <2>1. g \in Indexes
      BY <1>4, LoadIsIndex, ExtendedIsIndex DEF PublishLoadIndex, LocalsInv, PublisherOk
    <2>2. loc' = [loc EXCEPT ![p] = l]
      BY <1>4 DEF PublishLoadIndex
    <2> HIDE DEF g
    <2>3. l \in Locals /\ PublisherOk(l)
      BY <1>4, <2>1 DEF PublishLoadIndex, TypeInv, LocalsInv, Locals, States, PublisherOk
    <2> HIDE DEF l
    <2>4. loc' \in [Actors -> Locals] /\ LocalsInv'
      BY <2>2, <2>3, LocalsStep, RegistryAssumption
    <2> QED BY <1>4, <2>4 DEF PublishLoadIndex, files, ghosts, TypeInv
  <1>5. ASSUME NEW x \in Actors, Truncate(x) PROVE TypeInv' /\ LocalsInv'
    <2>1. PICK s \in {"archive_open", "meta_open", "index_open", "tokens_open", "cache_open"} :
              /\ loc' = [loc EXCEPT ![x].pc = s]
              /\ \/ loc[x].pc = "archive" /\ s = "archive_open"
                 \/ loc[x].pc = "meta" /\ s = "meta_open"
                 \/ loc[x].pc = "index" /\ s = "index_open"
                 \/ loc[x].pc = "tokens" /\ s = "tokens_open"
                 \/ loc[x].pc = "cache" /\ s = "cache_open"
      BY <1>5 DEF Truncate, TypeInv
    <2> DEFINE l == [loc[x] EXCEPT !.pc = s]
    <2>2. l \in Locals /\ loc' = [loc EXCEPT ![x] = l]
      BY <2>1 DEF TypeInv, Locals, States
    <2>3. x = Client => ClientOk(l)
      BY <2>1 DEF TypeInv, Locals, LocalsInv, ClientOk
    <2>4. x \in Publishers => PublisherOk(l)
      BY <2>1 DEF TypeInv, Locals, LocalsInv, PublisherOk
    <2> HIDE DEF l
    <2>5. loc' \in [Actors -> Locals] /\ LocalsInv'
      BY <2>2, <2>3, <2>4, LocalsStep
    <2>6. /\ archive' \in [Versions -> Contents] /\ meta' \in [Versions -> Contents]
          /\ cache' \in [Versions -> Contents]
          /\ index' \in Indexes \cup {Torn} /\ tokens' \in (SUBSET Nat) \cup {Torn}
      BY <1>5 DEF Truncate, TypeInv, Contents, files
    <2> QED BY <1>5, <2>5, <2>6 DEF Truncate, ghosts, TypeInv
  <1>6. ASSUME NEW p \in Publishers, WriteArchive(p) PROVE TypeInv' /\ LocalsInv'
    <2> DEFINE l == [loc[p] EXCEPT !.pc = "meta"]
    <2>1. l \in Locals /\ PublisherOk(l) /\ loc' = [loc EXCEPT ![p] = l]
      BY <1>6 DEF WriteArchive, TypeInv, Locals, States, LocalsInv, PublisherOk
    <2> HIDE DEF l
    <2>2. loc' \in [Actors -> Locals] /\ LocalsInv'
      BY <2>1, LocalsStep, RegistryAssumption
    <2>3. archive' \in [Versions -> Contents]
      BY <1>6 DEF WriteArchive, TypeInv, Locals
    <2> QED BY <1>6, <2>2, <2>3 DEF WriteArchive, ghosts, TypeInv
  <1>7. ASSUME NEW p \in Publishers, WriteMeta(p) PROVE TypeInv' /\ LocalsInv'
    <2> DEFINE l == [loc[p] EXCEPT !.pc = "load"]
    <2>1. l \in Locals /\ PublisherOk(l) /\ loc' = [loc EXCEPT ![p] = l]
      BY <1>7 DEF WriteMeta, TypeInv, Locals, States, LocalsInv, PublisherOk
    <2> HIDE DEF l
    <2>2. loc' \in [Actors -> Locals] /\ LocalsInv'
      BY <2>1, LocalsStep, RegistryAssumption
    <2>3. meta' \in [Versions -> Contents]
      BY <1>7 DEF WriteMeta, TypeInv, Locals
    <2> QED BY <1>7, <2>2, <2>3 DEF WriteMeta, ghosts, TypeInv
  <1>8. ASSUME NEW x \in Actors, WriteIndex(x) PROVE TypeInv' /\ LocalsInv'
    <2> DEFINE l == IF x = Client THEN [loc[x] EXCEPT !.pc = "bytes", !.new = Torn] ELSE Idle
    <2>1. /\ l \in Locals /\ loc' = [loc EXCEPT ![x] = l]
          /\ x = Client => ClientOk(l)
          /\ x \in Publishers => PublisherOk(l)
      BY <1>8, IdleIsOk, RegistryAssumption DEF WriteIndex, TypeInv, Locals, States, LocalsInv, ClientOk
    <2> HIDE DEF l
    <2>2. loc' \in [Actors -> Locals] /\ LocalsInv'
      BY <2>1, LocalsStep
    <2>3. index' \in Indexes /\ acked' \in SUBSET Versions
      BY <1>8 DEF WriteIndex, TypeInv, LocalsInv, ClientOk, PublisherOk
    <2> QED BY <1>8, <2>2, <2>3 DEF WriteIndex, TypeInv
  <1>9. ASSUME NEW p \in Publishers, WriteTokens(p) PROVE TypeInv' /\ LocalsInv'
    <2>1. loc' \in [Actors -> Locals] /\ LocalsInv'
      BY <1>9, LocalsStep, IdleIsOk, RegistryAssumption DEF WriteTokens
    <2>2. tokens' \in SUBSET Nat
      BY <1>9 DEF WriteTokens, LocalsInv, PublisherOk
    <2> QED BY <1>9, <2>1, <2>2 DEF WriteTokens, ghosts, TypeInv
  <1>10. ASSUME FetchVersions PROVE TypeInv' /\ LocalsInv'
    <2>1. PICK v \in DOMAIN LoadIndex :
              loc' = [loc EXCEPT ![Client] = [Idle EXCEPT !.pc = "version", !.ver = v]]
      BY <1>10 DEF FetchVersions
    <2>2. v \in Versions
      BY <2>1, LoadIsIndex DEF Indexes
    <2> DEFINE l == [Idle EXCEPT !.pc = "version", !.ver = v]
    <2>3. l \in Locals /\ ClientOk(l)
      BY <2>2 DEF Idle, Locals, States, Contents, ClientOk
    <2> HIDE DEF l
    <2>4. loc' \in [Actors -> Locals] /\ LocalsInv'
      BY <2>1, <2>3, LocalsStep, RegistryAssumption DEF l
    <2> QED BY <1>10, <2>4 DEF FetchVersions, files, TypeInv
  <1>11. ASSUME FetchMeta PROVE TypeInv' /\ LocalsInv'
    <2> DEFINE c == loc[Client]
               sum == IF meta[c.ver] = Torn THEN Unknown ELSE meta[c.ver]
               l == IF meta[c.ver] = Absent THEN Idle
                    ELSE IF cache[c.ver] \in Archives /\ sum \in {Unknown, cache[c.ver]}
                         THEN [c EXCEPT !.pc = "extract", !.sum = sum, !.raw = cache[c.ver]]
                         ELSE [c EXCEPT !.pc = "download", !.sum = sum]
    <2>1. loc' = [loc EXCEPT ![Client] = l]
      BY <1>11 DEF FetchMeta
    <2>2. c \in Locals /\ c.ver \in Versions
      BY <1>11 DEF FetchMeta, TypeInv, LocalsInv, ClientOk
    <2>3. meta[c.ver] # Absent => sum \in Archives \cup {Unknown}
      BY <2>2 DEF TypeInv, Contents
    <2> HIDE DEF c, sum
    <2>4. l \in Locals /\ ClientOk(l)
      <3>1. CASE meta[c.ver] = Absent
        BY <3>1, IdleIsOk
      <3>2. CASE /\ meta[c.ver] # Absent
                 /\ cache[c.ver] \in Archives /\ sum \in {Unknown, cache[c.ver]}
        <4>1. l = [c EXCEPT !.pc = "extract", !.sum = sum, !.raw = cache[c.ver]]
          BY <3>2
        <4> QED BY <2>2, <2>3, <3>2, <4>1 DEF Locals, States, Contents, ClientOk
      <3>3. CASE /\ meta[c.ver] # Absent
                 /\ ~(cache[c.ver] \in Archives /\ sum \in {Unknown, cache[c.ver]})
        <4>1. l = [c EXCEPT !.pc = "download", !.sum = sum]
          BY <3>3
        <4> QED BY <2>2, <2>3, <3>3, <4>1 DEF Locals, States, ClientOk
      <3> QED BY <3>1, <3>2, <3>3
    <2> HIDE DEF l
    <2>5. loc' \in [Actors -> Locals] /\ LocalsInv'
      BY <2>1, <2>4, LocalsStep, RegistryAssumption
    <2> QED BY <1>11, <2>5 DEF FetchMeta, files, ghosts, TypeInv
  <1>12. ASSUME DownloadLoad PROVE TypeInv' /\ LocalsInv'
    <2> DEFINE c == loc[Client]
               l == IF meta[c.ver] \in {Absent, Torn} THEN Idle
                    ELSE IF c.ver \in DOMAIN LoadIndex THEN [c EXCEPT !.pc = "index", !.new = LoadIndex]
                    ELSE [c EXCEPT !.pc = "bytes"]
    <2>1. loc' = [loc EXCEPT ![Client] = l]
      BY <1>12 DEF DownloadLoad
    <2>2. c \in Locals /\ c.ver \in Versions
      BY <1>12 DEF DownloadLoad, TypeInv, LocalsInv, ClientOk
    <2> HIDE DEF c
    <2>3. l \in Locals /\ ClientOk(l)
      BY <2>2, IdleIsOk, LoadIsIndex DEF Locals, States, ClientOk
    <2> HIDE DEF l
    <2>4. loc' \in [Actors -> Locals] /\ LocalsInv'
      BY <2>1, <2>3, LocalsStep, RegistryAssumption
    <2> QED BY <1>12, <2>4 DEF DownloadLoad, files, ghosts, TypeInv
  <1>13. ASSUME DownloadBytes PROVE TypeInv' /\ LocalsInv'
    <2> DEFINE l == [loc[Client] EXCEPT !.pc = "cache", !.raw = archive[loc[Client].ver]]
    <2>1. loc' = [loc EXCEPT ![Client] = l]
      BY <1>13 DEF DownloadBytes, TypeInv, Locals
    <2>2. l \in Locals /\ ClientOk(l)
      BY <1>13 DEF DownloadBytes, TypeInv, LocalsInv, ClientOk, Locals, States, Contents
    <2> HIDE DEF l
    <2>3. loc' \in [Actors -> Locals] /\ LocalsInv'
      BY <2>1, <2>2, LocalsStep, RegistryAssumption
    <2> QED BY <1>13, <2>3 DEF DownloadBytes, files, ghosts, TypeInv
  <1>14. ASSUME WriteCache PROVE TypeInv' /\ LocalsInv'
    <2> DEFINE c == loc[Client]
               l == IF c.sum \in {Unknown, c.raw} THEN [c EXCEPT !.pc = "extract"] ELSE Idle
    <2>1. loc' = [loc EXCEPT ![Client] = l]
      BY <1>14 DEF WriteCache
    <2>2. l \in Locals /\ ClientOk(l)
      BY <1>14, IdleIsOk DEF WriteCache, TypeInv, LocalsInv, ClientOk, Locals, States
    <2> HIDE DEF l
    <2>3. loc' \in [Actors -> Locals] /\ LocalsInv'
      BY <2>1, <2>2, LocalsStep, RegistryAssumption
    <2>4. cache' \in [Versions -> Contents]
      BY <1>14 DEF WriteCache, TypeInv, Locals
    <2> QED BY <1>14, <2>3, <2>4 DEF WriteCache, files, ghosts, TypeInv
  <1>15. ASSUME Remove PROVE TypeInv' /\ LocalsInv'
    <2> DEFINE l == [loc[Client] EXCEPT !.pc = "unpack"]
    <2>1. loc' = [loc EXCEPT ![Client] = l] /\ l \in Locals /\ ClientOk(l)
      BY <1>15 DEF Remove, TypeInv, LocalsInv, ClientOk, Locals, States
    <2> HIDE DEF l
    <2>2. loc' \in [Actors -> Locals] /\ LocalsInv'
      BY <2>1, LocalsStep, RegistryAssumption
    <2> QED BY <1>15, <2>2 DEF Remove, files, ghosts, TypeInv
  <1>16. ASSUME Unpack PROVE TypeInv' /\ LocalsInv'
    <2>1. loc' \in [Actors -> Locals] /\ LocalsInv'
      BY <1>16, LocalsStep, IdleIsOk, RegistryAssumption DEF Unpack
    <2> QED BY <1>16, <2>1 DEF Unpack, files, ghosts, TypeInv
  <1>17. ASSUME ServerCrash PROVE TypeInv' /\ LocalsInv'
    <2>1. loc' \in [Actors -> Locals] /\ LocalsInv'
      BY <1>17, IdleIsOk, RegistryAssumption DEF ServerCrash, TypeInv, LocalsInv
    <2> QED BY <1>17, <2>1 DEF ServerCrash, files, TypeInv
  <1>18. ASSUME ClientCrash PROVE TypeInv' /\ LocalsInv'
    <2>1. loc' \in [Actors -> Locals] /\ LocalsInv'
      BY <1>18, LocalsStep, IdleIsOk, RegistryAssumption DEF ClientCrash
    <2> QED BY <1>18, <2>1 DEF ClientCrash, files, TypeInv
  <1> QED
    BY <1>1, <1>2, <1>3, <1>4, <1>5, <1>6, <1>7, <1>8, <1>9, <1>10, <1>11, <1>12, <1>13, <1>14,
       <1>15, <1>16, <1>17, <1>18 DEF Next

(* Every variable keeps its type, whatever the handlers do to each other.  *)
THEOREM RegistryTypes == Spec => [](TypeInv /\ LocalsInv)
  BY InitTypes, TypeStep, PTL DEF Spec

-----------------------------------------------------------------------------

(* A client's checksum, once it has passed, is the archive's.              *)
ChecksumInv ==
    /\ loc[Client].pc \in {"extract", "unpack"} => loc[Client].sum \in {Unknown, loc[Client].raw}
    /\ InstalledAsDescribed

LEMMA ChecksumStep ==
    TypeInv /\ LocalsInv /\ ChecksumInv /\ [Next]_vars => ChecksumInv'
  <1> SUFFICES ASSUME TypeInv, LocalsInv, ChecksumInv, [Next]_vars PROVE ChecksumInv'
    OBVIOUS
  <1>a. Client \in Actors /\ \A p \in Publishers : p # Client /\ p \in Actors
    BY RegistryAssumption DEF Actors
  <1>b. loc \in [Actors -> Locals]
    BY DEF TypeInv
  <1>1. CASE UNCHANGED vars
    BY <1>1 DEF vars, ChecksumInv, InstalledAsDescribed
  <1>2. ASSUME loc'[Client] = loc[Client], installed' = installed
        PROVE  ChecksumInv'
    BY <1>2 DEF ChecksumInv, InstalledAsDescribed
  <1>3. ASSUME NEW p \in Publishers,
               \/ LoginLoad(p) \/ PublishLoadIndex(p) \/ WriteArchive(p) \/ WriteMeta(p)
               \/ WriteTokens(p) \/ \E v \in Versions, a \in Archives : PublishCheck(p, v, a)
        PROVE  ChecksumInv'
    <2>1. loc'[Client] = loc[Client] /\ installed' = installed
      BY <1>3, <1>a, <1>b DEF LoginLoad, PublishLoadIndex, WriteArchive, WriteMeta, WriteTokens, PublishCheck
    <2> QED BY <2>1, <1>2
  <1>4. ASSUME NEW x \in Actors, Truncate(x) PROVE ChecksumInv'
    <2>1. loc'[Client].pc \notin {"extract", "unpack"}
               \/ loc'[Client] = loc[Client]
      BY <1>4, <1>a, <1>b DEF Truncate, Locals
    <2> QED BY <1>4, <2>1 DEF Truncate, ChecksumInv, InstalledAsDescribed
  <1>5. ASSUME NEW x \in Actors, WriteIndex(x) PROVE ChecksumInv'
    <2>1. loc'[Client].pc \notin {"extract", "unpack"}
               \/ loc'[Client] = loc[Client]
      BY <1>5, <1>a, <1>b DEF WriteIndex, Locals
    <2> QED BY <1>5, <2>1 DEF WriteIndex, ChecksumInv, InstalledAsDescribed
  <1>6. CASE FetchVersions
    <2>1. loc'[Client].pc = "version"
      BY <1>6, <1>a, <1>b DEF FetchVersions, Idle
    <2> QED BY <1>6, <2>1 DEF FetchVersions, ChecksumInv, InstalledAsDescribed
  <1>7. CASE FetchMeta
    <2> DEFINE c == loc[Client]
               sum == IF meta[c.ver] = Torn THEN Unknown ELSE meta[c.ver]
               e == [c EXCEPT !.pc = "extract", !.sum = sum, !.raw = cache[c.ver]]
    <2>1. c \in Locals
      BY <1>a, <1>b
    <2>2. \/ loc'[Client] = Idle
          \/ loc'[Client] = e /\ sum \in {Unknown, cache[c.ver]}
          \/ loc'[Client] = [c EXCEPT !.pc = "download", !.sum = sum]
      BY <1>7, <1>a, <1>b DEF FetchMeta
    <2> HIDE DEF c, sum
    <2>3. loc'[Client].pc \notin {"extract", "unpack"} \/ loc'[Client].sum \in {Unknown, loc'[Client].raw}
      <3>1. CASE loc'[Client] = Idle
        BY <3>1 DEF Idle
      <3>2. CASE loc'[Client] = e /\ sum \in {Unknown, cache[c.ver]}
        BY <2>1, <3>2 DEF Locals
      <3>3. CASE loc'[Client] = [c EXCEPT !.pc = "download", !.sum = sum]
        BY <2>1, <3>3 DEF Locals
      <3> QED BY <2>2, <3>1, <3>2, <3>3
    <2> QED BY <1>7, <2>3 DEF FetchMeta, ChecksumInv, InstalledAsDescribed
  <1>8. CASE DownloadLoad
    <2>1. loc'[Client].pc \in {"idle", "index", "bytes"}
      BY <1>8, <1>a, <1>b DEF DownloadLoad, Idle, Locals
    <2> QED BY <1>8, <2>1 DEF DownloadLoad, ChecksumInv, InstalledAsDescribed
  <1>9. CASE DownloadBytes
    <2>1. loc'[Client].pc = "cache"
      BY <1>9, <1>a, <1>b DEF DownloadBytes, Locals
    <2> QED BY <1>9, <2>1 DEF DownloadBytes, ChecksumInv, InstalledAsDescribed
  <1>10. CASE WriteCache
    <2>1. \/ loc'[Client] = Idle
          \/ loc[Client].sum \in {Unknown, loc[Client].raw} /\ loc'[Client] = [loc[Client] EXCEPT !.pc = "extract"]
      BY <1>10, <1>a, <1>b DEF WriteCache
    <2>2. loc'[Client].pc \notin {"extract", "unpack"} \/ loc'[Client].sum \in {Unknown, loc'[Client].raw}
      BY <1>a, <1>b, <2>1 DEF Idle, Locals
    <2> QED BY <1>10, <2>2 DEF WriteCache, ChecksumInv, InstalledAsDescribed
  <1>11. CASE Remove
    <2>1. loc'[Client].sum = loc[Client].sum /\ loc'[Client].raw = loc[Client].raw
      BY <1>11, <1>a, <1>b DEF Remove, Locals
    <2> QED BY <1>11, <2>1 DEF Remove, ChecksumInv, InstalledAsDescribed
  <1>12. CASE Unpack
    <2>1. loc'[Client].pc = "idle"
      BY <1>12, <1>a, <1>b DEF Unpack, Idle
    <2>2. InstalledAsDescribed'
      BY <1>12 DEF Unpack, ChecksumInv, InstalledAsDescribed
    <2> QED BY <2>1, <2>2 DEF ChecksumInv
  <1>13. CASE ServerCrash
    <2>1. loc'[Client].pc = "idle" \/ loc'[Client] = loc[Client]
      BY <1>13, <1>a DEF ServerCrash, Idle
    <2> QED BY <1>13, <2>1 DEF ServerCrash, ChecksumInv, InstalledAsDescribed
  <1>14. CASE ClientCrash
    <2>1. loc'[Client].pc = "idle"
      BY <1>14, <1>a, <1>b DEF ClientCrash, Idle
    <2> QED BY <1>14, <2>1 DEF ClientCrash, ChecksumInv, InstalledAsDescribed
  <1> QED
    BY <1>1, <1>3, <1>4, <1>5, <1>6, <1>7, <1>8, <1>9, <1>10, <1>11, <1>12, <1>13, <1>14 DEF Next

(* However a republish, a torn description or an old download in the cache *)
(* falls between the client's requests (install_remote), what it installs  *)
(* has the checksum it was told, if it was told one.                       *)
THEOREM InstallsMatch == Spec => []InstalledAsDescribed
  <1>1. Init => ChecksumInv
    <2>1. Init => loc[Client] = Idle
      BY DEF Init, Actors
    <2> QED BY <2>1 DEF Init, ChecksumInv, InstalledAsDescribed, Idle
  <1>2. ChecksumInv => InstalledAsDescribed
    BY DEF ChecksumInv
  <1> QED BY <1>1, <1>2, RegistryTypes, ChecksumStep, PTL DEF Spec

-----------------------------------------------------------------------------
HasArchive == {"archive_open", "meta", "meta_open", "load", "index", "index_open"}
HasMeta    == {"meta_open", "load", "index", "index_open"}

Saving(x)     == loc[x].pc \in {"index", "index_open"}
Publishes(p, v) == loc[p].pc \in Publishing /\ loc[p].ver = v

(* A listing that the index has or that a handler is about to give it.     *)
Copy(g) == g = LoadIndex \/ \E x \in Actors : Saving(x) /\ loc[x].new = g

(* What a copy lists was stored, and is as stored if published once: only  *)
(* the publish that listed it can still be on its way.                     *)
Faithful(g) == \A v \in DOMAIN g :
    /\ archive[v] # Absent /\ meta[v] # Absent
    /\ uploads[v] # 0
    /\ uploads[v] = 1 => /\ g[v] = archive[v] /\ g[v] = meta[v]
                         /\ \A p \in Publishers : Publishes(p, v) => Saving(p)

(* How far a publish has come, its files have.                             *)
Reached(p) ==
    /\ loc[p].pc \in Publishing => uploads[loc[p].ver] # 0
    /\ loc[p].pc \in HasArchive => archive[loc[p].ver] # Absent
    /\ loc[p].pc \in HasMeta => meta[loc[p].ver] # Absent
    /\ loc[p].pc \in HasArchive \ {"archive_open"} /\ uploads[loc[p].ver] = 1 =>
          archive[loc[p].ver] = loc[p].raw
    /\ loc[p].pc \in HasMeta \ {"meta_open"} /\ uploads[loc[p].ver] = 1 =>
          meta[loc[p].ver] = loc[p].raw
    /\ Saving(p) => loc[p].ver \in DOMAIN loc[p].new /\ loc[p].new[loc[p].ver] = loc[p].raw

Alone == \A v \in Versions : uploads[v] = 1 =>
            \A p, q \in Publishers : Publishes(p, v) /\ Publishes(q, v) => p = q

FilesInv ==
    /\ \A p \in Publishers : Reached(p)
    /\ Alone
    /\ \A g \in Indexes : Copy(g) => Faithful(g)

(* Without an overlap and without a torn index, the one handler that is    *)
(* about to save the index has every version answered ok in its copy.      *)
AckedInv ==
    /\ ~raced => \A x, y \in Actors : Saving(x) /\ Saving(y) => x = y
    /\ ~raced /\ ~cut =>
          /\ index # Torn => acked \subseteq DOMAIN index
          /\ index = Torn => \E x \in Actors : loc[x].pc = "index_open"
          /\ \A x \in Actors : Saving(x) => acked \subseteq DOMAIN loc[x].new

(* A step that leaves the stored files alone, moves no publish but one     *)
(* that saves the index, and makes no new copy of the index.               *)
LEMMA QuietFiles ==
    ASSUME TypeInv, FilesInv,
           archive' = archive, meta' = meta, uploads' = uploads,
           \A p \in Publishers :
              \/ loc'[p] = loc[p]
              \/ loc'[p].pc \notin Publishing
              \/ loc[p].pc = "index" /\ loc'[p] = [loc[p] EXCEPT !.pc = "index_open"],
           \A g \in Indexes : Copy(g)' => Copy(g) \/ g = NoIndex
    PROVE  FilesInv'
  <1>1. \A p \in Publishers : loc[p] \in Locals
    BY DEF TypeInv, Actors
  <1>2. \A p \in Publishers : Reached(p)'
    <2> TAKE p \in Publishers
    <2>1. CASE loc'[p] = loc[p]
      BY <2>1 DEF FilesInv, Reached, Saving
    <2>2. CASE loc'[p].pc \notin Publishing
      BY <2>2 DEF Reached, Saving, Publishing, HasArchive, HasMeta
    <2>3. CASE loc[p].pc = "index" /\ loc'[p] = [loc[p] EXCEPT !.pc = "index_open"]
      BY <1>1, <2>3 DEF FilesInv, Reached, Saving, Publishing, HasArchive, HasMeta, Locals
    <2> QED BY <2>1, <2>2, <2>3
  <1>3. \A p \in Publishers, v \in Versions :
            Publishes(p, v)' => Publishes(p, v) /\ (Saving(p) => Saving(p)')
    BY <1>1 DEF Publishes, Saving, Publishing, Locals
  <1>4. Alone'
    BY <1>3 DEF FilesInv, Alone
  <1>5. ASSUME NEW g \in Indexes, Copy(g)' PROVE Faithful(g)'
    <2>1. CASE g = NoIndex
      BY <2>1 DEF Faithful, NoIndex
    <2>2. CASE Copy(g)
      <3>1. Faithful(g)
        BY <2>2 DEF FilesInv
      <3>2. DOMAIN g \subseteq Versions
        BY DEF Indexes
      <3> QED BY <1>3, <3>1, <3>2 DEF Faithful
    <2> QED BY <1>5, <2>1, <2>2
  <1> QED BY <1>2, <1>4, <1>5 DEF FilesInv

(* A step of a publish that writes its archive or its description.         *)
LEMMA WriteFiles ==
    ASSUME TypeInv, LocalsInv, FilesInv, NEW p \in Publishers,
           NEW s \in {"archive_open", "meta", "meta_open", "load"},
           loc[p].pc \in {"archive", "archive_open", "meta", "meta_open"}, loc[p].ver \in Versions,
           loc' = [loc EXCEPT ![p].pc = s],
           uploads' = uploads, index' = index, Reached(p)',
           \A u \in Versions : /\ u # loc[p].ver => archive'[u] = archive[u] /\ meta'[u] = meta[u]
                               /\ archive'[u] # archive[u] => archive'[u] # Absent
                               /\ meta'[u] # meta[u] => meta'[u] # Absent
    PROVE  FilesInv'
  <1> DEFINE v == loc[p].ver
  <1>1. /\ \A q \in Actors : loc[q] \in Locals
        /\ \A q \in Actors : q # p => loc'[q] = loc[q]
        /\ loc'[p] = [loc[p] EXCEPT !.pc = s]
        /\ p \in Actors /\ Publishers \subseteq Actors
    BY DEF TypeInv, Actors
  <1>2. Publishes(p, v) /\ ~Saving(p) /\ ~Saving(p)'
    BY <1>1 DEF Publishes, Saving, Publishing, Locals
  <1>3. \A q \in Publishers, u \in Versions : Publishes(q, u)' => Publishes(q, u)
    BY <1>1 DEF Publishes, Publishing, Locals
  <1>4. Alone'
    BY <1>3 DEF FilesInv, Alone
  <1>5. \A q \in Publishers : Reached(q)'
    <2> SUFFICES ASSUME NEW q \in Publishers, q # p PROVE Reached(q)'
      OBVIOUS
    <2>1. loc'[q] = loc[q] /\ Reached(q)
      BY <1>1 DEF FilesInv
    <2>2. CASE loc[q].pc \notin Publishing
      BY <2>1, <2>2 DEF Reached, Saving, Publishing, HasArchive, HasMeta
    <2>3. CASE loc[q].pc \in Publishing /\ loc[q].ver \in Versions
      <3>1. loc[q].ver = v => uploads[v] # 1
        BY <1>2, <2>3 DEF FilesInv, Alone, Publishes
      <3> QED BY <2>1, <3>1, <2>3 DEF Reached, Saving
    <2>4. loc[q].pc \in Publishing => loc[q].ver \in Versions
      BY DEF LocalsInv, PublisherOk
    <2> QED BY <2>2, <2>3, <2>4
  <1>6. ASSUME NEW g \in Indexes, Copy(g)' PROVE Faithful(g)'
    <2>1. Copy(g)
      BY <1>1, <1>2, <1>6 DEF Copy, LoadIndex, Saving
    <2>2. Faithful(g) /\ DOMAIN g \subseteq Versions
      BY <2>1 DEF FilesInv, Indexes
    <2>3. \A u \in DOMAIN g : uploads[u] = 1 => u # v
      BY <1>2, <2>2 DEF Faithful
    <2>4. \A q \in Publishers : Saving(q) => Saving(q)'
      BY <1>1, <1>2 DEF Saving
    <2> QED BY <1>3, <2>2, <2>3, <2>4 DEF Faithful
  <1> QED BY <1>4, <1>5, <1>6 DEF FilesInv

LEMMA CheckedFiles ==
    ASSUME TypeInv, LocalsInv, FilesInv,
           NEW p \in Publishers, NEW v \in Versions, NEW a \in Archives, PublishCheck(p, v, a)
    PROVE  FilesInv'
  <1>1. /\ \A q \in Actors : loc[q] \in Locals
        /\ \A q \in Actors : q # p => loc'[q] = loc[q]
        /\ loc'[p] = [Idle EXCEPT !.pc = "archive", !.ver = v, !.raw = a]
        /\ loc[p].pc = "idle"
        /\ p \in Actors /\ Publishers \subseteq Actors
    BY DEF PublishCheck, TypeInv, Actors
  <1>2. loc'[p].pc = "archive" /\ loc'[p].ver = v
    BY <1>1 DEF Idle
  <1>3. /\ uploads'[v] = uploads[v] + 1 /\ uploads[v] \in Nat
        /\ \A u \in Versions : u # v => uploads'[u] = uploads[u]
        /\ archive' = archive /\ meta' = meta /\ index' = index
    BY DEF PublishCheck, TypeInv, files
  <1>4. \A q \in Publishers : loc[q].pc \in Publishing => loc[q].ver \in Versions
    BY DEF LocalsInv, PublisherOk
  <1>5. \A q \in Publishers : Reached(q)'
    <2> TAKE q \in Publishers
    <2>1. CASE q = p
      BY <2>1, <1>2, <1>3 DEF Reached, Saving, HasArchive, HasMeta
    <2>2. CASE q # p
      <3>1. loc'[q] = loc[q] /\ Reached(q)
        BY <1>1, <2>2 DEF FilesInv
      <3>2. CASE loc[q].pc \notin Publishing
        BY <3>1, <3>2 DEF Reached, Saving, Publishing, HasArchive, HasMeta
      <3>3. CASE loc[q].pc \in Publishing /\ loc[q].ver = v
        <4>1. uploads[v] # 0
          BY <3>1, <3>3 DEF Reached
        <4>2. uploads'[v] # 0 /\ uploads'[v] # 1
          BY <4>1, <1>3
        <4> QED BY <3>1, <3>3, <4>2, <1>3 DEF Reached, Saving
      <3>4. CASE loc[q].pc \in Publishing /\ loc[q].ver # v
        BY <3>1, <3>4, <1>3, <1>4 DEF Reached, Saving
      <3> QED BY <3>2, <3>3, <3>4
    <2> QED BY <2>1, <2>2
  <1>6. Alone'
    <2> SUFFICES ASSUME NEW u \in Versions, uploads'[u] = 1,
                        NEW q \in Publishers, NEW r \in Publishers,
                        Publishes(q, u)', Publishes(r, u)'
                 PROVE  q = r
      BY DEF Alone
    <2>1. CASE u = v
      <3>1. uploads[v] = 0
        BY <2>1, <1>3
      <3>2. \A z \in Publishers : ~Publishes(z, v)
        BY <3>1 DEF FilesInv, Reached, Publishes
      <3> QED BY <2>1, <3>2, <1>1 DEF Publishes
    <2>2. CASE u # v
      <3>1. uploads[u] = 1
        BY <2>2, <1>3
      <3>2. Publishes(q, u) /\ Publishes(r, u)
        BY <2>2, <1>1, <1>2 DEF Publishes
      <3> QED BY <3>1, <3>2 DEF FilesInv, Alone
    <2> QED BY <2>1, <2>2
  <1>7. ASSUME NEW g \in Indexes, Copy(g)' PROVE Faithful(g)'
    <2>1. Copy(g)
      BY <1>1, <1>2, <1>3, <1>7 DEF Copy, LoadIndex, Saving
    <2>2. Faithful(g) /\ DOMAIN g \subseteq Versions
      BY <2>1 DEF FilesInv, Indexes
    <2> SUFFICES ASSUME NEW u \in DOMAIN g
                 PROVE  /\ archive'[u] # Absent /\ meta'[u] # Absent
                        /\ uploads'[u] # 0
                        /\ uploads'[u] = 1 => /\ g[u] = archive'[u] /\ g[u] = meta'[u]
                                              /\ \A q \in Publishers : Publishes(q, u)' => Saving(q)'
      BY DEF Faithful
    <2>3. CASE u = v
      <3>1. uploads[v] # 0
        BY <2>2, <2>3 DEF Faithful
      <3>2. uploads'[v] # 0 /\ uploads'[v] # 1
        BY <3>1, <1>3
      <3> QED BY <2>2, <2>3, <3>2, <1>3 DEF Faithful
    <2>4. CASE u # v
      <3>1. \A q \in Publishers : Publishes(q, u)' => loc'[q] = loc[q]
        BY <1>1, <1>2, <2>4 DEF Publishes
      <3> QED BY <2>2, <2>4, <3>1, <1>3 DEF Faithful, Publishes, Saving
    <2> QED BY <2>3, <2>4
  <1> QED BY <1>5, <1>6, <1>7 DEF FilesInv

LEMMA IndexedFiles ==
    ASSUME TypeInv, LocalsInv, FilesInv, NEW p \in Publishers, PublishLoadIndex(p)
    PROVE  FilesInv'
  <1>a. loc[p].ver \in Versions /\ loc[p].raw \in Archives
    BY DEF PublishLoadIndex, LocalsInv, PublisherOk, Publishing
  <1>b. PICK v \in Versions : v = loc[p].ver
    BY <1>a
  <1>c. PICK h \in Indexes :
            h = [u \in DOMAIN LoadIndex \cup {v} |-> IF u = v THEN loc[p].raw ELSE LoadIndex[u]]
    BY <1>a, LoadIsIndex, ExtendedIsIndex
  <1>1. /\ \A q \in Actors : loc[q] \in Locals
        /\ \A q \in Actors : q # p => loc'[q] = loc[q]
        /\ loc'[p] = [loc[p] EXCEPT !.pc = "index", !.new = h]
        /\ loc[p].pc = "load"
        /\ p \in Actors /\ Publishers \subseteq Actors
    BY <1>b, <1>c DEF PublishLoadIndex, TypeInv, Actors
  <1>2. archive' = archive /\ meta' = meta /\ uploads' = uploads /\ index' = index
    BY DEF PublishLoadIndex, files, ghosts
  <1>3. Publishes(p, v) /\ ~Saving(p) /\ Reached(p)
    BY <1>1, <1>b DEF Publishing, Publishes, Saving, FilesInv
  <1>4. /\ loc'[p].pc = "index" /\ loc'[p].ver = v /\ loc'[p].raw = loc[p].raw /\ loc'[p].new = h
        /\ Saving(p)'
    BY <1>1, <1>b DEF Locals, Saving
  <1>5. h[v] = loc[p].raw /\ v \in DOMAIN h
    BY <1>c
  <1>6. \A q \in Publishers : Reached(q)'
    <2> TAKE q \in Publishers
    <2>1. CASE q = p
      BY <2>1, <1>b, <1>1, <1>2, <1>3, <1>4, <1>5 DEF Reached, Saving, Publishing, HasArchive, HasMeta
    <2>2. CASE q # p
      BY <2>2, <1>1, <1>2 DEF FilesInv, Reached, Saving
    <2> QED BY <2>1, <2>2
  <1>7. \A q \in Publishers, u \in Versions : Publishes(q, u)' => Publishes(q, u) /\ (Saving(q) => Saving(q)')
    BY <1>1, <1>3, <1>4 DEF Publishes, Saving
  <1>8. Alone'
    BY <1>2, <1>7 DEF FilesInv, Alone
  <1>9. ASSUME NEW g \in Indexes, Copy(g) PROVE Faithful(g)'
    <2>1. Faithful(g) /\ DOMAIN g \subseteq Versions
      BY <1>9 DEF FilesInv, Indexes
    <2> QED BY <2>1, <1>2, <1>7 DEF Faithful
  <1>10. Faithful(h)'
    <2>1. LoadIndex \in Indexes /\ Faithful(LoadIndex)
      BY LoadIsIndex DEF FilesInv, Copy
    <2> SUFFICES ASSUME NEW u \in DOMAIN h
                 PROVE  /\ archive[u] # Absent /\ meta[u] # Absent
                        /\ uploads[u] # 0
                        /\ uploads[u] = 1 => /\ h[u] = archive[u] /\ h[u] = meta[u]
                                             /\ \A q \in Publishers : Publishes(q, u)' => Saving(q)'
      BY <1>2 DEF Faithful
    <2>2. CASE u = v
      <3>1. /\ archive[v] # Absent /\ meta[v] # Absent /\ uploads[v] # 0
            /\ uploads[v] = 1 => archive[v] = loc[p].raw /\ meta[v] = loc[p].raw
        BY <1>b, <1>1, <1>3 DEF Reached, Publishing, HasArchive, HasMeta
      <3>2. uploads[v] = 1 => \A q \in Publishers : Publishes(q, v)' => q = p
        BY <1>3, <1>7 DEF FilesInv, Alone
      <3> QED BY <2>2, <3>1, <3>2, <1>4, <1>5
    <2>3. CASE u # v
      <3>1. u \in DOMAIN LoadIndex /\ h[u] = LoadIndex[u] /\ u \in Versions
        BY <2>1, <2>3, <1>c DEF Indexes
      <3> QED BY <2>1, <3>1, <1>7 DEF Faithful
    <2> QED BY <2>2, <2>3
  <1>11. \A g \in Indexes : Copy(g)' => Copy(g) \/ g = h
    BY <1>1, <1>2, <1>4 DEF Copy, LoadIndex, Saving
  <1> QED BY <1>6, <1>8, <1>9, <1>10, <1>11 DEF FilesInv

LEMMA TruncatedFiles ==
    ASSUME TypeInv, LocalsInv, FilesInv, NEW x \in Actors, Truncate(x)
    PROVE  FilesInv'
  <1>1. /\ \A y \in Actors : loc[y] \in Locals
        /\ \A y \in Actors : y # x => loc'[y] = loc[y]
        /\ Publishers \subseteq Actors /\ Actors = Publishers \cup {Client}
        /\ uploads' = uploads
    BY DEF Truncate, ghosts, TypeInv, Actors
  <1>2. Absent # Torn
    BY RegistryAssumption
  <1>3. CASE loc[x].pc \in {"archive", "meta"}
    <2> DEFINE s == IF loc[x].pc = "archive" THEN "archive_open" ELSE "meta_open"
    <2>1. x \in Publishers /\ loc[x].ver \in Versions /\ Reached(x)
      BY <1>1, <1>3 DEF LocalsInv, ClientOk, ClientStates, PublisherOk, Publishing, FilesInv
    <2>2. /\ loc' = [loc EXCEPT ![x].pc = s] /\ index' = index
          /\ loc'[x] = [loc[x] EXCEPT !.pc = s]
      BY <1>3 DEF Truncate, TypeInv
    <2>3. \/ loc[x].pc = "archive" /\ archive' = [archive EXCEPT ![loc[x].ver] = Torn] /\ meta' = meta
          \/ loc[x].pc = "meta" /\ meta' = [meta EXCEPT ![loc[x].ver] = Torn] /\ archive' = archive
      BY <1>3 DEF Truncate
    <2>4. Reached(x)'
      <3>1. CASE loc[x].pc = "archive"
        BY <1>1, <1>2, <2>1, <2>2, <2>3, <3>1 DEF Reached, Saving, Publishing, HasArchive, HasMeta, Locals, TypeInv
      <3>2. CASE loc[x].pc = "meta"
        BY <1>1, <1>2, <2>1, <2>2, <2>3, <3>2 DEF Reached, Saving, Publishing, HasArchive, HasMeta, Locals, TypeInv
      <3> QED BY <1>3, <3>1, <3>2
    <2>5. \A u \in Versions : /\ u # loc[x].ver => archive'[u] = archive[u] /\ meta'[u] = meta[u]
                              /\ archive'[u] # archive[u] => archive'[u] # Absent
                              /\ meta'[u] # meta[u] => meta'[u] # Absent
      BY <1>2, <2>3 DEF TypeInv
    <2>6. s \in {"archive_open", "meta", "meta_open", "load"}
      OBVIOUS
    <2> HIDE DEF s
    <2> QED BY <1>1, <1>3, <2>1, <2>2, <2>4, <2>5, <2>6, WriteFiles
  <1>4. CASE loc[x].pc \in {"index", "tokens", "cache"}
    <2>1. archive' = archive /\ meta' = meta
      BY <1>4 DEF Truncate, files
    <2>2. \/ loc[x].pc = "index" /\ loc'[x] = [loc[x] EXCEPT !.pc = "index_open"] /\ index' = Torn
          \/ loc'[x].pc \in {"tokens_open", "cache_open"} /\ index' = index
      BY <1>1, <1>4 DEF Truncate, TypeInv, Locals, files
    <2>3. \A p \in Publishers :
              \/ loc'[p] = loc[p]
              \/ loc'[p].pc \notin Publishing
              \/ loc[p].pc = "index" /\ loc'[p] = [loc[p] EXCEPT !.pc = "index_open"]
      BY <1>1, <2>2 DEF Publishing
    <2>4. LoadIndex' \in {LoadIndex, NoIndex}
      BY <2>2 DEF LoadIndex, NoIndex
    <2>5. \A y \in Actors : Saving(y)' => Saving(y) /\ loc'[y].new = loc[y].new
      BY <1>1, <2>2 DEF Saving, Locals
    <2>6. \A g \in Indexes : Copy(g)' => Copy(g) \/ g = NoIndex
      BY <2>4, <2>5 DEF Copy, NoIndex
    <2> QED BY <1>1, <2>1, <2>3, <2>6, QuietFiles
  <1> QED BY <1>3, <1>4 DEF Truncate

LEMMA FilesStep ==
    TypeInv /\ LocalsInv /\ FilesInv /\ [Next]_vars => FilesInv'
  <1> SUFFICES ASSUME TypeInv, LocalsInv, FilesInv, [Next]_vars PROVE FilesInv'
    OBVIOUS
  <1>a. /\ loc \in [Actors -> Locals]
        /\ Publishers \subseteq Actors /\ Client \in Actors /\ Client \notin Publishers
    BY RegistryAssumption DEF TypeInv, Actors
  <1>b. Idle.pc \notin Publishing
    BY DEF Idle, Publishing
  <1>1. ASSUME archive' = archive, meta' = meta, uploads' = uploads, index' = index,
               \A p \in Publishers : loc'[p] = loc[p] \/ loc'[p].pc \notin Publishing,
               \A x \in Actors : Saving(x)' => \/ Saving(x) /\ loc'[x].new = loc[x].new
                                               \/ loc'[x].new = LoadIndex
        PROVE  FilesInv'
    <2>1. \A g \in Indexes : Copy(g)' => Copy(g)
      BY <1>1 DEF Copy, LoadIndex
    <2> QED BY <1>1, <2>1, QuietFiles
  <1>2. CASE UNCHANGED vars
    BY <1>1, <1>2 DEF vars, Saving
  <1>3. ASSUME NEW p \in Publishers, LoginLoad(p) PROVE FilesInv'
    <2>1. loc'[p].pc = "tokens" /\ \A y \in Actors \ {p} : loc'[y] = loc[y]
      BY <1>3, <1>a DEF LoginLoad, Idle
    <2> QED BY <1>1, <1>3, <1>a, <2>1 DEF LoginLoad, files, Saving, Publishing
  <1>4. ASSUME NEW p \in Publishers, WriteTokens(p) PROVE FilesInv'
    <2>1. loc'[p].pc = "idle" /\ \A y \in Actors \ {p} : loc'[y] = loc[y]
      BY <1>4, <1>a DEF WriteTokens, Idle
    <2> QED BY <1>1, <1>4, <1>a, <2>1 DEF WriteTokens, ghosts, Saving, Publishing
  <1>5. ASSUME NEW p \in Publishers, WriteArchive(p) PROVE FilesInv'
    <2>1. /\ loc[p].pc = "archive_open" /\ loc[p].ver \in Versions /\ loc[p].raw \in Archives
          /\ loc' = [loc EXCEPT ![p].pc = "meta"] /\ loc'[p] = [loc[p] EXCEPT !.pc = "meta"]
          /\ archive' = [archive EXCEPT ![loc[p].ver] = loc[p].raw] /\ Reached(p)
          /\ UNCHANGED <<meta, index, uploads>>
      BY <1>5, <1>a DEF WriteArchive, ghosts, LocalsInv, PublisherOk, Publishing, FilesInv
    <2>2. Absent \notin Archives
      BY RegistryAssumption
    <2>3. Reached(p)'
      BY <1>a, <2>1, <2>2 DEF Reached, Saving, Publishing, HasArchive, HasMeta, Locals, TypeInv
    <2>4. \A u \in Versions : /\ u # loc[p].ver => archive'[u] = archive[u] /\ meta'[u] = meta[u]
                              /\ archive'[u] # archive[u] => archive'[u] # Absent
                              /\ meta'[u] # meta[u] => meta'[u] # Absent
      BY <2>1, <2>2 DEF TypeInv
    <2> QED BY <1>a, <2>1, <2>3, <2>4, WriteFiles
  <1>6. ASSUME NEW p \in Publishers, WriteMeta(p) PROVE FilesInv'
    <2>1. /\ loc[p].pc = "meta_open" /\ loc[p].ver \in Versions /\ loc[p].raw \in Archives
          /\ loc' = [loc EXCEPT ![p].pc = "load"] /\ loc'[p] = [loc[p] EXCEPT !.pc = "load"]
          /\ meta' = [meta EXCEPT ![loc[p].ver] = loc[p].raw] /\ Reached(p)
          /\ UNCHANGED <<archive, index, uploads>>
      BY <1>6, <1>a DEF WriteMeta, ghosts, LocalsInv, PublisherOk, Publishing, FilesInv
    <2>2. Absent \notin Archives
      BY RegistryAssumption
    <2>3. Reached(p)'
      BY <1>a, <2>1, <2>2 DEF Reached, Saving, Publishing, HasArchive, HasMeta, Locals, TypeInv
    <2>4. \A u \in Versions : /\ u # loc[p].ver => archive'[u] = archive[u] /\ meta'[u] = meta[u]
                              /\ archive'[u] # archive[u] => archive'[u] # Absent
                              /\ meta'[u] # meta[u] => meta'[u] # Absent
      BY <2>1, <2>2 DEF TypeInv
    <2> QED BY <1>a, <2>1, <2>3, <2>4, WriteFiles
  <1>7. ASSUME NEW x \in Actors, WriteIndex(x) PROVE FilesInv'
    <2>1. /\ archive' = archive /\ meta' = meta /\ uploads' = uploads
          /\ \A y \in Actors \ {x} : loc'[y] = loc[y]
          /\ x \in Publishers => loc'[x] = Idle
          /\ loc'[x].pc \in {"bytes", "idle"}
          /\ Saving(x) /\ index' = loc[x].new
      BY <1>7, <1>a DEF WriteIndex, Idle, Locals, Saving
    <2>2. \A p \in Publishers : loc'[p] = loc[p] \/ loc'[p].pc \notin Publishing
      BY <1>a, <1>b, <2>1
    <2>3. \A y \in Actors : Saving(y)' => Saving(y) /\ loc'[y].new = loc[y].new
      BY <2>1 DEF Saving
    <2>4. LoadIndex' = loc[x].new \/ LoadIndex' = NoIndex
      BY <2>1 DEF LoadIndex, NoIndex
    <2>5. \A g \in Indexes : Copy(g)' => Copy(g) \/ g = NoIndex
      BY <2>1, <2>3, <2>4 DEF Copy, NoIndex
    <2> QED BY <2>1, <2>2, <2>5, QuietFiles
  <1>8. ASSUME loc'[Client].pc \notin {"index", "index_open"} \/ loc'[Client].new = LoadIndex,
               \A p \in Publishers : loc'[p] = loc[p],
               UNCHANGED <<archive, meta, index, uploads>>
        PROVE  FilesInv'
    <2>1. \A x \in Actors : Saving(x)' => \/ Saving(x) /\ loc'[x].new = loc[x].new
                                          \/ loc'[x].new = LoadIndex
      BY <1>8 DEF Saving, Actors
    <2> QED BY <1>1, <1>8, <2>1
  <1>9. CASE FetchVersions
    BY <1>8, <1>9, <1>a DEF FetchVersions, files, Idle
  <1>10. CASE FetchMeta
    <2>1. loc'[Client].pc \in {"idle", "extract", "download"} /\ \A p \in Publishers : loc'[p] = loc[p]
      BY <1>10, <1>a DEF FetchMeta, Idle, Locals
    <2> QED BY <1>8, <1>10, <2>1 DEF FetchMeta, files, ghosts
  <1>11. CASE DownloadLoad
    <2>1. /\ loc'[Client].pc # "index" \/ loc'[Client].new = LoadIndex
          /\ loc'[Client].pc \in {"idle", "index", "bytes"}
          /\ \A p \in Publishers : loc'[p] = loc[p]
      BY <1>11, <1>a DEF DownloadLoad, Idle, Locals
    <2> QED BY <1>8, <1>11, <2>1 DEF DownloadLoad, files, ghosts
  <1>12. CASE DownloadBytes
    BY <1>8, <1>12, <1>a DEF DownloadBytes, files, ghosts, Locals
  <1>13. CASE WriteCache
    BY <1>8, <1>13, <1>a DEF WriteCache, files, ghosts, Locals, Idle
  <1>14. CASE Remove
    BY <1>8, <1>14, <1>a DEF Remove, files, ghosts, Locals
  <1>15. CASE Unpack
    BY <1>8, <1>15, <1>a DEF Unpack, files, ghosts, Idle
  <1>16. CASE ServerCrash
    <2>1. \A x \in Actors : loc'[x] = Idle \/ loc'[x] = loc[x]
      BY <1>16 DEF ServerCrash
    <2> QED BY <1>1, <1>16, <1>a, <1>b, <2>1 DEF ServerCrash, files, Saving, Idle
  <1>17. CASE ClientCrash
    BY <1>8, <1>17, <1>a DEF ClientCrash, files, Idle
  <1> QED
    BY <1>2, <1>3, <1>4, <1>5, <1>6, <1>7, <1>9, <1>10, <1>11, <1>12, <1>13, <1>14, <1>15, <1>16,
       <1>17, TruncatedFiles, CheckedFiles, IndexedFiles DEF Next

LEMMA InitFiles == Init => FilesInv /\ AckedInv
  <1> SUFFICES ASSUME Init PROVE FilesInv /\ AckedInv
    OBVIOUS
  <1>1. \A x \in Actors : loc[x] = Idle
    BY DEF Init
  <1>2. \A x \in Actors : loc[x].pc = "idle"
    BY <1>1 DEF Idle
  <1>3. LoadIndex = NoIndex
    BY DEF Init, LoadIndex
  <1>4. \A g \in Indexes : Copy(g) => Faithful(g)
    BY <1>2, <1>3 DEF Copy, Saving, Faithful, NoIndex
  <1>5. FilesInv
    BY <1>2, <1>4 DEF FilesInv, Reached, Alone, Publishes, Saving, Publishing, HasArchive, HasMeta, Actors
  <1>6. NoIndex # Torn
    <2>1. NoIndex \in [{} -> Archives]
      BY DEF NoIndex
    <2> QED BY <2>1, RegistryAssumption
  <1>7. AckedInv
    BY <1>2, <1>6 DEF Init, AckedInv, Saving
  <1> QED BY <1>5, <1>7

(* A step that makes no copy of the index, and saves none.                 *)
LEMMA QuietAcked ==
    ASSUME AckedInv, index' = index, acked' = acked, raced => raced', cut => cut',
           \A x \in Actors : Saving(x)' => Saving(x) /\ loc'[x].new = loc[x].new,
           \A x \in Actors : loc[x].pc = "index_open" => cut' \/ loc'[x].pc = "index_open"
    PROVE  AckedInv'
  BY DEF AckedInv

LEMMA AckedStep ==
    TypeInv /\ LocalsInv /\ FilesInv /\ AckedInv /\ [Next]_vars => AckedInv'
  <1> SUFFICES ASSUME TypeInv, LocalsInv, FilesInv, AckedInv, [Next]_vars PROVE AckedInv'
    OBVIOUS
  <1>a. /\ loc \in [Actors -> Locals]
        /\ Publishers \subseteq Actors /\ Client \in Actors /\ Client \notin Publishers
    BY RegistryAssumption DEF TypeInv, Actors
  <1>b. \A g \in Indexes : g # Torn
    BY RegistryAssumption DEF Indexes
  <1>1. CASE UNCHANGED vars
    BY <1>1, QuietAcked DEF vars, Saving
  (* One handler x moves, to a state that is not a save of the index. *)
  <1>2. ASSUME NEW x \in Actors, index' = index, acked' = acked, raced => raced', cut' = cut,
               \A y \in Actors \ {x} : loc'[y] = loc[y],
               loc[x].pc # "index_open", ~Saving(x)'
        PROVE  AckedInv'
    BY <1>2, QuietAcked DEF Saving
  <1>3. ASSUME NEW p \in Publishers, LoginLoad(p) PROVE AckedInv'
    BY <1>2, <1>3, <1>a DEF LoginLoad, files, Saving, Idle
  <1>4. ASSUME NEW p \in Publishers, NEW v \in Versions, NEW a \in Archives, PublishCheck(p, v, a)
        PROVE  AckedInv'
    BY <1>2, <1>4, <1>a DEF PublishCheck, files, Saving, Idle
  <1>5. ASSUME NEW p \in Publishers, WriteArchive(p) PROVE AckedInv'
    BY <1>2, <1>5, <1>a DEF WriteArchive, ghosts, Saving, Locals
  <1>6. ASSUME NEW p \in Publishers, WriteMeta(p) PROVE AckedInv'
    BY <1>2, <1>6, <1>a DEF WriteMeta, ghosts, Saving, Locals
  <1>7. ASSUME NEW p \in Publishers, WriteTokens(p) PROVE AckedInv'
    BY <1>2, <1>7, <1>a DEF WriteTokens, ghosts, Saving, Idle
  <1>8. ASSUME NEW x \in Actors, ~Saving(x), loc'[x].pc = "index", loc'[x].new = LoadIndex \/
                  (\E v \in Versions : DOMAIN loc'[x].new = DOMAIN LoadIndex \cup {v}),
               \A y \in Actors \ {x} : loc'[y] = loc[y],
               index' = index, acked' = acked, raced' = (raced \/ Holding(x)), cut' = cut
        PROVE  AckedInv'
    <2>1. CASE Holding(x)
      BY <1>8, <2>1 DEF AckedInv
    <2>2. CASE ~Holding(x)
      <3>1. \A y \in Actors : ~Saving(y) /\ (Saving(y)' => y = x)
        BY <1>8, <2>2 DEF Holding, Saving
      <3>2. DOMAIN LoadIndex \subseteq DOMAIN loc'[x].new
        BY <1>8
      <3>3. ~raced /\ ~cut => index # Torn /\ acked \subseteq DOMAIN LoadIndex
        BY <3>1 DEF AckedInv, Saving, LoadIndex
      <3> QED BY <1>8, <3>1, <3>2, <3>3 DEF AckedInv
    <2> QED BY <2>1, <2>2
  <1>9. ASSUME NEW p \in Publishers, PublishLoadIndex(p) PROVE AckedInv'
    <2>1. loc[p].ver \in Versions
      BY <1>9 DEF PublishLoadIndex, LocalsInv, PublisherOk, Publishing
    <2> DEFINE h == [v \in DOMAIN LoadIndex \cup {loc[p].ver} |->
                        IF v = loc[p].ver THEN loc[p].raw ELSE LoadIndex[v]]
    <2>2. loc'[p] = [loc[p] EXCEPT !.pc = "index", !.new = h]
      BY <1>9, <1>a DEF PublishLoadIndex
    <2>3. DOMAIN h = DOMAIN LoadIndex \cup {loc[p].ver}
      OBVIOUS
    <2> HIDE DEF h
    <2>4. loc'[p].pc = "index" /\ loc'[p].new = h
      BY <2>2, <1>a DEF Locals
    <2>5. \A y \in Actors \ {p} : loc'[y] = loc[y]
      BY <1>9, <1>a DEF PublishLoadIndex
    <2> QED BY <1>8, <1>9, <1>a, <2>1, <2>3, <2>4, <2>5 DEF PublishLoadIndex, files, ghosts, Saving
  <1>10. ASSUME DownloadLoad PROVE AckedInv'
    <2>1. /\ \A y \in Actors \ {Client} : loc'[y] = loc[y]
          /\ index' = index /\ acked' = acked /\ cut' = cut
          /\ raced' = (raced \/ Holding(Client)) /\ ~Saving(Client) /\ loc[Client].pc # "index_open"
      BY <1>10, <1>a DEF DownloadLoad, files, ghosts, Saving
    <2>2. \/ loc'[Client].pc \in {"idle", "bytes"}
          \/ loc'[Client].pc = "index" /\ loc'[Client].new = LoadIndex
      BY <1>10, <1>a DEF DownloadLoad, Idle, Locals
    <2>3. CASE loc'[Client].pc \in {"idle", "bytes"}
      BY <1>2, <1>a, <2>1, <2>3 DEF Saving
    <2>4. CASE loc'[Client].pc = "index" /\ loc'[Client].new = LoadIndex
      BY <1>8, <1>a, <2>1, <2>4
    <2> QED BY <2>2, <2>3, <2>4
  <1>11. ASSUME NEW x \in Actors, Truncate(x) PROVE AckedInv'
    <2>1. \A y \in Actors \ {x} : loc'[y] = loc[y]
      BY <1>11, <1>a DEF Truncate
    <2>2. CASE loc[x].pc = "index"
      <3>1. /\ index' = Torn /\ acked' = acked /\ cut' = cut /\ raced' = (raced \/ Holding(x))
            /\ loc'[x].pc = "index_open" /\ loc'[x].new = loc[x].new /\ Saving(x) /\ Saving(x)'
        BY <1>11, <1>a, <2>2 DEF Truncate, ghosts, Saving, Locals
      <3> QED BY <2>1, <3>1 DEF AckedInv, Saving
    <2>3. CASE loc[x].pc # "index"
      BY <1>2, <1>11, <1>a, <2>1, <2>3 DEF Truncate, files, ghosts, Saving, Locals
    <2> QED BY <2>2, <2>3
  <1>12. ASSUME NEW x \in Actors, WriteIndex(x) PROVE AckedInv'
    <2>1. /\ \A y \in Actors \ {x} : loc'[y] = loc[y]
          /\ ~Saving(x)' /\ Saving(x)
          /\ index' = loc[x].new /\ raced' = (raced \/ Holding(x)) /\ cut' = cut
          /\ acked' = IF x = Client THEN acked ELSE acked \cup {loc[x].ver}
      BY <1>12, <1>a DEF WriteIndex, Idle, Locals, Saving
    <2>2. index' # Torn
      BY <1>b, <2>1 DEF LocalsInv, ClientOk, PublisherOk, Saving, Actors
    <2>3. x # Client => loc[x].ver \in DOMAIN loc[x].new
      BY <2>1 DEF FilesInv, Reached, Actors
    <2>4. CASE Holding(x)
      BY <2>1, <2>4 DEF AckedInv
    <2>5. CASE ~Holding(x)
      <3>1. \A y \in Actors : ~Saving(y)'
        BY <2>1, <2>5 DEF Holding, Saving
      <3>2. ~raced /\ ~cut => acked' \subseteq DOMAIN index'
        BY <2>1, <2>3 DEF AckedInv
      <3> QED BY <2>1, <2>2, <2>5, <3>1, <3>2 DEF AckedInv
    <2> QED BY <2>4, <2>5
  <1>13. CASE FetchVersions
    BY <1>2, <1>13, <1>a DEF FetchVersions, files, Idle, Saving
  <1>14. CASE FetchMeta
    <2>1. loc'[Client].pc \in {"idle", "extract", "download"} /\ \A y \in Actors \ {Client} : loc'[y] = loc[y]
      BY <1>14, <1>a DEF FetchMeta, Idle, Locals
    <2> QED BY <1>2, <1>14, <1>a, <2>1 DEF FetchMeta, files, ghosts, Saving
  <1>15. CASE DownloadBytes
    BY <1>2, <1>15, <1>a DEF DownloadBytes, files, ghosts, Locals, Saving
  <1>16. CASE WriteCache
    BY <1>2, <1>16, <1>a DEF WriteCache, files, ghosts, Locals, Idle, Saving
  <1>17. CASE Remove
    BY <1>2, <1>17, <1>a DEF Remove, files, ghosts, Locals, Saving
  <1>18. CASE Unpack
    BY <1>2, <1>18, <1>a DEF Unpack, files, ghosts, Idle, Saving
  <1>19. CASE ServerCrash
    <2>1. /\ \A x \in Actors : loc'[x] = Idle \/ loc'[x] = loc[x]
          /\ \A x \in Actors : loc[x].pc = "index_open" => cut'
          /\ index' = index /\ acked' = acked /\ raced' = raced /\ (cut => cut')
      BY <1>19 DEF ServerCrash, files
    <2>2. \A x \in Actors : Saving(x)' => Saving(x) /\ loc'[x].new = loc[x].new
      BY <2>1 DEF Saving, Idle
    <2> QED BY <2>1, <2>2, QuietAcked
  <1>20. CASE ClientCrash
    BY <1>2, <1>20, <1>a DEF ClientCrash, ServerSide, files, Idle, Saving
  <1> QED
    BY <1>1, <1>3, <1>4, <1>5, <1>6, <1>7, <1>9, <1>10, <1>11, <1>12, <1>13, <1>14, <1>15, <1>16,
       <1>17, <1>18, <1>19, <1>20 DEF Next

LEMMA FilesAlways == Spec => [](TypeInv /\ LocalsInv /\ FilesInv /\ AckedInv)
  BY InitTypes, TypeStep, InitFiles, FilesStep, AckedStep, PTL DEF Spec

(* A version published once is downloadable while the index lists it, and  *)
(* one that was answered ok stays listed unless two handlers' index.json   *)
(* accesses overlapped or the server died while it wrote that file         *)
(* (RegistryStore.publish and archive_bytes).                              *)
THEOREM AckedFetchable == Spec => []AckedIsFetchable
  <1>1. FilesInv /\ AckedInv /\ TypeInv => AckedIsFetchable
    <2> SUFFICES ASSUME FilesInv, AckedInv, TypeInv PROVE AckedIsFetchable
      OBVIOUS
    <2>1. Faithful(LoadIndex)
      BY LoadIsIndex DEF FilesInv, Copy
    <2>2. \A v \in Listed : LoadIndex = index
      BY DEF Listed, LoadIndex, NoIndex
    <2>3. \A v \in Listed : uploads[v] = 1 => archive[v] = index[v] /\ meta[v] = index[v]
      BY <2>1, <2>2 DEF Listed, Faithful
    <2>4. ~raced /\ ~cut /\ index # Torn => acked \subseteq Listed
      BY DEF AckedInv, Listed, LoadIndex
    <2> QED BY <2>3, <2>4 DEF AckedIsFetchable
  <1> QED BY <1>1, FilesAlways, PTL

-----------------------------------------------------------------------------
StoredVersions == {v \in Versions : archive[v] # Absent /\ meta[v] # Absent}

LEMMA ListedAreStored == TypeInv /\ FilesInv => Listed \subseteq StoredVersions
  <1> SUFFICES ASSUME TypeInv, FilesInv PROVE Listed \subseteq StoredVersions
    OBVIOUS
  <1>1. LoadIndex \in Indexes /\ Faithful(LoadIndex)
    BY LoadIsIndex DEF FilesInv, Copy
  <1> QED BY <1>1 DEF Listed, StoredVersions, Faithful, Indexes

(* A file once written is never gone: a write starts by truncating it.     *)
LEMMA StoredGrows ==
    ASSUME TypeInv, LocalsInv, Next
    PROVE  \/ StoredVersions' = StoredVersions
           \/ \E v \in Versions : StoredVersions' = StoredVersions \cup {v} /\ index' = index
  <1> USE DEF StoredVersions
  <1>1. Absent # Torn /\ Absent \notin Archives
    BY RegistryAssumption
  <1>2. Client \in Actors /\ Publishers \subseteq Actors
    BY DEF Actors
  <1>3. CASE UNCHANGED <<archive, meta>>
    BY <1>3
  <1>4. ASSUME NEW x \in Actors, loc[x].ver \in Versions, NEW c \in Archives \cup {Torn}, index' = index,
               \/ archive' = [archive EXCEPT ![loc[x].ver] = c] /\ meta' = meta
               \/ meta' = [meta EXCEPT ![loc[x].ver] = c] /\ archive' = archive
        PROVE  \/ StoredVersions' = StoredVersions
               \/ \E v \in Versions : StoredVersions' = StoredVersions \cup {v} /\ index' = index
    <2>1. \A v \in Versions \ {loc[x].ver} : archive'[v] = archive[v] /\ meta'[v] = meta[v]
      BY <1>4 DEF TypeInv
    <2>2. \/ archive'[loc[x].ver] # Absent /\ meta'[loc[x].ver] = meta[loc[x].ver]
          \/ meta'[loc[x].ver] # Absent /\ archive'[loc[x].ver] = archive[loc[x].ver]
      BY <1>1, <1>4 DEF TypeInv
    <2>3. StoredVersions' \in {StoredVersions, StoredVersions \cup {loc[x].ver}}
      <3>1. CASE loc[x].ver \in StoredVersions'
        BY <2>1, <2>2, <3>1
      <3>2. CASE loc[x].ver \notin StoredVersions'
        BY <2>1, <2>2, <3>2
      <3> QED BY <3>1, <3>2
    <2> QED BY <1>4, <2>3
  <1>5. ASSUME NEW x \in Actors, Truncate(x)
        PROVE  \/ UNCHANGED <<archive, meta>>
               \/ /\ loc[x].ver \in Versions /\ index' = index
                  /\ \/ archive' = [archive EXCEPT ![loc[x].ver] = Torn] /\ meta' = meta
                     \/ meta' = [meta EXCEPT ![loc[x].ver] = Torn] /\ archive' = archive
    <2>1. loc[x].pc \in {"archive", "meta"} => loc[x].ver \in Versions
      BY DEF LocalsInv, ClientOk, ClientStates, PublisherOk, Publishing, Actors
    <2> QED BY <1>5, <2>1 DEF Truncate, files
  <1>6. ASSUME NEW p \in Publishers, WriteArchive(p) \/ WriteMeta(p)
        PROVE  /\ loc[p].ver \in Versions /\ loc[p].raw \in Archives /\ index' = index
               /\ \/ archive' = [archive EXCEPT ![loc[p].ver] = loc[p].raw] /\ meta' = meta
                  \/ meta' = [meta EXCEPT ![loc[p].ver] = loc[p].raw] /\ archive' = archive
    BY <1>6 DEF WriteArchive, WriteMeta, ghosts, LocalsInv, PublisherOk, Publishing
  <1>7. \/ \E x \in Actors : Truncate(x)
        \/ \E p \in Publishers : WriteArchive(p) \/ WriteMeta(p)
        \/ UNCHANGED <<archive, meta>>
    BY DEF Next, LoginLoad, PublishCheck, PublishLoadIndex, WriteTokens, WriteIndex, FetchVersions,
           FetchMeta, DownloadLoad, DownloadBytes, WriteCache, Remove, Unpack, ServerCrash, ClientCrash, files
  <1> QED BY <1>2, <1>3, <1>4, <1>5, <1>6, <1>7

(* The registry implements the catalogue: whatever overlaps, is lost or    *)
(* is cut short, index.json lists stored versions only, and no step makes  *)
(* a stored version disappear.                                             *)
THEOREM ImplementsCatalog == Spec => CatalogSpec
  <1>1. Init => Catalog!Init
    <2> SUFFICES ASSUME Init PROVE Catalog!Init
      OBVIOUS
    <2>1. Listed = {}
      BY DEF Init, Listed, LoadIndex, NoIndex
    <2> QED BY <2>1 DEF Catalog!Init
  <1>2. TypeInv /\ LocalsInv /\ (Listed \subseteq StoredVersions)' /\ [Next]_vars
           => [Catalog!Next]_<<StoredVersions, Listed>>
    <2> SUFFICES ASSUME TypeInv, LocalsInv, (Listed \subseteq StoredVersions)', [Next]_vars
                 PROVE  [Catalog!Next]_<<StoredVersions, Listed>>
      OBVIOUS
    <2>1. CASE UNCHANGED vars
      BY <2>1 DEF vars, StoredVersions, Listed, LoadIndex
    <2>2. CASE Next
      <3>1. CASE StoredVersions' = StoredVersions
        <4>1. Listed' \subseteq StoredVersions
          BY <3>1
        <4> QED BY <3>1, <4>1 DEF Catalog!Next, Catalog!Offer, StoredVersions
      <3>2. CASE \E v \in Versions : StoredVersions' = StoredVersions \cup {v} /\ index' = index
        <4>1. Listed' = Listed
          BY <3>2 DEF Listed, LoadIndex
        <4> QED BY <3>2, <4>1 DEF Catalog!Next, Catalog!Store, StoredVersions
      <3> QED BY <2>2, <3>1, <3>2, StoredGrows
    <2> QED BY <2>1, <2>2
  <1> QED BY <1>1, <1>2, FilesAlways, ListedAreStored, PTL DEF Spec, CatalogSpec, Catalog!Spec, StoredVersions
=============================================================================

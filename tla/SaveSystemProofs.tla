-------------------------- MODULE SaveSystemProofs --------------------------
(***************************************************************************)
(* What is proved of SaveSystem, for any games, scripts, slots, files,     *)
(* limits and faults: what files and buffers hold was committed, signed    *)
(* and made by the ledger; the slots stay within the limit but for those   *)
(* that look at the directory at the same time; what is acknowledged stays *)
(* readable; and books balance, however long they are.                     *)
(***************************************************************************)
EXTENDS SaveSystem, FiniteSetTheorems, WellFoundedInduction, TLAPS

-----------------------------------------------------------------------------
(* Types.  Books are of those the ledger made, signatures of those the     *)
(* server gave, and what a file has of a commit is a commit's.             *)

Payloads(books, signatures) == [book : books, mark : signatures \cup {None}]

Committed(text, books, signatures, commits) ==
    /\ text.data \in Payloads(books, signatures)
    /\ text.sig \in signatures \cup {None}
    /\ <<text.slot, text.data.book>> \in commits

(* A file that is there has a text and the games that write it.            *)
IsFile(file) == file = [open |-> file.open, text |-> file.text]

FileOk(file, books, signatures, commits) ==
    \/ file = None
    \/ /\ IsFile(file)
       /\ file.text = Torn \/ Committed(file.text, books, signatures, commits)

SecretFileOk(file) ==
    \/ file = None
    \/ IsFile(file) /\ file.text \in Nat \cup {Torn}

Labels == {"off", "idle", "open secret", "write secret", "place secret", "work", "signed", "write", "place"}

CallOk(g) ==
    /\ call[g].op \in SlotOps => FileOf(g) \in Files
    /\ pc[g] \in {"signed", "write", "place"} => call[g].op \in {"commit", "commit signed"}
    /\ pc[g] \in {"write", "place"} => <<call[g].slot, buf[g].book>> \in sealed

GamesOk ==
    /\ pc \in [Games -> Labels]
    /\ call = [g \in Games |-> call[g]]
    /\ key \in [Games -> Nat \cup {None}]
    /\ buf \in [Games -> Payloads(made, signed)]
    /\ signature \in [Games -> signed \cup {None}]
    /\ \A g \in Games : CallOk(g)

SecretsOk ==
    /\ secrets \in Nat
    /\ SecretFileOk(secret) /\ SecretFileOk(secretTmp)

FilesOk ==
    /\ saves = [f \in Files |-> saves[f]] /\ tmps = [f \in Files |-> tmps[f]]
    /\ acked = [f \in Files |-> acked[f]]
    /\ \A f \in Files : FileOk(saves[f], made, signed, sealed) /\ FileOk(tmps[f], made, signed, sealed)

SaveTypeOK ==
    /\ GamesOk
    /\ SecretsOk
    /\ FilesOk
    /\ Create \in made

(* The past only grows.                                                    *)
Grown == made \subseteq made' /\ signed \subseteq signed' /\ sealed \subseteq sealed'

LEMMA PastGrows == Next => Grown
  BY DEF Next, Grown, Edit, Launch, Enter, Begin, OpenSecret, WriteSecret, PlaceSecret, SaveInit, SaveClear, SaveSet,
         AskServer, OpenSave, WriteSave, PlaceSave, SaveLoad, SaveLoadSigned, SaveDelete, Store, Restore, Crash, past

LEMMA StillOk ==
    ASSUME NEW file, NEW m, NEW s, NEW x, NEW m2, NEW s2, NEW x2, m \subseteq m2, s \subseteq s2, x \subseteq x2,
           FileOk(file, m, s, x)
    PROVE  FileOk(file, m2, s2, x2)
  BY DEF FileOk, Committed, Payloads

LEMMA FilesStillOk ==
    ASSUME FilesOk, Grown, UNCHANGED <<saves, tmps, acked>>
    PROVE  FilesOk'
  <1>1. \A f \in Files : FileOk(saves[f], made', signed', sealed') /\ FileOk(tmps[f], made', signed', sealed')
    BY StillOk DEF FilesOk, Grown
  <1> QED BY <1>1 DEF FilesOk

LEMMA GamesStillOk ==
    ASSUME GamesOk, Grown, UNCHANGED <<pc, call, key, buf, signature>>
    PROVE  GamesOk'
  BY DEF GamesOk, Grown, Payloads, CallOk, FileOf

LEMMA StopOk ==
    ASSUME GamesOk, Grown, Create \in made, NEW g \in Games, Stop(g)
    PROVE  GamesOk'
  <1>1. pc' \in [Games -> Labels] /\ call' = [h \in Games |-> call'[h]] /\ key' \in [Games -> Nat \cup {None}]
    BY DEF GamesOk, Stop, Goto, Labels
  <1>2. signature' \in [Games -> signed' \cup {None}]
    BY DEF GamesOk, Stop, Grown
  <1>3. Empty \in Payloads(made', signed') /\ Payloads(made, signed) \subseteq Payloads(made', signed')
    BY DEF Empty, Payloads, Grown
  <1>4. buf' \in [Games -> Payloads(made', signed')]
    BY <1>3 DEF GamesOk, Stop
  <1>5. \A h \in Games : CallOk(h)'
    BY DEF GamesOk, CallOk, Stop, Goto, NoCall, FileOf, SlotOps, Labels, Grown
  <1> QED BY <1>1, <1>2, <1>4, <1>5 DEF GamesOk

LEMMA ReturnOk ==
    ASSUME GamesOk, Grown, NEW g \in Games, NEW payload \in Payloads(made', signed'), Return(g, payload)
    PROVE  GamesOk'
  <1>1. pc' \in [Games -> Labels] /\ call' = [h \in Games |-> call'[h]] /\ key' \in [Games -> Nat \cup {None}]
    BY DEF GamesOk, Return, Goto, Labels
  <1>2. signature' \in [Games -> signed' \cup {None}]
    BY DEF GamesOk, Return, Grown
  <1>3. Payloads(made, signed) \subseteq Payloads(made', signed')
    BY DEF Payloads, Grown
  <1>4. buf' \in [Games -> Payloads(made', signed')]
    BY <1>3 DEF GamesOk, Return
  <1>5. \A h \in Games : CallOk(h)'
    BY DEF GamesOk, CallOk, Return, Goto, NoCall, FileOf, SlotOps, Labels, Grown
  <1> QED BY <1>1, <1>2, <1>4, <1>5 DEF GamesOk

LEMMA BeginOk ==
    ASSUME GamesOk, SecretsOk, Grown, NEW g \in Games, NEW c, c.op \in SlotOps => File(c.slot) \in Files, Begin(g, c)
    PROVE  GamesOk'
  <1>1. key' \in [Games -> Nat \cup {None}]
    BY DEF GamesOk, Begin, SecretsOk, SecretFileOk, HasSecret
  <1>2. pc' \in [Games -> Labels] /\ call' = [h \in Games |-> call'[h]]
    BY DEF GamesOk, Begin, Goto, Labels
  <1>3. buf' \in [Games -> Payloads(made', signed')] /\ signature' \in [Games -> signed' \cup {None}]
    BY DEF GamesOk, Begin, Grown, game
  <1>4. \A h \in Games : CallOk(h)'
    BY DEF GamesOk, CallOk, Begin, Goto, FileOf, Labels, Grown
  <1> QED BY <1>1, <1>2, <1>3, <1>4 DEF GamesOk


(* What a file has of a commit is of the past, so a load gives a payload.  *)
LEMMA ObjectOk ==
    ASSUME NEW text, NEW m, NEW s, NEW x, Committed(text, m, s, x)
    PROVE  /\ Object(text) \in Payloads(m, s)
           /\ Unsigned(Object(text)) \in Payloads(m, s)
           /\ Object(text).book = text.data.book /\ Unsigned(Object(text)).book = text.data.book
           /\ Object(text).mark \in s \cup {None}
  BY DEF Committed, Object, Unsigned, Payloads

LEMMA FileOfOk ==
    ASSUME GamesOk, NEW g \in Games, call[g].op \in SlotOps \/ pc[g] \in {"signed", "write", "place"}
    PROVE  FileOf(g) \in Files
  BY DEF GamesOk, CallOk, SlotOps

(* What a game writes is a commit.                                         *)
LEMMA BlobOk ==
    ASSUME SaveTypeOK, NEW g \in Games, At(g, "write")
    PROVE  Committed(Blob(g), made, signed, sealed)
  BY DEF SaveTypeOK, GamesOk, CallOk, At, Blob, Committed

LEMMA WrittenOk ==
    ASSUME NEW file, NEW g, NEW text, NEW m, NEW s, NEW x, FileOk(file, m, s, x), Committed(text, m, s, x),
           NEW new \in Written(file, g, text)
    PROVE  FileOk(new, m, s, x)
  <1>1. CASE g \notin Writers(file)
    BY <1>1 DEF Written
  <1>2. CASE g \in Writers(file)
    <2>1. PICK t \in {text, Torn, file.text} : new = [open |-> file.open \ {g}, text |-> t] /\ t \in {text, Torn}
      BY <1>2 DEF Written
    <2> QED BY <2>1 DEF FileOk, IsFile
  <1> QED BY <1>1, <1>2

LEMMA ClosedOk ==
    ASSUME NEW file, NEW g, NEW m, NEW s, NEW x
    PROVE  /\ FileOk(file, m, s, x) => FileOk(Closed(file, g), m, s, x)
           /\ SecretFileOk(file) => SecretFileOk(Closed(file, g))
  <1>1. ASSUME file # None, IsFile(file)
        PROVE  IsFile(Closed(file, g)) /\ Closed(file, g).text = file.text
    BY <1>1 DEF Closed, IsFile
  <1>2. CASE file = None
    BY <1>2 DEF Closed, FileOk, SecretFileOk
  <1>3. CASE file # None
    BY <1>1, <1>3 DEF FileOk, SecretFileOk
  <1> QED BY <1>2, <1>3

LEMMA OpenedOk ==
    ASSUME NEW file, NEW g, NEW m, NEW s, NEW x
    PROVE  FileOk(Opened(file, g), m, s, x) /\ SecretFileOk(Opened(file, g))
  BY DEF Opened, FileOk, SecretFileOk, IsFile

(* An edit of the plain book that can be verified has been the ledger's    *)
(* own book all along: proved below.                                       *)
EditsShow == plain # None /\ Verify(plain) => plain \in made

LEMMA TypesInit == Init => SaveTypeOK
  <1> SUFFICES ASSUME Init PROVE SaveTypeOK
    OBVIOUS
  <1>1. Empty \in Payloads(made, signed)
    BY DEF Init, Payloads, Empty
  <1>2. buf \in [Games -> Payloads(made, signed)]
    BY <1>1 DEF Init
  <1>3. \A g \in Games : CallOk(g)
    BY DEF Init, CallOk, NoCall, SlotOps
  <1>4. GamesOk
    BY <1>2, <1>3 DEF Init, GamesOk, Labels
  <1>5. SecretsOk /\ FilesOk
    BY DEF Init, SecretsOk, FilesOk, FileOk, SecretFileOk
  <1> QED BY <1>4, <1>5 DEF Init, SaveTypeOK

LEMMA SecretSteps ==
    ASSUME SaveTypeOK, Grown, NEW g \in Games, Launch(g) \/ Enter(g) \/ OpenSecret(g) \/ WriteSecret(g) \/ PlaceSecret(g)
    PROVE  SaveTypeOK'
  <1> USE DEF SaveTypeOK
  <1>0. Create \in made'
    BY DEF Grown
  <1>1. ASSUME Launch(g) PROVE SaveTypeOK'
    <2>1. GamesOk'
      BY <1>1, BeginOk DEF Launch, SlotOps
    <2>2. FilesOk'
      BY <1>1, FilesStillOk DEF Launch, Begin, disk
    <2>3. SecretsOk'
      BY <1>1 DEF Launch, Begin, disk, SecretsOk
    <2> QED BY <1>0, <2>1, <2>2, <2>3
  <1>2. ASSUME Enter(g) PROVE SaveTypeOK'
    <2>1. PICK c \in UNION ToSet(Script(g)) : Begin(g, c)
      BY <1>2 DEF Enter
    <2>2. GamesOk'
      BY <2>1, BeginOk, SaveAssumption
    <2>3. FilesOk'
      BY <2>1, FilesStillOk DEF Begin, disk
    <2>4. SecretsOk'
      BY <2>1 DEF Begin, disk, SecretsOk
    <2> QED BY <1>0, <2>2, <2>3, <2>4
  <1>3. ASSUME OpenSecret(g) PROVE SaveTypeOK'
    <2>1. GamesOk'
      <3>1. \A h \in Games : CallOk(h)'
        BY <1>3 DEF GamesOk, CallOk, OpenSecret, Goto, FileOf, Labels, past
      <3> QED BY <1>3, <3>1 DEF GamesOk, OpenSecret, Goto, Labels, past
    <2>2. FilesOk'
      BY <1>3, FilesStillOk DEF OpenSecret, past
    <2>3. SecretsOk'
      BY <1>3, OpenedOk DEF OpenSecret, SecretsOk
    <2> QED BY <1>0, <2>1, <2>2, <2>3
  <1>4. ASSUME WriteSecret(g) PROVE SaveTypeOK'
    <2>1. GamesOk'
      <3>1. \A h \in Games : CallOk(h)'
        BY <1>4 DEF GamesOk, CallOk, WriteSecret, Goto, FileOf, Labels, past
      <3>2. key' \in [Games -> Nat \cup {None}]
        <4>1. secrets + 1 \in Nat \cup {None} /\ key \in [Games -> Nat \cup {None}]
          BY DEF SecretsOk, GamesOk
        <4> QED BY <1>4, <4>1 DEF WriteSecret
      <3> QED BY <1>4, <3>1, <3>2 DEF GamesOk, WriteSecret, Goto, Labels, past
    <2>2. FilesOk'
      BY <1>4, FilesStillOk DEF WriteSecret, past
    <2>3. SecretsOk'
      <3>1. secrets + 1 \in Nat
        BY DEF SecretsOk
      <3>2. secrets' \in Nat
        BY <1>4, <3>1 DEF WriteSecret
      <3>3. SecretFileOk([open |-> secretTmp.open \ {g}, text |-> secrets + 1])
            /\ SecretFileOk([open |-> secret.open \ {g}, text |-> secrets + 1])
        BY <3>1 DEF SecretFileOk, IsFile
      <3>4. SecretFileOk(secret)' /\ SecretFileOk(secretTmp)'
        BY <1>4, <3>3, Zenon DEF WriteSecret, SecretsOk, SecretFileOk, IsFile
      <3> QED BY <3>2, <3>4 DEF SecretsOk
    <2> QED BY <1>0, <2>1, <2>2, <2>3
  <1>5. ASSUME PlaceSecret(g) PROVE SaveTypeOK'
    <2>1. FilesOk' /\ SecretsOk'
      <3>1. UNCHANGED <<saves, tmps, acked>>
        BY <1>5 DEF PlaceSecret, disk, past
      <3> QED BY <1>5, <3>1, FilesStillOk DEF PlaceSecret, disk, SecretsOk, SecretFileOk
    <2>2. CASE secretTmp = None
      BY <1>0, <1>5, <2>1, <2>2, StopOk DEF PlaceSecret
    <2>3. CASE secretTmp # None
      <3>1. \A h \in Games : CallOk(h)'
        BY <1>5, <2>3 DEF GamesOk, CallOk, PlaceSecret, Goto, FileOf, Labels, past
      <3>2. GamesOk'
        BY <1>5, <2>3, <3>1 DEF GamesOk, PlaceSecret, Goto, Labels, past
      <3> QED BY <1>0, <2>1, <3>2
    <2> QED BY <2>2, <2>3
  <1> QED BY <1>1, <1>2, <1>3, <1>4, <1>5


LEMMA BufferSteps ==
    ASSUME SaveTypeOK, Grown, NEW g \in Games, SaveInit(g) \/ SaveClear(g) \/ SaveSet(g) \/ AskServer(g)
    PROVE  SaveTypeOK'
  <1> USE DEF SaveTypeOK
  <1>1. Empty \in Payloads(made', signed') /\ Create \in made'
    BY DEF Grown, Empty, Payloads
  <1>2. UNCHANGED <<disk, acked>>
    BY DEF SaveInit, SaveClear, SaveSet, AskServer, past
  <1>3. FilesOk' /\ SecretsOk'
    BY <1>2, FilesStillOk DEF disk, SecretsOk
  <1>4. ASSUME SaveInit(g) \/ SaveClear(g) PROVE GamesOk'
    BY <1>1, <1>4, ReturnOk DEF SaveInit, SaveClear
  <1>5. ASSUME SaveSet(g) PROVE GamesOk'
    <2>1. CASE Stop(g)
      BY <2>1, StopOk
    <2>2. CASE ~Stop(g)
      <3>1. PICK tx \in Transactions :
              /\ Return(g, [buf[g] EXCEPT !.book = Post(buf[g].book, tx.id, tx.postings)])
              /\ made' = made \cup {Post(buf[g].book, tx.id, tx.postings)}
        BY <1>5, <2>2 DEF SaveSet
      <3>2. [buf[g] EXCEPT !.book = Post(buf[g].book, tx.id, tx.postings)] \in Payloads(made', signed')
        BY <3>1 DEF GamesOk, Payloads, Grown
      <3> QED BY <3>1, <3>2, ReturnOk
    <2> QED BY <2>1, <2>2
  <1>6. ASSUME AskServer(g) PROVE GamesOk'
    <2>1. CASE Stop(g)
      BY <2>1, StopOk
    <2>2. CASE ~Stop(g)
      <3>1. /\ In(g, "commit signed")
            /\ signed' = signed \cup {buf[g]} /\ signature' = [signature EXCEPT ![g] = buf[g]]
            /\ Goto(g, "signed") /\ UNCHANGED <<call, key, buf, made, sealed>>
        BY <1>6, <2>2 DEF AskServer
      <3>2. \A h \in Games : CallOk(h)'
        BY <3>1 DEF GamesOk, CallOk, Goto, In, FileOf, Labels
      <3>3. signature' \in [Games -> signed' \cup {None}]
        BY <3>1 DEF GamesOk
      <3>4. buf' \in [Games -> Payloads(made', signed')]
        BY <3>1 DEF GamesOk, Payloads
      <3> QED BY <3>1, <3>2, <3>3, <3>4 DEF GamesOk, Goto, Labels
    <2> QED BY <2>1, <2>2
  <1> QED BY <1>1, <1>3, <1>4, <1>5, <1>6

LEMMA CommitSteps ==
    ASSUME SaveTypeOK, Grown, NEW g \in Games, OpenSave(g) \/ WriteSave(g) \/ PlaceSave(g)
    PROVE  SaveTypeOK'
  <1> USE DEF SaveTypeOK
  <1>1. Create \in made'
    BY DEF Grown
  <1>2. FileOf(g) \in Files
    BY FileOfOk DEF OpenSave, WriteSave, PlaceSave, In, At, SlotOps
  <1>3. SecretsOk'
    BY DEF OpenSave, WriteSave, PlaceSave, SecretsOk, disk
  <1>4. \A f \in Files : FileOk(saves[f], made', signed', sealed') /\ FileOk(tmps[f], made', signed', sealed')
    BY StillOk DEF FilesOk, Grown
  <1>5. ASSUME OpenSave(g) PROVE GamesOk' /\ FilesOk'
    <2>1. CASE Stop(g)
      <3>1. CASE ~HasRoom(call[g].slot)
        BY <1>5, <2>1, <3>1, StopOk, FilesStillOk DEF OpenSave
      <3>2. CASE HasRoom(call[g].slot)
        BY <1>5, <2>1, <3>2 DEF OpenSave, Goto, Stop, GamesOk
      <3> QED BY <3>1, <3>2
    <2>2. CASE ~Stop(g)
      <3>1. /\ In(g, "commit") \/ At(g, "signed")
            /\ tmps' = [tmps EXCEPT ![FileOf(g)] = Opened(@, g)]
            /\ sealed' = sealed \cup {<<call[g].slot, buf[g].book>>}
            /\ Goto(g, "write") /\ UNCHANGED <<call, key, buf, signature, saves, acked, made, signed>>
        BY <1>5, <2>2 DEF OpenSave
      <3>2. \A h \in Games : CallOk(h)'
        BY <3>1 DEF GamesOk, CallOk, Goto, In, At, FileOf, Labels
      <3>3. GamesOk'
        BY <3>1, <3>2 DEF GamesOk, Goto, Labels
      <3>4. FilesOk'
        BY <1>2, <1>4, <3>1, OpenedOk DEF FilesOk
      <3> QED BY <3>3, <3>4
    <2> QED BY <2>1, <2>2
  <1>6. ASSUME WriteSave(g) PROVE GamesOk' /\ FilesOk'
    <2>1. PICK t \in Written(tmps[FileOf(g)], g, Blob(g)), s \in Written(saves[FileOf(g)], g, Blob(g)) :
            /\ tmps' = [tmps EXCEPT ![FileOf(g)] = t]
            /\ saves' = [saves EXCEPT ![FileOf(g)] = s]
      BY <1>6 DEF WriteSave
    <2>2. At(g, "write") /\ Goto(g, "place") /\ UNCHANGED <<call, key, buf, signature, acked, made, signed, sealed>>
      BY <1>6 DEF WriteSave, past
    <2>3. FileOk(t, made, signed, sealed) /\ FileOk(s, made, signed, sealed)
      BY <1>2, <2>2, BlobOk, WrittenOk DEF FilesOk
    <2>4. FilesOk'
      BY <1>2, <2>1, <2>2, <2>3 DEF FilesOk
    <2>5. \A h \in Games : CallOk(h)'
      BY <2>2 DEF GamesOk, CallOk, Goto, At, FileOf, Labels
    <2>6. GamesOk'
      BY <2>2, <2>5 DEF GamesOk, Goto, Labels
    <2> QED BY <2>4, <2>6
  <1>7. ASSUME PlaceSave(g) PROVE GamesOk' /\ FilesOk'
    <2>1. CASE tmps[FileOf(g)] = None
      BY <1>7, <2>1, StopOk, FilesStillOk DEF PlaceSave, disk
    <2>2. CASE tmps[FileOf(g)] # None
      <3>1. /\ saves' = [saves EXCEPT ![FileOf(g)] = tmps[FileOf(g)]]
            /\ tmps' = [tmps EXCEPT ![FileOf(g)] = None]
            /\ acked' = [acked EXCEPT ![FileOf(g)] = Blob(g)]
            /\ Return(g, buf[g])
        BY <1>7, <2>2 DEF PlaceSave
      <3>2. FilesOk'
        BY <1>2, <1>4, <3>1 DEF FilesOk, FileOk
      <3>3. buf[g] \in Payloads(made', signed')
        BY DEF GamesOk, Payloads, Grown
      <3> QED BY <3>1, <3>2, <3>3, ReturnOk
    <2> QED BY <2>1, <2>2
  <1> QED BY <1>1, <1>3, <1>5, <1>6, <1>7

LEMMA LoadSteps ==
    ASSUME SaveTypeOK, Grown, NEW g \in Games, SaveLoad(g) \/ SaveLoadSigned(g) \/ SaveDelete(g)
    PROVE  SaveTypeOK'
  <1> USE DEF SaveTypeOK
  <1>1. Create \in made'
    BY DEF Grown
  <1>2. FileOf(g) \in Files
    BY FileOfOk DEF SaveLoad, SaveLoadSigned, SaveDelete, In, SlotOps
  <1>3. SecretsOk'
    BY DEF SaveLoad, SaveLoadSigned, SaveDelete, SecretsOk, disk
  <1>4. buf[g] \in Payloads(made', signed')
    BY DEF GamesOk, Payloads, Grown
  <1>5. ASSUME saves[FileOf(g)] # None, Opens(saves[FileOf(g)], key[g], call[g].slot)
        PROVE  /\ Object(saves[FileOf(g)].text) \in Payloads(made', signed')
               /\ Unsigned(Object(saves[FileOf(g)].text)) \in Payloads(made', signed')
    <2>1. Committed(saves[FileOf(g)].text, made, signed, sealed)
      BY <1>2, <1>5 DEF FilesOk, FileOk, Opens
    <2> QED BY <2>1, ObjectOk DEF Payloads, Grown
  <1>6. ASSUME SaveLoad(g) PROVE GamesOk' /\ FilesOk'
    <2>1. FilesOk'
      BY <1>6, FilesStillOk DEF SaveLoad, disk, past
    <2>2. GamesOk'
      BY <1>4, <1>5, <1>6, ReturnOk, StopOk DEF SaveLoad
    <2> QED BY <2>1, <2>2
  <1>7. ASSUME SaveLoadSigned(g) PROVE GamesOk' /\ FilesOk'
    <2>1. FilesOk'
      BY <1>7, FilesStillOk DEF SaveLoadSigned, disk, past
    <2>2. GamesOk'
      BY <1>4, <1>5, <1>7, ReturnOk, StopOk DEF SaveLoadSigned
    <2> QED BY <2>1, <2>2
  <1>8. ASSUME SaveDelete(g) PROVE GamesOk' /\ FilesOk'
    <2>1. FilesOk'
      BY <1>8 DEF SaveDelete, FilesOk, FileOk
    <2>2. GamesOk'
      BY <1>4, <1>8, ReturnOk DEF SaveDelete
    <2> QED BY <2>1, <2>2
  <1> QED BY <1>1, <1>3, <1>6, <1>7, <1>8


LEMMA OtherSteps ==
    ASSUME SaveTypeOK, EditsShow, Grown,
           Edit \/ \E g \in Games : Store(g) \/ Restore(g) \/ Crash(g)
    PROVE  SaveTypeOK'
  <1> USE DEF SaveTypeOK
  <1>1. Create \in made' /\ Empty \in Payloads(made', signed')
    BY DEF Grown, Empty, Payloads
  <1>2. ASSUME Edit PROVE SaveTypeOK'
    <2>1. GamesOk' /\ FilesOk' /\ SecretsOk'
      BY <1>2, GamesStillOk, FilesStillOk DEF Edit, game, past, SecretsOk
    <2> QED BY <1>1, <2>1
  <1>3. ASSUME NEW g \in Games, Store(g) PROVE SaveTypeOK'
    <2>1. GamesOk' /\ FilesOk' /\ SecretsOk'
      BY <1>3, GamesStillOk, FilesStillOk DEF Store, past, SecretsOk
    <2> QED BY <1>1, <2>1
  <1>4. ASSUME NEW g \in Games, Restore(g) PROVE SaveTypeOK'
    <2>1. FilesOk' /\ SecretsOk'
      BY <1>4, FilesStillOk DEF Restore, past, disk, SecretsOk
    <2>2. UNCHANGED <<call, key, signature, made, signed, sealed>> /\ At(g, "idle")
      BY <1>4 DEF Restore, Calls, past
    <2>3. buf' \in [Games -> Payloads(made', signed')]
      <3>1. CASE Verify(plain)
        <4>1. [buf[g] EXCEPT !.book = plain] \in Payloads(made', signed')
          BY <1>4, <2>2, <3>1 DEF Restore, EditsShow, GamesOk, Payloads
        <4> QED BY <1>4, <2>2, <3>1, <4>1 DEF Restore, GamesOk
      <3>2. CASE ~Verify(plain)
        BY <1>1, <1>4, <2>2, <3>2 DEF Restore, GamesOk
      <3> QED BY <3>1, <3>2
    <2>4. \A h \in Games : CallOk(h)'
      BY <1>4, <2>2 DEF Restore, GamesOk, CallOk, At, Goto, FileOf, Labels
    <2>5. GamesOk'
      BY <1>4, <2>2, <2>3, <2>4 DEF Restore, GamesOk, Goto, Labels
    <2> QED BY <1>1, <2>1, <2>5
  <1>5. ASSUME NEW g \in Games, Crash(g) PROVE SaveTypeOK'
    <2>1. GamesOk'
      BY <1>5, StopOk DEF Crash
    <2>2. SecretsOk'
      BY <1>5, ClosedOk DEF Crash, SecretsOk
    <2>3. FilesOk'
      BY <1>5, ClosedOk DEF Crash, FilesOk, past
    <2> QED BY <1>1, <2>1, <2>2, <2>3
  <1> QED BY <1>2, <1>3, <1>4, <1>5

LEMMA TypesStep ==
    ASSUME SaveTypeOK, EditsShow, [Next]_vars
    PROVE  SaveTypeOK'
  <1>1. CASE UNCHANGED vars
    BY <1>1 DEF vars, disk, game, past, SaveTypeOK, GamesOk, SecretsOk, FilesOk, CallOk, FileOf
  <1>2. CASE Next
    BY <1>2, PastGrows, SecretSteps, BufferSteps, CommitSteps, LoadSteps, OtherSteps DEF Next
  <1> QED BY <1>1, <1>2

-----------------------------------------------------------------------------
(* The hash chain.  The head of a book the ledger made is the head of no   *)
(* other book that can be verified: it is the value of the last entry,     *)
(* which has in it the head of the book before.                            *)

IsEntry(e) == e = [id |-> e.id, postings |-> e.postings, previous |-> e.previous, hash |-> e.hash]

IsBook(book) ==
    /\ book = [entries |-> book.entries, head |-> book.head]
    /\ book.entries \in Seq({book.entries[i] : i \in DOMAIN book.entries})
    /\ \A i \in DOMAIN book.entries : IsEntry(book.entries[i])

Unforgeable(book) == \A other : IsBook(other) /\ Verify(other) /\ other.head = book.head => other = book

(* The entries of a book are the first ones of another.                    *)
Starts(book, other) ==
    /\ Len(book.entries) <= Len(other.entries)
    /\ \A i \in 1 .. Len(book.entries) : book.entries[i] = other.entries[i]

LEMMA StartsItself ==
    ASSUME NEW book, IsBook(book)
    PROVE  Starts(book, book) /\ Starts(Create, book)
  <1>1. Len(book.entries) \in Nat
    BY DEF IsBook
  <1> QED BY <1>1 DEF Starts, Create

LEMMA StartsLonger ==
    ASSUME NEW a, NEW b, NEW c, IsBook(a), IsBook(b), IsBook(c), Starts(a, b), Starts(b, c)
    PROVE  Starts(a, c)
  <1>1. Len(a.entries) \in Nat /\ Len(b.entries) \in Nat /\ Len(c.entries) \in Nat
    BY DEF IsBook
  <1> QED BY <1>1 DEF Starts

LEMMA StartsIsPrefix ==
    ASSUME NEW a, NEW b, IsBook(a), IsBook(b), Starts(a, b)
    PROVE  IsPrefix(a.entries, b.entries)
  <1>1. PICK S, T : a.entries \in Seq(S) /\ b.entries \in Seq(T)
    BY DEF IsBook
  <1>2. PICK n \in Nat : n = Len(a.entries) /\ n <= Len(b.entries) /\ \A i \in 1 .. n : a.entries[i] = b.entries[i]
    BY <1>1 DEF Starts
  <1>3. SubSeq(a.entries, 1, n) \in Seq(S) /\ Len(SubSeq(a.entries, 1, n)) = n
        /\ \A i \in 1 .. n : SubSeq(a.entries, 1, n)[i] = a.entries[i]
    BY <1>1, <1>2
  <1>4. SubSeq(b.entries, 1, n) \in Seq(T) /\ Len(SubSeq(b.entries, 1, n)) = n
        /\ \A i \in 1 .. n : SubSeq(b.entries, 1, n)[i] = b.entries[i]
    BY <1>1, <1>2
  <1>5. SubSeq(a.entries, 1, n) = SubSeq(b.entries, 1, n)
    BY <1>2, <1>3, <1>4
  <1> QED BY <1>2, <1>5 DEF IsPrefix

LEMMA HashIsNotGenesis == \A e : HashOf(e) # Genesis
  BY DEF HashOf, Genesis

LEMMA LongerByOne ==
    ASSUME NEW S, NEW s \in Seq(S), NEW e
    PROVE  /\ Append(s, e) \in Seq(S \cup {e}) /\ Len(Append(s, e)) = Len(s) + 1
           /\ \A i \in 1 .. Len(s) : Append(s, e)[i] = s[i]
           /\ Append(s, e)[Len(s) + 1] = e
  OBVIOUS

LEMMA OwnElements == ASSUME NEW S, NEW s \in Seq(S) PROVE s \in Seq({s[i] : i \in DOMAIN s})
  OBVIOUS

LEMMA LastApart ==
    ASSUME NEW S, NEW s \in Seq(S), Len(s) # 0
    PROVE  s = Append(SubSeq(s, 1, Len(s) - 1), s[Len(s)])
  OBVIOUS

LEMMA CreateIsBook == IsBook(Create) /\ Unforgeable(Create)
  <1>1. IsBook(Create)
    BY DEF IsBook, Create
  <1>2. ASSUME NEW other, IsBook(other), Verify(other), other.head = Create.head
        PROVE  other = Create
    <2>1. other.entries \in Seq({other.entries[i] : i \in DOMAIN other.entries}) /\ Len(other.entries) \in Nat
      BY <1>2 DEF IsBook
    <2>2. Len(other.entries) = 0
      <3>1. SUFFICES ASSUME Len(other.entries) # 0 PROVE FALSE
        OBVIOUS
      <3>2. other.head = HashOf(other.entries[Len(other.entries)])
        BY <1>2, <2>1, <3>1 DEF Verify
      <3> QED BY <1>2, <3>2, HashIsNotGenesis DEF Create
    <2>3. other.entries = <<>>
      BY <2>1, <2>2
    <2> QED BY <1>2, <2>3 DEF IsBook, Create
  <1> QED BY <1>1, <1>2 DEF Unforgeable

LEMMA PostIsBook ==
    ASSUME NEW book, IsBook(book), NEW id, NEW postings
    PROVE  LET after == Post(book, id, postings) IN
           /\ IsBook(after) /\ Starts(book, after)
           /\ \A i \in DOMAIN after.entries :
                 after.entries[i].hash = after.head \/ \E k \in DOMAIN book.entries : after.entries[i] = book.entries[k]
  <1> DEFINE after == Post(book, id, postings)
             entry == [id |-> id, postings |-> Normalized(postings), previous |-> book.head, hash |-> after.head]
  <1>1. after = [entries |-> Append(book.entries, entry), head |-> after.head]
    BY DEF Post
  <1>2. IsEntry(entry)
    BY DEF IsEntry
  <1> HIDE DEF after, entry
  <1>3. PICK S : book.entries \in Seq(S) /\ S = {book.entries[i] : i \in DOMAIN book.entries}
    BY DEF IsBook
  <1>4. /\ after.entries = Append(book.entries, entry)
        /\ after.entries \in Seq(S \cup {entry}) /\ Len(after.entries) = Len(book.entries) + 1
    <2>1. after.entries = Append(book.entries, entry)
      BY <1>1
    <2> QED BY <1>3, <2>1, LongerByOne
  <1>5. \A i \in DOMAIN after.entries :
           \/ i \in DOMAIN book.entries /\ after.entries[i] = book.entries[i]
           \/ i = Len(after.entries) /\ after.entries[i] = entry
    BY <1>3, <1>4, LongerByOne
  <1>6. after.entries \in Seq({after.entries[i] : i \in DOMAIN after.entries})
    BY <1>4
  <1>7. IsBook(after)
    BY <1>1, <1>2, <1>5, <1>6 DEF IsBook
  <1>8. entry.hash = after.head
    BY DEF entry
  <1>9. Starts(book, after)
    <2>1. Len(book.entries) \in Nat
      BY <1>3
    <2> QED BY <1>3, <1>4, <2>1, LongerByOne DEF Starts
  <1> QED BY <1>5, <1>7, <1>8, <1>9 DEF after

LEMMA PostUnforgeable ==
    ASSUME NEW book, IsBook(book), Unforgeable(book), NEW id, NEW postings
    PROVE  Unforgeable(Post(book, id, postings))
  <1> DEFINE after == Post(book, id, postings)
             entry == [id |-> id, postings |-> Normalized(postings), previous |-> book.head, hash |-> after.head]
  <1>1. after = [entries |-> Append(book.entries, entry), head |-> HashOf(entry)] /\ entry.hash = HashOf(entry)
    BY DEF Post, HashOf
  <1>2. SUFFICES ASSUME NEW other, IsBook(other), Verify(other), other.head = HashOf(entry)
                 PROVE  other = [entries |-> Append(book.entries, entry), head |-> HashOf(entry)]
    BY <1>1 DEF Unforgeable
  <1>a. IsEntry(entry)
    BY DEF IsEntry
  <1> HIDE DEF after, entry
  <1> DEFINE es == other.entries
             n == Len(es)
             before == [entries |-> SubSeq(es, 1, n - 1), head |-> es[n].previous]
  <1>3. PICK S : es \in Seq(S) /\ S = {es[i] : i \in DOMAIN es}
    BY <1>2 DEF IsBook
  <1>4. n \in Nat /\ DOMAIN es = 1 .. n
    BY <1>3
  <1>5. n # 0
    BY <1>2, <1>4, HashIsNotGenesis DEF Verify
  <1>6. other.head = HashOf(es[n]) /\ es[n].hash = HashOf(es[n])
    BY <1>2, <1>4, <1>5 DEF Verify
  <1>7. es[n] = entry
    <2>1. es[n].previous = entry.previous /\ es[n].id = entry.id /\ es[n].postings = entry.postings
      BY <1>2, <1>6 DEF HashOf
    <2>2. es[n].hash = entry.hash
      BY <1>1, <1>2, <1>6
    <2>3. IsEntry(es[n])
      BY <1>2, <1>4, <1>5 DEF IsBook
    <2> QED BY <1>a, <2>1, <2>2, <2>3 DEF IsEntry
  <1>8. before.entries \in Seq(S) /\ DOMAIN before.entries = 1 .. n - 1 /\ Len(before.entries) = n - 1
        /\ \A i \in 1 .. n - 1 : before.entries[i] = es[i]
    BY <1>3, <1>4, <1>5
  <1>9. IsBook(before)
    <2>1. \A i \in DOMAIN before.entries : IsEntry(before.entries[i])
      BY <1>2, <1>4, <1>8 DEF IsBook
    <2>2. before.entries \in Seq({before.entries[i] : i \in DOMAIN before.entries})
      <3>1. PICK T : before.entries \in Seq(T)
        BY <1>8
      <3> HIDE DEF before
      <3> QED BY <3>1, OwnElements
    <2> QED BY <2>1, <2>2 DEF IsBook
  <1>10. Verify(before)
    <2>1. \A i \in 1 .. n :
             /\ \A j \in 1 .. i - 1 : es[j].id # es[i].id
             /\ es[i].previous = IF i = 1 THEN Genesis ELSE HashOf(es[i - 1])
             /\ Total(es[i].postings) = 0
             /\ es[i].hash = HashOf(es[i])
      BY <1>2, <1>4 DEF Verify
    <2>2. before.head = IF n = 1 THEN Genesis ELSE HashOf(es[n - 1])
      <3>1. before.head = es[n].previous /\ n \in 1 .. n
        BY <1>4, <1>5
      <3> QED BY <2>1, <3>1
    <2>3. \A i \in DOMAIN before.entries :
             /\ \A j \in 1 .. i - 1 : before.entries[j].id # before.entries[i].id
             /\ before.entries[i].previous = IF i = 1 THEN Genesis ELSE HashOf(before.entries[i - 1])
             /\ Total(before.entries[i].postings) = 0
             /\ before.entries[i].hash = HashOf(before.entries[i])
      <3> SUFFICES ASSUME NEW i \in 1 .. n - 1
                   PROVE  /\ \A j \in 1 .. i - 1 : before.entries[j].id # before.entries[i].id
                          /\ before.entries[i].previous = IF i = 1 THEN Genesis ELSE HashOf(before.entries[i - 1])
                          /\ Total(before.entries[i].postings) = 0
                          /\ before.entries[i].hash = HashOf(before.entries[i])
        BY <1>8
      <3>1. i \in 1 .. n /\ before.entries[i] = es[i] /\ \A j \in 1 .. i - 1 : before.entries[j] = es[j]
        BY <1>4, <1>8
      <3>2. i # 1 => before.entries[i - 1] = es[i - 1]
        BY <1>4, <1>8
      <3> QED BY <2>1, <3>1, <3>2
    <2>4. before.head = IF n = 1 THEN Genesis ELSE HashOf(before.entries[n - 1])
      <3>1. CASE n = 1
        BY <2>2, <3>1
      <3>2. CASE n # 1
        <4>1. n - 1 \in 1 .. n - 1
          <5>1. n \in Nat /\ n # 0 /\ n # 1
            BY <1>4, <1>5, <3>2
          <5> HIDE DEF n
          <5> QED BY <5>1
        <4>2. before.entries[n - 1] = es[n - 1]
          BY <1>8, <4>1
        <4> HIDE DEF before
        <4> QED BY <2>2, <3>2, <4>2
      <3> QED BY <3>1, <3>2
    <2> HIDE DEF before
    <2> QED BY <1>4, <1>5, <1>8, <2>3, <2>4 DEF Verify
  <1>11. before.head = book.head
    BY <1>7 DEF entry
  <1>12. before = book
    BY <1>9, <1>10, <1>11 DEF Unforgeable
  <1>13. es = Append(book.entries, entry)
    <2>1. es = Append(SubSeq(es, 1, n - 1), es[n])
      BY <1>3, <1>5, LastApart
    <2> QED BY <1>7, <1>12, <2>1
  <1> QED BY <1>2, <1>13 DEF IsBook


-----------------------------------------------------------------------------
(* Where the hashes of the plain book are from: edits make none, so that   *)
(* each is the head of a book made on the way to the one stored.           *)

HeadsOf(book) == {b.head : b \in {c \in made : Starts(c, book)}}

Traced(book, heads) == book.head \in heads /\ \A i \in DOMAIN book.entries : book.entries[i].hash \in heads

ChainInv ==
    /\ Create \in made /\ stored \in made
    /\ \A book \in made : IsBook(book) /\ Unforgeable(book) /\ Traced(book, HeadsOf(book))
    /\ plain # None => IsBook(plain) /\ Traced(plain, HeadsOf(stored))

LEMMA ChainShows == ChainInv => EditsShow /\ EditsOnlyShorten
  <1> SUFFICES ASSUME ChainInv, plain # None, Verify(plain) PROVE plain \in made /\ IsPrefix(plain.entries, stored.entries)
    BY DEF EditsShow, EditsOnlyShorten
  <1>1. PICK book \in made : Starts(book, stored) /\ book.head = plain.head
    BY DEF ChainInv, Traced, HeadsOf
  <1>2. plain = book
    BY <1>1 DEF ChainInv, Unforgeable
  <1> QED BY <1>1, <1>2, StartsIsPrefix DEF ChainInv

LEMMA ChainInit == Init => ChainInv
  <1> SUFFICES ASSUME Init PROVE ChainInv
    OBVIOUS
  <1>1. made = {Create} /\ plain = None /\ stored = Create
    BY DEF Init
  <1>2. Create.head \in HeadsOf(Create) /\ DOMAIN Create.entries = {}
    <2>1. DOMAIN Create.entries = {}
      BY DEF Create
    <2> QED BY <1>1, <2>1, CreateIsBook, StartsItself DEF HeadsOf
  <1>3. \A book \in made : IsBook(book) /\ Unforgeable(book) /\ Traced(book, HeadsOf(book))
    BY <1>1, <1>2, CreateIsBook DEF Traced
  <1> QED BY <1>1, <1>3 DEF ChainInv

LEMMA EditTraced ==
    ASSUME NEW book, IsBook(book), NEW heads, Traced(book, heads), Genesis \in heads, NEW edit \in Edited(book)
    PROVE  IsBook(edit) /\ Traced(edit, heads)
  <1> DEFINE es == book.entries
  <1>1. PICK S : es \in Seq(S) /\ S = {es[i] : i \in DOMAIN es}
    BY DEF IsBook
  <1>2. PICK b, h : /\ edit = [entries |-> b, head |-> h]
                    /\ h \in {book.head, Genesis} \cup {e.hash : e \in ToSet(es)}
                    /\ \/ \E i \in DOMAIN es : \/ b = [es EXCEPT ![i].id = None]
                                               \/ b = [es EXCEPT ![i] = Negated(@)]
                                               \/ b = RemoveAt(es, i)
                       \/ b = Reverse(es)
    <2>1. PICK b \in EditedEntries(es), h \in HeadsToTry(book) : edit = [entries |-> b, head |-> h]
      BY DEF Edited
    <2>2. \/ \E i \in DOMAIN es : \/ b = [es EXCEPT ![i].id = None]
                                   \/ b = [es EXCEPT ![i] = Negated(@)]
                                   \/ b = RemoveAt(es, i)
          \/ b = Reverse(es)
      BY <2>1 DEF EditedEntries
    <2> QED BY <2>1, <2>2 DEF HeadsToTry
  <1>3. h \in heads
    BY <1>2 DEF Traced, ToSet
  <1>4. \A e \in S : IsEntry(e) /\ e.hash \in heads
    BY <1>1 DEF IsBook, Traced
  <1>5. SUFFICES \E T : b \in Seq(T) /\ \A e \in T : IsEntry(e) /\ e.hash \in heads
    <2>1. PICK T : b \in Seq(T) /\ \A e \in T : IsEntry(e) /\ e.hash \in heads
      BY <1>5
    <2>2. \A i \in DOMAIN b : b[i] \in T
      BY <2>1
    <2>3. b \in Seq({b[i] : i \in DOMAIN b})
      BY <2>1, OwnElements
    <2> QED BY <1>2, <1>3, <2>1, <2>2, <2>3 DEF IsBook, Traced
  <1>6. ASSUME NEW i \in DOMAIN es, NEW e, IsEntry(e), e.hash \in heads, b = [es EXCEPT ![i] = e]
        PROVE  \E T : b \in Seq(T) /\ \A x \in T : IsEntry(x) /\ x.hash \in heads
    <2>1. b \in Seq(S \cup {e})
      BY <1>1, <1>6
    <2> QED BY <1>4, <1>6, <2>1
  <1>7. CASE \E i \in DOMAIN es : b = [es EXCEPT ![i].id = None]
    <2>1. PICK i \in DOMAIN es : b = [es EXCEPT ![i] = [es[i] EXCEPT !.id = None]]
      BY <1>7
    <2>2. es[i] \in S
      BY <1>1
    <2>3. IsEntry([es[i] EXCEPT !.id = None]) /\ [es[i] EXCEPT !.id = None].hash = es[i].hash
      BY <1>4, <2>2 DEF IsEntry
    <2> QED BY <1>4, <1>6, <2>1, <2>2, <2>3
  <1>8. CASE \E i \in DOMAIN es : b = [es EXCEPT ![i] = Negated(@)]
    <2>1. PICK i \in DOMAIN es : b = [es EXCEPT ![i] = Negated(es[i])]
      BY <1>8
    <2>2. es[i] \in S
      BY <1>1
    <2>3. PICK p : Negated(es[i]) = [es[i] EXCEPT !.postings = p]
      BY DEF Negated
    <2>4. IsEntry([es[i] EXCEPT !.postings = p]) /\ [es[i] EXCEPT !.postings = p].hash = es[i].hash
      BY <1>4, <2>2 DEF IsEntry
    <2> QED BY <1>4, <1>6, <2>1, <2>2, <2>3, <2>4
  <1>9. CASE \E i \in DOMAIN es : b = RemoveAt(es, i)
    <2>1. PICK i \in DOMAIN es : b = SubSeq(es, 1, i - 1) \o SubSeq(es, i + 1, Len(es))
      BY <1>9 DEF RemoveAt
    <2>2. SubSeq(es, 1, i - 1) \in Seq(S) /\ SubSeq(es, i + 1, Len(es)) \in Seq(S)
      BY <1>1
    <2>3. b \in Seq(S)
      BY <2>1, <2>2
    <2> QED BY <1>4, <2>3
  <1>10. CASE b = Reverse(es)
    <2>1. b \in Seq(S)
      BY <1>1, <1>10 DEF Reverse
    <2> QED BY <1>4, <2>1
  <1> QED BY <1>2, <1>7, <1>8, <1>9, <1>10

LEMMA ChainStep ==
    ASSUME SaveTypeOK, ChainInv, [Next]_vars
    PROVE  ChainInv'
  <1>1. CASE UNCHANGED <<made, plain, stored>>
    BY <1>1 DEF ChainInv, HeadsOf
  <1>2. ASSUME NEW g \in Games, SaveSet(g), made' # made PROVE ChainInv'
    <2>1. PICK tx \in Transactions : made' = made \cup {Post(buf[g].book, tx.id, tx.postings)}
      BY <1>2 DEF SaveSet
    <2>2. plain' = plain /\ stored' = stored
      BY <1>2 DEF SaveSet, disk
    <2>3. PICK book \in made : book = buf[g].book
      BY DEF SaveTypeOK, GamesOk, Payloads
    <2>4. PICK after : after = Post(book, tx.id, tx.postings)
      OBVIOUS
    <2>5. IsBook(book) /\ Unforgeable(book) /\ Traced(book, HeadsOf(book))
      BY DEF ChainInv
    <2>6. IsBook(after) /\ Unforgeable(after) /\ Starts(book, after)
          /\ \A i \in DOMAIN after.entries :
                after.entries[i].hash = after.head \/ \E k \in DOMAIN book.entries : after.entries[i] = book.entries[k]
      BY <2>4, <2>5, PostIsBook, PostUnforgeable
    <2>7. made' = made \cup {after}
      BY <2>1, <2>3, <2>4
    <2>8. after.head \in HeadsOf(after)'
      BY <2>6, <2>7, StartsItself DEF HeadsOf
    <2>9. HeadsOf(book) \subseteq HeadsOf(after)'
      <3> SUFFICES ASSUME NEW b \in made, Starts(b, book) PROVE b.head \in HeadsOf(after)'
        BY DEF HeadsOf
      <3>1. Starts(b, after)
        BY <2>5, <2>6, StartsLonger DEF ChainInv
      <3> QED BY <2>7, <3>1 DEF HeadsOf
    <2>10. Traced(after, HeadsOf(after)')
      BY <2>5, <2>6, <2>8, <2>9 DEF Traced
    <2>11. \A other : HeadsOf(other) \subseteq HeadsOf(other)'
      BY <2>7 DEF HeadsOf
    <2>12. \A other : Traced(other, HeadsOf(other)) => Traced(other, HeadsOf(other)')
      BY <2>11 DEF Traced
    <2>13. plain' # None => IsBook(plain') /\ Traced(plain', HeadsOf(stored)')
      <3>1. PICK last : last = stored
        OBVIOUS
      <3>2. plain # None => IsBook(plain) /\ Traced(plain, HeadsOf(last)')
        BY <2>11, <3>1 DEF ChainInv, Traced
      <3>3. HeadsOf(stored)' = HeadsOf(last)'
        BY <2>2, <3>1 DEF HeadsOf
      <3> QED BY <2>2, <3>2, <3>3
    <2>14. \A other \in made' : IsBook(other) /\ Unforgeable(other) /\ Traced(other, HeadsOf(other)')
      BY <2>6, <2>7, <2>10, <2>12 DEF ChainInv
    <2> QED BY <2>2, <2>7, <2>13, <2>14 DEF ChainInv, Traced
  <1>3. ASSUME NEW g \in Games, Store(g) PROVE ChainInv'
    <2>1. plain' = buf[g].book /\ stored' = buf[g].book /\ made' = made
      BY <1>3 DEF Store
    <2>2. buf[g].book \in made
      BY DEF SaveTypeOK, GamesOk, Payloads
    <2> QED BY <2>1, <2>2 DEF ChainInv, HeadsOf
  <1>4. ASSUME Edit PROVE ChainInv'
    <2>1. plain # None /\ plain' \in Edited(plain) /\ made' = made /\ stored' = stored
      BY <1>4 DEF Edit, past
    <2>2. Starts(Create, stored)
      BY StartsItself DEF ChainInv
    <2>3. Genesis \in HeadsOf(stored)
      BY <2>2 DEF ChainInv, HeadsOf, Create
    <2>4. IsBook(plain') /\ Traced(plain', HeadsOf(stored))
      BY <2>1, <2>3, EditTraced DEF ChainInv
    <2> QED BY <2>1, <2>4 DEF ChainInv, HeadsOf
  <1>5. CASE UNCHANGED vars
    BY <1>1, <1>5 DEF vars, disk, past
  <1>6. ASSUME NEW g \in Games,
               \/ Launch(g) \/ Enter(g) \/ OpenSecret(g) \/ WriteSecret(g) \/ PlaceSecret(g)
               \/ SaveInit(g) \/ SaveClear(g) \/ AskServer(g) \/ OpenSave(g) \/ WriteSave(g) \/ PlaceSave(g)
               \/ SaveLoad(g) \/ SaveLoadSigned(g) \/ SaveDelete(g) \/ Restore(g) \/ Crash(g)
        PROVE  UNCHANGED <<made, plain, stored>>
    BY <1>6 DEF Launch, Enter, Begin, OpenSecret, WriteSecret, PlaceSecret, SaveInit, SaveClear, AskServer, OpenSave,
                WriteSave, PlaceSave, SaveLoad, SaveLoadSigned, SaveDelete, Restore, Crash, past, disk
  <1>7. ASSUME NEW g \in Games, SaveSet(g), made' = made PROVE ChainInv'
    BY <1>1, <1>7 DEF SaveSet, disk
  <1> QED BY <1>1, <1>2, <1>3, <1>4, <1>5, <1>6, <1>7 DEF Next

(* Type correctness: books, payloads, signatures and files are what the    *)
(* steps of the games make them, whatever happens between two of them.     *)
THEOREM SaveTypes == Spec => []SaveTypeOK
  <1>1. Init => SaveTypeOK /\ ChainInv
    BY TypesInit, ChainInit
  <1>2. SaveTypeOK /\ ChainInv /\ [Next]_vars => (SaveTypeOK /\ ChainInv)'
    BY TypesStep, ChainStep, ChainShows
  <1> QED BY <1>1, <1>2, PTL DEF Spec

(* Whatever is edited in the plain book, as often as may be, without       *)
(* computing hashes: when it passes the check its entries are the first    *)
(* ones of the book stored.                                                *)
THEOREM OnlyTheEndIsCut == Spec => []EditsOnlyShorten
  <1>1. Init => SaveTypeOK /\ ChainInv
    BY TypesInit, ChainInit
  <1>2. SaveTypeOK /\ ChainInv /\ [Next]_vars => (SaveTypeOK /\ ChainInv)'
    BY TypesStep, ChainStep, ChainShows
  <1>3. ChainInv => EditsOnlyShorten
    BY ChainShows
  <1> QED BY <1>1, <1>2, <1>3, PTL DEF Spec

-----------------------------------------------------------------------------
(* Loads.                                                                  *)

(* A game that was to load and returned did just that.                     *)
LEMMA LoadsLoad ==
    ASSUME Next, NEW g \in Games, SaveTypeOK, Loads(g)
    PROVE  SaveLoad(g) \/ SaveLoadSigned(g)
  <1>1. pc[g] = "work" /\ call[g].op \in {"load", "load signed"} /\ pc'[g] = "idle" /\ pc \in [Games -> Labels]
    BY DEF Loads, SaveTypeOK, GamesOk
  <1>2. ~Edit
    BY <1>1 DEF Edit, game
  <1>3. PICK h \in Games :
          \/ Launch(h) \/ Enter(h) \/ OpenSecret(h) \/ WriteSecret(h) \/ PlaceSecret(h)
          \/ SaveInit(h) \/ SaveClear(h) \/ SaveSet(h)
          \/ AskServer(h) \/ OpenSave(h) \/ WriteSave(h) \/ PlaceSave(h)
          \/ SaveLoad(h) \/ SaveLoadSigned(h) \/ SaveDelete(h)
          \/ Store(h) \/ Restore(h) \/ Crash(h)
    BY <1>2 DEF Next
  <1>4. CASE h # g
    <2>1. \A l : Goto(h, l) => pc'[g] = pc[g]
      BY <1>1, <1>4 DEF Goto
    <2> QED BY <1>1, <1>3, <2>1 DEF Launch, Enter, Begin, OpenSecret, WriteSecret, PlaceSecret, SaveInit, SaveClear, SaveSet,
              AskServer, OpenSave, WriteSave, PlaceSave, SaveLoad, SaveLoadSigned, SaveDelete, Store, Restore, Crash,
              Stop, Return
  <1>5. CASE h = g
    <2>1. ~Stop(g)
      BY <1>1 DEF Stop, Goto
    <2> QED BY <1>1, <1>3, <1>5, <2>1 DEF Launch, Enter, Calls, OpenSecret, WriteSecret, PlaceSecret, SaveInit, SaveClear,
              SaveSet, AskServer, OpenSave, WriteSave, PlaceSave, SaveDelete, Store, Restore, Crash, At, In
  <1> QED BY <1>4, <1>5

(* Whatever happened to the file, a load that succeeds gives a book that   *)
(* was committed under that slot name; a signed load, what the server      *)
(* signed.                                                                 *)
THEOREM LoadsCommitted == Spec => LoadsAreCommits
  <1> DEFINE Right(g) == Loads(g) => /\ <<call[g].slot, buf'[g].book>> \in sealed
                                     /\ call[g].op = "load signed" => buf'[g] \in signed
  <1>1. ASSUME SaveTypeOK, Next, NEW g \in Games, Loads(g)
        PROVE  Right(g)
    <2> DEFINE file == saves[FileOf(g)]
               object == Object(file.text)
    <2>1. SaveLoad(g) \/ SaveLoadSigned(g)
      BY <1>1, LoadsLoad
    <2>2. file # None /\ pc \in [Games -> Labels] /\ pc'[g] = "idle" /\ call[g].op \in {"load", "load signed"}
      BY <1>1 DEF Loads, SaveTypeOK, GamesOk
    <2>3. ~Stop(g)
      BY <2>2 DEF Stop, Goto
    <2>4. Opens(file, key[g], call[g].slot)
      BY <2>1, <2>2, <2>3 DEF SaveLoad, SaveLoadSigned
    <2>5. FileOf(g) \in Files
      BY <1>1, <2>2, FileOfOk DEF SaveTypeOK, SlotOps
    <2>6. Committed(file.text, made, signed, sealed) /\ file.text.slot = call[g].slot
      BY <1>1, <2>2, <2>4, <2>5 DEF SaveTypeOK, FilesOk, FileOk, Opens
    <2>7. /\ object.book = file.text.data.book /\ Unsigned(object).book = file.text.data.book
          /\ object.mark \in signed \cup {None}
      BY <2>6, ObjectOk
    <2>8. <<call[g].slot, file.text.data.book>> \in sealed
      BY <2>6 DEF Committed
    <2>9. buf \in [Games -> Payloads(made, signed)]
      BY <1>1 DEF SaveTypeOK, GamesOk
    <2>10. CASE SaveLoad(g)
      <3>1. Return(g, object) /\ call[g].op = "load"
        BY <2>2, <2>3, <2>10 DEF SaveLoad, In
      <3>2. buf'[g] = object
        BY <2>9, <3>1 DEF Return
      <3> QED BY <2>7, <2>8, <3>1, <3>2
    <2>11. CASE SaveLoadSigned(g)
      <3>1. Return(g, Unsigned(object)) /\ Checks(object)
        BY <2>2, <2>3, <2>11 DEF SaveLoadSigned
      <3>2. buf'[g] = Unsigned(object)
        BY <2>9, <3>1 DEF Return
      <3>3. Unsigned(object) \in signed
        BY <2>7, <3>1 DEF Checks
      <3> QED BY <2>7, <2>8, <3>2, <3>3
    <2> QED BY <2>1, <2>10, <2>11
  <1>2. SaveTypeOK /\ [Next]_vars => [\A g \in Games : Right(g)]_vars
    BY <1>1
  <1>3. Spec => [][\A g \in Games : Right(g)]_vars
    BY <1>2, SaveTypes, PTL DEF Spec
  <1> QED BY <1>3 DEF LoadsAreCommits

-----------------------------------------------------------------------------
(* The limit of slots.                                                     *)

LEMMA FilesFinite == IsFiniteSet(Files)
  <1> DEFINE S == 1 .. Len(FileNames)
  <1>1. Len(FileNames) \in Nat /\ DOMAIN FileNames = S
    BY SaveAssumption
  <1>2. IsFiniteSet(S)
    BY <1>1, FS_Interval
  <1>3. FileNames \in [S -> Files] /\ \A f \in Files : \E i \in S : FileNames[i] = f
    BY <1>1, SaveAssumption DEF Files, ToSet
  <1>4. FileNames \in Surjection(S, Files)
    BY <1>3 DEF Surjection
  <1> QED BY <1>2, <1>4, FS_Surjection

LEMMA ImageSize ==
    ASSUME NEW S, IsFiniteSet(S), NEW f
    PROVE  /\ IsFiniteSet({f[x] : x \in S}) /\ Cardinality({f[x] : x \in S}) <= Cardinality(S)
  <1> DEFINE T == {f[x] : x \in S}
             m == [x \in S |-> f[x]]
  <1>1. m \in Surjection(S, T)
    BY DEF Surjection
  <1> QED BY <1>1, FS_Surjection

LEMMA LeastOne ==
    ASSUME NEW S \in SUBSET Nat, S # {}
    PROVE  \E k \in S : \A i \in S : k <= i
  <1> DEFINE R == {p \in Nat \X Nat : p[1] < p[2]}
  <1>1. IsWellFoundedOn(R, Nat)
    BY NatLessThanWellFounded DEF OpToRel
  <1>2. PICK k \in S : \A i \in S : <<i, k>> \notin R
    BY <1>1, WFMin
  <1>3. ASSUME NEW i \in S PROVE k <= i
    <2>1. ~(<<i, k>>[1] < <<i, k>>[2])
      BY <1>2
    <2> QED BY <2>1
  <1> QED BY <1>3

(* The first MaxSlots of the files are fewer only if there are no more.    *)
LEMMA FewListed ==
    ASSUME Cardinality(ListSlots) < MaxSlots
    PROVE  ListSlots = Existing
  <1>1. SUFFICES ASSUME NEW f \in Existing, f \notin ListSlots PROVE FALSE
    BY DEF ListSlots
  <1>2. FileNames \in Seq(Files) /\ DOMAIN FileNames \subseteq Nat
    BY SaveAssumption
  <1> DEFINE Left == {k \in DOMAIN FileNames : FileNames[k] \in Existing \ ListSlots}
  <1>3. Left \in SUBSET Nat /\ Left # {}
    BY <1>1, <1>2 DEF Existing, Files, ToSet
  <1>4. PICK k \in Left : \A i \in Left : k <= i
    BY <1>3, LeastOne
  <1>5. Before(FileNames[k]) \subseteq ListSlots
    <2>1. SUFFICES ASSUME NEW h \in Before(FileNames[k]) PROVE h \in ListSlots
      OBVIOUS
    <2>2. PICK i \in DOMAIN FileNames, l \in DOMAIN FileNames :
            i < l /\ FileNames[i] = h /\ FileNames[l] = FileNames[k] /\ h \in Existing
      BY <2>1 DEF Before
    <2>3. l = k
      BY <1>4, <2>2, SaveAssumption
    <2>4. i \notin Left
      BY <1>2, <1>4, <2>2, <2>3
    <2> QED BY <2>2, <2>4
  <1>6. IsFiniteSet(ListSlots)
    BY FilesFinite, FS_Subset DEF ListSlots, Existing
  <1>7. /\ Cardinality(Before(FileNames[k])) \in Nat /\ Cardinality(ListSlots) \in Nat
        /\ Cardinality(Before(FileNames[k])) <= Cardinality(ListSlots)
    BY <1>5, <1>6, FS_Subset, FS_CardinalityType
  <1>8. Cardinality(Before(FileNames[k])) < MaxSlots
    BY <1>7, SaveAssumption
  <1> QED BY <1>4, <1>8 DEF ListSlots

Saving == {g \in Games : pc[g] \in {"write", "place"}}

(* Files that are there, or that a commit under way will place.            *)
Held == Existing \cup {FileOf(g) : g \in Saving}

QuotaInv == Cardinality(Held) <= MaxSlots + Cardinality(Games) - 1


LEMMA HeldFinite == ASSUME SaveTypeOK PROVE Held \subseteq Files /\ IsFiniteSet(Held)
  <1>1. \A g \in Saving : FileOf(g) \in Files
    BY FileOfOk DEF SaveTypeOK, Saving
  <1> QED BY <1>1, FilesFinite, FS_Subset DEF Held, Existing

(* A step that adds neither a file nor a commit keeps within the limit.    *)
LEMMA NoMoreHeld ==
    ASSUME SaveTypeOK, QuotaInv, Existing' \subseteq Held, \A g \in Saving' : FileOf(g)' \in Held
    PROVE  QuotaInv'
  <1>1. Held' \subseteq Held
    BY DEF Held
  <1>2. Cardinality(Held') <= Cardinality(Held) /\ Cardinality(Held') \in Nat /\ Cardinality(Held) \in Nat
    BY <1>1, HeldFinite, FS_Subset, FS_CardinalityType
  <1>3. Cardinality(Games) \in Nat /\ MaxSlots \in Nat
    BY SaveAssumption, FS_CardinalityType
  <1> QED BY <1>2, <1>3 DEF QuotaInv

LEMMA OpenWithinLimit ==
    ASSUME SaveTypeOK, SaveTypeOK', QuotaInv, NEW g \in Games, OpenSave(g)
    PROVE  QuotaInv'
  <1>1. Existing' = Existing
    BY DEF OpenSave, Existing
  <1>2. ASSUME NEW h \in Games, h # g PROVE (h \in Saving' <=> h \in Saving) /\ FileOf(h)' = FileOf(h)
    BY <1>2 DEF SaveTypeOK, GamesOk, OpenSave, Stop, Goto, Saving, FileOf
  <1>3. CASE ~HasRoom(call[g].slot)
    <2>1. g \notin Saving'
      BY <1>3 DEF OpenSave, Stop, Goto, Saving, SaveTypeOK, GamesOk
    <2>2. \A h \in Saving' : h \in Games
      BY DEF Saving
    <2>3. \A h \in Saving' : FileOf(h)' \in Held
      BY <1>2, <2>1, <2>2 DEF Held
    <2> QED BY <1>1, <2>3, NoMoreHeld DEF Held
  <1>4. CASE call[g].slot \in ListSlots
    <2>1. FileOf(g) \in Held
      BY <1>4, SaveAssumption DEF FileOf, ListSlots, Existing, Held
    <2>2. FileOf(g)' = FileOf(g)
      BY <1>4 DEF HasRoom, OpenSave, FileOf
    <2>3. \A h \in Saving' : h \in Games
      BY DEF Saving
    <2>4. \A h \in Saving' : FileOf(h)' \in Held
      BY <1>2, <2>1, <2>2, <2>3 DEF Held
    <2> QED BY <1>1, <2>4, NoMoreHeld DEF Held
  <1>5. CASE Cardinality(ListSlots) < MaxSlots
    <2> DEFINE f == [h \in Games |-> FileOf(h)']
               T == {f[h] : h \in Saving'}
    <2>1. Cardinality(Existing) < MaxSlots /\ IsFiniteSet(Existing)
      BY <1>5, FewListed, FilesFinite, FS_Subset DEF Existing
    <2>2. IsFiniteSet(Saving') /\ Cardinality(Saving') <= Cardinality(Games)
      BY SaveAssumption, FS_Subset DEF Saving
    <2>3. IsFiniteSet(T) /\ Cardinality(T) <= Cardinality(Saving')
      BY <2>2, ImageSize
    <2>4. T = {FileOf(h)' : h \in Saving'}
      BY DEF Saving
    <2>5. Held' = Existing \cup T
      BY <1>1, <2>4 DEF Held
    <2>6. Cardinality(Held') = Cardinality(Existing) + Cardinality(T) - Cardinality(Existing \cap T)
      BY <2>1, <2>3, <2>5, FS_Union
    <2>7. IsFiniteSet(Existing \cap T)
      BY <2>1, FS_Subset
    <2>8. /\ Cardinality(Existing) \in Nat /\ Cardinality(T) \in Nat /\ Cardinality(Existing \cap T) \in Nat
          /\ Cardinality(Saving') \in Nat /\ Cardinality(Games) \in Nat /\ MaxSlots \in Nat
      BY <2>1, <2>2, <2>3, <2>7, SaveAssumption, FS_CardinalityType
    <2> HIDE DEF T
    <2> QED BY <2>1, <2>2, <2>3, <2>6, <2>8 DEF QuotaInv
  <1> QED BY <1>3, <1>4, <1>5 DEF HasRoom

LEMMA QuotaStep ==
    ASSUME SaveTypeOK, SaveTypeOK', QuotaInv, [Next]_vars
    PROVE  QuotaInv'
  <1>1. \A g \in Saving : g \in Games /\ FileOf(g) \in Held
    BY DEF Saving, Held
  <1>2. Existing \subseteq Held
    BY DEF Held
  <1>3. ASSUME UNCHANGED <<saves, pc, call>> PROVE QuotaInv'
    BY <1>3 DEF QuotaInv, Held, Existing, Saving, FileOf
  <1>4. ASSUME NEW g \in Games, NEW l, Goto(g, l), l \notin {"write", "place"},
               \A h \in Games \ {g} : call'[h] = call[h], Existing' \subseteq Held
        PROVE  QuotaInv'
    <2>1. g \notin Saving' /\ \A h \in Saving' : h \in Saving /\ h # g
      BY <1>4 DEF Goto, Saving, SaveTypeOK, GamesOk
    <2>2. \A h \in Saving' : FileOf(h)' = FileOf(h)
      BY <1>1, <1>4, <2>1 DEF FileOf
    <2>3. \A h \in Saving' : FileOf(h)' \in Held
      BY <1>1, <2>1, <2>2
    <2> QED BY <1>4, <2>3, NoMoreHeld
  <1>5. ASSUME NEW g \in Games, Stop(g) \/ \E p : Return(g, p), Existing' \subseteq Held PROVE QuotaInv'
    <2>1. \A h \in Games \ {g} : call'[h] = call[h]
      BY <1>5 DEF Stop, Return, SaveTypeOK, GamesOk
    <2>2. Goto(g, "off") \/ Goto(g, "idle")
      BY <1>5 DEF Stop, Return
    <2> QED BY <1>4, <1>5, <2>1, <2>2
  <1>6. ASSUME NEW g \in Games, NEW c, Begin(g, c) PROVE QuotaInv'
    <2>1. \A h \in Games \ {g} : call'[h] = call[h]
      BY <1>6 DEF Begin, SaveTypeOK, GamesOk
    <2>2. Existing' \subseteq Held
      BY <1>2, <1>6 DEF Begin, disk, Existing
    <2>3. Goto(g, "work") \/ Goto(g, "open secret")
      BY <1>6 DEF Begin
    <2> QED BY <1>4, <2>1, <2>2, <2>3
  <1>7. ASSUME NEW g \in Games, OpenSecret(g) \/ WriteSecret(g) \/ PlaceSecret(g) PROVE QuotaInv'
    <2>1. Existing' \subseteq Held
      BY <1>2, <1>7 DEF OpenSecret, WriteSecret, PlaceSecret, disk, Existing
    <2>2. CASE Stop(g)
      BY <1>5, <2>1, <2>2
    <2>3. CASE ~Stop(g)
      <3>1. UNCHANGED call
        BY <1>7, <2>3 DEF OpenSecret, WriteSecret, PlaceSecret
      <3>2. Goto(g, "write secret") \/ Goto(g, "place secret") \/ Goto(g, "work")
        BY <1>7, <2>3 DEF OpenSecret, WriteSecret, PlaceSecret
      <3> QED BY <1>4, <2>1, <3>1, <3>2
    <2> QED BY <2>2, <2>3
  <1>8. ASSUME NEW g \in Games, SaveInit(g) \/ SaveClear(g) \/ SaveSet(g) \/ SaveLoad(g) \/ SaveLoadSigned(g) PROVE QuotaInv'
    <2>1. Existing' \subseteq Held
      BY <1>2, <1>8 DEF SaveInit, SaveClear, SaveSet, SaveLoad, SaveLoadSigned, disk, Existing
    <2>2. Stop(g) \/ \E p : Return(g, p)
      BY <1>8 DEF SaveInit, SaveClear, SaveSet, SaveLoad, SaveLoadSigned
    <2> QED BY <1>5, <2>1, <2>2
  <1>9. ASSUME NEW g \in Games, AskServer(g) PROVE QuotaInv'
    <2>1. Existing' \subseteq Held
      BY <1>2, <1>9 DEF AskServer, disk, Existing
    <2>2. CASE Stop(g)
      BY <1>5, <2>1, <2>2
    <2>3. CASE ~Stop(g)
      <3>1. UNCHANGED call /\ Goto(g, "signed")
        BY <1>9, <2>3 DEF AskServer
      <3> QED BY <1>4, <2>1, <3>1
    <2> QED BY <2>2, <2>3
  <1>10. ASSUME NEW g \in Games, WriteSave(g) PROVE QuotaInv'
    <2>1. At(g, "write") /\ Goto(g, "place") /\ UNCHANGED call
      BY <1>10 DEF WriteSave
    <2>2. \A h \in Saving' : h \in Saving /\ FileOf(h)' = FileOf(h)
      BY <2>1 DEF Saving, At, Goto, FileOf, SaveTypeOK, GamesOk
    <2>3. FileOf(g) \in Held
      BY <1>1, <2>1 DEF Saving, At
    <2>4. Existing' \subseteq Existing \cup {FileOf(g)}
      BY <1>10 DEF WriteSave, Existing, SaveTypeOK, FilesOk
    <2> QED BY <1>1, <1>2, <2>2, <2>3, <2>4, NoMoreHeld
  <1>11. ASSUME NEW g \in Games, PlaceSave(g) PROVE QuotaInv'
    <2>1. FileOf(g) \in Held
      BY <1>1, <1>11 DEF PlaceSave, Saving, At
    <2>2. Existing' \subseteq Existing \cup {FileOf(g)}
      BY <1>11 DEF PlaceSave, Existing, SaveTypeOK, FilesOk, disk
    <2>3. Stop(g) \/ \E p : Return(g, p)
      BY <1>11 DEF PlaceSave
    <2> QED BY <1>2, <1>5, <2>1, <2>2, <2>3
  <1>12. ASSUME NEW g \in Games, SaveDelete(g) PROVE QuotaInv'
    <2>1. Existing' \subseteq Existing
      BY <1>12 DEF SaveDelete, Existing, SaveTypeOK, FilesOk
    <2>2. \E p : Return(g, p)
      BY <1>12 DEF SaveDelete
    <2> QED BY <1>2, <1>5, <2>1, <2>2
  <1>13. ASSUME NEW g \in Games, Restore(g) PROVE QuotaInv'
    <2>1. CASE UNCHANGED pc
      BY <1>3, <1>13, <2>1 DEF Restore, disk
    <2>2. CASE Goto(g, "off")
      BY <1>2, <1>4, <1>13, <2>2 DEF Restore, disk, Existing
    <2> QED BY <1>13, <2>1, <2>2 DEF Restore
  <1>14. ASSUME NEW g \in Games, Crash(g) PROVE QuotaInv'
    <2>1. Existing' \subseteq Existing
      BY <1>14 DEF Crash, Existing, Closed
    <2> QED BY <1>2, <1>5, <1>14, <2>1 DEF Crash
  <1>15. ASSUME Edit \/ (\E g \in Games : Store(g)) \/ UNCHANGED vars PROVE QuotaInv'
    BY <1>3, <1>15 DEF Edit, Store, vars, game, disk
  <1> QED BY <1>6, <1>7, <1>8, <1>9, <1>10, <1>11, <1>12, <1>13, <1>14, <1>15, OpenWithinLimit DEF Next, Launch, Enter

(* The slots are at most the limit, and one more for every other game that *)
(* looked at the directory before the same slot was there.                 *)
THEOREM QuotaKept == Spec => []QuotaBound
  <1>1. Cardinality(Games) \in Nat /\ MaxSlots \in Nat /\ MaxSlots > 0
    BY SaveAssumption, FS_CardinalityType
  <1>2. Init => QuotaInv
    <2>1. Init => Held = {}
      BY DEF Init, Held, Existing, Saving
    <2> QED BY <1>1, <2>1, FS_EmptySet DEF QuotaInv
  <1>3. SaveTypeOK /\ SaveTypeOK' /\ QuotaInv /\ [Next]_vars => QuotaInv'
    BY QuotaStep
  <1>4. SaveTypeOK /\ QuotaInv => QuotaBound
    <2>1. SaveTypeOK => Cardinality(Existing) <= Cardinality(Held) /\ Cardinality(Existing) \in Nat /\ Cardinality(Held) \in Nat
      BY HeldFinite, FS_Subset, FS_CardinalityType DEF Held
    <2> QED BY <1>1, <2>1 DEF QuotaInv, QuotaBound
  <1> QED BY <1>2, <1>3, <1>4, SaveTypes, PTL DEF Spec


-----------------------------------------------------------------------------
(* Acknowledged saves.  While no two games make the device secret at a     *)
(* time there is one maker, whose temporary file is its own, and once the  *)
(* secret is in place nobody makes another.                                *)

Working == {"work", "signed", "write", "place"}

(* The game of a step apart, games stay as they are.                       *)
Rests(h) ==
    pc'[h] = pc[h] /\ call'[h] = call[h] /\ key'[h] = key[h] /\ buf'[h] = buf[h] /\ signature'[h] = signature[h]

OneMaker ==
    /\ \A g, h \in Games : Making(g) /\ Making(h) => g = h
    /\ secret # None => secret.open = {} /\ secret.text # Torn /\ \A g \in Games : ~Making(g)
    /\ \A g \in Writers(secretTmp) : g \in Games /\ At(g, "write secret")
    /\ \A g \in Games : At(g, "write secret") =>
          secretTmp # None /\ g \in secretTmp.open /\ secretTmp.text = Torn
    /\ \A g \in Games : At(g, "place secret") =>
          secretTmp = [open |-> {}, text |-> key[g]] /\ key[g] \in Nat
    /\ \A g \in Games : pc[g] \in Working => secret # None /\ key[g] = secret.text

SecretInv == "secret" \notin mixed => OneMaker

(* A step of g by which it neither makes nor has made the secret.          *)
LEMMA SecretRests ==
    ASSUME SaveTypeOK, SecretInv, NEW g \in Games, UNCHANGED <<secret, secretTmp>>, mixed \subseteq mixed',
           \A h \in Games \ {g} : Rests(h), ~Making(g), ~Making(g)',
           pc'[g] \in Working => pc[g] \in Working /\ key'[g] = key[g]
    PROVE  SecretInv'
  <1>1. SUFFICES ASSUME "secret" \notin mixed', OneMaker PROVE OneMaker'
    BY DEF SecretInv
  <1>2. \A h \in Games : Making(h)' => h # g /\ Making(h)
    BY DEF Rests, Making
  <1>3. ~At(g, "write secret") /\ ~At(g, "place secret") /\ ~At(g, "write secret")' /\ ~At(g, "place secret")'
    BY DEF Making, At
  <1>4. \A h \in Games \ {g} : \A l : At(h, l)' <=> At(h, l)
    BY DEF Rests, At
  <1>5. \A h \in Games : pc'[h] \in Working => pc[h] \in Working /\ key'[h] = key[h]
    BY DEF Rests
  <1>6. \A x, h \in Games : Making(x)' /\ Making(h)' => x = h
    BY <1>1, <1>2 DEF OneMaker
  <1>7. secret' # None => secret'.open = {} /\ secret'.text # Torn /\ \A h \in Games : ~Making(h)'
    BY <1>1, <1>2 DEF OneMaker
  <1>8. \A h \in Writers(secretTmp') : h \in Games /\ At(h, "write secret")'
    BY <1>1, <1>3, <1>4 DEF OneMaker
  <1>9. \A h \in Games : At(h, "write secret")' => secretTmp' # None /\ h \in secretTmp'.open /\ secretTmp'.text = Torn
    BY <1>1, <1>3, <1>4 DEF OneMaker
  <1>10. \A h \in Games : At(h, "place secret")' => secretTmp' = [open |-> {}, text |-> key'[h]] /\ key'[h] \in Nat
    BY <1>1, <1>3, <1>4 DEF OneMaker, Rests
  <1>11. \A h \in Games : pc'[h] \in Working => secret' # None /\ key'[h] = secret'.text
    BY <1>1, <1>5 DEF OneMaker
  <1> QED BY <1>6, <1>7, <1>8, <1>9, <1>10, <1>11 DEF OneMaker, Writers

LEMMA OthersRest ==
    ASSUME SaveTypeOK, NEW g \in Games, NEW h \in Games, h # g,
           \/ \E c : Begin(g, c)
           \/ OpenSecret(g) \/ WriteSecret(g) \/ PlaceSecret(g)
           \/ SaveInit(g) \/ SaveClear(g) \/ SaveSet(g)
           \/ AskServer(g) \/ OpenSave(g) \/ WriteSave(g) \/ PlaceSave(g)
           \/ SaveLoad(g) \/ SaveLoadSigned(g) \/ SaveDelete(g)
           \/ Store(g) \/ Restore(g) \/ Crash(g)
    PROVE  Rests(h)
  <1> USE DEF SaveTypeOK, GamesOk, Rests, Goto
  <1>1. Stop(g) => Rests(h)
    BY DEF Stop
  <1>2. (\E p : Return(g, p)) => Rests(h)
    BY DEF Return
  <1>3. ASSUME NEW c, Begin(g, c) PROVE Rests(h)
    BY <1>3 DEF Begin
  <1>4. OpenSecret(g) \/ WriteSecret(g) \/ PlaceSecret(g) => Rests(h)
    BY <1>1 DEF OpenSecret, WriteSecret, PlaceSecret
  <1>5. SaveInit(g) \/ SaveClear(g) \/ SaveSet(g) \/ SaveLoad(g) \/ SaveLoadSigned(g) \/ SaveDelete(g) => Rests(h)
    BY <1>1, <1>2 DEF SaveInit, SaveClear, SaveSet, SaveLoad, SaveLoadSigned, SaveDelete
  <1>6. AskServer(g) \/ OpenSave(g) \/ WriteSave(g) => Rests(h)
    BY <1>1 DEF AskServer, OpenSave, WriteSave
  <1>7. PlaceSave(g) \/ Crash(g) => Rests(h)
    BY <1>1, <1>2 DEF PlaceSave, Crash
  <1>8. Store(g) \/ Restore(g) => Rests(h)
    BY DEF Store, Restore
  <1> QED BY <1>3, <1>4, <1>5, <1>6, <1>7, <1>8

LEMMA BeginSecret ==
    ASSUME SaveTypeOK, SecretInv, NEW g \in Games, NEW c, Begin(g, c), pc[g] \in {"off", "idle"}
    PROVE  SecretInv'
  <1>1. \A h \in Games \ {g} : Rests(h)
    BY OthersRest
  <1>2. UNCHANGED <<secret, secretTmp>> /\ mixed \subseteq mixed' /\ ~Making(g)
    BY DEF Begin, disk, Making
  <1>3. SUFFICES ASSUME "secret" \notin mixed', OneMaker PROVE OneMaker'
    BY <1>2 DEF SecretInv
  <1>4. pc \in [Games -> Labels] /\ key \in [Games -> Nat \cup {None}]
    BY DEF SaveTypeOK, GamesOk
  <1>5. CASE HasSecret
    <2>1. key'[g] = secret.text /\ pc'[g] = "work" /\ secret # None
      BY <1>4, <1>5 DEF Begin, Goto, HasSecret
    <2>2. \A h \in Games : Making(h)' <=> Making(h)
      BY <1>1, <1>2, <2>1 DEF Rests, Making
    <2>3. \A h \in Games : \A l \in {"write secret", "place secret"} : At(h, l)' <=> At(h, l)
      BY <1>1, <1>2, <2>1 DEF Rests, At, Making
    <2>4. \A h \in Games : pc'[h] \in Working => key'[h] = secret.text
      BY <1>1, <1>3, <2>1 DEF Rests, OneMaker
    <2>5. \A h \in Games : At(h, "place secret") => key'[h] = key[h]
      BY <1>1, <1>2 DEF Rests, At, Making
    <2> QED BY <1>2, <1>3, <2>1, <2>2, <2>3, <2>4, <2>5 DEF OneMaker, Writers
  <1>6. CASE ~HasSecret
    <2>1. pc'[g] = "open secret" /\ key' = key /\ \A h \in Games \ {g} : ~Making(h)
      BY <1>3, <1>4, <1>6 DEF Begin, Goto
    <2>2. secret = None
      BY <1>3, <1>6 DEF OneMaker, HasSecret
    <2>3. \A h \in Games : Making(h)' => h = g
      BY <1>1, <2>1 DEF Rests, Making
    <2>4. \A h \in Games : ~At(h, "write secret") /\ ~At(h, "place secret") /\ ~At(h, "write secret")' /\ ~At(h, "place secret")'
      BY <1>1, <1>2, <2>1 DEF Rests, At, Making
    <2>5. \A h \in Games : pc'[h] \notin Working
      BY <1>1, <1>3, <2>1, <2>2 DEF Rests, Working, OneMaker
    <2> QED BY <1>2, <1>3, <2>2, <2>3, <2>4, <2>5 DEF OneMaker, Writers
  <1> QED BY <1>5, <1>6

LEMMA MakeSecret ==
    ASSUME SaveTypeOK, SecretInv, NEW g \in Games, OpenSecret(g) \/ WriteSecret(g) \/ PlaceSecret(g)
    PROVE  SecretInv'
  <1>1. \A h \in Games \ {g} : Rests(h)
    BY OthersRest
  <1>2. mixed' = mixed /\ Making(g)
    BY DEF OpenSecret, WriteSecret, PlaceSecret, past, Making, At
  <1>3. SUFFICES ASSUME "secret" \notin mixed', OneMaker PROVE OneMaker'
    BY <1>2 DEF SecretInv
  <1>4. pc \in [Games -> Labels] /\ key \in [Games -> Nat \cup {None}] /\ secrets \in Nat /\ secrets + 1 \in Nat
    BY DEF SaveTypeOK, GamesOk, SecretsOk
  <1>5. secret = None /\ \A h \in Games \ {g} : ~Making(h) /\ ~Making(h)'
    BY <1>1, <1>2, <1>3 DEF OneMaker, Rests, Making
  <1>6. \A h \in Games \ {g} : ~At(h, "write secret")' /\ ~At(h, "place secret")' /\ ~At(h, "write secret")
    BY <1>5 DEF At, Making
  <1>7. \A h \in Games \ {g} : pc'[h] \notin Working
    BY <1>1, <1>3, <1>5 DEF Rests, OneMaker
  <1>8. ASSUME OpenSecret(g) PROVE OneMaker'
    <2>1. secret' = None /\ pc'[g] = "write secret" /\ secretTmp' = [open |-> Writers(secretTmp) \cup {g}, text |-> Torn]
      BY <1>4, <1>5, <1>8 DEF OpenSecret, Goto, Opened
    <2>2. Writers(secretTmp) = {}
      BY <1>3, <1>6, <1>8 DEF OneMaker, OpenSecret, At
    <2>3. secretTmp' # None /\ secretTmp'.open = {g} /\ secretTmp'.text = Torn
      BY <2>1, <2>2, SaveAssumption
    <2>4. pc'[g] \notin Working /\ ~At(g, "place secret")' /\ At(g, "write secret")'
      BY <2>1 DEF Working, At
    <2> QED BY <1>5, <1>6, <1>7, <2>1, <2>3, <2>4 DEF OneMaker, Writers
  <1>9. ASSUME WriteSecret(g) PROVE OneMaker'
    <2>1. pc'[g] = "place secret" /\ key'[g] = secrets + 1 /\ secret' = None
      BY <1>4, <1>5, <1>9 DEF WriteSecret, Goto, Writers
    <2>2. secretTmp # None /\ g \in secretTmp.open /\ Writers(secretTmp) \subseteq {g}
      BY <1>3, <1>6, <1>9 DEF OneMaker, WriteSecret, Writers
    <2>3. secretTmp.open = {g} /\ Writers(secretTmp) = {g}
      BY <2>2 DEF Writers
    <2>4. secretTmp' = [open |-> {}, text |-> secrets + 1]
      BY <1>9, <2>3 DEF WriteSecret
    <2>5. Writers(secretTmp') = {}
      BY <2>4 DEF Writers
    <2>6. pc'[g] \notin Working /\ At(g, "place secret")' /\ ~At(g, "write secret")'
      BY <2>1 DEF Working, At
    <2> QED BY <1>4, <1>5, <1>6, <1>7, <2>1, <2>4, <2>5, <2>6 DEF OneMaker, Writers
  <1>10. ASSUME PlaceSecret(g) PROVE OneMaker'
    <2>1. secretTmp = [open |-> {}, text |-> key[g]] /\ key[g] \in Nat
      BY <1>3, <1>10 DEF OneMaker, PlaceSecret
    <2>2. CASE secretTmp = None
      <3>1. pc'[g] = "off" /\ secret' = None /\ secretTmp' = None
        BY <1>4, <1>5, <1>10, <2>2 DEF PlaceSecret, Stop, Goto, disk
      <3>2. ~Making(g)' /\ pc'[g] \notin Working /\ ~At(g, "write secret")' /\ ~At(g, "place secret")'
        BY <3>1 DEF Making, Working, At
      <3> QED BY <1>5, <1>6, <1>7, <3>1, <3>2 DEF OneMaker, Writers
    <2>3. CASE secretTmp # None
      <3>1. pc'[g] = "work" /\ secret' = secretTmp /\ secretTmp' = None /\ key' = key
        BY <1>4, <1>10, <2>3 DEF PlaceSecret, Goto
      <3>2. ~Making(g)' /\ ~At(g, "write secret")' /\ ~At(g, "place secret")'
        BY <3>1 DEF Making, At
      <3>3. secret' # None /\ secret'.open = {} /\ secret'.text = key[g] /\ key[g] # Torn
        BY <2>1, <2>3, <3>1, SaveAssumption
      <3> QED BY <1>5, <1>6, <1>7, <3>1, <3>2, <3>3 DEF OneMaker, Writers
    <2> QED BY <2>2, <2>3
  <1> QED BY <1>8, <1>9, <1>10


LEMMA CrashSecret ==
    ASSUME SaveTypeOK, SecretInv, NEW g \in Games, Crash(g)
    PROVE  SecretInv'
  <1>1. \A h \in Games \ {g} : Rests(h)
    BY OthersRest
  <1>2. SUFFICES ASSUME "secret" \notin mixed', OneMaker PROVE OneMaker'
    BY DEF SecretInv, Crash, past
  <1>3. pc'[g] = "off" /\ secretTmp' = Closed(secretTmp, g) /\ secret' = Closed(secret, g)
    BY DEF Crash, Stop, Goto, SaveTypeOK, GamesOk
  <1>4. pc'[g] \notin Working /\ ~Making(g)' /\ \A l \in {"write secret", "place secret"} : ~At(g, l)'
    BY <1>3 DEF Working, Making, At
  <1>5. \A h \in Games : Making(h)' => Making(h) /\ h # g
    BY <1>1, <1>4 DEF Rests, Making
  <1>6. \A h \in Games : \A l \in {"write secret", "place secret"} : At(h, l)' => At(h, l) /\ h # g
    BY <1>1, <1>4 DEF Rests, At
  <1>7. secret' = secret
    <2>1. CASE secret = None
      BY <1>3, <2>1 DEF Closed
    <2>2. CASE secret # None
      <3>1. secret = [open |-> {}, text |-> secret.text]
        BY <1>2, <2>2 DEF OneMaker, SaveTypeOK, SecretsOk, SecretFileOk, IsFile
      <3>2. secret' = [open |-> {} \ {g}, text |-> secret.text]
        BY <1>3, <2>2, <3>1 DEF Closed
      <3> QED BY <3>1, <3>2
    <2> QED BY <2>1, <2>2
  <1>8. ASSUME secretTmp # None
        PROVE  secretTmp' = [open |-> secretTmp.open \ {g}, text |-> secretTmp.text]
    BY <1>3, <1>8 DEF Closed, SaveTypeOK, SecretsOk, SecretFileOk, IsFile
  <1>9. \A h \in Writers(secretTmp') : h \in Writers(secretTmp) /\ h # g
    BY <1>3, <1>8 DEF Writers, Closed
  <1>10. \A h \in Writers(secretTmp') : h \in Games /\ At(h, "write secret")'
    BY <1>1, <1>2, <1>9 DEF OneMaker, Rests, At
  <1>11. ASSUME NEW h \in Games, At(h, "write secret")'
         PROVE  secretTmp' # None /\ h \in secretTmp'.open /\ secretTmp'.text = Torn
    <2>1. At(h, "write secret") /\ h # g
      BY <1>6, <1>11
    <2>2. secretTmp # None /\ h \in secretTmp.open /\ secretTmp.text = Torn
      BY <1>2, <2>1 DEF OneMaker
    <2>3. secretTmp.open \ {g} \subseteq Games
      BY <1>2, <2>2 DEF OneMaker, Writers
    <2>4. [open |-> secretTmp.open \ {g}, text |-> Torn] # None
      BY <2>3, SaveAssumption
    <2>5. secretTmp' = [open |-> secretTmp.open \ {g}, text |-> Torn]
      BY <1>8, <2>2
    <2>6. secretTmp'.open = secretTmp.open \ {g} /\ secretTmp'.text = Torn
      BY <2>5
    <2> QED BY <2>1, <2>2, <2>4, <2>5, <2>6
  <1>12. ASSUME NEW h \in Games, At(h, "place secret")'
         PROVE  secretTmp' = [open |-> {}, text |-> key'[h]] /\ key'[h] \in Nat
    <2>1. At(h, "place secret") /\ h # g
      BY <1>6, <1>12
    <2>2. secretTmp = [open |-> {}, text |-> key[h]] /\ key[h] \in Nat /\ key'[h] = key[h]
      BY <1>1, <1>2, <2>1 DEF OneMaker, Rests
    <2>3. CASE secretTmp = None
      BY <1>3, <2>2, <2>3 DEF Closed
    <2>4. CASE secretTmp # None
      BY <1>8, <2>2, <2>4
    <2> QED BY <2>3, <2>4
  <1>13. \A h \in Games : pc'[h] \in Working => pc[h] \in Working /\ key'[h] = key[h]
    BY <1>1, <1>4 DEF Rests
  <1> QED BY <1>2, <1>5, <1>7, <1>10, <1>11, <1>12, <1>13 DEF OneMaker

LEMMA SecretStep ==
    ASSUME SaveTypeOK, SecretInv, [Next]_vars
    PROVE  SecretInv'
  <1>1. ASSUME NEW g \in Games, NEW c, Begin(g, c), pc[g] \in {"off", "idle"} PROVE SecretInv'
    BY <1>1, BeginSecret
  <1>2. ASSUME NEW g \in Games, Launch(g) \/ Enter(g) PROVE SecretInv'
    BY <1>1, <1>2 DEF Launch, Enter, Calls, At
  <1>3. ASSUME NEW g \in Games, OpenSecret(g) \/ WriteSecret(g) \/ PlaceSecret(g) PROVE SecretInv'
    BY <1>3, MakeSecret
  <1>4. ASSUME NEW g \in Games,
               \/ SaveInit(g) \/ SaveClear(g) \/ SaveSet(g)
               \/ AskServer(g) \/ OpenSave(g) \/ WriteSave(g) \/ PlaceSave(g)
               \/ SaveLoad(g) \/ SaveLoadSigned(g) \/ SaveDelete(g)
        PROVE  SecretInv'
    <2>1. \A h \in Games \ {g} : Rests(h)
      BY <1>4, OthersRest
    <2>2. UNCHANGED <<secret, secretTmp>> /\ mixed \subseteq mixed' /\ pc[g] \in Working
      BY <1>4 DEF SaveInit, SaveClear, SaveSet, AskServer, OpenSave, WriteSave, PlaceSave, SaveLoad, SaveLoadSigned,
                  SaveDelete, In, At, Working, disk, past
    <2>3. pc'[g] \in {"off", "idle"} \/ (pc'[g] \in {"signed", "write", "place"} /\ key' = key)
      <3>1. Stop(g) => pc'[g] = "off"
        BY DEF Stop, Goto, SaveTypeOK, GamesOk
      <3>2. (\E p : Return(g, p)) => pc'[g] = "idle"
        BY DEF Return, Goto, SaveTypeOK, GamesOk
      <3>3. \A l : Goto(g, l) => pc'[g] = l
        BY DEF Goto, SaveTypeOK, GamesOk
      <3>4. CASE SaveInit(g) \/ SaveClear(g) \/ SaveSet(g) \/ SaveLoad(g) \/ SaveLoadSigned(g) \/ SaveDelete(g)
        BY <3>1, <3>2, <3>4 DEF SaveInit, SaveClear, SaveSet, SaveLoad, SaveLoadSigned, SaveDelete
      <3>5. CASE AskServer(g) \/ OpenSave(g) \/ WriteSave(g)
        BY <3>1, <3>3, <3>5 DEF AskServer, OpenSave, WriteSave
      <3>6. CASE PlaceSave(g)
        BY <3>1, <3>2, <3>6 DEF PlaceSave
      <3> QED BY <1>4, <3>4, <3>5, <3>6
    <2>4. ~Making(g) /\ ~Making(g)' /\ (pc'[g] \in Working => key'[g] = key[g])
      BY <2>2, <2>3 DEF Making, Working
    <2> QED BY <2>1, <2>2, <2>4, SecretRests
  <1>5. ASSUME NEW g \in Games, Store(g) \/ Restore(g) PROVE SecretInv'
    <2>1. \A h \in Games \ {g} : Rests(h)
      BY <1>5, OthersRest
    <2>2. UNCHANGED <<secret, secretTmp, key, mixed>> /\ pc[g] = "idle"
      BY <1>5 DEF Store, Restore, Calls, At, disk, past
    <2>3. pc'[g] \in {"idle", "off"}
      BY <1>5, <2>2 DEF Store, Restore, Goto, SaveTypeOK, GamesOk
    <2> QED BY <2>1, <2>2, <2>3, SecretRests DEF Making, Working
  <1>6. ASSUME NEW g \in Games, Crash(g) PROVE SecretInv'
    BY <1>6, CrashSecret
  <1>7. ASSUME Edit \/ UNCHANGED vars PROVE SecretInv'
    BY <1>7 DEF Edit, vars, disk, game, past, SecretInv, OneMaker, Making, At, Writers
  <1> QED BY <1>2, <1>3, <1>4, <1>5, <1>6, <1>7 DEF Next

-----------------------------------------------------------------------------
(* While no two games write a file at a time its temporary file is that of *)
(* the one that does, and nobody writes the file itself.                   *)

OneWriter(f) ==
    /\ \A g, h \in Games : Writing(g, f) /\ Writing(h, f) => g = h
    /\ saves[f] # None => saves[f].open = {}
    /\ \A g \in Writers(tmps[f]) : g \in Games /\ At(g, "write") /\ FileOf(g) = f
    /\ \A g \in Games : At(g, "write") /\ FileOf(g) = f =>
          tmps[f] # None /\ g \in tmps[f].open /\ tmps[f].text = Torn
    /\ \A g \in Games : At(g, "place") /\ FileOf(g) = f => tmps[f] = [open |-> {}, text |-> Blob(g)]

(* What is acknowledged is in its file, and sealed with the secret.        *)
Kept(f) == acked[f] # None => saves[f] # None /\ saves[f].text = acked[f]

SealedSo(f) == acked[f] # None => secret # None /\ secret.text = acked[f].secret

SlotsInv ==
    /\ \A f \in Files \ mixed : OneWriter(f) /\ Kept(f)
    /\ "secret" \notin mixed => \A f \in Files : SealedSo(f)

LEMMA SlotRests ==
    ASSUME SaveTypeOK, NEW f \in Files, OneWriter(f), NEW g \in Games, saves'[f] \in {saves[f], None}, tmps'[f] = tmps[f],
           \A h \in Games \ {g} : Rests(h), ~Writing(g, f), ~Writing(g, f)'
    PROVE  OneWriter(f)'
  <1>1. \A h \in Games \ {g} : FileOf(h)' = FileOf(h) /\ Blob(h)' = Blob(h)
    BY DEF Rests, FileOf, Blob
  <1>2. \A h \in Games : Writing(h, f)' <=> Writing(h, f)
    BY <1>1 DEF Rests, Writing
  <1>3. \A h \in Games \ {g} : \A l : At(h, l)' <=> At(h, l)
    BY DEF Rests, At
  <1>4. \A l \in {"write", "place"} : ~(At(g, l) /\ FileOf(g) = f) /\ ~(At(g, l)' /\ FileOf(g)' = f)
    BY DEF Writing, At
  <1> QED BY <1>1, <1>2, <1>3, <1>4 DEF OneWriter, Writers


LEMMA OpenOne ==
    ASSUME SaveTypeOK, NEW g \in Games, NEW f \in Files, f \notin mixed', OneWriter(f), OpenSave(g)
    PROVE  OneWriter(f)'
  <1>1. \A h \in Games \ {g} : Rests(h)
    BY OthersRest
  <1>2. ~Writing(g, f) /\ saves' = saves
    BY DEF OpenSave, In, At, Writing
  <1>3. pc \in [Games -> Labels]
    BY DEF SaveTypeOK, GamesOk
  <1>4. CASE ~HasRoom(call[g].slot)
    <2>1. ~Writing(g, f)' /\ tmps' = tmps
      BY <1>3, <1>4 DEF OpenSave, Stop, Goto, Writing
    <2> QED BY <1>1, <1>2, <2>1, SlotRests
  <1>5. CASE HasRoom(call[g].slot)
    <2>1. /\ tmps' = [tmps EXCEPT ![FileOf(g)] = Opened(@, g)]
          /\ mixed' = IF \E h \in Games \ {g} : Writing(h, FileOf(g)) THEN mixed \cup {FileOf(g)} ELSE mixed
          /\ pc'[g] = "write" /\ FileOf(g)' = FileOf(g)
      BY <1>3, <1>5 DEF OpenSave, Goto, FileOf
    <2>2. CASE FileOf(g) # f
      <3>1. tmps'[f] = tmps[f]
        BY <2>1, <2>2 DEF SaveTypeOK, FilesOk
      <3>2. ~Writing(g, f)'
        BY <2>1, <2>2 DEF Writing
      <3> QED BY <1>1, <1>2, <3>1, <3>2, SlotRests
    <2>3. CASE FileOf(g) = f
      <3>1. \A h \in Games \ {g} : ~Writing(h, f) /\ ~Writing(h, f)'
        BY <1>1, <2>1, <2>3 DEF Rests, Writing, FileOf
      <3>2. Writers(tmps[f]) = {}
        BY <1>2, <3>1 DEF OneWriter, Writing, At
      <3>3. tmps'[f] = [open |-> {g}, text |-> Torn]
        BY <2>1, <2>3, <3>2 DEF Opened, SaveTypeOK, FilesOk
      <3>4. tmps'[f] # None /\ tmps'[f].open = {g} /\ tmps'[f].text = Torn
        BY <3>3, SaveAssumption
      <3>5. \A h \in Games \ {g} : \A l \in {"write", "place"} : ~(At(h, l)' /\ FileOf(h)' = f)
        BY <3>1 DEF Writing, At
      <3>6. At(g, "write")' /\ ~At(g, "place")'
        BY <2>1 DEF At
      <3> QED BY <1>2, <2>1, <2>3, <3>1, <3>4, <3>5, <3>6 DEF OneWriter, Writers
    <2> QED BY <2>2, <2>3
  <1> QED BY <1>4, <1>5

LEMMA WriteOne ==
    ASSUME SaveTypeOK, NEW g \in Games, NEW f \in Files, OneWriter(f), WriteSave(g)
    PROVE  OneWriter(f)' /\ saves'[f] = saves[f]
  <1>1. \A h \in Games \ {g} : Rests(h)
    BY OthersRest
  <1>2. At(g, "write") /\ pc'[g] = "place" /\ FileOf(g)' = FileOf(g) /\ Blob(g)' = Blob(g)
    BY DEF WriteSave, Goto, FileOf, Blob, SaveTypeOK, GamesOk
  <1>3. PICK t \in Written(tmps[FileOf(g)], g, Blob(g)), s \in Written(saves[FileOf(g)], g, Blob(g)) :
          /\ tmps' = [tmps EXCEPT ![FileOf(g)] = t]
          /\ saves' = [saves EXCEPT ![FileOf(g)] = s]
    BY DEF WriteSave
  <1>4. CASE FileOf(g) # f
    <2>1. tmps'[f] = tmps[f] /\ saves'[f] = saves[f]
      BY <1>3, <1>4 DEF SaveTypeOK, FilesOk
    <2>2. ~Writing(g, f) /\ ~Writing(g, f)'
      BY <1>2, <1>4 DEF Writing
    <2> QED BY <1>1, <2>1, <2>2, SlotRests
  <1>5. CASE FileOf(g) = f
    <2>1. Writing(g, f)
      BY <1>2, <1>5 DEF Writing, At
    <2>2. \A h \in Games \ {g} : ~Writing(h, f) /\ ~Writing(h, f)'
      BY <1>1, <2>1 DEF OneWriter, Rests, Writing, FileOf
    <2>3. g \notin Writers(saves[f])
      BY DEF OneWriter, Writers
    <2>4. saves'[f] = saves[f]
      BY <1>3, <1>5, <2>3 DEF Written, SaveTypeOK, FilesOk
    <2>5. tmps[f] # None /\ tmps[f].open = {g} /\ tmps[f].text = Torn
      <3>1. tmps[f] # None /\ g \in tmps[f].open /\ tmps[f].text = Torn
        BY <1>2, <1>5 DEF OneWriter
      <3>2. \A h \in tmps[f].open : h \in Games /\ Writing(h, f)
        BY <3>1 DEF OneWriter, Writers, Writing, At
      <3> QED BY <2>2, <3>1, <3>2
    <2>6. t = [open |-> {}, text |-> Blob(g)]
      BY <1>3, <1>5, <2>5 DEF Written, Writers
    <2>7. tmps'[f] = [open |-> {}, text |-> Blob(g)]
      BY <1>3, <1>5, <2>6 DEF SaveTypeOK, FilesOk
    <2>8. Writers(tmps'[f]) = {}
      BY <2>7 DEF Writers
    <2>9. \A h \in Games \ {g} : \A l \in {"write", "place"} : ~(At(h, l)' /\ FileOf(h)' = f)
      BY <2>2 DEF Writing, At
    <2>10. ~At(g, "write")'
      BY <1>2 DEF At
    <2>11. OneWriter(f)'
      <3>1. \A x, h \in Games : Writing(x, f)' /\ Writing(h, f)' => x = h
        BY <2>2
      <3>2. saves'[f] # None => saves'[f].open = {}
        BY <2>4 DEF OneWriter
      <3>3. \A x \in Games : ~(At(x, "write")' /\ FileOf(x)' = f)
        BY <2>9, <2>10
      <3>4. \A x \in Games : At(x, "place")' /\ FileOf(x)' = f => tmps'[f] = [open |-> {}, text |-> Blob(x)']
        BY <1>2, <2>7, <2>9
      <3> QED BY <2>8, <3>1, <3>2, <3>3, <3>4 DEF OneWriter, Writers
    <2> QED BY <2>4, <2>11
  <1> QED BY <1>4, <1>5

LEMMA PlaceOne ==
    ASSUME SaveTypeOK, NEW g \in Games, NEW f \in Files, OneWriter(f), Kept(f), PlaceSave(g)
    PROVE  OneWriter(f)' /\ Kept(f)'
  <1>1. \A h \in Games \ {g} : Rests(h)
    BY OthersRest
  <1>2. At(g, "place") /\ pc'[g] \in {"idle", "off"}
    BY DEF PlaceSave, Stop, Return, Goto, SaveTypeOK, GamesOk
  <1>3. ~Writing(g, f)'
    BY <1>2 DEF Writing
  <1>4. CASE FileOf(g) # f
    <2>1. tmps'[f] = tmps[f] /\ saves'[f] = saves[f] /\ acked'[f] = acked[f]
      BY <1>4 DEF PlaceSave, SaveTypeOK, FilesOk, disk
    <2>2. ~Writing(g, f)
      BY <1>4 DEF Writing
    <2> QED BY <1>1, <1>3, <2>1, <2>2, SlotRests DEF Kept
  <1>5. CASE FileOf(g) = f
    <2>1. tmps[f] = [open |-> {}, text |-> Blob(g)]
      BY <1>2, <1>5 DEF OneWriter
    <2>2. Writing(g, f)
      BY <1>2, <1>5 DEF Writing, At
    <2>3. \A h \in Games \ {g} : ~Writing(h, f) /\ ~Writing(h, f)'
      BY <1>1, <2>2 DEF OneWriter, Rests, Writing, FileOf
    <2>4. \A h \in Games : \A l \in {"write", "place"} : ~(At(h, l)' /\ FileOf(h)' = f)
      BY <1>3, <2>3 DEF Writing, At
    <2>5. tmps'[f] = None
      BY <1>5 DEF PlaceSave, disk, SaveTypeOK, FilesOk
    <2>6. \/ saves'[f] = saves[f] /\ acked'[f] = acked[f]
          \/ saves'[f] = [open |-> {}, text |-> Blob(g)] /\ saves'[f] # None /\ acked'[f] = Blob(g)
      BY <1>5, <2>1 DEF PlaceSave, disk, SaveTypeOK, FilesOk
    <2>7. saves'[f] # None => saves'[f].open = {}
      BY <2>6 DEF OneWriter
    <2>8. Kept(f)'
      BY <2>6 DEF Kept
    <2> QED BY <1>3, <2>3, <2>4, <2>5, <2>7, <2>8 DEF OneWriter, Writers
  <1> QED BY <1>4, <1>5

LEMMA CrashOne ==
    ASSUME SaveTypeOK, NEW g \in Games, NEW f \in Files, OneWriter(f), Crash(g)
    PROVE  OneWriter(f)' /\ saves'[f] = saves[f]
  <1>1. \A h \in Games \ {g} : Rests(h)
    BY OthersRest
  <1>2. pc'[g] = "off" /\ tmps'[f] = Closed(tmps[f], g) /\ saves'[f] = Closed(saves[f], g)
    BY DEF Crash, Stop, Goto, SaveTypeOK, GamesOk
  <1>3. \A h \in Games \ {g} : FileOf(h)' = FileOf(h) /\ Blob(h)' = Blob(h)
    BY <1>1 DEF Rests, FileOf, Blob
  <1>4. \A h \in Games : Writing(h, f)' => Writing(h, f) /\ h # g
    BY <1>1, <1>2, <1>3 DEF Rests, Writing
  <1>5. \A h \in Games : \A l \in {"write", "place"} : At(h, l)' => At(h, l) /\ h # g
    BY <1>1, <1>2 DEF Rests, At
  <1>6. saves'[f] = saves[f]
    <2>1. CASE saves[f] = None
      BY <1>2, <2>1 DEF Closed
    <2>2. CASE saves[f] # None
      <3>1. saves[f] = [open |-> {}, text |-> saves[f].text]
        BY <2>2 DEF OneWriter, SaveTypeOK, FilesOk, FileOk, IsFile
      <3>2. PICK file, text : file = saves[f] /\ text = saves[f].text
        OBVIOUS
      <3>3. file # None /\ file = [open |-> {}, text |-> text]
        BY <2>2, <3>1, <3>2
      <3>4. Closed(file, g) = [open |-> {}, text |-> text]
        BY <3>3 DEF Closed
      <3> QED BY <1>2, <3>2, <3>3, <3>4
    <2> QED BY <2>1, <2>2
  <1>7. ASSUME tmps[f] # None
        PROVE  tmps'[f] = [open |-> tmps[f].open \ {g}, text |-> tmps[f].text]
    BY <1>2, <1>7 DEF Closed, SaveTypeOK, FilesOk, FileOk, IsFile
  <1>8. \A h \in Writers(tmps'[f]) : h \in Writers(tmps[f]) /\ h # g
    BY <1>2, <1>7 DEF Writers, Closed
  <1>9. \A h \in Writers(tmps'[f]) : h \in Games /\ At(h, "write")' /\ FileOf(h)' = f
    BY <1>1, <1>3, <1>8 DEF OneWriter, Rests, At
  <1>10. ASSUME NEW h \in Games, At(h, "write")', FileOf(h)' = f
         PROVE  tmps'[f] # None /\ h \in tmps'[f].open /\ tmps'[f].text = Torn
    <2>1. At(h, "write") /\ h # g /\ FileOf(h) = f
      BY <1>3, <1>5, <1>10
    <2>2. tmps[f] # None /\ h \in tmps[f].open /\ tmps[f].text = Torn
      BY <2>1 DEF OneWriter
    <2>3. tmps[f].open \ {g} \subseteq Games
      BY <2>2 DEF OneWriter, Writers
    <2>4. [open |-> tmps[f].open \ {g}, text |-> Torn] # None
      BY <2>3, SaveAssumption
    <2>5. tmps'[f] = [open |-> tmps[f].open \ {g}, text |-> Torn]
      BY <1>7, <2>2
    <2>6. tmps'[f].open = tmps[f].open \ {g} /\ tmps'[f].text = Torn
      BY <2>5
    <2> QED BY <2>1, <2>2, <2>4, <2>5, <2>6
  <1>11. ASSUME NEW h \in Games, At(h, "place")', FileOf(h)' = f
         PROVE  tmps'[f] = [open |-> {}, text |-> Blob(h)']
    <2>1. At(h, "place") /\ h # g /\ FileOf(h) = f
      BY <1>3, <1>5, <1>11
    <2>2. tmps[f] = [open |-> {}, text |-> Blob(h)] /\ Blob(h)' = Blob(h)
      BY <1>3, <2>1 DEF OneWriter
    <2>3. CASE tmps[f] = None
      BY <1>2, <2>2, <2>3 DEF Closed
    <2>4. CASE tmps[f] # None
      BY <1>7, <2>2, <2>4
    <2> QED BY <2>3, <2>4
  <1>12. \A x, h \in Games : Writing(x, f)' /\ Writing(h, f)' => x = h
    BY <1>4 DEF OneWriter
  <1>13. saves'[f] # None => saves'[f].open = {}
    BY <1>6 DEF OneWriter
  <1>14. OneWriter(f)'
    BY <1>9, <1>10, <1>11, <1>12, <1>13 DEF OneWriter
  <1> QED BY <1>6, <1>14


LEMMA WriterStep ==
    ASSUME SaveTypeOK, [Next]_vars, NEW f \in Files \ mixed', OneWriter(f), Kept(f)
    PROVE  OneWriter(f)' /\ Kept(f)'
  <1>1. ASSUME NEW g \in Games, OpenSave(g) PROVE OneWriter(f)' /\ Kept(f)'
    BY <1>1, OpenOne DEF OpenSave, Kept
  <1>2. ASSUME NEW g \in Games, WriteSave(g) PROVE OneWriter(f)' /\ Kept(f)'
    BY <1>2, WriteOne DEF WriteSave, Kept, past
  <1>3. ASSUME NEW g \in Games, PlaceSave(g) PROVE OneWriter(f)' /\ Kept(f)'
    BY <1>3, PlaceOne
  <1>4. ASSUME NEW g \in Games, Crash(g) PROVE OneWriter(f)' /\ Kept(f)'
    BY <1>4, CrashOne DEF Crash, Kept, past
  <1>5. ASSUME NEW g \in Games,
               \/ \E c : Begin(g, c) /\ pc[g] \in {"off", "idle"}
               \/ OpenSecret(g) \/ WriteSecret(g) \/ PlaceSecret(g)
               \/ SaveInit(g) \/ SaveClear(g) \/ SaveSet(g) \/ AskServer(g)
               \/ SaveLoad(g) \/ SaveLoadSigned(g) \/ SaveDelete(g)
               \/ Store(g) \/ Restore(g)
        PROVE  OneWriter(f)' /\ Kept(f)'
    <2>1. \A h \in Games \ {g} : Rests(h)
      BY <1>5, OthersRest
    <2>2. pc[g] \notin {"write", "place"}
      BY <1>5 DEF OpenSecret, WriteSecret, PlaceSecret, SaveInit, SaveClear, SaveSet, AskServer, SaveLoad, SaveLoadSigned,
                  SaveDelete, Store, Restore, Calls, In, At
    <2>3. pc'[g] \notin {"write", "place"}
      <3>1. Stop(g) => pc'[g] = "off"
        BY DEF Stop, Goto, SaveTypeOK, GamesOk
      <3>2. (\E p : Return(g, p)) => pc'[g] = "idle"
        BY DEF Return, Goto, SaveTypeOK, GamesOk
      <3>3. \A l : Goto(g, l) => pc'[g] = l
        BY DEF Goto, SaveTypeOK, GamesOk
      <3>4. (\E c : Begin(g, c)) \/ OpenSecret(g) \/ WriteSecret(g) \/ PlaceSecret(g) => pc'[g] \notin {"write", "place"}
        BY <3>1, <3>3 DEF Begin, OpenSecret, WriteSecret, PlaceSecret
      <3>5. SaveInit(g) \/ SaveClear(g) \/ SaveSet(g) \/ SaveLoad(g) \/ SaveLoadSigned(g) \/ SaveDelete(g)
               => pc'[g] \notin {"write", "place"}
        BY <3>1, <3>2 DEF SaveInit, SaveClear, SaveSet, SaveLoad, SaveLoadSigned, SaveDelete
      <3>6. AskServer(g) => pc'[g] \notin {"write", "place"}
        BY <3>1, <3>3 DEF AskServer
      <3>7. Store(g) \/ Restore(g) => pc'[g] \notin {"write", "place"}
        BY <2>2, <3>3 DEF Store, Restore
      <3> QED BY <1>5, <3>4, <3>5, <3>6, <3>7
    <2>4. /\ tmps' = tmps
          /\ \/ saves'[f] = saves[f] /\ acked'[f] = acked[f]
             \/ saves'[f] = None /\ acked'[f] = None
      <3>1. CASE SaveDelete(g)
        BY <3>1 DEF SaveDelete, SaveTypeOK, FilesOk
      <3>2. CASE ~SaveDelete(g)
        BY <1>5, <3>2 DEF Begin, OpenSecret, WriteSecret, PlaceSecret, SaveInit, SaveClear, SaveSet, AskServer, SaveLoad,
                          SaveLoadSigned, Store, Restore, disk, past
      <3> QED BY <3>1, <3>2
    <2>5. ~Writing(g, f) /\ ~Writing(g, f)'
      BY <2>2, <2>3 DEF Writing
    <2>6. OneWriter(f)'
      BY <2>1, <2>4, <2>5, SlotRests
    <2> QED BY <2>4, <2>6 DEF Kept
  <1>6. ASSUME Edit \/ UNCHANGED vars PROVE OneWriter(f)' /\ Kept(f)'
    BY <1>6 DEF Edit, vars, disk, game, past, OneWriter, Kept, Writing, Writers, At, FileOf, Blob
  <1>7. ASSUME NEW g \in Games, Launch(g) \/ Enter(g) PROVE OneWriter(f)' /\ Kept(f)'
    BY <1>5, <1>7 DEF Launch, Enter, Calls, At
  <1> QED BY <1>1, <1>2, <1>3, <1>4, <1>5, <1>6, <1>7 DEF Next

(* A secret that is in place stays.                                        *)
LEMMA SecretStays ==
    ASSUME SaveTypeOK, OneMaker, secret # None, [Next]_vars
    PROVE  secret' = secret
  <1>1. \A g \in Games : ~Making(g)
    BY DEF OneMaker
  <1>2. ASSUME NEW g \in Games, Crash(g) PROVE secret' = secret
    <2>1. secret = [open |-> {}, text |-> secret.text]
      BY DEF OneMaker, SaveTypeOK, SecretsOk, SecretFileOk, IsFile
    <2>2. PICK file, text : file = secret /\ text = secret.text
      OBVIOUS
    <2>3. file # None /\ file = [open |-> {}, text |-> text]
      BY <2>1, <2>2
    <2>4. Closed(file, g) = [open |-> {}, text |-> text]
      BY <2>3 DEF Closed
    <2> QED BY <1>2, <2>2, <2>3, <2>4 DEF Crash
  <1>3. ASSUME NEW g \in Games, OpenSecret(g) \/ WriteSecret(g) \/ PlaceSecret(g) PROVE FALSE
    BY <1>1, <1>3 DEF OpenSecret, WriteSecret, PlaceSecret, Making, At
  <1>4. ASSUME NEW g \in Games,
               \/ Launch(g) \/ Enter(g)
               \/ SaveInit(g) \/ SaveClear(g) \/ SaveSet(g)
               \/ AskServer(g) \/ OpenSave(g) \/ WriteSave(g) \/ PlaceSave(g)
               \/ SaveLoad(g) \/ SaveLoadSigned(g) \/ SaveDelete(g)
               \/ Store(g) \/ Restore(g)
        PROVE  secret' = secret
    BY <1>4 DEF Launch, Enter, Begin, SaveInit, SaveClear, SaveSet, AskServer, OpenSave, WriteSave, PlaceSave, SaveLoad,
                SaveLoadSigned, SaveDelete, Store, Restore, disk
  <1> QED BY <1>2, <1>3, <1>4 DEF Next, Edit, vars, disk

LEMMA SealedStep ==
    ASSUME SaveTypeOK, OneMaker, [Next]_vars, NEW f \in Files, SealedSo(f)
    PROVE  SealedSo(f)'
  <1>1. CASE acked'[f] = acked[f]
    BY <1>1, SecretStays DEF SealedSo
  <1>2. CASE acked'[f] # acked[f]
    <2>1. PICK g \in Games : PlaceSave(g) \/ SaveDelete(g)
      BY <1>2 DEF Next, Edit, Launch, Enter, Begin, OpenSecret, WriteSecret, PlaceSecret, SaveInit, SaveClear, SaveSet,
                  AskServer, OpenSave, WriteSave, SaveLoad, SaveLoadSigned, Store, Restore, Crash, vars, past
    <2>2. CASE SaveDelete(g)
      <3>1. acked'[f] = None
        BY <1>2, <2>2 DEF SaveDelete, SaveTypeOK, FilesOk
      <3> QED BY <3>1 DEF SealedSo
    <2>3. CASE PlaceSave(g)
      <3>1. acked'[f] = Blob(g) /\ pc[g] = "place" /\ secret' = secret
        BY <1>2, <2>3 DEF PlaceSave, At, disk, SaveTypeOK, FilesOk
      <3>2. secret # None /\ key[g] = secret.text
        BY <3>1 DEF OneMaker, Working
      <3> QED BY <3>1, <3>2 DEF SealedSo, Blob
    <2> QED BY <2>1, <2>2, <2>3
  <1> QED BY <1>1, <1>2

LEMMA MixedGrows == [Next]_vars => mixed \subseteq mixed'
  BY DEF Next, Edit, Launch, Enter, Begin, OpenSecret, WriteSecret, PlaceSecret, SaveInit, SaveClear, SaveSet,
         AskServer, OpenSave, WriteSave, PlaceSave, SaveLoad, SaveLoadSigned, SaveDelete, Store, Restore, Crash, past, vars

LEMMA SlotsStep ==
    ASSUME SaveTypeOK, SecretInv, SlotsInv, [Next]_vars
    PROVE  SlotsInv'
  <1>1. mixed \subseteq mixed'
    BY MixedGrows
  <1>2. \A f \in Files \ mixed' : OneWriter(f)' /\ Kept(f)'
    BY <1>1, WriterStep DEF SlotsInv
  <1>3. ASSUME "secret" \notin mixed', NEW f \in Files PROVE SealedSo(f)'
    BY <1>1, <1>3, SealedStep DEF SlotsInv, SecretInv
  <1> QED BY <1>2, <1>3 DEF SlotsInv

(* A save that a game was told is committed is in its file, and opens with *)
(* the device secret, until it is committed over or deleted: neither       *)
(* another game, nor the death of one that was saving, spoils it, unless   *)
(* two games wrote the slot, or made the secret, at the same time.         *)
THEOREM AckedSavesLoad == Spec => []AckedLoads
  <1>1. Init => SecretInv /\ SlotsInv
    <2>1. ASSUME Init PROVE OneMaker
      BY <2>1 DEF Init, OneMaker, Making, At, Writers, Working
    <2>2. ASSUME Init, NEW f \in Files PROVE OneWriter(f) /\ Kept(f) /\ SealedSo(f)
      BY <2>2 DEF Init, OneWriter, Kept, SealedSo, Writing, Writers, At
    <2> QED BY <2>1, <2>2 DEF SecretInv, SlotsInv
  <1>2. SaveTypeOK /\ SecretInv /\ SlotsInv /\ [Next]_vars => (SecretInv /\ SlotsInv)'
    BY SecretStep, SlotsStep
  <1>3. SlotsInv => AckedLoads
    BY DEF SlotsInv, AckedLoads, Kept, SealedSo
  <1> QED BY <1>1, <1>2, <1>3, SaveTypes, PTL DEF Spec
-----------------------------------------------------------------------------
(* Sums.  SumFunction adds up the values of a function, one index after    *)
(* another; how far it has come is a sum for every set of indices.         *)

One(s) == CHOOSE x \in s : TRUE

IsSums(p, f) == p = [s \in SUBSET DOMAIN f |-> IF s = {} THEN 0 ELSE f[One(s)] + p[s \ {One(s)}]]

Sums(f) == CHOOSE p : IsSums(p, f)

LEMMA SumIsLast == \A f : SumFunction(f) = Sums(f)[DOMAIN f]
  BY Zenon DEF SumFunction, SumFunctionOnSet, FoldFunctionOnSet, MapThenFoldSet, Sums, IsSums, One

LEMMA OneIn == \A s : s # {} => One(s) \in s
  BY DEF One

(* What holds of no index, and of a set of them if it does when one is     *)
(* left out, holds of all of them.                                         *)
LEMMA EverySubset ==
    ASSUME NEW S, IsFiniteSet(S), NEW Q, {} \in Q,
           \A s \in SUBSET S : s # {} /\ s \ {One(s)} \in Q => s \in Q
    PROVE  SUBSET S \subseteq Q
  <1>1. SUFFICES ASSUME NEW t \in SUBSET S, t \notin Q PROVE FALSE
    OBVIOUS
  <1> DEFINE Sizes == {Cardinality(s) : s \in (SUBSET S) \ Q}
  <1>2. \A s \in SUBSET S : IsFiniteSet(s) /\ Cardinality(s) \in Nat
    BY FS_Subset, FS_CardinalityType
  <1>3. Sizes \in SUBSET Nat /\ Sizes # {}
    BY <1>1, <1>2
  <1>4. PICK k \in Sizes : \A i \in Sizes : k <= i
    BY <1>3, LeastOne
  <1>5. PICK s \in (SUBSET S) \ Q : Cardinality(s) = k
    BY <1>4
  <1>6. s # {} /\ One(s) \in s
    BY <1>5, OneIn
  <1>7. Cardinality(s \ {One(s)}) = k - 1 /\ k \in Nat
    BY <1>2, <1>5, <1>6, FS_RemoveElement
  <1>8. s \ {One(s)} \in Q
    <2>1. SUFFICES ASSUME s \ {One(s)} \notin Q PROVE FALSE
      OBVIOUS
    <2>2. s \ {One(s)} \in (SUBSET S) \ Q
      BY <1>5, <2>1
    <2>3. k - 1 \in Sizes
      BY <1>7, <2>2
    <2> QED BY <1>4, <1>7, <2>3
  <1> QED BY <1>5, <1>6, <1>8

(* The sums of the sets of at most n indices.                              *)
UpTo(S, n) == {s \in SUBSET S : Cardinality(s) <= n}

SumsUpTo(p, f, n) ==
    p = [s \in UpTo(DOMAIN f, n) |-> IF s = {} THEN 0 ELSE f[One(s)] + p[s \ {One(s)}]]

LEMMA SumsLonger ==
    ASSUME NEW f, IsFiniteSet(DOMAIN f), NEW n \in Nat, NEW p, SumsUpTo(p, f, n)
    PROVE  \E q : SumsUpTo(q, f, n + 1)
  <1> DEFINE Next1(s) == IF s = {} THEN 0 ELSE f[One(s)] + p[s \ {One(s)}]
             q == [s \in UpTo(DOMAIN f, n + 1) |-> Next1(s)]
  <1>1. \A s \in UpTo(DOMAIN f, n) : p[s] = Next1(s)
    BY DEF SumsUpTo
  <1>2. ASSUME NEW s \in UpTo(DOMAIN f, n + 1), s # {}
        PROVE  s \ {One(s)} \in UpTo(DOMAIN f, n) /\ s \ {One(s)} \in UpTo(DOMAIN f, n + 1)
    <2>1. s \in SUBSET DOMAIN f /\ Cardinality(s) <= n + 1 /\ IsFiniteSet(s)
      BY <1>2, FS_Subset DEF UpTo
    <2>2. Cardinality(s) \in Nat
      BY <2>1, FS_CardinalityType
    <2>3. One(s) \in s
      BY <1>2, OneIn
    <2>4. Cardinality(s \ {One(s)}) = Cardinality(s) - 1
      BY <2>1, <2>3, FS_RemoveElement
    <2> QED BY <2>1, <2>2, <2>4 DEF UpTo
  <1>3. ASSUME NEW s \in UpTo(DOMAIN f, n + 1), s # {}
        PROVE  q[s \ {One(s)}] = p[s \ {One(s)}]
    <2>1. q[s \ {One(s)}] = Next1(s \ {One(s)})
      BY <1>2, <1>3
    <2>2. p[s \ {One(s)}] = Next1(s \ {One(s)})
      BY <1>1, <1>2, <1>3
    <2> QED BY <2>1, <2>2
  <1>4. \A s \in UpTo(DOMAIN f, n + 1) : Next1(s) = IF s = {} THEN 0 ELSE f[One(s)] + q[s \ {One(s)}]
    BY <1>3
  <1>5. q = [s \in UpTo(DOMAIN f, n + 1) |-> IF s = {} THEN 0 ELSE f[One(s)] + q[s \ {One(s)}]]
    BY <1>4
  <1> QED BY <1>5 DEF SumsUpTo

LEMMA SumsExist ==
    ASSUME NEW f, IsFiniteSet(DOMAIN f)
    PROVE  IsSums(Sums(f), f)
  <1> DEFINE Missing == {n \in Nat : ~ \E p : SumsUpTo(p, f, n)}
  <1>1. \A s \in SUBSET DOMAIN f : IsFiniteSet(s) /\ Cardinality(s) \in Nat
    BY FS_Subset, FS_CardinalityType
  <1>2. Missing = {}
    <2>1. SUFFICES ASSUME Missing # {} PROVE FALSE
      OBVIOUS
    <2>2. PICK k \in Missing : \A i \in Missing : k <= i
      BY <2>1, LeastOne
    <2>3. k # 0
      <3> DEFINE p == [s \in UpTo(DOMAIN f, 0) |-> 0]
      <3>1. \A s \in UpTo(DOMAIN f, 0) : s = {}
        BY <1>1, FS_EmptySet DEF UpTo
      <3>2. p = [s \in UpTo(DOMAIN f, 0) |-> IF s = {} THEN 0 ELSE f[One(s)] + p[s \ {One(s)}]]
        BY <3>1
      <3>3. \E r : SumsUpTo(r, f, 0)
        BY <3>2 DEF SumsUpTo
      <3> QED BY <3>3
    <2>4. k - 1 \in Nat /\ k - 1 \notin Missing
      BY <2>2, <2>3
    <2>5. PICK p : SumsUpTo(p, f, k - 1)
      BY <2>4
    <2>6. \E q : SumsUpTo(q, f, (k - 1) + 1)
      BY <2>4, <2>5, SumsLonger
    <2>7. (k - 1) + 1 = k
      BY <2>2
    <2> QED BY <2>2, <2>6, <2>7
  <1> DEFINE N == Cardinality(DOMAIN f)
  <1>3. N \in Nat
    BY FS_CardinalityType
  <1>4. PICK p : SumsUpTo(p, f, N)
    BY <1>2, <1>3
  <1>5. UpTo(DOMAIN f, N) = SUBSET DOMAIN f
    BY FS_Subset DEF UpTo
  <1>6. IsSums(p, f)
    BY <1>4, <1>5 DEF SumsUpTo, IsSums
  <1> QED BY <1>6 DEF Sums

(* What the sums of integers are.                                          *)
SumsAre(p, f) ==
    /\ p[{}] = 0
    /\ \A s \in SUBSET DOMAIN f :
          s # {} => One(s) \in s /\ s \ {One(s)} \in SUBSET DOMAIN f /\ p[s] = f[One(s)] + p[s \ {One(s)}]
    /\ \A s \in SUBSET DOMAIN f : p[s] \in Int

LEMMA SumsOfIntegers ==
    ASSUME NEW S, IsFiniteSet(S), NEW f \in [S -> Int]
    PROVE  SumsAre(Sums(f), f) /\ SumFunction(f) = Sums(f)[S] /\ SumFunction(f) \in Int
  <1> DEFINE p == Sums(f)
  <1>1. IsSums(p, f) /\ DOMAIN f = S
    BY SumsExist
  <1>2. SumFunction(f) = p[S]
    BY <1>1, SumIsLast
  <1> HIDE DEF p
  <1>3. p[{}] = 0
    BY <1>1 DEF IsSums
  <1>4. \A s \in SUBSET S : s # {} => One(s) \in s /\ s \ {One(s)} \in SUBSET S /\ p[s] = f[One(s)] + p[s \ {One(s)}]
    BY <1>1, OneIn DEF IsSums
  <1> DEFINE Q == {s \in SUBSET S : p[s] \in Int}
  <1>5. \A s \in SUBSET S : s # {} /\ s \ {One(s)} \in Q => s \in Q
    BY <1>4
  <1>6. {} \in Q
    BY <1>3
  <1> HIDE DEF Q
  <1>7. SUBSET S \subseteq Q
    BY <1>5, <1>6, EverySubset
  <1>8. \A s \in SUBSET S : p[s] \in Int
    BY <1>7 DEF Q
  <1> QED BY <1>1, <1>2, <1>3, <1>4, <1>8 DEF SumsAre, p

LEMMA SumOfZeros ==
    ASSUME NEW S, IsFiniteSet(S), NEW f, f = [x \in S |-> 0]
    PROVE  SumFunction(f) = 0
  <1>1. SumsAre(Sums(f), f) /\ SumFunction(f) = Sums(f)[S] /\ DOMAIN f = S
    BY SumsOfIntegers
  <1> DEFINE Q == {s \in SUBSET S : Sums(f)[s] = 0}
  <1>2. \A s \in SUBSET S : s # {} /\ s \ {One(s)} \in Q => s \in Q
    <2>1. SUFFICES ASSUME NEW s \in SUBSET S, s # {}, s \ {One(s)} \in Q PROVE s \in Q
      OBVIOUS
    <2>2. One(s) \in s /\ Sums(f)[s] = f[One(s)] + Sums(f)[s \ {One(s)}]
      BY <1>1, <2>1 DEF SumsAre
    <2>3. f[One(s)] = 0 /\ Sums(f)[s \ {One(s)}] = 0
      BY <2>1, <2>2
    <2> QED BY <2>2, <2>3
  <1>4. {} \in Q
    BY <1>1 DEF SumsAre
  <1> HIDE DEF Q
  <1>3. SUBSET S \subseteq Q
    BY <1>2, <1>4, EverySubset
  <1> QED BY <1>1, <1>3 DEF Q

LEMMA SumOfOne ==
    ASSUME NEW S, IsFiniteSet(S), NEW x \in S, NEW n \in Int, NEW f, f = [y \in S |-> IF x = y THEN n ELSE 0]
    PROVE  SumFunction(f) = n
  <1>1. SumsAre(Sums(f), f) /\ SumFunction(f) = Sums(f)[S] /\ DOMAIN f = S
    BY SumsOfIntegers
  <1> DEFINE Q == {s \in SUBSET S : Sums(f)[s] = IF x \in s THEN n ELSE 0}
  <1>2. \A s \in SUBSET S : s # {} /\ s \ {One(s)} \in Q => s \in Q
    <2>1. SUFFICES ASSUME NEW s \in SUBSET S, s # {}, s \ {One(s)} \in Q PROVE s \in Q
      OBVIOUS
    <2>2. One(s) \in s /\ Sums(f)[s] = f[One(s)] + Sums(f)[s \ {One(s)}]
      BY <1>1, <2>1 DEF SumsAre
    <2>3. /\ f[One(s)] = IF x = One(s) THEN n ELSE 0
          /\ Sums(f)[s \ {One(s)}] = IF x \in s /\ x # One(s) THEN n ELSE 0
      BY <2>1, <2>2
    <2> QED BY <2>2, <2>3
  <1>4. {} \in Q
    BY <1>1 DEF SumsAre
  <1> HIDE DEF Q
  <1>3. SUBSET S \subseteq Q
    BY <1>2, <1>4, EverySubset
  <1> QED BY <1>1, <1>3 DEF Q

LEMMA SumOfSums ==
    ASSUME NEW S, IsFiniteSet(S), NEW f \in [S -> Int], NEW g \in [S -> Int], NEW h, h = [x \in S |-> f[x] + g[x]]
    PROVE  SumFunction(h) = SumFunction(f) + SumFunction(g)
  <1>1. SumsAre(Sums(f), f) /\ SumFunction(f) = Sums(f)[S] /\ DOMAIN f = S
    BY SumsOfIntegers
  <1>2. SumsAre(Sums(g), g) /\ SumFunction(g) = Sums(g)[S] /\ DOMAIN g = S
    BY SumsOfIntegers
  <1>3. SumsAre(Sums(h), h) /\ SumFunction(h) = Sums(h)[S] /\ DOMAIN h = S
    BY SumsOfIntegers
  <1> DEFINE Q == {s \in SUBSET S : Sums(h)[s] = Sums(f)[s] + Sums(g)[s]}
  <1>4. {} \in Q
    BY <1>1, <1>2, <1>3 DEF SumsAre
  <1>5. ASSUME NEW s \in SUBSET S, s # {}, s \ {One(s)} \in Q PROVE s \in Q
    <2>1. One(s) \in s /\ Sums(f)[s] = f[One(s)] + Sums(f)[s \ {One(s)}] /\ Sums(f)[s \ {One(s)}] \in Int
      BY <1>1, <1>5 DEF SumsAre
    <2>2. Sums(g)[s] = g[One(s)] + Sums(g)[s \ {One(s)}] /\ Sums(g)[s \ {One(s)}] \in Int
      BY <1>2, <1>5 DEF SumsAre
    <2>3. Sums(h)[s] = h[One(s)] + Sums(h)[s \ {One(s)}]
      BY <1>3, <1>5 DEF SumsAre
    <2>4. h[One(s)] = f[One(s)] + g[One(s)] /\ f[One(s)] \in Int /\ g[One(s)] \in Int
      BY <2>1
    <2> QED BY <1>5, <2>1, <2>2, <2>3, <2>4
  <1> HIDE DEF Q
  <1>6. SUBSET S \subseteq Q
    BY <1>4, <1>5, EverySubset
  <1> QED BY <1>1, <1>2, <1>3, <1>6 DEF Q

(* A table adds up to the same by rows and by columns.                     *)
LEMMA SumByColumns ==
    ASSUME NEW S, IsFiniteSet(S), NEW T, IsFiniteSet(T), NEW F \in [S -> [T -> Int]]
    PROVE  /\ SumFunction([x \in S |-> SumFunction(F[x])])
              = SumFunction([y \in T |-> SumFunction([x \in S |-> F[x][y]])])
           /\ \A y \in T : SumFunction([x \in S |-> F[x][y]]) \in Int
  <1> DEFINE rows == [x \in S |-> SumFunction(F[x])]
             Column(y) == [x \in S |-> F[x][y]]
             P(s) == [y \in T |-> Sums(Column(y))[s]]
  <1>1. \A x \in S : F[x] \in [T -> Int] /\ SumFunction(F[x]) \in Int
    BY SumsOfIntegers
  <1>2. rows \in [S -> Int]
    BY <1>1
  <1>3. SumsAre(Sums(rows), rows) /\ SumFunction(rows) = Sums(rows)[S] /\ DOMAIN rows = S
    BY <1>2, SumsOfIntegers
  <1>4. ASSUME NEW y \in T
        PROVE  /\ SumsAre(Sums(Column(y)), Column(y)) /\ SumFunction(Column(y)) = Sums(Column(y))[S]
               /\ SumFunction(Column(y)) \in Int /\ DOMAIN Column(y) = S
               /\ \A x \in S : Column(y)[x] = F[x][y]
    <2>1. Column(y) \in [S -> Int]
      BY <1>1, <1>4
    <2> QED BY <2>1, SumsOfIntegers
  <1>5. \A x \in S : rows[x] = SumFunction(F[x])
    OBVIOUS
  <1> HIDE DEF rows, Column
  <1> DEFINE Q == {s \in SUBSET S : Sums(rows)[s] = SumFunction(P(s))}
  <1>6. {} \in Q
    <2>1. P({}) = [y \in T |-> 0]
      BY <1>4 DEF SumsAre
    <2>2. SumFunction(P({})) = 0
      BY <2>1, SumOfZeros
    <2>3. Sums(rows)[{}] = 0
      BY <1>3 DEF SumsAre
    <2> QED BY <2>2, <2>3
  <1>7. ASSUME NEW s \in SUBSET S, s # {}, s \ {One(s)} \in Q PROVE s \in Q
    <2>1. PICK x, r : x = One(s) /\ r = s \ {One(s)}
      OBVIOUS
    <2>2. x \in S /\ r \in SUBSET S /\ Sums(rows)[s] = SumFunction(F[x]) + Sums(rows)[r]
      BY <1>3, <1>5, <1>7, <2>1 DEF SumsAre
    <2>3. ASSUME NEW y \in T
          PROVE  Sums(Column(y))[s] = F[x][y] + Sums(Column(y))[r] /\ Sums(Column(y))[r] \in Int
      <3>1. SumsAre(Sums(Column(y)), Column(y)) /\ DOMAIN Column(y) = S /\ Column(y)[x] = F[x][y]
        BY <1>4, <2>2
      <3> QED BY <1>7, <2>1, <2>2, <3>1 DEF SumsAre
    <2>4. P(r) \in [T -> Int]
      BY <2>3
    <2>5. P(s) = [y \in T |-> F[x][y] + P(r)[y]]
      BY <2>3
    <2> HIDE DEF P
    <2>6. SumFunction(P(s)) = SumFunction(F[x]) + SumFunction(P(r))
      BY <1>1, <2>2, <2>4, <2>5, SumOfSums
    <2>7. Sums(rows)[r] = SumFunction(P(r))
      BY <1>7, <2>1
    <2> QED BY <2>2, <2>6, <2>7
  <1> HIDE DEF Q
  <1>8. SUBSET S \subseteq Q
    BY <1>6, <1>7, EverySubset
  <1>9. Sums(rows)[S] = SumFunction(P(S))
    BY <1>8 DEF Q
  <1>10. P(S) = [y \in T |-> SumFunction(Column(y))]
    BY <1>4
  <1>11. SumFunction(rows) = SumFunction([y \in T |-> SumFunction(Column(y))])
    BY <1>3, <1>9, <1>10
  <1> QED BY <1>4, <1>11 DEF rows, Column
-----------------------------------------------------------------------------
(* Books.  What the ledger makes verifies, and what verifies adds up to    *)
(* zero over its accounts.                                                 *)

Summable(postings) == IsFiniteSet(DOMAIN postings) /\ \A i \in DOMAIN postings : postings[i].amount \in Int

SoundBook(book) == IsBook(book) /\ Verify(book) /\ \A i \in DOMAIN book.entries : Summable(book.entries[i].postings)

(* Rounding what is rounded changes nothing.                               *)
LEMMA RoundedOnce == \A x \in Int : Amount(x) \in Int /\ 10 * Amount(x) \in Int /\ Amount(10 * Amount(x)) = Amount(x)
  <1>1. \A x \in Int : Amount(x) \in Int
    BY DEF Amount
  <1>2. \A n \in Int : 10 * n \in Int /\ Amount(10 * n) = n
    <2>1. \A n \in Nat : (10 * n + 5) \div 10 = n
      OBVIOUS
    <2>2. \A n \in Int : n >= 0 => 10 * n >= 0 /\ (10 * n + 5) \div 10 = n
      BY <2>1
    <2>3. \A n \in Int : n < 0 => 10 * n < 0 /\ (5 - 10 * n) \div 10 = -n
      OBVIOUS
    <2> QED BY <2>2, <2>3 DEF Amount
  <1> QED BY <1>1, <1>2

LEMMA KeptRows ==
    ASSUME NEW postings, IsRows(postings)
    PROVE  Summable(Normalized(postings)) /\ Total(Normalized(postings)) = Total(postings)
  <1>1. \A i \in DOMAIN postings : postings[i] \in [account : {postings[i].account}, amount : Int]
    BY DEF IsRows, ToSet
  <1>2. \A i \in DOMAIN postings : Normalized(postings)[i].amount = 10 * Amount(postings[i].amount)
                                   /\ postings[i].amount \in Int
    BY <1>1 DEF Normalized
  <1>3. DOMAIN Normalized(postings) = DOMAIN postings
    BY DEF Normalized
  <1>4. IsFiniteSet(DOMAIN postings)
    <2>1. DOMAIN postings = 1 .. Len(postings) /\ Len(postings) \in Nat
      BY DEF IsRows
    <2> QED BY <2>1, FS_Interval
  <1>5. \A i \in DOMAIN postings : /\ Normalized(postings)[i].amount \in Int
                                   /\ Amount(Normalized(postings)[i].amount) = Amount(postings[i].amount)
    BY <1>2, RoundedOnce
  <1>6. Summable(Normalized(postings))
    BY <1>3, <1>4, <1>5 DEF Summable
  <1>7. [i \in DOMAIN Normalized(postings) |-> Amount(Normalized(postings)[i].amount)]
           = [i \in DOMAIN postings |-> Amount(postings[i].amount)]
    BY <1>3, <1>5
  <1> QED BY <1>6, <1>7 DEF Total

LEMMA SharesAddUp ==
    ASSUME NEW e, Summable(e.postings), NEW S, IsFiniteSet(S), \A i \in DOMAIN e.postings : e.postings[i].account \in S
    PROVE  /\ \A a \in S : Share(e, a) \in Int
           /\ SumFunction([a \in S |-> Share(e, a)]) = Total(e.postings)
  <1> DEFINE D == DOMAIN e.postings
             amount(i) == Amount(e.postings[i].amount)
             F == [i \in D |-> [a \in S |-> IF e.postings[i].account = a THEN amount(i) ELSE 0]]
  <1>1. IsFiniteSet(D) /\ \A i \in D : amount(i) \in Int /\ e.postings[i].account \in S
    BY RoundedOnce DEF Summable
  <1>2. F \in [D -> [S -> Int]]
    BY <1>1
  <1>3. \A i \in D : F[i] = [a \in S |-> IF e.postings[i].account = a THEN amount(i) ELSE 0]
    OBVIOUS
  <1>4. \A i \in D : SumFunction(F[i]) = amount(i)
    BY <1>1, <1>3, SumOfOne
  <1>5. ASSUME NEW a \in S PROVE Share(e, a) = SumFunction([i \in D |-> F[i][a]])
    <2>1. [i \in D |-> F[i][a]] = [i \in D |-> IF e.postings[i].account = a THEN amount(i) ELSE 0]
      OBVIOUS
    <2> QED BY <2>1 DEF Share
  <1>6. Total(e.postings) = SumFunction([i \in D |-> SumFunction(F[i])])
    BY <1>4 DEF Total
  <1> HIDE DEF F, D
  <1>7. /\ SumFunction([i \in D |-> SumFunction(F[i])]) = SumFunction([a \in S |-> SumFunction([i \in D |-> F[i][a]])])
        /\ \A a \in S : SumFunction([i \in D |-> F[i][a]]) \in Int
    BY <1>1, <1>2, SumByColumns
  <1>8. [a \in S |-> Share(e, a)] = [a \in S |-> SumFunction([i \in D |-> F[i][a]])]
    BY <1>5
  <1> QED BY <1>5, <1>6, <1>7, <1>8

LEMMA FewAccounts ==
    ASSUME NEW book, SoundBook(book)
    PROVE  /\ IsFiniteSet(DOMAIN book.entries) /\ IsFiniteSet(Accounts(book))
           /\ \A i \in DOMAIN book.entries :
                 \A j \in DOMAIN book.entries[i].postings : book.entries[i].postings[j].account \in Accounts(book)
  <1> DEFINE es == book.entries
             rows == UNION {ToSet(e.postings) : e \in ToSet(es)}
  <1>1. DOMAIN es = 1 .. Len(es) /\ Len(es) \in Nat
    BY DEF SoundBook, IsBook
  <1>2. IsFiniteSet(DOMAIN es)
    BY <1>1, FS_Interval
  <1>3. IsFiniteSet({ToSet(e.postings) : e \in ToSet(es)})
    <2> DEFINE m == [i \in DOMAIN es |-> ToSet(es[i].postings)]
    <2>1. {m[i] : i \in DOMAIN es} = {ToSet(e.postings) : e \in ToSet(es)}
      <3>1. \A i \in DOMAIN es : m[i] = ToSet(es[i].postings)
        OBVIOUS
      <3>2. \A e : e \in ToSet(es) <=> \E i \in DOMAIN es : e = es[i]
        BY DEF ToSet
      <3> HIDE DEF m, es
      <3> QED BY <3>1, <3>2
    <2> HIDE DEF m
    <2> QED BY <1>2, <2>1, ImageSize
  <1>4. \A i \in DOMAIN es : IsFiniteSet(ToSet(es[i].postings))
    BY ImageSize DEF SoundBook, Summable, ToSet
  <1>5. IsFiniteSet(rows)
    <2>1. \A t \in {ToSet(e.postings) : e \in ToSet(es)} : IsFiniteSet(t)
      BY <1>4 DEF ToSet
    <2> HIDE DEF es
    <2> QED BY <1>3, <2>1, FS_UNION
  <1>6. IsFiniteSet({row.account : row \in rows})
    <2> DEFINE m == [row \in rows |-> row.account]
    <2>1. {m[row] : row \in rows} = {row.account : row \in rows}
      OBVIOUS
    <2> HIDE DEF m, rows
    <2> QED BY <1>5, <2>1, ImageSize
  <1>7. ASSUME NEW i \in DOMAIN es, NEW j \in DOMAIN es[i].postings PROVE es[i].postings[j].account \in Accounts(book)
    <2>1. es[i] \in ToSet(es) /\ es[i].postings[j] \in ToSet(es[i].postings)
      BY DEF ToSet
    <2>2. es[i].postings[j] \in rows
      BY <2>1
    <2> QED BY <2>2 DEF Accounts
  <1> QED BY <1>2, <1>6, <1>7 DEF Accounts

LEMMA AccountsAddUp ==
    ASSUME NEW book, SoundBook(book)
    PROVE  SumFunction([a \in Accounts(book) |-> Balance(book, a)]) = 0
  <1> DEFINE S == Accounts(book)
             D == DOMAIN book.entries
             F == [i \in D |-> [a \in S |-> Share(book.entries[i], a)]]
  <1>1. IsFiniteSet(S) /\ IsFiniteSet(D)
    BY FewAccounts
  <1>2. ASSUME NEW i \in D
        PROVE  /\ \A a \in S : Share(book.entries[i], a) \in Int
               /\ SumFunction([a \in S |-> Share(book.entries[i], a)]) = Total(book.entries[i].postings)
               /\ Total(book.entries[i].postings) = 0
    <2>1. Summable(book.entries[i].postings) /\ Total(book.entries[i].postings) = 0
      BY DEF SoundBook, Verify
    <2>2. \A j \in DOMAIN book.entries[i].postings : book.entries[i].postings[j].account \in S
      BY FewAccounts
    <2> QED BY <1>1, <2>1, <2>2, SharesAddUp
  <1>3. F \in [D -> [S -> Int]] /\ \A i \in D : SumFunction(F[i]) = 0
    BY <1>2
  <1>4. \A a \in S : Balance(book, a) = SumFunction([i \in D |-> F[i][a]])
    <2>1. SUFFICES ASSUME NEW a \in S PROVE Balance(book, a) = SumFunction([i \in D |-> F[i][a]])
      OBVIOUS
    <2>2. [i \in D |-> F[i][a]] = [i \in D |-> Share(book.entries[i], a)]
      OBVIOUS
    <2> QED BY <2>2 DEF Balance
  <1> HIDE DEF F, D, S
  <1>5. SumFunction([i \in D |-> SumFunction(F[i])]) = SumFunction([a \in S |-> SumFunction([i \in D |-> F[i][a]])])
    BY <1>1, <1>3, SumByColumns
  <1>6. [i \in D |-> SumFunction(F[i])] = [i \in D |-> 0]
    BY <1>3
  <1>7. [a \in S |-> Balance(book, a)] = [a \in S |-> SumFunction([i \in D |-> F[i][a]])]
    BY <1>4
  <1>8. SumFunction([i \in D |-> SumFunction(F[i])]) = 0
    BY <1>1, <1>6, SumOfZeros
  <1>9. SumFunction([a \in S |-> Balance(book, a)]) = 0
    BY <1>5, <1>7, <1>8
  <1> QED BY <1>9 DEF S

LEMMA CreateIsSound == SoundBook(Create)
  <1>1. DOMAIN Create.entries = {} /\ Len(Create.entries) = 0 /\ Create.head = Genesis
    BY DEF Create
  <1>2. Verify(Create)
    BY <1>1 DEF Verify
  <1> QED BY <1>1, <1>2, CreateIsBook DEF SoundBook

(* What verify asks of an entry.                                           *)
Prior(es, i) == IF i = 1 THEN Genesis ELSE HashOf(es[i - 1])

LinkOk(es, i) ==
    /\ \A j \in 1 .. i - 1 : es[j].id # es[i].id
    /\ es[i].previous = Prior(es, i)
    /\ Total(es[i].postings) = 0
    /\ es[i].hash = HashOf(es[i])

LEMMA LinksVerify ==
    \A book : Verify(book) <=> /\ \A i \in DOMAIN book.entries : LinkOk(book.entries, i)
                              /\ book.head = Prior(book.entries, Len(book.entries) + 1)
  BY DEF Verify, LinkOk, Prior

LEMMA PostIsSound ==
    ASSUME NEW book, SoundBook(book), NEW id, NEW postings, IsRows(postings), CanPost(book, id, postings)
    PROVE  SoundBook(Post(book, id, postings))
  <1> DEFINE after == Post(book, id, postings)
             entry == [id |-> id, postings |-> Normalized(postings), previous |-> book.head, hash |-> after.head]
             n == Len(book.entries)
  <1>1. after = [entries |-> Append(book.entries, entry), head |-> HashOf(entry)] /\ entry.hash = HashOf(entry)
    BY DEF Post, HashOf
  <1>2. entry.id = id /\ entry.previous = book.head /\ entry.postings = Normalized(postings)
    OBVIOUS
  <1>3. IsBook(after)
    BY PostIsBook DEF SoundBook
  <1> HIDE DEF after, entry
  <1>4. PICK S : book.entries \in Seq(S)
    BY DEF SoundBook, IsBook
  <1>5. after.entries = Append(book.entries, entry) /\ after.head = HashOf(entry)
    BY <1>1
  <1>6. /\ n \in Nat /\ Len(after.entries) = n + 1 /\ DOMAIN after.entries = 1 .. n + 1
        /\ DOMAIN book.entries = 1 .. n
        /\ \A i \in 1 .. n : after.entries[i] = book.entries[i]
        /\ after.entries[n + 1] = entry
    BY <1>4, <1>5, LongerByOne
  <1> HIDE DEF n
  <1>7. Total(entry.postings) = 0 /\ Summable(entry.postings)
    BY <1>2, KeptRows DEF CanPost
  <1>8. \A i \in 1 .. n : book.entries[i].id # id
    BY <1>6 DEF CanPost
  <1>9. /\ \A i \in 1 .. n : LinkOk(book.entries, i)
        /\ book.head = Prior(book.entries, n + 1)
    BY <1>6, LinksVerify DEF SoundBook, n
  <1>10. \A i \in 1 .. n : LinkOk(after.entries, i)
    <2>1. SUFFICES ASSUME NEW i \in 1 .. n PROVE LinkOk(after.entries, i)
      OBVIOUS
    <2>2. LinkOk(book.entries, i) /\ after.entries[i] = book.entries[i]
      BY <1>6, <1>9
    <2>3. \A j \in 1 .. i - 1 : after.entries[j] = book.entries[j]
      BY <1>6
    <2>4. Prior(after.entries, i) = Prior(book.entries, i)
      BY <1>6 DEF Prior
    <2> QED BY <2>2, <2>3, <2>4 DEF LinkOk
  <1>11. LinkOk(after.entries, n + 1)
    <2>1. Prior(after.entries, n + 1) = Prior(book.entries, n + 1)
      BY <1>6 DEF Prior
    <2>2. \A j \in 1 .. (n + 1) - 1 : after.entries[j].id # entry.id
      BY <1>2, <1>6, <1>8
    <2> QED BY <1>1, <1>2, <1>6, <1>7, <1>9, <2>1, <2>2 DEF LinkOk
  <1>12. Verify(after)
    <2>1. after.head = Prior(after.entries, Len(after.entries) + 1)
      BY <1>5, <1>6 DEF Prior
    <2>2. \A i \in DOMAIN after.entries : LinkOk(after.entries, i)
      BY <1>6, <1>10, <1>11
    <2> QED BY <2>1, <2>2, LinksVerify
  <1>13. \A i \in DOMAIN after.entries : Summable(after.entries[i].postings)
    BY <1>6, <1>7 DEF SoundBook
  <1>14. SoundBook(after)
    BY <1>3, <1>12, <1>13 DEF SoundBook
  <1> QED BY <1>14 DEF after

BooksInv == \A book \in made : SoundBook(book)

LEMMA BooksStep ==
    ASSUME SaveTypeOK, BooksInv, [Next]_vars
    PROVE  BooksInv'
  <1>1. CASE made' = made
    BY <1>1 DEF BooksInv
  <1>2. ASSUME NEW g \in Games, SaveSet(g), made' # made PROVE BooksInv'
    <2>1. PICK tx \in Transactions : CanPost(buf[g].book, tx.id, tx.postings)
                                     /\ made' = made \cup {Post(buf[g].book, tx.id, tx.postings)}
      BY <1>2 DEF SaveSet
    <2>2. PICK book \in made : book = buf[g].book
      BY DEF SaveTypeOK, GamesOk, Payloads
    <2>3. IsRows(tx.postings)
      BY SaveAssumption
    <2>4. SoundBook(Post(book, tx.id, tx.postings))
      BY <2>1, <2>2, <2>3, PostIsSound DEF BooksInv
    <2> QED BY <2>1, <2>2, <2>4 DEF BooksInv
  <1>3. \/ made' = made
        \/ \E g \in Games : SaveSet(g)
    BY DEF Next, vars, past, Edit, Launch, Enter, Begin, OpenSecret, WriteSecret, PlaceSecret, SaveInit, SaveClear,
           AskServer, OpenSave, WriteSave, PlaceSave, SaveLoad, SaveLoadSigned, SaveDelete, Store, Restore, Crash
  <1> QED BY <1>1, <1>2, <1>3

(* Every book that a game holds can be verified and its accounts sum to    *)
(* zero, whatever it posted, saved, loaded and read: _amount rounds each   *)
(* row by itself, and post adds up what it keeps.                          *)
THEOREM BooksAlwaysBalance == Spec => []BooksBalance
  <1>1. Init => BooksInv
    BY CreateIsSound DEF Init, BooksInv
  <1>2. SaveTypeOK /\ BooksInv /\ [Next]_vars => BooksInv'
    BY BooksStep
  <1>3. SaveTypeOK /\ BooksInv => BooksBalance
    <2>1. SUFFICES ASSUME SaveTypeOK, BooksInv, NEW g \in Games
                   PROVE  /\ Verify(buf[g].book)
                          /\ SumFunction([a \in Accounts(buf[g].book) |-> Balance(buf[g].book, a)]) = 0
      BY DEF BooksBalance
    <2>2. PICK book : book = buf[g].book /\ SoundBook(book)
      BY <2>1 DEF SaveTypeOK, GamesOk, Payloads, BooksInv
    <2>3. Verify(book) /\ SumFunction([a \in Accounts(book) |-> Balance(book, a)]) = 0
      BY <2>2, AccountsAddUp DEF SoundBook
    <2> QED BY <2>2, <2>3
  <1> QED BY <1>1, <1>2, <1>3, SaveTypes, PTL DEF Spec
=============================================================================

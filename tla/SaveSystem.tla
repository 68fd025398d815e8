----------------------------- MODULE SaveSystem -----------------------------
(***************************************************************************)
(* Encrypted saves of games (src/src/mellowlang/save_core.py and the save  *)
(* builtins in vm/interp/call_save.py).  Several games, processes of one   *)
(* app id on one machine, share a device secret and a directory of slots.  *)
(* Every builtin reads the secret afresh, and makes one if there is none.  *)
(* Files are written to a temporary name, which is the same for every      *)
(* process, and then renamed.                                              *)
(*                                                                         *)
(* What the games keep is a book of the Ledger.  They also pass it on in   *)
(* plain JSON (save_data, load_data), which somebody may edit.             *)
(*                                                                         *)
(* The encryption authenticates: a blob opens with the secret and the slot *)
(* name it was sealed with and with nothing else.  Left out: app ids, the  *)
(* size quota, network and file permissions, the format of the bytes.      *)
(***************************************************************************)
EXTENDS Ledger, TLC

CONSTANTS
    Games,          \* processes
    FileNames,      \* the names of their files, sorted
    File(_),        \* the name a slot's file gets
    MaxSlots,       \* save_slots_max
    Transactions,   \* what games post: records of id and postings
    Script(_),      \* game -> what it may call first, second, ...: records of op and slot,
                    \* which for a set is the id of the transaction posted
    MaxFaults,      \* games killed and edits of the plain book
    None, Torn

Files == ToSet(FileNames)

(* Rows have an account and a number for amount: other rows are refused.   *)
IsRows(postings) ==
    /\ postings \in Seq(ToSet(postings))
    /\ \A row \in ToSet(postings) : row \in [account : {row.account}, amount : Int]

SlotOps == {"commit", "commit signed", "load", "load signed", "delete"}

(* A file's own name, less its extension, is a slot name that gets that    *)
(* file; a limit of 0 slots stands for 10.                                 *)
ASSUME SaveAssumption ==
    /\ IsFiniteSet(Games) /\ MaxSlots \in Nat \ {0} /\ MaxFaults \in Nat
    /\ \A i, k \in DOMAIN FileNames : FileNames[i] = FileNames[k] => i = k
    /\ FileNames \in Seq(Files) /\ \A f \in Files : File(f) = f
    /\ \A g \in Games : \A c \in UNION ToSet(Script(g)) : c.op \in SlotOps => File(c.slot) \in Files
    /\ \A tx \in Transactions : IsRows(tx.postings)
    /\ Torn \notin Nat
    /\ \A o \in SUBSET Games : None # [open |-> o, text |-> Torn]

VARIABLES
    secret,         \* .device_secret
    secretTmp,      \* its temporary file
    secrets,        \* how many secrets were made
    saves,          \* file name -> the slot's file
    tmps,           \* file name -> its temporary file
    plain,          \* the book in plain JSON
    pc,             \* game -> what it does next
    call,           \* game -> the builtin it runs
    key,            \* game -> the secret this builtin has read or made
    buf,            \* game -> save_buffer
    signature,      \* game -> what the signing server answered
    called,         \* game -> how far in its script it is
    faults,
    (* What happened, for the properties and their proofs.                 *)
    made,           \* books the ledger made
    signed,         \* payloads the server signed
    sealed,         \* <<slot, book>> a commit has begun to write
    acked,          \* file name -> the commit last acknowledged, or None
    mixed,          \* files that two games were writing at a time
    stored          \* the book last stored in plain JSON

disk == <<secret, secretTmp, secrets, saves, tmps, plain>>
game == <<pc, call, key, buf, signature, called>>
past == <<made, signed, sealed, acked, mixed, stored>>
vars == <<disk, game, faults, past>>

(* A payload: the book and the key $signature, which a load leaves in the  *)
(* buffer.  A signature is the payload it was made for.                    *)
Empty == [book |-> Create, mark |-> None]

NoCall == [op |-> "none", slot |-> None]

Init ==
    /\ secret = None /\ secretTmp = None /\ secrets = 0
    /\ saves = [f \in Files |-> None] /\ tmps = [f \in Files |-> None]
    /\ plain = None
    /\ pc = [g \in Games |-> "off"]
    /\ call = [g \in Games |-> NoCall]
    /\ key = [g \in Games |-> None]
    /\ buf = [g \in Games |-> Empty]
    /\ signature = [g \in Games |-> None]
    /\ called = [g \in Games |-> 0]
    /\ faults = 0
    /\ made = {Create} /\ signed = {} /\ sealed = {}
    /\ acked = [f \in Files |-> None]
    /\ mixed = {} /\ stored = Create

-----------------------------------------------------------------------------
(* Files.  A file has a text, Torn until the write that was begun last   *)
(* is finished, and the games that have it open for writing.  It keeps     *)
(* them when it is renamed: what they still write goes to its new name.    *)

Writers(file) == IF file = None THEN {} ELSE file.open

Opened(file, g) == [open |-> Writers(file) \cup {g}, text |-> Torn]

Closed(file, g) == IF file = None THEN None ELSE [file EXCEPT !.open = @ \ {g}]

(* A write over what another game wrote since may leave a mixture.         *)
Written(file, g, text) ==
    IF g \notin Writers(file) THEN {file}
    ELSE {[open |-> file.open \ {g}, text |-> t] : t \in IF file.text = Torn THEN {text} ELSE {text, Torn}}

At(g, label) == pc[g] = label
In(g, op) == pc[g] = "work" /\ call[g].op = op
Goto(g, label) == pc' = [pc EXCEPT ![g] = label]
FileOf(g) == File(call[g].slot)

(* An error that the script does not catch ends it.                        *)
Stop(g) ==
    /\ Goto(g, "off")
    /\ buf' = [buf EXCEPT ![g] = Empty]
    /\ call' = [call EXCEPT ![g] = NoCall]
    /\ key' = [key EXCEPT ![g] = None]
    /\ signature' = [signature EXCEPT ![g] = None]
    /\ UNCHANGED called

(* The builtin returns.                                                    *)
Return(g, payload) ==
    /\ Goto(g, "idle")
    /\ buf' = [buf EXCEPT ![g] = payload]
    /\ call' = [call EXCEPT ![g] = NoCall]
    /\ key' = [key EXCEPT ![g] = None]
    /\ signature' = [signature EXCEPT ![g] = None]
    /\ UNCHANGED called

-----------------------------------------------------------------------------
(* _load_or_create_device_secret, with which each builtin begins.          *)

Making(h) == pc[h] \in {"open secret", "write secret", "place secret"}

HasSecret == IF secret = None THEN FALSE ELSE secret.text # Torn

Begin(g, c) ==
    /\ call' = [call EXCEPT ![g] = c]
    /\ IF HasSecret
       THEN key' = [key EXCEPT ![g] = secret.text] /\ Goto(g, "work") /\ UNCHANGED mixed
       ELSE /\ Goto(g, "open secret")
            /\ mixed' = IF \E h \in Games \ {g} : Making(h) THEN mixed \cup {"secret"} ELSE mixed
            /\ UNCHANGED key
    /\ UNCHANGED <<disk, buf, signature, faults, made, signed, sealed, acked, stored>>

(* A script calls save_init first.                                         *)
Launch(g) == At(g, "off") /\ Begin(g, [op |-> "init", slot |-> None]) /\ UNCHANGED called

Calls(g, c) ==
    /\ At(g, "idle")
    /\ called[g] < Len(Script(g))
    /\ c \in Script(g)[called[g] + 1]
    /\ called' = [called EXCEPT ![g] = @ + 1]

Enter(g) ==
    \E c \in UNION ToSet(Script(g)) : c.op \notin {"store", "restore"} /\ Calls(g, c) /\ Begin(g, c)

OpenSecret(g) ==
    /\ At(g, "open secret")
    /\ secretTmp' = Opened(secretTmp, g)
    /\ Goto(g, "write secret")
    /\ UNCHANGED <<secret, secrets, saves, tmps, plain, call, key, buf, signature, called, faults, past>>

(* 32 random bytes: no other secret is the same.  The next write is as     *)
(* long, so that none leaves a mixture.                                    *)
WriteSecret(g) ==
    LET Filled(file) == IF g \in Writers(file) THEN [open |-> file.open \ {g}, text |-> secrets + 1] ELSE file
    IN  /\ At(g, "write secret")
        /\ secrets' = secrets + 1
        /\ key' = [key EXCEPT ![g] = secrets + 1]
        /\ secretTmp' = Filled(secretTmp)
        /\ secret' = Filled(secret)
        /\ Goto(g, "place secret")
        /\ UNCHANGED <<saves, tmps, plain, call, buf, signature, called, faults, past>>

PlaceSecret(g) ==
    /\ At(g, "place secret")
    /\ IF secretTmp = None THEN Stop(g) /\ UNCHANGED disk
       ELSE /\ secret' = secretTmp
            /\ secretTmp' = None
            /\ Goto(g, "work")
            /\ UNCHANGED <<secrets, saves, tmps, plain, call, key, buf, signature, called>>
    /\ UNCHANGED <<faults, past>>

-----------------------------------------------------------------------------
(* The builtins that touch the buffer only.                                *)

SaveInit(g) ==
    /\ In(g, "init")
    /\ Return(g, Empty)
    /\ UNCHANGED <<disk, faults, past>>

SaveClear(g) ==
    /\ In(g, "clear")
    /\ Return(g, Empty)
    /\ UNCHANGED <<disk, faults, past>>

(* save_set of what ledger_post makes of the book.                         *)
SaveSet(g) ==
    /\ In(g, "set")
    /\ \E tx \in {t \in Transactions : t.id = call[g].slot} :
          LET book == buf[g].book
              posted == Post(book, tx.id, tx.postings)
          IN  IF CanPost(book, tx.id, tx.postings)
              THEN Return(g, [buf[g] EXCEPT !.book = posted]) /\ made' = made \cup {posted}
              ELSE Stop(g) /\ UNCHANGED made
    /\ UNCHANGED <<disk, faults, signed, sealed, acked, mixed, stored>>

-----------------------------------------------------------------------------
(* save_commit and save_commit_signed.                                     *)

(* The server signs the hash of the payload; its answer may get lost.      *)
AskServer(g) ==
    /\ In(g, "commit signed")
    /\ signed' = signed \cup {buf[g]}
    /\ \/ /\ signature' = [signature EXCEPT ![g] = buf[g]]
          /\ Goto(g, "signed")
          /\ UNCHANGED <<call, key, buf, called>>
       \/ Stop(g)
    /\ UNCHANGED <<disk, faults, made, sealed, acked, mixed, stored>>

Existing == {f \in Files : saves[f] # None}

Before(f) == {h \in Existing : \E i, k \in DOMAIN FileNames : i < k /\ FileNames[i] = h /\ FileNames[k] = f}

(* The first ones, as many as there may be.                                *)
ListSlots == {f \in Existing : Cardinality(Before(f)) < MaxSlots}

Writing(h, f) == IF pc[h] \in {"write", "place"} THEN FileOf(h) = f ELSE FALSE

(* Mutant: one slot too many.                                              *)
HasRoom_OneMore(slot) == slot \in ListSlots \/ Cardinality(ListSlots) <= MaxSlots

HasRoom(slot) == slot \in ListSlots \/ Cardinality(ListSlots) < MaxSlots

(* Mutant: removes the old file before it writes the new one.              *)
OpenSave_RemovesFirst(g) ==
    /\ In(g, "commit") \/ At(g, "signed")
    /\ IF ~HasRoom(call[g].slot) THEN Stop(g) /\ UNCHANGED <<saves, tmps, sealed, mixed>>
       ELSE /\ tmps' = [tmps EXCEPT ![FileOf(g)] = Opened(@, g)]
            /\ saves' = [saves EXCEPT ![FileOf(g)] = None]
            /\ sealed' = sealed \cup {<<call[g].slot, buf[g].book>>}
            /\ mixed' = IF \E h \in Games \ {g} : Writing(h, FileOf(g)) THEN mixed \cup {FileOf(g)} ELSE mixed
            /\ Goto(g, "write")
            /\ UNCHANGED <<call, key, buf, signature, called>>
    /\ UNCHANGED <<secret, secretTmp, secrets, plain, faults, made, signed, acked, stored>>

(* The quota is checked before the slot's file is there.                   *)
OpenSave(g) ==
    /\ In(g, "commit") \/ At(g, "signed")
    /\ IF ~HasRoom(call[g].slot) THEN Stop(g) /\ UNCHANGED <<tmps, sealed, mixed>>
       ELSE /\ tmps' = [tmps EXCEPT ![FileOf(g)] = Opened(@, g)]
            /\ sealed' = sealed \cup {<<call[g].slot, buf[g].book>>}
            /\ mixed' = IF \E h \in Games \ {g} : Writing(h, FileOf(g)) THEN mixed \cup {FileOf(g)} ELSE mixed
            /\ Goto(g, "write")
            /\ UNCHANGED <<call, key, buf, signature, called>>
    /\ UNCHANGED <<secret, secretTmp, secrets, saves, plain, faults, made, signed, acked, stored>>

Blob(g) == [secret |-> key[g], slot |-> call[g].slot, data |-> buf[g], sig |-> signature[g]]

WriteSave(g) ==
    /\ At(g, "write")
    /\ \E t \in Written(tmps[FileOf(g)], g, Blob(g)), s \in Written(saves[FileOf(g)], g, Blob(g)) :
          /\ tmps' = [tmps EXCEPT ![FileOf(g)] = t]
          /\ saves' = [saves EXCEPT ![FileOf(g)] = s]
    /\ Goto(g, "place")
    /\ UNCHANGED <<secret, secretTmp, secrets, plain, call, key, buf, signature, called, faults, past>>

PlaceSave(g) ==
    /\ At(g, "place")
    /\ IF tmps[FileOf(g)] = None THEN Stop(g) /\ UNCHANGED <<disk, acked>>
       ELSE /\ saves' = [saves EXCEPT ![FileOf(g)] = tmps[FileOf(g)]]
            /\ tmps' = [tmps EXCEPT ![FileOf(g)] = None]
            /\ acked' = [acked EXCEPT ![FileOf(g)] = Blob(g)]
            /\ Return(g, buf[g])
            /\ UNCHANGED <<secret, secretTmp, secrets, plain>>
    /\ UNCHANGED <<faults, made, signed, sealed, mixed, stored>>

-----------------------------------------------------------------------------
(* save_load, save_load_signed, save_delete.                               *)

(* Mutant: what was sealed under another name opens too.                   *)
Opens_AnySlot(file, with, slot) == file.text # Torn /\ file.text.secret = with

Opens(file, with, slot) == file.text # Torn /\ file.text.secret = with /\ file.text.slot = slot

(* The object SaveSystem.load returns: a signature of the file takes the   *)
(* place of what the payload has under $signature.                         *)
Object(text) == IF text.sig = None THEN text.data ELSE [text.data EXCEPT !.mark = text.sig]

SaveLoad(g) ==
    /\ In(g, "load")
    /\ LET file == saves[FileOf(g)]
       IN  IF file = None THEN Return(g, buf[g])
           ELSE IF Opens(file, key[g], call[g].slot) THEN Return(g, Object(file.text))
           ELSE Stop(g)
    /\ UNCHANGED <<disk, faults, past>>

Unsigned(payload) == [payload EXCEPT !.mark = None]
Checks(payload) == payload.mark # None /\ payload.mark = Unsigned(payload)

SaveLoadSigned(g) ==
    /\ In(g, "load signed")
    /\ LET file == saves[FileOf(g)]
       IN  IF file = None THEN Return(g, buf[g])
           ELSE IF Opens(file, key[g], call[g].slot) /\ Checks(Object(file.text))
                THEN Return(g, Unsigned(Object(file.text)))
           ELSE Stop(g)
    /\ UNCHANGED <<disk, faults, past>>

SaveDelete(g) ==
    /\ In(g, "delete")
    /\ saves' = [saves EXCEPT ![FileOf(g)] = None]
    /\ acked' = [acked EXCEPT ![FileOf(g)] = None]
    /\ Return(g, buf[g])
    /\ UNCHANGED <<secret, secretTmp, secrets, tmps, plain, faults, made, signed, sealed, mixed, stored>>

-----------------------------------------------------------------------------
(* The book in plain JSON: written to a temporary file of its own name,    *)
(* and renamed.                                                            *)

Store(g) ==
    /\ Calls(g, [op |-> "store", slot |-> None])
    /\ plain' = buf[g].book /\ stored' = buf[g].book
    /\ UNCHANGED <<secret, secretTmp, secrets, saves, tmps, pc, call, key, buf, signature, faults,
                   made, signed, sealed, acked, mixed>>

(* A game verifies the book that it reads, and stops if it is not right.   *)
Restore(g) ==
    /\ Calls(g, [op |-> "restore", slot |-> None])
    /\ plain # None
    /\ IF Verify(plain)
       THEN buf' = [buf EXCEPT ![g].book = plain] /\ UNCHANGED pc
       ELSE buf' = [buf EXCEPT ![g] = Empty] /\ Goto(g, "off")
    /\ UNCHANGED <<disk, call, key, signature, faults, past>>

(* What somebody may make of a book without computing hashes: an entry     *)
(* with another id or with the amounts negated, an entry less, two in the  *)
(* other order; and a head that is some entry's hash.                      *)
Negated(e) == [e EXCEPT !.postings = [i \in DOMAIN @ |-> [@[i] EXCEPT !.amount = -@]]]

EditedEntries(es) ==
    {[es EXCEPT ![i].id = None] : i \in DOMAIN es} \cup {[es EXCEPT ![i] = Negated(@)] : i \in DOMAIN es}
    \cup {RemoveAt(es, i) : i \in DOMAIN es} \cup {Reverse(es)}

HeadsToTry(book) == {book.head, Genesis} \cup {e.hash : e \in ToSet(book.entries)}

Edited(book) == {[entries |-> b, head |-> h] : b \in EditedEntries(book.entries), h \in HeadsToTry(book)}

Edit ==
    /\ faults < MaxFaults
    /\ plain # None
    /\ plain' \in Edited(plain)
    /\ faults' = faults + 1
    /\ UNCHANGED <<secret, secretTmp, secrets, saves, tmps, game, past>>

(* A game is killed at any point.                                          *)
Crash(g) ==
    /\ faults < MaxFaults
    /\ ~At(g, "off")
    /\ faults' = faults + 1
    /\ secretTmp' = Closed(secretTmp, g)
    /\ secret' = Closed(secret, g)
    /\ tmps' = [f \in Files |-> Closed(tmps[f], g)]
    /\ saves' = [f \in Files |-> Closed(saves[f], g)]
    /\ Stop(g)
    /\ UNCHANGED <<secrets, plain, past>>

Next ==
    \/ Edit
    \/ \E g \in Games :
          \/ Launch(g) \/ Enter(g) \/ OpenSecret(g) \/ WriteSecret(g) \/ PlaceSecret(g)
          \/ SaveInit(g) \/ SaveClear(g) \/ SaveSet(g)
          \/ AskServer(g) \/ OpenSave(g) \/ WriteSave(g) \/ PlaceSave(g)
          \/ SaveLoad(g) \/ SaveLoadSigned(g) \/ SaveDelete(g)
          \/ Store(g) \/ Restore(g) \/ Crash(g)

Spec == Init /\ [][Next]_vars

-----------------------------------------------------------------------------
(* A save that a game was told is committed stays readable until it is     *)
(* committed over or deleted: neither another game, nor the death of one   *)
(* that was saving, spoils it.  It does not hold when two games wrote the  *)
(* slot, or made the device secret, at the same time.                      *)
AckedLoads ==
    \A f \in Files :
        (acked[f] # None /\ mixed \cap {f, "secret"} = {}) =>
            /\ saves[f] # None /\ saves[f].text = acked[f]
            /\ secret # None /\ secret.text = acked[f].secret

Loads(g) == pc[g] = "work" /\ call[g].op \in {"load", "load signed"} /\ saves[FileOf(g)] # None /\ pc'[g] = "idle"

(* Whatever happened to the file, even when two games wrote it at a time,  *)
(* a load that succeeds gives a book that was committed under that very    *)
(* slot name, and not under another one with the same file; and a signed   *)
(* load gives what the server signed: a signature that a load left in the  *)
(* buffer does not vouch for what the game changed since.                  *)
LoadsAreCommits ==
    [][\A g \in Games : Loads(g) => /\ <<call[g].slot, buf'[g].book>> \in sealed
                                    /\ call[g].op = "load signed" => buf'[g] \in signed]_vars

(* The slots are at most the limit, and one more for every other game that *)
(* committed after the same look at the directory.                         *)
QuotaBound == Cardinality(Existing) <= MaxSlots + Cardinality(Games) - 1

Accounts(book) == {row.account : row \in UNION {ToSet(e.postings) : e \in ToSet(book.entries)}}

(* Every book that a game holds can be verified, and its accounts sum to   *)
(* zero, whatever it posted, saved, loaded and read.                       *)
BooksBalance ==
    \A g \in Games : Verify(buf[g].book)
                     /\ SumFunction([a \in Accounts(buf[g].book) |-> Balance(buf[g].book, a)]) = 0

(* Of an edited plain book that passes the check, which needs no secret,   *)
(* every entry is the one stored, in its place: edits that compute no hash *)
(* can only cut entries off its end, and name the last hash left as the    *)
(* head.  That one is not found (ledger_core.py:137): nothing outside the  *)
(* book says how long it was.                                              *)
EditsOnlyShorten == plain # None /\ Verify(plain) => IsPrefix(plain.entries, stored.entries)
=============================================================================

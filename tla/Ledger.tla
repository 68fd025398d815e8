------------------------------- MODULE Ledger -------------------------------
(***************************************************************************)
(* The double-entry ledger that scripts keep their books in                *)
(* (src/src/mellowlang/ledger_core.py): an immutable value, whose entries  *)
(* form a hash chain.                                                      *)
(*                                                                         *)
(* Amounts are integers, in tenths of a cent, so that the rounding to      *)
(* cents shows.  A hash is the value it is taken of, which is what a       *)
(* collision-free hash tells apart.  A book has one currency, and memo and *)
(* metadata are part of the id here.                                       *)
(***************************************************************************)
EXTENDS Integers, Sequences, SequencesExt

(* _amount: to cents, half up, away from zero for what is negative.        *)
Amount(x) == IF x >= 0 THEN (x + 5) \div 10 ELSE -((5 - x) \div 10)

Total(postings) == SumFunction([i \in DOMAIN postings |-> Amount(postings[i].amount)])

Normalized(postings) ==
    [i \in DOMAIN postings |-> [postings[i] EXCEPT !.amount = 10 * Amount(@)]]

Genesis == << >>

Create == [entries |-> << >>, head |-> Genesis]

(* _canonical_hash of what an entry says besides its hash.                 *)
HashOf(e) == <<e.previous, e.id, e.postings>>

(* Mutant: adds up what was given instead of what is kept.                 *)
CanPost_Unrounded(book, id, postings) ==
    /\ \A i \in DOMAIN book.entries : book.entries[i].id # id
    /\ Len(postings) >= 2
    /\ SumFunction([i \in DOMAIN postings |-> postings[i].amount]) = 0

CanPost(book, id, postings) ==
    /\ \A i \in DOMAIN book.entries : book.entries[i].id # id
    /\ Len(postings) >= 2
    /\ Total(postings) = 0

Post(book, id, postings) ==
    LET body == [id |-> id, postings |-> Normalized(postings), previous |-> book.head]
        hash == HashOf(body)
    IN  [entries |-> Append(book.entries, [id |-> id, postings |-> body.postings,
                                           previous |-> book.head, hash |-> hash]),
         head    |-> hash]

(* Mutant: trusts the hash in the entry.                                   *)
Verify_StoredHashes(book) ==
    LET es == book.entries
        Before(i) == IF i = 1 THEN Genesis ELSE es[i - 1].hash
    IN  /\ \A i \in DOMAIN es :
              /\ \A j \in 1 .. i - 1 : es[j].id # es[i].id
              /\ es[i].previous = Before(i)
              /\ Total(es[i].postings) = 0
        /\ book.head = Before(Len(es) + 1)

Verify(book) ==
    LET es == book.entries
        Before(i) == IF i = 1 THEN Genesis ELSE HashOf(es[i - 1])
    IN  /\ \A i \in DOMAIN es :
              /\ \A j \in 1 .. i - 1 : es[j].id # es[i].id
              /\ es[i].previous = Before(i)
              /\ Total(es[i].postings) = 0
              /\ es[i].hash = HashOf(es[i])
        /\ book.head = Before(Len(es) + 1)

(* What an entry adds to the account.                                      *)
Share(e, account) ==
    SumFunction([i \in DOMAIN e.postings |->
        IF e.postings[i].account = account THEN Amount(e.postings[i].amount) ELSE 0])

Balance(book, account) == SumFunction([i \in DOMAIN book.entries |-> Share(book.entries[i], account)])
=============================================================================

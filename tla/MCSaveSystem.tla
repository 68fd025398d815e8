---------------------------- MODULE MCSaveSystem ----------------------------
EXTENDS SaveSystem

Does(op, slot) == [op |-> op, slot |-> slot]

(* "a." has the file of "a": what is no letter is dropped.                 *)
MCFile(slot) == IF slot = "a." THEN "a" ELSE slot

MCScript(g) ==
    IF g = "g1" THEN <<
        {Does("commit signed", "a")},
        {Does("load", "a"), Does("set", "t1"), Does("clear", None)},
        {Does("set", "t3")},
        {Does("set", "t4"), Does("set", "t2"), Does("set", "t3"), Does("commit", "a")},
        {Does("store", None), Does("load signed", "a"), Does("commit", "b"), Does("commit", "a.")}>>
    ELSE <<
        {Does("commit", "c"), Does("commit", "a.")},
        {Does("restore", None), Does("delete", "a")}>>

MCFileNames == <<"a", "b", "c">>

Row(account, amount) == [account |-> account, amount |-> amount]

(* To cents: 2 and -2, balanced; 1, 1 and -1, refused.                    *)
MCTransactions == {
    [id |-> "t1", postings |-> <<Row("cash", 15), Row("sales", -19)>>],
    [id |-> "t2", postings |-> <<Row("cash", 5), Row("bank", 5), Row("sales", -10)>>],
    [id |-> "t3", postings |-> <<Row("bank", 30), Row("cash", -30)>>],
    [id |-> "t4", postings |-> <<Row("sales", 10), Row("bank", -10)>>]}
=============================================================================

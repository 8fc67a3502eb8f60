----------------------------- MODULE MCJournal -----------------------------
(***************************************************************************)
(* Instances of Journal for TLC.                                           *)
(***************************************************************************)
EXTENDS Journal, TLC

CONSTANTS p1, p2, t1, t2, o1, o2

TwoProcs == {p1, p2}
TwoTxns == {t1, t2}
OneOp == {o1}
NoOps == {}

\* Processes are interchangeable, and so are transactions and operations.
Interchangeable == Permutations(Proc) \cup Permutations(Txn) \cup Permutations(Op)
=============================================================================

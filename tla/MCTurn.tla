------------------------------- MODULE MCTurn -------------------------------
(***************************************************************************)
(* Instances of Turn for TLC.                                              *)
(***************************************************************************)
EXTENDS Turn, TLC

CONSTANTS p1, p2, c1, c2, k1

Processes == {p1, p2}
TwoCommands == {c1, c2}
OneCommand == {c1}
OneCall == {k1}

FirstAsks == [c \in Cmd |-> IF c = c1 THEN {k1} ELSE {}]

Interchangeable == Permutations(Processes)
=============================================================================

--------------------------- MODULE MCPublication ---------------------------
(***************************************************************************)
(* An instance of Publication for TLC: two goroutines of one process and   *)
(* one of another; only the first two share an evidence store.             *)
(***************************************************************************)
EXTENDS Publication, TLC

CONSTANTS a1, a2, b1, p1, p2, e1, e2, x

TwoProcesses == (a1 :> p1) @@ (a2 :> p1) @@ (b1 :> p2)
OneEvidenceStore == [s \in Stores |-> IF s = "evidence" THEN {a1, a2} ELSE Actor]
OneContent == [id \in Id |-> x]
Goroutines == Permutations({a1, a2})
=============================================================================

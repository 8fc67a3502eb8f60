----------------------------- MODULE MCCatalog -----------------------------
(***************************************************************************)
(* An instance of Catalog for TLC: two goroutines of one process and one   *)
(* of another, one reserved identity, and two kinds of session: a root and *)
(* a child of the reserved identity.                                       *)
(***************************************************************************)
EXTENDS Catalog, TLC

CONSTANTS a1, a2, b1, p1, p2, s1, root, child

TwoProcesses == (a1 :> p1) @@ (a2 :> p1) @@ (b1 :> p2)
Goroutines == Permutations({a1, a2})
Parents == (root :> Nil) @@ (child :> s1)
=============================================================================

----------------------------- MODULE MCControl -----------------------------
(***************************************************************************)
(* An instance of Control for TLC: two processes on one workspace.         *)
(***************************************************************************)
EXTENDS Control, TLC

CONSTANTS p1, p2

Processes == Permutations({p1, p2})
=============================================================================

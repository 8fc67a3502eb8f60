------------------------------- MODULE MCApp -------------------------------
(* A small instance of App: two generations, which know one model each. *)
EXTENDS App

CONSTANTS g0, g1, work, m0, m1

MCLease == {g0, g1, work}
MCModelsOf == [g \in Generation |-> IF g = g0 THEN {m0, m1} ELSE {m1}]
MCDefaultOf == [g \in Generation |-> IF g = g0 THEN m0 ELSE m1]
=============================================================================

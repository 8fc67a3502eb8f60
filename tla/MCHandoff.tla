----------------------------- MODULE MCHandoff -----------------------------
(***************************************************************************)
(* Instances of Handoff for TLC: one operation beside the parent and its   *)
(* child, two turns of which the first may delegate twice.                 *)
(***************************************************************************)
EXTENDS Handoff

CONSTANT o1

OneOther == {parent, child, o1}
TwoThenOne == <<2, 1>>
=============================================================================

------------------------------ MODULE MCEffects ------------------------------
(* Two calls of one process and one of another.                            *)
EXTENDS Effects, TLC

CONSTANTS c1, c2, c3, p1, p2

MCCall == {c1, c2, c3}
MCProcess == {p1, p2}
MCProcessOf == c1 :> p1 @@ c2 :> p1 @@ c3 :> p2
CallsOfOneProcess == Permutations({c1, c2})
=============================================================================

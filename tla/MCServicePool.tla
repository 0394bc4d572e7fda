---------------------------- MODULE MCServicePool ----------------------------
(* Instances of ServicePool for TLC: two requests for a service with a         *)
(* SerializedInvoker, one of them unanswered, and one for a plain service.     *)
EXTENDS ServicePool, TLC

CONSTANTS m1, m2, m3, s1, s2, w1, w2

MCTarget == m1 :> s1 @@ m2 :> s1 @@ m3 :> s2

Symmetry == Permutations(Workers)
=============================================================================

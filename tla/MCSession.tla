------------------------------ MODULE MCSession ------------------------------
(* Instances of Session for TLC. *)
EXTENDS Session, TLC

CONSTANTS p1, p2, p3, s1, s2, f1, f2, c1, c2

OneCaller    == {p1}
TwoCallers   == {p1, p2}
ThreeCallers == {p1, p2, p3}
OneSub       == {s1}
TwoSubs      == {s1, s2}

(* Callers, subscriptions and paths are interchangeable in the safety runs. *)
Symmetry == Permutations(Callers) \cup Permutations(Subs)
=============================================================================

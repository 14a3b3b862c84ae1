---------------------------- MODULE MCSessions ----------------------------
(* Instances of Sessions for TLC. *)
EXTENDS Sessions, TLC

CONSTANTS a1, a2, t1, t2, c1, c2, o1, o2, r1

TwoTabs == {t1, t2}
TwoCalls == {c1, c2}
TwoOps == {o1, o2}
Symmetry == Permutations(TwoTabs) \cup Permutations(TwoCalls) \cup Permutations(TwoOps)
=============================================================================

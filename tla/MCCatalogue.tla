---------------------------- MODULE MCCatalogue ----------------------------
(* Instances of Catalogue for TLC. *)
EXTENDS Catalogue

CONSTANTS k1, k2, s1, s2, w1, w2, u1

Costs == [kind \in Kinds |-> IF kind \in {"file", "exclude", "move"} THEN 1 ELSE 2]
OneObject == [k \in {k1, k2} |-> IF k = k1 THEN 1 ELSE 0]
=============================================================================

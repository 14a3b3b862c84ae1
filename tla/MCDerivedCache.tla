--------------------------- MODULE MCDerivedCache ---------------------------
(* Instances of DerivedCache for TLC. *)
EXTENDS DerivedCache

CONSTANTS page, old, r1, r2

\* Each fits alone; both do not, and an eviction may take both.
Sizes == [k \in {page, old} |-> IF k = old THEN 4 ELSE 2]
=============================================================================

------------------------------- MODULE Shelf -------------------------------
(***************************************************************************)
(* What the manager of downloads promises: a comic that is asked for is    *)
(* one day held, all of it, or refused, unless it is removed first; what   *)
(* was removed, or refused, does not come by itself.                       *)
(***************************************************************************)
CONSTANTS Comics

VARIABLES shelf   \* what the user can count on for each comic

TypeOK == shelf \in [Comics -> {"absent", "wanted", "held", "refused"}]

Init == shelf = [c \in Comics |-> "absent"]

Move(c, from, to) == shelf[c] \in from /\ shelf' = [shelf EXCEPT ![c] = to]

\* A comic asked for again while it was ending is wanted once more.
Ask(c) == Move(c, {"absent", "refused", "held"}, "wanted")
Hold(c) == Move(c, {"wanted"}, "held")
Refuse(c) == Move(c, {"wanted"}, "refused")
Remove(c) == Move(c, {"wanted", "held", "refused"}, "absent")

Next == \E c \in Comics : Ask(c) \/ Hold(c) \/ Refuse(c) \/ Remove(c)

Spec == Init /\ [][Next]_shelf

\* The queue is worked through: nothing stays wanted for ever.
FairSpec ==
    /\ Spec
    /\ \A c \in Comics : WF_shelf(Hold(c) \/ Refuse(c))
=============================================================================

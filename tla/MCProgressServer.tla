-------------------------- MODULE MCProgressServer --------------------------
(* Instance of ProgressServer for TLC: one comic, two requests. *)
EXTENDS ProgressServer, TLC

CONSTANTS c1, k1, k2

TwoConns == {k1, k2}
ConnSymmetry == Permutations(TwoConns)

W(c, p, n, s) == [comic |-> c, page |-> p, pageCount |-> n, status |-> s]

\* Every shape of write: derived and explicit statuses, the first and the last
\* page, a negative page, a stale page count; and batches that can stop half-way.
OneComic == {c1}
RuleUpdates ==
    {W(c1, 0, 3, "unread"), W(c1, 1, 3, "in_progress"), W(c1, 2, 3, "read"),
     W(c1, 1, 2, "absent"), W(c1, -1, 0, "absent"), W(c1, 1, 3, "unread")}
RuleBatches ==
    {<<W(c1, 1, 3, "in_progress")>>, <<W(c1, 0, 3, "unread")>>,
     <<W(c1, 1, 3, "in_progress"), W(c1, 2, 3, "read")>>,
     <<W(c1, 2, 3, "read"), W(c1, 0, 3, "unread")>>}
=============================================================================

----------------------------- MODULE Ed2kEvents -----------------------------
(***************************************************************************)
(* What the comparison of two snapshots says of one file of the download   *)
(* queue (apps/server/internal/amule/events.go).  The statuses that the    *)
(* comparison does not tell apart are one: waiting and downloading are     *)
(* "active", paused and stopped are "paused".  A file that is not in the   *)
(* queue has status "absent".                                              *)
(***************************************************************************)

DownloadStatus == {"absent", "active", "paused", "erroneous", "completing", "completed"}

\* acquired: SizeDone has reached Size.
Download == [status: DownloadStatus, acquired: BOOLEAN]

Kind == {"none", "started", "completed", "removed", "paused", "resumed", "error"}

StatusChange(was, now) ==
    CASE was = now -> "none"
      [] was # now /\ now = "completed" -> "completed"
      [] was # now /\ now = "erroneous" -> "error"
      [] was # now /\ now = "paused" -> "paused"
      [] was = "paused" /\ now = "active" -> "resumed"
      [] OTHER -> "none"

\* It has appeared: already finished, or not.
Appeared(now) == IF now.status = "completed" THEN "completed" ELSE "started"

\* Mutant: a file that leaves complete is announced whether it was or not.
GoneAgain(was) ==
    IF was.status \in {"completed", "completing"} \/ was.acquired
    THEN "completed" ELSE "removed"
\* It has left the queue: announced before, finished unseen, or cancelled.
Gone(was) ==
    CASE was.status = "completed" -> "none"
      [] was.status = "completing" \/ (was.status # "completed" /\ was.acquired) -> "completed"
      [] OTHER -> "removed"

\* downloadEvents, for one file that is in one of the two snapshots at least.
FileEvent(was, now) ==
    IF was.status = "absent" THEN Appeared(now)
    ELSE IF now.status = "absent" THEN Gone(was)
    ELSE StatusChange(was.status, now.status)
=============================================================================

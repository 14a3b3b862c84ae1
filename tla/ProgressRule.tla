---------------------------- MODULE ProgressRule ----------------------------
(***************************************************************************)
(* The conflict rule of reading progress: how one client write changes one *)
(* row of reading_progress.  "The furthest page wins, except on an         *)
(* explicit reset."  The rule lives in the ON CONFLICT clause of           *)
(* apps/server/queries/progress.sql; the service normalises the write      *)
(* before it (apps/server/internal/progress/service.go), and the phone     *)
(* derives its own status (apps/mobile/lib/core/sync/progress_sync.dart).  *)
(*                                                                         *)
(* Timestamps started_at and finished_at are abstracted to "set or NULL";  *)
(* device_id and version carry no decision and are left out.  A row that   *)
(* does not exist is the constant NoRow.                                   *)
(***************************************************************************)
EXTENDS Integers

CONSTANT NoRow          \* stands for "no row for this user and comic"

Status == {"unread", "in_progress", "read"}

Row == [page: Nat, pageCount: Int, status: Status,
        readCount: Nat, started: BOOLEAN, finished: BOOLEAN]

\* A write as the repository receives it: page clamped, status known.
Write == [page: Nat, pageCount: Int, status: Status]

ASSUME NoRowAssumption == NoRow \notin Row

-----------------------------------------------------------------------------
\* Status of a position, server side.
DeriveStatus(page, pageCount) ==
    CASE pageCount > 0 /\ page >= pageCount - 1 -> "read"
      [] ~(pageCount > 0 /\ page >= pageCount - 1) /\ page > 0 -> "in_progress"
      [] OTHER -> "unread"

\* Status of a position, phone side: an unknown page count reads "unread".
StatusFor(page, pageCount) ==
    CASE pageCount <= 0 -> "unread"
      [] pageCount > 0 /\ page >= pageCount - 1 -> "read"
      [] pageCount > 0 /\ page < pageCount - 1 /\ page <= 0 -> "unread"
      [] OTHER -> "in_progress"

\* Mutant: the clamp of a negative page is forgotten.
NormaliseUnclamped(u) ==
    [page |-> u.page, pageCount |-> u.pageCount,
     status |-> IF u.status \in Status THEN u.status
                ELSE DeriveStatus(u.page, u.pageCount)]

\* Record: an absent or unknown status is derived, a negative page is zero.
Normalise(u) ==
    [page      |-> IF u.page < 0 THEN 0 ELSE u.page,
     pageCount |-> u.pageCount,
     status    |-> IF u.status \in Status THEN u.status
                   ELSE DeriveStatus(u.page, u.pageCount)]

-----------------------------------------------------------------------------
\* The larger of two positions, the stored one when they are equal.
Furthest(stored, written) == IF written > stored THEN written ELSE stored

\* INSERT: the first write of this user on this comic.
Inserted(w) ==
    [page |-> w.page, pageCount |-> w.pageCount, status |-> w.status,
     readCount |-> IF w.status = "read" THEN 1 ELSE 0,
     started   |-> w.page > 0,
     finished  |-> w.status = "read"]

\* Mutants: the last write wins; a book read again at each write; a reset
\* that keeps finished_at.
LastWritePage(r, w) == w.page
CountedAtEachRead(r, w) == w.status = "read"
FinishedKept(r, w) == w.status = "read" \/ r.finished

\* ON CONFLICT DO UPDATE: the six SET clauses, each from the row before.
MergedPage(r, w) == IF w.status = "unread" THEN w.page ELSE Furthest(r.page, w.page)

MergedStatus(r, w) ==
    IF w.status = "unread" THEN "unread"
    ELSE IF "read" \in {w.status, r.status} THEN "read" ELSE "in_progress"

CountedAgain(r, w) == w.status = "read" /\ r.status # "read"

MergedFinished(r, w) == w.status = "read" \/ (w.status # "unread" /\ r.finished)

Merged(r, w) ==
    [page      |-> MergedPage(r, w),
     pageCount |-> w.pageCount,
     status    |-> MergedStatus(r, w),
     readCount |-> r.readCount + (IF CountedAgain(r, w) THEN 1 ELSE 0),
     started   |-> r.started \/ w.page > 0,
     finished  |-> MergedFinished(r, w)]

Upsert(r, w) == IF r = NoRow THEN Inserted(w) ELSE Merged(r, w)

-----------------------------------------------------------------------------
\* BulkMarkRead on one comic of the selection: a second write path, which
\* sets the last page of the catalogue's page count and never uses Upsert.
LastPage(pageCount) == IF pageCount > 0 THEN pageCount - 1 ELSE 0

BulkRead(r, pageCount) ==
    [page      |-> LastPage(pageCount),
     pageCount |-> pageCount,
     status    |-> "read",
     readCount |-> IF r = NoRow THEN 1
                   ELSE r.readCount + (IF r.status # "read" THEN 1 ELSE 0),
     started   |-> IF r = NoRow THEN TRUE ELSE r.started,
     finished  |-> TRUE]
=============================================================================

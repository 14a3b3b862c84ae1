----------------------------- MODULE Downloads -----------------------------
(***************************************************************************)
(* The comics a phone keeps for reading offline.  The rows of the database *)
(* say what is wanted and how many pages are there; the pages are files;   *)
(* one drain works through the queue, a page at a time, and makes room by  *)
(* giving up comics that are complete.  Meanwhile the user asks, pauses    *)
(* and removes, the network goes, the server refuses, the app is killed.   *)
(*                                                                         *)
(* Every comic has the same pages, all of one size, so the bytes of a row  *)
(* are its pagesDone.  One manager serves the server; what has been read,  *)
(* which orders the candidates for eviction, is left out: any may go first.*)
(* A bound: one tap of the user is under way at a time (op), where the app *)
(* lets enqueue and remove overlap.  An enqueue that reads the row before a*)
(* removal and writes it after counts pages that have gone, which the drain*)
(* does here as well when a comic is asked for again (Reask).              *)
(***************************************************************************)
EXTENDS Integers, FiniteSets

CONSTANTS
    Comics,
    Pages,    \* pages of each comic
    Budget,   \* budgetBytes, in pages
    Reask,    \* a comic is asked for again while the drain still acts on the old row
    Taps,     \* bound: what the user does
    Faults,   \* bound: what goes wrong
    None      \* no comic

ASSUME DownloadsAssumption ==
    /\ IsFiniteSet(Comics) /\ Pages \in Nat \ {0} /\ Budget \in Nat \ {0}
    /\ Reask \in BOOLEAN /\ Taps \in Nat /\ Faults \in Nat
    /\ None \notin Comics

VARIABLES
    row,        \* the table downloads
    files,      \* the pages on disk of each comic
    drain,      \* _drain, _process and _ensureRoom
    cancelled,  \* _cancelled
    op,         \* what the user's last tap still awaits
    taps, faults,
    \* History, read by the properties only.
    torn,       \* comics whose removal the end of the app cut short
    lapses      \* how often a request took back a page already counted

vars == <<row, files, drain, cancelled, op, taps, faults, torn, lapses>>

States == {"none", "queued", "running", "paused", "failed", "complete"}
Row == [state: States, pagesDone: 0..Pages, requestedAt: 0..Taps]
NoRow == [state |-> "none", pagesDone |-> 0, requestedAt |-> 0]
Steps == {"off", "next", "begin", "page", "list", "evict", "row", "fetch", "count"}
Drain == [step: Steps, item: Comics \cup {None}, done: 0..Pages,
          used: Int, candidates: SUBSET Comics, victim: Comics \cup {None}]
\* late: the drain has moved once since the row was read.
Op == [kind: {"idle", "ask", "remove"}, comic: Comics \cup {None}, existing: Row, late: BOOLEAN]
Idle == [kind |-> "idle", comic |-> None, existing |-> NoRow, late |-> FALSE]

TypeOK ==
    /\ row \in [Comics -> Row]
    /\ files \in [Comics -> SUBSET (0..Pages - 1)]
    /\ drain \in Drain
    /\ cancelled \in BOOLEAN
    /\ op \in Op
    /\ taps \in 0..Taps /\ faults \in 0..Faults
    /\ torn \subseteq Comics /\ lapses \in Nat

Off == [step |-> "off", item |-> None, done |-> 0, used |-> 0,
        candidates |-> {}, victim |-> None]

Init ==
    /\ row = [c \in Comics |-> NoRow]
    /\ files = [c \in Comics |-> {}]
    /\ drain = Off
    /\ cancelled = FALSE
    /\ op = Idle
    /\ taps = Taps /\ faults = Faults
    /\ torn = {} /\ lapses = 0

-----------------------------------------------------------------------------
Rows == {c \in Comics : row[c].state # "none"}
InState(states) == {c \in Rows : row[c].state \in states}

\* updateDownload: nothing happens to a row that is not there.
SetRow(c, state, done) ==
    row' = IF c \in Rows THEN [row EXCEPT ![c].state = state, ![c].pagesDone = done] ELSE row

\* Mutant: a killed or interrupted download is not taken up again.
QueuedOnly == InState({"queued"})
Waiting == InState({"queued", "running", "paused"})
\* nextQueuedDownload: in the order of the requests.
NextQueued == {c \in Waiting : \A d \in Waiting : row[c].requestedAt <= row[d].requestedAt}

\* downloadedBytes: what the rows count, page by page.
Counted == {page \in Comics \X (0..Pages - 1) :
                page[1] \in Rows /\ page[2] < row[page[1]].pagesDone}
Downloaded == Cardinality(Counted)

Fault == faults > 0 /\ faults' = faults - 1
Tap == taps > 0 /\ taps' = taps - 1

-----------------------------------------------------------------------------
(* The drain *)

At(step) == drain.step = step
Go(step) == drain' = [drain EXCEPT !.step = step]
Loop == drain' = [Off EXCEPT !.step = "next"]

\* The loop of _drain, told to stop: what was running is to be resumed.
Settle ==
    /\ At("next") /\ cancelled
    /\ row' = [c \in Comics |-> IF c \in InState({"running"})
                                THEN [row[c] EXCEPT !.state = "paused"] ELSE row[c]]
    /\ drain' = Off
    /\ UNCHANGED <<files, cancelled, faults, torn>>

NextComic ==
    /\ At("next") /\ ~cancelled
    /\ \/ NextQueued = {} /\ drain' = Off
       \/ \E c \in NextQueued :
             drain' = [Off EXCEPT !.step = "begin", !.item = c, !.done = row[c].pagesDone]
    /\ UNCHANGED <<row, files, cancelled, faults, torn>>

\* Mutant: the page at the resume point is taken for written.
OnePageLater(done) == IF done = 0 \/ done = Pages THEN done ELSE done + 1
\* Where the loop of _process begins.
ResumeAt(done) == done

Begin ==
    /\ At("begin")
    /\ row' = IF drain.item \in Rows THEN [row EXCEPT ![drain.item].state = "running"] ELSE row
    /\ drain' = [drain EXCEPT !.step = "page", !.done = ResumeAt(@)]
    /\ UNCHANGED <<files, cancelled, faults, torn>>

\* Mutant: one page too many.
FitsLoosely(used) == used <= Budget
Fits(used) == used < Budget

AllDone(done) == done = Pages

\* The loop of _process: stop, go on with the next page, or end.
Page ==
    /\ At("page")
    /\ \/ ~AllDone(drain.done) /\ cancelled /\ Loop /\ UNCHANGED row
       \/ /\ ~AllDone(drain.done) /\ ~cancelled
          /\ drain' = [drain EXCEPT !.used = Downloaded,
                                    !.step = IF Fits(Downloaded) THEN "fetch" ELSE "list"]
          /\ UNCHANGED row
       \/ AllDone(drain.done) /\ SetRow(drain.item, "complete", drain.done) /\ Loop
    /\ UNCHANGED <<files, cancelled, faults, torn>>

\* evictionCandidates, once.
List ==
    /\ At("list")
    /\ drain' = [drain EXCEPT !.step = "evict",
                              !.candidates = InState({"complete"}) \ {drain.item}]
    /\ UNCHANGED <<row, files, cancelled, faults, torn>>

\* remove, the files first; a candidate was complete when it was listed.
Evict ==
    /\ At("evict")
    /\ ~Fits(drain.used)
    /\ \E c \in drain.candidates :
          /\ files' = [files EXCEPT ![c] = {}]
          /\ drain' = [drain EXCEPT !.step = "row", !.victim = c, !.candidates = @ \ {c},
                                    !.used = @ - Pages]
    /\ UNCHANGED <<row, cancelled, faults, torn>>

EvictRow ==
    /\ At("row")
    /\ row' = [row EXCEPT ![drain.victim] = NoRow]
    /\ torn' = torn \ {drain.victim}
    /\ drain' = [drain EXCEPT !.step = "evict", !.victim = None]
    /\ UNCHANGED <<files, cancelled, faults>>

\* There is room, or nothing to give up: the download fails.
Evicted ==
    /\ At("evict")
    /\ \/ /\ Fits(drain.used)
          /\ drain' = [drain EXCEPT !.step = "fetch", !.candidates = {}]
          /\ UNCHANGED row
       \/ /\ ~Fits(drain.used) /\ drain.candidates = {}
          /\ SetRow(drain.item, "failed", drain.done) /\ Loop
    /\ UNCHANGED <<files, cancelled, faults, torn>>

\* pageBytes, then writePage: the file is there whole, or not at all.
Fetch ==
    /\ At("fetch")
    /\ files' = [files EXCEPT ![drain.item] = @ \cup {drain.done}]
    /\ Go("count")
    /\ UNCHANGED <<row, cancelled, faults, torn>>

Count ==
    /\ At("count")
    /\ row' = IF drain.item \in Rows
              THEN [row EXCEPT ![drain.item].pagesDone = drain.done + 1] ELSE row
    /\ drain' = [drain EXCEPT !.step = "page", !.done = @ + 1]
    /\ UNCHANGED <<files, cancelled, faults, torn>>

\* NetworkException: the whole queue waits.
NetworkDown ==
    /\ At("fetch") /\ Fault
    /\ SetRow(drain.item, "paused", drain.done)
    /\ cancelled' = TRUE
    /\ Loop
    /\ UNCHANGED <<files, torn>>

\* ApiException: this comic is given up.
Refused ==
    /\ At("fetch") /\ Fault
    /\ SetRow(drain.item, "failed", drain.done)
    /\ Loop
    /\ UNCHANGED <<files, cancelled, torn>>

\* Any other exception, of the disk for one, ends the drain.
Thrown ==
    /\ At("fetch") /\ Fault
    /\ drain' = Off
    /\ UNCHANGED <<row, files, cancelled, torn>>

Progress ==
    \/ Settle \/ NextComic \/ Begin \/ Page \/ List \/ Evict \/ EvictRow \/ Evicted
    \/ Fetch \/ Count
DrainAction == Progress \/ NetworkDown \/ Refused \/ Thrown

\* The database runs its queries in their order: between the two of enqueue
\* the drain may move once, no more.
Overtaken == IF op.kind = "ask" THEN ~op.late /\ op' = [op EXCEPT !.late = TRUE]
                                ELSE UNCHANGED op
Overtakes(action) == action /\ Overtaken /\ UNCHANGED taps /\ UNCHANGED lapses

-----------------------------------------------------------------------------
(* The user, and the phone *)

\* start: nothing, while a drain runs, even one that is told to stop.
Started ==
    IF At("off") THEN drain' = [Off EXCEPT !.step = "next"] /\ cancelled' = FALSE
                 ELSE UNCHANGED <<drain, cancelled>>

\* The drain still acts on a row of this comic that it read before.
InHand(c) ==
    \/ drain.item = c /\ c \notin Rows
    \/ drain.victim = c \/ c \in drain.candidates

\* enqueue, for a comic that is not complete: the row is read,
AskRead(c) ==
    /\ op = Idle /\ Tap
    /\ c \notin InState({"complete"})
    /\ Reask \/ ~InHand(c)
    /\ op' = [Idle EXCEPT !.kind = "ask", !.comic = c, !.existing = row[c]]
    /\ UNCHANGED <<row, files, drain, cancelled, faults, torn>> /\ UNCHANGED lapses

\* and written, with what was read.
AskWrite ==
    /\ op.kind = "ask"
    /\ row' = [row EXCEPT ![op.comic] =
                  IF op.existing.state = "none"
                  THEN [state |-> "queued", pagesDone |-> 0, requestedAt |-> Taps - taps]
                  ELSE [op.existing EXCEPT !.state = "queued"]]
    /\ Started
    /\ op' = Idle
    /\ lapses' = lapses + (IF row[op.comic].pagesDone > op.existing.pagesDone THEN 1 ELSE 0)
    /\ UNCHANGED <<files, taps, faults, torn>>

\* remove, at any moment: the files, then the row.
Remove(c) ==
    /\ op = Idle /\ Tap
    /\ c \in Rows
    /\ files' = [files EXCEPT ![c] = {}]
    /\ op' = [Idle EXCEPT !.kind = "remove", !.comic = c]
    /\ UNCHANGED <<row, drain, cancelled, faults, torn>> /\ UNCHANGED lapses

RemoveRow ==
    /\ op.kind = "remove"
    /\ row' = [row EXCEPT ![op.comic] = NoRow]
    /\ torn' = torn \ {op.comic}
    /\ op' = Idle
    /\ UNCHANGED <<files, drain, cancelled, taps, faults>> /\ UNCHANGED lapses

Pause ==
    /\ Tap
    /\ cancelled' = TRUE
    /\ UNCHANGED <<row, files, drain, op, faults, torn>> /\ UNCHANGED lapses

\* The app is opened again, or the user resumes.
Start ==
    /\ At("off")
    /\ Started
    /\ UNCHANGED <<row, files, op, taps, faults, torn>> /\ UNCHANGED lapses

Removing == (IF op.kind = "remove" THEN {op.comic} ELSE {})
                \cup (IF At("row") THEN {drain.victim} ELSE {})

\* The app is killed: its files and its rows remain, whatever was under way.
Kill ==
    /\ Fault
    /\ drain' = Off /\ cancelled' = FALSE /\ op' = Idle
    /\ torn' = torn \cup (Removing \cap Rows)
    /\ UNCHANGED <<row, files, taps>> /\ UNCHANGED lapses

UserStep == AskWrite \/ RemoveRow

Next ==
    \/ Overtakes(DrainAction)
    \/ \E c \in Comics : AskRead(c) \/ Remove(c)
    \/ UserStep \/ Pause \/ Start \/ Kill

Spec == Init /\ [][Next]_vars

\* The drain goes on, what a tap awaits ends, the app is opened again.
FairSpec ==
    /\ Spec
    /\ WF_vars(Overtakes(Progress)) /\ WF_vars(UserStep) /\ WF_vars(Start)

-----------------------------------------------------------------------------
\* PROPERTIES

\* download_manager.dart: the pages are written in order, and their number is
\* where a download resumes.  A complete comic has all its pages, except the
\* ones a removal has taken, or had taken when the app was killed.
Whole ==
    \A c \in InState({"complete"}) \ (Removing \cup torn) : files[c] = 0..Pages - 1

\* However the requests, the evictions and the removals interleave, what the
\* rows count exceeds the budget by one page at most for each request that took
\* back a page: enqueue writes the number that was there before the drain counted
\* it, and the drain compares the budget with what the rows say.
WithinBudget == Downloaded <= Budget + lapses

\* What the manager promises, as Shelf states it.  A comic being removed is
\* off the shelf, and so is one whose removal was cut short.
Standing(c) ==
    IF c \in Removing \cup torn \/ c \notin Rows THEN "absent"
    ELSE IF row[c].state = "failed" THEN "refused"
    ELSE IF row[c].state # "complete" THEN "wanted"
    ELSE IF files[c] = 0..Pages - 1 THEN "held" ELSE "broken"
shelf == [c \in Comics |-> Standing(c)]
Promise == INSTANCE Shelf WITH Comics <- Comics, shelf <- shelf
ShelfKept == Promise!FairSpec
=============================================================================

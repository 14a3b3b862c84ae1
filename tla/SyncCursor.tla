----------------------------- MODULE SyncCursor -----------------------------
(***************************************************************************)
(* GET /sync, for one user and one phone.  The cursor of a pull is the     *)
(* updated_at of the last row it returned, and updated_at is the instant   *)
(* at which the writing transaction BEGAN.  Rows become visible when it    *)
(* commits, so stamps and commits need not come in the same order; a bulk  *)
(* mark gives all its rows the same stamp; and a pull returns a limited    *)
(* number of rows.  The phone merges a page of changes one by one, saves   *)
(* the cursor, asks again while there is more, and may fail anywhere.      *)
(*                                                                         *)
(* What a merge does to a position is PhoneSync's concern: here a merge    *)
(* only notes the version of the row that the phone has seen.              *)
(***************************************************************************)
EXTENDS Integers, FiniteSets

CONSTANTS
    Comics,
    Writers,       \* transactions that may be open at once
    Writes,        \* the sets of rows one statement writes
    Loads,         \* library loads the phone may have under way at once
    Limit,         \* rows per pull
    PullMaxPages,  \* pulls per load
    MaxClock       \* bound on the number of transactions

ASSUME CursorAssumption ==
    /\ IsFiniteSet(Comics)
    /\ Writes \subseteq SUBSET Comics
    /\ Limit \in Nat \ {0}
    /\ PullMaxPages \in Nat \ {0}
    /\ MaxClock \in Nat

VARIABLES
    stamp,     \* updated_at of each row, 0 when there is none
    version,   \* version of each row
    clock,     \* the last instant a transaction began at
    tx,        \* the open transactions: the rows they write and their instant
    cursor,    \* the cursor the phone has saved
    pull,      \* the loads under way
    got,       \* the latest version of each row that the phone merged
    \* History, read by the properties only.
    given,     \* the highest cursor a pull has answered with
    late,      \* rows whose last write has committed below it
    cut        \* rows that a page left out beside a row of the same stamp

history == <<given, late, cut>>
vars == <<stamp, version, clock, tx, cursor, pull, got, history>>

Tx == [writes: SUBSET Comics, now: Nat]
Change == [comic: Comics, version: Nat]
\* cursor: the loop's own copy; next: the cursor that came with the batch.
Pull == [step: {"idle", "fetch", "merge"}, cursor: Nat, batch: SUBSET Change,
         next: Nat, more: BOOLEAN, pages: Nat]

TypeOK ==
    /\ stamp \in [Comics -> Nat]
    /\ version \in [Comics -> Nat]
    /\ clock \in Nat
    /\ tx \in [Writers -> Tx]
    /\ cursor \in Nat
    /\ pull \in [Loads -> Pull]
    /\ got \in [Comics -> Nat]
    /\ given \in Nat /\ late \subseteq Comics /\ cut \subseteq Comics

NoTx == [writes |-> {}, now |-> 0]
Resting == [step |-> "idle", cursor |-> 0, batch |-> {}, next |-> 0,
            more |-> FALSE, pages |-> 0]

Init ==
    /\ stamp = [c \in Comics |-> 0]
    /\ version = [c \in Comics |-> 0]
    /\ clock = 0
    /\ tx = [w \in Writers |-> NoTx]
    /\ cursor = 0
    /\ pull = [l \in Loads |-> Resting]
    /\ got = [c \in Comics |-> 0]
    /\ given = 0 /\ late = {} /\ cut = {}

-----------------------------------------------------------------------------
(* The server *)

\* A write begins: now() is fixed here for the whole statement.
Begin(w, S) ==
    /\ tx[w].writes = {} /\ S # {}
    /\ clock < MaxClock
    /\ clock' = clock + 1
    /\ tx' = [tx EXCEPT ![w] = [writes |-> S, now |-> clock + 1]]
    /\ UNCHANGED <<stamp, version, cursor, pull, got, history>>

\* It commits: its rows appear with the stamp of the beginning, even over
\* rows that a later transaction has already written.  History: a pull may
\* have been told to go on from a later instant meanwhile.
Commit(w) ==
    /\ tx[w].writes # {}
    /\ stamp' = [c \in Comics |-> IF c \in tx[w].writes THEN tx[w].now ELSE stamp[c]]
    /\ version' = [c \in Comics |-> IF c \in tx[w].writes THEN version[c] + 1 ELSE version[c]]
    /\ tx' = [tx EXCEPT ![w] = NoTx]
    /\ late' = IF tx[w].now <= given THEN late \cup tx[w].writes ELSE late \ tx[w].writes
    /\ cut' = cut \ tx[w].writes
    /\ UNCHANGED <<clock, cursor, pull, got, given>>

\* ListReadingProgressSince, before ORDER BY and LIMIT.
ChangedSince(since) == {c \in Comics : stamp[c] > since}

\* Mutant: the most recent rows come first.
NewestFirst(B, C) ==
    /\ B \subseteq C
    /\ Cardinality(B) = (IF Cardinality(C) <= Limit THEN Cardinality(C) ELSE Limit)
    /\ \A b \in B, o \in C \ B : stamp[o] <= stamp[b]
\* B is what the limit leaves of the changes C; ties fall either way.
FirstOf(B, C) ==
    /\ B \subseteq C
    /\ Cardinality(B) = (IF Cardinality(C) <= Limit THEN Cardinality(C) ELSE Limit)
    /\ \A b \in B, o \in C \ B : stamp[b] <= stamp[o]

\* The stamp of the last row of B; the old cursor when there is none.
LastStamp(B, since) ==
    IF B = {} THEN since
    ELSE CHOOSE n \in {stamp[c] : c \in B} : \A c \in B : stamp[c] <= n

\* Mutant: the cursor is taken before the extra row is dropped.
CursorWithExtra(B, C, since) ==
    IF B = C THEN LastStamp(B, since)
    ELSE CHOOSE n \in {stamp[c] : c \in C \ B} : \A c \in C \ B : n <= stamp[c]
NextCursor(B, C, since) == LastStamp(B, since)

\* History: what the limit leaves out beside a row of the same write.
Beside(B, C) == {c \in C \ B : \E b \in B : stamp[b] = stamp[c]}
Later(m, n) == IF m < n THEN n ELSE m

-----------------------------------------------------------------------------
(* The phone *)

\* The saved cursor is read once, when the loop begins.
Start(l) ==
    /\ pull[l].step = "idle"
    /\ pull' = [pull EXCEPT ![l] = [Resting EXCEPT !.step = "fetch", !.cursor = cursor]]
    /\ UNCHANGED <<stamp, version, clock, tx, cursor, got, history>>

\* One pullSync, answered by Service.Pull in one query.
Fetch(l) ==
    /\ pull[l].step = "fetch"
    /\ LET since == pull[l].cursor
           C == ChangedSince(since)
       IN  \E B \in SUBSET C :
            /\ FirstOf(B, C)
            /\ pull' = [pull EXCEPT ![l] =
                  [step |-> "merge", cursor |-> since, next |-> NextCursor(B, C, since),
                   batch |-> {[comic |-> c, version |-> version[c]] : c \in B},
                   more |-> B # C, pages |-> @.pages + 1]]
            /\ given' = Later(given, NextCursor(B, C, since))
            /\ cut' = cut \cup Beside(B, C)
    /\ UNCHANGED <<stamp, version, clock, tx, cursor, got, late>>

MergeOne(l) ==
    /\ pull[l].step = "merge"
    /\ \E change \in pull[l].batch :
        /\ got' = [got EXCEPT ![change.comic] = IF @ < change.version THEN change.version ELSE @]
        /\ pull' = [pull EXCEPT ![l].batch = @ \ {change}]
    /\ UNCHANGED <<stamp, version, clock, tx, cursor, history>>

\* The page is merged: the cursor is saved, and the loop goes on if the
\* server said there is more and the page budget allows.
SaveCursor(l) ==
    /\ pull[l].step = "merge"
    /\ pull[l].batch = {}
    /\ cursor' = pull[l].next
    /\ pull' = [pull EXCEPT ![l] =
          IF @.more /\ @.pages < PullMaxPages
          THEN [@ EXCEPT !.step = "fetch", !.cursor = pull[l].next] ELSE Resting]
    /\ UNCHANGED <<stamp, version, clock, tx, got, history>>

\* A request fails, or the application is killed: the saved cursor stays.
Fail(l) ==
    /\ pull[l].step # "idle"
    /\ pull' = [pull EXCEPT ![l] = Resting]
    /\ UNCHANGED <<stamp, version, clock, tx, cursor, got, history>>

Load(l) == Start(l) \/ Fetch(l) \/ MergeOne(l) \/ SaveCursor(l)

Next ==
    \/ \E w \in Writers, S \in Writes : Begin(w, S)
    \/ \E w \in Writers : Commit(w)
    \/ \E l \in Loads : Load(l) \/ Fail(l)

Spec == Init /\ [][Next]_vars

(***************************************************************************)
(* A load that has begun goes on, loads are made again and again, and      *)
(* transactions commit.  Loads may fail, but not for ever: a phone that    *)
(* never has the network never learns anything.  (The end of a load that   *)
(* brought nothing leaves the same state as its failure would: it is not   *)
(* to be forbidden with the failures.)                                     *)
(***************************************************************************)
FairSpec ==
    /\ Spec
    /\ \A l \in Loads : WF_vars(Load(l))
    /\ \A w \in Writers : WF_vars(Commit(w))
    /\ <>[][\A l \in Loads : Fail(l) => SaveCursor(l)]_vars

-----------------------------------------------------------------------------
\* PROPERTIES

\* The rows that neither a write that commits behind the cursor nor a page
\* that is cut among rows of one stamp has hidden from the phone.
InOrder == Comics \ (late \cup cut)

\* service.go: the cursor never passes over a change the phone has not
\* received.  Whatever is at or below the saved cursor has been merged, but
\* for the rows whose last write committed behind a cursor already given, or
\* that a page left out beside a row of the same stamp.
NothingSkipped == \A c \in InOrder : stamp[c] <= cursor => got[c] >= version[c]

\* service.go: has_more tells that another page is there at once.  When the
\* server says there is nothing more, nothing committed then is missing once
\* the page is merged, under the same proviso.
DrainedIsComplete ==
    [][\A l \in Loads : Fetch(l) /\ ~pull'[l].more =>
          \A c \in InOrder : \/ got[c] >= version[c]
                             \/ [comic |-> c, version |-> version[c]] \in pull'[l].batch]_vars

\* Every change eventually reaches the phone, even when some loads fail,
\* under the same proviso.
CatchesUp == []<>(\A c \in InOrder : got[c] = version[c])

\* service.go, without the proviso.
CursorIsComplete == \A c \in Comics : stamp[c] <= cursor => got[c] >= version[c]
=============================================================================

----------------------------- MODULE PhoneSync -----------------------------
(***************************************************************************)
(* Reading progress between phones and the server, for one user.  A phone  *)
(* writes each position locally, marked pending, then sends it; clears the *)
(* mark on confirmation; empties its queue in one batch and merges what    *)
(* changed elsewhere when the library is loaded; merges one comic when it  *)
(* is opened.  (apps/mobile/lib/core/sync/progress_sync.dart.)             *)
(*                                                                         *)
(* A phone is one Dart isolate: its coroutines interleave at every await,  *)
(* so a handler that reads the local row, awaits and writes it is two      *)
(* actions, and a load may begin while another runs (a change of scope, a  *)
(* pull to refresh: the provider does not stop its former body).  A call   *)
(* may be lost before or after the server has applied it, may time out on  *)
(* the phone and still be applied later, or be refused.                    *)
(* updated_at is the number of writes the server has done: here writes are *)
(* serial and instants distinct (SyncCursor drops both hypotheses).        *)
(***************************************************************************)
EXTENDS ProgressRule, FiniteSets

CONSTANTS
    Comics, Phones,
    Loads,         \* library loads a phone may have under way at once
    Calls,         \* slots for requests in flight: bounds the concurrency
    Pages,         \* page numbers
    Stops,         \* the pages readers stop on in an instance
    PageCount,     \* page count of every comic
    Free,          \* an unused slot
    Budget         \* how often each event of the environment may occur

Kinds == {"turn", "web", "open", "reset", "fault"}

ASSUME PhoneSyncAssumption ==
    /\ Pages \subseteq Nat
    /\ 0 \in Pages
    /\ Stops \subseteq Pages
    /\ PageCount \in Nat \ {0}
    /\ Budget \in [Kinds -> Nat]

VARIABLES
    rows, at, clock,  \* the server: rows, their updated_at, the last instant
    local,            \* the phone's rows: position and pending mark
    cursor,           \* the phone's saved synchronisation cursor
    sync,             \* the coroutines of library loads: push, then pull
    opening,          \* the coroutine of resumePage
    call,             \* requests in flight
    left,             \* what is left of the budget
    \* History, read by the properties only.
    stops,            \* the pages some reader stopped on
    merged,           \* the latest version of each row the phone merged
    wiped,            \* comics whose position the server was told to take back
    dropped           \* rows that an answer for an older page marked sent

serverVars == <<rows, at, clock, wiped>>
vars == <<rows, at, clock, local, cursor, sync, opening, call, left,
          stops, merged, wiped, dropped>>

LocalRow == [page: Pages, pending: BOOLEAN]
\* pos: the positions sent; todo: those the server has not applied yet.
Call == [phone: Phones, by: Loads \cup {"reader"}, pos: [Comics -> Pages \cup {NoRow}],
         todo: SUBSET Comics, step: {"sent", "answered", "orphan"}]
\* A merge under way: the comic, the remote page, the local page once read.
Merge == [comic: Comics, remote: Pages, seen: Pages \cup {NoRow}, version: Nat]
Sync == [step: {"idle", "pushing", "pull", "merging"},
         batch: SUBSET [comic: Comics, remote: Pages, version: Nat],
         upto: Nat, merge: Merge \cup {NoRow}]

\* The marks of an absence are none of the values they stand beside.
ASSUME AbsenceAssumption ==
    /\ NoRow \notin Pages /\ NoRow \notin LocalRow /\ NoRow \notin Merge
    /\ Free \notin Call

TypeOK ==
    /\ rows \in [Comics -> Row \cup {NoRow}]
    /\ at \in [Comics -> Nat] /\ clock \in Nat
    /\ local \in [Phones -> [Comics -> LocalRow \cup {NoRow}]]
    /\ cursor \in [Phones -> Nat]
    /\ sync \in [Phones -> [Loads -> Sync]]
    /\ opening \in [Phones -> Merge \cup {NoRow}]
    /\ call \in [Calls -> Call \cup {Free}]
    /\ left \in [Kinds -> Nat]
    /\ stops \in [Comics -> SUBSET Pages]
    /\ merged \in [Phones -> [Comics -> Nat]]
    /\ wiped \subseteq Comics /\ dropped \subseteq Phones \X Comics

Asleep == [step |-> "idle", batch |-> {}, upto |-> 0, merge |-> NoRow]

Init ==
    /\ rows = [c \in Comics |-> NoRow]
    /\ at = [c \in Comics |-> 0] /\ clock = 0
    /\ local = [p \in Phones |-> [c \in Comics |-> NoRow]]
    /\ cursor = [p \in Phones |-> 0]
    /\ sync = [p \in Phones |-> [l \in Loads |-> Asleep]]
    /\ opening = [p \in Phones |-> NoRow]
    /\ call = [k \in Calls |-> Free]
    /\ left = Budget
    /\ stops = [c \in Comics |-> {}]
    /\ merged = [p \in Phones |-> [c \in Comics |-> 0]]
    /\ wiped = {} /\ dropped = {}

-----------------------------------------------------------------------------
Spend(kind) == left[kind] > 0 /\ left' = [left EXCEPT ![kind] = @ - 1]

\* Requests whose answer the phone still awaits.
Awaited(p) == {k \in Calls : call[k] # Free /\ call[k].phone = p /\ call[k].step # "orphan"}

\* Mutant: the where clause on the comic is missing.
LocalPageOfAny(p, c) ==
    LET cached == {local[p][d].page : d \in {e \in Comics : local[p][e] # NoRow}}
    IN  IF cached = {} THEN 0 ELSE CHOOSE n \in cached : \A m \in cached : m <= n
LocalPage(p, c) == IF local[p][c] = NoRow THEN 0 ELSE local[p][c].page

RemotePage(c) == IF rows[c] = NoRow THEN 0 ELSE rows[c].page

Pending(p) == {c \in Comics : local[p][c] # NoRow /\ local[p][c].pending}

\* saveProgress: a plain overwrite of the local row.
Save(p, c, page, pending) ==
    local' = [local EXCEPT ![p][c] = [page |-> page, pending |-> pending]]

\* A request of the phone that sends its rows of the comics S.
Request(p, by, S, mine) ==
    [phone |-> p, by |-> by, todo |-> S, step |-> "sent",
     pos |-> [c \in Comics |-> IF c \in S THEN mine[c].page ELSE NoRow]]

\* The server applies one write of a client.  A write that says "unread" may
\* take a position back.
Write1(c, page, status) ==
    /\ rows' = [rows EXCEPT ![c] = Upsert(@, [page |-> page, pageCount |-> PageCount,
                                              status |-> status])]
    /\ clock' = clock + 1
    /\ at' = [at EXCEPT ![c] = clock + 1]
    /\ wiped' = wiped \cup {d \in {c} : status = "unread" /\ page < RemotePage(c)}

-----------------------------------------------------------------------------
(* The reader *)

\* record: the page the reader stopped on is saved, then sent, whatever is
\* in flight or being merged.
Turn(p, c, page) ==
    /\ Spend("turn")
    /\ Save(p, c, page, TRUE)
    /\ \E k \in Calls :
        /\ call[k] = Free
        /\ call' = [call EXCEPT ![k] = Request(p, "reader", {c}, local'[p])]
    /\ stops' = [stops EXCEPT ![c] = @ \cup {page}]
    /\ dropped' = dropped \ {<<p, c>>}
    /\ UNCHANGED <<serverVars, cursor, sync, opening, merged>>

\* The same user reads in the web client, which lets the server derive the
\* status (apps/web/src/lib/reader/progress.ts).
WebRead(c, page) ==
    /\ Spend("web")
    /\ Write1(c, page, DeriveStatus(page, PageCount))
    /\ stops' = [stops EXCEPT ![c] = @ \cup {page}]
    /\ UNCHANGED <<local, dropped, cursor, sync, opening, call, merged>>

\* "Mark as unread" in the web client: BulkMarkUnread deletes the row.
MarkUnread(c) ==
    /\ Spend("reset")
    /\ rows[c] # NoRow
    /\ rows' = [rows EXCEPT ![c] = NoRow]
    /\ wiped' = wiped \cup {c}
    /\ UNCHANGED <<at, clock, local, dropped, cursor, sync, opening, call, stops, merged>>

-----------------------------------------------------------------------------
(* Calls in flight *)

\* The server applies one position of a call; a put has only one.
Apply(k) ==
    /\ call[k] # Free
    /\ \E c \in call[k].todo :
        LET page == call[k].pos[c]
            todo == call[k].todo \ {c}
        IN  /\ Write1(c, page, StatusFor(page, PageCount))
            /\ call' = [call EXCEPT ![k] =
                          IF todo # {} THEN [@ EXCEPT !.todo = todo]
                          ELSE IF @.step = "orphan" THEN Free
                          ELSE [@ EXCEPT !.todo = todo, !.step = "answered"]]
    /\ UNCHANGED <<local, dropped, cursor, sync, opening, left, stops, merged>>

\* After push, whatever its outcome except a refusal, the load goes on.
AfterPush(p, l, next) == [sync EXCEPT ![p][l] = [Asleep EXCEPT !.step = next]]

\* The same for the call that ends, which may be the reader's.
AfterCall(k, next) ==
    IF call[k].by = "reader" THEN sync ELSE AfterPush(call[k].phone, call[k].by, next)

\* The comics whose position the call k sent.
Sent(k) == {c \in Comics : call[k].pos[c] # NoRow}

\* markSynced: the rows of these comics are no longer pending, whatever
\* their page is now.
Settled(p, sent) ==
    [local EXCEPT ![p] = [c \in Comics |->
        IF c \in sent /\ local[p][c] # NoRow
        THEN [local[p][c] EXCEPT !.pending = FALSE] ELSE local[p][c]]]

\* The answer reaches the phone.
Ack(k) ==
    /\ call[k] # Free
    /\ call[k].step = "answered"
    /\ local' = Settled(call[k].phone, Sent(k))
    /\ dropped' = dropped \cup
          {<<call[k].phone, c>> : c \in {d \in Sent(k) \cap Pending(call[k].phone) :
                                          LocalPage(call[k].phone, d) > call[k].pos[d]}}
    /\ sync' = AfterCall(k, "pull")
    /\ call' = [call EXCEPT ![k] = Free]
    /\ UNCHANGED <<serverVars, cursor, opening, left, stops, merged>>

\* NetworkException: the request is lost, or only its answer, or the phone
\* gave up on a request that may still be applied.  A push that fails this
\* way does not stop the load.
Lose(k) ==
    /\ call[k] # Free
    /\ call[k].step # "orphan"
    /\ Spend("fault")
    /\ \/ call' = [call EXCEPT ![k] = Free]
       \/ call[k].todo # {} /\ call' = [call EXCEPT ![k].step = "orphan"]
    /\ sync' = AfterCall(k, "pull")
    /\ UNCHANGED <<serverVars, local, dropped, cursor, opening, stops, merged>>

\* ApiException: the server refuses the rest of the call.  A refused push
\* ends the load.
Refuse(k) ==
    /\ call[k] # Free
    /\ call[k].step = "sent"
    /\ Spend("fault")
    /\ call' = [call EXCEPT ![k] = Free]
    /\ sync' = AfterCall(k, "idle")
    /\ UNCHANGED <<serverVars, local, dropped, cursor, opening, stops, merged>>

-----------------------------------------------------------------------------
(* Library load: push, then pull *)

SyncStart(p, l) ==
    /\ sync[p][l] = Asleep
    /\ IF Pending(p) = {}
       THEN sync' = AfterPush(p, l, "pull") /\ UNCHANGED call
       ELSE /\ sync' = AfterPush(p, l, "pushing")
            /\ \E k \in Calls : /\ call[k] = Free
                               /\ call' = [call EXCEPT ![k] = Request(p, l, Pending(p), local[p])]
    /\ UNCHANGED <<serverVars, local, dropped, cursor, opening, left, stops, merged>>

Changed(p) == {c \in Comics : rows[c] # NoRow /\ at[c] > cursor[p]}

\* pullSync: the rows changed since the cursor, and the cursor that goes
\* with them.  Nothing new ends the load; so does a failure.
PullFetch(p, l) ==
    /\ sync[p][l].step = "pull"
    /\ sync' = [sync EXCEPT ![p][l] =
          IF Changed(p) = {} THEN Asleep
          ELSE [step |-> "merging", merge |-> NoRow,
                batch |-> {[comic |-> c, remote |-> rows[c].page, version |-> at[c]]
                           : c \in Changed(p)},
                upto |-> CHOOSE n \in {at[c] : c \in Changed(p)} :
                            \A c \in Changed(p) : at[c] <= n]]
    /\ UNCHANGED <<serverVars, local, dropped, cursor, opening, call, left, stops, merged>>

PullFail(p, l) ==
    /\ sync[p][l].step \in {"pull", "merging"}
    /\ Spend("fault")
    /\ sync' = [sync EXCEPT ![p][l] = Asleep]
    /\ UNCHANGED <<serverVars, local, dropped, cursor, opening, call, stops, merged>>

\* mergeRemote, first half: the local row is read.  The server sorts the
\* changes by updated_at.
MergeRead(p, l) ==
    /\ sync[p][l].step = "merging"
    /\ sync[p][l].merge = NoRow
    /\ \E change \in sync[p][l].batch :
        /\ \A other \in sync[p][l].batch : change.version <= other.version
        /\ sync' = [sync EXCEPT ![p][l] =
              [sync[p][l] EXCEPT !.batch = @ \ {change},
                                 !.merge = [comic |-> change.comic, remote |-> change.remote,
                                            seen |-> LocalPage(p, change.comic),
                                            version |-> change.version]]]
    /\ UNCHANGED <<serverVars, local, dropped, cursor, opening, call, left, stops, merged>>

\* Mutant: what comes from a merge is never pending.
NeverAhead(m) == FALSE
StillAhead(m) == m.seen > m.remote

\* mergeRemote, second half: the furthest of the page read and the remote
\* one is written; it is pending when the phone was ahead.
SaveMerge(p, m) ==
    /\ Save(p, m.comic, Furthest(m.seen, m.remote), StillAhead(m))
    /\ merged' = [merged EXCEPT ![p][m.comic] = Furthest(@, m.version)]
    /\ dropped' = dropped \ {<<p, m.comic>>}

MergeWrite(p, l) ==
    /\ sync[p][l].merge # NoRow
    /\ SaveMerge(p, sync[p][l].merge)
    /\ sync' = [sync EXCEPT ![p][l].merge = NoRow]
    /\ UNCHANGED <<serverVars, cursor, opening, call, left, stops>>

\* Mutant: the cursor advances while the batch is still being merged.
CursorEarly(p, l) == sync[p][l].step = "merging"
\* The cursor is saved once the whole batch is merged.
BatchMerged(p, l) == sync[p][l].step = "merging" /\ sync[p][l].batch = {} /\ sync[p][l].merge = NoRow

\* Mutant: the cursor is the server's present instant, not the batch's last.
CursorAtPresent(p, l) == clock
BatchCursor(p, l) == sync[p][l].upto

PullDone(p, l) ==
    /\ BatchMerged(p, l)
    /\ cursor' = [cursor EXCEPT ![p] = BatchCursor(p, l)]
    /\ sync' = [sync EXCEPT ![p][l] = Asleep]
    /\ UNCHANGED <<serverVars, local, dropped, opening, call, left, stops, merged>>

-----------------------------------------------------------------------------
(* Opening a comic: resumePage *)

OpenFetch(p, c) ==
    /\ opening[p] = NoRow
    /\ Spend("open")
    /\ opening' = [opening EXCEPT ![p] = [comic |-> c, remote |-> RemotePage(c),
                                          seen |-> NoRow, version |-> at[c]]]
    /\ UNCHANGED <<serverVars, local, dropped, cursor, sync, call, stops, merged>>

OpenRead(p) ==
    /\ opening[p] # NoRow
    /\ opening[p].seen = NoRow
    /\ opening' = [opening EXCEPT ![p].seen = LocalPage(p, opening[p].comic)]
    /\ UNCHANGED <<serverVars, local, dropped, cursor, sync, call, left, stops, merged>>

OpenWrite(p) ==
    /\ opening[p] # NoRow
    /\ opening[p].seen # NoRow
    /\ SaveMerge(p, opening[p])
    /\ opening' = [opening EXCEPT ![p] = NoRow]
    /\ UNCHANGED <<serverVars, cursor, sync, call, left, stops>>

\* The application is killed: coroutines and awaited answers are gone, the
\* database and the requests already sent remain.
Kill(p) ==
    /\ Spend("fault")
    /\ sync' = [sync EXCEPT ![p] = [l \in Loads |-> Asleep]]
    /\ opening' = [opening EXCEPT ![p] = NoRow]
    /\ call' = [k \in Calls |-> IF k \notin Awaited(p) THEN call[k]
                                ELSE IF call[k].todo = {} THEN Free
                                ELSE [call[k] EXCEPT !.step = "orphan"]]
    /\ UNCHANGED <<serverVars, local, dropped, cursor, stops, merged>>

-----------------------------------------------------------------------------
CallStep(k) == Apply(k) \/ Ack(k)

SyncStep(p, l) ==
    \/ SyncStart(p, l) \/ PullFetch(p, l)
    \/ MergeRead(p, l) \/ MergeWrite(p, l) \/ PullDone(p, l)

OpenStep(p) == OpenRead(p) \/ OpenWrite(p)

Next ==
    \/ \E p \in Phones, c \in Comics, page \in Stops : Turn(p, c, page)
    \/ \E c \in Comics, page \in Stops : WebRead(c, page)
    \/ \E c \in Comics : MarkUnread(c)
    \/ \E k \in Calls : CallStep(k) \/ Lose(k) \/ Refuse(k)
    \/ \E p \in Phones, l \in Loads : SyncStep(p, l) \/ PullFail(p, l)
    \/ \E p \in Phones : OpenStep(p) \/ Kill(p)
    \/ \E p \in Phones, c \in Comics : OpenFetch(p, c)

Spec == Init /\ [][Next]_vars

(***************************************************************************)
(* A request in flight is eventually applied and answered, a coroutine     *)
(* runs on, and the library is loaded again and again: at every launch and *)
(* at every pull to refresh.  Nothing is assumed of the reader, nor of the *)
(* faults.  A load needs a slot for its push, hence the strong fairness.   *)
(***************************************************************************)
FairSpec ==
    /\ Spec
    /\ \A k \in Calls : WF_vars(Apply(k)) /\ WF_vars(Ack(k))
    /\ \A p \in Phones : WF_vars(OpenStep(p))
    /\ \A p \in Phones, l \in Loads : SF_vars(SyncStart(p, l)) /\ WF_vars(SyncStep(p, l))

-----------------------------------------------------------------------------
\* PROPERTIES

\* A position anywhere in the system is one a reader stopped on, or the
\* first page: no path of the protocol mixes comics or makes a page up.
NothingInvented ==
    \A c \in Comics :
        LET Known == stops[c] \cup {0}
        IN  /\ rows[c] # NoRow => rows[c].page \in Known
            /\ \A p \in Phones : LocalPage(p, c) \in Known
            /\ \A k \in Calls : call[k] # Free /\ call[k].pos[c] # NoRow =>
                  call[k].pos[c] \in Known

\* A phone whose cursor has passed a row's last change has merged that very
\* change: a load that fails or is killed half-way skips nothing.
CursorSkipsNothing ==
    \A p \in Phones, c \in Comics :
        rows[c] # NoRow /\ at[c] <= cursor[p] => merged[p][c] >= at[c]

\* A phone ahead of the server keeps the row pending, except where it cannot:
\* the server was told to take the position back, or the answer to an older
\* page cleared the mark of a newer one (markSynced looks at no page).
AheadIsPending ==
    \A p \in Phones, c \in Comics :
        c \notin wiped /\ <<p, c>> \notin dropped =>
            (LocalPage(p, c) > RemotePage(c) => c \in Pending(p))

\* The same without the second exception, as database.dart has it: pending is
\* true as long as the server has not confirmed the position.
PendingUntilConfirmed ==
    \A p \in Phones, c \in Comics :
        c \notin wiped /\ LocalPage(p, c) > RemotePage(c) => c \in Pending(p)

\* When the readers stop, every phone ends with the server's position and an
\* empty queue, on every comic that the server has kept.
InStep ==
    \A p \in Phones, c \in Comics \ wiped :
        rows[c] # NoRow => /\ LocalPage(p, c) = RemotePage(c)
                           /\ c \notin Pending(p)
Converges == <>[]InStep
=============================================================================

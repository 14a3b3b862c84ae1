--------------------------- MODULE ProgressServer ---------------------------
(***************************************************************************)
(* The server side of reading progress for one user: every path that       *)
(* writes a reading_progress row.  The single write (PUT progress), the    *)
(* batch of an offline client (POST sync), which is applied one statement  *)
(* at a time and stops at its first failure, the deletion, and the two     *)
(* bulk marks.  Clients may send a batch again when its answer was lost.   *)
(* Around them, the catalogue: a comic can be hidden, listed again, purged *)
(* (its progress goes with it) or re-indexed with another page count.      *)
(***************************************************************************)
EXTENDS ProgressRule, Sequences

CONSTANTS
    Comics,        \* the comics of the catalogue
    Conns,         \* HTTP requests the server may be serving at once
    Updates,       \* the writes clients send
    Batches,       \* the batches offline clients send
    PageCounts,    \* page counts an indexing can find
    MaxResets      \* bound on the resets of one row

Update == [comic: Comics, page: Int, pageCount: Int, status: Status \cup {"absent"}]

ASSUME InputsAssumption ==
    /\ Updates \subseteq Update
    /\ Batches \subseteq Seq(Updates)
    /\ PageCounts \subseteq Nat
    /\ MaxResets \in Nat

VARIABLES
    rows,       \* reading_progress
    shelf,      \* where the comic is in the catalogue
    pageCount,  \* page count of the comic in the catalogue
    conn,       \* the batch each request is applying
    \* History, read by the properties only.
    since,      \* the writes applied to a row since it was created or reset
    resets      \* how many resets the row has seen

progressVars == <<rows, since, resets>>
vars == <<rows, shelf, pageCount, conn, since, resets>>

Mark == [page: Nat, status: Status]
\* todo: what is left of the batch; done: how many of its first writes were
\* applied, in this attempt or an earlier one.
Conn == [todo: Seq(Updates), sent: Seq(Updates), done: Nat]

TypeOK ==
    /\ rows \in [Comics -> Row \cup {NoRow}]
    /\ shelf \in [Comics -> {"listed", "hidden", "purged"}]
    /\ pageCount \in [Comics -> PageCounts]
    /\ conn \in [Conns -> Conn]
    /\ since \in [Comics -> SUBSET Mark]
    /\ resets \in [Comics -> Nat]

Init ==
    /\ rows = [c \in Comics |-> NoRow]
    /\ shelf = [c \in Comics |-> "listed"]
    /\ pageCount \in [Comics -> PageCounts]
    /\ conn = [k \in Conns |-> [todo |-> <<>>, sent |-> <<>>, done |-> 0]]
    /\ since = [c \in Comics |-> {}]
    /\ resets = [c \in Comics |-> 0]

-----------------------------------------------------------------------------
MarkOf(w) == [page |-> w.page, status |-> w.status]

\* Record: the service normalises, the repository upserts.  An "unread"
\* write on an existing row is a reset: the history starts again from it.
Record(u) ==
    LET c == u.comic
        w == Normalise(u)
        reset == rows[c] # NoRow /\ w.status = "unread"
    IN  /\ reset => resets[c] < MaxResets
        /\ rows' = [rows EXCEPT ![c] = Upsert(@, w)]
        /\ since' = [since EXCEPT ![c] = (IF reset THEN {} ELSE @) \cup {MarkOf(w)}]
        /\ resets' = [resets EXCEPT ![c] = IF reset THEN @ + 1 ELSE @]

\* Rows that disappear, with their history.
Forget(gone) ==
    /\ rows' = [c \in Comics |-> IF c \in gone THEN NoRow ELSE rows[c]]
    /\ since' = [c \in Comics |-> IF c \in gone THEN {} ELSE since[c]]
    /\ resets' = [c \in Comics |-> IF c \in gone THEN 0 ELSE resets[c]]

\* PUT /comics/{id}/progress: the comic must be visible to the reader.
Put ==
    /\ \E u \in Updates : shelf[u.comic] = "listed" /\ Record(u)
    /\ UNCHANGED <<shelf, pageCount, conn>>

\* POST /sync: a batch arrives.
PushBegin(k) ==
    /\ conn[k].todo = <<>>
    /\ \E batch \in Batches :
          conn' = [conn EXCEPT ![k] = [todo |-> batch, sent |-> batch, done |-> 0]]
    /\ UNCHANGED <<progressVars, shelf, pageCount>>

\* The client got no answer and sends the same batch again.
PushReplay(k) ==
    /\ conn[k].todo = <<>>
    /\ conn[k].sent # <<>>
    /\ conn' = [conn EXCEPT ![k].todo = conn[k].sent]
    /\ UNCHANGED <<progressVars, shelf, pageCount>>

\* Mutant: no foreign key from reading_progress to comics.
NoForeignKey(c) == TRUE

\* The row of a purged comic cannot be written.
ForeignKey(c) == shelf[c] # "purged"

\* Position, in the batch sent, of the write about to be applied.
Cursor(k) == Len(conn[k].sent) - Len(conn[k].todo) + 1

\* One iteration of the loop in Push.  Visibility is not checked here.
PushStep(k) ==
    /\ conn[k].todo # <<>>
    /\ ForeignKey(Head(conn[k].todo).comic)
    /\ Record(Head(conn[k].todo))
    /\ conn' = [conn EXCEPT ![k].todo = Tail(@),
                            ![k].done = IF @ >= Cursor(k) THEN @ ELSE Cursor(k)]
    /\ UNCHANGED <<shelf, pageCount>>

\* The first error ends the batch; what was applied stays applied.  A purged
\* comic is one such error, a lost database or client is another.
PushAbort(k) ==
    /\ conn[k].todo # <<>>
    /\ conn' = [conn EXCEPT ![k].todo = <<>>]
    /\ UNCHANGED <<progressVars, shelf, pageCount>>

\* DELETE /comics/{id}/progress
Delete(c) ==
    /\ shelf[c] = "listed"
    /\ Forget({c})
    /\ UNCHANGED <<shelf, pageCount, conn>>

\* Bulk marks apply to the visible part of the selection.
Visible(selection) == {c \in selection : shelf[c] = "listed"}

BulkMarkUnread(selection) ==
    /\ Visible(selection) # {}
    /\ Forget(Visible(selection))
    /\ UNCHANGED <<shelf, pageCount, conn>>

BulkMarkRead(selection) ==
    LET marked == Visible(selection)
        mark(c) == [page |-> LastPage(pageCount[c]), status |-> "read"]
    IN  /\ marked # {}
        /\ rows' = [c \in Comics |-> IF c \in marked THEN BulkRead(rows[c], pageCount[c])
                                     ELSE rows[c]]
        \* The statement imposes its page: the row's history starts again.
        /\ since' = [c \in Comics |-> IF c \in marked THEN {mark(c)} ELSE since[c]]
        /\ UNCHANGED <<resets, shelf, pageCount, conn>>

-----------------------------------------------------------------------------
\* The catalogue, which the indexer and the file operations change.
Hide(c) ==
    /\ shelf[c] = "listed"
    /\ shelf' = [shelf EXCEPT ![c] = "hidden"]
    /\ UNCHANGED <<progressVars, pageCount, conn>>

Relist(c) ==
    /\ shelf[c] = "hidden"
    /\ shelf' = [shelf EXCEPT ![c] = "listed"]
    /\ UNCHANGED <<progressVars, pageCount, conn>>

Purge(c) ==
    /\ shelf[c] # "purged"
    /\ shelf' = [shelf EXCEPT ![c] = "purged"]
    /\ Forget({c})
    /\ UNCHANGED <<pageCount, conn>>

Reindex(c) ==
    /\ shelf[c] = "listed"
    /\ \E n \in PageCounts : pageCount' = [pageCount EXCEPT ![c] = n]
    /\ UNCHANGED <<progressVars, shelf, conn>>

Next ==
    \/ Put
    \/ \E k \in Conns : PushBegin(k) \/ PushReplay(k) \/ PushStep(k) \/ PushAbort(k)
    \/ \E c \in Comics : Delete(c) \/ Hide(c) \/ Relist(c) \/ Purge(c) \/ Reindex(c)
    \/ \E selection \in SUBSET Comics : BulkMarkRead(selection) \/ BulkMarkUnread(selection)

Spec == Init /\ [][Next]_vars

-----------------------------------------------------------------------------
\* PROPERTIES

\* "The furthest page wins": whatever the order, the interleaving and the
\* number of times writes arrive, the row holds the furthest page among the
\* writes applied since it was created or reset, and is read exactly when one
\* of them said so.  (ON CONFLICT clause of UpsertReadingProgress.)
PositionIsFurthest ==
    \A c \in Comics : rows[c] # NoRow =>
        /\ \E m \in since[c] : m.page = rows[c].page
        /\ \A m \in since[c] : m.page <= rows[c].page
        /\ rows[c].status = "read" <=> \E m \in since[c] : m.status = "read"

\* A finished reading is counted once: between two resets, neither a batch
\* sent again nor a bulk mark on top of a reading adds to read_count.
CountedOncePerReset ==
    \A c \in Comics : rows[c] # NoRow =>
        rows[c].readCount <= resets[c] + (IF rows[c].status = "read" THEN 1 ELSE 0)

\* finished_at is set exactly on the rows that are read, on every write path;
\* and a row that is read has been counted at least once.
FinishedIffRead ==
    \A c \in Comics : rows[c] # NoRow =>
        /\ rows[c].finished <=> rows[c].status = "read"
        /\ rows[c].status = "read" => rows[c].readCount >= 1

\* A purged comic has no progress, and no late batch gives it one back.
PurgedStaysForgotten == \A c \in Comics : shelf[c] = "purged" => rows[c] = NoRow

-----------------------------------------------------------------------------
\* What the documentation says and the code does not do: no run keeps it.

\* POST /sync (openapi.yaml, service.go): sending a batch again, which happens
\* when the answer is lost, cannot move a position back nor count a reading
\* twice.  Stated of the writes of a batch that were applied before.
ReplayHarmless ==
    [][\A k \in Conns :
          LET again == /\ conn[k].todo # <<>>
                       /\ conn[k].done >= Cursor(k)
                       /\ PushStep(k)
              c == Head(conn[k].todo).comic
          IN  again /\ rows[c] # NoRow =>
                /\ rows'[c].page >= rows[c].page
                /\ rows'[c].readCount = rows[c].readCount]_vars
=============================================================================

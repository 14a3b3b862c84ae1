---------------------------- MODULE OfflineQueue ----------------------------
(***************************************************************************)
(* The queue of positions a phone has not sent yet, and what a library     *)
(* load does with it: the whole queue goes in one POST /sync, oldest       *)
(* first; the server refuses a batch that is too large, applies the others *)
(* one write at a time and stops at the first that fails; a refusal ends   *)
(* the load before its second half, the pull.  A comic may be purged from  *)
(* the server while the phone still reads its downloaded copy.             *)
(*                                                                         *)
(* Pages are left out: what matters of a call is whether the position that *)
(* it carries is still the one the reader left.  A comic may be read again *)
(* while a call that holds it is in flight; one PUT of each comic is in    *)
(* flight at a time, which is a bound of the model.                        *)
(***************************************************************************)
EXTENDS Sequences, SequencesExt, Naturals, Sift

CONSTANTS
    Readable,
    MaxBatch,      \* updates the server accepts in one batch
    Purgeable,     \* the comics that may be purged in an instance
    Online         \* the comics that may be read with a network in an instance

ASSUME QueueAssumption ==
    MaxBatch \in Nat /\ Purgeable \subseteq Readable /\ Online \subseteq Readable

VARIABLES
    queue,     \* the pending rows of the phone, oldest first
    reached,   \* comics whose last position is on the server
    purged,    \* comics that are gone from the server
    load,      \* the library load under way
    batch,     \* what it sent
    todo,      \* what the server has not applied of it
    put,       \* the PUT of each comic, sent as the page is turned
    aged,      \* the calls that carry a position left behind since
    news,      \* something was read elsewhere that the phone has not heard of
    \* History, read by the properties only.
    recorded,  \* the comics read on the phone
    unmarked   \* those whose mark an answer to an older position has cleared

queueVars == <<queue, reached, purged, load, batch, todo, put, aged, news,
               recorded, unmarked>>
serverSide == <<reached, purged, news>>
putVars == <<put, aged>>

\* The two ways in which the position of a comic may be on its way.
Carriers == {"put", "batch"}

QueueTypes ==
    /\ queue \in Seq(Readable) /\ batch \in Seq(Readable) /\ todo \in Seq(Readable)
    /\ reached \subseteq Readable /\ purged \subseteq Purgeable
    /\ recorded \subseteq Readable /\ unmarked \subseteq Readable
    /\ put \in [Readable -> {"none", "sent", "applied"}]
    /\ aged \subseteq Carriers \X Readable
    /\ load \in {"idle", "sent", "applied", "refused", "pull"}
    /\ news \in BOOLEAN
    /\ IsInjective(queue)
    /\ IsSuffix(todo, batch)

QueueInit ==
    /\ queue = <<>> /\ batch = <<>> /\ todo = <<>>
    /\ reached = {} /\ purged = {} /\ recorded = {} /\ unmarked = {}
    /\ put = [c \in Readable |-> "none"] /\ aged = {}
    /\ load = "idle"
    /\ news = FALSE

-----------------------------------------------------------------------------
\* The calls in flight that hold a position of c.
Carrying(c) == {h \in Carriers : IF h = "put" THEN put[c] # "none" ELSE c \in ToSet(batch)}

\* The server takes a position: it has the last one, unless this one is aged.
Reach(c, h) == reached \cup (IF <<h, c>> \in aged THEN {} ELSE {c})

\* markSynced clears the marks of the comics S, on the answer to a call h;
\* history: some of them were the marks of a later position.
MarkSynced(rest, S, h) ==
    /\ queue' = rest
    /\ unmarked' = unmarked \cup {c \in S : <<h, c>> \in aged /\ c \in ToSet(queue)}

\* record, up to its call: the row is pending.  One row per comic: a new
\* position replaces the older one, whatever is in flight.
Read(c) ==
    /\ queue' = Append(Without(queue, {c}), c)
    /\ reached' = reached \ {c}
    /\ aged' = aged \cup {<<h, c>> : h \in Carrying(c)}
    /\ \/ c \in Online /\ put[c] = "none" /\ put' = [put EXCEPT ![c] = "sent"]
       \/ UNCHANGED put
    /\ recorded' = recorded \cup {c}
    /\ unmarked' = unmarked \ {c}
    /\ UNCHANGED <<purged, load, batch, todo, news>>

PutApplied(c) ==
    /\ put[c] = "sent" /\ c \notin purged
    /\ put' = [put EXCEPT ![c] = "applied"]
    /\ reached' = Reach(c, "put")
    /\ UNCHANGED <<queue, purged, load, batch, todo, aged, news, recorded, unmarked>>

\* The PUT of c is over, answered or not.
PutOver(c) ==
    /\ put' = [put EXCEPT ![c] = "none"]
    /\ aged' = aged \ {<<"put", c>>}

\* record, after its call.
PutConfirmed(c) ==
    /\ put[c] = "applied"
    /\ PutOver(c)
    /\ MarkSynced(Without(queue, {c}), {c}, "put")
    /\ UNCHANGED <<serverSide, load, batch, todo, recorded>>

\* NetworkException or ApiException: the row waits for a load.
PutFailed(c) ==
    /\ put[c] # "none"
    /\ PutOver(c)
    /\ UNCHANGED <<serverSide, queue, load, batch, todo, recorded, unmarked>>

ReadElsewhere ==
    /\ news' = TRUE
    /\ UNCHANGED <<queue, reached, purged, load, batch, todo, putVars, recorded, unmarked>>

\* PurgeComic: the comic goes, and its progress row with it.
Purge(c) ==
    /\ purged' = purged \cup {c}
    /\ reached' = reached \ {c}
    /\ UNCHANGED <<queue, load, batch, todo, putVars, news, recorded, unmarked>>

-----------------------------------------------------------------------------
\* Mutant: a load that has nothing to send has nothing to do.
NothingToDo == "idle"
\* push returns at once on an empty queue, and the load goes on to the pull.
NothingToSend == "pull"

LoadStart ==
    /\ load = "idle"
    /\ load' = IF queue = <<>> THEN NothingToSend ELSE "sent"
    /\ batch' = queue
    /\ todo' = queue
    /\ UNCHANGED <<queue, serverSide, putVars, recorded, unmarked>>

TooLarge == Len(batch) > MaxBatch

\* One write of the batch; the foreign key refuses a purged comic.
ServerApply ==
    /\ load = "sent"
    /\ IF TooLarge \/ Head(todo) \in purged
       THEN load' = "refused" /\ UNCHANGED <<reached, todo>>
       ELSE /\ reached' = Reach(Head(todo), "batch")
            /\ todo' = Tail(todo)
            /\ load' = IF todo' = <<>> THEN "applied" ELSE load
    /\ UNCHANGED <<queue, purged, batch, putVars, news, recorded, unmarked>>

\* The load has done with its batch.
BatchOver(next) ==
    /\ batch' = <<>> /\ todo' = <<>>
    /\ aged' = {pair \in aged : pair[1] # "batch"}
    /\ load' = next

\* Mutant: only the comic written last is marked.
MarkedLast == Without(queue, {Last(batch)})
\* markSynced: the comics of the batch are no longer pending.
Marked == Without(queue, ToSet(batch))

PushConfirmed ==
    /\ load = "applied"
    /\ BatchOver("pull")
    /\ MarkSynced(Marked, ToSet(batch), "batch")
    /\ UNCHANGED <<serverSide, put, recorded>>

\* Mutant: a batch the server refuses is not sent again.
DroppedAfterRefusal == Without(queue, ToSet(batch))
KeptAfterRefusal == queue

\* ApiException: the rows stay pending and the load skips its pull.
PushRefused ==
    /\ load = "refused"
    /\ BatchOver("idle")
    /\ queue' = KeptAfterRefusal
    /\ UNCHANGED <<serverSide, put, recorded, unmarked>>

\* NetworkException, at any point of the call: the load tries its pull.
PushLost ==
    /\ load \in {"sent", "applied", "refused"}
    /\ BatchOver("pull")
    /\ UNCHANGED <<queue, serverSide, put, recorded, unmarked>>

PullDone ==
    /\ load = "pull"
    /\ load' = "idle"
    /\ news' = FALSE
    /\ UNCHANGED <<queue, reached, purged, batch, todo, putVars, recorded, unmarked>>

PullLost ==
    /\ load = "pull"
    /\ load' = "idle"
    /\ UNCHANGED <<queue, serverSide, batch, todo, putVars, recorded, unmarked>>

LoadStep == LoadStart \/ ServerApply \/ PushConfirmed \/ PushRefused \/ PullDone

QueueNext ==
    \/ \E c \in Readable : Read(c) \/ PutApplied(c) \/ PutConfirmed(c) \/ PutFailed(c)
    \/ \E c \in Purgeable : Purge(c)
    \/ ReadElsewhere
    \/ LoadStep
    \/ PushLost \/ PullLost

QueueSpec == QueueInit /\ [][QueueNext]_queueVars

(***************************************************************************)
(* The library is loaded again and again (at every launch and at every     *)
(* pull to refresh) and the network comes back for good one day.  (A pull  *)
(* that brings nothing leaves the same state as a lost one: it is not to   *)
(* be forbidden with the losses.)                                          *)
(***************************************************************************)
FairQueue == QueueSpec /\ WF_queueVars(LoadStep) /\ <>[][PushLost \/ PullLost => LoadStep]_queueVars

-----------------------------------------------------------------------------
\* PROPERTIES

\* progress_sync.dart: rows are marked only once the server has confirmed, or
\* an offline reading would be lost.  The last position of a comic is on the
\* server or in the queue, whatever was in flight when it was recorded and
\* whatever is refused or lost, unless the comic is gone, or the answer to an
\* older position has cleared its mark.
NothingLost == recorded \ (purged \cup unmarked) \subseteq reached \cup ToSet(queue)

\* database.dart: the row is pending as long as the server has not confirmed
\* this progression.
PendingUntilConfirmed == recorded \ purged \subseteq reached \cup ToSet(queue)

\* The queue is one the server refuses: too long, or with a purged comic.
Refusable == Len(queue) > MaxBatch \/ ToSet(queue) \cap purged # {}

\* What is queued is sent one day, unless the queue becomes one the server
\* refuses; then, every load sends it whole and every load is refused.
Drains == \A c \in Readable : c \in ToSet(queue) ~> (c \notin ToSet(queue) \/ Refusable)

\* What is read elsewhere reaches the phone one day, under the same proviso:
\* a refused push ends the load before its pull.
HearsNews == news ~> (~news \/ Refusable)

\* progress_sync.dart: a row that is refused stays pending and the next full
\* synchronisation decides.  Every comic that still exists is sent one day.
QueueDecided == \A c \in Readable : c \in ToSet(queue) ~> (c \notin ToSet(queue) \/ c \in purged)
=============================================================================

------------------------------ MODULE Catalogue ------------------------------
(***************************************************************************)
(* One library: the objects of its storage, the rows of the catalogue that *)
(* describe them, and what keeps the second in step with the first.  Files *)
(* come and go behind the server's back; users upload, move and remove     *)
(* comics; scans, which nothing keeps from running side by side, list the  *)
(* storage while all that goes on; index jobs, queued in the database,     *)
(* read the archives and fill in the pages.                                *)
(*                                                                         *)
(* A content is what an ETag and a size identify: it is made once, and     *)
(* moves with its object.  Folders, series, counters and titles are left   *)
(* out, and so is the move of an object to another backend.                *)
(***************************************************************************)
EXTENDS Integers, FiniteSets

CONSTANTS
    Keys,      \* object keys
    Initial,   \* contents of the storage when the library is added
    Ids,       \* identifiers of comics, given in increasing order
    Scans,     \* scans that may run at once
    Workers,   \* index jobs that may run at once
    Users,     \* file operations that may be under way at once
    MaxJobs,   \* bound: jobs of one comic told apart while they wait
    Reuse,     \* a key that a comic or a job still names may get another object
    Cost,      \* what an event of each kind takes off the bound that follows
    Events,    \* bound: how many events may happen
    Unborn, Purged,  \* a row not inserted yet, a row deleted
    Idle             \* no job, no operation

Kinds == {"file", "upload", "exclude", "delete", "move", "crash", "fault", "lost"}

ASSUME CatalogueAssumption ==
    /\ Ids \subseteq Nat /\ IsFiniteSet(Ids) /\ IsFiniteSet(Workers)
    /\ Initial \in [Keys -> 0..Cardinality(Keys)] /\ IsFiniteSet(Keys)
    /\ MaxJobs \in Nat \ {0} /\ Reuse \in BOOLEAN
    /\ Cost \in [Kinds -> Nat \ {0}] /\ Events \in Nat

VARIABLES
    object,    \* content of each key, 0 when there is no object
    made,      \* the last content made
    row,       \* the rows of the catalogue
    queue,     \* index jobs waiting, by comic
    worker,    \* index jobs running
    scan,      \* the scans of the library that run
    op,        \* file operations under way
    left,      \* what is left of Events
    calm,      \* history: scans since whose beginning nothing else has moved
    orphan,    \* history: comics whose last job was never inserted, or given up
    overlap    \* history: comics whose last jobs ran at the same time

vars == <<object, made, row, queue, worker, scan, op, left, calm, orphan, overlap>>

Row == [key: Keys, etag: Nat, state: {"pending", "indexing", "ready", "error"},
        pages: Nat, deleted: BOOLEAN, excluded: BOOLEAN]
Job == [id: Ids, key: Keys, step: {"read", "pages", "finish"}, got: Nat]
\* present: the objects there were when it began; job: the comic to enqueue.
Scan == [step: {"idle", "list", "enqueue"}, present: SUBSET Keys, seen: SUBSET Keys,
         job: Ids \cup {Idle}]
Op == [kind: {"write", "record", "enqueue", "purge", "rename"},
       key: Keys, id: Ids \cup {Idle}]

ASSUME NothingAssumption ==
    /\ Unborn \notin Row /\ Purged \notin Row /\ Unborn # Purged
    /\ Idle \notin Job /\ Idle \notin Op /\ Idle \notin Ids

TypeOK ==
    /\ object \in [Keys -> Nat] /\ made \in Nat
    /\ row \in [Ids -> Row \cup {Unborn, Purged}]
    /\ queue \in [Ids -> Nat]
    /\ worker \in [Workers -> Job \cup {Idle}]
    /\ scan \in [Scans -> Scan]
    /\ op \in [Users -> Op \cup {Idle}]
    /\ left \in Nat
    /\ calm \subseteq Scans /\ orphan \cup overlap \subseteq Ids

Resting == [step |-> "idle", present |-> {}, seen |-> {}, job |-> Idle]

Init ==
    /\ object = Initial /\ made = Cardinality(Keys)
    /\ row = [id \in Ids |-> Unborn]
    /\ queue = [id \in Ids |-> 0]
    /\ worker = [w \in Workers |-> Idle]
    /\ scan = [s \in Scans |-> Resting]
    /\ op = [u \in Users |-> Idle]
    /\ left = Events
    /\ calm = {}
    /\ orphan = {} /\ overlap = {}

-----------------------------------------------------------------------------
Spend(kind) == left >= Cost[kind] /\ left' = left - Cost[kind]

Rows == {id \in Ids : row[id] \notin {Unborn, Purged}}
RowAt(k) == {id \in Rows : row[id].key = k}
Visible == {id \in Rows : ~row[id].deleted}
\* Rows just found to be pending, whose job is about to be inserted.
Enqueuing == {id \in Ids : \/ \E s \in Scans : scan[s].job = id
                           \/ \E u \in Users : op[u] # Idle /\ op[u].kind = "enqueue"
                                              /\ op[u].id = id}
Running == {worker[w].id : w \in {v \in Workers : worker[v] # Idle}}

\* The job of a comic is inserted, or the insertion fails.  The table has no
\* bound: here, a job beyond MaxJobs is one with those that wait.
Enqueue(id) ==
    \/ /\ queue' = [queue EXCEPT ![id] = IF @ < MaxJobs THEN @ + 1 ELSE @]
       /\ orphan' = orphan \ {id}
       /\ UNCHANGED left
    \/ /\ Spend("lost")
       /\ orphan' = orphan \cup {id}
       /\ UNCHANGED queue

NewRow(k, c) == [key |-> k, etag |-> c, state |-> "pending", pages |-> 0,
                 deleted |-> FALSE, excluded |-> FALSE]

\* Mutant: a scan brings back what a user took out of the catalogue.
StillDeletedNever(r) == FALSE
\* Mutant: a scan brings nothing back.
StillDeletedAlways(r) == r.deleted
StillDeleted(r) == r.excluded /\ r.deleted

\* Mutant: a changed object keeps the state of its row.
StateKept(r, c) == r.state
StateAfter(r, c) == IF r.etag # c THEN "pending" ELSE r.state

\* UpsertComic: id is the row of the key, a new one when there is none.
UpsertComic(id, k, c) ==
    IF RowAt(k) = {}
    THEN /\ row[id] = Unborn
         /\ \A other \in Ids : row[other] = Unborn => id <= other
         /\ row' = [row EXCEPT ![id] = NewRow(k, c)]
    ELSE /\ id \in RowAt(k)
         /\ row' = [row EXCEPT ![id] = [@ EXCEPT !.etag = c, !.deleted = StillDeleted(row[id]),
                                                 !.state = StateAfter(row[id], c)]]

SetState(id, state) ==
    row' = IF id \in Rows THEN [row EXCEPT ![id].state = state] ELSE row

-----------------------------------------------------------------------------
(* Behind the server's back *)

\* A comic is leaving this key, or has left it while a job reads it there.
Vacated(k) ==
    \/ \E u \in Users : op[u] # Idle /\ op[u].kind = "rename" /\ op[u].id \in RowAt(k)
    \/ \E w \in Workers :
          worker[w] # Idle /\ worker[w].key = k /\ worker[w].id \notin RowAt(k)

\* A comic is to be found there, or is being moved there.
Claimed(k) ==
    \/ RowAt(k) # {}
    \/ \E u \in Users : op[u] # Idle /\ op[u].kind = "rename" /\ op[u].key = k

\* A file is added, or replaces another.
FileWritten(k) ==
    /\ Spend("file")
    /\ Reuse \/ ~Vacated(k)
    /\ made' = made + 1
    /\ object' = [object EXCEPT ![k] = made + 1]
    /\ calm' = {}
    /\ UNCHANGED <<row, queue, worker, scan, op, orphan, overlap>>

FileRemoved(k) ==
    /\ Spend("file")
    /\ object[k] # 0
    /\ object' = [object EXCEPT ![k] = 0]
    /\ calm' = {}
    /\ UNCHANGED <<made, row, queue, worker, scan, op, orphan, overlap>>

-----------------------------------------------------------------------------
(* The scan *)

\* Scans at rest are alike: the first of them takes the job.
ScanStart(s) ==
    /\ scan[s].step = "idle" /\ s = CHOOSE t \in Scans : scan[t].step = "idle"
    /\ scan' = [scan EXCEPT ![s] = [Resting EXCEPT !.step = "list",
                                       !.present = {k \in Keys : object[k] # 0}]]
    /\ calm' = IF op = [u \in Users |-> Idle] THEN calm \cup {s} ELSE calm \ {s}
    /\ UNCHANGED <<object, made, row, queue, worker, op, left, orphan, overlap>>

\* The callback of List: the key is seen, whatever becomes of its row.
ScanObject(s, k) ==
    /\ scan[s].step = "list"
    /\ object[k] # 0 /\ k \notin scan[s].seen
    /\ \/ \E id \in Ids :
            /\ UpsertComic(id, k, object[k])
            /\ scan' = [scan EXCEPT ![s].seen = @ \cup {k},
                  ![s].step = IF row'[id].state = "pending" THEN "enqueue" ELSE @,
                  ![s].job = IF row'[id].state = "pending" THEN id ELSE Idle]
            /\ UNCHANGED <<left, calm>>
       \/ /\ Spend("fault")
          /\ scan' = [scan EXCEPT ![s].seen = @ \cup {k}]
          /\ calm' = calm \ {s}
          /\ UNCHANGED row
    /\ UNCHANGED <<object, made, queue, worker, op, orphan, overlap>>

\* The job of a row that is to be indexed; a failure is only counted.
ScanEnqueue(s) ==
    /\ scan[s].step = "enqueue"
    /\ Enqueue(scan[s].job)
    /\ scan' = [scan EXCEPT ![s].step = "list", ![s].job = Idle]
    /\ UNCHANGED <<object, made, row, worker, op, calm, overlap>>

\* MarkMissingDeleted: nothing seen is taken for a storage that is away.
Missing(seen) == IF seen = {} THEN {} ELSE {id \in Visible : row[id].key \notin seen}

\* What was there throughout has been listed: the rest is marked, even what
\* another scan has just found.
ScanMark(s) ==
    /\ scan[s].step = "list"
    /\ \A k \in scan[s].present : k \in scan[s].seen \/ object[k] = 0
    /\ row' = [id \in Ids |-> IF id \in Missing(scan[s].seen)
                              THEN [row[id] EXCEPT !.deleted = TRUE] ELSE row[id]]
    /\ scan' = [scan EXCEPT ![s] = Resting]
    /\ calm' = {}
    /\ UNCHANGED <<object, made, queue, worker, op, left, orphan, overlap>>

\* The listing fails: nothing is marked, the job will run again.
ScanFail(s) ==
    /\ scan[s].step = "list"
    /\ Spend("fault")
    /\ scan' = [scan EXCEPT ![s] = Resting]
    /\ UNCHANGED <<object, made, row, queue, worker, op, calm, orphan, overlap>>

-----------------------------------------------------------------------------
(* The index jobs *)

\* Work reads the comic, and its key, once.  Idle workers are alike: the
\* first of them takes the job.
JobStart(w, id) ==
    /\ worker[w] = Idle /\ w = CHOOSE v \in Workers : worker[v] = Idle
    /\ queue[id] > 0
    /\ queue' = [queue EXCEPT ![id] = @ - 1]
    /\ worker' = IF id \in Rows
                 THEN [worker EXCEPT ![w] = [id |-> id, key |-> row[id].key,
                                             step |-> "read", got |-> 0]]
                 ELSE worker
    /\ overlap' = IF id \in Running THEN overlap \cup {id} ELSE overlap \ {id}
    /\ SetState(id, "indexing")
    /\ UNCHANGED <<object, made, scan, op, left, calm, orphan>>

\* The index of the archive and the headers of its pages.
JobRead(w) ==
    /\ worker[w] # Idle /\ worker[w].step = "read"
    /\ object[worker[w].key] # 0
    /\ worker' = [worker EXCEPT ![w].step = "pages", ![w].got = object[worker[w].key]]
    /\ UNCHANGED <<object, made, row, queue, scan, op, left, calm, orphan, overlap>>

\* ReplaceComicPages, in one transaction.
JobPages(w) ==
    /\ worker[w] # Idle /\ worker[w].step = "pages"
    /\ worker[w].id \in Rows
    /\ row' = [row EXCEPT ![worker[w].id].pages = worker[w].got]
    /\ worker' = [worker EXCEPT ![w].step = "finish"]
    /\ UNCHANGED <<object, made, queue, scan, op, left, calm, orphan, overlap>>

\* SetComicIndexed, whatever the state has become.
JobFinish(w) ==
    /\ worker[w] # Idle /\ worker[w].step = "finish"
    /\ SetState(worker[w].id, "ready")
    /\ worker' = [worker EXCEPT ![w] = Idle]
    /\ UNCHANGED <<object, made, queue, scan, op, left, calm, orphan, overlap>>

\* Mutant: the worker answers that a failed job is done.
NoRetry(id) == queue
\* The error is returned: River runs the job again, later.
Retry(id) == [queue EXCEPT ![id] = @ + 1]

\* The object or the row is gone, or something fails.  After so many attempts
\* River gives the job up; how many is left out.
JobFail(w) ==
    /\ worker[w] # Idle
    /\ \/ /\ \/ worker[w].step = "read" /\ object[worker[w].key] = 0
             \/ worker[w].step = "pages" /\ worker[w].id \notin Rows
          /\ SetState(worker[w].id, "error")
          /\ UNCHANGED left
       \/ /\ Spend("fault")
          /\ SetState(worker[w].id, "error") \/ UNCHANGED row
    /\ \/ queue' = Retry(worker[w].id) /\ orphan' = orphan
       \/ /\ queue' = queue
          /\ orphan' = IF queue[worker[w].id] > 0 THEN orphan
                       ELSE orphan \cup {worker[w].id}
    /\ worker' = [worker EXCEPT ![w] = Idle]
    /\ UNCHANGED <<object, made, scan, op, calm, overlap>>

JobStep(w) == JobRead(w) \/ JobPages(w) \/ JobFinish(w) \/ JobFail(w)

-----------------------------------------------------------------------------
(* The file operations *)

Doing(u, kind) == op[u] # Idle /\ op[u].kind = kind
Then(u, kind, key, id) == op' = [op EXCEPT ![u] = [kind |-> kind, key |-> key, id |-> id]]
Done(u) == op' = [op EXCEPT ![u] = Idle]

\* Upload: the key must be free when it looks.
UploadCheck(u, k) ==
    /\ op[u] = Idle
    /\ Spend("upload")
    /\ object[k] = 0
    /\ Then(u, "write", k, Idle)
    /\ calm' = {}
    /\ UNCHANGED <<object, made, row, queue, worker, scan, orphan, overlap>>

UploadWrite(u) ==
    /\ Doing(u, "write")
    /\ Reuse \/ ~Vacated(op[u].key)
    /\ made' = made + 1
    /\ object' = [object EXCEPT ![op[u].key] = made + 1]
    /\ Then(u, "record", op[u].key, Idle)
    /\ calm' = {}
    /\ UNCHANGED <<row, queue, worker, scan, left, orphan, overlap>>

\* Stat, then UpsertComic; the object stays when either fails.
UploadRecord(u) ==
    /\ Doing(u, "record")
    /\ \/ /\ object[op[u].key] # 0
          /\ \E id \in Ids : /\ UpsertComic(id, op[u].key, object[op[u].key])
                             /\ Then(u, "enqueue", op[u].key, id)
          /\ UNCHANGED left
       \/ /\ \/ object[op[u].key] = 0 /\ UNCHANGED left
             \/ Spend("fault")
          /\ Done(u)
          /\ UNCHANGED row
    /\ calm' = {}
    /\ UNCHANGED <<object, made, queue, worker, scan, orphan, overlap>>

UploadEnqueue(u) ==
    /\ Doing(u, "enqueue")
    /\ Enqueue(op[u].id)
    /\ Done(u)
    /\ UNCHANGED <<object, made, row, worker, scan, calm, overlap>>

\* Delete without the file: the row stays, out of the catalogue.
Exclude(u, id) ==
    /\ op[u] = Idle
    /\ Spend("exclude")
    /\ id \in Rows
    /\ row' = [row EXCEPT ![id].deleted = TRUE, ![id].excluded = TRUE]
    /\ calm' = {}
    /\ UNCHANGED <<object, made, queue, worker, scan, op, orphan, overlap>>

\* Delete with the file: the object first.
DeleteObject(u, id) ==
    /\ op[u] = Idle
    /\ Spend("delete")
    /\ id \in Rows
    /\ object' = [object EXCEPT ![row[id].key] = 0]
    /\ Then(u, "purge", row[id].key, id)
    /\ calm' = {}
    /\ UNCHANGED <<made, row, queue, worker, scan, orphan, overlap>>

PurgeRow(u) ==
    /\ Doing(u, "purge")
    /\ \/ row' = [row EXCEPT ![op[u].id] = Purged] /\ UNCHANGED left
       \/ Spend("fault") /\ UNCHANGED row
    /\ Done(u)
    /\ calm' = {}
    /\ UNCHANGED <<object, made, queue, worker, scan, orphan, overlap>>

\* Move: the object first, to a key that is free.
MoveObject(u, id, k) ==
    /\ op[u] = Idle
    /\ Spend("move")
    /\ id \in Rows
    /\ object[row[id].key] # 0 /\ object[k] = 0
    /\ Reuse \/ ~(Vacated(k) \/ Claimed(k))
    /\ object' = [object EXCEPT ![row[id].key] = 0, ![k] = object[row[id].key]]
    /\ Then(u, "rename", k, id)
    /\ calm' = {}
    /\ UNCHANGED <<made, row, queue, worker, scan, orphan, overlap>>

\* The unique index refuses a key that another row has, visible or not.
MoveRow(u) ==
    /\ Doing(u, "rename")
    /\ \/ /\ RowAt(op[u].key) = {}
          /\ row' = IF op[u].id \in Rows THEN [row EXCEPT ![op[u].id].key = op[u].key] ELSE row
          /\ UNCHANGED left
       \/ RowAt(op[u].key) # {} /\ UNCHANGED <<row, left>>
       \/ Spend("fault") /\ UNCHANGED row
    /\ Done(u)
    /\ calm' = {}
    /\ UNCHANGED <<object, made, queue, worker, scan, orphan, overlap>>

UserStep(u) ==
    \/ UploadWrite(u) \/ UploadRecord(u) \/ UploadEnqueue(u)
    \/ PurgeRow(u) \/ MoveRow(u)

-----------------------------------------------------------------------------
\* The server stops and starts again: River runs again the jobs it was
\* running, the scan among them; requests are not resumed.
Crash ==
    /\ Spend("crash")
    /\ queue' = [id \in Ids |-> queue[id] + Cardinality(
                    {w \in Workers : worker[w] # Idle /\ worker[w].id = id})]
    /\ worker' = [w \in Workers |-> Idle]
    /\ scan' = [s \in Scans |-> Resting]
    /\ op' = [u \in Users |-> Idle]
    /\ calm' = {}
    /\ orphan' = orphan \cup Enqueuing
    /\ UNCHANGED <<object, made, row, overlap>>

ScanStep(s) == (\E k \in Keys : ScanObject(s, k)) \/ ScanEnqueue(s) \/ ScanMark(s)

Next ==
    \/ \E k \in Keys : FileWritten(k) \/ FileRemoved(k)
    \/ \E s \in Scans : ScanStart(s) \/ ScanStep(s) \/ ScanFail(s)
    \/ \E w \in Workers, id \in Ids : JobStart(w, id)
    \/ \E w \in Workers : JobStep(w)
    \/ \E u \in Users, k \in Keys : UploadCheck(u, k)
    \/ \E u \in Users, id \in Ids : Exclude(u, id) \/ DeleteObject(u, id)
    \/ \E u \in Users, id \in Ids, k \in Keys : MoveObject(u, id, k)
    \/ \E u \in Users : UserStep(u)
    \/ Crash

Spec == Init /\ [][Next]_vars

(***************************************************************************)
(* What runs goes on; a job that waits is run one day, even behind others  *)
(* that fail and come back; and the library is scanned again and again, by *)
(* a user who asks for it.                                                 *)
(***************************************************************************)
FairSpec ==
    /\ Spec
    /\ WF_vars(\E s \in Scans : ScanStart(s)) /\ \A s \in Scans : WF_vars(ScanStep(s))
    /\ \A w \in Workers : WF_vars(JobStep(w))
    /\ \A id \in Ids : SF_vars(\E w \in Workers : JobStart(w, id))
    /\ \A u \in Users : WF_vars(UserStep(u))

-----------------------------------------------------------------------------
\* PROPERTIES

Coming(id) == queue[id] > 0 \/ id \in Running \cup Enqueuing

\* A comic shown as ready whose pages were read from another content than
\* its object has now is about to be indexed again, or has an ETag that the
\* next scan will find changed: none is stale for good, unless its job was
\* never inserted or was given up, or two of them ran at once and the older
\* ended last.  Only without Reuse: an object that comes back to a key after
\* another was there has the ETag that the row kept, whatever was read in
\* between.
StaleIsNoticed ==
    \A id \in Rows \ (orphan \cup overlap) :
        LET now == object[row[id].key]
        IN  row[id].state = "ready" /\ now \notin {0, row[id].pages} =>
                Coming(id) \/ row[id].etag # now

\* manage.go: the scan respects an exclusion.
ExclusionHolds == \A id \in Rows : row[id].excluded => id \notin Visible

\* A scan during which nothing else moved, nor another one ended, leaves in the
\* catalogue exactly the objects there are, but the excluded ones; an empty
\* listing changes nothing.
ScanTellsTruth ==
    [][\A s \in calm : ScanMark(s) /\ scan[s].present # {} =>
          {row'[id].key : id \in {i \in Rows : ~row'[i].deleted}}
            = {k \in Keys : object[k] # 0}
                 \ {row[id].key : id \in {i \in Rows : row[i].excluded}}]_vars

\* No scan enqueues again a comic whose job was given up.
GivenUp(id) == id \in orphan /\ row[id].state # "pending"

\* When files and users are still, every object ends with a row, its pages
\* are those of the object unless its job was given up, and what is not there
\* is not shown.
Settled ==
    /\ \A k \in Keys : object[k] # 0 =>
          \E id \in RowAt(k) :
              /\ row[id].etag = object[k]
              /\ row[id].state = "ready" \/ GivenUp(id)
              /\ row[id].pages = object[k] \/ id \in orphan \cup overlap
              /\ id \in Visible \/ row[id].excluded
    /\ (\E k \in Keys : object[k] # 0) => \A id \in Visible : object[row[id].key] # 0
Settles == <>[]Settled
=============================================================================

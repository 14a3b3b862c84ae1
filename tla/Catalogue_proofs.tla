--------------------------- MODULE Catalogue_proofs ---------------------------
(***************************************************************************)
(* What holds of the catalogue for any number of keys, comics, scans,      *)
(* workers, users and events: an exclusion is respected, a scan that       *)
(* nothing disturbs tells the truth; and a comic is not stale for good, as *)
(* long as a key that a comic or a job still names gets no other object    *)
(* (Reuse is FALSE).                                                       *)
(***************************************************************************)
EXTENDS Catalogue, FiniteSetTheorems, TLAPS

-----------------------------------------------------------------------------
(* The inductive invariant *)

\* Who is at work, and on what.
At(w, id) == worker[w] # Idle /\ worker[w].id = id
Busy(id, step) == {w \in Workers : At(w, id) /\ worker[w].step = step}

\* A comic that is worked on has, or had, a row; what is about to be
\* enqueued is a comic.
Born ==
    /\ \A w \in Workers : worker[w] # Idle => row[worker[w].id] # Unborn
    /\ \A u \in Users : Doing(u, "rename") \/ Doing(u, "purge") => op[u].id \in Ids /\ row[op[u].id] # Unborn
    /\ \A u \in Users : Doing(u, "enqueue") => op[u].id \in Ids
    /\ \A s \in Scans : scan[s].step = "enqueue" <=> scan[s].job # Idle

\* The key of a comic is its own, whether or not it is shown.
Unique == \A i, j \in Rows : row[i].key = row[j].key => i = j

\* What a user took out is not shown.
Excluded == \A id \in Rows : row[id].excluded => row[id].deleted

\* The catalogue has a row for the key, that is shown unless a user took it
\* out.
Told(k) == \E id \in RowAt(k) : row[id].deleted => row[id].excluded

\* A scan that nothing disturbed has seen objects that are there, and the
\* catalogue tells of each of them.
Listing ==
    \A s \in calm : scan[s].step # "idle" =>
        /\ op = [u \in Users |-> Idle]
        /\ scan[s].present = {k \in Keys : object[k] # 0}
        /\ \A k \in scan[s].seen : object[k] # 0 /\ Told(k)

\* Contents are numbered as they are made.
Dated ==
    /\ \A k \in Keys : object[k] <= made
    /\ \A id \in Rows : row[id].etag <= made

\* A key that a comic is leaving, or has left while a job reads it there, is
\* empty; a comic is moved by one user at a time.
Emptied ==
    /\ \A w \in Workers : worker[w] # Idle /\ worker[w].id \in Rows =>
          worker[w].key = row[worker[w].id].key \/ object[worker[w].key] = 0
    /\ \A u \in Users : Doing(u, "rename") /\ op[u].id \in Rows => object[row[op[u].id].key] = 0
    /\ \A u, v \in Users : Doing(u, "rename") /\ Doing(v, "rename") /\ op[u].id = op[v].id => u = v

\* Jobs of one comic run one at a time, unless they are known to overlap.
Single == \A id \in Ids \ overlap : \A v, w \in Workers : At(v, id) /\ At(w, id) => v = w

\* Where the object of a comic is: at its key, or where it is being moved.
Homes(id) == {row[id].key} \cup {op[u].key : u \in {v \in Users : Doing(v, "rename") /\ op[v].id = id}}

Waiting(id) == queue[id] > 0 \/ id \in Enqueuing

\* The pages of a comic are those of its ETag, or a job will read them anew.
InOrder(id) ==
    \/ Waiting(id)
    \/ Busy(id, "read") # {}
    \/ \E w \in Busy(id, "pages") : worker[w].got = row[id].etag
    \/ row[id].pages = row[id].etag /\ Busy(id, "read") = {} /\ Busy(id, "pages") = {}

\* Whenever the object is the one that the row describes.
Noticed ==
    \A id \in Rows \ (orphan \cup overlap) : \A k \in Homes(id) :
        object[k] = row[id].etag /\ object[k] # 0 => InOrder(id)

Moves == Dated /\ Emptied /\ Single /\ Noticed
Shape == TypeOK /\ Born /\ Unique /\ Excluded /\ Listing

-----------------------------------------------------------------------------
(* The rows *)

LEMMA Nothing ==
    /\ \A r \in Row : r # Unborn /\ r # Purged
    /\ \A j \in Job : j # Idle
    /\ \A o \in Op : o # Idle
BY NothingAssumption

\* What is known of the rows.
LEMMA RowsTyped ==
    ASSUME TypeOK
    PROVE  /\ DOMAIN row = Ids /\ Rows \subseteq Ids /\ row = [id \in Ids |-> row[id]]
           /\ \A id \in Ids : id \in Rows <=> row[id] \in Row
           /\ \A id \in Rows : /\ row[id] \in Row /\ row[id].key \in Keys /\ row[id].etag \in Nat
                               /\ row[id].pages \in Nat /\ row[id].deleted \in BOOLEAN
                               /\ row[id].excluded \in BOOLEAN
BY Nothing DEF TypeOK, Rows, Row

\* One row is written.
LEMMA RowWritten ==
    ASSUME TypeOK, NEW id \in Ids, NEW r \in Row, row' = [row EXCEPT ![id] = r]
    PROVE  /\ row' \in [Ids -> Row \cup {Unborn, Purged}]
           /\ row'[id] = r /\ \A i \in Ids : i # id => row'[i] = row[i]
           /\ Rows' = Rows \cup {id}
<1>1. /\ row' \in [Ids -> Row \cup {Unborn, Purged}]
      /\ row'[id] = r /\ \A i \in Ids : i # id => row'[i] = row[i]
  BY DEF TypeOK
<1>2. Rows' = Rows \cup {id}
  BY <1>1, Nothing DEF Rows
<1> QED BY <1>1, <1>2

\* A step after which there are the same rows, that differ by their state at
\* most.
Steady ==
    /\ row' \in [Ids -> Row \cup {Unborn, Purged}]
    /\ Rows' = Rows
    /\ \A i \in Ids : (row'[i] = Unborn) <=> (row[i] = Unborn)
    /\ \A i \in Rows : /\ row'[i].key = row[i].key /\ row'[i].etag = row[i].etag
                       /\ row'[i].pages = row[i].pages
                       /\ row'[i].deleted = row[i].deleted /\ row'[i].excluded = row[i].excluded

LEMMA RowsAlone ==
    ASSUME TypeOK, row' = row
    PROVE  Steady
BY DEF Steady, TypeOK, Rows

LEMMA StateSet ==
    ASSUME TypeOK, NEW id \in Ids, NEW s \in {"pending", "indexing", "ready", "error"}, SetState(id, s)
    PROVE  Steady
<1>1. CASE id \notin Rows
  BY <1>1, RowsAlone DEF SetState
<1>2. CASE id \in Rows
  <2>1. row[id] \in Row
    BY <1>2, RowsTyped
  <2>2. PICK r : r = [row[id] EXCEPT !.state = s]
    OBVIOUS
  <2>3. /\ r \in Row /\ r.key = row[id].key /\ r.etag = row[id].etag /\ r.pages = row[id].pages
        /\ r.deleted = row[id].deleted /\ r.excluded = row[id].excluded
    BY <2>1, <2>2 DEF Row
  <2>4. row' = [row EXCEPT ![id] = r]
    BY <1>2, <2>2, RowsTyped DEF SetState
  <2>5. /\ row' \in [Ids -> Row \cup {Unborn, Purged}]
        /\ row'[id] = r /\ \A i \in Ids : i # id => row'[i] = row[i]
        /\ Rows' = Rows \cup {id}
    BY <2>3, <2>4, RowWritten
  <2>6. Rows' = Rows /\ Rows \subseteq Ids
    BY <1>2, <2>5, RowsTyped
  <2>7. \A i \in Ids : (row'[i] = Unborn) <=> (row[i] = Unborn)
    BY <2>1, <2>3, <2>5, Nothing
  <2> QED BY <2>3, <2>5, <2>6, <2>7 DEF Steady
<1> QED BY <1>1, <1>2

\* The row that describes the object c at the key k.
Found(id, r, k, c) ==
    /\ r \in Row /\ row' = [row EXCEPT ![id] = r] /\ r.key = k /\ r.etag = c
    /\ \/ /\ id \notin Rows /\ RowAt(k) = {} /\ row[id] = Unborn
          /\ r.state = "pending" /\ ~r.deleted /\ ~r.excluded
       \/ /\ id \in Rows /\ row[id].key = k /\ r.pages = row[id].pages
          /\ r.excluded = row[id].excluded /\ r.deleted = (row[id].excluded /\ row[id].deleted)
          /\ r.state = "pending" \/ row[id].etag = c

LEMMA UpsertFinds ==
    ASSUME TypeOK, NEW id \in Ids, NEW k \in Keys, NEW c \in Nat, UpsertComic(id, k, c)
    PROVE  \E r \in Row : Found(id, r, k, c)
<1>1. CASE RowAt(k) = {}
  <2>1. row[id] = Unborn /\ row' = [row EXCEPT ![id] = NewRow(k, c)]
    BY <1>1 DEF UpsertComic
  <2>2. id \notin Rows
    BY <2>1 DEF Rows
  <2>3. PICK r : r = NewRow(k, c)
    OBVIOUS
  <2>4. r \in Row /\ r.key = k /\ r.etag = c /\ r.state = "pending" /\ ~r.deleted /\ ~r.excluded
    BY <2>3 DEF NewRow, Row
  <2>5. Found(id, r, k, c)
    BY <1>1, <2>1, <2>2, <2>3, <2>4 DEF Found
  <2> QED BY <2>4, <2>5
<1>2. CASE RowAt(k) # {}
  <2>1. id \in Rows /\ row[id].key = k /\ row[id] \in Row
    BY <1>2, RowsTyped DEF UpsertComic, RowAt
  <2>2. PICK d \in BOOLEAN : d = (row[id].excluded /\ row[id].deleted)
    BY <2>1 DEF Row
  <2>3. PICK s \in {"pending", "indexing", "ready", "error"} : s = IF row[id].etag # c THEN "pending" ELSE row[id].state
    BY <2>1 DEF Row
  <2>4. PICK r : r = [row[id] EXCEPT !.etag = c, !.deleted = d, !.state = s]
    OBVIOUS
  <2>5. row' = [row EXCEPT ![id] = r]
    BY <1>2, <2>2, <2>3, <2>4, RowsTyped DEF UpsertComic, StillDeleted, StateAfter
  <2>6. /\ r \in Row /\ r.key = row[id].key /\ r.etag = c /\ r.pages = row[id].pages
        /\ r.excluded = row[id].excluded /\ r.deleted = d /\ r.state = s
    BY <2>1, <2>4 DEF Row
  <2>7. r.state = "pending" \/ row[id].etag = c
    BY <2>3, <2>6
  <2>8. r.deleted = (row[id].excluded /\ row[id].deleted)
    BY <2>2, <2>6
  <2>9. Found(id, r, k, c)
    BY <2>1, <2>5, <2>6, <2>7, <2>8 DEF Found
  <2> QED BY <2>6, <2>9
<1> QED BY <1>1, <1>2

-----------------------------------------------------------------------------
(* Types *)

LEMMA SpendTyped ==
    ASSUME TypeOK, NEW kind \in Kinds, Spend(kind)
    PROVE  left' \in Nat
<1>1. Cost[kind] \in Nat
  BY CatalogueAssumption
<1> QED BY <1>1 DEF TypeOK, Spend

LEMMA EnqueueTyped ==
    ASSUME TypeOK, NEW id \in Ids, Enqueue(id)
    PROVE  /\ queue' \in [Ids -> Nat] /\ left' \in Nat /\ orphan' \subseteq Ids
           /\ \A i \in Ids : queue'[i] >= queue[i]
           /\ queue'[id] > 0 \/ id \in orphan'
           /\ \A i \in Ids : i \notin orphan' => i \notin orphan \/ i = id
<1>1. CASE /\ queue' = [queue EXCEPT ![id] = IF queue[id] < MaxJobs THEN queue[id] + 1 ELSE queue[id]]
           /\ orphan' = orphan \ {id} /\ UNCHANGED left
  <2>1. queue \in [Ids -> Nat] /\ MaxJobs \in Nat \ {0}
    BY CatalogueAssumption DEF TypeOK
  <2> QED BY <1>1, <2>1 DEF TypeOK
<1>2. CASE Spend("lost") /\ orphan' = orphan \cup {id} /\ UNCHANGED queue
  <2>1. left' \in Nat
    BY <1>2, SpendTyped DEF Kinds
  <2> QED BY <1>2, <2>1 DEF TypeOK
<1> QED BY <1>1, <1>2 DEF Enqueue, TypeOK

LEMMA RestTyped ==
    ASSUME TypeOK
    PROVE  /\ Resting \in Scan /\ Resting.step = "idle" /\ Resting.job = Idle
           /\ Resting.seen = {} /\ Resting.present = {}
BY DEF Resting, Scan

\* An operation begins, goes on or ends.
LEMMA OpTyped ==
    ASSUME TypeOK, NEW u \in Users, NEW kind \in {"write", "record", "enqueue", "purge", "rename"},
           NEW k \in Keys, NEW id \in Ids \cup {Idle}, Then(u, kind, k, id)
    PROVE  /\ op' \in [Users -> Op \cup {Idle}]
           /\ op'[u].kind = kind /\ op'[u].key = k /\ op'[u].id = id /\ op'[u] # Idle
           /\ \A v \in Users : v # u => op'[v] = op[v]
<1>1. PICK o : o = [kind |-> kind, key |-> k, id |-> id]
  OBVIOUS
<1>2. o \in Op /\ o.kind = kind /\ o.key = k /\ o.id = id
  BY <1>1 DEF Op
<1>3. op' = [op EXCEPT ![u] = o]
  BY <1>1 DEF Then
<1> QED BY <1>2, <1>3, Nothing DEF TypeOK

LEMMA DoneTyped ==
    ASSUME TypeOK, NEW u \in Users, Done(u)
    PROVE  /\ op' \in [Users -> Op \cup {Idle}] /\ op'[u] = Idle
           /\ \A v \in Users : v # u => op'[v] = op[v]
BY DEF Done, TypeOK

\* What is known of an operation under way.
LEMMA DoingTyped ==
    ASSUME TypeOK, NEW u \in Users, op[u] # Idle
    PROVE  op[u] \in Op /\ op[u].key \in Keys /\ op[u].id \in Ids \cup {Idle}
BY DEF TypeOK, Op

LEMMA WorkerTyped ==
    ASSUME TypeOK, NEW w \in Workers, worker[w] # Idle
    PROVE  /\ worker[w] \in Job /\ worker[w].id \in Ids /\ worker[w].key \in Keys
           /\ worker[w].got \in Nat
BY DEF TypeOK, Job

\* Files come and go.
LEMMA FileTyped ==
    ASSUME TypeOK, NEW k \in Keys, FileWritten(k) \/ FileRemoved(k)
    PROVE  TypeOK'
<1>1. left' \in Nat
  BY SpendTyped DEF FileWritten, FileRemoved, Kinds
<1>2. object' \in [Keys -> Nat] /\ made' \in Nat
  BY DEF FileWritten, FileRemoved, TypeOK
<1> QED BY <1>1, <1>2 DEF FileWritten, FileRemoved, TypeOK

\* One scan goes on.
LEMMA ScanWritten ==
    ASSUME TypeOK, NEW s \in Scans, NEW r \in Scan, scan' = [scan EXCEPT ![s] = r]
    PROVE  /\ scan' \in [Scans -> Scan] /\ scan'[s] = r
           /\ \A t \in Scans \ {s} : scan'[t] = scan[t]
BY DEF TypeOK

LEMMA ScanStartSteps ==
    ASSUME TypeOK, Born, NEW s \in Scans, ScanStart(s)
    PROVE  /\ TypeOK' /\ scan[s].step = "idle" /\ scan[s].job = Idle
           /\ scan'[s].step = "list" /\ scan'[s].job = Idle /\ scan'[s].seen = {}
           /\ scan'[s].present = {k \in Keys : object[k] # 0}
           /\ \A t \in Scans \ {s} : scan'[t] = scan[t]
           /\ calm' = IF op = [u \in Users |-> Idle] THEN calm \cup {s} ELSE calm \ {s}
           /\ UNCHANGED <<object, made, row, queue, worker, op, orphan, overlap>>
<1>1. /\ scan[s].step = "idle" /\ scan[s].job = Idle
      /\ calm' = IF op = [u \in Users |-> Idle] THEN calm \cup {s} ELSE calm \ {s}
      /\ UNCHANGED <<object, made, row, queue, worker, op, left, orphan, overlap>>
  BY DEF ScanStart, Born
<1>2. PICK r : r = [Resting EXCEPT !.step = "list", !.present = {k \in Keys : object[k] # 0}]
  OBVIOUS
<1>3. /\ r \in Scan /\ r.step = "list" /\ r.present = {k \in Keys : object[k] # 0}
      /\ r.seen = {} /\ r.job = Idle
  BY <1>2 DEF Resting, Scan
<1>4. scan' = [scan EXCEPT ![s] = r]
  BY <1>2 DEF ScanStart
<1>5. scan' \in [Scans -> Scan] /\ scan'[s] = r /\ \A t \in Scans \ {s} : scan'[t] = scan[t]
  BY <1>3, <1>4, ScanWritten
<1>6. TypeOK'
  BY <1>1, <1>5 DEF TypeOK
<1> QED BY <1>1, <1>3, <1>5, <1>6

\* A key is listed: its row is written, or the database fails.
LEMMA ScanObjectSteps ==
    ASSUME TypeOK, NEW s \in Scans, NEW k \in Keys, ScanObject(s, k)
    PROVE  /\ scan[s].step = "list" /\ object[k] # 0 /\ k \notin scan[s].seen
           /\ scan' \in [Scans -> Scan] /\ \A t \in Scans \ {s} : scan'[t] = scan[t]
           /\ scan'[s].seen = scan[s].seen \cup {k} /\ scan'[s].present = scan[s].present
           /\ left' \in Nat
           /\ UNCHANGED <<object, made, queue, worker, op, orphan, overlap>>
           /\ \/ /\ \E id \in Ids, r \in Row :
                       /\ Found(id, r, k, object[k])
                       /\ \/ r.state = "pending" /\ scan'[s].step = "enqueue" /\ scan'[s].job = id
                          \/ r.state # "pending" /\ scan'[s].step = "list" /\ scan'[s].job = Idle
                 /\ calm' = calm
              \/ /\ row' = row /\ calm' = calm \ {s}
                 /\ scan'[s].step = "list" /\ scan'[s].job = scan[s].job
<1>1. /\ scan[s] \in Scan /\ scan[s].step = "list"
      /\ object[k] \in Nat /\ object[k] # 0 /\ k \notin scan[s].seen
      /\ UNCHANGED <<object, made, queue, worker, op, orphan, overlap>>
  BY DEF ScanObject, TypeOK
<1>2. ASSUME NEW id \in Ids, UpsertComic(id, k, object[k]),
             scan' = [scan EXCEPT ![s].seen = scan[s].seen \cup {k},
                        ![s].step = IF row'[id].state = "pending" THEN "enqueue" ELSE scan[s].step,
                        ![s].job = IF row'[id].state = "pending" THEN id ELSE Idle],
             UNCHANGED <<left, calm>>
      PROVE  /\ scan' \in [Scans -> Scan] /\ \A t \in Scans \ {s} : scan'[t] = scan[t]
             /\ scan'[s].seen = scan[s].seen \cup {k} /\ scan'[s].present = scan[s].present
             /\ left' \in Nat /\ calm' = calm
             /\ \E r \in Row :
                   /\ Found(id, r, k, object[k])
                   /\ \/ r.state = "pending" /\ scan'[s].step = "enqueue" /\ scan'[s].job = id
                      \/ r.state # "pending" /\ scan'[s].step = "list" /\ scan'[s].job = Idle
  <2>1. \E r \in Row : Found(id, r, k, object[k])
    BY <1>1, <1>2, UpsertFinds
  <2>2. PICK r \in Row : Found(id, r, k, object[k])
    BY <2>1
  <2>3. row'[id] = r
    BY <2>2, RowWritten DEF Found
  <2>4. PICK step \in {"list", "enqueue"} : step = IF r.state = "pending" THEN "enqueue" ELSE "list"
    OBVIOUS
  <2>5. PICK job \in Ids \cup {Idle} : job = IF r.state = "pending" THEN id ELSE Idle
    OBVIOUS
  <2>6. PICK z : z = [scan[s] EXCEPT !.seen = scan[s].seen \cup {k}, !.step = step, !.job = job]
    OBVIOUS
  <2>7. /\ z \in Scan /\ z.seen = scan[s].seen \cup {k} /\ z.present = scan[s].present
        /\ z.step = step /\ z.job = job
    BY <1>1, <2>6 DEF Scan
  <2>8. scan' = [scan EXCEPT ![s].seen = scan[s].seen \cup {k}, ![s].step = step, ![s].job = job]
    BY <1>1, <1>2, <2>3, <2>4, <2>5
  <2>9. scan' = [scan EXCEPT ![s] = z]
    BY <2>6, <2>8 DEF TypeOK
  <2>10. scan' \in [Scans -> Scan] /\ scan'[s] = z /\ \A t \in Scans \ {s} : scan'[t] = scan[t]
    BY <2>7, <2>9, ScanWritten
  <2>11. left' \in Nat /\ calm' = calm
    BY <1>2 DEF TypeOK
  <2> QED BY <2>2, <2>4, <2>5, <2>7, <2>10, <2>11
<1>3. ASSUME Spend("fault"), scan' = [scan EXCEPT ![s].seen = scan[s].seen \cup {k}]
      PROVE  /\ scan' \in [Scans -> Scan] /\ \A t \in Scans \ {s} : scan'[t] = scan[t]
             /\ scan'[s].seen = scan[s].seen \cup {k} /\ scan'[s].present = scan[s].present
             /\ left' \in Nat /\ scan'[s].step = "list" /\ scan'[s].job = scan[s].job
  <2>1. left' \in Nat
    BY <1>3, SpendTyped DEF Kinds
  <2>2. PICK z : z = [scan[s] EXCEPT !.seen = scan[s].seen \cup {k}]
    OBVIOUS
  <2>3. /\ z \in Scan /\ z.seen = scan[s].seen \cup {k} /\ z.present = scan[s].present
        /\ z.step = "list" /\ z.job = scan[s].job
    BY <1>1, <2>2 DEF Scan
  <2>4. scan' = [scan EXCEPT ![s] = z]
    BY <1>3, <2>2 DEF TypeOK
  <2>5. scan' \in [Scans -> Scan] /\ scan'[s] = z /\ \A t \in Scans \ {s} : scan'[t] = scan[t]
    BY <2>3, <2>4, ScanWritten
  <2> QED BY <2>1, <2>3, <2>5
<1>4. \/ \E id \in Ids :
            /\ UpsertComic(id, k, object[k])
            /\ scan' = [scan EXCEPT ![s].seen = scan[s].seen \cup {k},
                        ![s].step = IF row'[id].state = "pending" THEN "enqueue" ELSE scan[s].step,
                        ![s].job = IF row'[id].state = "pending" THEN id ELSE Idle]
            /\ UNCHANGED <<left, calm>>
      \/ /\ Spend("fault") /\ scan' = [scan EXCEPT ![s].seen = scan[s].seen \cup {k}]
         /\ calm' = calm \ {s} /\ UNCHANGED row
  BY DEF ScanObject
<1>5. CASE \E id \in Ids :
            /\ UpsertComic(id, k, object[k])
            /\ scan' = [scan EXCEPT ![s].seen = scan[s].seen \cup {k},
                        ![s].step = IF row'[id].state = "pending" THEN "enqueue" ELSE scan[s].step,
                        ![s].job = IF row'[id].state = "pending" THEN id ELSE Idle]
            /\ UNCHANGED <<left, calm>>
  BY <1>1, <1>2, <1>5
<1>6. CASE /\ Spend("fault") /\ scan' = [scan EXCEPT ![s].seen = scan[s].seen \cup {k}]
           /\ calm' = calm \ {s} /\ UNCHANGED row
  BY <1>1, <1>3, <1>6
<1> QED BY <1>4, <1>5, <1>6

LEMMA ScanObjectTyped ==
    ASSUME TypeOK, NEW s \in Scans, NEW k \in Keys, ScanObject(s, k)
    PROVE  TypeOK'
<1>1. CASE row' = row
  BY <1>1, ScanObjectSteps DEF TypeOK
<1>2. ASSUME NEW id \in Ids, NEW r \in Row, Found(id, r, k, object[k])
      PROVE  row' \in [Ids -> Row \cup {Unborn, Purged}]
  BY <1>2, RowWritten DEF Found
<1>3. /\ scan' \in [Scans -> Scan] /\ left' \in Nat
      /\ UNCHANGED <<object, made, queue, worker, op, orphan, overlap>>
  BY ScanObjectSteps
<1>4. calm' \subseteq Scans
  BY ScanObjectSteps DEF TypeOK
<1>5. row' \in [Ids -> Row \cup {Unborn, Purged}]
  BY <1>1, <1>2, ScanObjectSteps DEF TypeOK
<1> QED BY <1>3, <1>4, <1>5 DEF TypeOK

LEMMA ScanEnqueueSteps ==
    ASSUME TypeOK, Born, NEW s \in Scans, ScanEnqueue(s)
    PROVE  /\ TypeOK' /\ scan[s].step = "enqueue" /\ scan[s].job \in Ids /\ Enqueue(scan[s].job)
           /\ scan'[s].step = "list" /\ scan'[s].job = Idle
           /\ scan'[s].seen = scan[s].seen /\ scan'[s].present = scan[s].present
           /\ \A t \in Scans \ {s} : scan'[t] = scan[t]
           /\ UNCHANGED <<object, made, row, worker, op, calm, overlap>>
<1>1. scan[s] \in Scan /\ scan[s].step = "enqueue" /\ scan[s].job \in Ids
  BY DEF ScanEnqueue, TypeOK, Born, Scan
<1>2. PICK r : r = [scan[s] EXCEPT !.step = "list", !.job = Idle]
  OBVIOUS
<1>3. /\ r \in Scan /\ r.step = "list" /\ r.job = Idle
      /\ r.seen = scan[s].seen /\ r.present = scan[s].present
  BY <1>1, <1>2 DEF Scan
<1>4. scan' = [scan EXCEPT ![s] = r]
  BY <1>2 DEF ScanEnqueue, TypeOK
<1>5. scan' \in [Scans -> Scan] /\ scan'[s] = r /\ \A t \in Scans \ {s} : scan'[t] = scan[t]
  BY <1>3, <1>4, ScanWritten
<1>6. queue' \in [Ids -> Nat] /\ left' \in Nat /\ orphan' \subseteq Ids
  BY <1>1, EnqueueTyped DEF ScanEnqueue
<1>7. Enqueue(scan[s].job) /\ UNCHANGED <<object, made, row, worker, op, calm, overlap>>
  BY DEF ScanEnqueue
<1>8. TypeOK'
  BY <1>5, <1>6, <1>7 DEF TypeOK
<1> QED BY <1>1, <1>3, <1>5, <1>7, <1>8

\* The scan ends: what was not seen is marked.
LEMMA ScanMarkSteps ==
    ASSUME TypeOK, NEW s \in Scans, ScanMark(s)
    PROVE  /\ TypeOK' /\ scan[s].step = "list" /\ scan'[s] = Resting /\ calm' = {}
           /\ Rows' = Rows
           /\ \A i \in Ids : (row'[i] = Unborn) <=> (row[i] = Unborn)
           /\ \A i \in Ids : i \notin Missing(scan[s].seen) => row'[i] = row[i]
           /\ \A i \in Rows : /\ row'[i].key = row[i].key /\ row'[i].etag = row[i].etag
                              /\ row'[i].pages = row[i].pages /\ row'[i].excluded = row[i].excluded
                              /\ row'[i].deleted = (row[i].deleted \/ i \in Missing(scan[s].seen))
           /\ \A t \in Scans \ {s} : scan'[t] = scan[t]
           /\ UNCHANGED <<object, made, queue, worker, op, left, orphan, overlap>>
<1> DEFINE Mark(i) == [row[i] EXCEPT !.deleted = TRUE]
<1>1. Missing(scan[s].seen) \subseteq Rows
  BY DEF Missing, Visible
<1>2. row' = [id \in Ids |-> IF id \in Missing(scan[s].seen) THEN Mark(id) ELSE row[id]]
  BY DEF ScanMark
<1>3. \A i \in Missing(scan[s].seen) :
         /\ Mark(i) \in Row /\ Mark(i).key = row[i].key /\ Mark(i).etag = row[i].etag
         /\ Mark(i).pages = row[i].pages /\ Mark(i).excluded = row[i].excluded
         /\ Mark(i).deleted = TRUE
  BY <1>1, RowsTyped DEF Row
<1> HIDE DEF Mark
<1>4. row' \in [Ids -> Row \cup {Unborn, Purged}]
  BY <1>2, <1>3 DEF TypeOK
<1>5. /\ \A i \in Ids : i \notin Missing(scan[s].seen) => row'[i] = row[i]
      /\ \A i \in Missing(scan[s].seen) : row'[i] = Mark(i)
  BY <1>1, <1>2, RowsTyped
<1>6. \A i \in Ids : i \in Rows' <=> i \in Rows
  BY <1>1, <1>3, <1>5, Nothing DEF Rows
<1>7. Rows' = Rows
  BY <1>6 DEF Rows
<1>8. \A i \in Ids : (row'[i] = Unborn) <=> (row[i] = Unborn)
  BY <1>1, <1>3, <1>5, Nothing, RowsTyped
<1>9. ASSUME NEW i \in Rows
      PROVE  /\ row'[i].key = row[i].key /\ row'[i].etag = row[i].etag
             /\ row'[i].pages = row[i].pages /\ row'[i].excluded = row[i].excluded
             /\ row'[i].deleted = (row[i].deleted \/ i \in Missing(scan[s].seen))
  <2>1. CASE i \in Missing(scan[s].seen)
    BY <1>3, <1>5, <2>1
  <2>2. CASE i \notin Missing(scan[s].seen)
    BY <1>5, <2>2, RowsTyped
  <2> QED BY <2>1, <2>2
<1>10. /\ scan[s].step = "list" /\ scan' = [scan EXCEPT ![s] = Resting] /\ calm' = {}
       /\ UNCHANGED <<object, made, queue, worker, op, left, orphan, overlap>>
  BY DEF ScanMark
<1>11. /\ scan' \in [Scans -> Scan] /\ scan'[s] = Resting
       /\ \A t \in Scans \ {s} : scan'[t] = scan[t]
  BY <1>10, RestTyped, ScanWritten
<1>12. TypeOK'
  BY <1>4, <1>10, <1>11 DEF TypeOK
<1> QED BY <1>5, <1>7, <1>8, <1>9, <1>10, <1>11, <1>12

LEMMA ScanFailSteps ==
    ASSUME TypeOK, NEW s \in Scans, ScanFail(s)
    PROVE  /\ TypeOK' /\ scan[s].step = "list" /\ scan'[s] = Resting
           /\ \A t \in Scans \ {s} : scan'[t] = scan[t]
           /\ UNCHANGED <<object, made, row, queue, worker, op, calm, orphan, overlap>>
<1>1. left' \in Nat
  BY SpendTyped DEF ScanFail, Kinds
<1>2. /\ scan[s].step = "list" /\ scan' = [scan EXCEPT ![s] = Resting]
      /\ UNCHANGED <<object, made, row, queue, worker, op, calm, orphan, overlap>>
  BY DEF ScanFail
<1>3. scan' \in [Scans -> Scan] /\ scan'[s] = Resting /\ \A t \in Scans \ {s} : scan'[t] = scan[t]
  BY <1>2, RestTyped, ScanWritten
<1> QED BY <1>1, <1>2, <1>3 DEF TypeOK

-----------------------------------------------------------------------------
(* The jobs *)

\* The job of a comic begins.
LEMMA JobStartSteps ==
    ASSUME TypeOK, NEW w \in Workers, NEW id \in Ids, JobStart(w, id)
    PROVE  /\ TypeOK' /\ Steady /\ worker[w] = Idle
           /\ \A i \in Ids \ {id} : queue'[i] = queue[i]
           /\ \A v \in Workers \ {w} : worker'[v] = worker[v]
           /\ id \notin Rows => worker' = worker
           /\ id \in Rows => /\ worker'[w] # Idle /\ worker'[w].id = id
                             /\ worker'[w].key = row[id].key /\ worker'[w].step = "read"
           /\ overlap' = IF id \in Running THEN overlap \cup {id} ELSE overlap \ {id}
           /\ UNCHANGED <<object, made, scan, op, left, calm, orphan>>
<1>1. /\ worker[w] = Idle /\ queue[id] > 0
      /\ queue' = [queue EXCEPT ![id] = queue[id] - 1]
      /\ overlap' = IF id \in Running THEN overlap \cup {id} ELSE overlap \ {id}
      /\ SetState(id, "indexing")
      /\ UNCHANGED <<object, made, scan, op, left, calm, orphan>>
  BY DEF JobStart
<1>2. queue[id] \in Nat /\ queue' \in [Ids -> Nat] /\ \A i \in Ids \ {id} : queue'[i] = queue[i]
  BY <1>1 DEF TypeOK
<1>3. Steady
  BY <1>1, StateSet
<1>4. /\ worker' \in [Workers -> Job \cup {Idle}]
      /\ \A v \in Workers \ {w} : worker'[v] = worker[v]
      /\ id \notin Rows => worker' = worker
      /\ id \in Rows => /\ worker'[w] # Idle /\ worker'[w].id = id
                        /\ worker'[w].key = row[id].key /\ worker'[w].step = "read"
  <2>1. CASE id \notin Rows
    <3>1. worker' = worker
      BY <2>1 DEF JobStart
    <3> QED BY <2>1, <3>1 DEF TypeOK
  <2>2. CASE id \in Rows
    <3>1. PICK j : j = [id |-> id, key |-> row[id].key, step |-> "read", got |-> 0]
      OBVIOUS
    <3>2. row[id].key \in Keys
      BY <2>2, RowsTyped
    <3>3. j \in Job /\ j.id = id /\ j.key = row[id].key /\ j.step = "read"
      BY <3>1, <3>2 DEF Job
    <3>4. worker' = [worker EXCEPT ![w] = j]
      BY <2>2, <3>1 DEF JobStart
    <3>5. j # Idle
      BY <3>3, Nothing
    <3> QED BY <2>2, <3>3, <3>4, <3>5 DEF TypeOK
  <2> QED BY <2>1, <2>2
<1>5. overlap' \subseteq Ids
  BY <1>1 DEF TypeOK
<1>6. row' \in [Ids -> Row \cup {Unborn, Purged}]
  BY <1>3 DEF Steady
<1>7. TypeOK'
  BY <1>1, <1>2, <1>4, <1>5, <1>6 DEF TypeOK
<1> QED BY <1>1, <1>2, <1>3, <1>4, <1>7

\* The archive is read.
LEMMA JobReadSteps ==
    ASSUME TypeOK, NEW w \in Workers, JobRead(w)
    PROVE  /\ TypeOK' /\ Steady /\ worker[w] # Idle /\ worker[w].step = "read"
           /\ object[worker[w].key] # 0
           /\ \A v \in Workers \ {w} : worker'[v] = worker[v]
           /\ worker'[w] # Idle /\ worker'[w].id = worker[w].id /\ worker'[w].key = worker[w].key
           /\ worker'[w].step = "pages" /\ worker'[w].got = object[worker[w].key]
           /\ UNCHANGED <<object, made, row, queue, scan, op, left, calm, orphan, overlap>>
<1>1. /\ worker[w] # Idle /\ worker[w].step = "read" /\ object[worker[w].key] # 0
      /\ UNCHANGED <<object, made, row, queue, scan, op, left, calm, orphan, overlap>>
  BY DEF JobRead
<1>2. worker[w] \in Job /\ worker[w].key \in Keys
  BY <1>1, WorkerTyped
<1>3. PICK c \in Nat : c = object[worker[w].key]
  BY <1>2 DEF TypeOK
<1>4. PICK j : j = [worker[w] EXCEPT !.step = "pages", !.got = c]
  OBVIOUS
<1>5. j \in Job /\ j.id = worker[w].id /\ j.key = worker[w].key /\ j.step = "pages" /\ j.got = c
  BY <1>2, <1>4 DEF Job
<1>6. worker' = [worker EXCEPT ![w] = j]
  BY <1>3, <1>4 DEF JobRead, TypeOK
<1>7. j # Idle
  BY <1>5, Nothing
<1>8. TypeOK'
  BY <1>1, <1>5, <1>6 DEF TypeOK
<1>9. Steady
  BY <1>1, RowsAlone
<1>10. worker'[w] = j /\ \A v \in Workers \ {w} : worker'[v] = worker[v]
  BY <1>6 DEF TypeOK
<1> QED BY <1>1, <1>3, <1>5, <1>7, <1>8, <1>9, <1>10

\* The pages are written.
LEMMA JobPagesSteps ==
    ASSUME TypeOK, NEW w \in Workers, JobPages(w)
    PROVE  /\ TypeOK' /\ worker[w] # Idle /\ worker[w].step = "pages" /\ worker[w].id \in Rows
           /\ \E r \in Row :
                 /\ row' = [row EXCEPT ![worker[w].id] = r]
                 /\ r.key = row[worker[w].id].key /\ r.etag = row[worker[w].id].etag
                 /\ r.deleted = row[worker[w].id].deleted /\ r.excluded = row[worker[w].id].excluded
                 /\ r.pages = worker[w].got
           /\ \A v \in Workers \ {w} : worker'[v] = worker[v]
           /\ worker'[w] # Idle /\ worker'[w].id = worker[w].id /\ worker'[w].key = worker[w].key
           /\ worker'[w].step = "finish"
           /\ UNCHANGED <<object, made, queue, scan, op, left, calm, orphan, overlap>>
<1>1. /\ worker[w] # Idle /\ worker[w].step = "pages" /\ worker[w].id \in Rows
      /\ UNCHANGED <<object, made, queue, scan, op, left, calm, orphan, overlap>>
  BY DEF JobPages
<1>2. worker[w] \in Job /\ worker[w].got \in Nat /\ worker[w].id \in Ids
  BY <1>1, WorkerTyped
<1>3. row[worker[w].id] \in Row
  BY <1>1, RowsTyped
<1>4. PICK r : r = [row[worker[w].id] EXCEPT !.pages = worker[w].got]
  OBVIOUS
<1>5. /\ r \in Row
      /\ r.key = row[worker[w].id].key /\ r.etag = row[worker[w].id].etag
      /\ r.deleted = row[worker[w].id].deleted /\ r.excluded = row[worker[w].id].excluded
      /\ r.pages = worker[w].got
  BY <1>2, <1>3, <1>4 DEF Row
<1>6. row' = [row EXCEPT ![worker[w].id] = r]
  BY <1>2, <1>4 DEF JobPages, TypeOK
<1>7. row' \in [Ids -> Row \cup {Unborn, Purged}]
  BY <1>2, <1>5, <1>6, RowWritten
<1>8. PICK j : j = [worker[w] EXCEPT !.step = "finish"]
  OBVIOUS
<1>9. j \in Job /\ j.id = worker[w].id /\ j.key = worker[w].key /\ j.step = "finish"
  BY <1>2, <1>8 DEF Job
<1>10. worker' = [worker EXCEPT ![w] = j]
  BY <1>8 DEF JobPages, TypeOK
<1>11. worker' \in [Workers -> Job \cup {Idle}]
       /\ worker'[w] = j /\ \A v \in Workers \ {w} : worker'[v] = worker[v]
  BY <1>9, <1>10 DEF TypeOK
<1>12. j # Idle
  BY <1>9, Nothing
<1>13. TypeOK'
  BY <1>1, <1>7, <1>11 DEF TypeOK
<1> QED BY <1>1, <1>5, <1>6, <1>9, <1>11, <1>12, <1>13

\* The job ends, well or badly.
LEMMA JobEndSteps ==
    ASSUME TypeOK, NEW w \in Workers, JobFinish(w) \/ JobFail(w)
    PROVE  /\ TypeOK' /\ Steady /\ worker[w] # Idle /\ worker[w].id \in Ids
           /\ \/ worker[w].step = "finish" /\ orphan' = orphan
              \/ queue'[worker[w].id] > 0 /\ orphan' = orphan
              \/ orphan' = orphan \cup {worker[w].id}
           /\ \A i \in Ids : queue'[i] >= queue[i]
           /\ worker'[w] = Idle /\ \A v \in Workers \ {w} : worker'[v] = worker[v]
           /\ UNCHANGED <<object, made, scan, op, calm, overlap>>
<1>1. /\ worker[w] # Idle /\ worker' = [worker EXCEPT ![w] = Idle]
      /\ UNCHANGED <<object, made, scan, op, calm, overlap>>
  BY DEF JobFinish, JobFail
<1>2. worker[w].id \in Ids /\ \A i \in Ids : queue[i] \in Nat
  BY <1>1, WorkerTyped DEF TypeOK
<1>3. Steady
  <2>1. CASE SetState(worker[w].id, "ready") \/ SetState(worker[w].id, "error")
    BY <1>2, <2>1, StateSet
  <2>2. CASE row' = row
    BY <2>2, RowsAlone
  <2> QED BY <2>1, <2>2 DEF JobFinish, JobFail
<1>4. left' \in Nat
  BY SpendTyped DEF JobFinish, JobFail, TypeOK, Kinds
<1>5. /\ queue' \in [Ids -> Nat] /\ orphan' \subseteq Ids
      /\ \/ worker[w].step = "finish" /\ orphan' = orphan
         \/ queue'[worker[w].id] > 0 /\ orphan' = orphan
         \/ orphan' = orphan \cup {worker[w].id}
      /\ \A i \in Ids : queue'[i] >= queue[i]
  <2>1. CASE JobFinish(w)
    BY <1>2, <2>1 DEF JobFinish, TypeOK
  <2>2. CASE JobFail(w)
    <3>1. CASE queue' = Retry(worker[w].id) /\ orphan' = orphan
      <4>1. queue' = [queue EXCEPT ![worker[w].id] = queue[worker[w].id] + 1]
        BY <3>1 DEF Retry
      <4> QED BY <1>2, <3>1, <4>1 DEF TypeOK
    <3>2. CASE queue' = queue /\ queue[worker[w].id] > 0 /\ orphan' = orphan
      BY <1>2, <3>2 DEF TypeOK
    <3>3. CASE queue' = queue /\ orphan' = orphan \cup {worker[w].id}
      BY <1>2, <3>3 DEF TypeOK
    <3> QED BY <2>2, <3>1, <3>2, <3>3 DEF JobFail
  <2> QED BY <2>1, <2>2
<1>6. /\ worker' \in [Workers -> Job \cup {Idle}]
      /\ worker'[w] = Idle /\ \A v \in Workers \ {w} : worker'[v] = worker[v]
  BY <1>1 DEF TypeOK
<1>7. TypeOK'
  BY <1>1, <1>3, <1>4, <1>5, <1>6 DEF TypeOK, Steady
<1> QED BY <1>1, <1>2, <1>3, <1>5, <1>6, <1>7

-----------------------------------------------------------------------------
(* The file operations *)

LEMMA UploadCheckSteps ==
    ASSUME TypeOK, NEW u \in Users, NEW k \in Keys, UploadCheck(u, k)
    PROVE  /\ TypeOK' /\ Steady /\ Then(u, "write", k, Idle) /\ calm' = {}
           /\ UNCHANGED <<object, made, row, queue, worker, scan, orphan, overlap>>
<1>1. /\ Then(u, "write", k, Idle) /\ Spend("upload") /\ calm' = {}
      /\ UNCHANGED <<object, made, row, queue, worker, scan, orphan, overlap>>
  BY DEF UploadCheck
<1>2. left' \in Nat
  BY <1>1, SpendTyped DEF Kinds
<1>3. op' \in [Users -> Op \cup {Idle}]
  BY <1>1, OpTyped
<1> QED BY <1>1, <1>2, <1>3, RowsAlone DEF TypeOK

LEMMA UploadWriteSteps ==
    ASSUME TypeOK, NEW u \in Users, UploadWrite(u)
    PROVE  /\ TypeOK' /\ Steady /\ Doing(u, "write") /\ Then(u, "record", op[u].key, Idle)
           /\ calm' = {} /\ op[u].key \in Keys
           /\ Reuse \/ ~Vacated(op[u].key)
           /\ made' = made + 1 /\ object' = [object EXCEPT ![op[u].key] = made + 1]
           /\ UNCHANGED <<row, queue, worker, scan, left, orphan, overlap>>
<1>1. /\ Doing(u, "write") /\ Then(u, "record", op[u].key, Idle) /\ calm' = {}
      /\ Reuse \/ ~Vacated(op[u].key)
      /\ made' = made + 1 /\ object' = [object EXCEPT ![op[u].key] = made + 1]
      /\ UNCHANGED <<row, queue, worker, scan, left, orphan, overlap>>
  BY DEF UploadWrite
<1>2. op[u].key \in Keys
  BY <1>1, DoingTyped DEF Doing
<1>3. op' \in [Users -> Op \cup {Idle}]
  BY <1>1, <1>2, OpTyped
<1>4. made' \in Nat /\ object' \in [Keys -> Nat]
  BY <1>1, <1>2 DEF TypeOK
<1>5. TypeOK'
  BY <1>1, <1>3, <1>4 DEF TypeOK
<1> QED BY <1>1, <1>2, <1>5, RowsAlone

\* The row of what was uploaded is written, or nothing is.
LEMMA UploadRecordSteps ==
    ASSUME TypeOK, NEW u \in Users, UploadRecord(u)
    PROVE  /\ TypeOK' /\ Doing(u, "record") /\ op[u].key \in Keys /\ calm' = {}
           /\ \/ /\ object[op[u].key] # 0
                 /\ \E id \in Ids, r \in Row : /\ Found(id, r, op[u].key, object[op[u].key])
                                               /\ Then(u, "enqueue", op[u].key, id)
              \/ row' = row /\ Done(u)
           /\ UNCHANGED <<object, made, queue, worker, scan, orphan, overlap>>
<1>1. /\ Doing(u, "record") /\ calm' = {}
      /\ UNCHANGED <<object, made, queue, worker, scan, orphan, overlap>>
  BY DEF UploadRecord
<1>2. op[u].key \in Keys /\ object[op[u].key] \in Nat
  BY <1>1, DoingTyped DEF Doing, TypeOK
<1>3. CASE /\ object[op[u].key] # 0
           /\ \E id \in Ids : /\ UpsertComic(id, op[u].key, object[op[u].key])
                              /\ Then(u, "enqueue", op[u].key, id)
           /\ UNCHANGED left
  <2>1. PICK id \in Ids : /\ UpsertComic(id, op[u].key, object[op[u].key])
                          /\ Then(u, "enqueue", op[u].key, id)
    BY <1>3
  <2>2. \E r \in Row : Found(id, r, op[u].key, object[op[u].key])
    BY <1>2, <2>1, UpsertFinds
  <2>3. row' \in [Ids -> Row \cup {Unborn, Purged}]
    BY <2>2, RowWritten DEF Found
  <2>4. op' \in [Users -> Op \cup {Idle}]
    BY <1>2, <2>1, OpTyped
  <2>5. TypeOK'
    BY <1>1, <1>3, <2>3, <2>4 DEF TypeOK
  <2> QED BY <1>1, <1>2, <1>3, <2>1, <2>2, <2>5
<1>4. CASE /\ (object[op[u].key] = 0 /\ UNCHANGED left) \/ Spend("fault")
           /\ Done(u) /\ UNCHANGED row
  <2>1. left' \in Nat
    BY <1>4, SpendTyped DEF TypeOK, Kinds
  <2>2. op' \in [Users -> Op \cup {Idle}]
    BY <1>4, DoneTyped
  <2>3. TypeOK'
    BY <1>1, <1>4, <2>1, <2>2 DEF TypeOK
  <2> QED BY <1>1, <1>2, <1>4, <2>3
<1> QED BY <1>3, <1>4 DEF UploadRecord

LEMMA UploadEnqueueSteps ==
    ASSUME TypeOK, Born, NEW u \in Users, UploadEnqueue(u)
    PROVE  /\ TypeOK' /\ Steady /\ Doing(u, "enqueue") /\ op[u].id \in Ids
           /\ Enqueue(op[u].id) /\ Done(u)
           /\ UNCHANGED <<object, made, row, worker, scan, calm, overlap>>
<1>1. /\ Doing(u, "enqueue") /\ Enqueue(op[u].id) /\ Done(u)
      /\ UNCHANGED <<object, made, row, worker, scan, calm, overlap>>
  BY DEF UploadEnqueue
<1>2. op[u].id \in Ids
  BY <1>1 DEF Born
<1>3. queue' \in [Ids -> Nat] /\ left' \in Nat /\ orphan' \subseteq Ids
  BY <1>1, <1>2, EnqueueTyped
<1>4. op' \in [Users -> Op \cup {Idle}]
  BY <1>1, DoneTyped
<1>5. TypeOK'
  BY <1>1, <1>3, <1>4 DEF TypeOK
<1> QED BY <1>1, <1>2, <1>5, RowsAlone

LEMMA ExcludeSteps ==
    ASSUME TypeOK, NEW u \in Users, NEW id \in Ids, Exclude(u, id)
    PROVE  /\ TypeOK' /\ id \in Rows /\ calm' = {}
           /\ \E r \in Row : /\ row' = [row EXCEPT ![id] = r]
                             /\ r.key = row[id].key /\ r.etag = row[id].etag /\ r.pages = row[id].pages
                             /\ r.deleted /\ r.excluded
           /\ UNCHANGED <<object, made, queue, worker, scan, op, orphan, overlap>>
<1>1. /\ id \in Rows /\ calm' = {}
      /\ UNCHANGED <<object, made, queue, worker, scan, op, orphan, overlap>>
  BY DEF Exclude
<1>2. left' \in Nat
  BY SpendTyped DEF Exclude, Kinds
<1>3. PICK r : r = [row[id] EXCEPT !.deleted = TRUE, !.excluded = TRUE]
  OBVIOUS
<1>4. row[id] \in Row
  BY <1>1, RowsTyped
<1>5. /\ r \in Row /\ r.key = row[id].key /\ r.etag = row[id].etag /\ r.pages = row[id].pages
      /\ r.deleted /\ r.excluded
  BY <1>3, <1>4 DEF Row
<1>6. row' = [row EXCEPT ![id] = r]
  BY <1>3 DEF Exclude, TypeOK
<1>7. row' \in [Ids -> Row \cup {Unborn, Purged}]
  BY <1>5, <1>6, RowWritten
<1>8. TypeOK'
  BY <1>1, <1>2, <1>7 DEF TypeOK
<1> QED BY <1>1, <1>5, <1>6, <1>8

LEMMA DeleteObjectSteps ==
    ASSUME TypeOK, NEW u \in Users, NEW id \in Ids, DeleteObject(u, id)
    PROVE  /\ TypeOK' /\ Steady /\ id \in Rows /\ op[u] = Idle
           /\ row[id].key \in Keys /\ Then(u, "purge", row[id].key, id)
           /\ object' = [object EXCEPT ![row[id].key] = 0] /\ calm' = {}
           /\ UNCHANGED <<made, row, queue, worker, scan, orphan, overlap>>
<1>1. /\ id \in Rows /\ op[u] = Idle /\ Then(u, "purge", row[id].key, id)
      /\ object' = [object EXCEPT ![row[id].key] = 0] /\ calm' = {}
      /\ UNCHANGED <<made, row, queue, worker, scan, orphan, overlap>>
  BY DEF DeleteObject
<1>2. row[id].key \in Keys
  BY <1>1, RowsTyped
<1>3. left' \in Nat
  BY SpendTyped DEF DeleteObject, Kinds
<1>4. op' \in [Users -> Op \cup {Idle}]
  BY <1>1, <1>2, OpTyped
<1>5. object' \in [Keys -> Nat]
  BY <1>1 DEF TypeOK
<1>6. TypeOK'
  BY <1>1, <1>3, <1>4, <1>5 DEF TypeOK
<1> QED BY <1>1, <1>2, <1>6, RowsAlone

LEMMA PurgeRowSteps ==
    ASSUME TypeOK, Born, NEW u \in Users, PurgeRow(u)
    PROVE  /\ TypeOK' /\ Doing(u, "purge") /\ Done(u) /\ calm' = {} /\ op[u].id \in Ids
           /\ row' = [row EXCEPT ![op[u].id] = Purged] \/ row' = row
           /\ UNCHANGED <<object, made, queue, worker, scan, orphan, overlap>>
<1>1. /\ Doing(u, "purge") /\ Done(u) /\ calm' = {}
      /\ row' = [row EXCEPT ![op[u].id] = Purged] \/ row' = row
      /\ UNCHANGED <<object, made, queue, worker, scan, orphan, overlap>>
  BY DEF PurgeRow
<1>2. left' \in Nat
  BY SpendTyped DEF PurgeRow, TypeOK, Kinds
<1>3. op' \in [Users -> Op \cup {Idle}]
  BY <1>1, DoneTyped
<1>4. row' \in [Ids -> Row \cup {Unborn, Purged}]
  BY <1>1 DEF TypeOK
<1>5. TypeOK'
  BY <1>1, <1>2, <1>3, <1>4 DEF TypeOK
<1> QED BY <1>1, <1>5 DEF Born

LEMMA MoveObjectSteps ==
    ASSUME TypeOK, NEW u \in Users, NEW id \in Ids, NEW k \in Keys, MoveObject(u, id, k)
    PROVE  /\ TypeOK' /\ Steady /\ id \in Rows /\ op[u] = Idle /\ row[id].key \in Keys
           /\ object[row[id].key] # 0 /\ object[k] = 0
           /\ Reuse \/ ~(Vacated(k) \/ Claimed(k))
           /\ Then(u, "rename", k, id) /\ calm' = {}
           /\ object'[row[id].key] = 0 /\ object'[k] = object[row[id].key]
           /\ \A j \in Keys : j # k /\ j # row[id].key => object'[j] = object[j]
           /\ UNCHANGED <<made, row, queue, worker, scan, orphan, overlap>>
<1>1. /\ id \in Rows /\ op[u] = Idle /\ Then(u, "rename", k, id) /\ calm' = {}
      /\ object[row[id].key] # 0 /\ object[k] = 0
      /\ Reuse \/ ~(Vacated(k) \/ Claimed(k))
      /\ object' = [object EXCEPT ![row[id].key] = 0, ![k] = object[row[id].key]]
      /\ UNCHANGED <<made, row, queue, worker, scan, orphan, overlap>>
  BY DEF MoveObject
<1>2. row[id].key \in Keys
  BY <1>1, RowsTyped
<1>3. left' \in Nat
  BY SpendTyped DEF MoveObject, Kinds
<1>4. op' \in [Users -> Op \cup {Idle}]
  BY <1>1, OpTyped
<1>5. /\ object' \in [Keys -> Nat] /\ object'[row[id].key] = 0 /\ object'[k] = object[row[id].key]
      /\ \A j \in Keys : j # k /\ j # row[id].key => object'[j] = object[j]
  BY <1>1, <1>2 DEF TypeOK
<1>6. TypeOK'
  BY <1>1, <1>3, <1>4, <1>5 DEF TypeOK
<1> QED BY <1>1, <1>2, <1>5, <1>6, RowsAlone

\* The row follows its object, or stays.
LEMMA MoveRowSteps ==
    ASSUME TypeOK, Born, NEW u \in Users, MoveRow(u)
    PROVE  /\ TypeOK' /\ Doing(u, "rename") /\ Done(u) /\ calm' = {}
           /\ op[u].id \in Ids /\ op[u].key \in Keys
           /\ \/ /\ RowAt(op[u].key) = {} /\ op[u].id \in Rows
                 /\ \E r \in Row : /\ row' = [row EXCEPT ![op[u].id] = r] /\ r.key = op[u].key
                                   /\ r.etag = row[op[u].id].etag /\ r.pages = row[op[u].id].pages
                                   /\ r.deleted = row[op[u].id].deleted
                                   /\ r.excluded = row[op[u].id].excluded
              \/ row' = row
           /\ UNCHANGED <<object, made, queue, worker, scan, orphan, overlap>>
<1>1. /\ Doing(u, "rename") /\ Done(u) /\ calm' = {}
      /\ UNCHANGED <<object, made, queue, worker, scan, orphan, overlap>>
  BY DEF MoveRow
<1>2. op[u].id \in Ids /\ op[u].key \in Keys
  BY <1>1, DoingTyped DEF Born, Doing
<1>3. left' \in Nat
  BY SpendTyped DEF MoveRow, TypeOK, Kinds
<1>4. op' \in [Users -> Op \cup {Idle}]
  BY <1>1, DoneTyped
<1>5. CASE /\ RowAt(op[u].key) = {} /\ op[u].id \in Rows
           /\ row' = [row EXCEPT ![op[u].id].key = op[u].key]
  <2>1. row[op[u].id] \in Row
    BY <1>5, RowsTyped
  <2>2. PICK r : r = [row[op[u].id] EXCEPT !.key = op[u].key]
    OBVIOUS
  <2>3. /\ r \in Row /\ r.key = op[u].key
        /\ r.etag = row[op[u].id].etag /\ r.pages = row[op[u].id].pages
        /\ r.deleted = row[op[u].id].deleted
        /\ r.excluded = row[op[u].id].excluded
    BY <1>2, <2>1, <2>2 DEF Row
  <2>4. row' = [row EXCEPT ![op[u].id] = r]
    BY <1>5, <2>2 DEF TypeOK
  <2>5. row' \in [Ids -> Row \cup {Unborn, Purged}]
    BY <1>2, <2>3, <2>4, RowWritten
  <2>6. TypeOK'
    BY <1>1, <1>3, <1>4, <2>5 DEF TypeOK
  <2> QED BY <1>1, <1>2, <1>5, <2>3, <2>4, <2>6
<1>6. CASE row' = row
  <2>1. TypeOK'
    BY <1>1, <1>3, <1>4, <1>6 DEF TypeOK
  <2> QED BY <1>1, <1>2, <1>6, <2>1
<1> QED BY <1>5, <1>6 DEF MoveRow

\* The server stops and starts again.
LEMMA CrashSteps ==
    ASSUME TypeOK, Crash
    PROVE  /\ TypeOK' /\ Steady /\ calm' = {}
           /\ \A s \in Scans : scan'[s] = Resting
           /\ \A i \in Ids : queue'[i] >= queue[i]
           /\ \A i \in Ids : (\E w \in Workers : At(w, i)) => queue'[i] > 0
           /\ \A w \in Workers : worker'[w] = Idle
           /\ \A u \in Users : op'[u] = Idle
           /\ orphan' = orphan \cup Enqueuing
           /\ UNCHANGED <<object, made, row, overlap>>
<1> DEFINE Back(i) == {w \in Workers : worker[w] # Idle /\ worker[w].id = i}
<1>1. /\ queue' = [id \in Ids |-> queue[id] + Cardinality(Back(id))]
      /\ worker' = [w \in Workers |-> Idle] /\ scan' = [s \in Scans |-> Resting]
      /\ op' = [u \in Users |-> Idle] /\ calm' = {}
      /\ orphan' = orphan \cup Enqueuing /\ UNCHANGED <<object, made, row, overlap>>
  BY DEF Crash
<1>2. \A i \in Ids : IsFiniteSet(Back(i)) /\ Cardinality(Back(i)) \in Nat
  BY CatalogueAssumption, FS_Subset, FS_CardinalityType
<1>3. ASSUME NEW i \in Ids, NEW w \in Workers, At(w, i)
      PROVE  Cardinality(Back(i)) > 0
  <2>1. Back(i) # {}
    BY <1>3 DEF At
  <2>2. Cardinality(Back(i)) # 0
    BY <1>2, <2>1, FS_EmptySet
  <2> QED BY <1>2, <2>2
<1> HIDE DEF Back
<1>4. /\ queue' \in [Ids -> Nat] /\ \A i \in Ids : queue'[i] >= queue[i]
      /\ \A i \in Ids : (\E w \in Workers : At(w, i)) => queue'[i] > 0
  BY <1>1, <1>2, <1>3 DEF TypeOK
<1>5. left' \in Nat
  BY SpendTyped DEF Crash, Kinds
<1>6. orphan' \subseteq Ids
  BY <1>1 DEF TypeOK, Enqueuing
<1>7. TypeOK'
  BY <1>1, <1>4, <1>5, <1>6, RestTyped DEF TypeOK
<1> QED BY <1>1, <1>4, <1>7, RowsAlone

-----------------------------------------------------------------------------
(* Shape is inductive *)

\* What the rows and the operations keep, however they change.
LEMMA BornKept ==
    ASSUME TypeOK, TypeOK', Born,
           \A i \in Ids : row[i] # Unborn => row'[i] # Unborn,
           \A w \in Workers : worker'[w] # Idle =>
              (worker[w] # Idle /\ worker'[w].id = worker[w].id) \/ worker'[w].id \in Rows,
           \A u \in Users : \/ op'[u] = op[u] \/ op'[u] = Idle
                            \/ op'[u].kind \in {"write", "record"}
                            \/ op'[u].kind = "enqueue" /\ op'[u].id \in Ids
                            \/ op'[u].id \in Rows,
           \A s \in Scans : scan'[s] = scan[s] \/ ((scan'[s].step = "enqueue") <=> (scan'[s].job # Idle))
    PROVE  Born'
<1>1. \A i \in Rows : i \in Ids /\ row'[i] # Unborn
  BY DEF Rows
<1>2. ASSUME NEW w \in Workers, worker'[w] # Idle
      PROVE  row'[worker'[w].id] # Unborn
  <2>1. CASE worker[w] # Idle /\ worker'[w].id = worker[w].id
    <3>1. worker[w].id \in Ids
      BY <2>1, WorkerTyped
    <3> QED BY <2>1, <3>1 DEF Born
  <2>2. CASE worker'[w].id \in Rows
    BY <1>1, <2>2
  <2> QED BY <1>2, <2>1, <2>2
<1>3. ASSUME NEW u \in Users, (Doing(u, "rename") \/ Doing(u, "purge"))'
      PROVE  op'[u].id \in Ids /\ row'[op'[u].id] # Unborn
  <2>1. op'[u] # Idle /\ (op'[u].kind = "rename" \/ op'[u].kind = "purge")
    BY <1>3 DEF Doing
  <2>2. CASE op'[u] = op[u]
    <3>1. Doing(u, "rename") \/ Doing(u, "purge")
      BY <2>1, <2>2 DEF Doing
    <3>2. op[u].id \in Ids /\ row[op[u].id] # Unborn
      BY <3>1 DEF Born
    <3> QED BY <2>2, <3>2
  <2>3. CASE op'[u].id \in Rows
    BY <1>1, <2>3
  <2> QED BY <2>1, <2>2, <2>3
<1>4. ASSUME NEW u \in Users, Doing(u, "enqueue")'
      PROVE  op'[u].id \in Ids
  <2>1. op'[u] # Idle /\ op'[u].kind = "enqueue"
    BY <1>4 DEF Doing
  <2>2. CASE op'[u] = op[u]
    <3>1. Doing(u, "enqueue")
      BY <2>1, <2>2 DEF Doing
    <3> QED BY <2>2, <3>1 DEF Born
  <2>3. CASE op'[u].id \in Rows
    BY <1>1, <2>3
  <2> QED BY <2>1, <2>2, <2>3
<1>5. \A s \in Scans : (scan'[s].step = "enqueue") <=> (scan'[s].job # Idle)
  BY DEF Born
<1> QED BY <1>2, <1>3, <1>4, <1>5 DEF Born

\* The rows keep their keys, and what was taken out.
LEMMA KeysKept ==
    ASSUME Unique, Rows' \subseteq Rows, \A i \in Rows' : row'[i].key = row[i].key
    PROVE  Unique'
BY DEF Unique

LEMMA SteadyKeeps ==
    ASSUME TypeOK, Steady, Unique, Excluded
    PROVE  /\ Unique' /\ Excluded'
           /\ \A i \in Ids : row[i] # Unborn => row'[i] # Unborn
<1>1. Unique'
  BY KeysKept DEF Steady
<1>2. Excluded'
  BY DEF Steady, Excluded
<1> QED BY <1>1, <1>2 DEF Steady

LEMMA FoundKeeps ==
    ASSUME TypeOK, Unique, Excluded, NEW id \in Ids, NEW r \in Row, NEW k \in Keys, NEW c \in Nat,
           Found(id, r, k, c)
    PROVE  /\ Unique' /\ Excluded'
           /\ \A i \in Ids : row[i] # Unborn => row'[i] # Unborn
           /\ id \in Rows' /\ row'[id].key = k /\ (row'[id].deleted => row'[id].excluded)
           /\ \A i \in Rows : i # id => i \in Rows' /\ row'[i] = row[i]
           /\ row'[id] = r /\ Rows' = Rows \cup {id}
<1>1. /\ row'[id] = r /\ \A i \in Ids : i # id => row'[i] = row[i]
      /\ Rows' = Rows \cup {id}
  BY RowWritten DEF Found
<1>2. Rows \subseteq Ids
  BY RowsTyped
<1>3. r.key = k
  BY DEF Found
<1>4. Unique'
  <2>1. ASSUME NEW i \in Rows, i # id
        PROVE  row[i].key # k
    <3>1. CASE RowAt(k) = {}
      BY <2>1, <3>1 DEF RowAt
    <3>2. CASE id \in Rows /\ row[id].key = k
      BY <2>1, <3>2 DEF Unique
    <3> QED BY <3>1, <3>2 DEF Found
  <2>2. ASSUME NEW i \in Rows', NEW j \in Rows', row'[i].key = row'[j].key
        PROVE  i = j
    <3>1. CASE i = id
      BY <1>1, <1>2, <1>3, <2>1, <2>2, <3>1
    <3>2. CASE j = id
      BY <1>1, <1>2, <1>3, <2>1, <2>2, <3>2
    <3>3. CASE i # id /\ j # id
      BY <1>1, <1>2, <2>2, <3>3 DEF Unique
    <3> QED BY <3>1, <3>2, <3>3
  <2> QED BY <2>2 DEF Unique
<1>5. (r.deleted => r.excluded) /\ (r.excluded => r.deleted)
  <2>1. CASE ~r.deleted /\ ~r.excluded
    BY <2>1
  <2>2. CASE /\ id \in Rows /\ r.excluded = row[id].excluded
             /\ r.deleted = (row[id].excluded /\ row[id].deleted)
    BY <2>2 DEF Excluded
  <2> QED BY <2>1, <2>2 DEF Found
<1>6. Excluded'
  BY <1>1, <1>2, <1>5 DEF Excluded
<1>7. \A i \in Ids : row[i] # Unborn => row'[i] # Unborn
  BY <1>1, Nothing
<1> QED BY <1>1, <1>2, <1>3, <1>4, <1>5, <1>6, <1>7

\* One row is written, at the same key.
LEMMA WrittenKeeps ==
    ASSUME TypeOK, Unique, Excluded, NEW id \in Rows, NEW r \in Row, row' = [row EXCEPT ![id] = r],
           r.key = row[id].key, r.excluded => r.deleted
    PROVE  /\ Unique' /\ Excluded' /\ Rows' = Rows
           /\ \A i \in Ids : row[i] # Unborn => row'[i] # Unborn
           /\ row'[id] = r /\ \A i \in Ids : i # id => row'[i] = row[i]
<1>1. /\ id \in Ids /\ row'[id] = r /\ \A i \in Ids : i # id => row'[i] = row[i]
      /\ Rows' = Rows \cup {id} /\ Rows \subseteq Ids
  BY RowWritten, RowsTyped
<1>2. Rows' = Rows
  BY <1>1
<1>3. \A i \in Rows : row'[i].key = row[i].key
  BY <1>1
<1>4. Unique'
  BY <1>2, <1>3, KeysKept
<1>5. Excluded'
  BY <1>1, <1>2 DEF Excluded
<1>6. \A i \in Ids : row[i] # Unborn => row'[i] # Unborn
  BY <1>1, Nothing
<1> QED BY <1>1, <1>2, <1>4, <1>5, <1>6

\* Rows come, and the rows there were still tell of their keys.
LEMMA ToldKept ==
    ASSUME Rows \subseteq Rows', NEW k, Told(k),
           \A i \in Rows : /\ row'[i].key = row[i].key
                           /\ (row[i].deleted => row[i].excluded) => (row'[i].deleted => row'[i].excluded)
    PROVE  Told(k)'
<1>1. PICK id \in RowAt(k) : row[id].deleted => row[id].excluded
  BY DEF Told
<1>2. id \in Rows /\ row[id].key = k
  BY DEF RowAt
<1>3. id \in RowAt(k)' /\ (row'[id].deleted => row'[id].excluded)
  BY <1>1, <1>2 DEF RowAt
<1> QED BY <1>3 DEF Told

\* What the scans that go on have seen is still told of.
LEMMA ListingKept ==
    ASSUME TypeOK, Listing, op' = op, object' = object, calm' \subseteq calm,
           \A k : Told(k) => Told(k)',
           \A s \in calm' :
              \/ scan'[s].step = "idle"
              \/ /\ scan[s].step # "idle" /\ scan'[s].present = scan[s].present
                 /\ \A k \in scan'[s].seen : k \in scan[s].seen \/ (object[k] # 0 /\ Told(k)')
    PROVE  Listing'
<1> SUFFICES ASSUME NEW s \in calm', scan'[s].step # "idle"
             PROVE  /\ op' = [u \in Users |-> Idle]
                    /\ scan'[s].present = {k \in Keys : object'[k] # 0}
                    /\ \A k \in scan'[s].seen : object'[k] # 0 /\ Told(k)'
  BY DEF Listing
<1>1. /\ op = [u \in Users |-> Idle]
      /\ scan[s].present = {k \in Keys : object[k] # 0}
      /\ \A k \in scan[s].seen : object[k] # 0 /\ Told(k)
  BY DEF Listing
<1> QED BY <1>1

\* A step that no scan sees.
LEMMA ListingAlone ==
    ASSUME TypeOK, Listing, op' = op, object' = object, scan' = scan, calm' = calm,
           Rows \subseteq Rows',
           \A i \in Rows : /\ row'[i].key = row[i].key /\ row'[i].deleted = row[i].deleted
                           /\ row'[i].excluded = row[i].excluded
    PROVE  Listing'
<1>1. \A k : Told(k) => Told(k)'
  BY ToldKept
<1> QED BY <1>1, ListingKept

LEMMA ListingVoid ==
    ASSUME calm' = {}
    PROVE  Listing'
BY DEF Listing

\* A scan that nothing disturbs has had a row written for each key it saw.
LEMMA ListingGrows ==
    ASSUME TypeOK, Listing, NEW s \in Scans, NEW k \in Keys, ScanObject(s, k), calm' = calm,
           NEW id \in Ids, NEW r \in Row, Found(id, r, k, object[k]), Unique, Excluded
    PROVE  Listing'
<1>1. /\ scan[s].step = "list" /\ object[k] # 0 /\ scan'[s].seen = scan[s].seen \cup {k}
      /\ scan'[s].present = scan[s].present /\ object' = object /\ op' = op
      /\ \A t \in Scans \ {s} : scan'[t] = scan[t]
  BY ScanObjectSteps
<1>2. /\ id \in Rows' /\ row'[id].key = k /\ (row'[id].deleted => row'[id].excluded)
      /\ \A i \in Rows : i # id => i \in Rows' /\ row'[i] = row[i]
  BY <1>1, FoundKeeps DEF TypeOK
<1>3. Told(k)'
  BY <1>2 DEF Told, RowAt
<1>4. ASSUME NEW j, Told(j)
      PROVE  Told(j)'
  <2>1. PICK i \in RowAt(j) : row[i].deleted => row[i].excluded
    BY <1>4 DEF Told
  <2>2. i \in Rows /\ row[i].key = j
    BY <2>1 DEF RowAt
  <2>3. CASE i # id
    BY <1>2, <2>1, <2>2, <2>3 DEF Told, RowAt
  <2>4. CASE i = id
    BY <1>3, <2>2, <2>4 DEF Found
  <2> QED BY <2>3, <2>4
<1>5. ASSUME NEW t \in calm'
      PROVE  \/ scan'[t].step = "idle"
             \/ /\ scan[t].step # "idle" /\ scan'[t].present = scan[t].present
                /\ \A j \in scan'[t].seen : j \in scan[t].seen \/ (object[j] # 0 /\ Told(j)')
  <2>1. CASE t = s
    BY <1>1, <1>3, <2>1
  <2>2. CASE t # s
    BY <1>1, <2>2 DEF TypeOK
  <2> QED BY <2>1, <2>2
<1> QED BY <1>1, <1>4, <1>5, ListingKept

LEMMA ShapeInit == Init => Shape
<1> SUFFICES ASSUME Init PROVE Shape
  OBVIOUS
<1>1. Cardinality(Keys) \in Nat
  BY CatalogueAssumption, FS_CardinalityType
<1>2. object \in [Keys -> Nat]
  BY <1>1, CatalogueAssumption DEF Init
<1>3. TypeOK
  BY <1>1, <1>2, RestTyped, CatalogueAssumption DEF Init, TypeOK, Resting, Scan
<1>4. Rows = {}
  BY <1>3 DEF Init, Rows
<1>5. \A s \in Scans : scan[s].step = "idle" /\ scan[s].job = Idle
  BY DEF Init, Resting
<1>6. Born
  BY <1>5 DEF Init, Born, Doing
<1> QED BY <1>3, <1>4, <1>6 DEF Shape, Unique, Excluded, Listing, Init

\* What an operation is, when it begins.
LEMMA ThenBorn ==
    ASSUME TypeOK, NEW u \in Users, NEW kind \in {"write", "record", "enqueue", "purge", "rename"},
           NEW k \in Keys, NEW id \in Ids \cup {Idle}, Then(u, kind, k, id),
           kind \in {"write", "record"} \/ (kind = "enqueue" /\ id \in Ids) \/ id \in Rows
    PROVE  \A v \in Users : \/ op'[v] = op[v] \/ op'[v] = Idle
                            \/ op'[v].kind \in {"write", "record"}
                            \/ op'[v].kind = "enqueue" /\ op'[v].id \in Ids
                            \/ op'[v].id \in Rows
BY OpTyped

LEMMA FileShape ==
    ASSUME Shape, NEW k \in Keys, FileWritten(k) \/ FileRemoved(k)
    PROVE  Shape'
<1>1. TypeOK'
  BY FileTyped DEF Shape
<1>2. row' = row /\ worker' = worker /\ op' = op /\ scan' = scan /\ calm' = {}
  BY DEF FileWritten, FileRemoved
<1>3. Unique' /\ Excluded' /\ \A i \in Ids : row[i] # Unborn => row'[i] # Unborn
  BY <1>2, RowsAlone, SteadyKeeps DEF Shape
<1>4. Born'
  BY <1>1, <1>2, <1>3, BornKept DEF Shape, Born
<1> QED BY <1>1, <1>2, <1>3, <1>4, ListingVoid DEF Shape

LEMMA ScanStartShape ==
    ASSUME Shape, NEW s \in Scans, ScanStart(s)
    PROVE  Shape'
<1>1. /\ TypeOK' /\ row' = row /\ worker' = worker /\ op' = op /\ object' = object
      /\ calm' = IF op = [u \in Users |-> Idle] THEN calm \cup {s} ELSE calm \ {s}
      /\ scan'[s].step = "list" /\ scan'[s].job = Idle /\ scan'[s].seen = {}
      /\ scan'[s].present = {k \in Keys : object[k] # 0}
      /\ \A t \in Scans \ {s} : scan'[t] = scan[t]
  BY ScanStartSteps DEF Shape
<1>2. Unique' /\ Excluded' /\ \A i \in Ids : row[i] # Unborn => row'[i] # Unborn
  BY <1>1, RowsAlone, SteadyKeeps DEF Shape
<1>3. Born'
  BY <1>1, <1>2, BornKept DEF Shape
<1>4. \A k : Told(k)' = Told(k)
  BY <1>1 DEF Told, RowAt, Rows
<1>5. Listing'
  <2>1. ASSUME NEW t \in calm', t # s, scan'[t].step # "idle"
        PROVE  /\ op = [u \in Users |-> Idle]
               /\ scan'[t].present = {k \in Keys : object[k] # 0}
               /\ \A k \in scan'[t].seen : object[k] # 0 /\ Told(k)
    <3>1. t \in calm /\ scan'[t] = scan[t]
      BY <1>1, <2>1 DEF Shape, TypeOK
    <3> QED BY <2>1, <3>1 DEF Shape, Listing
  <2>2. s \in calm' => op = [u \in Users |-> Idle]
    BY <1>1
  <2> QED BY <1>1, <1>4, <2>1, <2>2 DEF Listing
<1> QED BY <1>1, <1>2, <1>3, <1>5 DEF Shape

LEMMA ScanObjectShape ==
    ASSUME Shape, NEW s \in Scans, NEW k \in Keys, ScanObject(s, k)
    PROVE  Shape'
<1>1. TypeOK'
  BY ScanObjectTyped DEF Shape
<1>2. /\ scan[s].step = "list" /\ object[k] # 0
      /\ \A t \in Scans \ {s} : scan'[t] = scan[t]
      /\ UNCHANGED <<object, made, queue, worker, op, orphan, overlap>>
  BY ScanObjectSteps DEF Shape
<1>3. CASE row' = row /\ calm' = calm \ {s} /\ scan'[s].step = "list" /\ scan'[s].job = scan[s].job
  <2>1. Unique' /\ Excluded' /\ \A i \in Ids : row[i] # Unborn => row'[i] # Unborn
    BY <1>3, RowsAlone, SteadyKeeps DEF Shape
  <2>2. (scan'[s].step = "enqueue") <=> (scan'[s].job # Idle)
    BY <1>2, <1>3 DEF Shape, Born
  <2>3. Born'
    BY <1>1, <1>2, <2>1, <2>2, BornKept DEF Shape
  <2>4. \A j : Told(j) => Told(j)'
    BY <1>3 DEF Told, RowAt, Rows
  <2>5. calm' \subseteq calm /\ \A t \in calm' : scan'[t] = scan[t]
    BY <1>2, <1>3 DEF Shape, TypeOK
  <2>6. Listing'
    BY <1>2, <2>4, <2>5, ListingKept DEF Shape
  <2> QED BY <1>1, <2>1, <2>3, <2>6 DEF Shape
<1>4. ASSUME NEW id \in Ids, NEW r \in Row, Found(id, r, k, object[k]), calm' = calm,
             \/ r.state = "pending" /\ scan'[s].step = "enqueue" /\ scan'[s].job = id
             \/ r.state # "pending" /\ scan'[s].step = "list" /\ scan'[s].job = Idle
      PROVE  Shape'
  <2>1. Unique' /\ Excluded' /\ \A i \in Ids : row[i] # Unborn => row'[i] # Unborn
    BY <1>4, FoundKeeps DEF Shape, TypeOK
  <2>2. (scan'[s].step = "enqueue") <=> (scan'[s].job # Idle)
    BY <1>4, Nothing, NothingAssumption
  <2>3. Born'
    BY <1>1, <1>2, <2>1, <2>2, BornKept DEF Shape
  <2>4. Listing'
    BY <1>4, ListingGrows DEF Shape
  <2> QED BY <1>1, <2>1, <2>3, <2>4 DEF Shape
<1> QED BY <1>3, <1>4, ScanObjectSteps DEF Shape

LEMMA ScanEnqueueShape ==
    ASSUME Shape, NEW s \in Scans, ScanEnqueue(s)
    PROVE  Shape'
<1>1. /\ TypeOK' /\ scan'[s].step = "list" /\ scan'[s].job = Idle /\ scan[s].step = "enqueue"
      /\ scan'[s].seen = scan[s].seen /\ scan'[s].present = scan[s].present
      /\ \A t \in Scans \ {s} : scan'[t] = scan[t]
      /\ UNCHANGED <<object, made, row, worker, op, calm, overlap>>
  BY ScanEnqueueSteps DEF Shape
<1>2. Unique' /\ Excluded' /\ \A i \in Ids : row[i] # Unborn => row'[i] # Unborn
  BY <1>1, RowsAlone, SteadyKeeps DEF Shape
<1>3. Born'
  BY <1>1, <1>2, BornKept DEF Shape
<1>4. \A k : Told(k) => Told(k)'
  BY <1>1 DEF Told, RowAt, Rows
<1>5. \A t \in calm' :
         \/ scan'[t].step = "idle"
         \/ /\ scan[t].step # "idle" /\ scan'[t].present = scan[t].present
            /\ scan'[t].seen = scan[t].seen
  BY <1>1 DEF Shape, TypeOK
<1>6. Listing'
  BY <1>1, <1>4, <1>5, ListingKept DEF Shape
<1> QED BY <1>1, <1>2, <1>3, <1>6 DEF Shape

LEMMA ScanMarkShape ==
    ASSUME Shape, NEW s \in Scans, ScanMark(s)
    PROVE  Shape'
<1>1. /\ TypeOK' /\ scan'[s] = Resting /\ worker' = worker /\ op' = op /\ Rows' = Rows /\ calm' = {}
      /\ \A t \in Scans \ {s} : scan'[t] = scan[t]
      /\ \A i \in Rows : /\ row'[i].key = row[i].key /\ row'[i].excluded = row[i].excluded
                         /\ row'[i].deleted = (row[i].deleted \/ i \in Missing(scan[s].seen))
      /\ \A i \in Ids : row[i] # Unborn => row'[i] # Unborn
  BY ScanMarkSteps DEF Shape
<1>2. Unique'
  BY <1>1, KeysKept DEF Shape
<1>3. Excluded'
  BY <1>1 DEF Excluded, Shape
<1>4. scan'[s].step = "idle" /\ scan'[s].job = Idle
  BY <1>1, RestTyped DEF Shape
<1>5. Born'
  BY <1>1, <1>4, BornKept DEF Shape
<1> QED BY <1>1, <1>2, <1>3, <1>5, ListingVoid DEF Shape

LEMMA ScanFailShape ==
    ASSUME Shape, NEW s \in Scans, ScanFail(s)
    PROVE  Shape'
<1>1. /\ TypeOK' /\ scan'[s] = Resting
      /\ \A t \in Scans \ {s} : scan'[t] = scan[t]
      /\ UNCHANGED <<object, made, row, queue, worker, op, calm, orphan, overlap>>
  BY ScanFailSteps DEF Shape
<1>2. Unique' /\ Excluded' /\ \A i \in Ids : row[i] # Unborn => row'[i] # Unborn
  BY <1>1, RowsAlone, SteadyKeeps DEF Shape
<1>3. scan'[s].step = "idle" /\ scan'[s].job = Idle
  BY <1>1, RestTyped DEF Shape
<1>4. Born'
  BY <1>1, <1>2, <1>3, BornKept DEF Shape
<1>5. \A k : Told(k) => Told(k)'
  BY <1>1 DEF Told, RowAt, Rows
<1>6. \A t \in calm' : scan'[t].step = "idle" \/ scan'[t] = scan[t]
  BY <1>1, <1>3 DEF Shape, TypeOK
<1>7. Listing'
  BY <1>1, <1>5, <1>6, ListingKept DEF Shape
<1> QED BY <1>1, <1>2, <1>4, <1>7 DEF Shape

\* A step of the jobs: the scan and the operations are left alone.
LEMMA JobShape ==
    ASSUME Shape, NEW w \in Workers,
           (\E id \in Ids : JobStart(w, id)) \/ JobStep(w)
    PROVE  Shape'
<1>1. CASE /\ Steady /\ TypeOK' /\ UNCHANGED <<object, scan, op, calm>>
           /\ \A v \in Workers : worker'[v] # Idle =>
                 (worker[v] # Idle /\ worker'[v].id = worker[v].id) \/ worker'[v].id \in Rows
  <2>1. Unique' /\ Excluded' /\ \A i \in Ids : row[i] # Unborn => row'[i] # Unborn
    BY <1>1, SteadyKeeps DEF Shape
  <2>2. Born'
    BY <1>1, <2>1, BornKept DEF Shape, Born
  <2>3. Listing'
    BY <1>1, ListingAlone DEF Shape, Steady
  <2> QED BY <1>1, <2>1, <2>2, <2>3 DEF Shape
<1>2. CASE JobPages(w)
  <2>1. /\ TypeOK' /\ worker[w].id \in Rows
        /\ \E r \in Row : /\ row' = [row EXCEPT ![worker[w].id] = r]
                          /\ r.key = row[worker[w].id].key
                          /\ r.deleted = row[worker[w].id].deleted
                          /\ r.excluded = row[worker[w].id].excluded
        /\ \A v \in Workers \ {w} : worker'[v] = worker[v]
        /\ worker[w] # Idle /\ worker'[w].id = worker[w].id
        /\ UNCHANGED <<object, scan, op, calm>>
    BY <1>2, JobPagesSteps DEF Shape
  <2>2. PICK r \in Row : /\ row' = [row EXCEPT ![worker[w].id] = r]
                         /\ r.key = row[worker[w].id].key
                         /\ r.deleted = row[worker[w].id].deleted
                         /\ r.excluded = row[worker[w].id].excluded
    BY <2>1
  <2>3. r.excluded => r.deleted
    BY <2>1, <2>2 DEF Shape, Excluded
  <2>4. /\ Unique' /\ Excluded' /\ Rows' = Rows
        /\ \A i \in Ids : row[i] # Unborn => row'[i] # Unborn
        /\ row'[worker[w].id] = r /\ \A i \in Ids : i # worker[w].id => row'[i] = row[i]
    BY <2>1, <2>2, <2>3, WrittenKeeps DEF Shape
  <2>5. Born'
    BY <2>1, <2>4, BornKept DEF Shape, Born
  <2>6. \A i \in Rows : /\ row'[i].key = row[i].key /\ row'[i].deleted = row[i].deleted
                        /\ row'[i].excluded = row[i].excluded
    BY <2>2, <2>4, RowsTyped DEF Shape
  <2>7. Listing'
    BY <2>1, <2>4, <2>6, ListingAlone DEF Shape
  <2> QED BY <2>1, <2>4, <2>5, <2>7 DEF Shape
<1>3. CASE \E id \in Ids : JobStart(w, id)
  <2>1. PICK id \in Ids : JobStart(w, id)
    BY <1>3
  <2> QED BY <1>1, <2>1, JobStartSteps DEF Shape
<1>4. CASE JobRead(w)
  BY <1>1, <1>4, JobReadSteps DEF Shape
<1>5. CASE JobFinish(w) \/ JobFail(w)
  BY <1>1, <1>5, JobEndSteps DEF Shape
<1> QED BY <1>2, <1>3, <1>4, <1>5 DEF JobStep

\* An operation begins or goes on; its row is written at another step.
LEMMA BeginShape ==
    ASSUME Shape, NEW u \in Users,
           \/ \E k \in Keys : UploadCheck(u, k)
           \/ UploadWrite(u)
           \/ \E id \in Ids : DeleteObject(u, id)
           \/ \E id \in Ids, k \in Keys : MoveObject(u, id, k)
    PROVE  Shape'
<1>1. ASSUME TypeOK', Steady, calm' = {}, worker' = worker, scan' = scan,
             NEW kind \in {"write", "record", "enqueue", "purge", "rename"},
             NEW k \in Keys, NEW id \in Ids \cup {Idle}, Then(u, kind, k, id),
             kind \in {"write", "record"} \/ id \in Rows
      PROVE  Shape'
  <2>1. Unique' /\ Excluded' /\ \A i \in Ids : row[i] # Unborn => row'[i] # Unborn
    BY <1>1, SteadyKeeps DEF Shape
  <2>2. \A v \in Users : \/ op'[v] = op[v] \/ op'[v] = Idle
                         \/ op'[v].kind \in {"write", "record"}
                         \/ op'[v].kind = "enqueue" /\ op'[v].id \in Ids
                         \/ op'[v].id \in Rows
    BY <1>1, ThenBorn DEF Shape
  <2>3. Born'
    BY <1>1, <2>1, <2>2, BornKept DEF Shape, Born
  <2> QED BY <1>1, <2>1, <2>3, ListingVoid DEF Shape
<1>2. ASSUME NEW k \in Keys, UploadCheck(u, k)
      PROVE  Shape'
  BY <1>1, <1>2, UploadCheckSteps DEF Shape
<1>3. CASE UploadWrite(u)
  BY <1>1, <1>3, UploadWriteSteps DEF Shape
<1>4. ASSUME NEW id \in Ids, DeleteObject(u, id)
      PROVE  Shape'
  BY <1>1, <1>4, DeleteObjectSteps DEF Shape
<1>5. ASSUME NEW id \in Ids, NEW k \in Keys, MoveObject(u, id, k)
      PROVE  Shape'
  BY <1>1, <1>5, MoveObjectSteps DEF Shape
<1> QED BY <1>2, <1>3, <1>4, <1>5

LEMMA UploadRecordShape ==
    ASSUME Shape, NEW u \in Users, UploadRecord(u)
    PROVE  Shape'
<1>1. /\ TypeOK' /\ Doing(u, "record") /\ op[u].key \in Keys /\ calm' = {}
      /\ worker' = worker /\ scan' = scan
  BY UploadRecordSteps DEF Shape
<1>2. CASE row' = row /\ Done(u)
  <2>1. Unique' /\ Excluded' /\ \A i \in Ids : row[i] # Unborn => row'[i] # Unborn
    BY <1>2, RowsAlone, SteadyKeeps DEF Shape
  <2>2. \A v \in Users : op'[v] = op[v] \/ op'[v] = Idle
    BY <1>2, DoneTyped DEF Shape
  <2>3. Born'
    BY <1>1, <2>1, <2>2, BornKept DEF Shape, Born
  <2> QED BY <1>1, <2>1, <2>3, ListingVoid DEF Shape
<1>3. ASSUME NEW id \in Ids, NEW r \in Row, Found(id, r, op[u].key, object[op[u].key]),
             Then(u, "enqueue", op[u].key, id)
      PROVE  Shape'
  <2>1. Unique' /\ Excluded' /\ \A i \in Ids : row[i] # Unborn => row'[i] # Unborn
    BY <1>1, <1>3, FoundKeeps DEF Shape, TypeOK
  <2>2. \A v \in Users : \/ op'[v] = op[v] \/ op'[v] = Idle
                         \/ op'[v].kind \in {"write", "record"}
                         \/ op'[v].kind = "enqueue" /\ op'[v].id \in Ids
                         \/ op'[v].id \in Rows
    BY <1>1, <1>3, ThenBorn DEF Shape
  <2>3. Born'
    BY <1>1, <2>1, <2>2, BornKept DEF Shape, Born
  <2> QED BY <1>1, <2>1, <2>3, ListingVoid DEF Shape
<1> QED BY <1>2, <1>3, UploadRecordSteps DEF Shape

LEMMA UploadEnqueueShape ==
    ASSUME Shape, NEW u \in Users, UploadEnqueue(u)
    PROVE  Shape'
<1>1. /\ TypeOK' /\ Steady /\ Doing(u, "enqueue") /\ Done(u)
      /\ worker' = worker /\ scan' = scan /\ calm' = calm
  BY UploadEnqueueSteps DEF Shape
<1>2. Unique' /\ Excluded' /\ \A i \in Ids : row[i] # Unborn => row'[i] # Unborn
  BY <1>1, SteadyKeeps DEF Shape
<1>3. \A v \in Users : op'[v] = op[v] \/ op'[v] = Idle
  BY <1>1, DoneTyped DEF Shape
<1>4. Born'
  BY <1>1, <1>2, <1>3, BornKept DEF Shape, Born
<1>5. op # [v \in Users |-> Idle]
  BY <1>1 DEF Doing
<1>6. \A s \in calm' : scan'[s].step = "idle"
  BY <1>1, <1>5 DEF Shape, Listing
<1>7. Listing'
  BY <1>6 DEF Listing
<1> QED BY <1>1, <1>2, <1>4, <1>7 DEF Shape

LEMMA ExcludeShape ==
    ASSUME Shape, NEW u \in Users, NEW id \in Ids, Exclude(u, id)
    PROVE  Shape'
<1>1. /\ TypeOK' /\ id \in Rows /\ calm' = {}
      /\ worker' = worker /\ scan' = scan /\ op' = op
      /\ \E r \in Row : row' = [row EXCEPT ![id] = r] /\ r.key = row[id].key /\ r.deleted
  BY ExcludeSteps DEF Shape
<1>2. PICK r \in Row : row' = [row EXCEPT ![id] = r] /\ r.key = row[id].key /\ r.deleted
  BY <1>1
<1>3. Unique' /\ Excluded' /\ \A i \in Ids : row[i] # Unborn => row'[i] # Unborn
  BY <1>1, <1>2, WrittenKeeps DEF Shape
<1>4. Born'
  BY <1>1, <1>3, BornKept DEF Shape, Born
<1> QED BY <1>1, <1>3, <1>4, ListingVoid DEF Shape

LEMMA PurgeRowShape ==
    ASSUME Shape, NEW u \in Users, PurgeRow(u)
    PROVE  Shape'
<1>1. /\ TypeOK' /\ Doing(u, "purge") /\ Done(u) /\ calm' = {} /\ op[u].id \in Ids
      /\ row' = [row EXCEPT ![op[u].id] = Purged] \/ row' = row
      /\ worker' = worker /\ scan' = scan
  BY PurgeRowSteps DEF Shape
<1>2. Unique' /\ Excluded' /\ \A i \in Ids : row[i] # Unborn => row'[i] # Unborn
  <2>1. CASE row' = row
    BY <2>1, RowsAlone, SteadyKeeps DEF Shape
  <2>2. CASE row' = [row EXCEPT ![op[u].id] = Purged]
    <3>1. \A i \in Ids : row'[i] = IF i = op[u].id THEN Purged ELSE row[i]
      BY <1>1, <2>2 DEF Shape, TypeOK
    <3>2. Rows' \subseteq Rows /\ \A i \in Rows' : row'[i] = row[i]
      BY <3>1 DEF Rows
    <3>3. \A i \in Ids : row[i] # Unborn => row'[i] # Unborn
      BY <3>1, NothingAssumption
    <3>4. Unique'
      BY <3>2, KeysKept DEF Shape
    <3> QED BY <3>2, <3>3, <3>4 DEF Shape, Excluded
  <2> QED BY <1>1, <2>1, <2>2
<1>3. \A v \in Users : op'[v] = op[v] \/ op'[v] = Idle
  BY <1>1, DoneTyped DEF Shape
<1>4. Born'
  BY <1>1, <1>2, <1>3, BornKept DEF Shape, Born
<1> QED BY <1>1, <1>2, <1>4, ListingVoid DEF Shape

\* A comic gets a key that no other has.
LEMMA MoveRowShape ==
    ASSUME Shape, NEW u \in Users, MoveRow(u)
    PROVE  Shape'
<1>1. /\ TypeOK' /\ Doing(u, "rename") /\ Done(u) /\ calm' = {} /\ op[u].id \in Ids
      /\ worker' = worker /\ scan' = scan
      /\ \/ /\ RowAt(op[u].key) = {} /\ op[u].id \in Rows
            /\ \E r \in Row : /\ row' = [row EXCEPT ![op[u].id] = r] /\ r.key = op[u].key
                              /\ r.deleted = row[op[u].id].deleted
                              /\ r.excluded = row[op[u].id].excluded
         \/ row' = row
  BY MoveRowSteps DEF Shape
<1>2. ASSUME RowAt(op[u].key) = {}, op[u].id \in Rows,
             NEW r \in Row, row' = [row EXCEPT ![op[u].id] = r], r.key = op[u].key,
             r.deleted = row[op[u].id].deleted, r.excluded = row[op[u].id].excluded
      PROVE  Unique' /\ Excluded' /\ \A i \in Ids : row[i] # Unborn => row'[i] # Unborn
  <2>1. /\ row'[op[u].id] = r /\ \A i \in Ids : i # op[u].id => row'[i] = row[i]
        /\ Rows' = Rows \cup {op[u].id} /\ Rows \subseteq Ids
    BY <1>1, <1>2, RowWritten, RowsTyped DEF Shape
  <2>2. Rows' = Rows
    BY <1>2, <2>1
  <2>3. \A i \in Rows : row[i].key # op[u].key
    BY <1>2 DEF RowAt
  <2>4. Unique'
    BY <1>2, <2>1, <2>2, <2>3 DEF Shape, Unique
  <2>5. Excluded'
    BY <1>2, <2>1, <2>2 DEF Shape, Excluded
  <2>6. \A i \in Ids : row[i] # Unborn => row'[i] # Unborn
    BY <2>1, Nothing
  <2> QED BY <2>4, <2>5, <2>6
<1>3. Unique' /\ Excluded' /\ \A i \in Ids : row[i] # Unborn => row'[i] # Unborn
  <2>1. CASE row' = row
    BY <2>1, RowsAlone, SteadyKeeps DEF Shape
  <2> QED BY <1>1, <1>2, <2>1
<1>4. \A v \in Users : op'[v] = op[v] \/ op'[v] = Idle
  BY <1>1, DoneTyped DEF Shape
<1>5. Born'
  BY <1>1, <1>3, <1>4, BornKept DEF Shape, Born
<1> QED BY <1>1, <1>3, <1>5, ListingVoid DEF Shape

LEMMA CrashShape ==
    ASSUME Shape, Crash
    PROVE  Shape'
<1>1. /\ TypeOK' /\ Steady /\ calm' = {}
      /\ \A s \in Scans : scan'[s] = Resting
      /\ \A w \in Workers : worker'[w] = Idle
      /\ \A u \in Users : op'[u] = Idle
  BY CrashSteps DEF Shape
<1>2. Unique' /\ Excluded' /\ \A i \in Ids : row[i] # Unborn => row'[i] # Unborn
  BY <1>1, SteadyKeeps DEF Shape
<1>3. Born'
  BY <1>1, <1>2, BornKept, RestTyped DEF Shape
<1> QED BY <1>1, <1>2, <1>3, ListingVoid DEF Shape

LEMMA ShapeStep ==
    ASSUME Shape, [Next]_vars
    PROVE  Shape'
<1>1. CASE vars' = vars
  <2>1. row' = row /\ scan' = scan /\ op' = op /\ worker' = worker /\ object' = object /\ calm' = calm
    BY <1>1 DEF vars
  <2>2. TypeOK'
    BY <1>1 DEF vars, Shape, TypeOK
  <2>3. Unique' /\ Excluded' /\ \A i \in Ids : row[i] # Unborn => row'[i] # Unborn
    BY <2>1, RowsAlone, SteadyKeeps DEF Shape
  <2>4. Born'
    BY <2>1, <2>2, <2>3, BornKept DEF Shape, Born
  <2>5. Listing'
    BY <2>1, RowsAlone, ListingAlone DEF Shape, Steady
  <2> QED BY <2>2, <2>3, <2>4, <2>5 DEF Shape
<1>2. CASE \E k \in Keys : FileWritten(k) \/ FileRemoved(k)
  BY <1>2, FileShape
<1>3. CASE \E s \in Scans : ScanStart(s) \/ ScanStep(s) \/ ScanFail(s)
  BY <1>3, ScanStartShape, ScanObjectShape, ScanEnqueueShape, ScanMarkShape, ScanFailShape DEF ScanStep
<1>4. CASE \E w \in Workers : (\E id \in Ids : JobStart(w, id)) \/ JobStep(w)
  BY <1>4, JobShape
<1>5. CASE \E u \in Users : \/ \E k \in Keys : UploadCheck(u, k)
                            \/ UploadWrite(u)
                            \/ \E id \in Ids : DeleteObject(u, id)
                            \/ \E id \in Ids, k \in Keys : MoveObject(u, id, k)
  BY <1>5, BeginShape
<1>6. CASE \E u \in Users : \/ UploadRecord(u) \/ UploadEnqueue(u) \/ PurgeRow(u) \/ MoveRow(u)
                            \/ \E id \in Ids : Exclude(u, id)
  BY <1>6, UploadRecordShape, UploadEnqueueShape, PurgeRowShape, MoveRowShape, ExcludeShape
<1>7. CASE Crash
  BY <1>7, CrashShape
<1> QED BY <1>1, <1>2, <1>3, <1>4, <1>5, <1>6, <1>7 DEF Next, UserStep

LEMMA ShapeHolds == Spec => []Shape
<1> QED BY ShapeInit, ShapeStep, PTL DEF Spec

-----------------------------------------------------------------------------
(* What the catalogue shows *)

\* What a user took out stays out: no scan, upload, move or job brings it
\* back, whatever they run in between.
THEOREM ExclusionTheorem == Spec => []ExclusionHolds
<1>1. Shape => ExclusionHolds
  BY DEF Shape, Excluded, ExclusionHolds, Visible
<1> QED BY <1>1, ShapeHolds, PTL

\* A scan that nothing disturbed leaves in the catalogue the objects that
\* there are, but the excluded ones.
THEOREM ScanTheorem == Spec => ScanTellsTruth
<1> DEFINE Present == {k \in Keys : object[k] # 0}
           Out == {row[id].key : id \in {i \in Rows : row[i].excluded}}
           Shown == {row'[id].key : id \in {i \in Rows : ~row'[i].deleted}}
<1>1. ASSUME Shape, NEW s \in calm, ScanMark(s), scan[s].present # {}
      PROVE  Shown = Present \ Out
  <2>1. /\ s \in Scans /\ scan[s].step = "list" /\ scan[s].seen \subseteq Keys
        /\ \A k \in scan[s].present : k \in scan[s].seen \/ object[k] = 0
    BY <1>1 DEF ScanMark, Shape, TypeOK, Scan
  <2>2. /\ scan[s].present = Present
        /\ \A k \in scan[s].seen : object[k] # 0 /\ Told(k)
    BY <1>1, <2>1 DEF Shape, Listing
  <2>3. scan[s].seen = Present /\ scan[s].seen # {}
    BY <1>1, <2>1, <2>2
  <2>4. /\ \A i \in Rows : /\ row'[i].key = row[i].key
                           /\ row'[i].deleted = (row[i].deleted \/ i \in Missing(scan[s].seen))
        /\ \A i \in Rows : row[i].key \in Keys /\ row[i].deleted \in BOOLEAN /\ row[i].excluded \in BOOLEAN
    BY <1>1, <2>1, ScanMarkSteps, RowsTyped DEF Shape
  <2>5. \A i \in Rows : i \in Missing(scan[s].seen) <=> (~row[i].deleted /\ row[i].key \notin Present)
    BY <2>3 DEF Missing, Visible
  <2>6. \A i \in Rows : ~row'[i].deleted <=> (~row[i].deleted /\ row[i].key \in Present)
    BY <2>4, <2>5
  <2>7. ASSUME NEW k \in Shown
        PROVE  k \in Present \ Out
    <3>1. PICK id \in Rows : ~row[id].deleted /\ row[id].key \in Present /\ k = row[id].key
      BY <2>4, <2>6
    <3>2. ASSUME NEW i \in Rows, row[i].excluded, row[i].key = k
          PROVE  FALSE
      BY <1>1, <3>1, <3>2 DEF Shape, Unique, Excluded
    <3> QED BY <3>1, <3>2
  <2>8. ASSUME NEW k \in Present \ Out
        PROVE  k \in Shown
    <3>1. PICK id \in RowAt(k) : row[id].deleted => row[id].excluded
      BY <2>2, <2>3 DEF Told
    <3>2. id \in Rows /\ row[id].key = k /\ ~row[id].deleted
      BY <3>1 DEF RowAt
    <3> QED BY <2>4, <2>6, <3>2
  <2> QED BY <2>7, <2>8
<1>2. Shape /\ [Next]_vars =>
        [\A s \in calm : ScanMark(s) /\ scan[s].present # {} => Shown = Present \ Out]_vars
  BY <1>1
<1> QED BY <1>2, ShapeHolds, PTL DEF Spec, ScanTellsTruth

-----------------------------------------------------------------------------
(* Moves: what a step keeps *)

\* Every row is one there was, at its key, or a new one.
RowsStay == \A i \in Rows' : (i \in Rows /\ row'[i].key = row[i].key) \/ row[i] = Unborn

\* A job that runs is one that ran, or has just read its key.
WorkGoesOn ==
    \A w \in Workers : worker'[w] # Idle =>
        \/ worker[w] # Idle /\ worker'[w].id = worker[w].id /\ worker'[w].key = worker[w].key
        \/ worker'[w].id \in Rows /\ worker'[w].key = row[worker'[w].id].key

NoMoveBegins == \A u \in Users : op'[u] = op[u] \/ ~Doing(u, "rename")'

NoRefill == \A k \in Keys : object[k] = 0 /\ object'[k] # 0 => ~Vacated(k)

LEMMA EmptiedKept ==
    ASSUME Shape, Emptied, TypeOK', RowsStay, WorkGoesOn, NoMoveBegins, NoRefill
    PROVE  Emptied'
<1>1. ASSUME NEW w \in Workers, worker'[w] # Idle, worker'[w].id \in Rows'
      PROVE  worker'[w].key = row'[worker'[w].id].key \/ object'[worker'[w].key] = 0
  <2>1. CASE worker[w] # Idle /\ worker'[w].id = worker[w].id /\ worker'[w].key = worker[w].key
    <3>1. row[worker[w].id] # Unborn /\ worker[w].key \in Keys /\ worker[w].id \in Ids
      BY <2>1, WorkerTyped DEF Shape, Born
    <3>2. worker[w].id \in Rows /\ row'[worker[w].id].key = row[worker[w].id].key
      BY <1>1, <2>1, <3>1 DEF RowsStay
    <3>3. CASE worker[w].key = row[worker[w].id].key
      BY <2>1, <3>2, <3>3
    <3>4. CASE worker[w].key # row[worker[w].id].key
      <4>1. object[worker[w].key] = 0
        BY <2>1, <3>2, <3>4 DEF Emptied
      <4>2. Vacated(worker[w].key)
        BY <2>1, <3>4 DEF Vacated, RowAt
      <4> QED BY <2>1, <3>1, <4>1, <4>2 DEF NoRefill
    <3> QED BY <3>3, <3>4
  <2>2. CASE worker'[w].id \in Rows /\ worker'[w].key = row[worker'[w].id].key
    <3>1. row[worker'[w].id] # Unborn
      BY <2>2 DEF Rows
    <3> QED BY <1>1, <2>2, <3>1 DEF RowsStay
  <2> QED BY <1>1, <2>1, <2>2 DEF WorkGoesOn
<1>2. ASSUME NEW u \in Users, Doing(u, "rename")'
      PROVE  op'[u] = op[u] /\ Doing(u, "rename")
  BY <1>2 DEF NoMoveBegins, Doing
<1>3. ASSUME NEW u \in Users, Doing(u, "rename")', op'[u].id \in Rows'
      PROVE  object'[row'[op'[u].id].key] = 0
  <2>1. op'[u] = op[u] /\ Doing(u, "rename") /\ row[op[u].id] # Unborn
    BY <1>2, <1>3 DEF Shape, Born
  <2>2. op[u].id \in Rows /\ row'[op[u].id].key = row[op[u].id].key
    BY <1>3, <2>1 DEF RowsStay
  <2>3. object[row[op[u].id].key] = 0 /\ row[op[u].id].key \in Keys
    BY <2>1, <2>2, RowsTyped DEF Emptied, Shape
  <2>4. Vacated(row[op[u].id].key)
    BY <2>1, <2>2 DEF Vacated, RowAt, Doing
  <2> QED BY <2>1, <2>2, <2>3, <2>4 DEF NoRefill
<1>4. ASSUME NEW u \in Users, NEW v \in Users, Doing(u, "rename")', Doing(v, "rename")', op'[u].id = op'[v].id
      PROVE  u = v
  BY <1>2, <1>4 DEF Emptied
<1> QED BY <1>1, <1>3, <1>4 DEF Emptied

LEMMA DatedKept ==
    ASSUME TypeOK, TypeOK', Dated, made' \in {made, made + 1},
           \A k \in Keys : object'[k] \in {0, made'} \/ \E j \in Keys : object'[k] = object[j],
           \A i \in Rows' : (i \in Rows /\ row'[i].etag = row[i].etag) \/ \E k \in Keys : row'[i].etag = object[k]
    PROVE  Dated'
<1>1. made \in Nat /\ made' \in Nat /\ made <= made'
  BY DEF TypeOK
<1>2. \A k \in Keys : object[k] \in Nat /\ object[k] <= made'
  BY <1>1 DEF TypeOK, Dated
<1>3. \A i \in Rows : row[i].etag \in Nat /\ row[i].etag <= made'
  BY <1>1, RowsTyped DEF Dated
<1>4. \A k \in Keys : object'[k] <= made'
  BY <1>1, <1>2
<1>5. \A i \in Rows' : row'[i].etag <= made'
  BY <1>2, <1>3
<1> QED BY <1>4, <1>5 DEF Dated

\* No job begins.
LEMMA SingleKept ==
    ASSUME Single, overlap' = overlap,
           \A w \in Workers : worker'[w] # Idle => worker[w] # Idle /\ worker'[w].id = worker[w].id
    PROVE  Single'
<1>1. ASSUME NEW id \in Ids \ overlap, NEW v \in Workers, NEW w \in Workers, At(v, id)', At(w, id)'
      PROVE  v = w
  <2>1. At(v, id) /\ At(w, id)
    BY <1>1 DEF At
  <2> QED BY <2>1 DEF Single
<1> QED BY <1>1 DEF Single

\* The jobs of a comic that matter to its pages.
SameWork(i) ==
    /\ Busy(i, "read")' = Busy(i, "read") /\ Busy(i, "pages")' = Busy(i, "pages")
    /\ \A w \in Busy(i, "pages") : worker'[w].got = worker[w].got

\* A step that neither helps nor harms a comic.
Undisturbed(i) ==
    /\ i \in Rows \ (orphan \cup overlap)
    /\ row'[i].etag = row[i].etag /\ row'[i].pages = row[i].pages
    /\ queue[i] > 0 => queue'[i] > 0
    /\ i \in Enqueuing => i \in Enqueuing' \/ queue'[i] > 0
    /\ SameWork(i)
    /\ \A k \in Homes(i)' : \/ object'[k] = 0 \/ object'[k] > row[i].etag
                            \/ \E j \in Homes(i) : object[j] = object'[k]

\* The object is not the one that the row describes.
Another(i) == \A k \in Homes(i) : object[k] # row[i].etag \/ object[k] = 0

LEMMA NoticedKept ==
    ASSUME TypeOK, Noticed,
           \A i \in Rows' \ (orphan' \cup overlap') : InOrder(i)' \/ Another(i)' \/ Undisturbed(i)
    PROVE  Noticed'
<1>1. ASSUME NEW i \in Rows' \ (orphan' \cup overlap'), NEW k \in Homes(i)',
             object'[k] = row'[i].etag, object'[k] # 0, Undisturbed(i)
      PROVE  InOrder(i)'
  <2>1. i \in Rows \ (orphan \cup overlap) /\ row'[i].etag = row[i].etag /\ row'[i].pages = row[i].pages
    BY <1>1 DEF Undisturbed
  <2>2. row[i].etag \in Nat /\ i \in Ids
    BY <2>1, RowsTyped
  <2>3. ~(object'[k] > row[i].etag)
    BY <1>1, <2>1, <2>2
  <2>4. PICK j \in Homes(i) : object[j] = object'[k]
    BY <1>1, <2>3 DEF Undisturbed
  <2>5. InOrder(i)
    BY <1>1, <2>1, <2>4 DEF Noticed
  <2>6. CASE Waiting(i)
    BY <1>1, <2>6 DEF Undisturbed, Waiting, InOrder
  <2>7. CASE Busy(i, "read") # {}
    BY <1>1, <2>7 DEF Undisturbed, SameWork, InOrder
  <2>8. CASE \E w \in Busy(i, "pages") : worker[w].got = row[i].etag
    <3>1. PICK w \in Busy(i, "pages") : worker[w].got = row[i].etag
      BY <2>8
    <3>2. w \in Busy(i, "pages")' /\ worker'[w].got = row'[i].etag
      BY <1>1, <2>1, <3>1 DEF Undisturbed, SameWork
    <3> QED BY <3>2 DEF InOrder
  <2>9. CASE row[i].pages = row[i].etag /\ Busy(i, "read") = {} /\ Busy(i, "pages") = {}
    <3>1. row'[i].pages = row'[i].etag /\ Busy(i, "read")' = {} /\ Busy(i, "pages")' = {}
      BY <1>1, <2>1, <2>9 DEF Undisturbed, SameWork
    <3> QED BY <3>1 DEF InOrder
  <2> QED BY <2>5, <2>6, <2>7, <2>8, <2>9 DEF InOrder
<1>2. ASSUME NEW i, NEW k \in Homes(i)', object'[k] = row'[i].etag, object'[k] # 0
      PROVE  ~Another(i)'
  BY <1>2 DEF Another
<1> QED BY <1>1, <1>2 DEF Noticed

LEMMA WorkAlone ==
    ASSUME worker' = worker, NEW i
    PROVE  SameWork(i)
BY DEF SameWork, Busy, At

LEMMA WorkElsewhere ==
    ASSUME NEW w \in Workers, \A v \in Workers \ {w} : worker'[v] = worker[v],
           NEW i, At(w, i) => worker[w].step = "finish", ~At(w, i)'
    PROVE  SameWork(i)
<1>1. \A v \in Workers : v # w => (At(v, i)' <=> At(v, i))
  BY DEF At
<1>2. w \notin Busy(i, "read") /\ w \notin Busy(i, "pages") /\ w \notin Busy(i, "read")' /\ w \notin Busy(i, "pages")'
  BY DEF Busy
<1>3. /\ \A v \in Workers \ {w} : v \in Busy(i, "read")' <=> v \in Busy(i, "read")
      /\ \A v \in Workers \ {w} : v \in Busy(i, "pages")' <=> v \in Busy(i, "pages")
  BY <1>1 DEF Busy
<1>4. /\ Busy(i, "read")' \subseteq Workers /\ Busy(i, "read") \subseteq Workers
      /\ Busy(i, "pages")' \subseteq Workers /\ Busy(i, "pages") \subseteq Workers
  BY DEF Busy
<1> QED BY <1>2, <1>3, <1>4 DEF SameWork

LEMMA HomesShrink ==
    ASSUME NoMoveBegins, NEW i, row'[i].key = row[i].key
    PROVE  Homes(i)' \subseteq Homes(i)
BY DEF NoMoveBegins, Homes, Doing

LEMMA EnqueuingKept ==
    ASSUME NEW i \in Enqueuing, \A s \in Scans : scan'[s].job = scan[s].job \/ scan[s].job # i,
           \A u \in Users : op'[u] = op[u] \/ ~(Doing(u, "enqueue") /\ op[u].id = i)
    PROVE  i \in Enqueuing'
BY DEF Enqueuing, Doing

LEMMA HomesStill ==
    ASSUME TypeOK, NoMoveBegins, object' = object, NEW i, row'[i].key = row[i].key
    PROVE  \A k \in Homes(i)' : \/ object'[k] = 0 \/ object'[k] > row[i].etag
                                \/ \E j \in Homes(i) : object[j] = object'[k]
BY HomesShrink

\* What is true of a comic at its own key, and where it is being moved.
LEMMA HomesTyped ==
    ASSUME TypeOK, NEW i \in Rows
    PROVE  Homes(i) \subseteq Keys
BY RowsTyped, DoingTyped DEF Homes, Doing

LEMMA SteadyRows ==
    ASSUME TypeOK, Steady
    PROVE  RowsStay /\ \A i \in Rows' : i \in Rows /\ row'[i].etag = row[i].etag
BY DEF RowsStay, Steady

\* A new content, or none, at one key.
LEMMA ContentMoves ==
    ASSUME Shape, TypeOK', Moves, Steady, NEW k \in Keys,
           \/ ~Vacated(k) /\ made' = made + 1 /\ object' = [object EXCEPT ![k] = made + 1]
           \/ made' = made /\ object' = [object EXCEPT ![k] = 0],
           UNCHANGED <<queue, worker, scan, orphan, overlap>>,
           NoMoveBegins, \A u \in Users : op'[u] = op[u] \/ ~Doing(u, "enqueue")
    PROVE  Moves'
<1>1. /\ made \in Nat /\ made' \in {made, made + 1}
      /\ \A j \in Keys : object[j] \in Nat /\ object'[j] \in Nat
      /\ \A j \in Keys : j # k => object'[j] = object[j]
      /\ object'[k] = 0 \/ (object'[k] = made' /\ made' = made + 1 /\ ~Vacated(k))
  BY DEF Shape, TypeOK
<1>2. NoRefill
  BY <1>1 DEF NoRefill
<1>3. RowsStay /\ \A i \in Rows' : i \in Rows /\ row'[i].etag = row[i].etag
  BY SteadyRows DEF Shape
<1>4. WorkGoesOn
  BY DEF WorkGoesOn
<1>5. Emptied'
  BY <1>2, <1>3, <1>4, EmptiedKept DEF Moves
<1>6. \A j \in Keys : object'[j] \in {0, made'} \/ \E h \in Keys : object'[j] = object[h]
  BY <1>1
<1>7. Dated'
  BY <1>1, <1>3, <1>6, DatedKept DEF Shape, Moves
<1>8. Single'
  BY SingleKept DEF Moves
<1>9. ASSUME NEW i \in Rows' \ (orphan' \cup overlap')
      PROVE  Undisturbed(i)
  <2>1. /\ i \in Rows \ (orphan \cup overlap) /\ row'[i].key = row[i].key
        /\ row'[i].etag = row[i].etag /\ row'[i].pages = row[i].pages
        /\ row[i].etag \in Nat /\ row[i].etag <= made
    BY <1>9, RowsTyped DEF Steady, Shape, Moves, Dated
  <2>2. i \in Enqueuing => i \in Enqueuing'
    BY EnqueuingKept
  <2>3. ASSUME NEW j \in Homes(i)'
        PROVE  \/ object'[j] = 0 \/ object'[j] > row[i].etag
               \/ \E h \in Homes(i) : object[h] = object'[j]
    <3>1. j \in Homes(i) /\ j \in Keys
      BY <2>1, <2>3, HomesShrink, HomesTyped DEF Shape
    <3>2. CASE j # k
      BY <1>1, <3>1, <3>2
    <3>3. CASE j = k
      BY <1>1, <2>1, <3>3
    <3> QED BY <3>2, <3>3
  <2> QED BY <2>1, <2>2, <2>3, WorkAlone DEF Undisturbed
<1>10. Noticed'
  BY <1>9, NoticedKept DEF Shape, Moves
<1> QED BY <1>5, <1>7, <1>8, <1>10 DEF Moves

LEMMA NoMoveThen ==
    ASSUME TypeOK, NEW u \in Users, NEW k \in Keys, NEW id \in Ids \cup {Idle},
           NEW kind \in {"write", "record", "enqueue", "purge"}, Then(u, kind, k, id)
    PROVE  NoMoveBegins
<1>1. op'[u].kind = kind /\ \A v \in Users : v # u => op'[v] = op[v]
  BY OpTyped
<1> QED BY <1>1 DEF NoMoveBegins, Doing

LEMMA NoMoveDone ==
    ASSUME TypeOK, NEW u \in Users, Done(u)
    PROVE  NoMoveBegins
BY DoneTyped DEF NoMoveBegins, Doing

LEMMA FileMoves ==
    ASSUME ~Reuse, Shape, TypeOK', Moves, NEW k \in Keys, FileWritten(k) \/ FileRemoved(k)
    PROVE  Moves'
<1>1. /\ row' = row /\ op' = op /\ UNCHANGED <<queue, worker, scan, orphan, overlap>>
      /\ \/ ~Vacated(k) /\ made' = made + 1 /\ object' = [object EXCEPT ![k] = made + 1]
         \/ made' = made /\ object' = [object EXCEPT ![k] = 0]
  BY DEF FileWritten, FileRemoved
<1>2. NoMoveBegins
  BY <1>1 DEF NoMoveBegins
<1> QED BY <1>1, <1>2, RowsAlone, ContentMoves DEF Shape

LEMMA UploadWriteMoves ==
    ASSUME ~Reuse, Shape, TypeOK', Moves, NEW u \in Users, UploadWrite(u)
    PROVE  Moves'
<1>1. /\ Steady /\ Doing(u, "write") /\ Then(u, "record", op[u].key, Idle) /\ op[u].key \in Keys
      /\ ~Vacated(op[u].key)
      /\ made' = made + 1 /\ object' = [object EXCEPT ![op[u].key] = made + 1]
      /\ UNCHANGED <<queue, worker, scan, orphan, overlap>>
  BY UploadWriteSteps DEF Shape
<1>2. NoMoveBegins
  BY <1>1, NoMoveThen DEF Shape
<1>3. \A v \in Users : op'[v] = op[v] \/ ~Doing(v, "enqueue")
  BY <1>1, OpTyped DEF Doing, Shape
<1> QED BY <1>1, <1>2, <1>3, ContentMoves

LEMMA DeleteObjectMoves ==
    ASSUME Shape, TypeOK', Moves, NEW u \in Users, NEW id \in Ids, DeleteObject(u, id)
    PROVE  Moves'
<1>1. /\ Steady /\ row[id].key \in Keys /\ op[u] = Idle /\ Then(u, "purge", row[id].key, id)
      /\ object' = [object EXCEPT ![row[id].key] = 0]
      /\ UNCHANGED <<made, queue, worker, scan, orphan, overlap>>
  BY DeleteObjectSteps DEF Shape
<1>2. NoMoveBegins
  BY <1>1, NoMoveThen DEF Shape
<1>3. \A v \in Users : op'[v] = op[v] \/ ~Doing(v, "enqueue")
  BY <1>1, OpTyped DEF Doing, Shape
<1> QED BY <1>1, <1>2, <1>3, ContentMoves

\* The objects and the jobs that run are left alone, and no move begins or
\* ends: what is left to show of a comic.
LEMMA RowsMove ==
    ASSUME Shape, TypeOK', Moves, UNCHANGED <<object, made, worker, overlap>>, NoMoveBegins,
           RowsStay,
           \A i \in Rows' : (i \in Rows /\ row'[i].etag = row[i].etag) \/ \E k \in Keys : row'[i].etag = object[k],
           \A i \in Rows' \ (orphan' \cup overlap) :
              \/ InOrder(i)'
              \/ /\ i \in Rows \ orphan
                 /\ row'[i].etag = row[i].etag /\ row'[i].pages = row[i].pages /\ row'[i].key = row[i].key
                 /\ queue[i] > 0 => queue'[i] > 0
                 /\ i \in Enqueuing => i \in Enqueuing' \/ queue'[i] > 0
    PROVE  Moves'
<1>1. NoRefill /\ WorkGoesOn
  BY DEF NoRefill, WorkGoesOn
<1>2. Emptied'
  BY <1>1, EmptiedKept DEF Moves
<1>3. Dated'
  BY DatedKept DEF Moves, Shape
<1>4. Single'
  BY SingleKept DEF Moves
<1>5. ASSUME NEW i \in Rows' \ (orphan' \cup overlap')
      PROVE  InOrder(i)' \/ Undisturbed(i)
  BY <1>5, HomesStill, WorkAlone DEF Undisturbed, Shape
<1>6. Noticed'
  BY <1>5, NoticedKept DEF Moves, Shape
<1> QED BY <1>2, <1>3, <1>4, <1>6 DEF Moves

-----------------------------------------------------------------------------
(* Moves is inductive, as long as no key is used again *)

\* The row of an object was written, and a job is inserted if it is pending.
LEMMA FoundMoves ==
    ASSUME Shape, TypeOK', Moves, NEW id \in Ids, NEW r \in Row, NEW k \in Keys, Found(id, r, k, object[k]),
           UNCHANGED <<object, made, queue, worker, orphan, overlap>>, NoMoveBegins,
           r.state = "pending" => id \in Enqueuing',
           \A i \in Enqueuing : i \in Enqueuing'
    PROVE  Moves'
<1>1. /\ row'[id] = r /\ Rows' = Rows \cup {id} /\ Rows \subseteq Ids
      /\ \A i \in Rows : i # id => row'[i] = row[i]
  BY FoundKeeps, RowsTyped DEF Shape, TypeOK
<1>2. r.etag = object[k] /\ (id \in Rows => row[id].key = r.key) /\ (id \in Rows \/ row[id] = Unborn)
  BY DEF Found
<1>3. RowsStay
  BY <1>1, <1>2 DEF RowsStay
<1>4. \A i \in Rows' : (i \in Rows /\ row'[i].etag = row[i].etag) \/ \E j \in Keys : row'[i].etag = object[j]
  BY <1>1, <1>2
<1>5. ASSUME NEW i \in Rows' \ (orphan' \cup overlap)
      PROVE  \/ InOrder(i)'
             \/ /\ i \in Rows \ orphan
                /\ row'[i].etag = row[i].etag /\ row'[i].pages = row[i].pages /\ row'[i].key = row[i].key
                /\ queue[i] > 0 => queue'[i] > 0
                /\ i \in Enqueuing => i \in Enqueuing' \/ queue'[i] > 0
  <2>1. CASE i # id
    BY <1>1, <1>5, <2>1
  <2>2. CASE i = id /\ r.state = "pending"
    BY <2>2 DEF InOrder, Waiting
  <2>3. CASE i = id /\ r.state # "pending"
    <3>1. id \in Rows /\ r.pages = row[id].pages /\ row[id].etag = object[k]
      BY <2>3 DEF Found
    <3> QED BY <1>1, <1>2, <1>5, <2>3, <3>1
  <2> QED BY <2>1, <2>2, <2>3
<1> QED BY <1>3, <1>4, <1>5, RowsMove

LEMMA ScanObjectMoves ==
    ASSUME Shape, TypeOK', Moves, NEW s \in Scans, NEW k \in Keys, ScanObject(s, k)
    PROVE  Moves'
<1>1. /\ scan[s].step = "list" /\ \A t \in Scans \ {s} : scan'[t] = scan[t]
      /\ UNCHANGED <<object, made, queue, worker, op, orphan, overlap>>
  BY ScanObjectSteps DEF Shape
<1>2. scan[s].job = Idle /\ NoMoveBegins
  BY <1>1 DEF Shape, Born, NoMoveBegins
<1>3. \A i \in Enqueuing : scan[s].job # i
  BY <1>2, NothingAssumption DEF Enqueuing
<1>4. \A i \in Enqueuing : i \in Enqueuing'
  BY <1>1, <1>3, EnqueuingKept
<1>5. CASE row' = row
  <2>1. RowsStay /\ \A i \in Rows' : i \in Rows /\ row'[i].etag = row[i].etag
    BY <1>5, RowsAlone, SteadyRows DEF Shape
  <2> QED BY <1>1, <1>2, <1>4, <1>5, <2>1, RowsMove
<1>6. ASSUME NEW id \in Ids, NEW r \in Row, Found(id, r, k, object[k]),
             \/ r.state = "pending" /\ scan'[s].step = "enqueue" /\ scan'[s].job = id
             \/ r.state # "pending" /\ scan'[s].step = "list" /\ scan'[s].job = Idle
      PROVE  Moves'
  <2>1. r.state = "pending" => id \in Enqueuing'
    BY <1>6 DEF Enqueuing
  <2> QED BY <1>1, <1>2, <1>4, <1>6, <2>1, FoundMoves
<1> QED BY <1>5, <1>6, ScanObjectSteps DEF Shape

LEMMA UploadRecordMoves ==
    ASSUME Shape, TypeOK', Moves, NEW u \in Users, UploadRecord(u)
    PROVE  Moves'
<1>1. /\ Doing(u, "record") /\ op[u].key \in Keys
      /\ UNCHANGED <<object, made, queue, worker, scan, orphan, overlap>>
  BY UploadRecordSteps DEF Shape
<1>2. CASE row' = row /\ Done(u)
  <2>1. RowsStay /\ \A i \in Rows' : i \in Rows /\ row'[i].etag = row[i].etag
    BY <1>2, RowsAlone, SteadyRows DEF Shape
  <2>2. \A v \in Users : op'[v] = op[v] \/ ~Doing(v, "enqueue")
    BY <1>1, <1>2, DoneTyped DEF Doing, Shape
  <2>3. \A i \in Enqueuing : i \in Enqueuing'
    BY <1>1, <2>2, EnqueuingKept
  <2>4. NoMoveBegins
    BY <1>2, NoMoveDone DEF Shape
  <2> QED BY <1>1, <1>2, <2>1, <2>3, <2>4, RowsMove
<1>3. ASSUME NEW id \in Ids, NEW r \in Row, Found(id, r, op[u].key, object[op[u].key]),
             Then(u, "enqueue", op[u].key, id)
      PROVE  Moves'
  <2>1. op'[u] # Idle /\ op'[u].kind = "enqueue" /\ op'[u].id = id
    BY <1>1, <1>3, OpTyped DEF Shape
  <2>2. id \in Enqueuing'
    BY <2>1 DEF Enqueuing
  <2>3. \A v \in Users : op'[v] = op[v] \/ ~Doing(v, "enqueue")
    BY <1>1, <1>3, OpTyped DEF Doing, Shape
  <2>4. \A i \in Enqueuing : i \in Enqueuing'
    BY <1>1, <2>3, EnqueuingKept
  <2>5. NoMoveBegins
    BY <1>1, <1>3, NoMoveThen DEF Shape
  <2> QED BY <1>1, <1>3, <2>2, <2>4, <2>5, FoundMoves
<1> QED BY <1>2, <1>3, UploadRecordSteps DEF Shape

\* The scan begins or ends; an upload begins; a comic is taken out.
LEMMA AsideMoves ==
    ASSUME Shape, TypeOK', Moves, Rows' \subseteq Rows,
           \A i \in Rows' : /\ row'[i].key = row[i].key /\ row'[i].etag = row[i].etag
                            /\ row'[i].pages = row[i].pages,
           UNCHANGED <<object, made, queue, worker, orphan, overlap>>, NoMoveBegins,
           \A s \in Scans : scan'[s].job = scan[s].job, \A u \in Users : op'[u] = op[u] \/ ~Doing(u, "enqueue")
    PROVE  Moves'
<1>1. \A i \in Enqueuing : i \in Enqueuing'
  BY EnqueuingKept
<1>2. RowsStay
  BY DEF RowsStay
<1> QED BY <1>1, <1>2, RowsMove

LEMMA ScanMoves ==
    ASSUME Shape, TypeOK', Moves, NEW s \in Scans, ScanStart(s) \/ ScanMark(s) \/ ScanFail(s)
    PROVE  Moves'
<1>1. op' = op /\ UNCHANGED <<object, made, queue, worker, orphan, overlap>>
  BY DEF ScanStart, ScanMark, ScanFail
<1>2. scan[s].job = Idle
  BY DEF ScanStart, ScanMark, ScanFail, Shape, Born
<1>3. scan'[s].job = Idle /\ \A t \in Scans \ {s} : scan'[t] = scan[t]
  BY ScanStartSteps, ScanMarkSteps, ScanFailSteps, RestTyped DEF Shape
<1>4. /\ Rows' \subseteq Rows
      /\ \A i \in Rows' : /\ row'[i].key = row[i].key /\ row'[i].etag = row[i].etag
                          /\ row'[i].pages = row[i].pages
  <2>1. CASE ScanMark(s)
    BY <2>1, ScanMarkSteps DEF Shape
  <2>2. CASE row' = row
    BY <2>2 DEF Rows
  <2> QED BY <2>1, <2>2 DEF ScanStart, ScanFail
<1>5. NoMoveBegins
  BY <1>1 DEF NoMoveBegins
<1>6. \A t \in Scans : scan'[t].job = scan[t].job
  BY <1>2, <1>3
<1> QED BY <1>1, <1>4, <1>5, <1>6, AsideMoves

LEMMA UserMoves ==
    ASSUME Shape, TypeOK', Moves, NEW u \in Users,
           \/ \E k \in Keys : UploadCheck(u, k)
           \/ \E id \in Ids : Exclude(u, id)
           \/ PurgeRow(u)
    PROVE  Moves'
<1>1. ASSUME NEW k \in Keys, UploadCheck(u, k)
      PROVE  Moves'
  <2>1. /\ Then(u, "write", k, Idle) /\ op[u] = Idle
        /\ UNCHANGED <<object, made, row, queue, worker, scan, orphan, overlap>>
    BY <1>1, UploadCheckSteps DEF Shape, UploadCheck
  <2>2. NoMoveBegins /\ \A v \in Users : op'[v] = op[v] \/ ~Doing(v, "enqueue")
    BY <2>1, NoMoveThen, OpTyped DEF Doing, Shape
  <2>3. Rows' = Rows
    BY <2>1 DEF Rows
  <2> QED BY <2>1, <2>2, <2>3, AsideMoves
<1>2. ASSUME NEW id \in Ids, Exclude(u, id)
      PROVE  Moves'
  <2>1. /\ id \in Rows /\ UNCHANGED <<object, made, queue, worker, scan, op, orphan, overlap>>
        /\ \E r \in Row : /\ row' = [row EXCEPT ![id] = r]
                          /\ r.key = row[id].key /\ r.etag = row[id].etag /\ r.pages = row[id].pages
    BY <1>2, ExcludeSteps DEF Shape
  <2>2. PICK r \in Row : /\ row' = [row EXCEPT ![id] = r]
                         /\ r.key = row[id].key /\ r.etag = row[id].etag /\ r.pages = row[id].pages
    BY <2>1
  <2>3. /\ row'[id] = r /\ \A i \in Ids : i # id => row'[i] = row[i]
        /\ Rows' = Rows \cup {id} /\ Rows \subseteq Ids
    BY <2>2, RowWritten, RowsTyped DEF Shape
  <2>4. /\ Rows' \subseteq Rows
        /\ \A i \in Rows' : /\ row'[i].key = row[i].key /\ row'[i].etag = row[i].etag
                            /\ row'[i].pages = row[i].pages
    BY <2>1, <2>2, <2>3
  <2>5. NoMoveBegins
    BY <2>1 DEF NoMoveBegins
  <2> QED BY <2>1, <2>4, <2>5, AsideMoves
<1>3. CASE PurgeRow(u)
  <2>1. /\ Doing(u, "purge") /\ Done(u) /\ op[u].id \in Ids
        /\ row' = [row EXCEPT ![op[u].id] = Purged] \/ row' = row
        /\ UNCHANGED <<object, made, queue, worker, scan, orphan, overlap>>
    BY <1>3, PurgeRowSteps DEF Shape
  <2>2. Rows' \subseteq Rows /\ \A i \in Rows' : row'[i] = row[i]
    <3>1. CASE row' = row
      BY <3>1 DEF Rows
    <3>2. CASE row' = [row EXCEPT ![op[u].id] = Purged]
      <4>1. \A i \in Ids : row'[i] = IF i = op[u].id THEN Purged ELSE row[i]
        BY <2>1, <3>2 DEF Shape, TypeOK
      <4> QED BY <4>1 DEF Rows
    <3> QED BY <2>1, <3>1, <3>2
  <2>3. NoMoveBegins /\ \A v \in Users : op'[v] = op[v] \/ ~Doing(v, "enqueue")
    BY <2>1, NoMoveDone, DoneTyped DEF Doing, Shape
  <2> QED BY <2>1, <2>2, <2>3, AsideMoves
<1> QED BY <1>1, <1>2, <1>3

\* The insertion of the job, or its loss.
LEMMA EnqueueMoves ==
    ASSUME Shape, TypeOK', Moves, NEW id \in Ids, Enqueue(id), row' = row,
           UNCHANGED <<object, made, worker, overlap>>, NoMoveBegins,
           \A i \in Enqueuing : i # id => i \in Enqueuing'
    PROVE  Moves'
<1>1. /\ \A i \in Ids : queue'[i] >= queue[i] /\ queue[i] \in Nat /\ queue'[i] \in Nat
      /\ queue'[id] > 0 \/ id \in orphan'
      /\ \A i \in Ids : i \notin orphan' => i \notin orphan \/ i = id
  BY EnqueueTyped DEF Shape, TypeOK
<1>2. RowsStay /\ \A i \in Rows' : i \in Rows /\ row'[i].etag = row[i].etag
  BY RowsAlone, SteadyRows DEF Shape
<1>3. ASSUME NEW i \in Rows' \ (orphan' \cup overlap)
      PROVE  \/ InOrder(i)'
             \/ /\ i \in Rows \ orphan
                /\ row'[i].etag = row[i].etag /\ row'[i].pages = row[i].pages /\ row'[i].key = row[i].key
                /\ queue[i] > 0 => queue'[i] > 0
                /\ i \in Enqueuing => i \in Enqueuing' \/ queue'[i] > 0
  <2>0. i \in Rows /\ i \in Ids
    BY <1>2, <1>3 DEF Rows
  <2>1. CASE i = id
    BY <1>1, <1>3, <2>1 DEF InOrder, Waiting
  <2>2. CASE i # id
    BY <1>1, <1>3, <2>0, <2>2
  <2> QED BY <2>1, <2>2
<1> QED BY <1>2, <1>3, RowsMove

LEMMA ScanEnqueueMoves ==
    ASSUME Shape, TypeOK', Moves, NEW s \in Scans, ScanEnqueue(s)
    PROVE  Moves'
<1>1. /\ scan[s].job \in Ids /\ Enqueue(scan[s].job) /\ \A t \in Scans \ {s} : scan'[t] = scan[t]
      /\ UNCHANGED <<object, made, row, worker, op, overlap>>
  BY ScanEnqueueSteps DEF Shape
<1>2. NoMoveBegins /\ \A i \in Enqueuing : i # scan[s].job => i \in Enqueuing'
  BY <1>1, EnqueuingKept DEF NoMoveBegins
<1> QED BY <1>1, <1>2, EnqueueMoves

LEMMA UploadEnqueueMoves ==
    ASSUME Shape, TypeOK', Moves, NEW u \in Users, UploadEnqueue(u)
    PROVE  Moves'
<1>1. /\ op[u].id \in Ids /\ Enqueue(op[u].id) /\ Done(u)
      /\ UNCHANGED <<object, made, row, worker, scan, overlap>>
  BY UploadEnqueueSteps DEF Shape
<1>2. \A i \in Enqueuing : i # op[u].id => i \in Enqueuing'
  BY <1>1, EnqueuingKept, DoneTyped DEF Doing, Shape
<1> QED BY <1>1, <1>2, NoMoveDone, EnqueueMoves DEF Shape

LEMMA ObjectsAloneDated ==
    ASSUME Shape, TypeOK', Moves, UNCHANGED <<object, made>>,
           \A i \in Rows' : i \in Rows /\ row'[i].etag = row[i].etag
    PROVE  Dated'
BY DatedKept DEF Moves, Shape

\* A job begins, and reads the key of its comic.
LEMMA JobStartMoves ==
    ASSUME Shape, TypeOK', Moves, NEW w \in Workers, NEW id \in Ids, JobStart(w, id)
    PROVE  Moves'
<1>1. /\ Steady /\ worker[w] = Idle
      /\ \A i \in Ids \ {id} : queue'[i] = queue[i]
      /\ \A v \in Workers \ {w} : worker'[v] = worker[v]
      /\ id \notin Rows => worker' = worker
      /\ id \in Rows => /\ worker'[w] # Idle /\ worker'[w].id = id
                        /\ worker'[w].key = row[id].key /\ worker'[w].step = "read"
      /\ overlap' = IF id \in Running THEN overlap \cup {id} ELSE overlap \ {id}
      /\ UNCHANGED <<object, made, scan, op, orphan>>
  BY JobStartSteps DEF Shape
<1>2. RowsStay /\ \A i \in Rows' : i \in Rows /\ row'[i].etag = row[i].etag
  BY <1>1, SteadyRows DEF Shape
<1>3. Dated'
  BY <1>1, <1>2, ObjectsAloneDated
<1>4. WorkGoesOn
  BY <1>1 DEF WorkGoesOn
<1>5. NoMoveBegins /\ NoRefill
  BY <1>1 DEF NoMoveBegins, NoRefill
<1>6. Emptied'
  BY <1>2, <1>4, <1>5, EmptiedKept DEF Moves
<1>7. /\ \A i \in Ids : i # id => (i \notin overlap' <=> i \notin overlap)
      /\ id \notin overlap' => \A v \in Workers : ~At(v, id)
  BY <1>1 DEF Running, At
<1>8. \A v \in Workers, i \in Ids : i # id => (At(v, i)' <=> At(v, i))
  BY <1>1 DEF At
<1>9. \A v \in Workers : id \notin overlap' /\ At(v, id)' => v = w
  BY <1>1, <1>7 DEF At
<1>10. Single'
  BY <1>7, <1>8, <1>9 DEF Moves, Single
<1>11. ASSUME NEW i \in Rows' \ (orphan' \cup overlap')
       PROVE  InOrder(i)' \/ Undisturbed(i)
  <2>1. /\ i \in Rows /\ i \in Ids /\ row'[i].key = row[i].key /\ row'[i].etag = row[i].etag
        /\ row'[i].pages = row[i].pages
    BY <1>1, <1>11, RowsTyped DEF Steady, Shape
  <2>2. CASE i = id
    <3>1. w \in Busy(i, "read")'
      BY <1>1, <2>1, <2>2 DEF Busy, At
    <3> QED BY <3>1 DEF InOrder
  <2>3. CASE i # id
    <3>1. SameWork(i)
      BY <1>1, <1>8, <2>1, <2>3, WorkElsewhere DEF At
    <3>2. i \notin orphan \cup overlap
      BY <1>1, <1>7, <1>11, <2>1, <2>3
    <3>3. Enqueuing' = Enqueuing
      BY <1>1 DEF Enqueuing
    <3>4. \A k \in Homes(i)' : \/ object'[k] = 0 \/ object'[k] > row[i].etag
                               \/ \E j \in Homes(i) : object[j] = object'[k]
      BY <1>1, <1>5, <2>1, HomesStill DEF Shape
    <3>5. queue'[i] = queue[i]
      BY <1>1, <2>1, <2>3
    <3> QED BY <2>1, <3>1, <3>2, <3>3, <3>4, <3>5 DEF Undisturbed
  <2> QED BY <2>2, <2>3
<1>12. Noticed'
  BY <1>11, NoticedKept DEF Moves, Shape
<1> QED BY <1>3, <1>6, <1>10, <1>12 DEF Moves

\* A step of a job: what it does to its own comic is left to show.
LEMMA OneJobMoves ==
    ASSUME Shape, TypeOK', Moves, NEW w \in Workers, worker[w] # Idle,
           \A v \in Workers \ {w} : worker'[v] = worker[v],
           worker'[w] = Idle \/ (worker'[w].id = worker[w].id /\ worker'[w].key = worker[w].key),
           Rows' = Rows,
           \A i \in Rows : row'[i].key = row[i].key /\ row'[i].etag = row[i].etag,
           \A i \in Rows : i # worker[w].id => row'[i].pages = row[i].pages,
           \A i \in Ids : queue'[i] >= queue[i],
           UNCHANGED <<object, made, scan, op, overlap>>, orphan \subseteq orphan',
           \A i \in Rows \ (orphan' \cup overlap) :
              i = worker[w].id => InOrder(i)' \/ Another(i)' \/ Undisturbed(i)
    PROVE  Moves'
<1>1. RowsStay /\ \A i \in Rows' : i \in Rows /\ row'[i].etag = row[i].etag
  BY DEF RowsStay
<1>2. Dated'
  BY <1>1, ObjectsAloneDated
<1>3. WorkGoesOn
  BY DEF WorkGoesOn
<1>4. NoMoveBegins /\ NoRefill
  BY DEF NoMoveBegins, NoRefill
<1>5. Emptied'
  BY <1>1, <1>3, <1>4, EmptiedKept DEF Moves
<1>6. Single'
  BY SingleKept DEF Moves
<1>7. ASSUME NEW i \in Rows' \ (orphan' \cup overlap')
      PROVE  InOrder(i)' \/ Another(i)' \/ Undisturbed(i)
  <2>1. CASE i # worker[w].id
    <3>1. i \in Rows \ (orphan \cup overlap) /\ i \in Ids
      BY <1>7, RowsTyped DEF Shape
    <3>2. SameWork(i)
      BY <2>1, WorkElsewhere DEF At
    <3>3. \A k \in Homes(i)' : \/ object'[k] = 0 \/ object'[k] > row[i].etag
                               \/ \E j \in Homes(i) : object[j] = object'[k]
      BY <1>4, <3>1, HomesStill DEF Shape
    <3>4. Enqueuing' = Enqueuing
      BY DEF Enqueuing
    <3>5. queue[i] > 0 => queue'[i] > 0
      BY <3>1 DEF Shape, TypeOK
    <3> QED BY <2>1, <3>1, <3>2, <3>3, <3>4, <3>5 DEF Undisturbed
  <2>2. CASE i = worker[w].id
    BY <1>7, <2>2
  <2> QED BY <2>1, <2>2
<1>8. Noticed'
  BY <1>7, NoticedKept DEF Moves, Shape
<1> QED BY <1>2, <1>5, <1>6, <1>8 DEF Moves

\* What is read is the object of the comic, if it is the one described.
LEMMA JobReadMoves ==
    ASSUME Shape, TypeOK', Moves, NEW w \in Workers, JobRead(w)
    PROVE  Moves'
<1>1. /\ worker[w] # Idle /\ object[worker[w].key] # 0
      /\ \A v \in Workers \ {w} : worker'[v] = worker[v]
      /\ worker'[w] # Idle /\ worker'[w].id = worker[w].id /\ worker'[w].key = worker[w].key
      /\ worker'[w].step = "pages" /\ worker'[w].got = object[worker[w].key]
      /\ UNCHANGED <<object, made, row, queue, scan, op, orphan, overlap>>
  BY JobReadSteps DEF Shape
<1>2. ASSUME NEW i \in Rows, i = worker[w].id
      PROVE  Homes(i)' = {worker[w].key}
  <2>1. worker[w].key = row[i].key
    BY <1>1, <1>2 DEF Moves, Emptied
  <2>2. \A u \in Users : ~(Doing(u, "rename") /\ op[u].id = i)
    BY <1>1, <1>2, <2>1 DEF Moves, Emptied
  <2>3. Homes(i) = {row[i].key}
    BY <2>2 DEF Homes
  <2>4. Homes(i)' = Homes(i)
    BY <1>1 DEF Homes, Doing
  <2> QED BY <2>1, <2>3, <2>4
<1>3. \A i \in Ids : queue'[i] >= queue[i]
  BY <1>1 DEF Shape, TypeOK
<1>4. Rows' = Rows
  BY <1>1 DEF Rows
<1>5. ASSUME NEW i \in Rows, i = worker[w].id
      PROVE  InOrder(i)' \/ Another(i)'
  <2>1. CASE object[worker[w].key] = row[i].etag
    <3>1. w \in Busy(i, "pages")' /\ worker'[w].got = row'[i].etag
      BY <1>1, <1>5, <2>1 DEF Busy, At
    <3> QED BY <3>1 DEF InOrder
  <2>2. CASE object[worker[w].key] # row[i].etag
    <3>1. Homes(i)' = {worker[w].key}
      BY <1>2, <1>5
    <3> QED BY <1>1, <2>2, <3>1 DEF Another
  <2> QED BY <2>1, <2>2
<1> QED BY <1>1, <1>3, <1>4, <1>5, OneJobMoves

\* The pages are those of what was read, and no other job is at it.
LEMMA JobPagesMoves ==
    ASSUME Shape, TypeOK', Moves, NEW w \in Workers, JobPages(w)
    PROVE  Moves'
<1>1. /\ worker[w] # Idle /\ worker[w].step = "pages" /\ worker[w].id \in Rows
      /\ \E r \in Row : /\ row' = [row EXCEPT ![worker[w].id] = r]
                        /\ r.key = row[worker[w].id].key /\ r.etag = row[worker[w].id].etag
                        /\ r.pages = worker[w].got
      /\ \A v \in Workers \ {w} : worker'[v] = worker[v]
      /\ worker'[w] # Idle /\ worker'[w].id = worker[w].id /\ worker'[w].key = worker[w].key
      /\ worker'[w].step = "finish"
      /\ UNCHANGED <<object, made, queue, scan, op, orphan, overlap>>
  BY JobPagesSteps DEF Shape
<1>2. PICK id \in Rows : id = worker[w].id
  BY <1>1
<1>3. PICK r \in Row : /\ row' = [row EXCEPT ![id] = r] /\ r.key = row[id].key
                      /\ r.etag = row[id].etag /\ r.pages = worker[w].got
  BY <1>1, <1>2
<1>4. /\ id \in Ids /\ row'[id] = r /\ \A i \in Ids : i # id => row'[i] = row[i]
      /\ Rows' = Rows \cup {id} /\ Rows \subseteq Ids
  BY <1>3, RowWritten, RowsTyped DEF Shape
<1>5. /\ Rows' = Rows
      /\ \A i \in Rows : row'[i].key = row[i].key /\ row'[i].etag = row[i].etag
      /\ \A i \in Rows : i # id => row'[i].pages = row[i].pages
  BY <1>3, <1>4
<1>6. \A i \in Ids : queue'[i] >= queue[i]
  BY <1>1 DEF Shape, TypeOK
<1>7. ASSUME id \notin orphan \cup overlap
      PROVE  InOrder(id)' \/ Another(id)'
  <2>1. /\ At(w, id) /\ At(w, id)' /\ \A v \in Workers : At(v, id) => v = w
        /\ w \in Busy(id, "pages")
    BY <1>1, <1>2, <1>4, <1>7 DEF At, Busy, Moves, Single
  <2>2. \A v \in Workers : At(v, id)' => v = w
    BY <1>1, <2>1 DEF At
  <2>3. Busy(id, "read") = {} /\ \A v \in Busy(id, "pages") : v = w
    BY <1>1, <2>1 DEF Busy
  <2>4. Busy(id, "read")' = {} /\ Busy(id, "pages")' = {}
    BY <1>1, <2>2 DEF Busy
  <2>5. Homes(id)' = Homes(id) /\ (Waiting(id)' <=> Waiting(id))
    BY <1>1, <1>5 DEF Homes, Doing, Waiting, Enqueuing
  <2>6. CASE InOrder(id)
    <3>1. CASE Waiting(id)
      BY <2>5, <3>1 DEF InOrder
    <3>2. CASE \E v \in Busy(id, "pages") : worker[v].got = row[id].etag
      <4>1. row'[id].pages = row'[id].etag
        BY <1>3, <1>4, <2>3, <3>2
      <4> QED BY <2>4, <4>1 DEF InOrder
    <3> QED BY <2>1, <2>3, <2>6, <3>1, <3>2 DEF InOrder
  <2>7. CASE ~InOrder(id)
    <3>1. \A k \in Homes(id) : object[k] # row[id].etag \/ object[k] = 0
      BY <1>7, <2>7 DEF Moves, Noticed
    <3> QED BY <1>1, <1>5, <2>5, <3>1 DEF Another
  <2> QED BY <2>6, <2>7
<1> QED BY <1>1, <1>2, <1>5, <1>6, <1>7, OneJobMoves

LEMMA JobEndMoves ==
    ASSUME Shape, TypeOK', Moves, NEW w \in Workers, JobFinish(w) \/ JobFail(w)
    PROVE  Moves'
<1>1. /\ Steady /\ worker[w] # Idle /\ worker[w].id \in Ids
      /\ \/ worker[w].step = "finish" /\ orphan' = orphan
         \/ queue'[worker[w].id] > 0 /\ orphan' = orphan
         \/ orphan' = orphan \cup {worker[w].id}
      /\ \A i \in Ids : queue'[i] >= queue[i]
      /\ worker'[w] = Idle /\ \A v \in Workers \ {w} : worker'[v] = worker[v]
      /\ UNCHANGED <<object, made, scan, op, overlap>>
  BY JobEndSteps DEF Shape
<1>2. orphan \subseteq orphan'
  BY <1>1
<1>3. /\ Rows' = Rows
      /\ \A i \in Rows : row'[i].key = row[i].key /\ row'[i].etag = row[i].etag /\ row'[i].pages = row[i].pages
  BY <1>1 DEF Steady
<1>4. ASSUME NEW i \in Rows \ (orphan' \cup overlap), i = worker[w].id
      PROVE  InOrder(i)' \/ Undisturbed(i)
  <2>1. i \in Rows \ (orphan \cup overlap) /\ i \in Ids
    BY <1>1, <1>2, <1>4
  <2>2. CASE queue'[i] > 0
    BY <2>2 DEF InOrder, Waiting
  <2>3. CASE worker[w].step = "finish"
    <3>1. ~At(w, i)'
      BY <1>1 DEF At
    <3>2. SameWork(i)
      BY <1>1, <2>3, <3>1, WorkElsewhere
    <3>3. \A k \in Homes(i)' : \/ object'[k] = 0 \/ object'[k] > row[i].etag
                               \/ \E j \in Homes(i) : object[j] = object'[k]
      BY <1>1, <1>3, <2>1, HomesStill DEF NoMoveBegins, Shape
    <3>4. Enqueuing' = Enqueuing
      BY <1>1 DEF Enqueuing
    <3>5. queue[i] > 0 => queue'[i] > 0
      BY <1>1, <2>1 DEF Shape, TypeOK
    <3> QED BY <1>3, <2>1, <3>2, <3>3, <3>4, <3>5 DEF Undisturbed
  <2> QED BY <1>1, <1>4, <2>2, <2>3
<1> QED BY <1>1, <1>2, <1>3, <1>4, OneJobMoves

\* The object of a comic is moved, to a key that nothing names.
LEMMA MoveObjectMoves ==
    ASSUME ~Reuse, Shape, TypeOK', Moves, NEW u \in Users, NEW id \in Ids, NEW k \in Keys, MoveObject(u, id, k)
    PROVE  Moves'
<1>1. /\ Steady /\ id \in Rows /\ op[u] = Idle /\ row[id].key \in Keys
      /\ object[row[id].key] # 0 /\ object[k] = 0
      /\ ~Vacated(k) /\ ~Claimed(k)
      /\ Then(u, "rename", k, id)
      /\ object'[row[id].key] = 0 /\ object'[k] = object[row[id].key]
      /\ \A j \in Keys : j # k /\ j # row[id].key => object'[j] = object[j]
      /\ UNCHANGED <<made, row, queue, worker, scan, orphan, overlap>>
  BY MoveObjectSteps DEF Shape
<1>2. PICK from \in Keys : from = row[id].key
  BY <1>1
<1>3. /\ op'[u].kind = "rename" /\ op'[u].key = k /\ op'[u].id = id /\ op'[u] # Idle
      /\ \A v \in Users : v # u => op'[v] = op[v]
  BY <1>1, OpTyped DEF Shape
<1>4. \A j \in Keys : j # k => object'[j] = object[j] \/ object'[j] = 0
  BY <1>1
<1>5. RowsStay /\ \A i \in Rows' : i \in Rows /\ row'[i].etag = row[i].etag
  BY <1>1, SteadyRows DEF Shape
<1>6. Dated'
  <2>1. \A j \in Keys : object'[j] \in {0, made'} \/ \E h \in Keys : object'[j] = object[h]
    BY <1>1, <1>4
  <2> QED BY <1>1, <1>5, <2>1, DatedKept DEF Moves, Shape
<1>7. \A i \in Rows : row[i].key # k
  BY <1>1 DEF Claimed, RowAt
<1>8. \A v \in Users : ~(Doing(v, "rename") /\ op[v].id = id)
  BY <1>1 DEF Moves, Emptied
<1>9. ASSUME NEW v \in Users, v # u
      PROVE  Doing(v, "rename")' <=> Doing(v, "rename")
  BY <1>3, <1>9 DEF Doing
<1>10. Emptied'
  <2>1. ASSUME NEW w \in Workers, worker[w] # Idle, worker[w].id \in Rows
        PROVE  worker[w].key = row[worker[w].id].key \/ object'[worker[w].key] = 0
    <3>1. worker[w].key \in Keys
      BY <2>1, WorkerTyped DEF Shape
    <3>2. CASE worker[w].key = k
      BY <1>1, <2>1, <3>2 DEF Vacated, RowAt
    <3>3. CASE worker[w].key # k
      BY <1>4, <2>1, <3>1, <3>3 DEF Moves, Emptied
    <3> QED BY <3>2, <3>3
  <2>2. ASSUME NEW v \in Users, Doing(v, "rename")', op'[v].id \in Rows
        PROVE  object'[row[op'[v].id].key] = 0
    <3>1. CASE v = u
      BY <1>1, <1>3, <3>1
    <3>2. CASE v # u
      <4>1. Doing(v, "rename") /\ op[v].id \in Rows /\ op'[v] = op[v]
        BY <1>3, <1>9, <2>2, <3>2
      <4>2. object[row[op[v].id].key] = 0 /\ row[op[v].id].key \in Keys /\ row[op[v].id].key # k
        BY <1>7, <4>1, RowsTyped DEF Moves, Emptied, Shape
      <4> QED BY <1>4, <4>1, <4>2
    <3> QED BY <3>1, <3>2
  <2>3. ASSUME NEW v \in Users, NEW x \in Users, Doing(v, "rename")', Doing(x, "rename")', op'[v].id = op'[x].id
        PROVE  v = x
    <3>1. CASE v # u /\ x # u
      BY <1>3, <1>9, <2>3, <3>1 DEF Moves, Emptied
    <3>2. CASE v = u /\ x # u
      BY <1>3, <1>8, <1>9, <2>3, <3>2
    <3>3. CASE x = u /\ v # u
      BY <1>3, <1>8, <1>9, <2>3, <3>3
    <3> QED BY <3>1, <3>2, <3>3
  <2>4. Rows' = Rows
    BY <1>1 DEF Rows
  <2> QED BY <1>1, <2>1, <2>2, <2>3, <2>4 DEF Emptied
<1>11. Single'
  BY <1>1, SingleKept DEF Moves
<1>12. ASSUME NEW i \in Rows' \ (orphan' \cup overlap')
       PROVE  Undisturbed(i)
  <2>1. /\ i \in Rows \ (orphan \cup overlap) /\ row'[i] = row[i] /\ queue'[i] = queue[i]
    BY <1>1, <1>5, <1>12
  <2>2. \A v \in Users : op'[v] = op[v] \/ ~(Doing(v, "enqueue") /\ op[v].id = i)
    BY <1>1, <1>3 DEF Doing
  <2>3. i \in Enqueuing => i \in Enqueuing'
    BY <1>1, <2>2, EnqueuingKept
  <2>4. ASSUME NEW h \in Homes(i)'
        PROVE  object'[h] = 0 \/ \E j \in Homes(i) : object[j] = object'[h]
    <3>1. CASE h = k
      <4>1. i = id
        <5>1. CASE h = row[i].key
          BY <1>7, <2>1, <3>1, <5>1
        <5>2. CASE \E v \in Users : Doing(v, "rename")' /\ op'[v].id = i /\ op'[v].key = h
          <6>1. PICK v \in Users : Doing(v, "rename")' /\ op'[v].id = i /\ op'[v].key = h
            BY <5>2
          <6>2. CASE v = u
            BY <1>3, <6>1, <6>2
          <6>3. CASE v # u
            BY <1>1, <1>3, <1>9, <3>1, <6>1, <6>3 DEF Claimed, Doing
          <6> QED BY <6>2, <6>3
        <5> QED BY <2>1, <2>4, <5>1, <5>2 DEF Homes
      <4>2. row[id].key \in Homes(i)
        BY <4>1 DEF Homes
      <4> QED BY <1>1, <3>1, <4>2
    <3>2. CASE h # k
      <4>1. h \in Homes(i)
        <5>1. CASE h = row[i].key
          BY <5>1 DEF Homes
        <5>2. CASE \E v \in Users : Doing(v, "rename")' /\ op'[v].id = i /\ op'[v].key = h
          <6>1. PICK v \in Users : Doing(v, "rename")' /\ op'[v].id = i /\ op'[v].key = h
            BY <5>2
          <6>2. v # u /\ Doing(v, "rename") /\ op[v].id = i /\ op[v].key = h
            BY <1>3, <1>9, <3>2, <6>1
          <6> QED BY <6>2 DEF Homes
        <5> QED BY <2>1, <2>4, <5>1, <5>2 DEF Homes
      <4>2. h \in Keys
        BY <2>1, <4>1, HomesTyped DEF Shape
      <4> QED BY <1>4, <3>2, <4>1, <4>2
    <3> QED BY <3>1, <3>2
  <2>5. SameWork(i)
    BY <1>1, WorkAlone
  <2> QED BY <2>1, <2>3, <2>4, <2>5 DEF Undisturbed
<1>13. Noticed'
  BY <1>12, NoticedKept DEF Moves, Shape
<1> QED BY <1>6, <1>10, <1>11, <1>13 DEF Moves

\* The row takes the key of its object, or keeps the one that is empty.
LEMMA MoveRowMoves ==
    ASSUME Shape, TypeOK', Moves, NEW u \in Users, MoveRow(u)
    PROVE  Moves'
<1>1. /\ Doing(u, "rename") /\ Done(u) /\ op[u].id \in Ids /\ op[u].key \in Keys
      /\ \/ /\ RowAt(op[u].key) = {} /\ op[u].id \in Rows
            /\ \E r \in Row : /\ row' = [row EXCEPT ![op[u].id] = r] /\ r.key = op[u].key
                              /\ r.etag = row[op[u].id].etag /\ r.pages = row[op[u].id].pages
         \/ row' = row
      /\ UNCHANGED <<object, made, queue, worker, scan, orphan, overlap>>
  BY MoveRowSteps DEF Shape
<1>2. PICK id \in Ids : id = op[u].id
  BY <1>1
<1>3. PICK to \in Keys : to = op[u].key
  BY <1>1
<1>4. op'[u] = Idle /\ \A v \in Users : v # u => op'[v] = op[v]
  BY <1>1, DoneTyped DEF Shape
<1>5. NoMoveBegins /\ \A v \in Users : op'[v] = op[v] \/ ~Doing(v, "enqueue")
  BY <1>1, <1>4, NoMoveDone DEF Shape, Doing
<1>6. CASE row' = row
  <2>1. Rows' = Rows
    BY <1>6 DEF Rows
  <2> QED BY <1>1, <1>5, <1>6, <2>1, AsideMoves
<1>7. ASSUME id \in Rows, NEW r \in Row, row' = [row EXCEPT ![id] = r], r.key = to,
             r.etag = row[id].etag, r.pages = row[id].pages
      PROVE  Moves'
  <2>1. /\ row'[id] = r /\ \A i \in Ids : i # id => row'[i] = row[i]
        /\ Rows' = Rows \cup {id} /\ Rows \subseteq Ids
    BY <1>7, RowWritten, RowsTyped DEF Shape
  <2>2. Rows' = Rows
    BY <1>7, <2>1
  <2>3. Dated'
    BY <1>1, <1>7, <2>1, <2>2, ObjectsAloneDated
  <2>4. object[row[id].key] = 0
    BY <1>1, <1>2, <1>7 DEF Moves, Emptied
  <2>5. ASSUME NEW v \in Users, Doing(v, "rename")'
        PROVE  op'[v] = op[v] /\ Doing(v, "rename") /\ op[v].id # id
    <3>1. v # u
      BY <1>4, <2>5 DEF Doing
    <3>2. op'[v] = op[v] /\ Doing(v, "rename")
      BY <1>4, <2>5, <3>1 DEF Doing
    <3> QED BY <1>1, <1>2, <3>1, <3>2 DEF Moves, Emptied
  <2>6. Emptied'
    <3>1. ASSUME NEW w \in Workers, worker[w] # Idle, worker[w].id \in Rows
          PROVE  worker[w].key = row'[worker[w].id].key \/ object[worker[w].key] = 0
      <4>1. CASE worker[w].id = id
        BY <2>4, <3>1, <4>1 DEF Moves, Emptied
      <4>2. CASE worker[w].id # id
        BY <2>1, <3>1, <4>2 DEF Moves, Emptied
      <4> QED BY <4>1, <4>2
    <3>2. ASSUME NEW v \in Users, Doing(v, "rename")', op'[v].id \in Rows
          PROVE  object[row'[op'[v].id].key] = 0
      BY <2>1, <2>5, <3>2 DEF Moves, Emptied
    <3>3. ASSUME NEW v \in Users, NEW x \in Users, Doing(v, "rename")', Doing(x, "rename")', op'[v].id = op'[x].id
          PROVE  v = x
      BY <2>5, <3>3 DEF Moves, Emptied
    <3> QED BY <1>1, <2>2, <3>1, <3>2, <3>3 DEF Emptied
  <2>7. Single'
    BY <1>1, SingleKept DEF Moves
  <2>8. ASSUME NEW i \in Rows' \ (orphan' \cup overlap')
        PROVE  Undisturbed(i)
    <3>1. /\ i \in Rows \ (orphan \cup overlap) /\ i \in Ids
          /\ row'[i].etag = row[i].etag /\ row'[i].pages = row[i].pages
      BY <1>1, <1>7, <2>1, <2>2, <2>8
    <3>2. i \in Enqueuing => i \in Enqueuing'
      BY <1>1, <1>5, EnqueuingKept
    <3>3. Homes(i)' \subseteq Homes(i)
      <4>1. CASE i # id
        <5>1. row'[i] = row[i]
          BY <2>1, <3>1, <4>1
        <5> QED BY <1>5, <5>1, HomesShrink
      <4>2. CASE i = id
        <5>1. Homes(i)' = {to}
          BY <1>7, <2>1, <2>5, <4>2 DEF Homes
        <5>2. to \in Homes(i)
          BY <1>1, <1>2, <1>3, <4>2 DEF Homes
        <5> QED BY <5>1, <5>2
      <4> QED BY <4>1, <4>2
    <3>4. SameWork(i)
      BY <1>1, WorkAlone
    <3> QED BY <1>1, <3>1, <3>2, <3>3, <3>4 DEF Undisturbed
  <2>9. Noticed'
    BY <2>8, NoticedKept DEF Moves, Shape
  <2> QED BY <2>3, <2>6, <2>7, <2>9 DEF Moves
<1> QED BY <1>1, <1>2, <1>3, <1>6, <1>7

\* What ran waits again, and what was to be inserted is lost.
LEMMA CrashMoves ==
    ASSUME Shape, TypeOK', Moves, Crash
    PROVE  Moves'
<1>1. /\ Steady
      /\ \A i \in Ids : queue'[i] >= queue[i]
      /\ \A i \in Ids : (\E w \in Workers : At(w, i)) => queue'[i] > 0
      /\ \A w \in Workers : worker'[w] = Idle
      /\ \A u \in Users : op'[u] = Idle
      /\ orphan' = orphan \cup Enqueuing
      /\ UNCHANGED <<object, made, row, overlap>>
  BY CrashSteps DEF Shape
<1>2. RowsStay /\ \A i \in Rows' : i \in Rows /\ row'[i].etag = row[i].etag
  BY <1>1, SteadyRows DEF Shape
<1>3. Dated'
  BY <1>1, <1>2, ObjectsAloneDated
<1>4. NoMoveBegins /\ NoRefill /\ WorkGoesOn
  BY <1>1 DEF NoMoveBegins, Doing, NoRefill, WorkGoesOn
<1>5. Emptied'
  BY <1>2, <1>4, EmptiedKept DEF Moves
<1>6. Single'
  BY <1>1, SingleKept DEF Moves
<1>7. ASSUME NEW i \in Rows' \ (orphan' \cup overlap')
      PROVE  InOrder(i)' \/ Undisturbed(i)
  <2>1. /\ i \in Rows \ (orphan \cup overlap) /\ i \in Ids /\ i \notin Enqueuing
        /\ row'[i] = row[i]
    BY <1>1, <1>2, <1>7, RowsTyped DEF Shape
  <2>2. CASE \E w \in Workers : At(w, i)
    BY <1>1, <2>1, <2>2 DEF InOrder, Waiting
  <2>3. CASE \A w \in Workers : ~At(w, i)
    <3>1. \A w \in Workers : ~At(w, i)'
      BY <1>1 DEF At
    <3>2. SameWork(i)
      BY <2>3, <3>1 DEF SameWork, Busy
    <3>3. \A k \in Homes(i)' : \/ object'[k] = 0 \/ object'[k] > row[i].etag
                               \/ \E j \in Homes(i) : object[j] = object'[k]
      BY <1>1, <1>4, <2>1, HomesStill DEF Shape
    <3>4. queue[i] > 0 => queue'[i] > 0
      BY <1>1, <2>1 DEF Shape, TypeOK
    <3> QED BY <2>1, <3>2, <3>3, <3>4 DEF Undisturbed
  <2> QED BY <2>2, <2>3
<1>8. Noticed'
  BY <1>7, NoticedKept DEF Moves, Shape
<1> QED BY <1>3, <1>5, <1>6, <1>8 DEF Moves

LEMMA MovesInit == Init => Moves
<1> SUFFICES ASSUME Init PROVE Moves
  OBVIOUS
<1>1. Shape
  BY ShapeInit
<1>2. Rows = {}
  BY <1>1, RowsTyped DEF Init, Rows, Shape
<1>3. Cardinality(Keys) \in Nat
  BY CatalogueAssumption, FS_CardinalityType
<1>4. \A k \in Keys : object[k] <= made
  BY <1>3, CatalogueAssumption DEF Init
<1>5. Dated
  BY <1>2, <1>4 DEF Dated
<1>6. Emptied /\ Single
  BY DEF Init, Emptied, Single, Doing, At
<1> QED BY <1>2, <1>5, <1>6 DEF Moves, Noticed

LEMMA MovesStep ==
    ASSUME ~Reuse, Shape, Moves, [Next]_vars
    PROVE  Moves'
<1>0. Shape' /\ TypeOK'
  BY ShapeStep DEF Shape
<1>1. CASE vars' = vars
  <2>1. /\ row' = row /\ op' = op /\ scan' = scan
        /\ UNCHANGED <<object, made, queue, worker, orphan, overlap>>
    BY <1>1 DEF vars
  <2>2. Rows' = Rows /\ NoMoveBegins
    BY <2>1 DEF Rows, NoMoveBegins
  <2> QED BY <1>0, <2>1, <2>2, AsideMoves
<1>2. CASE \E k \in Keys : FileWritten(k) \/ FileRemoved(k)
  BY <1>0, <1>2, FileMoves
<1>3. CASE \E s \in Scans : ScanStart(s) \/ ScanStep(s) \/ ScanFail(s)
  BY <1>0, <1>3, ScanMoves, ScanObjectMoves, ScanEnqueueMoves DEF ScanStep
<1>4. CASE \E w \in Workers : (\E id \in Ids : JobStart(w, id)) \/ JobStep(w)
  BY <1>0, <1>4, JobStartMoves, JobReadMoves, JobPagesMoves, JobEndMoves DEF JobStep
<1>5. CASE \E u \in Users : \/ \E k \in Keys : UploadCheck(u, k)
                            \/ \E id \in Ids : Exclude(u, id)
                            \/ PurgeRow(u)
  BY <1>0, <1>5, UserMoves
<1>6. CASE \E u \in Users : \/ UploadWrite(u) \/ UploadRecord(u) \/ UploadEnqueue(u) \/ MoveRow(u)
                            \/ \E id \in Ids : DeleteObject(u, id)
                            \/ \E id \in Ids, k \in Keys : MoveObject(u, id, k)
  BY <1>0, <1>6, UploadWriteMoves, UploadRecordMoves, UploadEnqueueMoves, MoveRowMoves,
     DeleteObjectMoves, MoveObjectMoves
<1>7. CASE Crash
  BY <1>0, <1>7, CrashMoves
<1> QED BY <1>1, <1>2, <1>3, <1>4, <1>5, <1>6, <1>7 DEF Next, UserStep

-----------------------------------------------------------------------------
\* A comic shown as ready whose pages are not those of its object is about
\* to be indexed again, or will be found changed by the next scan: with any
\* number of scans, jobs, uploads, moves, failures and crashes at once, as
\* long as a key that a comic or a job still names gets no other object.
THEOREM StaleTheorem ==
    ASSUME ~Reuse
    PROVE  Spec => []StaleIsNoticed
<1>1. Init => Shape /\ Moves
  BY ShapeInit, MovesInit
<1>2. Shape /\ Moves /\ [Next]_vars => (Shape /\ Moves)'
  BY ShapeStep, MovesStep
<1>3. ASSUME Shape, Moves, NEW id \in Rows \ (orphan \cup overlap),
             object[row[id].key] \notin {0, row[id].pages}, row[id].etag = object[row[id].key]
      PROVE  Coming(id)
  <2>1. InOrder(id)
    BY <1>3 DEF Moves, Noticed, Homes
  <2>2. CASE Waiting(id)
    BY <2>2 DEF Waiting, Coming
  <2>3. CASE Busy(id, "read") # {} \/ Busy(id, "pages") # {}
    <3>1. PICK w \in Workers : At(w, id)
      BY <2>3 DEF Busy
    <3>2. id \in Running
      BY <3>1 DEF At, Running
    <3> QED BY <3>2 DEF Coming
  <2> QED BY <1>3, <2>1, <2>2, <2>3 DEF InOrder
<1>4. Shape /\ Moves => StaleIsNoticed
  BY <1>3 DEF StaleIsNoticed
<1> QED BY <1>1, <1>2, <1>4, PTL DEF Spec
=============================================================================

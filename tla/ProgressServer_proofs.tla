----------------------- MODULE ProgressServer_proofs -----------------------
(***************************************************************************)
(* What holds of the server side of reading progress for every catalogue,  *)
(* every set of writes and every number of concurrent requests.            *)
(***************************************************************************)
EXTENDS ProgressServer, TLAPS

\* A record with well-typed fields is a row.
LEMMA RowIntro ==
    ASSUME NEW page \in Nat, NEW count \in Int, NEW status \in Status, NEW n \in Nat,
           NEW started \in BOOLEAN, NEW finished \in BOOLEAN
    PROVE  [page |-> page, pageCount |-> count, status |-> status, readCount |-> n,
            started |-> started, finished |-> finished] \in Row
BY DEF Row

\* The six SET clauses of the upsert yield a row.
LEMMA UpsertType ==
    ASSUME NEW r \in Row \cup {NoRow}, NEW w \in Write
    PROVE  Upsert(r, w) \in Row
<1>1. CASE r = NoRow
  BY <1>1 DEF Upsert, Inserted, Row, Write, Status
<1>2. CASE r # NoRow
  <2>1. r \in Row
    BY <1>2
  <2>2. /\ MergedPage(r, w) \in Nat
        /\ MergedStatus(r, w) \in Status
        /\ MergedFinished(r, w) \in BOOLEAN
    BY <2>1 DEF MergedPage, Furthest, MergedStatus, MergedFinished, Row, Write, Status
  <2>3. r.readCount + (IF CountedAgain(r, w) THEN 1 ELSE 0) \in Nat
    BY <2>1 DEF Row
  <2>4. (r.started \/ w.page > 0) \in BOOLEAN
    OBVIOUS
  <2>5. w.pageCount \in Int
    BY DEF Write
  <2>6. Merged(r, w) \in Row
    BY <2>2, <2>3, <2>4, <2>5 DEF Merged, Row
  <2> QED
    BY <1>2, <2>6 DEF Upsert
<1> QED
  BY <1>1, <1>2

\* Normalising any write a client sends gives one the repository accepts.
LEMMA NormaliseType ==
    ASSUME NEW u \in Update
    PROVE  Normalise(u) \in Write
<1>1. DeriveStatus(u.page, u.pageCount) \in Status
  BY DEF DeriveStatus, Status, Update
<1> QED
  BY <1>1 DEF Normalise, Write, Update, Status

\* A write applied twice in a row changes nothing the second time: what makes
\* it safe to send again a write whose answer was lost, as long as nothing
\* happened in between.
THEOREM UpsertIdempotent ==
    ASSUME NEW r \in Row \cup {NoRow}, NEW w \in Write
    PROVE  Upsert(Upsert(r, w), w) = Upsert(r, w)
<1> DEFINE s == Upsert(r, w)
<1>1. s \in Row
  BY UpsertType
<1>2. s # NoRow
  BY <1>1, NoRowAssumption
<1>3. s.page = w.page \/ (w.status # "unread" /\ s.page >= w.page /\ s.page \in Nat)
  BY DEF Upsert, Inserted, Merged, MergedPage, Furthest, Row, Write
<1>4. /\ w.status = "unread" => s.page = w.page
      /\ w.status = "unread" => s.status = "unread"
      /\ w.status = "read" => s.status = "read"
      /\ w.status = "in_progress" => s.status \in {"in_progress", "read"}
      /\ s.pageCount = w.pageCount
  BY DEF Upsert, Inserted, Merged, MergedPage, MergedStatus, Row, Write, Status
<1>5. /\ w.status = "read" => s.finished = TRUE
      /\ w.status = "unread" => s.finished = FALSE
      /\ w.page > 0 => s.started = TRUE
      /\ s.started \in BOOLEAN /\ s.finished \in BOOLEAN
  <2>1. CASE r = NoRow
    <3>1. s = Inserted(w)
      BY <2>1 DEF Upsert
    <3>2. w.page > 0 => Inserted(w).started = TRUE
      BY DEF Inserted
    <3>3. Inserted(w).started \in BOOLEAN
      BY DEF Inserted
    <3>4. Inserted(w).finished = (w.status = "read")
      BY DEF Inserted
    <3>5. /\ w.status = "read" => Inserted(w).finished = TRUE
          /\ w.status = "unread" => Inserted(w).finished = FALSE
          /\ Inserted(w).finished \in BOOLEAN
      BY <3>4
    <3> QED
      BY <3>1, <3>2, <3>3, <3>5
  <2>2. CASE r # NoRow
    BY <1>1, <2>2 DEF Upsert, Merged, MergedFinished, Row
  <2> QED
    BY <2>1, <2>2
<1>6. MergedPage(s, w) = s.page
  BY <1>1, <1>3, <1>4 DEF MergedPage, Furthest, Write, Row
<1>7. MergedStatus(s, w) = s.status
  BY <1>4 DEF MergedStatus, Write, Status
<1>8. ~CountedAgain(s, w)
  BY <1>4 DEF CountedAgain
<1>9. MergedFinished(s, w) = s.finished
  BY <1>5 DEF MergedFinished
<1>10. (s.started \/ w.page > 0) = s.started
  BY <1>5
<1>11. s.readCount + (IF CountedAgain(s, w) THEN 1 ELSE 0) = s.readCount
  BY <1>1, <1>8 DEF Row
<1>12. Merged(s, w) = [page |-> s.page, pageCount |-> s.pageCount, status |-> s.status,
                       readCount |-> s.readCount, started |-> s.started,
                       finished |-> s.finished]
  BY <1>4, <1>6, <1>7, <1>9, <1>10, <1>11 DEF Merged
<1>13. Merged(s, w) = s
  BY <1>1, <1>12 DEF Row
<1> QED
  BY <1>2, <1>13 DEF Upsert

-----------------------------------------------------------------------------
(***************************************************************************)
(* The inductive invariant, one comic at a time: what relates a row to the *)
(* writes applied to it.  A row that does not exist has no history: without*)
(* it the first write after a deletion would inherit an old one.           *)
(***************************************************************************)
Good(r, h, n) ==
    /\ r = NoRow => h = {}
    /\ r # NoRow =>
        /\ \E m \in h : m.page = r.page
        /\ \A m \in h : m.page <= r.page
        /\ r.status = "read" <=> \E m \in h : m.status = "read"
        /\ r.readCount <= n + (IF r.status = "read" THEN 1 ELSE 0)
        /\ r.finished <=> r.status = "read"
        /\ r.status = "read" => r.readCount >= 1

IInv ==
    /\ TypeOK
    /\ \A c \in Comics : Good(rows[c], since[c], resets[c])
    /\ PurgedStaysForgotten

\* The upsert keeps a row related to its history, reset or not.
LEMMA WriteKeepsGood ==
    ASSUME NEW r \in Row \cup {NoRow}, NEW h \in SUBSET Mark, NEW n \in Nat,
           NEW w \in Write, Good(r, h, n),
           NEW reset, reset = (r # NoRow /\ w.status = "unread")
    PROVE  Good(Upsert(r, w), (IF reset THEN {} ELSE h) \cup {MarkOf(w)},
                IF reset THEN n + 1 ELSE n)
<1> DEFINE s == Upsert(r, w)
<1>1. s \in Row /\ s # NoRow
  BY UpsertType, NoRowAssumption
<1>2. /\ MarkOf(w).page = w.page
      /\ MarkOf(w).status = w.status
      /\ w.page \in Nat
      /\ w.status \in Status
  BY DEF MarkOf, Write
<1>3. CASE r = NoRow
  <2>1. s = Inserted(w)
    BY <1>3 DEF Upsert
  <2>2. /\ s.page = w.page
        /\ s.status = w.status
        /\ s.readCount = (IF w.status = "read" THEN 1 ELSE 0)
    BY <2>1 DEF Inserted
  <2>3. s.finished = (w.status = "read")
    BY <2>1 DEF Inserted
  <2>4. h = {} /\ ~reset
    BY <1>3 DEF Good
  <2>5. (IF reset THEN {} ELSE h) \cup {MarkOf(w)} = {MarkOf(w)}
    BY <2>4
  <2>6. (IF reset THEN n + 1 ELSE n) = n
    BY <2>4
  <2>7. s.finished <=> s.status = "read"
    BY <2>2, <2>3
  <2>8. /\ s.readCount <= n + (IF s.status = "read" THEN 1 ELSE 0)
        /\ s.status = "read" => s.readCount >= 1
    BY <2>2
  <2>9. Good(s, {MarkOf(w)}, n)
    BY <1>1, <1>2, <2>2, <2>7, <2>8 DEF Good
  <2> QED
    BY <2>5, <2>6, <2>9
<1>4. CASE r # NoRow
  <2>1. s = Merged(r, w) /\ r \in Row
    BY <1>4 DEF Upsert
  <2>2. /\ s.page = MergedPage(r, w)
        /\ s.status = MergedStatus(r, w)
        /\ s.readCount = r.readCount + (IF CountedAgain(r, w) THEN 1 ELSE 0)
    BY <2>1 DEF Merged
  <2>3. s.finished = MergedFinished(r, w)
    BY <2>1 DEF Merged
  <2>4. /\ r.page \in Nat /\ r.readCount \in Nat
        /\ r.status \in Status
        /\ r.finished \in BOOLEAN
    BY <2>1 DEF Row
  <2>5. CASE w.status = "unread"
    <3>1. reset
      BY <1>4, <2>5
    <3>2. /\ s.page = w.page
          /\ s.status = "unread"
          /\ s.readCount = r.readCount
      <4>1. s.page = w.page /\ s.status = "unread"
        BY <2>2, <2>5 DEF MergedPage, MergedStatus
      <4>2. ~CountedAgain(r, w)
        BY <2>5 DEF CountedAgain
      <4> QED
        BY <2>2, <2>4, <4>1, <4>2
    <3>3. ~s.finished
      BY <2>3, <2>5 DEF MergedFinished
    <3>4. r.readCount <= n + 1
      BY <1>4, <2>4 DEF Good
    <3>5. Good(s, {MarkOf(w)}, n + 1)
      BY <1>1, <1>2, <2>5, <3>2, <3>3, <3>4 DEF Good
    <3> QED
      BY <3>1, <3>5
  <2>6. CASE w.status # "unread"
    <3>1. ~reset
      BY <2>6
    <3>2. s.page = IF w.page > r.page THEN w.page ELSE r.page
      BY <2>2, <2>6 DEF MergedPage, Furthest
    <3>3. s.status = "read" <=> (w.status = "read" \/ r.status = "read")
      BY <2>2, <2>6 DEF MergedStatus
    <3>4. s.finished <=> s.status = "read"
      BY <1>4, <2>3, <2>6, <3>3 DEF MergedFinished, Good
    <3>5. /\ s.readCount <= n + (IF s.status = "read" THEN 1 ELSE 0)
          /\ s.status = "read" => s.readCount >= 1
      BY <1>4, <2>2, <2>4, <3>3 DEF CountedAgain, Good
    <3> DEFINE h2 == h \cup {MarkOf(w)}
    <3>6. \E m \in h2 : m.page = s.page
      BY <1>2, <1>4, <3>2 DEF Good
    <3>7. \A m \in h2 : m.page <= s.page
      BY <1>2, <1>4, <2>4, <3>2 DEF Good, Mark
    <3>8. s.status = "read" <=> \E m \in h2 : m.status = "read"
      BY <1>2, <1>4, <3>3 DEF Good
    <3>9. Good(s, h2, n)
      BY <1>1, <3>4, <3>5, <3>6, <3>7, <3>8 DEF Good
    <3> QED
      BY <3>1, <3>9
  <2> QED
    BY <2>5, <2>6
<1> QED
  BY <1>3, <1>4

\* A bulk mark keeps the relation too, with a history that starts again.
LEMMA BulkKeepsGood ==
    ASSUME NEW r \in Row \cup {NoRow}, NEW h \in SUBSET Mark, NEW n \in Nat,
           NEW count \in Nat, Good(r, h, n)
    PROVE  /\ BulkRead(r, count) \in Row
           /\ [page |-> LastPage(count), status |-> "read"] \in Mark
           /\ Good(BulkRead(r, count), {[page |-> LastPage(count), status |-> "read"]}, n)
<1> DEFINE s == BulkRead(r, count)
           m == [page |-> LastPage(count), status |-> "read"]
<1>1. LastPage(count) \in Nat
  BY DEF LastPage
<1>2. /\ s.page = LastPage(count)
      /\ s.status = "read"
      /\ s.finished = TRUE
      /\ s.readCount = IF r = NoRow THEN 1
                       ELSE r.readCount + (IF r.status # "read" THEN 1 ELSE 0)
  BY DEF BulkRead
<1>3. s.readCount \in Nat /\ s.readCount >= 1 /\ s.readCount <= n + 1
  <2>1. CASE r = NoRow
    BY <1>2, <2>1
  <2>2. CASE r # NoRow
    <3>1. r.readCount \in Nat
      BY <2>2 DEF Row
    <3> QED
      BY <1>2, <2>2, <3>1 DEF Good
  <2> QED
    BY <2>1, <2>2
<1>4. (IF r = NoRow THEN TRUE ELSE r.started) \in BOOLEAN
  BY DEF Row
<1>5. s \in Row
  <2>1. s = [page |-> LastPage(count), pageCount |-> count, status |-> "read",
             readCount |-> s.readCount,
             started |-> IF r = NoRow THEN TRUE ELSE r.started, finished |-> TRUE]
    BY DEF BulkRead
  <2>2. "read" \in Status /\ TRUE \in BOOLEAN /\ count \in Int
    BY DEF Status
  <2> QED
    BY <1>1, <1>3, <1>4, <2>1, <2>2, RowIntro, Zenon
<1>6. m \in Mark
  BY <1>1 DEF Mark, Status
<1>7. Good(s, {m}, n)
  BY <1>1, <1>2, <1>3, <1>5, NoRowAssumption DEF Good
<1> QED
  BY <1>5, <1>6, <1>7

-----------------------------------------------------------------------------
\* One write on one comic, whichever handler makes it.
LEMMA RecordKeepsIInv ==
    ASSUME IInv, NEW u \in Updates, shelf[u.comic] # "purged", Record(u),
           shelf' = shelf, pageCount' = pageCount, conn' \in [Conns -> Conn]
    PROVE  IInv'
<1> DEFINE c == u.comic
           w == Normalise(u)
           reset == rows[c] # NoRow /\ w.status = "unread"
           h == (IF reset THEN {} ELSE since[c]) \cup {MarkOf(w)}
           n == IF reset THEN resets[c] + 1 ELSE resets[c]
<1>1. u \in Update /\ c \in Comics
  BY InputsAssumption DEF Update
<1>2. w \in Write
  BY <1>1, NormaliseType
<1>3. /\ rows \in [Comics -> Row \cup {NoRow}]
      /\ since \in [Comics -> SUBSET Mark]
      /\ resets \in [Comics -> Nat]
  BY DEF IInv, TypeOK
<1>4. /\ rows' = [rows EXCEPT ![c] = Upsert(rows[c], w)]
      /\ since' = [since EXCEPT ![c] = h]
      /\ resets' = [resets EXCEPT ![c] = n]
  BY DEF Record
<1>5. Upsert(rows[c], w) \in Row
  BY <1>1, <1>2, <1>3, UpsertType
<1>6. MarkOf(w) \in Mark
  BY <1>2 DEF MarkOf, Mark, Write
<1>7. h \in SUBSET Mark /\ n \in Nat
  BY <1>1, <1>3, <1>6
<1>8. TypeOK'
  BY <1>1, <1>3, <1>4, <1>5, <1>7 DEF IInv, TypeOK
<1>9. Good(Upsert(rows[c], w), h, n)
  <2>1. Good(rows[c], since[c], resets[c])
    BY <1>1 DEF IInv
  <2>2. rows[c] \in Row \cup {NoRow} /\ since[c] \in SUBSET Mark /\ resets[c] \in Nat
    BY <1>1, <1>3
  <2> QED
    BY <1>2, <2>1, <2>2, WriteKeepsGood
<1>10. ASSUME NEW d \in Comics
       PROVE  Good(rows'[d], since'[d], resets'[d])
  <2>1. CASE d = c
    <3>1. rows'[d] = Upsert(rows[c], w) /\ since'[d] = h /\ resets'[d] = n
      BY <1>1, <1>3, <1>4, <2>1
    <3> QED
      BY <1>9, <3>1
  <2>2. CASE d # c
    <3>1. rows'[d] = rows[d] /\ since'[d] = since[d] /\ resets'[d] = resets[d]
      BY <1>1, <1>3, <1>4, <2>2
    <3> QED
      BY <3>1 DEF IInv
  <2> QED
    BY <2>1, <2>2
<1>11. PurgedStaysForgotten'
  BY <1>1, <1>3, <1>4 DEF IInv, PurgedStaysForgotten
<1> QED
  BY <1>8, <1>10, <1>11 DEF IInv

\* Rows that disappear take their history with them.
LEMMA ForgetKeepsIInv ==
    ASSUME IInv, NEW gone \in SUBSET Comics, Forget(gone),
           shelf' \in [Comics -> {"listed", "hidden", "purged"}],
           \A c \in Comics : shelf'[c] = "purged" => c \in gone \/ shelf[c] = "purged",
           pageCount' = pageCount, conn' = conn
    PROVE  IInv'
<1>1. TypeOK'
  BY DEF Forget, IInv, TypeOK
<1>2. ASSUME NEW c \in Comics
      PROVE  Good(rows'[c], since'[c], resets'[c])
  <2>1. CASE c \in gone
    BY <2>1 DEF Forget, Good
  <2>2. CASE c \notin gone
    <3>1. rows'[c] = rows[c] /\ since'[c] = since[c] /\ resets'[c] = resets[c]
      BY <2>2 DEF Forget
    <3> QED
      BY <3>1 DEF IInv
  <2> QED
    BY <2>1, <2>2
<1>3. PurgedStaysForgotten'
  BY DEF Forget, IInv, PurgedStaysForgotten
<1> QED
  BY <1>1, <1>2, <1>3 DEF IInv

\* Lemma: marking comics as read, in bulk, keeps the invariant.
LEMMA BulkMarkReadKeepsIInv ==
    ASSUME IInv, NEW selection \in SUBSET Comics, BulkMarkRead(selection)
    PROVE  IInv'
<1> DEFINE m(c) == [page |-> LastPage(pageCount[c]), status |-> "read"]
           marked == Visible(selection)
<1>1. /\ rows \in [Comics -> Row \cup {NoRow}]
      /\ since \in [Comics -> SUBSET Mark]
      /\ resets \in [Comics -> Nat]
      /\ \A c \in Comics : pageCount[c] \in Nat
  BY InputsAssumption DEF IInv, TypeOK
<1>2. /\ rows' = [c \in Comics |-> IF c \in marked THEN BulkRead(rows[c], pageCount[c])
                                   ELSE rows[c]]
      /\ since' = [c \in Comics |-> IF c \in marked THEN {m(c)} ELSE since[c]]
      /\ UNCHANGED <<resets, shelf, pageCount, conn>>
  BY DEF BulkMarkRead
<1>3. ASSUME NEW c \in Comics
      PROVE  /\ BulkRead(rows[c], pageCount[c]) \in Row
             /\ m(c) \in Mark
             /\ Good(BulkRead(rows[c], pageCount[c]), {m(c)}, resets[c])
  <2>1. Good(rows[c], since[c], resets[c])
    BY DEF IInv
  <2>2. /\ rows[c] \in Row \cup {NoRow} /\ since[c] \in SUBSET Mark
        /\ resets[c] \in Nat /\ pageCount[c] \in Nat
    BY <1>1
  <2> QED
    BY <2>1, <2>2, BulkKeepsGood
<1>4. TypeOK'
  <2>1. rows' \in [Comics -> Row \cup {NoRow}]
    BY <1>1, <1>2, <1>3
  <2>2. since' \in [Comics -> SUBSET Mark]
    BY <1>1, <1>2, <1>3
  <2> QED
    BY <1>2, <2>1, <2>2 DEF IInv, TypeOK
<1>5. ASSUME NEW c \in Comics
      PROVE  Good(rows'[c], since'[c], resets'[c])
  <2>1. CASE c \in marked
    <3>1. rows'[c] = BulkRead(rows[c], pageCount[c]) /\ since'[c] = {m(c)}
      BY <1>2, <2>1
    <3> QED
      BY <1>2, <1>3, <3>1
  <2>2. CASE c \notin marked
    <3>1. rows'[c] = rows[c] /\ since'[c] = since[c]
      BY <1>2, <2>2
    <3> QED
      BY <1>2, <3>1 DEF IInv
  <2> QED
    BY <2>1, <2>2
<1>6. PurgedStaysForgotten'
  BY <1>2 DEF IInv, PurgedStaysForgotten, Visible
<1> QED
  BY <1>4, <1>5, <1>6 DEF IInv

-----------------------------------------------------------------------------
\* Lemma: the invariant holds of an empty table.
LEMMA InitIInv == Init => IInv
<1> SUFFICES ASSUME Init PROVE IInv
  OBVIOUS
<1>1. \A k \in Conns : conn[k] \in Conn
  BY DEF Init, Conn
<1>2. TypeOK
  BY <1>1 DEF Init, TypeOK
<1>3. \A c \in Comics : rows[c] = NoRow /\ since[c] = {}
  BY DEF Init
<1>4. \A c \in Comics : Good(rows[c], since[c], resets[c])
  BY <1>3 DEF Good
<1> QED
  BY <1>2, <1>3, <1>4 DEF IInv, PurgedStaysForgotten

\* A step that leaves the rows and their history alone.
LEMMA RowsUntouched ==
    ASSUME IInv, TypeOK', UNCHANGED progressVars,
           \A c \in Comics : shelf'[c] = "purged" => shelf[c] = "purged"
    PROVE  IInv'
BY DEF IInv, progressVars, PurgedStaysForgotten

\* Lemma: every step keeps the invariant.
LEMMA NextIInv == IInv /\ [Next]_vars => IInv'
<1> SUFFICES ASSUME IInv, [Next]_vars PROVE IInv'
  OBVIOUS
<1>1. TypeOK
  BY DEF IInv
<1>2. CASE Put
  <2>1. PICK u \in Updates : shelf[u.comic] = "listed" /\ Record(u)
    BY <1>2 DEF Put
  <2>2. shelf' = shelf /\ pageCount' = pageCount /\ conn' \in [Conns -> Conn]
    BY <1>1, <1>2 DEF Put, TypeOK
  <2> QED
    BY <2>1, <2>2, RecordKeepsIInv
<1>3. ASSUME NEW k \in Conns, PushBegin(k)
      PROVE  IInv'
  <2>1. PICK batch \in Batches :
          conn' = [conn EXCEPT ![k] = [todo |-> batch, sent |-> batch, done |-> 0]]
    BY <1>3 DEF PushBegin
  <2>2. [todo |-> batch, sent |-> batch, done |-> 0] \in Conn
    BY InputsAssumption DEF Conn
  <2>3. TypeOK'
    BY <1>1, <1>3, <2>1, <2>2 DEF PushBegin, TypeOK, progressVars
  <2> QED
    BY <1>3, <2>3, RowsUntouched DEF PushBegin
<1>4. ASSUME NEW k \in Conns, PushReplay(k)
      PROVE  IInv'
  <2>1. TypeOK'
    BY <1>1, <1>4 DEF PushReplay, TypeOK, progressVars, Conn
  <2> QED
    BY <1>4, <2>1, RowsUntouched DEF PushReplay
<1>5. ASSUME NEW k \in Conns, PushStep(k)
      PROVE  IInv'
  <2> DEFINE u == Head(conn[k].todo)
  <2>1. conn[k] \in Conn /\ conn[k].todo \in Seq(Updates) /\ conn[k].todo # <<>>
    BY <1>1, <1>5 DEF PushStep, TypeOK, Conn
  <2>2. u \in Updates /\ Tail(conn[k].todo) \in Seq(Updates)
    BY <2>1
  <2>3. shelf[u.comic] # "purged" /\ Record(u)
    BY <1>5 DEF PushStep, ForeignKey
  <2>4. Cursor(k) \in Int
    <3>1. Len(conn[k].sent) \in Nat /\ Len(conn[k].todo) \in Nat
      BY <2>1 DEF Conn
    <3> QED
      BY <3>1 DEF Cursor
  <2>5. (IF conn[k].done >= Cursor(k) THEN conn[k].done ELSE Cursor(k)) \in Nat
    BY <2>1, <2>4 DEF Conn
  <2>6. conn' \in [Conns -> Conn]
    BY <1>1, <1>5, <2>1, <2>2, <2>5 DEF PushStep, TypeOK, Conn
  <2>7. shelf' = shelf /\ pageCount' = pageCount
    BY <1>5 DEF PushStep
  <2> QED
    BY <2>2, <2>3, <2>6, <2>7, RecordKeepsIInv
<1>6. ASSUME NEW k \in Conns, PushAbort(k)
      PROVE  IInv'
  <2>1. [conn[k] EXCEPT !.todo = <<>>] \in Conn
    <3>1. conn[k] \in Conn
      BY <1>1 DEF TypeOK
    <3>2. <<>> \in Seq(Updates)
      OBVIOUS
    <3> QED
      BY <3>1, <3>2 DEF Conn
  <2>2. conn' = [conn EXCEPT ![k] = [conn[k] EXCEPT !.todo = <<>>]]
    BY <1>6 DEF PushAbort
  <2>3. TypeOK'
    BY <1>1, <1>6, <2>1, <2>2 DEF PushAbort, TypeOK, progressVars
  <2> QED
    BY <1>6, <2>3, RowsUntouched DEF PushAbort
<1>7. ASSUME NEW c \in Comics, Delete(c)
      PROVE  IInv'
  BY <1>1, <1>7, ForgetKeepsIInv DEF Delete, TypeOK
<1>8. ASSUME NEW c \in Comics, Hide(c) \/ Relist(c) \/ Reindex(c)
      PROVE  IInv'
  <2>1. TypeOK'
    BY <1>1, <1>8 DEF Hide, Relist, Reindex, TypeOK, progressVars
  <2>2. \A d \in Comics : shelf'[d] = "purged" => shelf[d] = "purged"
    BY <1>1, <1>8 DEF Hide, Relist, Reindex, TypeOK
  <2> QED
    BY <1>8, <2>1, <2>2, RowsUntouched DEF Hide, Relist, Reindex
<1>9. ASSUME NEW c \in Comics, Purge(c)
      PROVE  IInv'
  <2>1. shelf' = [shelf EXCEPT ![c] = "purged"] /\ Forget({c})
        /\ pageCount' = pageCount /\ conn' = conn
    BY <1>9 DEF Purge
  <2>2. /\ shelf' \in [Comics -> {"listed", "hidden", "purged"}]
        /\ \A d \in Comics : shelf'[d] = "purged" => d \in {c} \/ shelf[d] = "purged"
    BY <1>1, <2>1 DEF TypeOK
  <2> QED
    BY <2>1, <2>2, ForgetKeepsIInv
<1>10. ASSUME NEW selection \in SUBSET Comics, BulkMarkRead(selection)
       PROVE  IInv'
  BY <1>10, BulkMarkReadKeepsIInv
<1>11. ASSUME NEW selection \in SUBSET Comics, BulkMarkUnread(selection)
       PROVE  IInv'
  <2>1. Visible(selection) \in SUBSET Comics
    BY DEF Visible
  <2> QED
    BY <1>1, <1>11, <2>1, ForgetKeepsIInv DEF BulkMarkUnread, TypeOK
<1>12. CASE UNCHANGED vars
  BY <1>12 DEF vars, IInv, TypeOK, PurgedStaysForgotten
<1> QED
  BY <1>2, <1>3, <1>4, <1>5, <1>6, <1>7, <1>8, <1>9, <1>10, <1>11, <1>12 DEF Next

\* Lemma: the invariant holds always.
LEMMA SpecIInv == Spec => []IInv
BY InitIInv, NextIInv, PTL DEF Spec

\* Every variable keeps its type, the batches of the requests included.
THEOREM TypeCorrect == Spec => []TypeOK
<1>1. IInv => TypeOK
  BY DEF IInv
<1> QED
  BY <1>1, SpecIInv, PTL

\* The furthest page wins, for any catalogue, clients and interleaving.
THEOREM FurthestPageWins == Spec => []PositionIsFurthest
<1>1. IInv => PositionIsFurthest
  BY DEF IInv, Good, PositionIsFurthest
<1> QED
  BY <1>1, SpecIInv, PTL

\* A finished reading is counted once between two resets.
THEOREM ReadingsCountedOnce == Spec => []CountedOncePerReset
<1>1. IInv => CountedOncePerReset
  BY DEF IInv, Good, CountedOncePerReset
<1> QED
  BY <1>1, SpecIInv, PTL

\* finished_at follows the status on every write path.
THEOREM FinishedFollowsStatus == Spec => []FinishedIffRead
<1>1. IInv => FinishedIffRead
  BY DEF IInv, Good, FinishedIffRead
<1> QED
  BY <1>1, SpecIInv, PTL

\* No late batch gives a purged comic a progress again.
THEOREM PurgedForgotten == Spec => []PurgedStaysForgotten
<1>1. IInv => PurgedStaysForgotten
  BY DEF IInv
<1> QED
  BY <1>1, SpecIInv, PTL
=============================================================================

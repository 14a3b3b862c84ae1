-------------------------- MODULE PhoneSync_proofs --------------------------
(***************************************************************************)
(* PhoneSync, for any comics, phones, loads and calls side by side, pages  *)
(* and budget, and readers who stop on any page at any time.  Three        *)
(* invariants, each resting on the one before: where the positions come    *)
(* from; what a load has merged when it saves its cursor; and, of a comic  *)
(* whose position the server was never told to take back, how what a phone *)
(* keeps, what it has sent and what it is merging compare with the row of  *)
(* the server.                                                             *)
(***************************************************************************)
EXTENDS PhoneSync, WellFoundedInduction, TLAPS

USE PhoneSyncAssumption, AbsenceAssumption DEF PhoneSyncAssumption, AbsenceAssumption

PageOf(row) == IF row = NoRow THEN 0 ELSE row.page

-----------------------------------------------------------------------------
(* Where positions come from.  S: the pages readers stopped on. *)

CallKnown(q, S) ==
    /\ q \in Call
    /\ q.step = "answered" => q.todo = {}
    /\ \A c \in q.todo : q.pos[c] # NoRow
    /\ \A c \in Comics : q.pos[c] # NoRow => q.pos[c] \in S[c] \cup {0}

MergeKnown(m, S) ==
    /\ m \in Merge
    /\ m.remote \in S[m.comic] \cup {0}
    /\ m.seen # NoRow => m.seen \in S[m.comic] \cup {0}

SyncKnown(s, S) ==
    /\ s \in Sync
    /\ \A change \in s.batch : change.remote \in S[change.comic] \cup {0}
    /\ s.merge # NoRow => MergeKnown(s.merge, S) /\ s.merge.seen # NoRow

RowKnown(row, c, S) == PageOf(row) \in S[c] \cup {0}

ServerKnown ==
    /\ rows \in [Comics -> Row \cup {NoRow}]
    /\ at \in [Comics -> Nat] /\ clock \in Nat
    /\ \A c \in Comics : RowKnown(rows[c], c, stops)

LocalKnown ==
    /\ local \in [Phones -> [Comics -> LocalRow \cup {NoRow}]]
    /\ \A p \in Phones, c \in Comics : RowKnown(local[p][c], c, stops)

CallsKnown ==
    /\ call \in [Calls -> Call \cup {Free}]
    /\ \A k \in Calls : call[k] # Free => CallKnown(call[k], stops)

LoadsKnown ==
    /\ sync \in [Phones -> [Loads -> Sync]]
    /\ \A p \in Phones, l \in Loads : SyncKnown(sync[p][l], stops)

OpeningsKnown ==
    /\ opening \in [Phones -> Merge \cup {NoRow}]
    /\ \A p \in Phones : opening[p] # NoRow => MergeKnown(opening[p], stops)

RestTyped ==
    /\ cursor \in [Phones -> Nat]
    /\ merged \in [Phones -> [Comics -> Nat]]
    /\ left \in [Kinds -> Nat]
    /\ stops \in [Comics -> SUBSET Pages]

Known ==
    ServerKnown /\ LocalKnown /\ CallsKnown /\ LoadsKnown /\ OpeningsKnown /\ RestTyped

-----------------------------------------------------------------------------
(* What a load has merged. *)

\* The version v of c is merged by p, or is still in the hands of the load s.
Held(s, done, c, v) ==
    \/ done >= v
    \/ \E change \in s.batch : change.comic = c /\ change.version = v
    \/ s.merge # NoRow /\ s.merge.comic = c /\ s.merge.version = v

\* Instants do not run ahead of the clock.
Past ==
    /\ \A c \in Comics : at[c] <= clock
    /\ \A p \in Phones : cursor[p] <= clock

\* When a load saves its cursor, what was at hand is merged.
Merging(p, l) == sync[p][l].step = "merging" =>
    /\ sync[p][l].upto <= clock
    /\ \A c \in Comics : rows[c] # NoRow /\ at[c] <= sync[p][l].upto =>
          Held(sync[p][l], merged[p][c], c, at[c])

Loaded == Past /\ CursorSkipsNothing /\ \A p \in Phones, l \in Loads : Merging(p, l)

-----------------------------------------------------------------------------
(* How positions of a comic compare. *)

\* The phone's row is pending when it is ahead, unless its mark was dropped.
AtRow(p, c) == <<p, c>> \notin dropped /\ PageOf(local[p][c]) > PageOf(rows[c]) =>
    local[p][c] # NoRow /\ local[p][c].pending

\* What the server has applied is not ahead of it.
AtCall(k, c) == call[k] # Free /\ call[k].pos[c] # NoRow /\ c \notin call[k].todo =>
    call[k].pos[c] <= PageOf(rows[c])

\* Nor is what was read of it.
AtLoad(p, l, c) ==
    /\ \A change \in sync[p][l].batch : change.comic = c => change.remote <= PageOf(rows[c])
    /\ sync[p][l].merge # NoRow /\ sync[p][l].merge.comic = c =>
          sync[p][l].merge.remote <= PageOf(rows[c])

AtOpening(p, c) == opening[p] # NoRow /\ opening[p].comic = c =>
    opening[p].remote <= PageOf(rows[c])

Compared(c) ==
    /\ \A p \in Phones : AtRow(p, c)
    /\ \A k \in Calls : AtCall(k, c)
    /\ \A p \in Phones, l \in Loads : AtLoad(p, l, c)
    /\ \A p \in Phones : AtOpening(p, c)

Ordered == \A c \in Comics \ wiped : Compared(c)

\* What the two histories record.
Recorded == wiped \subseteq Comics /\ dropped \subseteq Phones \X Comics

-----------------------------------------------------------------------------
(* The rule, and the helpers of the actions *)

\* Lemma: a server that is told of a page keeps it, or what it had; when it
\* is not told "unread", the furthest of them.
LEMMA UpsertIs ==
    ASSUME NEW row \in Row \cup {NoRow}, NEW w \in Write
    PROVE  /\ Upsert(row, w) \in Row /\ Upsert(row, w) # NoRow
           /\ PageOf(Upsert(row, w)) \in {PageOf(row), w.page}
           /\ w.page <= PageOf(Upsert(row, w))
           /\ w.status # "unread" \/ PageOf(row) <= w.page => PageOf(row) <= PageOf(Upsert(row, w))
<1>1. CASE row = NoRow
    <2>1. Inserted(w) \in Row /\ Inserted(w).page = w.page
        BY DEF Inserted, Row, Write, Status
    <2>2. Inserted(w) # NoRow /\ w.page \in Nat
        BY <2>1, NoRowAssumption DEF Write
    <2> QED BY <1>1, <2>1, <2>2 DEF Upsert, PageOf
<1>2. CASE row # NoRow
    <2>1. row \in Row /\ row.page \in Nat /\ w.page \in Nat
        BY <1>2 DEF Row, Write
    <2>2. /\ MergedPage(row, w) \in Nat
          /\ MergedStatus(row, w) \in Status
          /\ MergedFinished(row, w) \in BOOLEAN
        BY <2>1 DEF MergedPage, Furthest, MergedStatus, MergedFinished, Row, Write, Status
    <2>3. row.readCount + (IF CountedAgain(row, w) THEN 1 ELSE 0) \in Nat
        BY <2>1 DEF Row
    <2>4. w.pageCount \in Int /\ (row.started \/ w.page > 0) \in BOOLEAN
        BY DEF Write
    <2>5. Merged(row, w) \in Row /\ Merged(row, w).page = MergedPage(row, w)
        BY <2>2, <2>3, <2>4 DEF Merged, Row
    <2>6. Merged(row, w) # NoRow
        BY <2>5, NoRowAssumption
    <2>7. /\ MergedPage(row, w) \in {row.page, w.page}
          /\ w.page <= MergedPage(row, w)
          /\ w.status # "unread" \/ row.page <= w.page => row.page <= MergedPage(row, w)
        BY <2>1 DEF MergedPage, Furthest
    <2> QED BY <1>2, <2>5, <2>6, <2>7 DEF Upsert, PageOf
<1> QED BY <1>1, <1>2

\* Lemma: a position has a status.
LEMMA StatusIs ==
    ASSUME NEW page \in Nat
    PROVE  /\ DeriveStatus(page, PageCount) \in Status
           /\ StatusFor(page, PageCount) \in Status
BY DEF DeriveStatus, StatusFor, Status

\* Lemma: what one write changes on the server.
LEMMA WriteIs ==
    ASSUME ServerKnown, NEW c \in Comics, NEW page \in Pages, NEW status \in Status,
           Write1(c, page, status)
    PROVE  /\ rows' \in [Comics -> Row \cup {NoRow}]
           /\ at' \in [Comics -> Nat] /\ clock' = clock + 1
           /\ \A d \in Comics \ {c} : rows'[d] = rows[d] /\ at'[d] = at[d]
           /\ at'[c] = clock + 1
           /\ PageOf(rows'[c]) \in {PageOf(rows[c]), page}
           /\ page <= PageOf(rows'[c])
           /\ c \notin wiped' => PageOf(rows[c]) <= PageOf(rows'[c])
           /\ wiped \subseteq wiped' /\ wiped' \subseteq wiped \cup {c}
<1> DEFINE w == [page |-> page, pageCount |-> PageCount, status |-> status]
<1>1. w \in Write /\ w.page = page /\ w.status = status
    BY DEF Write
<1>2. rows[c] \in Row \cup {NoRow}
    BY DEF ServerKnown
<1>3. rows' = [rows EXCEPT ![c] = Upsert(rows[c], w)]
    BY DEF Write1
<1> HIDE DEF w
<1>4. rows'[c] = Upsert(rows[c], w) /\ \A d \in Comics \ {c} : rows'[d] = rows[d]
    BY <1>3 DEF ServerKnown
<1>5. rows' \in [Comics -> Row \cup {NoRow}]
    BY <1>1, <1>2, <1>3, UpsertIs DEF ServerKnown
<1>6. /\ at' \in [Comics -> Nat] /\ clock' = clock + 1 /\ at'[c] = clock + 1
      /\ \A d \in Comics \ {c} : at'[d] = at[d]
    BY DEF Write1, ServerKnown
<1>7. PageOf(rows[c]) \in Nat /\ RemotePage(c) = PageOf(rows[c])
    BY <1>2 DEF PageOf, RemotePage, Row
<1>8. wiped \subseteq wiped' /\ wiped' \subseteq wiped \cup {c}
      /\ (c \notin wiped' => status # "unread" \/ PageOf(rows[c]) <= page)
    BY <1>7 DEF Write1
<1> QED BY <1>1, <1>2, <1>4, <1>5, <1>6, <1>8, UpsertIs

\* Lemma: what a save changes on the phone.
LEMMA SaveIs ==
    ASSUME LocalKnown, NEW p \in Phones, NEW c \in Comics, NEW page \in Pages, NEW pending \in BOOLEAN,
           Save(p, c, page, pending)
    PROVE  /\ local' \in [Phones -> [Comics -> LocalRow \cup {NoRow}]]
           /\ \A q \in Phones, d \in Comics : q # p \/ d # c => local'[q][d] = local[q][d]
           /\ local'[p][c] = [page |-> page, pending |-> pending]
           /\ local'[p][c] # NoRow
<1> DEFINE row == [page |-> page, pending |-> pending]
<1>1. row \in LocalRow
    BY DEF LocalRow
<1>2. row # NoRow
    BY <1>1
<1> HIDE DEF row
<1>3. local' = [local EXCEPT ![p][c] = row]
    BY DEF Save, row
<1> QED BY <1>1, <1>2, <1>3 DEF LocalKnown, row

\* Lemma: a position among those that were stopped on is a page.
LEMMA KnownIsPage == RestTyped => \A c \in Comics : stops[c] \cup {0} \subseteq Pages
BY DEF RestTyped

\* Lemma: when readers stop elsewhere too, what was known stays so.
LEMMA Widens ==
    ASSUME NEW S, NEW T, \A c \in Comics : S[c] \subseteq T[c]
    PROVE  /\ \A c \in Comics : \A row : RowKnown(row, c, S) => RowKnown(row, c, T)
           /\ \A q : CallKnown(q, S) => CallKnown(q, T)
           /\ \A m : MergeKnown(m, S) => MergeKnown(m, T)
           /\ \A s : SyncKnown(s, S) => SyncKnown(s, T)
<1>1. \A c \in Comics : \A row : RowKnown(row, c, S) => RowKnown(row, c, T)
    BY DEF RowKnown
<1>2. \A q : CallKnown(q, S) => CallKnown(q, T)
    BY DEF CallKnown
<1>3. ASSUME NEW m, MergeKnown(m, S) PROVE MergeKnown(m, T)
    <2>1. m.comic \in Comics
        BY <1>3 DEF MergeKnown, Merge
    <2> QED BY <1>3, <2>1 DEF MergeKnown
<1>4. ASSUME NEW s, SyncKnown(s, S) PROVE SyncKnown(s, T)
    <2>1. \A change \in s.batch : change.comic \in Comics
        BY <1>4 DEF SyncKnown, Sync
    <2>2. \A change \in s.batch : change.remote \in T[change.comic] \cup {0}
        BY <1>4, <2>1 DEF SyncKnown
    <2> QED BY <1>3, <1>4, <2>2 DEF SyncKnown
<1> QED BY <1>1, <1>2, <1>3, <1>4

\* Lemma: a load that sleeps, or goes from push to pull, has nothing at hand.
LEMMA AsleepIs ==
    /\ \A S : SyncKnown(Asleep, S)
    /\ \A step \in {"idle", "pushing", "pull"} : \A S :
          SyncKnown([Asleep EXCEPT !.step = step], S)
    /\ Asleep.step = "idle"
    /\ \A step : [Asleep EXCEPT !.step = step].step = step
    /\ Asleep.merge = NoRow /\ Asleep.batch = {}
    /\ \A step : [Asleep EXCEPT !.step = step].merge = NoRow /\ [Asleep EXCEPT !.step = step].batch = {}
BY DEF Asleep, SyncKnown, Sync
-----------------------------------------------------------------------------
(* Where positions come from: one part of the state at a time *)

\* Readers may have stopped on more pages, never on fewer.
Wider == stops' \in [Comics -> SUBSET Pages] /\ \A c \in Comics : stops[c] \subseteq stops'[c]

\* Lemma: the invariant has the types of the model.
LEMMA KnownTyped == Known /\ Recorded => TypeOK
BY DEF Recorded, Known, ServerKnown, LocalKnown, CallsKnown, LoadsKnown, OpeningsKnown, RestTyped, TypeOK

\* Lemma: what does not change stays known.
LEMMA StaysKnown ==
    ASSUME Known, Wider
    PROVE  /\ UNCHANGED serverVars => ServerKnown'
           /\ UNCHANGED local => LocalKnown'
           /\ UNCHANGED call => CallsKnown'
           /\ UNCHANGED sync => LoadsKnown'
           /\ UNCHANGED opening => OpeningsKnown'
<1>1. /\ \A c \in Comics : \A row : RowKnown(row, c, stops) => RowKnown(row, c, stops')
      /\ \A q : CallKnown(q, stops) => CallKnown(q, stops')
      /\ \A m : MergeKnown(m, stops) => MergeKnown(m, stops')
      /\ \A s : SyncKnown(s, stops) => SyncKnown(s, stops')
    BY Widens DEF Wider
<1>2. UNCHANGED serverVars => ServerKnown'
    BY <1>1 DEF Known, ServerKnown, serverVars
<1>3. UNCHANGED local => LocalKnown'
    BY <1>1 DEF Known, LocalKnown
<1>4. UNCHANGED call => CallsKnown'
    BY <1>1 DEF Known, CallsKnown
<1>5. UNCHANGED sync => LoadsKnown'
    BY <1>1 DEF Known, LoadsKnown
<1>6. UNCHANGED opening => OpeningsKnown'
    BY <1>1 DEF Known, OpeningsKnown
<1> QED BY <1>2, <1>3, <1>4, <1>5, <1>6

\* Lemma: nor does it matter what the environment has left.
LEMMA RestStays ==
    ASSUME Known, UNCHANGED <<cursor, merged, stops>>, left' \in [Kinds -> Nat]
    PROVE  RestTyped' /\ Wider
BY DEF Known, RestTyped, Wider

\* Lemma: an event of the environment is paid for.
LEMMA SpendIs ==
    ASSUME Known, NEW kind \in Kinds, Spend(kind)
    PROVE  /\ left' \in [Kinds -> Nat]
           /\ left'[kind] = left[kind] - 1
           /\ \A other \in Kinds \ {kind} : left'[other] = left[other]
BY DEF Known, RestTyped, Spend

\* Lemma: the server is told of a page that a reader stopped on.
LEMMA WriteKnown ==
    ASSUME Known, Wider, NEW c \in Comics, NEW page \in stops'[c] \cup {0}, NEW status \in Status,
           Write1(c, page, status)
    PROVE  ServerKnown'
<1>1. page \in Pages
    BY DEF Wider
<1>2. /\ rows' \in [Comics -> Row \cup {NoRow}]
      /\ at' \in [Comics -> Nat] /\ clock' = clock + 1
      /\ \A d \in Comics \ {c} : rows'[d] = rows[d]
      /\ PageOf(rows'[c]) \in {PageOf(rows[c]), page}
    BY <1>1, WriteIs DEF Known
<1>3. \A d \in Comics : RowKnown(rows'[d], d, stops')
    <2> SUFFICES ASSUME NEW d \in Comics PROVE RowKnown(rows'[d], d, stops')
        OBVIOUS
    <2>1. PageOf(rows[d]) \in stops'[d] \cup {0}
        BY DEF Known, ServerKnown, RowKnown, Wider
    <2> QED BY <1>2, <2>1 DEF RowKnown
<1> QED BY <1>2, <1>3 DEF Known, ServerKnown

\* Lemma: so is the phone.
LEMMA SaveKnown ==
    ASSUME Known, Wider, NEW p \in Phones, NEW c \in Comics, NEW page \in stops'[c] \cup {0},
           NEW pending \in BOOLEAN, Save(p, c, page, pending)
    PROVE  LocalKnown'
<1>1. page \in Pages
    BY DEF Wider
<1>2. /\ local' \in [Phones -> [Comics -> LocalRow \cup {NoRow}]]
      /\ \A q \in Phones, d \in Comics : q # p \/ d # c => local'[q][d] = local[q][d]
      /\ local'[p][c] = [page |-> page, pending |-> pending]
      /\ local'[p][c] # NoRow
    BY <1>1, SaveIs DEF Known
<1>3. PageOf(local'[p][c]) = page
    BY <1>2 DEF PageOf
<1>4. \A q \in Phones, d \in Comics : RowKnown(local'[q][d], d, stops')
    <2> SUFFICES ASSUME NEW q \in Phones, NEW d \in Comics PROVE RowKnown(local'[q][d], d, stops')
        OBVIOUS
    <2>1. PageOf(local[q][d]) \in stops'[d] \cup {0}
        BY DEF Known, LocalKnown, RowKnown, Wider
    <2> QED BY <1>2, <1>3, <2>1 DEF RowKnown
<1> QED BY <1>2, <1>4 DEF LocalKnown

\* One call, one load, one opening changes.
CallBecomes(k, q) == call' = [call EXCEPT ![k] = q]
LoadBecomes(p, l, s) == sync' = [sync EXCEPT ![p][l] = s]
OpeningBecomes(p, m) == opening' = [opening EXCEPT ![p] = m]

\* Lemma: one call changes.
LEMMA OneCall ==
    ASSUME Known, Wider, NEW k \in Calls, NEW q,
           q = Free \/ CallKnown(q, stops'), CallBecomes(k, q)
    PROVE  /\ CallsKnown'
           /\ call'[k] = q /\ \A j \in Calls \ {k} : call'[j] = call[j]
<1>1. \A r : CallKnown(r, stops) => CallKnown(r, stops')
    BY Widens DEF Wider
<1>2. q \in Call \cup {Free}
    BY DEF CallKnown
<1>3. call'[k] = q /\ \A j \in Calls \ {k} : call'[j] = call[j]
    BY DEF Known, CallsKnown, CallBecomes
<1> QED BY <1>1, <1>2, <1>3 DEF Known, CallsKnown, CallBecomes

\* Lemma: one load changes.
LEMMA OneLoad ==
    ASSUME Known, Wider, NEW p \in Phones, NEW l \in Loads, NEW s,
           SyncKnown(s, stops'), LoadBecomes(p, l, s)
    PROVE  /\ LoadsKnown'
           /\ sync'[p][l] = s
           /\ \A q \in Phones, j \in Loads : q # p \/ j # l => sync'[q][j] = sync[q][j]
<1>1. \A r : SyncKnown(r, stops) => SyncKnown(r, stops')
    BY Widens DEF Wider
<1>2. s \in Sync
    BY DEF SyncKnown
<1>3. /\ sync'[p][l] = s
      /\ \A q \in Phones, j \in Loads : q # p \/ j # l => sync'[q][j] = sync[q][j]
    BY DEF Known, LoadsKnown, LoadBecomes
<1> QED BY <1>1, <1>2, <1>3 DEF Known, LoadsKnown, LoadBecomes

\* Lemma: one opening changes.
LEMMA OneOpening ==
    ASSUME Known, Wider, NEW p \in Phones, NEW m,
           m = NoRow \/ MergeKnown(m, stops'), OpeningBecomes(p, m)
    PROVE  /\ OpeningsKnown'
           /\ opening'[p] = m /\ \A q \in Phones \ {p} : opening'[q] = opening[q]
<1>1. \A r : MergeKnown(r, stops) => MergeKnown(r, stops')
    BY Widens DEF Wider
<1>2. m \in Merge \cup {NoRow}
    BY DEF MergeKnown
<1>3. opening'[p] = m /\ \A q \in Phones \ {p} : opening'[q] = opening[q]
    BY DEF Known, OpeningsKnown, OpeningBecomes
<1> QED BY <1>1, <1>2, <1>3 DEF Known, OpeningsKnown, OpeningBecomes
-----------------------------------------------------------------------------
(* What the actions of the phone change *)

\* Lemma: a request sends the rows that it is about.
LEMMA RequestIs ==
    ASSUME NEW p \in Phones, NEW by \in Loads \cup {"reader"}, NEW S \in SUBSET Comics,
           NEW T, NEW mine \in [Comics -> LocalRow \cup {NoRow}],
           \A c \in S : mine[c] # NoRow /\ RowKnown(mine[c], c, T)
    PROVE  \E q : /\ q = Request(p, by, S, mine)
                  /\ CallKnown(q, T)
                  /\ q.phone = p /\ q.todo = S /\ q.step = "sent"
                  /\ \A c \in Comics : q.pos[c] = IF c \in S THEN PageOf(mine[c]) ELSE NoRow
<1> DEFINE pos == [c \in Comics |-> IF c \in S THEN mine[c].page ELSE NoRow]
           q == [phone |-> p, by |-> by, todo |-> S, step |-> "sent", pos |-> pos]
<1>1. \A c \in S : /\ mine[c].page \in Pages
                   /\ mine[c].page = PageOf(mine[c])
                   /\ mine[c].page \in T[c] \cup {0}
    BY DEF LocalRow, RowKnown, PageOf
<1>2. /\ pos \in [Comics -> Pages \cup {NoRow}]
      /\ \A c \in Comics : pos[c] = IF c \in S THEN PageOf(mine[c]) ELSE NoRow
      /\ \A c \in Comics : pos[c] # NoRow => pos[c] \in T[c] \cup {0}
      /\ \A c \in S : pos[c] # NoRow
    BY <1>1
<1>3. q = Request(p, by, S, mine)
    BY DEF Request
<1> HIDE DEF pos
<1>4. q \in Call
    BY <1>2 DEF Call
<1>5. q.phone = p /\ q.todo = S /\ q.step = "sent" /\ q.pos = pos
    OBVIOUS
<1> HIDE DEF q
<1>6. CallKnown(q, T)
    BY <1>2, <1>4, <1>5 DEF CallKnown
<1> QED BY <1>2, <1>3, <1>5, <1>6

\* Lemma: a confirmation settles rows, and moves none.
LEMMA SettledIs ==
    ASSUME Known, Wider, NEW p \in Phones, NEW S \in SUBSET Comics, local' = Settled(p, S)
    PROVE  /\ LocalKnown'
           /\ \A q \in Phones, c \in Comics :
                 \/ local'[q][c] = local[q][c]
                 \/ /\ q = p /\ c \in S
                    /\ local[q][c] # NoRow /\ local'[q][c] # NoRow
                    /\ local'[q][c].page = local[q][c].page /\ ~local'[q][c].pending
<1>1. \A row \in LocalRow : /\ [row EXCEPT !.pending = FALSE].page = row.page
                            /\ ~[row EXCEPT !.pending = FALSE].pending
                            /\ [row EXCEPT !.pending = FALSE] \in LocalRow
    BY DEF LocalRow
<1>2. \A q \in Phones, c \in Comics :
          local'[q][c] = IF q = p /\ c \in S /\ local[q][c] # NoRow
                         THEN [local[q][c] EXCEPT !.pending = FALSE] ELSE local[q][c]
    BY DEF Settled, Known, LocalKnown
<1>3. ASSUME NEW q \in Phones, NEW c \in Comics
      PROVE  /\ local'[q][c] \in LocalRow \cup {NoRow}
             /\ RowKnown(local'[q][c], c, stops')
             /\ \/ local'[q][c] = local[q][c]
                \/ /\ q = p /\ c \in S
                   /\ local[q][c] # NoRow /\ local'[q][c] # NoRow
                   /\ local'[q][c].page = local[q][c].page /\ ~local'[q][c].pending
    <2> DEFINE row == local[q][c]
               new == [row EXCEPT !.pending = FALSE]
    <2>1. /\ row \in LocalRow \cup {NoRow} /\ PageOf(row) \in stops'[c] \cup {0}
          /\ local'[q][c] = IF q = p /\ c \in S /\ row # NoRow THEN new ELSE row
        BY <1>2 DEF Known, LocalKnown, RowKnown, Wider
    <2>2. row # NoRow => /\ new \in LocalRow /\ new # NoRow
                         /\ new.page = row.page /\ ~new.pending
        BY <1>1, <2>1
    <2> HIDE DEF row, new
    <2>3. \/ local'[q][c] = row
          \/ q = p /\ c \in S /\ row # NoRow /\ local'[q][c] = new
        BY <2>1
    <2>4. PageOf(local'[q][c]) = PageOf(row) /\ local'[q][c] \in LocalRow \cup {NoRow}
        BY <2>1, <2>2, <2>3 DEF PageOf
    <2>5. RowKnown(local'[q][c], c, stops')
        BY <2>1, <2>4 DEF RowKnown
    <2> QED BY <2>2, <2>3, <2>4, <2>5 DEF row
<1>4. local' = [q \in Phones |-> [c \in Comics |-> local'[q][c]]]
    BY DEF Settled, Known, LocalKnown
<1>5. local' \in [Phones -> [Comics -> LocalRow \cup {NoRow}]]
    <2>1. \A q \in Phones, c \in Comics : local'[q][c] \in LocalRow \cup {NoRow}
        BY <1>3
    <2> QED BY <1>4, <2>1
<1> QED BY <1>3, <1>5 DEF LocalKnown

\* Lemma: a call that ends lets its load go on with nothing at hand.
LEMMA AfterCallIs ==
    ASSUME Known, Wider, NEW k \in Calls, call[k] # Free, NEW next \in {"idle", "pull"},
           sync' = AfterCall(k, next)
    PROVE  /\ LoadsKnown'
           /\ \A p \in Phones, l \in Loads : \/ sync'[p][l] = sync[p][l]
                                             \/ sync'[p][l] = [Asleep EXCEPT !.step = next]
<1>1. CASE call[k].by = "reader"
    BY <1>1, StaysKnown DEF AfterCall
<1>2. CASE call[k].by # "reader"
    <2> DEFINE s == [Asleep EXCEPT !.step = next]
    <2>1. PICK p \in Phones, l \in Loads : p = call[k].phone /\ l = call[k].by
        BY <1>2 DEF Known, CallsKnown, Call
    <2>2. LoadBecomes(p, l, s)
        BY <1>2, <2>1 DEF AfterCall, AfterPush, LoadBecomes
    <2>3. SyncKnown(s, stops')
        BY AsleepIs
    <2> HIDE DEF s
    <2>4. LoadsKnown' /\ sync'[p][l] = s
          /\ \A q \in Phones, j \in Loads : q # p \/ j # l => sync'[q][j] = sync[q][j]
        BY <2>2, <2>3, OneLoad
    <2>5. \A q \in Phones, j \in Loads : sync'[q][j] = sync[q][j] \/ sync'[q][j] = s
        BY <2>4
    <2> QED BY <2>4, <2>5 DEF s
<1> QED BY <1>1, <1>2

\* Lemma: a merge writes the furthest of two known pages.
LEMMA SaveMergeIs ==
    ASSUME Known, Wider, NEW p \in Phones, NEW m, MergeKnown(m, stops), m.seen # NoRow,
           SaveMerge(p, m), UNCHANGED <<cursor, left, stops>>
    PROVE  /\ LocalKnown' /\ RestTyped'
           /\ m.comic \in Comics /\ m.seen \in Nat /\ m.remote \in Nat /\ m.version \in Nat
           /\ \A q \in Phones, d \in Comics : q # p \/ d # m.comic =>
                 local'[q][d] = local[q][d] /\ merged'[q][d] = merged[q][d]
           /\ local'[p][m.comic] = [page |-> Furthest(m.seen, m.remote), pending |-> m.seen > m.remote]
           /\ local'[p][m.comic] # NoRow
           /\ merged'[p][m.comic] = Furthest(merged[p][m.comic], m.version)
<1> DEFINE page == Furthest(m.seen, m.remote)
           pending == m.seen > m.remote
<1>1. /\ m.comic \in Comics /\ m.seen \in Pages /\ m.remote \in Pages /\ m.version \in Nat
      /\ m.seen \in stops'[m.comic] \cup {0} /\ m.remote \in stops'[m.comic] \cup {0}
    BY DEF MergeKnown, Merge
<1>2. /\ page \in stops'[m.comic] \cup {0} /\ page \in Pages
      /\ pending \in BOOLEAN
    BY <1>1 DEF Furthest
<1>3. Save(p, m.comic, page, pending)
    BY DEF SaveMerge, StillAhead
<1>4. merged' = [merged EXCEPT ![p][m.comic] = Furthest(merged[p][m.comic], m.version)]
    BY DEF SaveMerge
<1> HIDE DEF page, pending
<1>5. LocalKnown'
    BY <1>1, <1>2, <1>3, SaveKnown
<1>6. /\ \A q \in Phones, d \in Comics : q # p \/ d # m.comic => local'[q][d] = local[q][d]
      /\ local'[p][m.comic] = [page |-> page, pending |-> pending] /\ local'[p][m.comic] # NoRow
    BY <1>1, <1>2, <1>3, SaveIs DEF Known
<1>7. /\ merged' \in [Phones -> [Comics -> Nat]]
      /\ \A q \in Phones, d \in Comics : q # p \/ d # m.comic => merged'[q][d] = merged[q][d]
      /\ merged'[p][m.comic] = Furthest(merged[p][m.comic], m.version)
    BY <1>1, <1>4 DEF Furthest, Known, RestTyped
<1>8. RestTyped'
    BY <1>7 DEF Known, RestTyped
<1>9. m.seen \in Nat /\ m.remote \in Nat
    BY <1>1
<1> QED BY <1>1, <1>5, <1>6, <1>7, <1>8, <1>9 DEF page, pending
-----------------------------------------------------------------------------
(* Where positions come from: the actions *)

\* Lemma: at first there is nothing.
LEMMA InitKnown == Init => Known
<1> SUFFICES ASSUME Init PROVE Known
    OBVIOUS
<1>1. ServerKnown /\ LocalKnown
    BY DEF Init, ServerKnown, LocalKnown, RowKnown, PageOf
<1>2. CallsKnown /\ OpeningsKnown
    BY DEF Init, CallsKnown, OpeningsKnown
<1>3. LoadsKnown
    <2>1. SyncKnown(Asleep, stops) /\ Asleep \in Sync
        BY AsleepIs DEF SyncKnown
    <2> QED BY <2>1 DEF Init, LoadsKnown
<1>4. RestTyped
    BY DEF Init, RestTyped
<1> QED BY <1>1, <1>2, <1>3, <1>4 DEF Known

\* Lemma: the reader stops on one page more.
LEMMA StopIs ==
    ASSUME Known, NEW c \in Comics, NEW page \in Stops, NEW kind \in Kinds, Spend(kind),
           stops' = [stops EXCEPT ![c] = @ \cup {page}]
    PROVE  /\ Wider /\ page \in stops'[c] /\ page \in Pages
           /\ UNCHANGED <<cursor, merged>> => RestTyped'
<1>1. left' \in [Kinds -> Nat]
    BY SpendIs
<1> QED BY <1>1 DEF Known, RestTyped, Wider

\* Lemma: record.
LEMMA TurnKnown ==
    ASSUME Known, NEW p \in Phones, NEW c \in Comics, NEW page \in Stops, Turn(p, c, page)
    PROVE  /\ Known'
           /\ local'[p][c] = [page |-> page, pending |-> TRUE] /\ local'[p][c] # NoRow
           /\ \A q \in Phones, d \in Comics : q # p \/ d # c => local'[q][d] = local[q][d]
           /\ \E k \in Calls : /\ \A j \in Calls \ {k} : call'[j] = call[j]
                               /\ call'[k] # Free
                               /\ call'[k].phone = p /\ call'[k].todo = {c}
                               /\ call'[k].pos[c] = page
                               /\ \A d \in Comics \ {c} : call'[k].pos[d] = NoRow
<1>1. /\ Wider /\ page \in stops'[c] /\ page \in Pages /\ RestTyped'
      /\ Save(p, c, page, TRUE)
    BY StopIs DEF Turn, Kinds
<1>2. /\ LocalKnown'
      /\ local'[p][c] = [page |-> page, pending |-> TRUE] /\ local'[p][c] # NoRow
      /\ \A q \in Phones, d \in Comics : q # p \/ d # c => local'[q][d] = local[q][d]
    BY <1>1, SaveKnown, SaveIs DEF Known
<1>3. PICK k \in Calls : call[k] = Free /\ CallBecomes(k, Request(p, "reader", {c}, local'[p]))
    BY DEF Turn, CallBecomes
<1>4. PICK mine \in [Comics -> LocalRow \cup {NoRow}] : mine = local'[p]
    BY <1>2 DEF LocalKnown
<1>5. mine[c] # NoRow /\ PageOf(mine[c]) = page /\ RowKnown(mine[c], c, stops')
    BY <1>2, <1>4 DEF LocalKnown, PageOf
<1>6. PICK q : /\ q = Request(p, "reader", {c}, mine)
               /\ CallKnown(q, stops') /\ q.phone = p /\ q.todo = {c}
               /\ \A d \in Comics : q.pos[d] = IF d \in {c} THEN PageOf(mine[d]) ELSE NoRow
    <2>1. PICK S \in SUBSET Comics, by \in Loads \cup {"reader"} : S = {c} /\ by = "reader"
        OBVIOUS
    <2>2. \A d \in S : mine[d] # NoRow /\ RowKnown(mine[d], d, stops')
        BY <1>5, <2>1
    <2>3. \E q : /\ q = Request(p, by, S, mine)
                 /\ CallKnown(q, stops') /\ q.phone = p /\ q.todo = S
                 /\ \A d \in Comics : q.pos[d] = IF d \in S THEN PageOf(mine[d]) ELSE NoRow
        BY <2>2, RequestIs
    <2> QED BY <2>1, <2>3
<1>7. CallsKnown' /\ call'[k] = q /\ \A j \in Calls \ {k} : call'[j] = call[j]
    BY <1>1, <1>3, <1>4, <1>6, OneCall
<1>8. q # Free
    BY <1>6 DEF CallKnown
<1>9. ServerKnown' /\ LoadsKnown' /\ OpeningsKnown'
    BY <1>1, StaysKnown DEF Turn
<1>10. q.pos[c] = page /\ \A d \in Comics \ {c} : q.pos[d] = NoRow
    BY <1>5, <1>6
<1>11. Known'
    BY <1>1, <1>2, <1>7, <1>9 DEF Known
<1>12. /\ call'[k] # Free /\ call'[k].phone = p /\ call'[k].todo = {c}
       /\ call'[k].pos[c] = page /\ \A d \in Comics \ {c} : call'[k].pos[d] = NoRow
    BY <1>6, <1>7, <1>8, <1>10
<1> QED BY <1>2, <1>7, <1>11, <1>12

\* Lemma: the web client.
LEMMA WebReadKnown ==
    ASSUME Known, NEW c \in Comics, NEW page \in Stops, WebRead(c, page)
    PROVE  Known' /\ Wider
<1>1. /\ Wider /\ page \in stops'[c] /\ page \in Pages /\ RestTyped'
    BY StopIs DEF WebRead, Kinds
<1>2. DeriveStatus(page, PageCount) \in Status
    BY <1>1, StatusIs
<1>3. ServerKnown'
    BY <1>1, <1>2, WriteKnown DEF WebRead
<1>4. LocalKnown' /\ CallsKnown' /\ LoadsKnown' /\ OpeningsKnown'
    BY <1>1, StaysKnown DEF WebRead
<1> QED BY <1>1, <1>3, <1>4 DEF Known

\* Lemma: a reset.
LEMMA MarkUnreadKnown == ASSUME Known, NEW c \in Comics, MarkUnread(c) PROVE Known'
<1>1. RestTyped' /\ Wider
    BY SpendIs, RestStays DEF MarkUnread, Kinds
<1>2. /\ rows' \in [Comics -> Row \cup {NoRow}]
      /\ \A d \in Comics : rows'[d] = IF d = c THEN NoRow ELSE rows[d]
    BY DEF MarkUnread, Known, ServerKnown
<1>3. ServerKnown'
    BY <1>1, <1>2 DEF MarkUnread, Known, ServerKnown, RowKnown, PageOf
<1>4. LocalKnown' /\ CallsKnown' /\ LoadsKnown' /\ OpeningsKnown'
    BY <1>1, StaysKnown DEF MarkUnread
<1> QED BY <1>1, <1>3, <1>4 DEF Known

\* Lemma: the server applies one position of a call.
LEMMA ApplyKnown ==
    ASSUME Known, NEW k \in Calls, Apply(k)
    PROVE  /\ Known'
           /\ call[k] # Free
           /\ \A j \in Calls \ {k} : call'[j] = call[j]
           /\ \E c \in call[k].todo :
                 /\ c \in Comics /\ call[k].pos[c] \in Pages
                 /\ Write1(c, call[k].pos[c], StatusFor(call[k].pos[c], PageCount))
                 /\ StatusFor(call[k].pos[c], PageCount) \in Status
                 /\ call'[k] # Free =>
                       /\ call'[k].phone = call[k].phone /\ call'[k].pos = call[k].pos
                       /\ call'[k].todo = call[k].todo \ {c}
                       /\ call'[k].step = "orphan" <=> call[k].step = "orphan"
<1>1. RestTyped' /\ Wider
    BY RestStays DEF Apply, Known, RestTyped
<1>2. PICK q : q = call[k] /\ q # Free /\ CallKnown(q, stops) /\ q \in Call
    BY DEF Apply, Known, CallsKnown, CallKnown
<1>3. PICK c \in q.todo :
          /\ Write1(c, q.pos[c], StatusFor(q.pos[c], PageCount))
          /\ call' = [call EXCEPT ![k] =
                         IF q.todo \ {c} # {} THEN [q EXCEPT !.todo = q.todo \ {c}]
                         ELSE IF q.step = "orphan" THEN Free
                         ELSE [q EXCEPT !.todo = q.todo \ {c}, !.step = "answered"]]
    BY <1>2 DEF Apply, Known, CallsKnown
<1>4. c \in Comics /\ q.pos[c] \in stops'[c] \cup {0} /\ q.pos[c] \in Pages
    BY <1>1, <1>2 DEF CallKnown, Call, Apply
<1>5. ServerKnown' /\ StatusFor(q.pos[c], PageCount) \in Status
    BY <1>1, <1>3, <1>4, StatusIs, WriteKnown
<1>6. PICK phone \in Phones, by \in Loads \cup {"reader"}, pos \in [Comics -> Pages \cup {NoRow}],
           todo \in SUBSET Comics, step \in {"sent", "answered", "orphan"} :
          q = [phone |-> phone, by |-> by, pos |-> pos, todo |-> todo, step |-> step]
    BY <1>2 DEF Call
<1>7. PICK r : /\ CallBecomes(k, r)
               /\ \/ r = [q EXCEPT !.todo = q.todo \ {c}] /\ q.todo \ {c} # {}
                  \/ r = Free
                  \/ r = [q EXCEPT !.todo = {}, !.step = "answered"]
                         /\ q.todo \ {c} = {} /\ q.step # "orphan"
    <2>1. CASE q.todo \ {c} # {}
        BY <1>3, <2>1 DEF CallBecomes
    <2>2. CASE q.todo \ {c} = {}
        BY <1>3, <2>2 DEF CallBecomes
    <2> QED BY <2>1, <2>2
<1>8. /\ q.phone = phone /\ q.pos = pos /\ q.todo = todo /\ q.step = step
      /\ step = "answered" => todo = {}
      /\ \A d \in todo : pos[d] # NoRow
      /\ \A d \in Comics : pos[d] # NoRow => pos[d] \in stops[d] \cup {0}
    BY <1>2, <1>6 DEF CallKnown
<1>9. r # Free => /\ r.phone = phone /\ r.pos = pos /\ r.todo = todo \ {c}
                  /\ r.step = "orphan" <=> step = "orphan"
                  /\ r.step = "answered" => r.todo = {}
                  /\ r \in Call
    <2>1. CASE r = [q EXCEPT !.todo = q.todo \ {c}] /\ q.todo \ {c} # {}
        <3>1. r = [phone |-> phone, by |-> by, pos |-> pos, todo |-> todo \ {c}, step |-> step]
            BY <1>6, <2>1
        <3>2. r \in Call
            BY <3>1 DEF Call
        <3>3. step # "answered"
            BY <1>8, <2>1
        <3>4. r.phone = phone /\ r.pos = pos /\ r.todo = todo \ {c} /\ r.step = step
            BY <3>1
        <3> QED BY <3>2, <3>3, <3>4
    <2>2. CASE /\ r = [q EXCEPT !.todo = {}, !.step = "answered"]
               /\ q.todo \ {c} = {} /\ q.step # "orphan"
        <3>1. r = [phone |-> phone, by |-> by, pos |-> pos, todo |-> {}, step |-> "answered"]
            BY <1>6, <2>2
        <3> QED BY <1>8, <2>2, <3>1 DEF Call
    <2> QED BY <1>7, <2>1, <2>2
<1>10. r = Free \/ CallKnown(r, stops')
    BY <1>1, <1>8, <1>9 DEF CallKnown, Apply
<1>11. CallsKnown' /\ call'[k] = r /\ \A j \in Calls \ {k} : call'[j] = call[j]
    BY <1>1, <1>7, <1>10, OneCall
<1>12. LocalKnown' /\ LoadsKnown' /\ OpeningsKnown'
    BY <1>1, StaysKnown DEF Apply
<1>13. Known'
    BY <1>1, <1>5, <1>11, <1>12 DEF Known
<1> QED BY <1>2, <1>3, <1>4, <1>5, <1>8, <1>9, <1>11, <1>13
\* A call is what it was, has ended, or is given up.
Ends(k) ==
    \/ call'[k] = call[k]
    \/ call'[k] = Free
    \/ /\ call[k] # Free /\ call'[k] # Free
       /\ call'[k].phone = call[k].phone /\ call'[k].pos = call[k].pos
       /\ call'[k].todo = call[k].todo /\ call'[k].step = "orphan"

\* A load is what it was, or has nothing at hand.
Rests(p, l) ==
    \/ sync'[p][l] = sync[p][l]
    \/ sync'[p][l].step # "merging" /\ sync'[p][l].batch = {} /\ sync'[p][l].merge = NoRow

\* Lemma: a call that is given up is the same call.
LEMMA OrphanIs ==
    ASSUME NEW q, NEW S, CallKnown(q, S)
    PROVE  \E o : /\ o = [q EXCEPT !.step = "orphan"]
                  /\ CallKnown(o, S) /\ o # Free
                  /\ o.phone = q.phone /\ o.pos = q.pos /\ o.todo = q.todo /\ o.step = "orphan"
<1>1. PICK phone \in Phones, by \in Loads \cup {"reader"}, pos \in [Comics -> Pages \cup {NoRow}],
           todo \in SUBSET Comics, step \in {"sent", "answered", "orphan"} :
          q = [phone |-> phone, by |-> by, pos |-> pos, todo |-> todo, step |-> step]
    BY DEF CallKnown, Call
<1>2. PICK o : o = [q EXCEPT !.step = "orphan"]
    OBVIOUS
<1>3. o = [phone |-> phone, by |-> by, pos |-> pos, todo |-> todo, step |-> "orphan"]
    BY <1>1, <1>2
<1>4. /\ o.phone = q.phone /\ o.pos = q.pos /\ o.todo = q.todo /\ o.step = "orphan"
      /\ o \in Call
    BY <1>1, <1>3 DEF Call
<1>5. CallKnown(o, S) /\ o # Free
    BY <1>4 DEF CallKnown
<1> QED BY <1>2, <1>4, <1>5

\* Lemma: a load that goes on after a call rests.
LEMMA GoesOnRests ==
    ASSUME NEW p, NEW l, NEW next \in {"idle", "pushing", "pull"},
           sync'[p][l] = sync[p][l] \/ sync'[p][l] = [Asleep EXCEPT !.step = next]
    PROVE  Rests(p, l)
BY AsleepIs DEF Rests

\* Lemma: the answer.
LEMMA AckKnown ==
    ASSUME Known, NEW k \in Calls, Ack(k)
    PROVE  /\ Known' /\ \A j \in Calls : Ends(j)
           /\ \A p \in Phones, l \in Loads : Rests(p, l)
           /\ call[k] # Free /\ call[k].todo = {} /\ call[k].step # "orphan"
           /\ \A q \in Phones, c \in Comics :
                 \/ local'[q][c] = local[q][c]
                 \/ /\ q = call[k].phone /\ call[k].pos[c] # NoRow
                    /\ local[q][c] # NoRow /\ local'[q][c] # NoRow
                    /\ local'[q][c].page = local[q][c].page /\ ~local'[q][c].pending
<1>1. RestTyped' /\ Wider
    BY RestStays DEF Ack, Known, RestTyped
<1>2. PICK S \in SUBSET Comics : S = {c \in Comics : call[k].pos[c] # NoRow}
    OBVIOUS
<1>3. PICK p \in Phones : p = call[k].phone
    BY DEF Ack, Known, CallsKnown, Call
<1>4. local' = Settled(p, S)
    BY <1>2, <1>3 DEF Ack, Sent
<1>5. /\ LocalKnown'
      /\ \A q \in Phones, c \in Comics :
             \/ local'[q][c] = local[q][c]
             \/ /\ q = p /\ c \in S
                /\ local[q][c] # NoRow /\ local'[q][c] # NoRow
                /\ local'[q][c].page = local[q][c].page /\ ~local'[q][c].pending
    BY <1>1, <1>4, SettledIs
<1>6. PICK next \in {"idle", "pull"} : next = "pull"
    OBVIOUS
<1>7. LoadsKnown' /\ \A q \in Phones, l \in Loads : Rests(q, l)
    BY <1>1, <1>6, AfterCallIs, GoesOnRests DEF Ack
<1>8. CallsKnown' /\ \A j \in Calls : Ends(j)
    <2>1. CallBecomes(k, Free)
        BY DEF Ack, CallBecomes
    <2> QED BY <1>1, <2>1, OneCall DEF Ends
<1>9. ServerKnown' /\ OpeningsKnown'
    BY <1>1, StaysKnown DEF Ack
<1>10. Known'
    BY <1>1, <1>5, <1>7, <1>8, <1>9 DEF Known
<1>11. call[k] # Free /\ call[k].todo = {} /\ call[k].step # "orphan"
    BY DEF Ack, Known, CallsKnown, CallKnown
<1> QED BY <1>2, <1>3, <1>5, <1>7, <1>8, <1>10, <1>11

\* Lemma: a lost request or answer, and a refusal.
LEMMA FaultKnown ==
    ASSUME Known, NEW k \in Calls, Lose(k) \/ Refuse(k)
    PROVE  /\ Known' /\ \A j \in Calls : Ends(j)
           /\ \A p \in Phones, l \in Loads : Rests(p, l)
           /\ UNCHANGED local
<1>1. PICK next \in {"idle", "pull"} : sync' = AfterCall(k, next)
    BY DEF Lose, Refuse
<1>2. /\ call[k] # Free /\ Spend("fault")
      /\ UNCHANGED <<serverVars, local, cursor, opening, stops, merged>>
    BY DEF Lose, Refuse
<1>3. RestTyped' /\ Wider
    BY <1>2, SpendIs, RestStays DEF Kinds
<1>4. LoadsKnown' /\ \A q \in Phones, l \in Loads : Rests(q, l)
    BY <1>1, <1>2, <1>3, AfterCallIs, GoesOnRests
<1>5. CallsKnown' /\ \A j \in Calls : Ends(j)
    <2>1. CASE CallBecomes(k, Free)
        BY <1>3, <2>1, OneCall DEF Ends
    <2>2. CASE CallBecomes(k, [call[k] EXCEPT !.step = "orphan"])
        <3>1. PICK q : q = call[k] /\ CallKnown(q, stops')
            BY <1>2 DEF Known, CallsKnown
        <3>2. PICK o : /\ o = [q EXCEPT !.step = "orphan"]
                       /\ CallKnown(o, stops') /\ o # Free
                       /\ o.phone = q.phone /\ o.pos = q.pos /\ o.todo = q.todo /\ o.step = "orphan"
            BY <3>1, OrphanIs
        <3>3. CallBecomes(k, o)
            BY <2>2, <3>1, <3>2
        <3>4. CallsKnown' /\ call'[k] = o /\ \A j \in Calls \ {k} : call'[j] = call[j]
            BY <1>3, <3>2, <3>3, OneCall
        <3> QED BY <1>2, <3>1, <3>2, <3>4 DEF Ends
    <2>3. call' = [call EXCEPT ![k] = Free] \/ call' = [call EXCEPT ![k].step = "orphan"]
        BY DEF Lose, Refuse
    <2> QED BY <2>1, <2>2, <2>3 DEF CallBecomes
<1>6. ServerKnown' /\ LocalKnown' /\ OpeningsKnown'
    BY <1>2, <1>3, StaysKnown
<1>7. Known'
    BY <1>3, <1>4, <1>5, <1>6 DEF Known
<1> QED BY <1>2, <1>4, <1>5, <1>7

\* Lemma: the end of the application.
LEMMA KillKnown ==
    ASSUME Known, NEW p \in Phones, Kill(p)
    PROVE  /\ Known' /\ \A k \in Calls : Ends(k)
           /\ \A q \in Phones, l \in Loads : Rests(q, l)
           /\ \A q \in Phones : opening'[q] \in {opening[q], NoRow}
<1>1. RestTyped' /\ Wider
    BY SpendIs, RestStays DEF Kill, Kinds
<1>2. ASSUME NEW k \in Calls
      PROVE  /\ call'[k] \in Call \cup {Free}
             /\ call'[k] # Free => CallKnown(call'[k], stops')
             /\ Ends(k)
    <2>1. \/ call'[k] = call[k]
          \/ call'[k] = Free
          \/ call[k] # Free /\ call'[k] = [call[k] EXCEPT !.step = "orphan"]
        BY DEF Kill, Awaited, Known, CallsKnown
    <2>2. CASE call'[k] = call[k] \/ call'[k] = Free
        BY <2>2 DEF Ends, Kill, Known, CallsKnown
    <2>3. CASE call[k] # Free /\ call'[k] = [call[k] EXCEPT !.step = "orphan"]
        <3>1. PICK q : q = call[k] /\ CallKnown(q, stops')
            BY <2>3 DEF Known, CallsKnown, Kill
        <3>2. PICK o : /\ o = [q EXCEPT !.step = "orphan"]
                       /\ CallKnown(o, stops') /\ o # Free
                       /\ o.phone = q.phone /\ o.pos = q.pos /\ o.todo = q.todo /\ o.step = "orphan"
            BY <3>1, OrphanIs
        <3>3. call'[k] = o /\ o \in Call
            BY <2>3, <3>1, <3>2 DEF CallKnown
        <3> QED BY <2>3, <3>1, <3>2, <3>3 DEF Ends
    <2> QED BY <2>1, <2>2, <2>3
<1>3. CallsKnown'
    <2>1. call' = [k \in Calls |-> call'[k]]
        BY DEF Kill
    <2> QED BY <1>2, <2>1 DEF CallsKnown
<1>4. LoadsKnown' /\ \A q \in Phones, l \in Loads : Rests(q, l)
    <2>1. \A q \in Phones, l \in Loads : sync'[q][l] = IF q = p THEN Asleep ELSE sync[q][l]
        BY DEF Kill, Known, LoadsKnown
    <2>2. SyncKnown(Asleep, stops') /\ Asleep \in Sync
        BY AsleepIs DEF SyncKnown
    <2>3. \A q \in Phones, l \in Loads : SyncKnown(sync'[q][l], stops')
        BY <2>1, <2>2 DEF Kill, Known, LoadsKnown
    <2>4. sync' \in [Phones -> [Loads -> Sync]]
        BY <2>2 DEF Kill, Known, LoadsKnown
    <2> QED BY <2>1, <2>3, <2>4, AsleepIs DEF LoadsKnown, Rests
<1>5. OpeningsKnown' /\ \A q \in Phones : opening'[q] \in {opening[q], NoRow}
    <2>1. OpeningBecomes(p, NoRow)
        BY DEF Kill, OpeningBecomes
    <2> QED BY <1>1, <2>1, OneOpening
<1>6. ServerKnown' /\ LocalKnown'
    BY <1>1, StaysKnown DEF Kill
<1>7. Known'
    BY <1>1, <1>3, <1>4, <1>5, <1>6 DEF Known
<1> QED BY <1>2, <1>4, <1>5, <1>7
\* Lemma: a load begins, with a push when something is pending.
LEMMA SyncStartKnown ==
    ASSUME Known, NEW p \in Phones, NEW l \in Loads, SyncStart(p, l)
    PROVE  /\ Known'
           /\ \A q \in Phones, j \in Loads : Rests(q, j)
           /\ \/ UNCHANGED call
              \/ \E k \in Calls :
                    /\ \A j \in Calls \ {k} : call'[j] = call[j]
                    /\ call'[k] # Free /\ call'[k].phone = p /\ call'[k].todo = Pending(p)
                    /\ \A c \in Comics : call'[k].pos[c] =
                          IF c \in Pending(p) THEN LocalPage(p, c) ELSE NoRow
<1>1. RestTyped' /\ Wider
    BY RestStays DEF SyncStart, Known, RestTyped
<1>2. ServerKnown' /\ LocalKnown' /\ OpeningsKnown'
    BY <1>1, StaysKnown DEF SyncStart
<1>3. LoadsKnown' /\ \A q \in Phones, j \in Loads : Rests(q, j)
    <2>1. PICK next \in {"idle", "pushing", "pull"} : sync' = AfterPush(p, l, next)
        BY DEF SyncStart
    <2>2. PICK s : s = [Asleep EXCEPT !.step = next]
        OBVIOUS
    <2>3. LoadBecomes(p, l, s)
        BY <2>1, <2>2 DEF AfterPush, LoadBecomes
    <2>4. SyncKnown(s, stops')
        BY <2>2, AsleepIs
    <2>5. /\ LoadsKnown' /\ sync'[p][l] = s
          /\ \A q \in Phones, j \in Loads : q # p \/ j # l => sync'[q][j] = sync[q][j]
        BY <1>1, <2>3, <2>4, OneLoad
    <2>6. \A q \in Phones, j \in Loads : sync'[q][j] = sync[q][j] \/ sync'[q][j] = s
        BY <2>5
    <2> QED BY <2>2, <2>5, <2>6, GoesOnRests
<1>4. CASE UNCHANGED call
    <2>1. CallsKnown'
        BY <1>1, <1>4, StaysKnown
    <2> QED BY <1>1, <1>2, <1>3, <1>4, <2>1 DEF Known
<1>5. PICK q : /\ q = Request(p, l, Pending(p), local[p])
               /\ CallKnown(q, stops')
               /\ q.phone = p /\ q.todo = Pending(p) /\ q.step = "sent"
               /\ \A c \in Comics : q.pos[c] = IF c \in Pending(p) THEN LocalPage(p, c) ELSE NoRow
    <2>1. PICK mine \in [Comics -> LocalRow \cup {NoRow}] : mine = local[p]
        BY DEF Known, LocalKnown
    <2>2. PICK S \in SUBSET Comics, by \in Loads \cup {"reader"} : S = Pending(p) /\ by = l
        BY DEF Pending
    <2>3. \A c \in S : mine[c] # NoRow /\ RowKnown(mine[c], c, stops')
        BY <2>1, <2>2 DEF Pending, Known, LocalKnown, SyncStart
    <2>4. PICK q : /\ q = Request(p, by, S, mine)
                   /\ CallKnown(q, stops')
                   /\ q.phone = p /\ q.todo = S /\ q.step = "sent"
                   /\ \A c \in Comics : q.pos[c] = IF c \in S THEN PageOf(mine[c]) ELSE NoRow
        BY <2>3, RequestIs
    <2>5. \A c \in Comics : PageOf(mine[c]) = LocalPage(p, c)
        BY <2>1 DEF PageOf, LocalPage
    <2>6. q = Request(p, l, Pending(p), local[p])
        BY <2>1, <2>2, <2>4
    <2> QED BY <2>2, <2>4, <2>5, <2>6
<1>6. q # Free
    BY <1>5 DEF CallKnown
<1>7. ASSUME NEW k \in Calls, CallBecomes(k, q)
      PROVE  CallsKnown' /\ call'[k] = q /\ \A j \in Calls \ {k} : call'[j] = call[j]
    BY <1>1, <1>5, <1>7, OneCall
<1>8. UNCHANGED call \/ \E k \in Calls : CallBecomes(k, q)
    BY <1>5 DEF SyncStart, CallBecomes
<1>9. CASE \E k \in Calls : CallBecomes(k, q)
    BY <1>1, <1>2, <1>3, <1>5, <1>6, <1>7, <1>9 DEF Known
<1> QED BY <1>3, <1>4, <1>8, <1>9

\* Lemma: a set of numbers that has a bound has a last one.
LEMMA LastOf ==
    ASSUME NEW S \in SUBSET Nat, S # {}, NEW b \in Nat, \A n \in S : n <= b
    PROVE  \E m \in S : \A n \in S : n <= m
<1> DEFINE R == OpToRel(<, Nat)
           Bounds == {k \in Nat : \A n \in S : n <= k}
<1>1. IsWellFoundedOn(R, Nat)
    BY NatLessThanWellFounded
<1>2. Bounds \subseteq Nat /\ Bounds # {}
    OBVIOUS
<1>3. \A x, y \in Nat : y < x => <<y, x>> \in R
    BY DEF OpToRel
<1> HIDE DEF R, Bounds
<1>4. PICK k \in Bounds : \A y \in Bounds : ~(<<y, k>> \in R)
    BY <1>1, <1>2, WFMin
<1>5. k \in Nat /\ \A n \in S : n <= k
    BY <1>4 DEF Bounds
<1>6. ASSUME k \notin S PROVE FALSE
    <2>1. \A n \in S : n <= k - 1
        BY <1>5, <1>6
    <2>2. PICK n \in S : n <= k - 1
        BY <2>1
    <2>3. k - 1 \in Nat /\ k - 1 < k
        BY <1>5, <2>2
    <2>4. k - 1 \in Bounds
        BY <2>1, <2>3 DEF Bounds
    <2>5. <<k - 1, k>> \in R
        BY <1>3, <1>5, <2>3
    <2> QED BY <1>4, <2>4, <2>5
<1> QED BY <1>5, <1>6

\* Lemma: a pull takes every row that has changed since the cursor.
LEMMA PullFetchKnown ==
    ASSUME Known, Past, NEW p \in Phones, NEW l \in Loads, PullFetch(p, l)
    PROVE  /\ Known'
           /\ \A q \in Phones, j \in Loads : q # p \/ j # l => sync'[q][j] = sync[q][j]
           /\ sync'[p][l].merge = NoRow
           /\ \A change \in sync'[p][l].batch : /\ change.comic \in Changed(p)
                                               /\ change.remote = rows[change.comic].page
           /\ sync'[p][l].step = "merging" =>
                 /\ sync'[p][l].upto <= clock
                 /\ \A c \in Changed(p) : \E change \in sync'[p][l].batch :
                       change.comic = c /\ change.version = at[c]
<1>1. RestTyped' /\ Wider
    BY RestStays DEF PullFetch, Known, RestTyped
<1>2. ServerKnown' /\ LocalKnown' /\ OpeningsKnown' /\ CallsKnown'
    BY <1>1, StaysKnown DEF PullFetch
<1>3. CASE Changed(p) = {}
    <2>1. PICK s : s = Asleep
        OBVIOUS
    <2>2. LoadBecomes(p, l, s) /\ SyncKnown(s, stops')
        BY <1>3, <2>1, AsleepIs DEF PullFetch, LoadBecomes
    <2>3. /\ LoadsKnown' /\ sync'[p][l] = s
          /\ \A q \in Phones, j \in Loads : q # p \/ j # l => sync'[q][j] = sync[q][j]
        BY <1>1, <2>2, OneLoad
    <2> QED BY <1>1, <1>2, <2>1, <2>3, AsleepIs DEF Known
<1>4. CASE Changed(p) # {}
    <2> DEFINE Batch == {[comic |-> c, remote |-> rows[c].page, version |-> at[c]] : c \in Changed(p)}
               Instants == {at[c] : c \in Changed(p)}
               upto == CHOOSE n \in Instants : \A c \in Changed(p) : at[c] <= n
    <2>1. \A c \in Changed(p) : /\ c \in Comics /\ at[c] \in Nat /\ at[c] <= clock
                                /\ rows[c] # NoRow
                                /\ rows[c].page \in stops'[c] \cup {0} /\ rows[c].page \in Pages
        BY <1>1 DEF Changed, Known, ServerKnown, Past, RowKnown, PageOf, Wider
    <2>2. upto \in Nat /\ upto <= clock
        <3>1. Instants \in SUBSET Nat /\ Instants # {} /\ \A n \in Instants : n <= clock
            BY <1>4, <2>1
        <3>2. clock \in Nat
            BY DEF Known, ServerKnown
        <3>3. \E m \in Instants : \A n \in Instants : n <= m
            <4> HIDE DEF Instants
            <4> QED BY <3>1, <3>2, LastOf
        <3>4. \E m \in Instants : \A c \in Changed(p) : at[c] <= m
            BY <3>3
        <3>5. upto \in Instants
            BY <3>4
        <3> QED BY <3>1, <3>5
    <2>3. /\ Batch \in SUBSET [comic: Comics, remote: Pages, version: Nat]
          /\ \A change \in Batch : /\ change.comic \in Changed(p)
                                   /\ change.remote = rows[change.comic].page
                                   /\ change.remote \in stops'[change.comic] \cup {0}
          /\ \A c \in Changed(p) : \E change \in Batch : change.comic = c /\ change.version = at[c]
        <3>1. ASSUME NEW change \in Batch
              PROVE  /\ change \in [comic: Comics, remote: Pages, version: Nat]
                     /\ change.comic \in Changed(p)
                     /\ change.remote = rows[change.comic].page
                     /\ change.remote \in stops'[change.comic] \cup {0}
            <4>1. PICK c \in Changed(p) :
                      change = [comic |-> c, remote |-> rows[c].page, version |-> at[c]]
                OBVIOUS
            <4> QED BY <2>1, <4>1
        <3>2. ASSUME NEW c \in Changed(p)
              PROVE  \E change \in Batch : change.comic = c /\ change.version = at[c]
            <4>1. [comic |-> c, remote |-> rows[c].page, version |-> at[c]] \in Batch
                OBVIOUS
            <4> QED BY <4>1
        <3> QED BY <3>1, <3>2
    <2>4. sync' = [sync EXCEPT ![p][l] = [step |-> "merging", merge |-> NoRow,
                                          batch |-> Batch, upto |-> upto]]
        BY <1>4 DEF PullFetch
    <2> HIDE DEF Batch, upto, Instants
    <2>5. PICK s : s = [step |-> "merging", merge |-> NoRow, batch |-> Batch, upto |-> upto]
        OBVIOUS
    <2>6. s \in Sync /\ s.step = "merging" /\ s.merge = NoRow /\ s.batch = Batch /\ s.upto = upto
        BY <2>2, <2>3, <2>5 DEF Sync
    <2>7. SyncKnown(s, stops')
        BY <2>3, <2>6 DEF SyncKnown
    <2>8. LoadBecomes(p, l, s)
        BY <2>4, <2>5 DEF LoadBecomes
    <2>9. /\ LoadsKnown' /\ sync'[p][l] = s
          /\ \A q \in Phones, j \in Loads : q # p \/ j # l => sync'[q][j] = sync[q][j]
        BY <1>1, <2>7, <2>8, OneLoad
    <2>10. Known'
        BY <1>1, <1>2, <2>9 DEF Known
    <2> QED BY <2>2, <2>3, <2>6, <2>9, <2>10
<1> QED BY <1>3, <1>4

\* Lemma: a load gives up, or has nothing more to merge.
LEMMA LoadEndsKnown ==
    ASSUME Known, NEW p \in Phones, NEW l \in Loads, PullFail(p, l) \/ PullDone(p, l)
    PROVE  Known' /\ \A q \in Phones, j \in Loads : Rests(q, j)
<1>1. PICK s : s = Asleep
    OBVIOUS
<1>2. RestTyped' /\ Wider
    <2>1. CASE PullFail(p, l)
        BY <2>1, SpendIs, RestStays DEF PullFail, Kinds
    <2>2. CASE PullDone(p, l)
        BY <2>2 DEF PullDone, BatchCursor, Known, RestTyped, LoadsKnown, Sync, Wider
    <2> QED BY <2>1, <2>2
<1>3. LoadBecomes(p, l, s) /\ SyncKnown(s, stops')
    BY <1>1, AsleepIs DEF PullFail, PullDone, LoadBecomes
<1>4. /\ LoadsKnown' /\ sync'[p][l] = s
      /\ \A q \in Phones, j \in Loads : q # p \/ j # l => sync'[q][j] = sync[q][j]
    BY <1>2, <1>3, OneLoad
<1>5. \A q \in Phones, j \in Loads : Rests(q, j)
    <2>1. s.step # "merging" /\ s.batch = {} /\ s.merge = NoRow
        BY <1>1, AsleepIs
    <2> QED BY <1>4, <2>1 DEF Rests
<1>6. ServerKnown' /\ LocalKnown' /\ OpeningsKnown' /\ CallsKnown'
    BY <1>2, StaysKnown DEF PullFail, PullDone
<1> QED BY <1>2, <1>4, <1>5, <1>6 DEF Known
\* Lemma: a merge reads the local row.
LEMMA MergeReadKnown ==
    ASSUME Known, NEW p \in Phones, NEW l \in Loads, MergeRead(p, l)
    PROVE  /\ Known'
           /\ sync[p][l].step = "merging" /\ sync[p][l].merge = NoRow
           /\ \A q \in Phones, j \in Loads : q # p \/ j # l => sync'[q][j] = sync[q][j]
           /\ \E change \in sync[p][l].batch :
                 LET s == sync'[p][l]
                 IN  /\ s.step = "merging" /\ s.upto = sync[p][l].upto
                     /\ s.batch = sync[p][l].batch \ {change}
                     /\ s.merge # NoRow
                     /\ s.merge.comic = change.comic /\ s.merge.remote = change.remote
                     /\ s.merge.version = change.version
                     /\ s.merge.seen = LocalPage(p, change.comic)
<1>1. RestTyped' /\ Wider
    BY RestStays DEF MergeRead, Known, RestTyped
<1>2. ServerKnown' /\ LocalKnown' /\ OpeningsKnown' /\ CallsKnown'
    BY <1>1, StaysKnown DEF MergeRead
<1>3. PICK old : /\ old = sync[p][l]
                 /\ SyncKnown(old, stops') /\ old \in Sync
                 /\ old.step = "merging" /\ old.merge = NoRow
    BY DEF MergeRead, Known, LoadsKnown
<1>4. PICK change \in old.batch :
          sync' = [sync EXCEPT ![p][l] =
                      [old EXCEPT !.batch = old.batch \ {change},
                                  !.merge = [comic |-> change.comic, remote |-> change.remote,
                                             seen |-> LocalPage(p, change.comic),
                                             version |-> change.version]]]
    BY <1>3 DEF MergeRead
<1>5. change.comic \in Comics /\ change.remote \in Pages /\ change.version \in Nat
    BY <1>3 DEF Sync
<1>6. /\ LocalPage(p, change.comic) \in Pages /\ LocalPage(p, change.comic) # NoRow
      /\ LocalPage(p, change.comic) \in stops'[change.comic] \cup {0}
    BY <1>1, <1>5 DEF Known, LocalKnown, RowKnown, PageOf, LocalPage, Wider
<1>7. PICK m : m = [comic |-> change.comic, remote |-> change.remote,
                    seen |-> LocalPage(p, change.comic), version |-> change.version]
    OBVIOUS
<1>8. /\ m.comic = change.comic /\ m.remote = change.remote
      /\ m.seen = LocalPage(p, change.comic) /\ m.version = change.version
      /\ m \in Merge
    BY <1>5, <1>6, <1>7 DEF Merge
<1>9. MergeKnown(m, stops') /\ m # NoRow
    BY <1>3, <1>6, <1>8 DEF MergeKnown, SyncKnown
<1>10. PICK s : /\ s = [old EXCEPT !.batch = old.batch \ {change}, !.merge = m]
                /\ LoadBecomes(p, l, s)
    BY <1>3, <1>4, <1>7 DEF LoadBecomes, Known, LoadsKnown
<1>11. PICK batch \in SUBSET [comic: Comics, remote: Pages, version: Nat], upto \in Nat :
          old = [step |-> "merging", batch |-> batch, upto |-> upto, merge |-> NoRow]
    BY <1>3 DEF Sync
<1>12. s = [step |-> "merging", batch |-> batch \ {change}, upto |-> upto, merge |-> m]
    BY <1>10, <1>11
<1>13. /\ s.step = "merging" /\ s.batch = old.batch \ {change} /\ s.upto = old.upto /\ s.merge = m
       /\ s \in Sync
    BY <1>8, <1>11, <1>12 DEF Sync
<1>14. SyncKnown(s, stops')
    BY <1>3, <1>8, <1>9, <1>6, <1>13 DEF SyncKnown
<1>15. /\ LoadsKnown' /\ sync'[p][l] = s
       /\ \A q \in Phones, j \in Loads : q # p \/ j # l => sync'[q][j] = sync[q][j]
    BY <1>1, <1>10, <1>14, OneLoad
<1>16. Known'
    BY <1>1, <1>2, <1>15 DEF Known
<1> QED BY <1>3, <1>8, <1>9, <1>13, <1>15, <1>16

\* Lemma: and writes it.
LEMMA MergeWriteKnown ==
    ASSUME Known, NEW p \in Phones, NEW l \in Loads, MergeWrite(p, l)
    PROVE  /\ Known' /\ Wider
           /\ \A q \in Phones, j \in Loads : q # p \/ j # l => sync'[q][j] = sync[q][j]
           /\ sync[p][l].merge # NoRow
           /\ MergeKnown(sync[p][l].merge, stops) /\ sync[p][l].merge.seen # NoRow
           /\ SaveMerge(p, sync[p][l].merge)
           /\ LET s == sync'[p][l]
              IN  /\ s.step = sync[p][l].step /\ s.upto = sync[p][l].upto
                  /\ s.batch = sync[p][l].batch
                  /\ s.merge = NoRow
<1>1. PICK old : /\ old = sync[p][l]
                 /\ SyncKnown(old, stops) /\ old \in Sync /\ old.merge # NoRow
    BY DEF MergeWrite, Known, LoadsKnown
<1>2. MergeKnown(old.merge, stops) /\ old.merge.seen # NoRow /\ SaveMerge(p, old.merge)
    BY <1>1 DEF SyncKnown, MergeWrite
<1>3. Wider /\ UNCHANGED <<cursor, left, stops>>
    BY DEF MergeWrite, Known, RestTyped, Wider
<1>4. LocalKnown' /\ RestTyped'
    BY <1>2, <1>3, SaveMergeIs
<1>5. ServerKnown' /\ OpeningsKnown' /\ CallsKnown'
    BY <1>3, StaysKnown DEF MergeWrite
<1>6. PICK s : s = [old EXCEPT !.merge = NoRow] /\ LoadBecomes(p, l, s)
    BY <1>1 DEF MergeWrite, LoadBecomes, Known, LoadsKnown
<1>7. PICK step \in {"idle", "pushing", "pull", "merging"},
           batch \in SUBSET [comic: Comics, remote: Pages, version: Nat],
           upto \in Nat, merge \in Merge \cup {NoRow} :
          old = [step |-> step, batch |-> batch, upto |-> upto, merge |-> merge]
    BY <1>1 DEF Sync
<1>8. s = [step |-> step, batch |-> batch, upto |-> upto, merge |-> NoRow]
    BY <1>6, <1>7
<1>9. /\ s.step = old.step /\ s.batch = old.batch /\ s.upto = old.upto /\ s.merge = NoRow
      /\ s \in Sync
    BY <1>7, <1>8 DEF Sync
<1>10. SyncKnown(s, stops')
    BY <1>1, <1>3, <1>9 DEF SyncKnown
<1>11. /\ LoadsKnown' /\ sync'[p][l] = s
       /\ \A q \in Phones, j \in Loads : q # p \/ j # l => sync'[q][j] = sync[q][j]
    BY <1>3, <1>6, <1>10, OneLoad
<1>12. Known'
    BY <1>4, <1>5, <1>11 DEF Known
<1> QED BY <1>1, <1>2, <1>3, <1>9, <1>11, <1>12

\* Lemma: opening a comic asks the server for its position.
LEMMA OpenFetchKnown ==
    ASSUME Known, NEW p \in Phones, NEW c \in Comics, OpenFetch(p, c)
    PROVE  /\ Known'
           /\ \A q \in Phones \ {p} : opening'[q] = opening[q]
           /\ opening'[p].comic = c /\ opening'[p].remote = RemotePage(c) /\ opening'[p].seen = NoRow
<1>1. RestTyped' /\ Wider
    BY SpendIs, RestStays DEF OpenFetch, Kinds
<1>2. PICK m : m = [comic |-> c, remote |-> RemotePage(c), seen |-> NoRow, version |-> at[c]]
    OBVIOUS
<1>3. /\ RemotePage(c) \in stops'[c] \cup {0} /\ RemotePage(c) \in Pages /\ at[c] \in Nat
    BY <1>1 DEF Known, ServerKnown, RowKnown, PageOf, RemotePage, Wider
<1>4. /\ m.comic = c /\ m.remote = RemotePage(c) /\ m.seen = NoRow /\ m.version = at[c]
      /\ m \in Merge
    BY <1>2, <1>3 DEF Merge
<1>5. MergeKnown(m, stops')
    BY <1>3, <1>4 DEF MergeKnown
<1>6. OpeningBecomes(p, m)
    BY <1>2 DEF OpenFetch, OpeningBecomes
<1>7. OpeningsKnown' /\ opening'[p] = m /\ \A q \in Phones \ {p} : opening'[q] = opening[q]
    BY <1>1, <1>5, <1>6, OneOpening
<1>8. ServerKnown' /\ LocalKnown' /\ CallsKnown' /\ LoadsKnown'
    BY <1>1, StaysKnown DEF OpenFetch
<1> QED BY <1>1, <1>4, <1>7, <1>8 DEF Known

\* Lemma: then reads the local row.
LEMMA OpenReadKnown ==
    ASSUME Known, NEW p \in Phones, OpenRead(p)
    PROVE  /\ Known'
           /\ \A q \in Phones \ {p} : opening'[q] = opening[q]
           /\ opening[p] # NoRow /\ opening'[p].comic = opening[p].comic
           /\ opening'[p].remote = opening[p].remote
           /\ opening'[p].seen = LocalPage(p, opening[p].comic)
<1>1. RestTyped' /\ Wider
    BY RestStays DEF OpenRead, Known, RestTyped
<1>2. PICK old : old = opening[p] /\ old # NoRow /\ MergeKnown(old, stops') /\ old \in Merge
    BY DEF OpenRead, Known, OpeningsKnown, MergeKnown
<1>3. PICK m : m = [old EXCEPT !.seen = LocalPage(p, old.comic)] /\ OpeningBecomes(p, m)
    BY <1>2 DEF OpenRead, OpeningBecomes, Known, OpeningsKnown
<1>4. PICK comic \in Comics, remote \in Pages, seen \in Pages \cup {NoRow}, version \in Nat :
          old = [comic |-> comic, remote |-> remote, seen |-> seen, version |-> version]
    BY <1>2 DEF Merge
<1>5. m = [comic |-> comic, remote |-> remote, seen |-> LocalPage(p, comic), version |-> version]
    BY <1>3, <1>4
<1>6. /\ LocalPage(p, comic) \in Pages /\ LocalPage(p, comic) \in stops'[comic] \cup {0}
    BY <1>1 DEF Known, LocalKnown, RowKnown, PageOf, LocalPage, Wider
<1>7. /\ m.comic = old.comic /\ m.remote = old.remote /\ m.seen = LocalPage(p, old.comic)
      /\ m \in Merge
    BY <1>4, <1>5, <1>6 DEF Merge
<1>8. MergeKnown(m, stops')
    BY <1>2, <1>4, <1>6, <1>7 DEF MergeKnown
<1>9. OpeningsKnown' /\ opening'[p] = m /\ \A q \in Phones \ {p} : opening'[q] = opening[q]
    BY <1>1, <1>3, <1>8, OneOpening
<1>10. ServerKnown' /\ LocalKnown' /\ CallsKnown' /\ LoadsKnown'
    BY <1>1, StaysKnown DEF OpenRead
<1> QED BY <1>1, <1>2, <1>7, <1>9, <1>10 DEF Known

\* Lemma: and writes it.
LEMMA OpenWriteKnown ==
    ASSUME Known, NEW p \in Phones, OpenWrite(p)
    PROVE  /\ Known' /\ Wider
           /\ MergeKnown(opening[p], stops) /\ opening[p].seen # NoRow /\ opening[p] # NoRow
           /\ SaveMerge(p, opening[p])
           /\ \A q \in Phones : opening'[q] \in {opening[q], NoRow}
<1>1. PICK m : /\ m = opening[p] /\ m # NoRow /\ m.seen # NoRow
               /\ MergeKnown(m, stops) /\ SaveMerge(p, m)
    BY DEF OpenWrite, Known, OpeningsKnown
<1>2. Wider /\ UNCHANGED <<cursor, left, stops>>
    BY DEF OpenWrite, Known, RestTyped, Wider
<1>3. LocalKnown' /\ RestTyped'
    BY <1>1, <1>2, SaveMergeIs
<1>4. OpeningsKnown' /\ \A q \in Phones : opening'[q] \in {opening[q], NoRow}
    <2>1. OpeningBecomes(p, NoRow)
        BY DEF OpenWrite, OpeningBecomes
    <2> QED BY <1>2, <2>1, OneOpening
<1>5. ServerKnown' /\ CallsKnown' /\ LoadsKnown'
    BY <1>2, StaysKnown DEF OpenWrite
<1> QED BY <1>1, <1>2, <1>3, <1>4, <1>5 DEF Known
-----------------------------------------------------------------------------
(* What a load has merged *)

\* Lemma: at first there is no row.
LEMMA InitLoaded == Init => Loaded
BY DEF Init, Loaded, Past, CursorSkipsNothing, Merging, Asleep

\* Lemma: what the server and the cursors do not see.
LEMMA RestsLoaded ==
    ASSUME Loaded, UNCHANGED <<rows, at, clock, cursor, merged>>,
           \A p \in Phones, l \in Loads : Rests(p, l)
    PROVE  Loaded'
<1>1. Past' /\ CursorSkipsNothing'
    BY DEF Loaded, Past, CursorSkipsNothing
<1>2. ASSUME NEW p \in Phones, NEW l \in Loads PROVE Merging(p, l)'
    <2>1. CASE sync'[p][l] = sync[p][l]
        BY <2>1 DEF Loaded, Merging, Held
    <2>2. CASE sync'[p][l].step # "merging"
        BY <2>2 DEF Merging
    <2> QED BY <2>1, <2>2 DEF Rests
<1> QED BY <1>1, <1>2 DEF Loaded

\* Lemma: a write is after every cursor, and every pull.
LEMMA WriteLoaded ==
    ASSUME Known, Loaded, NEW c \in Comics, NEW page \in Pages, NEW status \in Status,
           Write1(c, page, status), UNCHANGED <<cursor, sync, merged>>
    PROVE  Loaded'
<1>1. /\ at' \in [Comics -> Nat] /\ clock' = clock + 1
      /\ \A d \in Comics \ {c} : rows'[d] = rows[d] /\ at'[d] = at[d]
      /\ at'[c] = clock + 1
    BY WriteIs DEF Known
<1>2. /\ clock \in Nat /\ \A d \in Comics : at[d] \in Nat
      /\ \A p \in Phones : cursor[p] \in Nat
      /\ \A p \in Phones, l \in Loads : sync[p][l] \in Sync /\ sync[p][l].upto \in Nat
    BY DEF Known, ServerKnown, RestTyped, LoadsKnown, Sync
<1>3. Past'
    BY <1>1, <1>2 DEF Loaded, Past
<1>4. CursorSkipsNothing'
    <2> SUFFICES ASSUME NEW p \in Phones, NEW d \in Comics, rows'[d] # NoRow, at'[d] <= cursor[p]
                 PROVE  merged[p][d] >= at'[d]
        BY DEF CursorSkipsNothing
    <2>1. d # c
        BY <1>1, <1>2 DEF Loaded, Past
    <2> QED BY <1>1, <2>1 DEF Loaded, CursorSkipsNothing
<1>5. ASSUME NEW p \in Phones, NEW l \in Loads PROVE Merging(p, l)'
    <2> SUFFICES ASSUME sync[p][l].step = "merging"
                 PROVE  /\ sync[p][l].upto <= clock'
                        /\ \A d \in Comics : rows'[d] # NoRow /\ at'[d] <= sync[p][l].upto =>
                              Held(sync[p][l], merged[p][d], d, at'[d])
        BY DEF Merging
    <2>1. /\ sync[p][l].upto <= clock
          /\ \A d \in Comics : rows[d] # NoRow /\ at[d] <= sync[p][l].upto =>
                Held(sync[p][l], merged[p][d], d, at[d])
        BY DEF Loaded, Merging
    <2>2. sync[p][l].upto <= clock' /\ ~(at'[c] <= sync[p][l].upto)
        BY <1>1, <1>2, <2>1
    <2> QED BY <1>1, <2>1, <2>2
<1> QED BY <1>3, <1>4, <1>5 DEF Loaded

\* Lemma: a row that is reset has nothing left to merge.
LEMMA MarkUnreadLoaded == ASSUME Known, Loaded, NEW c \in Comics, MarkUnread(c) PROVE Loaded'
<1>1. /\ \A d \in Comics : rows'[d] # NoRow => rows[d] # NoRow
      /\ UNCHANGED <<at, clock, cursor, sync, merged>>
    BY DEF MarkUnread, Known, ServerKnown
<1>2. Past' /\ CursorSkipsNothing'
    BY <1>1 DEF Loaded, Past, CursorSkipsNothing
<1>3. ASSUME NEW p \in Phones, NEW l \in Loads PROVE Merging(p, l)'
    BY <1>1 DEF Loaded, Merging, Held
<1> QED BY <1>2, <1>3 DEF Loaded

\* Lemma: a pull has at hand what is not merged.
LEMMA PullFetchLoaded ==
    ASSUME Known, Loaded, NEW p \in Phones, NEW l \in Loads, PullFetch(p, l) PROVE Loaded'
<1>1. UNCHANGED <<rows, at, clock, cursor, merged>>
    BY DEF PullFetch, serverVars
<1>2. /\ \A q \in Phones, j \in Loads : q # p \/ j # l => sync'[q][j] = sync[q][j]
      /\ sync'[p][l].step = "merging" =>
            /\ sync'[p][l].upto <= clock
            /\ \A c \in Changed(p) : \E change \in sync'[p][l].batch :
                  change.comic = c /\ change.version = at[c]
    BY PullFetchKnown DEF Loaded
<1>3. Past' /\ CursorSkipsNothing'
    BY <1>1 DEF Loaded, Past, CursorSkipsNothing
<1>4. ASSUME NEW q \in Phones, NEW j \in Loads, q # p \/ j # l PROVE Merging(q, j)'
    BY <1>1, <1>2, <1>4 DEF Loaded, Merging, Held
<1>5. Merging(p, l)'
    <2> SUFFICES ASSUME sync'[p][l].step = "merging", NEW c \in Comics, rows[c] # NoRow
                 PROVE  sync'[p][l].upto <= clock /\ Held(sync'[p][l], merged[p][c], c, at[c])
        BY <1>1, <1>2 DEF Merging
    <2>1. CASE at[c] > cursor[p]
        BY <1>2, <2>1 DEF Changed, Held
    <2>2. CASE at[c] <= cursor[p]
        BY <1>2, <2>2 DEF Loaded, CursorSkipsNothing, Held
    <2>3. at[c] \in Nat /\ cursor[p] \in Nat
        BY DEF Known, ServerKnown, RestTyped
    <2> QED BY <2>1, <2>2, <2>3
<1> QED BY <1>3, <1>4, <1>5 DEF Loaded

\* Lemma: what a merge has read is still at hand.
LEMMA MergeReadLoaded ==
    ASSUME Known, Loaded, NEW p \in Phones, NEW l \in Loads, MergeRead(p, l) PROVE Loaded'
<1>1. UNCHANGED <<rows, at, clock, cursor, merged>>
    BY DEF MergeRead, serverVars
<1>2. PICK change \in sync[p][l].batch :
          /\ sync[p][l].step = "merging" /\ sync[p][l].merge = NoRow
          /\ \A q \in Phones, j \in Loads : q # p \/ j # l => sync'[q][j] = sync[q][j]
          /\ sync'[p][l].step = "merging" /\ sync'[p][l].upto = sync[p][l].upto
          /\ sync'[p][l].batch = sync[p][l].batch \ {change}
          /\ sync'[p][l].merge # NoRow
          /\ sync'[p][l].merge.comic = change.comic
          /\ sync'[p][l].merge.version = change.version
    BY MergeReadKnown
<1>3. Past' /\ CursorSkipsNothing'
    BY <1>1 DEF Loaded, Past, CursorSkipsNothing
<1>4. ASSUME NEW q \in Phones, NEW j \in Loads, q # p \/ j # l PROVE Merging(q, j)'
    BY <1>1, <1>2, <1>4 DEF Loaded, Merging, Held
<1>5. Merging(p, l)'
    <2>1. \A c \in Comics : Held(sync[p][l], merged[p][c], c, at[c])
                                => Held(sync'[p][l], merged[p][c], c, at[c])
        BY <1>2 DEF Held
    <2> QED BY <1>1, <1>2, <2>1 DEF Loaded, Merging
<1> QED BY <1>3, <1>4, <1>5 DEF Loaded

\* Lemma: a merge that is written leaves none behind.
LEMMA SavedIsMerged ==
    ASSUME Known, Wider, NEW p \in Phones, NEW m, MergeKnown(m, stops), m.seen # NoRow,
           SaveMerge(p, m), UNCHANGED <<cursor, left, stops>>
    PROVE  /\ \A q \in Phones, c \in Comics : merged'[q][c] >= merged[q][c]
           /\ merged'[p][m.comic] >= m.version
<1>1. /\ m.comic \in Comics /\ m.version \in Nat
      /\ merged' = [merged EXCEPT ![p][m.comic] = Furthest(merged[p][m.comic], m.version)]
    BY DEF SaveMerge, MergeKnown, Merge
<1>2. \A q \in Phones, c \in Comics : merged[q][c] \in Nat
    BY DEF Known, RestTyped
<1>3. \A q \in Phones, d \in Comics :
          merged'[q][d] = IF q = p /\ d = m.comic THEN Furthest(merged[q][d], m.version)
                          ELSE merged[q][d]
    BY <1>1 DEF Known, RestTyped
<1>4. merged'[p][m.comic] >= m.version /\ merged'[p][m.comic] >= merged[p][m.comic]
    BY <1>1, <1>2, <1>3 DEF Furthest
<1>5. ASSUME NEW q \in Phones, NEW c \in Comics PROVE merged'[q][c] >= merged[q][c]
    BY <1>2, <1>3, <1>4
<1> QED BY <1>4, <1>5

\* Lemma: what is at hand, or merged, stays so when more is merged.
LEMMA StaysMerged ==
    ASSUME Known, Loaded, UNCHANGED <<rows, at, clock, cursor>>, RestTyped',
           \A q \in Phones, c \in Comics : merged'[q][c] >= merged[q][c]
    PROVE  /\ Past' /\ CursorSkipsNothing'
           /\ \A p \in Phones, l \in Loads : sync'[p][l] = sync[p][l] => Merging(p, l)'
<1>1. /\ \A c \in Comics : at[c] \in Nat
      /\ \A q \in Phones, c \in Comics : merged[q][c] \in Nat /\ merged'[q][c] \in Nat
    BY DEF Known, ServerKnown, RestTyped
<1>2. \A q \in Phones, c \in Comics : merged[q][c] >= at[c] => merged'[q][c] >= at[c]
    BY <1>1
<1>3. Past'
    BY DEF Loaded, Past
<1>4. CursorSkipsNothing'
    BY <1>2 DEF Loaded, CursorSkipsNothing
<1>5. \A p \in Phones, l \in Loads : sync'[p][l] = sync[p][l] => Merging(p, l)'
    BY <1>2 DEF Loaded, Merging, Held
<1> QED BY <1>3, <1>4, <1>5

\* Lemma: the merge of a load.
LEMMA MergeWriteLoaded ==
    ASSUME Known, Loaded, NEW p \in Phones, NEW l \in Loads, MergeWrite(p, l) PROVE Loaded'
<1>1. UNCHANGED <<rows, at, clock, cursor, left, stops>>
    BY DEF MergeWrite, serverVars
<1>2. /\ Known' /\ Wider
      /\ \A q \in Phones, j \in Loads : q # p \/ j # l => sync'[q][j] = sync[q][j]
      /\ sync'[p][l].step = sync[p][l].step /\ sync'[p][l].upto = sync[p][l].upto
      /\ sync'[p][l].batch = sync[p][l].batch
      /\ sync'[p][l].merge = NoRow
    BY MergeWriteKnown
<1>3. PICK m : /\ m = sync[p][l].merge /\ m # NoRow
               /\ MergeKnown(m, stops) /\ m.seen # NoRow /\ SaveMerge(p, m)
    BY MergeWriteKnown
<1>4. /\ \A q \in Phones, c \in Comics : merged'[q][c] >= merged[q][c]
      /\ merged'[p][m.comic] >= m.version
    BY <1>1, <1>2, <1>3, SavedIsMerged
<1>5. /\ Past' /\ CursorSkipsNothing'
      /\ \A q \in Phones, j \in Loads : sync'[q][j] = sync[q][j] => Merging(q, j)'
    BY <1>1, <1>2, <1>4, StaysMerged DEF Known
<1>6. Merging(p, l)'
    <2>1. ASSUME NEW c \in Comics, Held(sync[p][l], merged[p][c], c, at[c])
          PROVE  Held(sync'[p][l], merged'[p][c], c, at[c])
        <3>1. CASE merged[p][c] >= at[c]
            <4>1. at[c] \in Nat /\ merged[p][c] \in Nat /\ merged'[p][c] \in Nat
                BY <1>2 DEF Known, ServerKnown, RestTyped
            <4>2. merged'[p][c] >= at[c]
                BY <1>4, <3>1, <4>1
            <4> QED BY <4>2 DEF Held
        <3>2. CASE \E change \in sync[p][l].batch : change.comic = c /\ change.version = at[c]
            BY <1>2, <3>2 DEF Held
        <3>3. CASE m.comic = c /\ m.version = at[c]
            BY <1>4, <3>3 DEF Held
        <3> QED BY <1>3, <2>1, <3>1, <3>2, <3>3 DEF Held
    <2> QED BY <1>1, <1>2, <2>1 DEF Loaded, Merging
<1> QED BY <1>2, <1>5, <1>6 DEF Loaded

\* Lemma: the merge of an opening.
LEMMA OpenWriteLoaded == ASSUME Known, Loaded, NEW p \in Phones, OpenWrite(p) PROVE Loaded'
<1>1. UNCHANGED <<rows, at, clock, cursor, left, stops>> /\ UNCHANGED sync
    BY DEF OpenWrite, serverVars
<1>2. Known' /\ Wider
    BY OpenWriteKnown
<1>3. PICK m : m = opening[p] /\ MergeKnown(m, stops) /\ m.seen # NoRow /\ SaveMerge(p, m)
    BY OpenWriteKnown
<1>4. \A q \in Phones, c \in Comics : merged'[q][c] >= merged[q][c]
    BY <1>1, <1>2, <1>3, SavedIsMerged
<1> QED BY <1>1, <1>2, <1>4, StaysMerged DEF Known, Loaded

\* Lemma: a load saves its cursor when it has nothing at hand.
LEMMA PullDoneLoaded ==
    ASSUME Known, Loaded, NEW p \in Phones, NEW l \in Loads, PullDone(p, l) PROVE Loaded'
<1>1. UNCHANGED <<rows, at, clock, merged>>
    BY DEF PullDone, serverVars
<1>2. /\ sync[p][l].step = "merging" /\ sync[p][l].batch = {} /\ sync[p][l].merge = NoRow
      /\ cursor' = [cursor EXCEPT ![p] = sync[p][l].upto]
    BY DEF PullDone, BatchMerged, BatchCursor
<1>3. \A q \in Phones : cursor'[q] = IF q = p THEN sync[p][l].upto ELSE cursor[q]
    BY <1>2 DEF Known, RestTyped
<1>4. /\ sync[p][l].upto <= clock
      /\ \A c \in Comics : rows[c] # NoRow /\ at[c] <= sync[p][l].upto => merged[p][c] >= at[c]
    BY <1>2 DEF Loaded, Merging, Held
<1>5. Past'
    BY <1>1, <1>3, <1>4 DEF Loaded, Past
<1>6. CursorSkipsNothing'
    BY <1>1, <1>3, <1>4 DEF Loaded, CursorSkipsNothing
<1>7. ASSUME NEW q \in Phones, NEW j \in Loads PROVE Merging(q, j)'
    <2>1. Rests(q, j)
        BY LoadEndsKnown
    <2>2. CASE sync'[q][j] = sync[q][j]
        BY <1>1, <2>2 DEF Loaded, Merging, Held
    <2>3. CASE sync'[q][j].step # "merging"
        BY <2>3 DEF Merging
    <2> QED BY <2>1, <2>2, <2>3 DEF Rests
<1> QED BY <1>5, <1>6, <1>7 DEF Loaded

\* Lemma: every step keeps where positions come from, and what is merged.
LEMMA NextKnownLoaded == Known /\ Loaded /\ [Next]_vars => Known' /\ Loaded'
<1> SUFFICES ASSUME Known, Loaded, [Next]_vars PROVE Known' /\ Loaded'
    OBVIOUS
<1>1. ASSUME NEW p \in Phones, NEW c \in Comics, NEW page \in Stops, Turn(p, c, page)
      PROVE  Known' /\ Loaded'
    <2>1. UNCHANGED <<rows, at, clock, cursor, merged>> /\ UNCHANGED sync
        BY <1>1 DEF Turn, serverVars
    <2> QED BY <1>1, <2>1, TurnKnown, RestsLoaded DEF Rests
<1>2. ASSUME NEW c \in Comics, NEW page \in Stops, WebRead(c, page) PROVE Known' /\ Loaded'
    <2>1. /\ Write1(c, page, DeriveStatus(page, PageCount)) /\ UNCHANGED <<cursor, sync, merged>>
          /\ page \in Pages /\ DeriveStatus(page, PageCount) \in Status
        BY <1>2, StatusIs DEF WebRead
    <2> QED BY <1>2, <2>1, WebReadKnown, WriteLoaded
<1>3. ASSUME NEW c \in Comics, MarkUnread(c) PROVE Known' /\ Loaded'
    BY <1>3, MarkUnreadKnown, MarkUnreadLoaded
<1>4. ASSUME NEW k \in Calls, Apply(k) PROVE Known' /\ Loaded'
    <2>1. UNCHANGED <<cursor, sync, merged>>
        BY <1>4 DEF Apply
    <2>2. /\ Known'
          /\ \E c \in Comics, page \in Pages, status \in Status : Write1(c, page, status)
        BY <1>4, ApplyKnown
    <2> QED BY <2>1, <2>2, WriteLoaded
<1>5. ASSUME NEW k \in Calls, Ack(k) PROVE Known' /\ Loaded'
    <2>1. UNCHANGED <<rows, at, clock, cursor, merged>>
        BY <1>5 DEF Ack, serverVars
    <2> QED BY <1>5, <2>1, AckKnown, RestsLoaded
<1>6. ASSUME NEW k \in Calls, Lose(k) \/ Refuse(k) PROVE Known' /\ Loaded'
    <2>1. UNCHANGED <<rows, at, clock, cursor, merged>>
        BY <1>6 DEF Lose, Refuse, serverVars
    <2> QED BY <1>6, <2>1, FaultKnown, RestsLoaded
<1>7. ASSUME NEW p \in Phones, NEW l \in Loads, SyncStart(p, l) PROVE Known' /\ Loaded'
    <2>1. UNCHANGED <<rows, at, clock, cursor, merged>>
        BY <1>7 DEF SyncStart, serverVars
    <2>2. Known' /\ \A q \in Phones, j \in Loads : Rests(q, j)
        BY <1>7, SyncStartKnown
    <2> QED BY <2>1, <2>2, RestsLoaded
<1>8. ASSUME NEW p \in Phones, NEW l \in Loads, PullFetch(p, l) PROVE Known' /\ Loaded'
    <2>1. Past
        BY DEF Loaded
    <2> QED BY <1>8, <2>1, PullFetchKnown, PullFetchLoaded
<1>9. ASSUME NEW p \in Phones, NEW l \in Loads, MergeRead(p, l) PROVE Known' /\ Loaded'
    BY <1>9, MergeReadKnown, MergeReadLoaded
<1>10. ASSUME NEW p \in Phones, NEW l \in Loads, MergeWrite(p, l) PROVE Known' /\ Loaded'
    BY <1>10, MergeWriteKnown, MergeWriteLoaded
<1>11. ASSUME NEW p \in Phones, NEW l \in Loads, PullDone(p, l) PROVE Known' /\ Loaded'
    BY <1>11, LoadEndsKnown, PullDoneLoaded
<1>12. ASSUME NEW p \in Phones, NEW l \in Loads, PullFail(p, l) PROVE Known' /\ Loaded'
    <2>1. UNCHANGED <<rows, at, clock, cursor, merged>>
        BY <1>12 DEF PullFail, serverVars
    <2> QED BY <1>12, <2>1, LoadEndsKnown, RestsLoaded
<1>13. ASSUME NEW p \in Phones, NEW c \in Comics, OpenFetch(p, c) PROVE Known' /\ Loaded'
    <2>1. UNCHANGED <<rows, at, clock, cursor, merged>> /\ UNCHANGED sync
        BY <1>13 DEF OpenFetch, serverVars
    <2> QED BY <1>13, <2>1, OpenFetchKnown, RestsLoaded DEF Rests
<1>14. ASSUME NEW p \in Phones, OpenRead(p) PROVE Known' /\ Loaded'
    <2>1. UNCHANGED <<rows, at, clock, cursor, merged>> /\ UNCHANGED sync
        BY <1>14 DEF OpenRead, serverVars
    <2> QED BY <1>14, <2>1, OpenReadKnown, RestsLoaded DEF Rests
<1>15. ASSUME NEW p \in Phones, OpenWrite(p) PROVE Known' /\ Loaded'
    BY <1>15, OpenWriteKnown, OpenWriteLoaded
<1>16. ASSUME NEW p \in Phones, Kill(p) PROVE Known' /\ Loaded'
    <2>1. UNCHANGED <<rows, at, clock, cursor, merged>>
        BY <1>16 DEF Kill, serverVars
    <2> QED BY <1>16, <2>1, KillKnown, RestsLoaded
<1>17. CASE UNCHANGED vars
    <2>1. UNCHANGED <<rows, at, clock, cursor, merged>> /\ UNCHANGED sync
        BY <1>17 DEF vars
    <2>2. UNCHANGED <<local, call, opening, left, stops, wiped>>
        BY <1>17 DEF vars
    <2>3. RestTyped' /\ Wider
        BY <2>1, <2>2 DEF Known, RestTyped, Wider
    <2>4. Known'
        BY <2>1, <2>2, <2>3, StaysKnown DEF Known, serverVars
    <2> QED BY <2>1, <2>4, RestsLoaded DEF Rests
<1> QED BY <1>1, <1>2, <1>3, <1>4, <1>5, <1>6, <1>7, <1>8, <1>9, <1>10, <1>11, <1>12,
           <1>13, <1>14, <1>15, <1>16, <1>17 DEF Next, CallStep, SyncStep, OpenStep

\* Lemma: both hold at all times.
LEMMA KnownLoaded == Spec => [](Known /\ Loaded)
BY InitKnown, InitLoaded, NextKnownLoaded, PTL DEF Spec

\* Lemma: the histories speak of the comics and the phones there are.
LEMMA NextRecorded == Known /\ Recorded /\ [Next]_vars => Recorded'
<1> SUFFICES ASSUME Known, Recorded, [Next]_vars PROVE Recorded'
    OBVIOUS
<1>1. ASSUME NEW p \in Phones, NEW c \in Comics, NEW page \in Stops, Turn(p, c, page) PROVE Recorded'
    BY <1>1 DEF Turn, serverVars, Recorded
<1>2. ASSUME NEW c \in Comics, NEW page \in Stops, WebRead(c, page) PROVE Recorded'
    BY <1>2 DEF WebRead, Write1, Recorded
<1>3. ASSUME NEW c \in Comics, MarkUnread(c) PROVE Recorded'
    BY <1>3 DEF MarkUnread, Recorded
<1>4. ASSUME NEW k \in Calls, Apply(k) PROVE Recorded'
    <2>1. UNCHANGED dropped /\ \E c \in Comics : wiped' \subseteq wiped \cup {c}
        BY <1>4, ApplyKnown DEF Apply, Write1
    <2> QED BY <2>1 DEF Recorded
<1>5. ASSUME NEW k \in Calls, Ack(k) PROVE Recorded'
    <2>1. call[k] # Free /\ UNCHANGED wiped
        BY <1>5 DEF Ack, serverVars
    <2>2. call[k].phone \in Phones
        BY <2>1 DEF Known, CallsKnown, Call
    <2>3. dropped' \subseteq dropped \cup {<<call[k].phone, c>> : c \in Comics}
        BY <1>5 DEF Ack, Sent
    <2> QED BY <2>1, <2>2, <2>3 DEF Recorded
<1>6. ASSUME NEW p \in Phones, NEW m, SaveMerge(p, m), UNCHANGED serverVars PROVE Recorded'
    BY <1>6 DEF SaveMerge, serverVars, Recorded
<1>7. CASE UNCHANGED <<wiped, dropped>>
    BY <1>7 DEF Recorded
<1>8. ASSUME NEW k \in Calls, Lose(k) \/ Refuse(k) PROVE UNCHANGED <<wiped, dropped>>
    BY <1>8 DEF Lose, Refuse, serverVars
<1>9. ASSUME NEW p \in Phones, NEW l \in Loads,
             SyncStart(p, l) \/ PullFetch(p, l) \/ PullFail(p, l) \/ MergeRead(p, l) \/ PullDone(p, l)
      PROVE  UNCHANGED <<wiped, dropped>>
    BY <1>9 DEF SyncStart, PullFetch, PullFail, MergeRead, PullDone, serverVars
<1>10. ASSUME NEW p \in Phones, OpenRead(p) \/ Kill(p) \/ \E c \in Comics : OpenFetch(p, c)
       PROVE  UNCHANGED <<wiped, dropped>>
    BY <1>10 DEF OpenRead, Kill, OpenFetch, serverVars
<1>11. ASSUME NEW p \in Phones, NEW l \in Loads, MergeWrite(p, l) PROVE Recorded'
    BY <1>6, <1>11 DEF MergeWrite
<1>12. ASSUME NEW p \in Phones, OpenWrite(p) PROVE Recorded'
    BY <1>6, <1>12 DEF OpenWrite
<1>13. CASE UNCHANGED vars
    BY <1>7, <1>13 DEF vars
<1> QED BY <1>1, <1>2, <1>3, <1>4, <1>5, <1>7, <1>8, <1>9, <1>10, <1>11, <1>12, <1>13
        DEF Next, CallStep, SyncStep, OpenStep

\* Every variable keeps the type it is declared with
\* (apps/mobile/lib/core/sync/progress_sync.dart).
THEOREM PhoneTypes == Spec => []TypeOK
<1>1. Init => Recorded
    BY DEF Init, Recorded
<1>2. Spec => []Recorded
    BY <1>1, NextRecorded, KnownLoaded, PTL DEF Spec
<1> QED BY <1>2, KnownLoaded, KnownTyped, PTL

\* A position anywhere in the system, in the server's rows, in a phone's or in
\* a request, is one a reader stopped on in that comic, or the first page.
THEOREM InventedTheorem == Spec => []NothingInvented
<1>1. Known => NothingInvented
    BY DEF Known, ServerKnown, LocalKnown, CallsKnown, RowKnown, CallKnown, PageOf,
           NothingInvented, LocalPage
<1> QED BY <1>1, KnownLoaded, PTL

\* A phone whose cursor has passed a row's last change has merged that change,
\* whatever the loads side by side, the failures and the kills (pullSync).
THEOREM CursorTheorem == Spec => []CursorSkipsNothing
<1>1. Loaded => CursorSkipsNothing
    BY DEF Loaded
<1> QED BY <1>1, KnownLoaded, PTL

-----------------------------------------------------------------------------
(* How positions compare *)

\* Lemma: all that is compared is a page.
LEMMA Pages4 ==
    ASSUME Known
    PROVE  /\ \A c \in Comics : PageOf(rows[c]) \in Nat
           /\ \A p \in Phones, c \in Comics : PageOf(local[p][c]) \in Nat
           /\ \A k \in Calls : call[k] # Free =>
                 /\ call[k].phone \in Phones
                 /\ \A c \in Comics : call[k].pos[c] # NoRow => call[k].pos[c] \in Nat
           /\ \A p \in Phones, l \in Loads :
                 /\ \A change \in sync[p][l].batch : change.comic \in Comics /\ change.remote \in Nat
                 /\ sync[p][l].merge # NoRow => MergeKnown(sync[p][l].merge, stops)
           /\ \A p \in Phones : opening[p] # NoRow => MergeKnown(opening[p], stops)
<1>1. \A c \in Comics : stops[c] \cup {0} \subseteq Nat
    BY DEF Known, RestTyped
<1>2. /\ \A c \in Comics : PageOf(rows[c]) \in Nat
      /\ \A p \in Phones, c \in Comics : PageOf(local[p][c]) \in Nat
    BY <1>1 DEF Known, ServerKnown, LocalKnown, RowKnown
<1>3. ASSUME NEW k \in Calls, call[k] # Free
      PROVE  /\ call[k].phone \in Phones
             /\ \A c \in Comics : call[k].pos[c] # NoRow => call[k].pos[c] \in Nat
    <2>1. CallKnown(call[k], stops)
        BY <1>3 DEF Known, CallsKnown
    <2> QED BY <1>1, <2>1 DEF CallKnown, Call
<1>4. ASSUME NEW p \in Phones, NEW l \in Loads
      PROVE  /\ \A change \in sync[p][l].batch : change.comic \in Comics /\ change.remote \in Nat
             /\ sync[p][l].merge # NoRow => MergeKnown(sync[p][l].merge, stops)
    <2>1. SyncKnown(sync[p][l], stops)
        BY DEF Known, LoadsKnown
    <2> QED BY <1>1, <2>1 DEF SyncKnown, Sync
<1>5. \A p \in Phones : opening[p] # NoRow => MergeKnown(opening[p], stops)
    BY DEF Known, OpeningsKnown
<1> QED BY <1>2, <1>3, <1>4, <1>5

\* Lemma: a merge is of pages.
LEMMA MergePages ==
    ASSUME NEW m, MergeKnown(m, stops)
    PROVE  m.comic \in Comics /\ m.remote \in Nat /\ (m.seen # NoRow => m.seen \in Nat)
BY DEF MergeKnown, Merge

\* The server takes no position back but those of the comics that it was told
\* to.
Forwards == \A c \in Comics \ wiped' : c \notin wiped /\ PageOf(rows[c]) <= PageOf(rows'[c])

\* A mark that was dropped and is not made again stays dropped.
StaysDropped(p, c) == <<p, c>> \in dropped => <<p, c>> \in dropped'

\* Lemma: what a step leaves alone, or ends, compares as before.
LEMMA StaysCompared ==
    ASSUME Known, Known', Ordered, Forwards, NEW c \in Comics \ wiped'
    PROVE  /\ \A p \in Phones : local'[p][c] = local[p][c] /\ StaysDropped(p, c) => AtRow(p, c)'
           /\ \A k \in Calls : Ends(k) => AtCall(k, c)'
           /\ \A p \in Phones, l \in Loads : Rests(p, l) => AtLoad(p, l, c)'
           /\ \A p \in Phones : opening'[p] \in {opening[p], NoRow} => AtOpening(p, c)'
<1>1. /\ PageOf(rows[c]) \in Nat /\ PageOf(rows'[c]) \in Nat
      /\ PageOf(rows[c]) <= PageOf(rows'[c])
      /\ \A p \in Phones : PageOf(local[p][c]) \in Nat
      /\ Compared(c)
    <2>1. stops'[c] \cup {0} \subseteq Nat
        BY DEF Known, RestTyped
    <2>2. PageOf(rows'[c]) \in Nat
        BY <2>1 DEF Known, ServerKnown, RowKnown
    <2> QED BY <2>2, Pages4 DEF Forwards, Ordered
<1>2. ASSUME NEW p \in Phones, local'[p][c] = local[p][c], StaysDropped(p, c) PROVE AtRow(p, c)'
    BY <1>1, <1>2 DEF Compared, AtRow, StaysDropped
<1>3. ASSUME NEW k \in Calls, Ends(k) PROVE AtCall(k, c)'
    <2> SUFFICES ASSUME call'[k] # Free, call'[k].pos[c] # NoRow, c \notin call'[k].todo
                 PROVE  call'[k].pos[c] <= PageOf(rows'[c])
        BY DEF AtCall
    <2>1. call[k] # Free /\ call'[k].pos = call[k].pos /\ call'[k].todo = call[k].todo
        BY <1>3 DEF Ends
    <2>2. call[k].pos[c] \in Nat /\ call[k].pos[c] <= PageOf(rows[c])
        BY <1>1, <2>1, Pages4 DEF Compared, AtCall
    <2> QED BY <1>1, <2>1, <2>2
<1>4. ASSUME NEW p \in Phones, NEW l \in Loads, Rests(p, l) PROVE AtLoad(p, l, c)'
    <2>1. CASE sync'[p][l].batch = {} /\ sync'[p][l].merge = NoRow
        BY <2>1 DEF AtLoad
    <2>2. CASE sync'[p][l] = sync[p][l]
        <3>1. PICK s : s = sync[p][l]
            OBVIOUS
        <3>2. /\ \A change \in s.batch : change.remote \in Nat
              /\ \A change \in s.batch : change.comic = c => change.remote <= PageOf(rows[c])
            BY <1>1, <3>1, Pages4 DEF Compared, AtLoad
        <3>3. s.merge # NoRow => s.merge.remote \in Nat
            BY <3>1, Pages4, MergePages
        <3>4. s.merge # NoRow /\ s.merge.comic = c => s.merge.remote <= PageOf(rows[c])
            BY <1>1, <3>1 DEF Compared, AtLoad
        <3>5. \A change \in s.batch : change.comic = c => change.remote <= PageOf(rows'[c])
            BY <1>1, <3>2
        <3>6. s.merge # NoRow /\ s.merge.comic = c => s.merge.remote <= PageOf(rows'[c])
            BY <1>1, <3>3, <3>4
        <3> QED BY <2>2, <3>1, <3>5, <3>6 DEF AtLoad
    <2> QED BY <1>4, <2>1, <2>2 DEF Rests
<1>5. ASSUME NEW p \in Phones, opening'[p] \in {opening[p], NoRow} PROVE AtOpening(p, c)'
    <2> SUFFICES ASSUME opening'[p] # NoRow, opening'[p].comic = c
                 PROVE  opening'[p].remote <= PageOf(rows'[c])
        BY DEF AtOpening
    <2>1. opening[p] # NoRow /\ opening'[p] = opening[p]
        BY <1>5
    <2>2. opening[p].remote \in Nat /\ opening[p].remote <= PageOf(rows[c])
        BY <1>1, <2>1, Pages4, MergePages DEF Compared, AtOpening
    <2> QED BY <1>1, <2>1, <2>2
<1> QED BY <1>2, <1>3, <1>4, <1>5

\* Lemma: a step that writes no row of a phone and begins nothing.
LEMMA RestsOrdered ==
    ASSUME Known, Known', Ordered, Forwards, UNCHANGED <<local, dropped>>,
           \A k \in Calls : Ends(k), \A p \in Phones, l \in Loads : Rests(p, l),
           \A p \in Phones : opening'[p] \in {opening[p], NoRow}
    PROVE  Ordered'
<1> SUFFICES ASSUME NEW c \in Comics \ wiped' PROVE Compared(c)'
    BY DEF Ordered
<1>1. \A p \in Phones : local'[p][c] = local[p][c] /\ StaysDropped(p, c)
    BY DEF StaysDropped
<1> QED BY <1>1, StaysCompared DEF Compared

\* Lemma: a server that is not touched goes forwards.
LEMMA StillForwards == Known /\ UNCHANGED <<rows, wiped>> => Forwards
BY Pages4 DEF Forwards

\* Lemma: so does one that is told of a position.
LEMMA WriteForwards ==
    ASSUME Known, NEW c \in Comics, NEW page \in Pages, NEW status \in Status,
           Write1(c, page, status)
    PROVE  Forwards /\ page <= PageOf(rows'[c])
<1>1. /\ \A d \in Comics \ {c} : rows'[d] = rows[d]
      /\ page <= PageOf(rows'[c])
      /\ c \notin wiped' => PageOf(rows[c]) <= PageOf(rows'[c])
      /\ wiped \subseteq wiped'
    BY WriteIs DEF Known
<1>2. \A d \in Comics : PageOf(rows[d]) \in Nat
    BY Pages4
<1> QED BY <1>1, <1>2 DEF Forwards

\* Lemma: the web reader, and the reset.
LEMMA WebOrdered ==
    ASSUME Known, Ordered, NEW c \in Comics,
           MarkUnread(c) \/ \E page \in Stops : WebRead(c, page)
    PROVE  Ordered'
<1>1. CASE MarkUnread(c)
    <2>1. /\ \A d \in Comics : rows'[d] = IF d = c THEN NoRow ELSE rows[d]
          /\ wiped' = wiped \cup {c}
          /\ UNCHANGED <<local, dropped>> /\ UNCHANGED <<sync, opening, call>>
        BY <1>1 DEF MarkUnread, Known, ServerKnown
    <2>2. Forwards
        BY <2>1, Pages4 DEF Forwards
    <2> QED BY <1>1, <2>1, <2>2, MarkUnreadKnown, RestsOrdered DEF Ends, Rests
<1>2. ASSUME NEW page \in Stops, WebRead(c, page) PROVE Ordered'
    <2>1. page \in Pages /\ DeriveStatus(page, PageCount) \in Status
        BY StatusIs
    <2>2. Forwards
        BY <1>2, <2>1, WriteForwards DEF WebRead
    <2>3. UNCHANGED <<local, dropped>> /\ UNCHANGED <<sync, opening, call>>
        BY <1>2 DEF WebRead
    <2> QED BY <1>2, <2>2, <2>3, WebReadKnown, RestsOrdered DEF Ends, Rests
<1> QED BY <1>1, <1>2

\* Lemma: the server applies one position of a call.
LEMMA ApplyOrdered == ASSUME Known, Ordered, NEW k \in Calls, Apply(k) PROVE Ordered'
<1>1. Known' /\ call[k] # Free /\ \A j \in Calls \ {k} : call'[j] = call[j]
    BY ApplyKnown
<1>2. PICK d \in call[k].todo :
          /\ d \in Comics /\ call[k].pos[d] \in Pages
          /\ Write1(d, call[k].pos[d], StatusFor(call[k].pos[d], PageCount))
          /\ StatusFor(call[k].pos[d], PageCount) \in Status
          /\ call'[k] # Free =>
                /\ call'[k].phone = call[k].phone /\ call'[k].pos = call[k].pos
                /\ call'[k].todo = call[k].todo \ {d}
                /\ call'[k].step = "orphan" <=> call[k].step = "orphan"
    BY ApplyKnown
<1>3. Forwards /\ call[k].pos[d] <= PageOf(rows'[d])
    BY <1>2, WriteForwards
<1>4. UNCHANGED <<local, dropped>> /\ UNCHANGED <<sync, opening>>
    BY DEF Apply
<1> SUFFICES ASSUME NEW c \in Comics \ wiped' PROVE Compared(c)'
    BY DEF Ordered
<1>5. \A p \in Phones : local'[p][c] = local[p][c] /\ StaysDropped(p, c)
    BY <1>4 DEF StaysDropped
<1>6. /\ \A p \in Phones : AtRow(p, c)'
      /\ \A p \in Phones, l \in Loads : AtLoad(p, l, c)'
      /\ \A p \in Phones : AtOpening(p, c)'
      /\ \A j \in Calls \ {k} : AtCall(j, c)'
    BY <1>1, <1>3, <1>4, <1>5, StaysCompared DEF Ends, Rests
<1>7. AtCall(k, c)'
    <2> SUFFICES ASSUME call'[k] # Free, call'[k].pos[c] # NoRow, c \notin call'[k].todo
                 PROVE  call'[k].pos[c] <= PageOf(rows'[c])
        BY DEF AtCall
    <2>1. CASE c = d
        BY <1>2, <1>3, <2>1
    <2>2. CASE c # d
        <3>1. call[k].pos[c] # NoRow /\ c \notin call[k].todo /\ call'[k].pos = call[k].pos
            BY <1>2, <2>2
        <3>2. call[k].pos[c] \in Nat /\ call[k].pos[c] <= PageOf(rows[c])
            BY <1>1, <1>3, <3>1, Pages4 DEF Forwards, Ordered, Compared, AtCall
        <3>3. PageOf(rows[c]) \in Nat /\ PageOf(rows[c]) <= PageOf(rows'[c]) /\ PageOf(rows'[c]) \in Nat
            <4>1. stops'[c] \cup {0} \subseteq Nat
                BY <1>1 DEF Known, RestTyped
            <4> QED BY <1>1, <1>3, <4>1, Pages4 DEF Forwards, Known, ServerKnown, RowKnown
        <3> QED BY <3>1, <3>2, <3>3
    <2> QED BY <2>1, <2>2
<1> QED BY <1>6, <1>7 DEF Compared

\* Lemma: a row whose mark is cleared is one the server has, or the mark is
\* dropped.
LEMMA AckOrdered == ASSUME Known, Ordered, NEW k \in Calls, Ack(k) PROVE Ordered'
<1>1. /\ Known' /\ \A j \in Calls : Ends(j)
      /\ \A p \in Phones, l \in Loads : Rests(p, l)
      /\ call[k] # Free /\ call[k].todo = {}
      /\ \A q \in Phones, c \in Comics :
            \/ local'[q][c] = local[q][c]
            \/ /\ q = call[k].phone /\ call[k].pos[c] # NoRow
               /\ local[q][c] # NoRow /\ local'[q][c] # NoRow
               /\ local'[q][c].page = local[q][c].page /\ ~local'[q][c].pending
    BY AckKnown
<1>2. UNCHANGED <<rows, wiped, opening>>
    BY DEF Ack, serverVars
<1>3. Forwards
    BY <1>2, StillForwards
<1> SUFFICES ASSUME NEW c \in Comics \ wiped' PROVE Compared(c)'
    BY DEF Ordered
<1>4. \A p \in Phones : StaysDropped(p, c)
    BY DEF Ack, StaysDropped
<1>5. /\ \A p \in Phones : local'[p][c] = local[p][c] => AtRow(p, c)'
      /\ \A p \in Phones, l \in Loads : AtLoad(p, l, c)'
      /\ \A p \in Phones : AtOpening(p, c)'
      /\ \A j \in Calls : AtCall(j, c)'
    BY <1>1, <1>2, <1>3, <1>4, StaysCompared
<1>6. ASSUME NEW p \in Phones, local'[p][c] # local[p][c] PROVE AtRow(p, c)'
    <2> SUFFICES ASSUME <<p, c>> \notin dropped', PageOf(local'[p][c]) > PageOf(rows[c])
                 PROVE  FALSE
        BY <1>2 DEF AtRow
    <2>1. /\ p = call[k].phone /\ call[k].pos[c] # NoRow
          /\ local[p][c] # NoRow
          /\ PageOf(local'[p][c]) = PageOf(local[p][c])
        BY <1>1, <1>6 DEF PageOf
    <2>2. <<p, c>> \notin dropped /\ local[p][c].pending
        <3>1. AtRow(p, c)
            BY <1>2 DEF Ordered, Compared
        <3> QED BY <1>4, <2>1, <3>1 DEF AtRow, StaysDropped
    <2>3. c \in Sent(k) \cap Pending(p) /\ LocalPage(p, c) = PageOf(local[p][c])
        BY <2>1, <2>2 DEF Sent, Pending, LocalPage, PageOf
    <2>4. ~(LocalPage(p, c) > call[k].pos[c])
        BY <2>1, <2>3 DEF Ack
    <2>5. call[k].pos[c] <= PageOf(rows[c])
        BY <1>1, <1>2, <2>1 DEF Ordered, Compared, AtCall
    <2>6. call[k].pos[c] \in Nat /\ PageOf(rows[c]) \in Nat /\ PageOf(local[p][c]) \in Nat
        BY <1>1, <2>1, Pages4
    <2> QED BY <2>1, <2>3, <2>4, <2>5, <2>6
<1> QED BY <1>5, <1>6 DEF Compared

\* Lemma: a call that begins has nothing applied.
LEMMA OneCallOrdered ==
    ASSUME Known, Known', Ordered, Forwards, NEW c \in Comics \ wiped', NEW k \in Calls,
           \A j \in Calls \ {k} : call'[j] = call[j],
           call'[k] # Free => (call'[k].pos[c] # NoRow => c \in call'[k].todo)
    PROVE  \A j \in Calls : AtCall(j, c)'
<1>1. AtCall(k, c)'
    BY DEF AtCall
<1>2. \A j \in Calls \ {k} : AtCall(j, c)'
    BY StaysCompared DEF Ends
<1> QED BY <1>1, <1>2

\* Lemma: the reader's position is pending, whatever is under way.
LEMMA TurnOrdered ==
    ASSUME Known, Ordered, NEW p \in Phones, NEW d \in Comics, NEW page \in Stops, Turn(p, d, page)
    PROVE  Ordered'
<1>1. /\ Known'
      /\ local'[p][d] = [page |-> page, pending |-> TRUE] /\ local'[p][d] # NoRow
      /\ \A q \in Phones, c \in Comics : q # p \/ c # d => local'[q][c] = local[q][c]
      /\ \E k \in Calls : /\ \A j \in Calls \ {k} : call'[j] = call[j]
                          /\ call'[k] # Free
                          /\ call'[k].phone = p /\ call'[k].todo = {d}
                          /\ call'[k].pos[d] = page
                          /\ \A c \in Comics \ {d} : call'[k].pos[c] = NoRow
    BY TurnKnown
<1>2. PICK k \in Calls : /\ \A j \in Calls \ {k} : call'[j] = call[j]
                         /\ call'[k].todo = {d}
                         /\ \A c \in Comics \ {d} : call'[k].pos[c] = NoRow
    BY <1>1
<1>3. UNCHANGED <<rows, wiped>> /\ UNCHANGED <<sync, opening>> /\ dropped' = dropped \ {<<p, d>>}
    BY DEF Turn, serverVars
<1>4. Forwards
    BY <1>3, StillForwards
<1> SUFFICES ASSUME NEW c \in Comics \ wiped' PROVE Compared(c)'
    BY DEF Ordered
<1>5. \A j \in Calls : AtCall(j, c)'
    BY <1>1, <1>2, <1>4, OneCallOrdered
<1>6. \A q \in Phones : q # p \/ c # d => AtRow(q, c)'
    BY <1>1, <1>3, <1>4, StaysCompared DEF StaysDropped
<1>7. c = d => AtRow(p, c)'
    BY <1>1 DEF AtRow
<1>8. /\ \A q \in Phones, l \in Loads : AtLoad(q, l, c)'
      /\ \A q \in Phones : AtOpening(q, c)'
    BY <1>1, <1>3, <1>4, StaysCompared DEF Rests
<1> QED BY <1>5, <1>6, <1>7, <1>8 DEF Compared

\* Lemma: a load pushes what is pending.
LEMMA SyncStartOrdered ==
    ASSUME Known, Ordered, NEW p \in Phones, NEW l \in Loads, SyncStart(p, l) PROVE Ordered'
<1>1. /\ Known'
      /\ \A q \in Phones, j \in Loads : Rests(q, j)
      /\ \/ UNCHANGED call
         \/ \E k \in Calls :
               /\ \A j \in Calls \ {k} : call'[j] = call[j]
               /\ call'[k] # Free /\ call'[k].phone = p /\ call'[k].todo = Pending(p)
               /\ \A c \in Comics : call'[k].pos[c] =
                     IF c \in Pending(p) THEN LocalPage(p, c) ELSE NoRow
    BY SyncStartKnown
<1>2. UNCHANGED <<rows, wiped>> /\ UNCHANGED <<local, dropped, opening>>
    BY DEF SyncStart, serverVars
<1>3. Forwards
    BY <1>2, StillForwards
<1> SUFFICES ASSUME NEW c \in Comics \ wiped' PROVE Compared(c)'
    BY DEF Ordered
<1>4. /\ \A q \in Phones : AtRow(q, c)'
      /\ \A q \in Phones, j \in Loads : AtLoad(q, j, c)'
      /\ \A q \in Phones : AtOpening(q, c)'
    BY <1>1, <1>2, <1>3, StaysCompared DEF StaysDropped
<1>5. CASE UNCHANGED call
    <2>1. \A j \in Calls : AtCall(j, c)'
        BY <1>1, <1>3, <1>5, StaysCompared DEF Ends
    <2> QED BY <1>4, <2>1 DEF Compared
<1>6. CASE ~UNCHANGED call
    <2>1. PICK k \in Calls : /\ \A j \in Calls \ {k} : call'[j] = call[j]
                             /\ call'[k].todo = Pending(p)
                             /\ call'[k].pos[c] = IF c \in Pending(p) THEN LocalPage(p, c) ELSE NoRow
        BY <1>1, <1>6
    <2>2. \A j \in Calls : AtCall(j, c)'
        BY <1>1, <1>3, <2>1, OneCallOrdered
    <2> QED BY <1>4, <2>2 DEF Compared
<1> QED BY <1>5, <1>6

\* Lemma: a load whose hands change, when what it reads of the server is so.
LEMMA OneLoadOrdered ==
    ASSUME Known, Known', Ordered, NEW p \in Phones, NEW l \in Loads,
           UNCHANGED <<rows, wiped>>, UNCHANGED <<local, dropped, call, opening>>,
           \A q \in Phones, j \in Loads : q # p \/ j # l => sync'[q][j] = sync[q][j],
           \A c \in Comics \ wiped : AtLoad(p, l, c)'
    PROVE  Ordered'
<1>1. Forwards
    BY StillForwards
<1> SUFFICES ASSUME NEW c \in Comics \ wiped' PROVE Compared(c)'
    BY DEF Ordered
<1>2. /\ \A q \in Phones : AtRow(q, c)'
      /\ \A q \in Phones, j \in Loads : q # p \/ j # l => AtLoad(q, j, c)'
      /\ \A q \in Phones : AtOpening(q, c)'
      /\ \A k \in Calls : AtCall(k, c)'
    BY <1>1, StaysCompared DEF StaysDropped, Rests, Ends
<1>3. AtLoad(p, l, c)'
    OBVIOUS
<1> QED BY <1>2, <1>3 DEF Compared

\* Lemma: what a load is told of is what the server has.
LEMMA PullFetchOrdered ==
    ASSUME Known, Ordered, Past, NEW p \in Phones, NEW l \in Loads, PullFetch(p, l) PROVE Ordered'
<1>1. /\ Known' /\ \A q \in Phones, j \in Loads : q # p \/ j # l => sync'[q][j] = sync[q][j]
      /\ sync'[p][l].merge = NoRow
      /\ \A change \in sync'[p][l].batch : /\ change.comic \in Changed(p)
                                          /\ change.remote = rows[change.comic].page
    BY PullFetchKnown
<1>2. UNCHANGED <<rows, wiped>> /\ UNCHANGED <<local, dropped, call, opening>>
    BY DEF PullFetch, serverVars
<1>3. ASSUME NEW c \in Comics \ wiped PROVE AtLoad(p, l, c)'
    <2>1. \A change \in sync'[p][l].batch : change.comic = c => change.remote = PageOf(rows[c])
        BY <1>1 DEF Changed, PageOf
    <2>2. PageOf(rows[c]) \in Nat
        BY Pages4
    <2> QED BY <1>1, <1>2, <2>1, <2>2 DEF AtLoad
<1> QED BY <1>1, <1>2, <1>3, OneLoadOrdered

\* Lemma: a merge takes one change at hand.
LEMMA MergeReadOrdered ==
    ASSUME Known, Ordered, NEW p \in Phones, NEW l \in Loads, MergeRead(p, l) PROVE Ordered'
<1>1. Known' /\ \A q \in Phones, j \in Loads : q # p \/ j # l => sync'[q][j] = sync[q][j]
    BY MergeReadKnown
<1>2. PICK change \in sync[p][l].batch :
          /\ sync'[p][l].batch = sync[p][l].batch \ {change}
          /\ sync'[p][l].merge.comic = change.comic /\ sync'[p][l].merge.remote = change.remote
    BY MergeReadKnown
<1>3. UNCHANGED <<rows, wiped>> /\ UNCHANGED <<local, dropped, call, opening>>
    BY DEF MergeRead, serverVars
<1>4. ASSUME NEW c \in Comics \ wiped PROVE AtLoad(p, l, c)'
    <2>1. \A other \in sync[p][l].batch : other.comic = c => other.remote <= PageOf(rows[c])
        BY DEF Ordered, Compared, AtLoad
    <2> QED BY <1>2, <1>3, <2>1 DEF AtLoad
<1> QED BY <1>1, <1>3, <1>4, OneLoadOrdered

\* Lemma: a merge that is written keeps a lead only in a pending row.
LEMMA SaveOrdered ==
    ASSUME Known, Known', Ordered, Wider, NEW p \in Phones, NEW m, MergeKnown(m, stops), m.seen # NoRow,
           SaveMerge(p, m), UNCHANGED <<cursor, left, stops>>, UNCHANGED <<rows, wiped>>,
           NEW c \in Comics \ wiped,
           m.comic = c => m.remote <= PageOf(rows[c])
    PROVE  \A q \in Phones : AtRow(q, c)'
<1>1. /\ m.seen \in Nat /\ m.remote \in Nat
      /\ \A q \in Phones, d \in Comics : q # p \/ d # m.comic => local'[q][d] = local[q][d]
      /\ local'[p][m.comic] = [page |-> Furthest(m.seen, m.remote), pending |-> m.seen > m.remote]
      /\ local'[p][m.comic] # NoRow
    BY SaveMergeIs
<1>2. Forwards /\ dropped' = dropped \ {<<p, m.comic>>}
    BY StillForwards DEF SaveMerge
<1>3. ASSUME NEW q \in Phones, q # p \/ c # m.comic PROVE AtRow(q, c)'
    <2>1. local'[q][c] = local[q][c] /\ StaysDropped(q, c)
        BY <1>1, <1>2, <1>3 DEF StaysDropped
    <2> QED BY <1>2, <2>1, StaysCompared
<1>4. CASE c = m.comic
    <2>1. PageOf(local'[p][c]) = Furthest(m.seen, m.remote) /\ local'[p][c].pending = (m.seen > m.remote)
        BY <1>1, <1>4 DEF PageOf
    <2>2. PageOf(rows[c]) \in Nat /\ m.remote <= PageOf(rows[c])
        BY <1>4, Pages4
    <2>3. Furthest(m.seen, m.remote) > PageOf(rows[c]) => m.seen > m.remote
        BY <1>1, <2>2 DEF Furthest
    <2>4. PageOf(local'[p][c]) > PageOf(rows'[c]) => local'[p][c].pending
        BY <2>1, <2>3, Zenon
    <2>5. AtRow(p, c)'
        BY <1>1, <1>4, <2>4 DEF AtRow
    <2> QED BY <1>3, <2>5
<1> QED BY <1>3, <1>4

\* Lemma: the merge of a load.
LEMMA MergeWriteOrdered ==
    ASSUME Known, Ordered, NEW p \in Phones, NEW l \in Loads, MergeWrite(p, l) PROVE Ordered'
<1>1. /\ Known' /\ Wider
      /\ \A q \in Phones, j \in Loads : q # p \/ j # l => sync'[q][j] = sync[q][j]
      /\ sync'[p][l].batch = sync[p][l].batch /\ sync'[p][l].merge = NoRow
    BY MergeWriteKnown
<1>2. PICK m : /\ m = sync[p][l].merge /\ m # NoRow
               /\ MergeKnown(m, stops) /\ m.seen # NoRow /\ SaveMerge(p, m)
    BY MergeWriteKnown
<1>3. UNCHANGED <<cursor, left, stops>> /\ UNCHANGED <<rows, wiped>> /\ UNCHANGED <<call, opening>>
    BY DEF MergeWrite, serverVars
<1>4. Forwards
    BY <1>3, StillForwards
<1> SUFFICES ASSUME NEW c \in Comics \ wiped' PROVE Compared(c)'
    BY DEF Ordered
<1>5. AtLoad(p, l, c)
    BY <1>3 DEF Ordered, Compared
<1>6. \A q \in Phones : AtRow(q, c)'
    BY <1>1, <1>2, <1>3, <1>5, SaveOrdered DEF AtLoad
<1>7. /\ \A q \in Phones : AtOpening(q, c)'
      /\ \A k \in Calls : AtCall(k, c)'
      /\ \A q \in Phones, j \in Loads : q # p \/ j # l => AtLoad(q, j, c)'
    BY <1>1, <1>3, <1>4, StaysCompared DEF Ends, Rests
<1>8. AtLoad(p, l, c)'
    BY <1>1, <1>3, <1>5 DEF AtLoad
<1> QED BY <1>6, <1>7, <1>8 DEF Compared

\* Lemma: the merge of an opening.
LEMMA OpenWriteOrdered ==
    ASSUME Known, Ordered, NEW p \in Phones, OpenWrite(p) PROVE Ordered'
<1>1. /\ Known' /\ Wider
      /\ \A q \in Phones : opening'[q] \in {opening[q], NoRow}
    BY OpenWriteKnown
<1>2. PICK m : /\ m = opening[p] /\ m # NoRow
               /\ MergeKnown(m, stops) /\ m.seen # NoRow /\ SaveMerge(p, m)
    BY OpenWriteKnown
<1>3. UNCHANGED <<cursor, left, stops>> /\ UNCHANGED <<rows, wiped>> /\ UNCHANGED <<call, sync>>
    BY DEF OpenWrite, serverVars
<1>4. Forwards
    BY <1>3, StillForwards
<1> SUFFICES ASSUME NEW c \in Comics \ wiped' PROVE Compared(c)'
    BY DEF Ordered
<1>5. AtOpening(p, c)
    BY <1>3 DEF Ordered, Compared
<1>6. \A q \in Phones : AtRow(q, c)'
    BY <1>1, <1>2, <1>3, <1>5, SaveOrdered DEF AtOpening
<1>7. /\ \A q \in Phones : AtOpening(q, c)'
      /\ \A k \in Calls : AtCall(k, c)'
      /\ \A q \in Phones, l \in Loads : AtLoad(q, l, c)'
    BY <1>1, <1>3, <1>4, StaysCompared DEF Ends, Rests
<1> QED BY <1>6, <1>7 DEF Compared

\* Lemma: an opening asks the server, then reads the page the phone has.
LEMMA OpenOrdered ==
    ASSUME Known, Ordered, NEW p \in Phones, (\E c \in Comics : OpenFetch(p, c)) \/ OpenRead(p)
    PROVE  Ordered'
<1>1. UNCHANGED <<rows, wiped>> /\ UNCHANGED <<local, dropped, call, sync>>
    BY DEF OpenFetch, OpenRead, serverVars
<1>2. Known' /\ \A q \in Phones \ {p} : opening'[q] = opening[q]
    BY OpenFetchKnown, OpenReadKnown
<1>3. Forwards
    BY <1>1, StillForwards
<1> SUFFICES ASSUME NEW c \in Comics \ wiped' PROVE Compared(c)'
    BY DEF Ordered
<1>4. AtOpening(p, c)'
    <2>1. ASSUME NEW d \in Comics, OpenFetch(p, d) PROVE AtOpening(p, c)'
        <3>1. opening'[p].comic = d /\ opening'[p].remote = RemotePage(d)
            BY <2>1, OpenFetchKnown
        <3>2. RemotePage(d) = PageOf(rows[d]) /\ PageOf(rows[d]) \in Nat
            BY Pages4 DEF RemotePage, PageOf
        <3> QED BY <1>1, <3>1, <3>2 DEF AtOpening
    <2>2. CASE OpenRead(p)
        <3>1. /\ opening[p] # NoRow /\ opening'[p].comic = opening[p].comic
              /\ opening'[p].remote = opening[p].remote
            BY <2>2, OpenReadKnown
        <3>2. AtOpening(p, c)
            BY <1>1 DEF Ordered, Compared
        <3> QED BY <1>1, <3>1, <3>2 DEF AtOpening
    <2> QED BY <2>1, <2>2
<1>5. /\ \A q \in Phones : AtRow(q, c)'
      /\ \A q \in Phones \ {p} : AtOpening(q, c)'
      /\ \A k \in Calls : AtCall(k, c)'
      /\ \A q \in Phones, l \in Loads : AtLoad(q, l, c)'
    BY <1>1, <1>2, <1>3, StaysCompared DEF StaysDropped, Ends, Rests
<1> QED BY <1>4, <1>5 DEF Compared

\* Lemma: every step keeps the order.
LEMMA NextOrdered == Known /\ Loaded /\ Ordered /\ [Next]_vars => Ordered'
<1> SUFFICES ASSUME Known, Loaded, Ordered, [Next]_vars PROVE Ordered'
    OBVIOUS
<1>1. ASSUME NEW p \in Phones, NEW c \in Comics, NEW page \in Stops, Turn(p, c, page) PROVE Ordered'
    BY <1>1, TurnOrdered
<1>2. ASSUME NEW c \in Comics, MarkUnread(c) \/ \E page \in Stops : WebRead(c, page) PROVE Ordered'
    BY <1>2, WebOrdered
<1>3. ASSUME NEW k \in Calls, Apply(k) PROVE Ordered'
    BY <1>3, ApplyOrdered
<1>4. ASSUME NEW k \in Calls, Ack(k) PROVE Ordered'
    BY <1>4, AckOrdered
<1>5. ASSUME NEW k \in Calls, Lose(k) \/ Refuse(k) PROVE Ordered'
    <2>1. UNCHANGED <<local, dropped>> /\ UNCHANGED <<rows, wiped>> /\ UNCHANGED opening
        BY <1>5 DEF Lose, Refuse, serverVars
    <2> QED BY <1>5, <2>1, StillForwards, FaultKnown, RestsOrdered
<1>6. ASSUME NEW p \in Phones, NEW l \in Loads, SyncStart(p, l) PROVE Ordered'
    BY <1>6, SyncStartOrdered
<1>7. ASSUME NEW p \in Phones, NEW l \in Loads, PullFetch(p, l) PROVE Ordered'
    BY <1>7, PullFetchOrdered DEF Loaded
<1>8. ASSUME NEW p \in Phones, NEW l \in Loads, MergeRead(p, l) PROVE Ordered'
    BY <1>8, MergeReadOrdered
<1>9. ASSUME NEW p \in Phones, NEW l \in Loads, MergeWrite(p, l) PROVE Ordered'
    BY <1>9, MergeWriteOrdered
<1>10. ASSUME NEW p \in Phones, NEW l \in Loads, PullDone(p, l) \/ PullFail(p, l) PROVE Ordered'
    <2>1. UNCHANGED <<local, dropped>> /\ UNCHANGED <<rows, wiped>> /\ UNCHANGED <<opening, call>>
        BY <1>10 DEF PullDone, PullFail, serverVars
    <2> QED BY <1>10, <2>1, StillForwards, LoadEndsKnown, RestsOrdered DEF Ends
<1>11. ASSUME NEW p \in Phones, (\E c \in Comics : OpenFetch(p, c)) \/ OpenRead(p) PROVE Ordered'
    BY <1>11, OpenOrdered
<1>12. ASSUME NEW p \in Phones, OpenWrite(p) PROVE Ordered'
    BY <1>12, OpenWriteOrdered
<1>13. ASSUME NEW p \in Phones, Kill(p) PROVE Ordered'
    <2>1. UNCHANGED <<local, dropped>> /\ UNCHANGED <<rows, wiped>>
        BY <1>13 DEF Kill, serverVars
    <2> QED BY <1>13, <2>1, StillForwards, KillKnown, RestsOrdered
<1>14. CASE UNCHANGED vars
    <2>1. /\ UNCHANGED <<local, dropped>> /\ UNCHANGED <<rows, wiped>>
          /\ UNCHANGED <<sync, opening, call>>
        BY <1>14 DEF vars
    <2>2. Known'
        BY NextKnownLoaded
    <2> QED BY <2>1, <2>2, StillForwards, RestsOrdered DEF Ends, Rests
<1> QED BY <1>1, <1>2, <1>3, <1>4, <1>5, <1>6, <1>7, <1>8, <1>9, <1>10, <1>11, <1>12, <1>13, <1>14
        DEF Next, CallStep, SyncStep, OpenStep

\* A phone ahead of the server keeps its position pending, whatever it records
\* while its calls and its merges are under way: but on a comic whose position
\* the server was told to take back, and but for a newer page whose mark the
\* answer to an older one cleared (markSynced, progress_sync.dart).
THEOREM AheadTheorem == Spec => []AheadIsPending
<1>1. Init => Ordered
    <2> SUFFICES ASSUME Init, NEW c \in Comics PROVE Compared(c)
        BY DEF Ordered
    <2>1. /\ \A p \in Phones : AtRow(p, c)
          /\ \A k \in Calls : AtCall(k, c)
          /\ \A p \in Phones : AtOpening(p, c)
        BY DEF Init, AtRow, PageOf, AtCall, AtOpening
    <2>2. \A p \in Phones, l \in Loads : AtLoad(p, l, c)
        BY AsleepIs DEF Init, AtLoad
    <2> QED BY <2>1, <2>2 DEF Compared
<1>2. Spec => []Ordered
    BY <1>1, NextOrdered, KnownLoaded, PTL DEF Spec
<1>3. Ordered => AheadIsPending
    <2> SUFFICES ASSUME Ordered, NEW p \in Phones, NEW c \in Comics, c \notin wiped,
                        <<p, c>> \notin dropped, LocalPage(p, c) > RemotePage(c)
                 PROVE  c \in Pending(p)
        BY DEF AheadIsPending
    <2>1. AtRow(p, c)
        BY DEF Ordered, Compared
    <2>2. LocalPage(p, c) = PageOf(local[p][c]) /\ RemotePage(c) = PageOf(rows[c])
        BY DEF LocalPage, RemotePage, PageOf
    <2> QED BY <2>1, <2>2 DEF AtRow, Pending
<1> QED BY <1>2, <1>3, PTL
=============================================================================

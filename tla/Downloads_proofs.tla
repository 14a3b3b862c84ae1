-------------------------- MODULE Downloads_proofs --------------------------
(***************************************************************************)
(* Downloads: whatever the comics, their pages, the budget, what the user  *)
(* does and what goes wrong, a complete comic has all its pages, and the   *)
(* budget is passed by no more than the pages that requests took back, as  *)
(* long as nobody asks again for a comic that the drain still acts on      *)
(* (Reask is FALSE).                                                       *)
(*                                                                         *)
(* The number of pages that a row holds is copied twice: by the drain, for *)
(* the comic in its hands, and by enqueue, which writes back what it read. *)
(* The invariant IInv says of each copy what it says of the row; Counts    *)
(* says how far the row and the two copies can be apart.                   *)
(***************************************************************************)
EXTENDS Downloads, FiniteSetTheorems, TLAPS

USE DownloadsAssumption DEF DownloadsAssumption

Wanted == {"queued", "running", "paused"}
\* The comics whose files may be missing.
Away == Removing \cup torn

\* Where the drain is, and what it holds there.
Hands ==
    /\ drain.step \notin {"off", "next"} <=> drain.item \in Comics
    /\ drain.step \in {"list", "evict", "row", "fetch", "count"} => drain.done < Pages
    /\ drain.step = "row" <=> drain.victim \in Comics
    /\ drain.candidates # {} => drain.step \in {"evict", "row"}
    /\ drain.item \notin drain.candidates
    /\ drain.item \in Comics => drain.victim # drain.item
    /\ drain.item \in Rows => row[drain.item].state \in Wanted

\* The pages that a row counts are there.
Have == \A c \in Rows \ Away :
    /\ 0..row[c].pagesDone - 1 \subseteq files[c]
    /\ row[c].state = "complete" => row[c].pagesDone = Pages

\* So are those that the drain counts.
DrainHas == drain.item \in Rows \ Away =>
    /\ 0..drain.done - 1 \subseteq files[drain.item]
    /\ drain.step = "count" => drain.done \in files[drain.item]

\* And those of the row that enqueue has read; if there was none, the drain
\* has nothing more to do with the comic.
Asked == op.kind = "ask" =>
    /\ op.comic \in Comics
    /\ drain.victim # op.comic
    /\ op.existing.state = "none" =>
          op.comic \notin Rows /\ drain.item # op.comic /\ op.comic \notin drain.candidates
    /\ op.existing.state # "none" =>
          /\ op.comic \in Rows
          /\ op.comic \notin torn => 0..op.existing.pagesDone - 1 \subseteq files[op.comic]
          /\ ~op.late => op.comic \notin InState({"complete"}) \cup drain.candidates

\* The types of what the program keeps (lapses counts for a property only).
Typed ==
    /\ row \in [Comics -> Row]
    /\ files \in [Comics -> SUBSET (0..Pages - 1)]
    /\ drain \in Drain
    /\ cancelled \in BOOLEAN
    /\ op \in Op
    /\ taps \in 0..Taps /\ faults \in 0..Faults
    /\ torn \subseteq Comics

IInv == Typed /\ Hands /\ Have /\ DrainHas /\ Asked

-----------------------------------------------------------------------------
\* Lemma: no page and all pages are numbers of pages.
LEMMA Bounds == 0 \in 0..Pages /\ Pages \in 0..Pages
OBVIOUS

\* Lemma: what is idle, or not there, is of its type.
LEMMA Wholes == Off \in Drain /\ NoRow \in Row /\ Idle \in Op
BY DEF Off, Drain, Steps, NoRow, Row, States, Idle, Op

\* Lemma: downloadedBytes is a number.
LEMMA Counting == IsFiniteSet(Counted) /\ Downloaded \in Nat
<1> DEFINE T == 0..Pages - 1
<1>1. IsFiniteSet(T) /\ IsFiniteSet(Comics)
    BY FS_Interval
<1> HIDE DEF T
<1>2. IsFiniteSet(Comics \X T)
    BY <1>1, FS_Product
<1> QED BY <1>2, FS_Subset, FS_CardinalityType DEF Counted, Downloaded, T

\* The invariant holds of a phone that has never downloaded.
THEOREM InitIInv == Init => IInv
<1> SUFFICES ASSUME Init PROVE IInv
    OBVIOUS
<1> USE DEF Init
<1>1. Typed
    <2>1. row \in [Comics -> Row] /\ drain \in Drain /\ op \in Op
        BY Wholes
    <2>2. files \in [Comics -> SUBSET (0..Pages - 1)] /\ taps \in 0..Taps /\ faults \in 0..Faults
        OBVIOUS
    <2> QED BY <2>1, <2>2 DEF Typed
<1>2. Hands /\ Have /\ DrainHas /\ Asked
    BY DEF Hands, Have, DrainHas, Asked, Rows, InState, Off, Idle, NoRow
<1> QED BY <1>1, <1>2 DEF IInv

\* What the user's tap awaits while the drain moves.
TapStays ==
    /\ op' \in Op
    /\ op'.kind = op.kind /\ op'.comic = op.comic /\ op'.existing = op.existing
    /\ op.kind = "ask" => ~op.late /\ op'.late

\* Lemma: the drain leaves a tap as it is, and overtakes it once.
LEMMA Tapping == ASSUME op \in Op, Overtaken PROVE TapStays
BY DEF Op, Overtaken, TapStays

-----------------------------------------------------------------------------
(* The drain: what ends the work on a comic *)

\* Lemma: the row of the comic at hand is written, with what the drain counts.
LEMMA SetRowKeeps ==
    ASSUME IInv, drain.item \in Comics, NEW s \in {"paused", "failed", "complete"},
           s = "complete" => drain.done = Pages,
           SetRow(drain.item, s, drain.done)
    PROVE  /\ row' \in [Comics -> Row] /\ Rows' = Rows
           /\ \A c \in Rows \ Away :
                 /\ 0..row'[c].pagesDone - 1 \subseteq files[c]
                 /\ row'[c].state = "complete" => row'[c].pagesDone = Pages
<1> USE DEF IInv, SetRow
<1>1. row' \in [Comics -> Row]
    BY DEF Typed, Drain, Row, States, Rows
<1>2. Rows' = Rows
    BY DEF Typed, Row, States, Rows
<1>3. \A c \in Rows \ Away :
         /\ 0..row'[c].pagesDone - 1 \subseteq files[c]
         /\ row'[c].state = "complete" => row'[c].pagesDone = Pages
    BY DEF Typed, Have, DrainHas, Rows, Row
<1> QED BY <1>1, <1>2, <1>3

\* Lemma: the drain drops what it held, with rows that are still true.
LEMMA Drops ==
    ASSUME IInv, TapStays, drain.step # "row",
           NEW s \in {"off", "next"}, drain' = [Off EXCEPT !.step = s],
           UNCHANGED <<files, torn, taps>>,
           cancelled' \in BOOLEAN, faults' \in 0..Faults,
           row' \in [Comics -> Row], Rows' = Rows,
           \A c \in Rows \ Away :
                 /\ 0..row'[c].pagesDone - 1 \subseteq files[c]
                 /\ row'[c].state = "complete" => row'[c].pagesDone = Pages
    PROVE  IInv'
<1> USE DEF IInv
<1>1. drain' \in Drain
    BY Wholes DEF Drain, Off, Steps
<1>2. Typed'
    BY <1>1 DEF Typed, TapStays
<1>3. drain'.item = None /\ drain'.candidates = {} /\ drain'.victim = None /\ drain'.step = s
    BY DEF Off
<1>4. Hands'
    BY <1>3 DEF Hands, Rows
<1>5. Away' = Away
    BY <1>3 DEF Away, Removing, At, TapStays
<1>6. Have'
    BY <1>5 DEF Have
<1>7. DrainHas'
    BY <1>3 DEF DrainHas, Rows
<1>8. Asked'
    BY <1>3 DEF Asked, TapStays
<1> QED BY <1>2, <1>4, <1>6, <1>7, <1>8

\* Lemma: ends that leave the rows alone.
LEMMA LeavesRows ==
    ASSUME IInv, UNCHANGED row
    PROVE  /\ row' \in [Comics -> Row] /\ Rows' = Rows
           /\ \A c \in Rows \ Away :
                 /\ 0..row'[c].pagesDone - 1 \subseteq files[c]
                 /\ row'[c].state = "complete" => row'[c].pagesDone = Pages
BY DEF IInv, Typed, Have, Rows

\* Lemma: the drain goes for the next comic, with nothing in hand,
LEMMA LoopIs == Loop => drain' = [Off EXCEPT !.step = "next"]
BY DEF Loop

\* Lemma: or ends.
LEMMA OffIs == drain' = Off => drain' = [Off EXCEPT !.step = "off"]
BY DEF Off

\* Lemma: a drain told to stop keeps the invariant.
LEMMA SettleKeeps == ASSUME IInv, TapStays, UNCHANGED taps, Settle PROVE IInv'
<1> USE DEF IInv, Settle
<1>1. row' \in [Comics -> Row]
    BY DEF Typed, InState, Row, States, Rows
<1>2. Rows' = Rows
    BY DEF Typed, InState, Row, Rows
<1>3. \A c \in Rows \ Away :
         /\ 0..row'[c].pagesDone - 1 \subseteq files[c]
         /\ row'[c].state = "complete" => row'[c].pagesDone = Pages
    BY DEF Typed, Have, InState, Rows, Row
<1>4. cancelled' \in BOOLEAN /\ faults' \in 0..Faults
    BY DEF Typed
<1> QED BY <1>1, <1>2, <1>3, <1>4, OffIs, Drops DEF At

\* Lemma: a failure of the fetch keeps it, whichever.
LEMMA EndKeeps ==
    ASSUME IInv, TapStays, UNCHANGED taps, NetworkDown \/ Refused \/ Thrown PROVE IInv'
<1> USE DEF IInv, At
<1>1. cancelled' \in BOOLEAN /\ faults' \in 0..Faults
    <2>1. cancelled' \in BOOLEAN
        BY Zenon DEF Typed, NetworkDown, Refused, Thrown
    <2>2. Fault
        BY DEF NetworkDown, Refused, Thrown
    <2> QED BY <2>1, <2>2 DEF Typed, Fault
<1>2. drain.step = "fetch" /\ drain.item \in Comics
    BY DEF NetworkDown, Refused, Thrown, Hands
<1>3. CASE NetworkDown
    BY <1>1, <1>2, <1>3, SetRowKeeps, LoopIs, Drops DEF NetworkDown
<1>4. CASE Refused
    BY <1>1, <1>2, <1>4, SetRowKeeps, LoopIs, Drops DEF Refused
<1>5. CASE Thrown
    BY <1>1, <1>2, <1>5, LeavesRows, OffIs, Drops DEF Thrown
<1> QED BY <1>3, <1>4, <1>5

-----------------------------------------------------------------------------
(* The drain: what goes on *)

\* Lemma: the drain moves on and touches neither rows nor files.
LEMMA Proceeds ==
    ASSUME IInv, TapStays,
           UNCHANGED row, UNCHANGED taps, UNCHANGED <<files, cancelled, faults, torn>>,
           drain' \in Drain, drain.step # "row",
           drain'.step \in {"page", "list", "evict", "fetch"},
           drain.item \in Comics, drain'.item = drain.item, drain'.done = drain.done,
           drain'.step \in {"list", "evict", "fetch"} => drain.done < Pages,
           drain'.victim = None, drain'.candidates # {} => drain'.step = "evict",
           drain'.candidates \subseteq Rows \cup drain.candidates,
           drain.item \notin drain'.candidates
    PROVE  IInv'
<1> USE DEF IInv
<1>1. Typed'
    BY DEF Typed, TapStays
<1>2. Hands'
    BY DEF Hands, Rows
<1>3. Away' = Away /\ Rows' = Rows
    BY DEF Away, Removing, At, TapStays, Rows
<1>4. Have'
    BY <1>3 DEF Have
<1>5. DrainHas'
    BY <1>3 DEF DrainHas, Have
<1>6. Asked'
    BY <1>3 DEF Asked, TapStays
<1> QED BY <1>1, <1>2, <1>4, <1>5, <1>6

\* Lemma: a comic taken up keeps it: the count is that of its row.
LEMMA NextComicKeeps == ASSUME IInv, TapStays, UNCHANGED taps, NextComic PROVE IInv'
<1> USE DEF IInv
<1>1. drain.step = "next" /\ UNCHANGED <<row, files, cancelled, faults, torn>>
    BY DEF NextComic, At
<1>2. CASE drain' = Off
    <2>1. cancelled' \in BOOLEAN /\ faults' \in 0..Faults
        BY <1>1 DEF Typed
    <2> QED BY <1>1, <1>2, <2>1, LeavesRows, OffIs, Drops
<1>3. ASSUME NEW c \in NextQueued,
             drain' = [Off EXCEPT !.step = "begin", !.item = c, !.done = row[c].pagesDone]
      PROVE  IInv'
    <2>1. c \in Rows /\ row[c].state \in Wanted /\ c \in Comics /\ row[c].pagesDone \in 0..Pages
        BY DEF NextQueued, Waiting, InState, Wanted, Rows, Typed, Row
    <2>2. /\ drain'.step = "begin" /\ drain'.item = c /\ drain'.done = row[c].pagesDone
          /\ drain'.candidates = {} /\ drain'.victim = None
        BY <1>3 DEF Off
    <2>3. drain' \in Drain
        BY <1>3, <2>1, Wholes DEF Drain, Off, Steps
    <2>4. Typed'
        BY <1>1, <2>3 DEF Typed, TapStays
    <2>5. Hands'
        BY <1>1, <2>1, <2>2 DEF Hands, Rows
    <2>6. Away' = Away /\ Rows' = Rows
        BY <1>1, <2>2 DEF Away, Removing, At, TapStays, Rows
    <2>7. Have' /\ DrainHas'
        BY <1>1, <2>1, <2>2, <2>6 DEF Have, DrainHas
    <2>8. Asked'
        BY <1>1, <2>1, <2>2, <2>6 DEF Asked, TapStays
    <2> QED BY <2>4, <2>5, <2>7, <2>8
<1> QED BY <1>2, <1>3 DEF NextComic

\* Lemma: listing what may be given up keeps it.
LEMMA ListKeeps == ASSUME IInv, TapStays, UNCHANGED taps, List PROVE IInv'
<1> USE DEF IInv
<1>0. /\ drain.step = "list" /\ drain \in Drain /\ drain.item \in Comics /\ drain.victim = None
      /\ drain.done < Pages
    BY DEF List, At, Typed, Hands, Drain
<1>1. PICK S \in SUBSET Rows : /\ drain.item \notin S
                              /\ drain' = [drain EXCEPT !.step = "evict", !.candidates = S]
    BY DEF List, InState
<1>2. drain' \in Drain
    BY <1>0, <1>1 DEF Drain, Steps, Rows
<1>3. /\ drain'.step = "evict" /\ drain'.item = drain.item /\ drain'.done = drain.done
      /\ drain'.candidates = S /\ drain'.victim = drain.victim
    BY <1>0, <1>1 DEF Drain
<1>4. UNCHANGED <<row, files, cancelled, faults, torn>>
    BY DEF List
<1>5. UNCHANGED row /\ UNCHANGED <<files, cancelled, faults, torn>>
    BY <1>4
<1>6. drain.item \notin S /\ S \in SUBSET Rows
    BY <1>1
<1> QED BY <1>0, <1>2, <1>3, <1>5, <1>6, Proceeds

\* Lemma: marking the row as running keeps it.
LEMMA BeginKeeps == ASSUME IInv, TapStays, UNCHANGED taps, Begin PROVE IInv'
<1> USE DEF IInv
<1>0. drain.step = "begin" /\ drain \in Drain /\ drain.item \in Comics /\ drain.victim = None
    BY DEF Begin, At, Typed, Hands, Drain
<1>1. drain' \in Drain
    BY <1>0 DEF Begin, ResumeAt, Drain, Steps
<1>2. /\ drain'.step = "page" /\ drain'.item = drain.item /\ drain'.done = drain.done
      /\ drain'.candidates = drain.candidates /\ drain'.victim = None
    BY <1>0 DEF Begin, ResumeAt, Drain
<1>3. row' \in [Comics -> Row]
    BY <1>0 DEF Begin, Typed, Rows, Row, States
<1>4. /\ Rows' = Rows
      /\ \A c \in Rows : row'[c].pagesDone = row[c].pagesDone
      /\ \A c \in Rows : row'[c].state = "complete" => row[c].state = "complete"
      /\ drain.item \in Rows => row'[drain.item].state \in Wanted
    BY <1>0 DEF Begin, Typed, Rows, Row, States, Wanted
<1>5. Typed'
    BY <1>1, <1>3 DEF Typed, TapStays, Begin
<1>6. Hands'
    BY <1>0, <1>2, <1>4 DEF Hands
<1>7. Away' = Away /\ files' = files
    BY <1>0, <1>2 DEF Away, Removing, At, TapStays, Begin
<1>8. Have' /\ DrainHas'
    BY <1>0, <1>2, <1>4, <1>7 DEF Have, DrainHas, Rows
<1>9. Asked'
    BY <1>2, <1>4, <1>7 DEF Asked, TapStays, Begin
<1> QED BY <1>5, <1>6, <1>8, <1>9

\* Lemma: the loop over the pages keeps it, also where it ends.
LEMMA PageKeeps == ASSUME IInv, TapStays, UNCHANGED taps, Page PROVE IInv'
<1> USE DEF IInv
<1>0. /\ drain.step = "page" /\ drain \in Drain /\ drain.item \in Comics /\ drain.victim = None
      /\ drain.candidates = {}
    BY DEF Page, At, Typed, Hands, Drain
<1>1. cancelled' \in BOOLEAN /\ faults' \in 0..Faults /\ UNCHANGED <<files, cancelled, faults, torn>>
    BY DEF Typed, Page
<1>2. CASE ~AllDone(drain.done) /\ cancelled /\ Loop /\ UNCHANGED row
    BY <1>0, <1>1, <1>2, LeavesRows, LoopIs, Drops
<1>3. CASE /\ ~AllDone(drain.done) /\ UNCHANGED row
           /\ drain' = [drain EXCEPT !.used = Downloaded,
                                     !.step = IF Fits(Downloaded) THEN "fetch" ELSE "list"]
    <2>1. drain.done < Pages
        BY <1>0, <1>3 DEF AllDone, Drain
    <2> DEFINE s == IF Fits(Downloaded) THEN "fetch" ELSE "list"
               n == Downloaded
    <2>2. s \in {"fetch", "list"} /\ n \in Int
        BY Counting
    <2>22. drain' = [drain EXCEPT !.used = n, !.step = s]
        BY <1>3
    <2> HIDE DEF s, n
    <2>3. drain' \in Drain
        BY <1>0, <2>2, <2>22 DEF Drain, Steps
    <2>4. /\ drain'.step = s /\ drain'.item = drain.item /\ drain'.done = drain.done
          /\ drain'.candidates = {} /\ drain'.victim = None
        BY <1>0, <2>2, <2>22 DEF Drain
    <2>5. UNCHANGED row
        BY <1>3
    <2> QED BY <1>0, <1>1, <2>1, <2>2, <2>3, <2>4, <2>5, Proceeds
<1>4. CASE AllDone(drain.done) /\ SetRow(drain.item, "complete", drain.done) /\ Loop
    BY <1>0, <1>1, <1>4, SetRowKeeps, LoopIs, Drops DEF AllDone
<1> QED BY <1>2, <1>3, <1>4 DEF Page

\* Lemma: the end of an eviction keeps it.
LEMMA EvictedKeeps == ASSUME IInv, TapStays, UNCHANGED taps, Evicted PROVE IInv'
<1> USE DEF IInv
<1>0. /\ drain.step = "evict" /\ drain \in Drain /\ drain.item \in Comics /\ drain.victim = None
      /\ drain.done < Pages
    BY DEF Evicted, At, Typed, Hands, Drain
<1>1. cancelled' \in BOOLEAN /\ faults' \in 0..Faults /\ UNCHANGED <<files, cancelled, faults, torn>>
    BY DEF Typed, Evicted
<1>2. CASE UNCHANGED row /\ drain' = [drain EXCEPT !.step = "fetch", !.candidates = {}]
    <2>1. drain' \in Drain
        BY <1>0, <1>2 DEF Drain, Steps
    <2>2. /\ drain'.step = "fetch" /\ drain'.item = drain.item /\ drain'.done = drain.done
          /\ drain'.candidates = {} /\ drain'.victim = None
        BY <1>0, <1>2 DEF Drain
    <2>3. UNCHANGED row
        BY <1>2
    <2> QED BY <1>0, <1>1, <2>1, <2>2, <2>3, Proceeds
<1>3. CASE SetRow(drain.item, "failed", drain.done) /\ Loop
    BY <1>0, <1>1, <1>3, SetRowKeeps, LoopIs, Drops
<1> QED BY <1>2, <1>3 DEF Evicted

\* Lemma: taking the files of a comic keeps it: its row counts no more.
LEMMA EvictKeeps == ASSUME IInv, TapStays, UNCHANGED taps, Evict PROVE IInv'
<1> USE DEF IInv
<1>0. /\ drain.step = "evict" /\ drain \in Drain /\ drain.item \in Comics /\ drain.victim = None
      /\ drain.done < Pages
    BY DEF Evict, At, Typed, Hands, Drain
<1>1. PICK v \in drain.candidates :
         /\ files' = [files EXCEPT ![v] = {}]
         /\ drain' = [drain EXCEPT !.step = "row", !.victim = v, !.candidates = @ \ {v},
                                   !.used = @ - Pages]
    BY DEF Evict
<1>2. UNCHANGED <<row, cancelled, faults, torn>> /\ v \in Comics
    BY <1>0 DEF Evict, Drain
<1>3. drain' \in Drain
    <2>1. drain.used - Pages \in Int /\ drain.candidates \ {v} \in SUBSET Comics
        BY <1>0 DEF Drain
    <2>2. PICK n \in Int, S \in SUBSET Comics :
             drain' = [drain EXCEPT !.step = "row", !.victim = v, !.candidates = S, !.used = n]
        BY <1>1, <2>1
    <2> QED BY <1>0, <1>2, <2>2 DEF Drain, Steps
<1>4. /\ drain'.step = "row" /\ drain'.item = drain.item /\ drain'.done = drain.done
      /\ drain'.candidates = drain.candidates \ {v} /\ drain'.victim = v
    BY <1>0, <1>1 DEF Drain
<1>5. files' \in [Comics -> SUBSET (0..Pages - 1)]
    BY <1>1, <1>2 DEF Typed
<1>6. Typed'
    BY <1>2, <1>3, <1>5 DEF Typed, TapStays
<1>7. v # drain.item
    BY DEF Hands
<1>8. Hands'
    BY <1>0, <1>2, <1>4, <1>7 DEF Hands, Rows
<1>9. Rows' = Rows /\ Away' = Away \cup {v}
    BY <1>0, <1>2, <1>4 DEF Away, Removing, At, TapStays, Rows
<1>10. \A c \in Comics \ {v} : files'[c] = files[c]
    BY <1>1 DEF Typed
<1>11. Have' /\ DrainHas'
    BY <1>0, <1>2, <1>4, <1>9, <1>10 DEF Have, DrainHas, Rows
<1>12. op.kind = "ask" => v # op.comic
    BY DEF Asked, TapStays
<1>13. Asked'
    BY <1>2, <1>4, <1>9, <1>10, <1>12 DEF Asked, TapStays
<1> QED BY <1>6, <1>8, <1>11, <1>13

\* Lemma: and taking its row.
LEMMA EvictRowKeeps == ASSUME IInv, TapStays, UNCHANGED taps, EvictRow PROVE IInv'
<1> USE DEF IInv
<1>0. drain.step = "row" /\ drain \in Drain /\ drain.item \in Comics /\ drain.victim \in Comics
    BY DEF EvictRow, At, Typed, Hands, Drain
<1>1. /\ row' = [row EXCEPT ![drain.victim] = NoRow]
      /\ torn' = torn \ {drain.victim}
      /\ drain' = [drain EXCEPT !.step = "evict", !.victim = None]
      /\ UNCHANGED <<files, cancelled, faults>>
    BY DEF EvictRow
<1>2. drain' \in Drain
    BY <1>0, <1>1 DEF Drain, Steps
<1>3. /\ drain'.step = "evict" /\ drain'.item = drain.item /\ drain'.done = drain.done
      /\ drain'.candidates = drain.candidates /\ drain'.victim = None
    BY <1>0, <1>1 DEF Drain
<1>4. row' \in [Comics -> Row]
    BY <1>0, <1>1, Wholes DEF Typed
<1>5. Typed'
    BY <1>1, <1>2, <1>4 DEF Typed, TapStays
<1>6. Rows' = Rows \ {drain.victim} /\ \A c \in Rows' : row'[c] = row[c]
    BY <1>0, <1>1 DEF Typed, Rows, NoRow
<1>7. Hands'
    BY <1>0, <1>3, <1>6 DEF Hands
<1>8. Away \subseteq Away' \cup {drain.victim}
    BY <1>0, <1>1, <1>3 DEF Away, Removing, At, TapStays
<1>9. Have' /\ DrainHas'
    BY <1>0, <1>1, <1>3, <1>6, <1>8 DEF Have, DrainHas
<1>10. Asked'
    BY <1>0, <1>1, <1>3, <1>6 DEF Asked, TapStays
<1> QED BY <1>5, <1>7, <1>9, <1>10

\* Lemma: a page written keeps it: the drain may now count it.
LEMMA FetchKeeps == ASSUME IInv, TapStays, UNCHANGED taps, Fetch PROVE IInv'
<1> USE DEF IInv
<1>0. /\ drain.step = "fetch" /\ drain \in Drain /\ drain.item \in Comics /\ drain.victim = None
      /\ drain.done < Pages /\ drain.candidates = {}
    BY DEF Fetch, At, Typed, Hands, Drain
<1>1. /\ files' = [files EXCEPT ![drain.item] = @ \cup {drain.done}]
      /\ drain' = [drain EXCEPT !.step = "count"]
      /\ UNCHANGED <<row, cancelled, faults, torn>>
    BY DEF Fetch, Go
<1>2. drain' \in Drain
    BY <1>0, <1>1 DEF Drain, Steps
<1>3. /\ drain'.step = "count" /\ drain'.item = drain.item /\ drain'.done = drain.done
      /\ drain'.candidates = {} /\ drain'.victim = None
    BY <1>0, <1>1 DEF Drain
<1>4. drain.done \in 0..Pages - 1
    BY <1>0 DEF Drain
<1>5. files' \in [Comics -> SUBSET (0..Pages - 1)]
    BY <1>0, <1>1, <1>4 DEF Typed
<1>6. Typed'
    BY <1>1, <1>2, <1>5 DEF Typed, TapStays
<1>7. \A c \in Comics : files[c] \subseteq files'[c] /\ drain.done \in files'[drain.item]
    BY <1>0, <1>1 DEF Typed
<1>8. Hands'
    BY <1>0, <1>1, <1>3 DEF Hands, Rows
<1>9. Rows' = Rows /\ Away' = Away
    BY <1>0, <1>1, <1>3 DEF Away, Removing, At, TapStays, Rows
<1>10. Have' /\ DrainHas'
    BY <1>0, <1>1, <1>3, <1>7, <1>9 DEF Have, DrainHas, Rows
<1>11. Asked'
    BY <1>1, <1>3, <1>7, <1>9 DEF Asked, TapStays
<1> QED BY <1>6, <1>8, <1>10, <1>11

\* Lemma: a page counted keeps it, in a row that still is the comic's.
LEMMA CountKeeps == ASSUME IInv, TapStays, UNCHANGED taps, Count PROVE IInv'
<1> USE DEF IInv
<1>0. /\ drain.step = "count" /\ drain \in Drain /\ drain.item \in Comics /\ drain.victim = None
      /\ drain.done < Pages /\ drain.candidates = {}
    BY DEF Count, At, Typed, Hands, Drain
<1>1. /\ row' = IF drain.item \in Rows
                THEN [row EXCEPT ![drain.item].pagesDone = drain.done + 1] ELSE row
      /\ drain' = [drain EXCEPT !.step = "page", !.done = @ + 1]
      /\ UNCHANGED <<files, cancelled, faults, torn>>
    BY DEF Count
<1>2. drain.done + 1 \in 0..Pages
    BY <1>0 DEF Drain
<1>3. drain' \in Drain
    BY <1>0, <1>1, <1>2 DEF Drain, Steps
<1>4. /\ drain'.step = "page" /\ drain'.item = drain.item /\ drain'.done = drain.done + 1
      /\ drain'.candidates = {} /\ drain'.victim = None
    BY <1>0, <1>1 DEF Drain
<1>5. row' \in [Comics -> Row]
    BY <1>0, <1>1, <1>2 DEF Typed, Row
<1>6. Typed'
    BY <1>1, <1>3, <1>5 DEF Typed, TapStays
<1>7. /\ Rows' = Rows
      /\ \A c \in Rows : row'[c].state = row[c].state
      /\ \A c \in Rows \ {drain.item} : row'[c].pagesDone = row[c].pagesDone
      /\ drain.item \in Rows => row'[drain.item].pagesDone = drain.done + 1
    BY <1>0, <1>1 DEF Typed, Rows, Row
<1>8. Hands'
    BY <1>0, <1>4, <1>7 DEF Hands
<1>9. Away' = Away
    BY <1>0, <1>1, <1>4 DEF Away, Removing, At, TapStays
<1>10. drain.item \in Rows \ Away => 0..drain.done \subseteq files[drain.item]
    BY <1>0, <1>2 DEF DrainHas, Drain
<1>11. drain.item \in Rows => row[drain.item].state # "complete"
    BY DEF Hands, Wanted
<1>12. Have' /\ DrainHas'
    BY <1>0, <1>1, <1>2, <1>4, <1>7, <1>9, <1>10, <1>11 DEF Have, DrainHas, Drain
<1>13. Asked'
    BY <1>0, <1>1, <1>4, <1>7 DEF Asked, TapStays
<1> QED BY <1>6, <1>8, <1>12, <1>13

-----------------------------------------------------------------------------
(* The user, and the phone *)

\* Lemma: reading the row of a comic asked for keeps it, if the drain does
\* not act on an older one.
LEMMA AskReadKeeps == ASSUME IInv, ~Reask, NEW c \in Comics, AskRead(c) PROVE IInv'
<1> USE DEF IInv
<1>1. /\ op = Idle /\ c \notin InState({"complete"}) /\ ~InHand(c)
      /\ op' = [Idle EXCEPT !.kind = "ask", !.comic = c, !.existing = row[c]]
      /\ UNCHANGED <<row, files, drain, cancelled, faults, torn>>
    BY DEF AskRead
<1>2. /\ op'.kind = "ask" /\ op'.comic = c /\ op'.existing = row[c] /\ op'.late = FALSE
      /\ op.kind = "idle" /\ op' \in Op
    BY <1>1, Wholes DEF Idle, Op, Typed
<1>3. taps' \in 0..Taps
    BY DEF AskRead, Tap, Typed
<1>4. Typed'
    BY <1>1, <1>2, <1>3 DEF Typed
<1>5. Hands' /\ Rows' = Rows
    BY <1>1 DEF Hands, Rows
<1>6. Away' = Away
    BY <1>1, <1>2 DEF Away, Removing, At
<1>7. Have' /\ DrainHas'
    BY <1>1, <1>5, <1>6 DEF Have, DrainHas
<1>8. drain.victim # c /\ c \notin drain.candidates /\ (c \notin Rows => drain.item # c)
    BY <1>1 DEF InHand
<1>9. c \in Rows \ torn => 0..row[c].pagesDone - 1 \subseteq files[c]
    BY <1>2, <1>8 DEF Have, Away, Removing
<1>10. Asked'
    BY <1>1, <1>2, <1>5, <1>8, <1>9 DEF Asked, Rows, InState
<1> QED BY <1>4, <1>5, <1>7, <1>10

\* Lemma: start touches nothing that a drain under way has in hand.
LEMMA StartedKeeps ==
    ASSUME IInv, Started
    PROVE  /\ drain' \in Drain /\ cancelled' \in BOOLEAN
           /\ drain'.item = drain.item /\ drain'.candidates = drain.candidates
           /\ drain'.victim = drain.victim
           /\ drain.item \in Comics => drain' = drain
           /\ drain'.step = drain.step \/ (drain.step = "off" /\ drain'.step = "next")
<1> USE DEF IInv
<1>1. CASE drain.step = "off" /\ drain' = [Off EXCEPT !.step = "next"] /\ cancelled' = FALSE
    <2>1. drain' \in Drain
        BY <1>1, Wholes DEF Drain, Off, Steps
    <2>2. drain.item = None /\ drain.candidates = {} /\ drain.victim = None
        BY <1>1 DEF Hands, Typed, Drain
    <2>3. /\ drain'.item = None /\ drain'.candidates = {} /\ drain'.victim = None
          /\ drain'.step = "next"
        BY <1>1 DEF Off
    <2> QED BY <1>1, <2>1, <2>2, <2>3
<1>2. CASE UNCHANGED <<drain, cancelled>>
    <2>1. drain' = drain
        BY <1>2
    <2>2. cancelled' \in BOOLEAN
        BY <1>2 DEF Typed
    <2>3. drain' \in Drain
        BY <2>1 DEF Typed
    <2>4. /\ drain'.item = drain.item /\ drain'.candidates = drain.candidates
          /\ drain'.victim = drain.victim /\ drain'.step = drain.step
        BY <2>1
    <2> QED BY <2>1, <2>2, <2>3, <2>4
<1> QED BY <1>1, <1>2 DEF Started, At

\* Lemma: writing what was read keeps it: those pages are still there.
LEMMA AskWriteKeeps == ASSUME IInv, AskWrite PROVE IInv'
<1> USE DEF IInv
<1> DEFINE c == op.comic
           r == IF op.existing.state = "none"
                THEN [state |-> "queued", pagesDone |-> 0, requestedAt |-> Taps - taps]
                ELSE [op.existing EXCEPT !.state = "queued"]
<1>1. /\ op.kind = "ask" /\ row' = [row EXCEPT ![c] = r] /\ Started /\ op' = Idle
      /\ UNCHANGED <<files, taps, faults, torn>>
    BY DEF AskWrite
<1>2. c \in Comics /\ drain.victim # c /\ op \in Op
    BY <1>1 DEF Asked, Typed
<1>3. r \in Row /\ r.state = "queued"
    <2>1. CASE op.existing.state = "none"
        BY <2>1, Bounds DEF Row, States, Typed
    <2>2. CASE op.existing.state # "none"
        BY <1>2, <2>2 DEF Op, Row, States
    <2> QED BY <2>1, <2>2
<1>4. c \notin torn => 0..r.pagesDone - 1 \subseteq files[c]
    <2>1. CASE op.existing.state = "none"
        BY <2>1
    <2>2. CASE op.existing.state # "none"
        <3>1. r.pagesDone = op.existing.pagesDone
            BY <1>2, <2>2 DEF Op, Row
        <3> QED BY <1>1, <2>2, <3>1 DEF Asked
    <2> QED BY <2>1, <2>2
<1>5. c \notin Rows => drain.item # c
    BY <1>1 DEF Asked
<1> HIDE DEF r
<1>6. row' \in [Comics -> Row]
    BY <1>1, <1>2, <1>3 DEF Typed
<1>7. Rows' = Rows \cup {c} /\ row'[c] = r /\ \A d \in Rows \ {c} : row'[d] = row[d]
    BY <1>1, <1>2, <1>3 DEF Typed, Rows
<1>8. op'.kind = "idle" /\ op' \in Op
    BY <1>1, Wholes DEF Idle
<1>9. /\ drain' \in Drain /\ cancelled' \in BOOLEAN
      /\ drain'.item = drain.item /\ drain'.candidates = drain.candidates
      /\ drain'.victim = drain.victim
      /\ drain.item \in Comics => drain' = drain
      /\ drain'.step = drain.step \/ (drain.step = "off" /\ drain'.step = "next")
    BY <1>1, StartedKeeps
<1>10. Typed'
    BY <1>1, <1>6, <1>8, <1>9 DEF Typed
<1>11. Hands'
    BY <1>3, <1>7, <1>9 DEF Hands, Wanted, Rows
<1>12. Away' = Away /\ (c \in Away => c \in torn)
    BY <1>1, <1>2, <1>8, <1>9 DEF Away, Removing, At
<1>13. Have'
    <2>1. ASSUME NEW d \in Rows' \ Away'
          PROVE  /\ 0..row'[d].pagesDone - 1 \subseteq files[d]
                 /\ row'[d].state = "complete" => row'[d].pagesDone = Pages
        <3>1. CASE d = c
            BY <1>3, <1>4, <1>7, <1>12, <2>1, <3>1 DEF Away
        <3>2. CASE d # c
            BY <1>7, <1>12, <2>1, <3>2 DEF Have
        <3> QED BY <3>1, <3>2
    <2> QED BY <1>1, <2>1 DEF Have
<1>14. DrainHas'
    BY <1>1, <1>2, <1>5, <1>7, <1>9, <1>12 DEF DrainHas, Rows
<1>15. Asked'
    BY <1>8 DEF Asked
<1> QED BY <1>10, <1>11, <1>13, <1>14, <1>15

\* Lemma: removing the files of a comic keeps it,
LEMMA RemoveKeeps == ASSUME IInv, NEW c \in Comics, Remove(c) PROVE IInv'
<1> USE DEF IInv
<1>1. /\ op = Idle /\ c \in Rows
      /\ files' = [files EXCEPT ![c] = {}]
      /\ op' = [Idle EXCEPT !.kind = "remove", !.comic = c]
      /\ UNCHANGED <<row, drain, cancelled, faults, torn>>
    BY DEF Remove
<1>2. op'.kind = "remove" /\ op'.comic = c /\ op.kind = "idle" /\ op' \in Op
    BY <1>1, Wholes DEF Idle, Op
<1>3. taps' \in 0..Taps
    BY DEF Remove, Tap, Typed
<1>4. files' \in [Comics -> SUBSET (0..Pages - 1)] /\ \A d \in Comics \ {c} : files'[d] = files[d]
    BY <1>1 DEF Typed
<1>5. Typed'
    BY <1>1, <1>2, <1>3, <1>4 DEF Typed
<1>6. Hands' /\ Rows' = Rows
    BY <1>1 DEF Hands, Rows
<1>7. Away' = Away \cup {c}
    BY <1>1, <1>2 DEF Away, Removing, At
<1>8. Have' /\ DrainHas'
    BY <1>1, <1>4, <1>6, <1>7 DEF Have, DrainHas, Rows
<1>9. Asked'
    BY <1>2 DEF Asked
<1> QED BY <1>5, <1>6, <1>8, <1>9

\* Lemma: and removing its row.
LEMMA RemoveRowKeeps == ASSUME IInv, RemoveRow PROVE IInv'
<1> USE DEF IInv
<1>1. /\ op.kind = "remove" /\ op' = Idle
      /\ row' = [row EXCEPT ![op.comic] = NoRow]
      /\ torn' = torn \ {op.comic}
      /\ UNCHANGED <<files, drain, cancelled, taps, faults>>
    BY DEF RemoveRow
<1>2. op'.kind = "idle" /\ op' \in Op
    BY <1>1, Wholes DEF Idle
<1>3. row' \in [Comics -> Row]
    BY <1>1, Wholes DEF Typed
<1>4. Typed'
    BY <1>1, <1>2, <1>3 DEF Typed
<1>5. Rows' = Rows \ {op.comic} /\ \A c \in Rows' : row'[c] = row[c]
    BY <1>1 DEF Typed, Rows, NoRow
<1>6. Hands'
    BY <1>1, <1>5 DEF Hands
<1>7. Away \subseteq Away' \cup {op.comic}
    BY <1>1, <1>2 DEF Away, Removing, At
<1>8. Have' /\ DrainHas'
    BY <1>1, <1>5, <1>7 DEF Have, DrainHas
<1>9. Asked'
    BY <1>2 DEF Asked
<1> QED BY <1>4, <1>6, <1>8, <1>9

\* Lemma: a pause keeps it.
LEMMA PauseKeeps == ASSUME IInv, Pause PROVE IInv'
<1> USE DEF IInv
<1>1. UNCHANGED <<row, files, drain, op, faults, torn>> /\ cancelled' = TRUE /\ Tap
    BY DEF Pause
<1>2. Typed'
    BY <1>1 DEF Typed, Tap
<1>3. Rows' = Rows /\ Away' = Away
    BY <1>1 DEF Rows, Away, Removing, At
<1>4. Hands' /\ Have' /\ DrainHas' /\ Asked'
    BY <1>1, <1>3 DEF Hands, Have, DrainHas, Asked, InState
<1> QED BY <1>2, <1>4

\* Lemma: opening the app keeps it.
LEMMA StartKeeps == ASSUME IInv, Start PROVE IInv'
<1> USE DEF IInv
<1>1. UNCHANGED <<row, files, op, taps, faults, torn>> /\ Started
    BY DEF Start
<1>2. /\ drain' \in Drain /\ cancelled' \in BOOLEAN
      /\ drain'.item = drain.item /\ drain'.candidates = drain.candidates
      /\ drain'.victim = drain.victim
      /\ drain.item \in Comics => drain' = drain
      /\ drain'.step = drain.step \/ (drain.step = "off" /\ drain'.step = "next")
    BY <1>1, StartedKeeps
<1>3. Typed'
    BY <1>1, <1>2 DEF Typed
<1>4. Rows' = Rows /\ Away' = Away
    BY <1>1, <1>2 DEF Rows, Away, Removing, At
<1>5. Hands'
    BY <1>1, <1>2, <1>4 DEF Hands, Rows
<1>6. Have' /\ DrainHas'
    BY <1>1, <1>2, <1>4 DEF Have, DrainHas, Rows
<1>7. Asked'
    BY <1>1, <1>2, <1>4 DEF Asked, InState
<1> QED BY <1>3, <1>5, <1>6, <1>7

\* Lemma: killing it too: a removal cut short is remembered.
LEMMA KillKeeps == ASSUME IInv, Kill PROVE IInv'
<1> USE DEF IInv
<1>1. /\ Fault /\ drain' = Off /\ cancelled' = FALSE /\ op' = Idle
      /\ torn' = torn \cup (Removing \cap Rows)
      /\ UNCHANGED <<row, files, taps>>
    BY DEF Kill
<1>2. /\ drain'.item = None /\ drain'.candidates = {} /\ drain'.victim = None
      /\ drain'.step = "off" /\ op'.kind = "idle"
    BY <1>1 DEF Off, Idle
<1>3. faults' \in 0..Faults
    BY <1>1 DEF Fault, Typed
<1>4. Typed'
    BY <1>1, <1>3, Wholes DEF Typed, Rows
<1>5. Rows' = Rows
    BY <1>1 DEF Rows
<1>6. Rows \cap Away \subseteq Away'
    BY <1>1 DEF Away
<1>7. Hands' /\ DrainHas' /\ Asked'
    BY <1>2 DEF Hands, DrainHas, Asked, Rows
<1>8. Have'
    BY <1>1, <1>5, <1>6 DEF Have
<1> QED BY <1>4, <1>7, <1>8

\* Lemma: every step of the drain keeps the invariant.
LEMMA DrainKeeps == ASSUME IInv, Overtakes(DrainAction) PROVE IInv'
<1>1. DrainAction /\ TapStays /\ UNCHANGED taps
    BY Tapping DEF Overtakes, IInv, Typed
<1> QED BY <1>1, SettleKeeps, NextComicKeeps, BeginKeeps, PageKeeps, ListKeeps, EvictKeeps,
           EvictRowKeeps, EvictedKeeps, FetchKeeps, CountKeeps, EndKeeps
        DEF DrainAction, Progress

\* Every step keeps the invariant.
THEOREM NextIInv == ~Reask /\ IInv /\ [Next]_vars => IInv'
<1> SUFFICES ASSUME ~Reask, IInv, [Next]_vars PROVE IInv'
    OBVIOUS
<1>1. CASE Overtakes(DrainAction)
    BY <1>1, DrainKeeps
<1>2. CASE \E c \in Comics : AskRead(c) \/ Remove(c)
    BY <1>2, AskReadKeeps, RemoveKeeps
<1>3. CASE UserStep
    BY <1>3, AskWriteKeeps, RemoveRowKeeps DEF UserStep
<1>4. CASE Pause \/ Start \/ Kill
    BY <1>4, PauseKeeps, StartKeeps, KillKeeps
<1>5. CASE UNCHANGED vars
    <2>1. Rows' = Rows /\ Away' = Away
        BY <1>5 DEF vars, Rows, Away, Removing, At
    <2>2. Typed'
        BY <1>5 DEF vars, IInv, Typed
    <2> QED BY <1>5, <2>1, <2>2 DEF vars, IInv, Hands, Have, DrainHas, Asked, InState
<1> QED BY <1>1, <1>2, <1>3, <1>4, <1>5 DEF Next

\* Every reachable state is typed, and what is counted is there.
THEOREM Invariance == ~Reask /\ Spec => []IInv
<1> SUFFICES ASSUME ~Reask PROVE Spec => []IInv
    OBVIOUS
<1>1. IInv /\ [Next]_vars => IInv'
    BY NextIInv
<1> QED BY InitIInv, <1>1, PTL DEF Spec

\* The invariant has it that a complete comic is whole.
THEOREM IInvWhole == IInv => Whole
BY DEF IInv, Have, Whole, Away, InState, Typed, Rows

\* Whole: a complete comic has all its pages.
THEOREM WholeTheorem == ~Reask /\ Spec => []Whole
<1> SUFFICES ASSUME ~Reask PROVE Spec => []Whole
    OBVIOUS
<1>1. Spec => []IInv
    BY Invariance
<1> QED BY <1>1, IInvWhole, PTL

-----------------------------------------------------------------------------
(***************************************************************************)
(* The budget.  Gap is what the drain has counted and the row of its comic *)
(* does not say any more; Listed is what the rows count once the drain has *)
(* given up the comics it took off its list.                               *)
(***************************************************************************)

CellsOf(f) == {page \in Comics \X (0..Pages - 1) : page[2] < f[page[1]]}
SumOf(f) == Cardinality(CellsOf(f))

\* Lemma: a sum is a number, no smaller where no term is.
LEMMA Sums ==
    ASSUME NEW f, NEW g
    PROVE  /\ IsFiniteSet(CellsOf(f)) /\ SumOf(f) \in Nat
           /\ (\A c \in Comics : \A n \in 0..Pages - 1 : n < f[c] => n < g[c]) => SumOf(f) <= SumOf(g)
<1> DEFINE T == 0..Pages - 1
<1>1. IsFiniteSet(T) /\ IsFiniteSet(Comics)
    BY FS_Interval
<1> HIDE DEF T
<1>2. IsFiniteSet(Comics \X T)
    BY <1>1, FS_Product
<1>3. \A h : IsFiniteSet(CellsOf(h)) /\ SumOf(h) \in Nat
    BY <1>2, FS_Subset, FS_CardinalityType DEF CellsOf, SumOf, T
<1>4. ASSUME \A c \in Comics : \A n \in 0..Pages - 1 : n < f[c] => n < g[c]
      PROVE  SumOf(f) <= SumOf(g)
    <2>1. CellsOf(f) \subseteq CellsOf(g)
        BY <1>4 DEF CellsOf
    <2> QED BY <1>3, <2>1, FS_Subset DEF SumOf
<1> QED BY <1>3, <1>4

\* Lemma: the cells of one comic are as many as its pages.
LEMMA OneColumn ==
    ASSUME NEW c \in Comics, NEW n \in 0..Pages
    PROVE  IsFiniteSet({c} \X (0..n - 1)) /\ Cardinality({c} \X (0..n - 1)) = n
<1>1. IsFiniteSet(0..n - 1) /\ Cardinality(0..n - 1) = n
    BY FS_Interval
<1>2. IsFiniteSet({c}) /\ Cardinality({c}) = 1
    BY FS_Singleton
<1>3. PICK S : S = 0..n - 1
    OBVIOUS
<1>4. /\ IsFiniteSet({c} \X S)
      /\ Cardinality({c} \X S) = Cardinality({c}) * Cardinality(S)
    BY <1>1, <1>2, <1>3, FS_Product
<1>5. Cardinality({c}) * Cardinality(S) = n
    BY <1>1, <1>2, <1>3
<1> QED BY <1>3, <1>4, <1>5

\* Lemma: when one term changes, so does the sum.
LEMMA SumChanges ==
    ASSUME NEW f \in [Comics -> 0..Pages], NEW g \in [Comics -> 0..Pages], NEW c \in Comics,
           \A d \in Comics \ {c} : g[d] = f[d]
    PROVE  SumOf(g) - g[c] = SumOf(f) - f[c]
<1> DEFINE R == {page \in Comics \X (0..Pages - 1) : page[1] # c /\ page[2] < f[page[1]]}
<1>1. ASSUME NEW h \in [Comics -> 0..Pages], \A d \in Comics \ {c} : h[d] = f[d]
      PROVE  SumOf(h) = Cardinality(R) + h[c] /\ Cardinality(R) \in Nat
    <2>1. PICK K : K = {c} \X (0..h[c] - 1)
        OBVIOUS
    <2>2. IsFiniteSet(K) /\ Cardinality(K) = h[c] /\ h[c] \in Nat
        <3>1. PICK n \in 0..Pages : n = h[c]
            OBVIOUS
        <3>2. IsFiniteSet({c} \X (0..n - 1)) /\ Cardinality({c} \X (0..n - 1)) = n
            BY OneColumn
        <3> QED BY <2>1, <3>1, <3>2
    <2>3. IsFiniteSet(R)
        <3>1. R \subseteq CellsOf(f)
            BY DEF CellsOf
        <3> QED BY <3>1, Sums, FS_Subset
    <2>4. CellsOf(h) = R \cup K
        BY <1>1, <2>1 DEF CellsOf
    <2>5. R \cap K = {}
        BY <2>1
    <2> HIDE DEF R
    <2>6. Cardinality(R \cap K) = 0
        BY <2>5, FS_EmptySet
    <2>7. Cardinality(R \cup K) = Cardinality(R) + Cardinality(K) - Cardinality(R \cap K)
        BY <2>2, <2>3, FS_Union
    <2>8. Cardinality(R) \in Nat
        BY <2>3, FS_CardinalityType
    <2> QED BY <2>2, <2>4, <2>6, <2>7, <2>8 DEF SumOf
<1>2. SumOf(f) = Cardinality(R) + f[c] /\ Cardinality(R) \in Nat
    BY <1>1
<1>3. SumOf(g) = Cardinality(R) + g[c]
    BY <1>1
<1>4. f[c] \in Nat /\ g[c] \in Nat
    OBVIOUS
<1> HIDE DEF R
<1> QED BY <1>2, <1>3, <1>4

\* What each row counts, and with the comics of out complete, gone without any.
Held(r) == [c \in Comics |-> IF r[c].state = "none" THEN 0 ELSE r[c].pagesDone]
Minus(r, out, gone) ==
    [c \in Comics |-> IF c \in out THEN Pages ELSE IF c = gone THEN 0 ELSE Held(r)[c]]
\* What the drain has counted and the row does not say any more.
Ahead(r, d) == IF d.item \in Comics /\ r[d.item].state # "none"
               THEN d.done - r[d.item].pagesDone ELSE 0

Sum == SumOf(Held(row))
Gap == Ahead(row, drain)
Listed == Minus(row, drain.candidates, drain.victim)

\* The drain is ahead of the row by a page at most for each lapse.
Lead == lapses \in Nat /\ Gap \in 0..lapses
\* With what it is ahead, the rows are within the budget; before a page, below.
Room == /\ Sum + Gap <= Budget + lapses
        /\ drain.step \in {"fetch", "count"} => Sum + Gap < Budget + lapses
\* What _ensureRoom has in hand is no less than what the rows count.
Listing == /\ drain.step = "list" => Sum <= drain.used
           /\ drain.step \in {"evict", "row"} => SumOf(Listed) <= drain.used
Ended == \A c \in Rows : row[c].state = "complete" => row[c].pagesDone = Pages
\* The row that enqueue has read is overtaken by one page at most.
Read == op.kind = "ask" /\ op.existing.state # "none" =>
    /\ op.existing.pagesDone <= row[op.comic].pagesDone
    /\ ~op.late => op.existing.pagesDone = row[op.comic].pagesDone
    /\ drain.item = op.comic =>
          drain.done - op.existing.pagesDone <= lapses
              + (IF row[op.comic].pagesDone > op.existing.pagesDone THEN 1 ELSE 0)

Counts == Lead /\ Room /\ Listing /\ Ended /\ Read

\* Lemma: the rows are what downloadedBytes counts.
LEMMA DownloadedIsSum == ASSUME Typed PROVE Downloaded = Sum
<1>1. Counted = CellsOf(Held(row))
    BY DEF Counted, CellsOf, Held, Rows, Typed, Row
<1> QED BY <1>1 DEF Downloaded, Sum, SumOf

\* Lemma: what rows count are numbers of pages, and so is what they add up to.
LEMMA HeldIs ==
    ASSUME NEW r \in [Comics -> Row], NEW out, NEW gone
    PROVE  /\ Held(r) \in [Comics -> 0..Pages] /\ SumOf(Held(r)) \in Nat
           /\ Minus(r, out, gone) \in [Comics -> 0..Pages] /\ SumOf(Minus(r, out, gone)) \in Nat
<1>1. \A c \in Comics : r[c] \in Row
    OBVIOUS
<1>2. \A c \in Comics : r[c].pagesDone \in 0..Pages
    BY <1>1 DEF Row
<1>3. Held(r) \in [Comics -> 0..Pages]
    BY <1>2, Bounds DEF Held
<1>4. Minus(r, out, gone) \in [Comics -> 0..Pages]
    BY <1>3, Bounds DEF Minus
<1> QED BY <1>3, <1>4, Sums

\* Lemma: rows that count less add up to less.
LEMMA LessHeld ==
    ASSUME NEW f \in [Comics -> 0..Pages], NEW g \in [Comics -> 0..Pages],
           \A c \in Comics : f[c] <= g[c]
    PROVE  SumOf(f) <= SumOf(g)
<1>1. \A c \in Comics : \A n \in 0..Pages - 1 : n < f[c] => n < g[c]
    <2> TAKE c \in Comics
    <2> TAKE n \in 0..Pages - 1
    <2>1. f[c] \in Int /\ g[c] \in Int /\ f[c] <= g[c]
        OBVIOUS
    <2> QED BY <2>1
<1> QED BY <1>1, Sums

-----------------------------------------------------------------------------
\* What every step finds and leaves: the types, and what the drain holds.
Typical == IInv /\ IInv' /\ Counts

\* Lemma: the numbers of a state and of the next one are numbers.
LEMMA Numbers ==
    ASSUME Typical
    PROVE  /\ row \in [Comics -> Row] /\ row' \in [Comics -> Row]
           /\ drain \in Drain /\ drain' \in Drain /\ op \in Op /\ op' \in Op
           /\ Sum \in Nat /\ Sum' \in Nat /\ Gap \in Int /\ Gap' \in Int
           /\ SumOf(Listed) \in Nat /\ SumOf(Listed') \in Nat /\ lapses \in Nat
<1>1. /\ row \in [Comics -> Row] /\ row' \in [Comics -> Row]
      /\ drain \in Drain /\ drain' \in Drain /\ op \in Op /\ op' \in Op
    BY DEF Typical, IInv, Typed
<1>2. /\ Sum \in Nat /\ Sum' \in Nat /\ SumOf(Listed) \in Nat /\ SumOf(Listed') \in Nat
    BY <1>1, HeldIs DEF Sum, Listed
<1>3. ASSUME NEW r \in [Comics -> Row], NEW d \in Drain PROVE Ahead(r, d) \in Int
    <2>1. d.done \in Int /\ \A c \in Comics : r[c].pagesDone \in Int
        BY DEF Drain, Row
    <2> QED BY <2>1 DEF Ahead
<1>4. Gap \in Int /\ Gap' \in Int
    BY <1>1, <1>3 DEF Gap
<1> QED BY <1>1, <1>2, <1>4 DEF Typical, Counts, Lead

\* Lemma: a step that changes no number of the rows, and that leaves the drain
\* as far ahead as it was, or not at all.
LEMMA Steady ==
    ASSUME Typical, UNCHANGED lapses, Held(row') = Held(row), Gap' \in {Gap, 0},
           drain'.step \in {"fetch", "count"} => Sum' + Gap' < Budget + lapses,
           Listing', Ended', Read'
    PROVE  Counts'
<1>1. Sum' = Sum
    BY DEF Sum
<1>2. Lead' /\ Room'
    BY <1>1, Numbers DEF Typical, Counts, Lead, Room
<1> QED BY <1>2 DEF Counts

\* Lemma: the request under way stays behind by what it was, or by nothing.
LEMMA ReadStays ==
    ASSUME Typical, TapStays, UNCHANGED lapses,
           \A c \in Comics : row'[c].pagesDone = row[c].pagesDone,
           \/ drain'.item \notin Comics
           \/ drain'.item = drain.item /\ drain'.done = drain.done
           \/ drain'.done = row[drain'.item].pagesDone
    PROVE  Read'
<1> SUFFICES ASSUME op'.kind = "ask", op'.existing.state # "none"
             PROVE  /\ op'.existing.pagesDone <= row'[op'.comic].pagesDone
                    /\ ~op'.late => op'.existing.pagesDone = row'[op'.comic].pagesDone
                    /\ drain'.item = op'.comic =>
                          drain'.done - op'.existing.pagesDone <= lapses
                              + (IF row'[op'.comic].pagesDone > op'.existing.pagesDone THEN 1 ELSE 0)
    BY DEF Read
<1>1. /\ op.kind = "ask" /\ op'.comic = op.comic /\ op'.existing = op.existing /\ ~op.late /\ op'.late
    BY DEF TapStays
<1>2. op.comic \in Comics /\ row'[op.comic].pagesDone = row[op.comic].pagesDone
    BY <1>1 DEF Typical, IInv, Asked
<1>3. /\ op.existing.pagesDone = row[op.comic].pagesDone
      /\ drain.item = op.comic =>
            drain.done - op.existing.pagesDone <= lapses
                + (IF row[op.comic].pagesDone > op.existing.pagesDone THEN 1 ELSE 0)
    BY <1>1 DEF Typical, Counts, Read
<1>4. op.existing.pagesDone \in Nat /\ lapses \in Nat
    BY Numbers DEF Op, Row
<1> QED BY <1>1, <1>2, <1>3, <1>4

\* Lemma: what is running is to be resumed, and nothing is counted.
LEMMA SettleCounts == ASSUME Typical, TapStays, UNCHANGED lapses, Settle PROVE Counts'
<1>1. /\ row' = [c \in Comics |-> IF c \in InState({"running"})
                                  THEN [row[c] EXCEPT !.state = "paused"] ELSE row[c]]
      /\ drain' = Off
    BY DEF Settle
<1>2. \A c \in Comics : /\ row'[c].pagesDone = row[c].pagesDone
                        /\ row'[c].state = "none" <=> row[c].state = "none"
                        /\ row'[c].state = "complete" => row[c].state = "complete"
    BY <1>1, Numbers DEF InState, Rows, Row
<1>3. Held(row') = Held(row)
    BY <1>2 DEF Held
<1>4. drain'.item = None /\ drain'.step = "off"
    BY <1>1 DEF Off
<1>5. Gap' = 0 /\ Listing'
    BY <1>4 DEF Gap, Ahead, Listing
<1>6. Ended'
    BY <1>2 DEF Ended, Rows, Typical, Counts
<1>7. Read'
    BY <1>2, <1>4, ReadStays
<1> QED BY <1>3, <1>4, <1>5, <1>6, <1>7, Steady

\* Lemma: a step of the drain that writes no row.
LEMMA NoRowWritten ==
    ASSUME Typical, TapStays, UNCHANGED <<row, lapses>>,
           \/ drain'.item \notin Comics
           \/ drain'.item = drain.item /\ drain'.done = drain.done
           \/ drain'.done = row[drain'.item].pagesDone,
           drain'.step \in {"fetch", "count"} => Sum' + Gap' < Budget + lapses,
           Listing'
    PROVE  Counts'
<1>1. Held(row') = Held(row) /\ \A c \in Comics : row'[c].pagesDone = row[c].pagesDone
    OBVIOUS
<1>2. Gap' \in {Gap, 0}
    <2>1. ASSUME drain'.item \in Comics, drain'.done = row[drain'.item].pagesDone
          PROVE  drain'.done - row[drain'.item].pagesDone = 0
        BY <2>1, Numbers DEF Row, Drain
    <2> QED BY <2>1 DEF Gap, Ahead
<1>3. Ended'
    BY DEF Ended, Rows, Typical, Counts
<1>4. Read'
    BY <1>1, ReadStays
<1> QED BY <1>1, <1>2, <1>3, <1>4, Steady

\* Lemma: the next comic is taken up from what its row says.
LEMMA NextComicCounts == ASSUME Typical, TapStays, UNCHANGED lapses, NextComic PROVE Counts'
<1>1. UNCHANGED row
    BY DEF NextComic
<1>2. CASE drain' = Off
    <2>1. drain'.item \notin Comics /\ drain'.step = "off"
        BY <1>2 DEF Off
    <2> QED BY <1>1, <2>1, NoRowWritten DEF Listing
<1>3. ASSUME NEW c \in NextQueued,
             drain' = [Off EXCEPT !.step = "begin", !.item = c, !.done = row[c].pagesDone]
      PROVE  Counts'
    <2>1. PICK n : n = row[c].pagesDone
        OBVIOUS
    <2>2. drain' = [Off EXCEPT !.step = "begin", !.item = c, !.done = n]
        BY <1>3, <2>1
    <2>3. drain'.item = c /\ drain'.step = "begin" /\ drain'.done = n
        BY <2>2 DEF Off
    <2> QED BY <1>1, <2>1, <2>3, NoRowWritten DEF Listing
<1> QED BY <1>2, <1>3 DEF NextComic

\* Lemma: beginning counts nothing.
LEMMA BeginCounts == ASSUME Typical, TapStays, UNCHANGED lapses, Begin PROVE Counts'
<1>1. /\ row' = IF drain.item \in Rows THEN [row EXCEPT ![drain.item].state = "running"] ELSE row
      /\ drain' = [drain EXCEPT !.step = "page", !.done = ResumeAt(@)]
    BY DEF Begin
<1>2. drain'.step = "page" /\ drain'.item = drain.item /\ drain'.done = drain.done
    BY <1>1, Numbers DEF Drain, ResumeAt
<1>3. \A c \in Comics : /\ row'[c].pagesDone = row[c].pagesDone
                        /\ row'[c].state = "none" <=> row[c].state = "none"
                        /\ row'[c].state = "complete" => row[c].state = "complete"
    BY <1>1, Numbers DEF Rows, Row
<1>4. Held(row') = Held(row) /\ Gap' = Gap
    BY <1>2, <1>3 DEF Held, Gap, Ahead
<1>5. Listing' /\ Ended'
    BY <1>2, <1>3 DEF Listing, Ended, Rows, Typical, Counts
<1>6. Read'
    BY <1>2, <1>3, ReadStays
<1> QED BY <1>2, <1>4, <1>5, <1>6, Steady

\* Lemma: the row of the comic at hand is written with what the drain counts,
\* and the drain turns away from it.
LEMMA SetRowCounts ==
    ASSUME Typical, TapStays, UNCHANGED lapses, drain.item \in Comics,
           NEW s \in {"paused", "failed", "complete"},
           s = "complete" => drain.done = Pages,
           SetRow(drain.item, s, drain.done), Loop
    PROVE  Counts'
<1>1. drain'.item = None /\ drain'.step = "next"
    BY DEF Loop, Off
<1>2. Listing' /\ Gap' = 0
    BY <1>1 DEF Listing, Gap, Ahead
<1>3. CASE drain.item \notin Rows
    <2>1. UNCHANGED row
        BY <1>3 DEF SetRow
    <2> QED BY <1>1, <1>2, <2>1, NoRowWritten
<1>4. CASE drain.item \in Rows
    <2>1. row' = [row EXCEPT ![drain.item].state = s, ![drain.item].pagesDone = drain.done]
        BY <1>4 DEF SetRow
    <2>2. /\ row'[drain.item].state = s /\ row'[drain.item].pagesDone = drain.done
          /\ \A c \in Comics \ {drain.item} : row'[c] = row[c]
        BY <2>1, Numbers DEF Row
    <2>3. /\ \A c \in Comics \ {drain.item} : Held(row')[c] = Held(row)[c]
          /\ Held(row')[drain.item] = drain.done
          /\ Held(row)[drain.item] = row[drain.item].pagesDone
          /\ row[drain.item].state # "none"
        BY <1>4, <2>2 DEF Held, Rows
    <2>4. Sum' - drain.done = Sum - row[drain.item].pagesDone
        <3>1. Held(row) \in [Comics -> 0..Pages] /\ Held(row') \in [Comics -> 0..Pages]
            BY Numbers, HeldIs
        <3> QED BY <2>3, <3>1, SumChanges DEF Sum
    <2>5. Gap = drain.done - row[drain.item].pagesDone
        BY <2>3 DEF Gap, Ahead
    <2>6. drain.done \in Nat /\ row[drain.item].pagesDone \in Nat
        BY Numbers DEF Drain, Row
    <2>7. Sum' = Sum + Gap
        BY <2>4, <2>5, <2>6, Numbers
    <2>8. Lead' /\ Room'
        BY <1>1, <1>2, <2>7, Numbers DEF Typical, Counts, Lead, Room
    <2>9. Ended'
        BY <2>2 DEF Ended, Rows, Typical, Counts
    <2>10. Read'
        <3>1. /\ op'.comic = op.comic /\ op'.existing = op.existing /\ op.kind = op'.kind
              /\ op.kind = "ask" => op.comic \in Comics /\ op'.late
            BY DEF TapStays, Typical, IInv, Asked
        <3>2. row[drain.item].pagesDone <= drain.done
            BY <2>5, <2>6 DEF Typical, Counts, Lead
        <3>3. ASSUME op.kind = "ask", op.existing.state # "none"
              PROVE  op.existing.pagesDone <= row'[op.comic].pagesDone
            <4>1. op.existing.pagesDone <= row[op.comic].pagesDone
                BY <3>3 DEF Typical, Counts, Read
            <4>2. op.existing.pagesDone \in Nat
                BY Numbers DEF Op, Row
            <4>3. CASE op.comic = drain.item
                <5>1. op.existing.pagesDone <= row[drain.item].pagesDone
                    BY <4>1, <4>3
                <5>2. row'[op.comic].pagesDone = drain.done
                    BY <2>2, <4>3
                <5> QED BY <2>6, <3>2, <4>2, <5>1, <5>2
            <4>4. CASE op.comic # drain.item
                BY <2>2, <3>1, <3>3, <4>1, <4>4
            <4> QED BY <4>3, <4>4
        <3>4. op.kind = "ask" => drain'.item # op'.comic
            BY <1>1, <3>1
        <3> QED BY <3>1, <3>3, <3>4 DEF Read
    <2> QED BY <1>2, <2>8, <2>9, <2>10 DEF Counts
<1> QED BY <1>3, <1>4

\* Lemma: one more page is tried when the rows are below the budget; the end
\* is written.
LEMMA PageCounts == ASSUME Typical, TapStays, UNCHANGED lapses, Page PROVE Counts'
<1>1. drain.item \in Comics /\ drain \in Drain
    BY DEF Page, At, Typical, IInv, Hands, Typed
<1>2. CASE Loop /\ UNCHANGED row
    <2>1. drain'.item = None /\ drain'.step = "next"
        BY <1>2 DEF Loop, Off
    <2> QED BY <1>2, <2>1, NoRowWritten DEF Listing
<1>3. CASE /\ UNCHANGED row
           /\ drain' = [drain EXCEPT !.used = Downloaded,
                                     !.step = IF Fits(Downloaded) THEN "fetch" ELSE "list"]
    <2>1. PICK n, s : n = Downloaded /\ s = IF Fits(n) THEN "fetch" ELSE "list"
        OBVIOUS
    <2>2. drain' = [drain EXCEPT !.used = n, !.step = s]
        BY <1>3, <2>1
    <2>3. drain'.step = s /\ drain'.used = n /\ drain'.item = drain.item /\ drain'.done = drain.done
        BY <1>1, <2>2 DEF Drain
    <2>4. n = Sum /\ Sum' = Sum
        BY <1>3, <2>1, DownloadedIsSum DEF Typical, IInv, Sum
    <2>5. Listing'
        BY <2>1, <2>3, <2>4, Numbers DEF Listing
    <2>6. Gap' = Gap
        BY <1>3, <2>3 DEF Gap, Ahead
    <2>7. s \in {"fetch", "count"} => Sum' + Gap' < Budget + lapses
        BY <2>1, <2>4, <2>6, Numbers DEF Fits, Typical, Counts, Lead
    <2> QED BY <1>3, <2>3, <2>5, <2>7, NoRowWritten
<1>4. CASE AllDone(drain.done) /\ SetRow(drain.item, "complete", drain.done) /\ Loop
    BY <1>1, <1>4, SetRowCounts DEF AllDone
<1> QED BY <1>2, <1>3, <1>4 DEF Page

\* Lemma: what is to be given up counts as complete.
LEMMA ListCounts == ASSUME Typical, TapStays, UNCHANGED lapses, List PROVE Counts'
<1>1. /\ drain.step = "list" /\ UNCHANGED row
      /\ drain' = [drain EXCEPT !.step = "evict",
                                !.candidates = InState({"complete"}) \ {drain.item}]
    BY DEF List, At
<1>2. PICK out : out = InState({"complete"}) \ {drain.item}
    OBVIOUS
<1>3. drain' = [drain EXCEPT !.step = "evict", !.candidates = out]
    BY <1>1, <1>2
<1>4. /\ drain'.step = "evict" /\ drain'.candidates = out /\ drain'.used = drain.used
      /\ drain'.item = drain.item /\ drain'.done = drain.done /\ drain'.victim = drain.victim
    BY <1>3, Numbers DEF Drain
<1>5. drain.victim \notin Comics
    BY <1>1 DEF Typical, IInv, Hands
<1>6. \A c \in out : Held(row)[c] = Pages
    BY <1>2 DEF Held, InState, Rows, Typical, Counts, Ended
<1>7. Listed' = Held(row)
    BY <1>1, <1>4, <1>5, <1>6 DEF Listed, Minus, Held
<1>8. Listing'
    BY <1>1, <1>4, <1>7 DEF Listing, Sum, Typical, Counts
<1> QED BY <1>1, <1>4, <1>8, NoRowWritten

\* Lemma: giving up a comic takes its pages from what the drain has in hand.
LEMMA EvictCounts == ASSUME Typical, TapStays, UNCHANGED lapses, Evict PROVE Counts'
<1>1. PICK c \in drain.candidates :
         drain' = [drain EXCEPT !.step = "row", !.victim = c, !.candidates = @ \ {c},
                                !.used = @ - Pages]
    BY DEF Evict
<1>2. drain.step = "evict" /\ UNCHANGED row /\ c \in Comics
    BY Numbers DEF Evict, At, Drain
<1>3. /\ drain'.step = "row" /\ drain'.victim = c /\ drain'.candidates = drain.candidates \ {c}
      /\ drain'.used = drain.used - Pages /\ drain'.item = drain.item /\ drain'.done = drain.done
    BY <1>1, Numbers DEF Drain
<1>4. drain.victim \notin Comics
    BY <1>2 DEF Typical, IInv, Hands
<1>5. /\ \A d \in Comics \ {c} : Listed'[d] = Listed[d]
      /\ Listed'[c] = 0 /\ Listed[c] = Pages
    BY <1>2, <1>3, <1>4 DEF Listed, Minus
<1>6. Listed \in [Comics -> 0..Pages] /\ Listed' \in [Comics -> 0..Pages]
    BY Numbers, HeldIs DEF Listed
<1>7. SumOf(Listed') - 0 = SumOf(Listed) - Pages
    BY <1>2, <1>5, <1>6, SumChanges
<1>8. SumOf(Listed) <= drain.used /\ drain.used \in Int
    BY <1>2, Numbers DEF Typical, Counts, Listing, Drain
<1>9. Listing'
    BY <1>3, <1>7, <1>8, Numbers DEF Listing
<1> QED BY <1>2, <1>3, <1>9, NoRowWritten

\* Lemma: rows that count less are less than what the drain has in hand.
LEMMA ListingLess ==
    ASSUME Typical, \A c \in Comics : Held(row')[c] <= Held(row)[c]
    PROVE  Sum' <= Sum /\ (drain' = drain => Listing')
<1>1. Held(row) \in [Comics -> 0..Pages] /\ Held(row') \in [Comics -> 0..Pages]
    BY Numbers, HeldIs
<1>2. Sum' <= Sum
    BY <1>1, LessHeld DEF Sum
<1>3. ASSUME drain' = drain PROVE Listing'
    <2>1. \A c \in Comics : Listed'[c] <= Listed[c]
        BY <1>1, <1>3 DEF Listed, Minus
    <2>2. Listed \in [Comics -> 0..Pages] /\ Listed' \in [Comics -> 0..Pages]
        BY Numbers, HeldIs DEF Listed
    <2>3. SumOf(Listed') <= SumOf(Listed)
        BY <2>1, <2>2, LessHeld
    <2>4. drain.used \in Int
        BY Numbers DEF Drain
    <2> QED BY <1>2, <1>3, <2>3, <2>4, Numbers DEF Typical, Counts, Listing
<1> QED BY <1>2, <1>3

\* Lemma: a step that leaves the drain alone, or stops it, with rows that count
\* less, and no further ahead of its row.
LEMMA Less ==
    ASSUME Typical, lapses' \in Nat, lapses' >= lapses,
           \A c \in Comics : Held(row')[c] <= Held(row)[c],
           drain' = drain \/ drain'.step \in {"off", "next"}, Gap' \in {Gap, 0},
           Ended', Read'
    PROVE  Counts'
<1>1. Sum' <= Sum /\ (drain' = drain => Listing')
    BY ListingLess
<1>2. drain'.step \in {"fetch", "count"} => drain.step \in {"fetch", "count"}
    OBVIOUS
<1>3. Lead' /\ Room'
    BY <1>1, <1>2, Numbers DEF Typical, Counts, Lead, Room
<1>4. drain'.step \in {"off", "next"} => Listing'
    BY DEF Listing
<1> QED BY <1>1, <1>3, <1>4 DEF Counts

\* Lemma: the row of a comic given up counts no more.
LEMMA EvictRowCounts == ASSUME Typical, TapStays, UNCHANGED lapses, EvictRow PROVE Counts'
<1>1. /\ drain.step = "row" /\ row' = [row EXCEPT ![drain.victim] = NoRow]
      /\ drain' = [drain EXCEPT !.step = "evict", !.victim = None]
    BY DEF EvictRow, At
<1>2. drain.victim \in Comics /\ drain.item # drain.victim
    BY <1>1, Numbers DEF Typical, IInv, Hands, Drain
<1>3. /\ drain'.step = "evict" /\ drain'.victim = None /\ drain'.item = drain.item
      /\ drain'.done = drain.done /\ drain'.used = drain.used /\ drain'.candidates = drain.candidates
    BY <1>1, Numbers DEF Drain
<1>4. /\ \A c \in Comics \ {drain.victim} : row'[c] = row[c]
      /\ row'[drain.victim].state = "none"
    BY <1>1, <1>2, Numbers DEF NoRow
<1>5. Gap' = Gap
    BY <1>2, <1>3, <1>4 DEF Gap, Ahead
<1>6. Held(row) \in [Comics -> 0..Pages] /\ Held(row') \in [Comics -> 0..Pages]
    BY Numbers, HeldIs
<1>7. \A c \in Comics : Held(row')[c] <= Held(row)[c]
    <2> SUFFICES ASSUME NEW c \in Comics PROVE Held(row')[c] <= Held(row)[c]
        OBVIOUS
    <2>1. CASE c = drain.victim
        BY <1>4, <1>6, <2>1 DEF Held
    <2>2. CASE c # drain.victim
        <3>1. Held(row')[c] = Held(row)[c] /\ Held(row)[c] \in Int
            BY <1>4, <1>6, <2>2 DEF Held
        <3> QED BY <3>1
    <2> QED BY <2>1, <2>2
<1>8. Sum' <= Sum
    BY <1>6, <1>7, LessHeld DEF Sum
<1>9. Lead' /\ Room'
    BY <1>3, <1>5, <1>8, Numbers DEF Typical, Counts, Lead, Room
<1>10. Listed' = Listed
    BY <1>2, <1>3, <1>4 DEF Listed, Minus, Held
<1>11. Listing'
    BY <1>1, <1>3, <1>10 DEF Listing, Typical, Counts
<1>12. Ended'
    BY <1>2, <1>4 DEF Ended, Rows, Typical, Counts
<1>13. Read'
    <2>1. /\ op'.comic = op.comic /\ op'.existing = op.existing /\ op.kind = op'.kind
          /\ op.kind = "ask" => /\ op.comic \in Comics /\ ~op.late /\ op'.late
                                /\ op.comic # drain.victim
        BY DEF TapStays, Typical, IInv, Asked
    <2>2. op.kind = "ask" => row'[op.comic] = row[op.comic]
        BY <1>4, <2>1
    <2> QED BY <1>3, <2>1, <2>2 DEF Typical, Counts, Read
<1> QED BY <1>9, <1>11, <1>12, <1>13 DEF Counts

\* Lemma: there is room once what the drain has in hand is below the budget.
LEMMA EvictedCounts == ASSUME Typical, TapStays, UNCHANGED lapses, Evicted PROVE Counts'
<1>1. drain.step = "evict" /\ drain.item \in Comics
    BY DEF Evicted, At, Typical, IInv, Hands
<1>2. CASE /\ Fits(drain.used) /\ UNCHANGED row
           /\ drain' = [drain EXCEPT !.step = "fetch", !.candidates = {}]
    <2>1. drain'.step = "fetch" /\ drain'.item = drain.item /\ drain'.done = drain.done
        BY <1>2, Numbers DEF Drain
    <2>2. Held(row) \in [Comics -> 0..Pages] /\ Listed \in [Comics -> 0..Pages]
        BY Numbers, HeldIs DEF Listed
    <2>3. drain.victim \notin Comics
        BY <1>1 DEF Typical, IInv, Hands
    <2>4. \A c \in Comics : Held(row)[c] <= Listed[c]
        <3> SUFFICES ASSUME NEW c \in Comics PROVE Held(row)[c] <= Listed[c]
            OBVIOUS
        <3>1. Listed[c] = Pages \/ Listed[c] = Held(row)[c]
            BY <2>3 DEF Listed, Minus
        <3>2. Held(row)[c] \in 0..Pages
            BY <2>2
        <3> QED BY <3>1, <3>2
    <2>5. Sum <= SumOf(Listed)
        BY <2>2, <2>4, LessHeld DEF Sum
    <2>6. drain.used < Budget /\ SumOf(Listed) <= drain.used /\ drain.used \in Int
        BY <1>1, <1>2, Numbers DEF Fits, Typical, Counts, Listing, Drain
    <2>7. Gap' = Gap /\ Sum' = Sum
        BY <1>2, <2>1 DEF Gap, Ahead, Sum
    <2>8. Sum' + Gap' < Budget + lapses
        BY <2>5, <2>6, <2>7, Numbers DEF Typical, Counts, Lead
    <2> QED BY <1>2, <2>1, <2>8, NoRowWritten DEF Listing
<1>3. CASE SetRow(drain.item, "failed", drain.done) /\ Loop
    BY <1>1, <1>3, SetRowCounts
<1> QED BY <1>2, <1>3 DEF Evicted

\* Lemma: a page on disk counts for nothing yet.
LEMMA FetchCounts == ASSUME Typical, TapStays, UNCHANGED lapses, Fetch PROVE Counts'
<1>1. drain.step = "fetch" /\ UNCHANGED row /\ drain' = [drain EXCEPT !.step = "count"]
    BY DEF Fetch, At, Go
<1>2. drain'.step = "count" /\ drain'.item = drain.item /\ drain'.done = drain.done
    BY <1>1, Numbers DEF Drain
<1>3. Gap' = Gap /\ Sum' = Sum
    BY <1>1, <1>2 DEF Gap, Ahead, Sum
<1>4. Sum' + Gap' < Budget + lapses
    BY <1>1, <1>3 DEF Typical, Counts, Room
<1> QED BY <1>1, <1>2, <1>4, NoRowWritten DEF Listing

\* Lemma: a page counted brings the row to where the drain is.
LEMMA CountCounts == ASSUME Typical, TapStays, UNCHANGED lapses, Count PROVE Counts'
<1>1. /\ drain.step = "count" /\ drain.item \in Comics
      /\ row' = IF drain.item \in Rows
                THEN [row EXCEPT ![drain.item].pagesDone = drain.done + 1] ELSE row
      /\ drain' = [drain EXCEPT !.step = "page", !.done = @ + 1]
    BY DEF Count, At, Typical, IInv, Hands
<1>2. drain'.step = "page" /\ drain'.item = drain.item /\ drain'.done = drain.done + 1
    BY <1>1, Numbers DEF Drain
<1>3. Listing'
    BY <1>2 DEF Listing
<1>4. drain.done \in Nat /\ \A c \in Comics : row[c].pagesDone \in Nat
    BY Numbers DEF Drain, Row
<1>5. CASE drain.item \notin Rows
    <2>1. UNCHANGED row /\ Gap = 0 /\ Gap' = 0
        BY <1>1, <1>2, <1>5 DEF Gap, Ahead, Rows
    <2>2. Sum' = Sum /\ Held(row') = Held(row)
        BY <2>1 DEF Sum
    <2>3. Ended'
        BY <2>1 DEF Ended, Rows, Typical, Counts
    <2>4. Read'
        <3>1. op.kind = "ask" /\ op.existing.state # "none" => op.comic # drain.item
            BY <1>5 DEF Typical, IInv, Asked
        <3> QED BY <1>2, <2>1, <3>1 DEF Typical, Counts, Read, TapStays
    <2> QED BY <1>2, <1>3, <2>1, <2>2, <2>3, <2>4, Steady
<1>6. CASE drain.item \in Rows
    <2>1. row' = [row EXCEPT ![drain.item].pagesDone = drain.done + 1]
        BY <1>1, <1>6
    <2>2. /\ row'[drain.item].state = row[drain.item].state
          /\ row'[drain.item].pagesDone = drain.done + 1
          /\ \A c \in Comics \ {drain.item} : row'[c] = row[c]
        BY <1>1, <2>1, Numbers DEF Row
    <2>3. /\ \A c \in Comics \ {drain.item} : Held(row')[c] = Held(row)[c]
          /\ Held(row')[drain.item] = drain.done + 1
          /\ Held(row)[drain.item] = row[drain.item].pagesDone
          /\ row[drain.item].state # "none"
        BY <1>1, <1>6, <2>2 DEF Held, Rows
    <2>4. Sum' - (drain.done + 1) = Sum - row[drain.item].pagesDone
        <3>1. Held(row) \in [Comics -> 0..Pages] /\ Held(row') \in [Comics -> 0..Pages]
            BY Numbers, HeldIs
        <3>2. SumOf(Held(row')) - Held(row')[drain.item] = SumOf(Held(row)) - Held(row)[drain.item]
            BY <1>1, <2>3, <3>1, SumChanges
        <3> QED BY <2>3, <3>2 DEF Sum
    <2>5. Gap = drain.done - row[drain.item].pagesDone
        BY <1>1, <2>3 DEF Gap, Ahead
    <2>6. Gap' = 0
        <3>1. drain'.done - row'[drain.item].pagesDone = 0
            BY <1>2, <1>4, <2>2
        <3> QED BY <1>2, <3>1 DEF Gap, Ahead
    <2>7. Sum' = Sum + Gap + 1 /\ row[drain.item].pagesDone \in Nat
        BY <1>1, <1>4, <2>4, <2>5, Numbers
    <2>8. Lead' /\ Room'
        BY <1>1, <1>2, <2>6, <2>7, Numbers DEF Typical, Counts, Lead, Room
    <2>9. Ended'
        <3>1. row[drain.item].state # "complete"
            BY <1>6 DEF Typical, IInv, Hands, Wanted
        <3> QED BY <2>2, <3>1 DEF Ended, Rows, Typical, Counts
    <2>10. Read'
        <3> SUFFICES ASSUME op.kind = "ask", op.existing.state # "none"
                     PROVE  /\ op.existing.pagesDone <= row'[op.comic].pagesDone
                            /\ drain'.item = op.comic =>
                                  drain'.done - op.existing.pagesDone <= lapses
                                    + (IF row'[op.comic].pagesDone > op.existing.pagesDone THEN 1 ELSE 0)
            BY DEF Read, TapStays
        <3>1. op.comic \in Comics /\ op.existing.pagesDone \in Nat /\ ~op.late
            BY Numbers DEF Op, Row, TapStays, Typical, IInv, Asked
        <3>2. op.existing.pagesDone = row[op.comic].pagesDone
            BY <3>1 DEF Typical, Counts, Read
        <3>3. CASE op.comic = drain.item
            <4>1. op.existing.pagesDone <= drain.done /\ drain.done - op.existing.pagesDone <= lapses
                BY <1>4, <2>5, <2>7, <3>2, <3>3, Numbers DEF Typical, Counts, Lead
            <4>2. row'[op.comic].pagesDone = drain.done + 1
                BY <2>2, <3>3
            <4> QED BY <1>2, <1>4, <3>1, <4>1, <4>2, Numbers
        <3>4. CASE op.comic # drain.item
            <4>1. row'[op.comic] = row[op.comic]
                BY <2>2, <3>1, <3>4
            <4> QED BY <1>2, <3>1, <3>2, <3>4, <4>1
        <3> QED BY <3>3, <3>4
    <2> QED BY <1>3, <2>8, <2>9, <2>10 DEF Counts
<1> QED BY <1>5, <1>6

\* Lemma: a page that fails leaves what the drain had counted, or less.
LEMMA FailureCounts ==
    ASSUME Typical, TapStays, UNCHANGED lapses, NetworkDown \/ Refused \/ Thrown
    PROVE  Counts'
<1>1. drain.item \in Comics
    BY DEF NetworkDown, Refused, Thrown, At, Typical, IInv, Hands
<1>2. CASE NetworkDown \/ Refused
    BY <1>1, <1>2, SetRowCounts DEF NetworkDown, Refused
<1>3. CASE Thrown
    <2>1. UNCHANGED row /\ drain'.item = None /\ drain'.step = "off"
        BY <1>3 DEF Thrown, Off
    <2> QED BY <2>1, NoRowWritten DEF Listing
<1> QED BY <1>2, <1>3

\* Lemma: every step of the drain keeps the count.
LEMMA DrainCounts == ASSUME Typical, Overtakes(DrainAction) PROVE Counts'
<1>1. DrainAction /\ TapStays /\ UNCHANGED lapses
    BY Tapping, Numbers DEF Overtakes
<1> QED BY <1>1, SettleCounts, NextComicCounts, BeginCounts, PageCounts, ListCounts, EvictCounts,
           EvictRowCounts, EvictedCounts, FetchCounts, CountCounts, FailureCounts
        DEF DrainAction, Progress

\* Lemma: reading a row takes what it counts, and the drain is no further ahead.
LEMMA AskReadCounts == ASSUME Typical, NEW c \in Comics, AskRead(c) PROVE Counts'
<1>1. /\ UNCHANGED <<row, drain, lapses>>
      /\ op' = [Idle EXCEPT !.kind = "ask", !.comic = c, !.existing = row[c]]
    BY DEF AskRead
<1>2. op'.comic = c /\ op'.existing = row[c]
    BY <1>1 DEF Idle
<1>3. \A d \in Comics : Held(row')[d] <= Held(row)[d]
    <2>1. Held(row) \in [Comics -> 0..Pages]
        BY Numbers, HeldIs
    <2> QED BY <1>1, <2>1
<1>4. Gap' = Gap
    BY <1>1 DEF Gap
<1>5. Ended'
    BY <1>1 DEF Ended, Rows, Typical, Counts
<1>6. Read'
    <2>1. row[c].pagesDone \in Int
        BY Numbers DEF Row
    <2>2. row[c].state # "none" /\ drain.item = c => drain.done - row[c].pagesDone <= lapses
        BY Numbers DEF Gap, Ahead, Typical, Counts, Lead
    <2> QED BY <1>1, <1>2, <2>1, <2>2, Numbers DEF Read
<1> QED BY <1>1, <1>3, <1>4, <1>5, <1>6, Less, Numbers

\* Lemma: start moves no drain under way.
LEMMA StartedMoves ==
    ASSUME Typical, Started
    PROVE  /\ drain' = drain \/ drain'.step = "next"
           /\ drain'.item = drain.item
           /\ drain.item \in Comics => drain' = drain
<1>1. drain' = drain \/ (drain.step = "off" /\ drain' = [Off EXCEPT !.step = "next"])
    BY DEF Started, At
<1>2. drain.step = "off" => drain.item = None
    BY Numbers DEF Typical, IInv, Hands, Drain
<1>3. drain' = [Off EXCEPT !.step = "next"] => drain'.step = "next" /\ drain'.item = None
    BY DEF Off
<1> QED BY <1>1, <1>2, <1>3

\* Lemma: writing what was read takes back a page at most, which the drain is
\* then ahead of the row.
LEMMA AskWriteCounts == ASSUME Typical, AskWrite PROVE Counts'
<1> DEFINE c == op.comic
           w == IF op.existing.state = "none"
                THEN [state |-> "queued", pagesDone |-> 0, requestedAt |-> Taps - taps]
                ELSE [op.existing EXCEPT !.state = "queued"]
<1>1. /\ op.kind = "ask" /\ row' = [row EXCEPT ![c] = w] /\ Started /\ op' = Idle
      /\ lapses' = lapses + (IF row[c].pagesDone > op.existing.pagesDone THEN 1 ELSE 0)
    BY DEF AskWrite
<1>2. c \in Comics
    BY <1>1 DEF Typical, IInv, Asked
<1>3. w.state = "queued" /\ w.pagesDone \in Nat
      /\ w.pagesDone = IF op.existing.state = "none" THEN 0 ELSE op.existing.pagesDone
    BY Numbers DEF Op, Row
<1> HIDE DEF w
<1>4. row'[c] = w /\ \A d \in Comics \ {c} : row'[d] = row[d]
    BY <1>1, <1>2, Numbers
<1>5. row[c].pagesDone \in Nat /\ w.pagesDone <= Held(row)[c]
    <2>1. row[c].pagesDone \in Nat
        BY <1>2, Numbers DEF Row
    <2>2. CASE op.existing.state = "none"
        <3>1. w.pagesDone = 0
            BY <1>3, <2>2
        <3>2. Held(row)[c] \in Nat
            BY <1>2, Numbers, HeldIs
        <3> QED BY <2>1, <3>1, <3>2
    <2>3. CASE op.existing.state # "none"
        <3>1. c \in Rows /\ w.pagesDone <= row[c].pagesDone
            BY <1>1, <1>3, <2>3 DEF Typical, IInv, Asked, Counts, Read
        <3>2. Held(row)[c] = row[c].pagesDone
            BY <1>2, <3>1 DEF Held, Rows
        <3> QED BY <2>1, <3>1, <3>2
    <2> QED BY <2>2, <2>3
<1>6. /\ \A d \in Comics \ {c} : Held(row')[d] = Held(row)[d]
      /\ Held(row')[c] = w.pagesDone
    BY <1>2, <1>3, <1>4 DEF Held
<1>7. Held(row) \in [Comics -> 0..Pages] /\ Held(row') \in [Comics -> 0..Pages]
    BY Numbers, HeldIs
<1>8. \A d \in Comics : Held(row')[d] <= Held(row)[d]
    <2> SUFFICES ASSUME NEW d \in Comics PROVE Held(row')[d] <= Held(row)[d]
        OBVIOUS
    <2>1. CASE d = c
        BY <1>5, <1>6, <2>1
    <2>2. CASE d # c
        BY <1>6, <1>7, <2>2
    <2> QED BY <2>1, <2>2
<1>9. lapses' \in Nat /\ lapses' >= lapses
    BY <1>1, Numbers
<1>10. Ended' /\ Read'
    BY <1>1, <1>3, <1>4 DEF Ended, Rows, Typical, Counts, Read, Idle
<1>11. /\ drain' = drain \/ drain'.step = "next"
       /\ drain'.item = drain.item
       /\ drain.item \in Comics => drain' = drain
    BY <1>1, StartedMoves
<1>12. CASE drain.item # c
    <2>1. Gap' = Gap
        BY <1>4, <1>11, <1>12 DEF Gap, Ahead
    <2> QED BY <1>8, <1>9, <1>10, <1>11, <2>1, Less
<1>13. CASE drain.item = c
    <2>1. drain' = drain /\ drain.item \in Comics
        BY <1>2, <1>11, <1>13
    <2>2. op.existing.state # "none" /\ c \in Rows
        BY <1>1, <1>13 DEF Typical, IInv, Asked
    <2>3. /\ Gap = drain.done - row[c].pagesDone /\ Gap' = drain.done - w.pagesDone
          /\ Held(row)[c] = row[c].pagesDone
        BY <1>2, <1>3, <1>4, <1>13, <2>1, <2>2 DEF Gap, Ahead, Rows, Held
    <2>4. Sum' - w.pagesDone = Sum - row[c].pagesDone
        <3>1. SumOf(Held(row')) - Held(row')[c] = SumOf(Held(row)) - Held(row)[c]
            BY <1>2, <1>6, <1>7, SumChanges
        <3> QED BY <1>6, <2>3, <3>1 DEF Sum
    <2>5. drain.done \in Nat
        BY Numbers DEF Drain
    <2>6. Sum' + Gap' = Sum + Gap
        BY <1>3, <1>5, <2>3, <2>4, <2>5, Numbers
    <2>7. Gap' \in 0..lapses'
        <3>1. drain.done - w.pagesDone <= lapses'
            BY <1>1, <1>3, <1>13, <2>2 DEF Typical, Counts, Read
        <3>2. w.pagesDone <= row[c].pagesDone /\ row[c].pagesDone <= drain.done
            BY <1>5, <2>3, <2>5 DEF Typical, Counts, Lead
        <3> QED BY <1>3, <1>5, <1>9, <2>3, <2>5, <3>1, <3>2
    <2>8. Lead' /\ Room'
        BY <1>9, <2>1, <2>6, <2>7, Numbers DEF Typical, Counts, Lead, Room
    <2>9. Listing'
        BY <1>8, <2>1, ListingLess
    <2> QED BY <1>10, <2>8, <2>9 DEF Counts
<1> QED BY <1>12, <1>13

\* Lemma: a row removed counts no more.
LEMMA RemoveRowCounts == ASSUME Typical, RemoveRow PROVE Counts'
<1>1. /\ op' = Idle /\ row' = [row EXCEPT ![op.comic] = NoRow]
      /\ UNCHANGED <<drain, lapses>>
    BY DEF RemoveRow
<1>2. /\ \A c \in Comics \ {op.comic} : row'[c] = row[c]
      /\ op.comic \in Comics => row'[op.comic].state = "none"
    BY <1>1, Numbers DEF NoRow
<1>3. \A c \in Comics : row'[c].state = "none" \/ row'[c] = row[c]
    BY <1>2
<1>4. \A c \in Comics : Held(row')[c] <= Held(row)[c]
    <2>1. Held(row) \in [Comics -> 0..Pages]
        BY Numbers, HeldIs
    <2>2. \A c \in Comics : Held(row')[c] = 0 \/ Held(row')[c] = Held(row)[c]
        BY <1>3 DEF Held
    <2> QED BY <2>1, <2>2
<1>5. Gap' \in {Gap, 0}
    BY <1>1, <1>3 DEF Gap, Ahead
<1>6. Ended' /\ Read'
    BY <1>1, <1>3 DEF Ended, Rows, Typical, Counts, Read, Idle
<1>7. lapses' \in Nat /\ lapses' >= lapses
    BY <1>1, Numbers
<1> QED BY <1>1, <1>4, <1>5, <1>6, <1>7, Less

\* Lemma: taking the files, a pause, the opening of the app and its end write
\* no row.
LEMMA OthersCount ==
    ASSUME Typical, (\E c \in Comics : Remove(c)) \/ Pause \/ Start \/ Kill
    PROVE  Counts'
<1>1. UNCHANGED <<row, lapses>> /\ (op' = op \/ op'.kind # "ask")
    <2>1. ASSUME NEW c \in Comics, Remove(c) PROVE UNCHANGED <<row, lapses>> /\ op'.kind # "ask"
        BY <2>1 DEF Remove, Idle
    <2>2. CASE Pause \/ Start
        BY <2>2 DEF Pause, Start
    <2>3. CASE Kill
        BY <2>3 DEF Kill, Idle
    <2> QED BY <2>1, <2>2, <2>3
<1>2. /\ drain' = drain \/ drain'.step \in {"off", "next"}
      /\ drain' = drain \/ drain'.item = None
    <2>1. CASE drain' = drain
        BY <2>1
    <2>2. CASE drain' = Off \/ drain' = [Off EXCEPT !.step = "next"]
        BY <2>2 DEF Off
    <2> QED BY <2>1, <2>2 DEF Remove, Pause, Start, Started, Kill
<1>3. \A c \in Comics : Held(row')[c] <= Held(row)[c]
    <2>1. Held(row) \in [Comics -> 0..Pages]
        BY Numbers, HeldIs
    <2> QED BY <1>1, <2>1
<1>4. Gap' \in {Gap, 0}
    BY <1>1, <1>2 DEF Gap, Ahead
<1>5. Ended'
    BY <1>1 DEF Ended, Rows, Typical, Counts
<1>6. Read'
    <2>1. op'.kind = "ask" => op' = op /\ op.comic \in Comics
        BY <1>1 DEF Typical, IInv, Asked
    <2> QED BY <1>1, <1>2, <2>1 DEF Read, Typical, Counts
<1> QED BY <1>1, <1>2, <1>3, <1>4, <1>5, <1>6, Less, Numbers

\* Every step keeps the count.
THEOREM NextCounts == Typical /\ [Next]_vars => Counts'
<1> SUFFICES ASSUME Typical, [Next]_vars PROVE Counts'
    OBVIOUS
<1>1. CASE Overtakes(DrainAction)
    BY <1>1, DrainCounts
<1>2. CASE \E c \in Comics : AskRead(c)
    BY <1>2, AskReadCounts
<1>3. CASE UserStep
    BY <1>3, AskWriteCounts, RemoveRowCounts DEF UserStep
<1>4. CASE (\E c \in Comics : Remove(c)) \/ Pause \/ Start \/ Kill
    BY <1>4, OthersCount
<1>5. CASE UNCHANGED vars
    <2>1. Sum' = Sum /\ Gap' = Gap /\ Listed' = Listed
        BY <1>5 DEF vars, Sum, Gap, Listed
    <2> QED BY <1>5, <2>1
        DEF vars, Typical, Counts, Lead, Room, Listing, Ended, Read, Rows
<1> QED BY <1>1, <1>2, <1>3, <1>4, <1>5 DEF Next

\* A phone that has never downloaded counts nothing.
THEOREM InitCounts == Init => Counts
<1> SUFFICES ASSUME Init PROVE Counts
    OBVIOUS
<1>1. /\ \A c \in Comics : row[c].state = "none"
      /\ drain.step = "off" /\ drain.item = None /\ op.kind = "idle" /\ lapses = 0
    BY DEF Init, NoRow, Off, Idle
<1>2. Sum = 0
    <2>1. CellsOf(Held(row)) = {}
        BY <1>1 DEF CellsOf, Held
    <2> QED BY <2>1, FS_EmptySet DEF Sum, SumOf
<1>3. Gap = 0
    BY <1>1 DEF Gap, Ahead
<1>4. Lead /\ Room
    BY <1>1, <1>2, <1>3 DEF Lead, Room
<1>5. Listing /\ Ended /\ Read
    BY <1>1 DEF Listing, Ended, Rows, Read
<1> QED BY <1>4, <1>5 DEF Counts

\* With what it counts, every reachable state is within the budget.
THEOREM CountsHold == ~Reask /\ Spec => [](IInv /\ Counts)
<1> SUFFICES ASSUME ~Reask PROVE Spec => [](IInv /\ Counts)
    OBVIOUS
<1>1. Init => IInv /\ Counts
    BY InitIInv, InitCounts
<1>2. IInv /\ Counts /\ [Next]_vars => (IInv /\ Counts)'
    <2> SUFFICES ASSUME IInv, Counts, [Next]_vars PROVE IInv' /\ Counts'
        OBVIOUS
    <2>1. IInv'
        BY NextIInv
    <2> QED BY <2>1, NextCounts DEF Typical
<1> QED BY <1>1, <1>2, PTL DEF Spec

\* TypeOK: every variable keeps its type.
THEOREM DownloadsTypes == ~Reask /\ Spec => []TypeOK
<1> SUFFICES ASSUME ~Reask PROVE Spec => []TypeOK
    OBVIOUS
<1>1. IInv /\ Counts => TypeOK
    BY DEF IInv, Typed, Counts, Lead, TypeOK
<1> QED BY <1>1, CountsHold, PTL

\* WithinBudget: the rows pass the budget by one page at most for each request
\* that took back a page.
THEOREM BudgetTheorem == ~Reask /\ Spec => []WithinBudget
<1> SUFFICES ASSUME ~Reask PROVE Spec => []WithinBudget
    OBVIOUS
<1>1. IInv /\ Counts => WithinBudget
    <2> SUFFICES ASSUME IInv, Counts PROVE WithinBudget
        OBVIOUS
    <2>1. Downloaded = Sum
        BY DownloadedIsSum DEF IInv
    <2>2. Sum \in Nat
        BY HeldIs DEF Sum, IInv, Typed
    <2> QED BY <2>1, <2>2 DEF Counts, Lead, Room, WithinBudget
<1> QED BY <1>1, CountsHold, PTL

-----------------------------------------------------------------------------
(***************************************************************************)
(* Downloads implements Shelf, its safety: however the drain, the user and *)
(* the end of the app interleave, what a comic is to the user changes as   *)
(* Shelf allows.  The invariant of Downloads_proofs says what each comic   *)
(* is to the user; each step moves one comic at most.                      *)
(***************************************************************************)

\* Lemma: what a comic is to the user, when nothing is broken.
LEMMA StandingIs ==
    ASSUME IInv, NEW c \in Comics
    PROVE  /\ c \notin Rows \ Away => Standing(c) = "absent"
           /\ c \in Rows \ Away =>
                 /\ row[c].state \in Wanted => Standing(c) = "wanted"
                 /\ row[c].state = "failed" => Standing(c) = "refused"
                 /\ row[c].state = "complete" => Standing(c) = "held"
                 /\ row[c].state \in Wanted \cup {"failed", "complete"}
<1> USE DEF IInv
<1>1. c \notin Rows \ Away => Standing(c) = "absent"
    BY DEF Standing, Away
<1>2. ASSUME c \in Rows \ Away
      PROVE  /\ row[c].state \in Wanted \cup {"failed", "complete"}
             /\ row[c].state \in Wanted => Standing(c) = "wanted"
             /\ row[c].state = "failed" => Standing(c) = "refused"
    BY <1>2 DEF Standing, Away, Wanted, Typed, Row, States, Rows
<1>3. ASSUME c \in Rows \ Away, row[c].state = "complete"
      PROVE  Standing(c) = "held"
    <2>1. files[c] = 0..Pages - 1
        BY <1>3 DEF Have, Typed
    <2> QED BY <1>3, <2>1 DEF Standing, Away
<1> QED BY <1>1, <1>2, <1>3

\* Lemma: the same of the next state.
LEMMA StandingBecomes ==
    ASSUME IInv', NEW c \in Comics
    PROVE  /\ c \notin Rows' \ Away' => Standing(c)' = "absent"
           /\ c \in Rows' \ Away' =>
                 /\ row'[c].state \in Wanted => Standing(c)' = "wanted"
                 /\ row'[c].state = "failed" => Standing(c)' = "refused"
                 /\ row'[c].state = "complete" => Standing(c)' = "held"
                 /\ row'[c].state \in Wanted \cup {"failed", "complete"}
<1> USE DEF IInv
<1>1. c \notin Rows' \ Away' => Standing(c)' = "absent"
    BY DEF Standing, Away
<1>2. ASSUME c \in Rows' \ Away'
      PROVE  /\ row'[c].state \in Wanted \cup {"failed", "complete"}
             /\ row'[c].state \in Wanted => Standing(c)' = "wanted"
             /\ row'[c].state = "failed" => Standing(c)' = "refused"
    BY <1>2 DEF Standing, Away, Wanted, Typed, Row, States, Rows
<1>3. ASSUME c \in Rows' \ Away', row'[c].state = "complete"
      PROVE  Standing(c)' = "held"
    <2>1. files'[c] = 0..Pages - 1
        BY <1>3 DEF Have, Typed
    <2> QED BY <1>3, <2>1 DEF Standing, Away
<1> QED BY <1>1, <1>2, <1>3

\* A comic is to the user what it was.
Same(c) ==
    /\ c \in Rows' \ Away' <=> c \in Rows \ Away
    /\ c \in Rows \ Away => \/ row'[c].state = row[c].state
                            \/ row[c].state \in Wanted /\ row'[c].state \in Wanted

\* Lemma: and then it stands where it stood.
LEMMA SameStands == ASSUME IInv, IInv', NEW c \in Comics, Same(c) PROVE Standing(c)' = Standing(c)
BY StandingIs, StandingBecomes DEF Same

\* Lemma: so for all of them, the shelf is unchanged.
LEMMA AllSame == ASSUME IInv, IInv', \A c \in Comics : Same(c) PROVE UNCHANGED shelf
BY SameStands DEF shelf

\* Lemma: one comic moves, as Shelf lets it.
LEMMA OneMoves ==
    ASSUME IInv, IInv', NEW i \in Comics, \A c \in Comics \ {i} : Same(c),
           \/ Same(i)
           \/ i \in Rows' \ Away' /\ row'[i].state = "queued"
           \/ /\ i \in (Rows \ Away) \cap (Rows' \ Away')
              /\ row[i].state \in Wanted /\ row'[i].state \in {"complete", "failed"}
           \/ i \notin Rows' \ Away'
    PROVE  [Promise!Next]_shelf
<1>1. \A c \in Comics \ {i} : Standing(c)' = Standing(c)
    BY SameStands
<1>2. shelf' = [shelf EXCEPT ![i] = Standing(i)'] /\ shelf[i] = Standing(i)
    BY <1>1 DEF shelf
<1>3. CASE Standing(i)' = Standing(i)
    BY <1>1, <1>3 DEF shelf
<1>4. CASE Standing(i) # "wanted" /\ Standing(i)' = "wanted"
    <2>1. Standing(i) \in {"absent", "refused", "held"}
        BY <1>4, StandingIs
    <2>2. Promise!Ask(i)
        BY <1>2, <1>4, <2>1 DEF Promise!Ask, Promise!Move
    <2> QED BY <2>2 DEF Promise!Next
<1>5. CASE Standing(i) = "wanted" /\ Standing(i)' = "held"
    BY <1>2, <1>5 DEF Promise!Hold, Promise!Move, Promise!Next
<1>6. CASE Standing(i) = "wanted" /\ Standing(i)' = "refused"
    BY <1>2, <1>6 DEF Promise!Refuse, Promise!Move, Promise!Next
<1>7. CASE Standing(i) # "absent" /\ Standing(i)' = "absent"
    <2>1. Standing(i) \in {"wanted", "refused", "held"}
        BY <1>7, StandingIs
    <2>2. Promise!Remove(i)
        BY <1>2, <1>7, <2>1 DEF Promise!Remove, Promise!Move
    <2> QED BY <2>2 DEF Promise!Next
<1>8. \/ Standing(i)' = Standing(i)
      \/ Standing(i)' = "wanted"
      \/ Standing(i) = "wanted" /\ Standing(i)' \in {"held", "refused"}
      \/ Standing(i)' = "absent"
    BY SameStands, StandingIs, StandingBecomes DEF Wanted
<1> QED BY <1>3, <1>4, <1>5, <1>6, <1>7, <1>8

-----------------------------------------------------------------------------
(* Steps that the user does not see *)

\* Lemma: the rows that count to the user stay what they were.
LEMMA Unseen ==
    ASSUME IInv, IInv', Rows' = Rows, Away' = Away,
           \A c \in Rows : \/ row'[c].state = row[c].state
                           \/ row[c].state \in Wanted /\ row'[c].state \in Wanted
    PROVE  UNCHANGED shelf
BY AllSame DEF Same

\* Lemma: the drain takes nothing away, and gives nothing back.
LEMMA AwayStays ==
    ASSUME TapStays, torn' = torn, drain.step # "row", drain'.step # "row"
    PROVE  Away' = Away
BY DEF Away, Removing, At, TapStays

\* Lemma: what setting the state of a row leaves.
LEMMA StateSet ==
    ASSUME row \in [Comics -> Row], NEW i \in Comics, NEW s \in States,
           row' = [row EXCEPT ![i].state = s]
    PROVE  row'[i].state = s /\ \A c \in Comics \ {i} : row'[c] = row[c]
BY DEF Row

\* Lemma: and setting both its state and its pages.
LEMMA BothSet ==
    ASSUME row \in [Comics -> Row], NEW i \in Rows, NEW s \in States, NEW n, SetRow(i, s, n)
    PROVE  row'[i].state = s /\ \A c \in Comics \ {i} : row'[c] = row[c]
BY DEF Row, SetRow, Rows

\* Lemma: a download that is interrupted is still wanted.
LEMMA SettleUnseen == ASSUME IInv, IInv', TapStays, Settle PROVE UNCHANGED shelf
<1>1. /\ row' = [c \in Comics |-> IF c \in InState({"running"})
                                  THEN [row[c] EXCEPT !.state = "paused"] ELSE row[c]]
      /\ drain.step = "next" /\ drain' = Off /\ torn' = torn
    BY DEF Settle, At
<1>2. row \in [Comics -> Row]
    BY DEF IInv, Typed
<1>3. ASSUME NEW c \in Comics
      PROVE  \/ row'[c].state = row[c].state
             \/ row[c].state = "running" /\ row'[c].state = "paused"
    <2>1. row[c] \in Row
        BY <1>2
    <2>2. CASE c \in InState({"running"})
        <3>1. row'[c] = [row[c] EXCEPT !.state = "paused"]
            BY <1>1, <2>2
        <3> QED BY <2>1, <2>2, <3>1 DEF InState, Row
    <2>3. CASE c \notin InState({"running"})
        BY <1>1, <2>3
    <2> QED BY <2>2, <2>3
<1>4. drain'.step # "row"
    BY <1>1 DEF Off
<1>5. Rows' = Rows
    BY <1>3 DEF Rows
<1>6. \A c \in Rows : \/ row'[c].state = row[c].state
                      \/ row[c].state \in Wanted /\ row'[c].state \in Wanted
    BY <1>3 DEF Rows, Wanted
<1> QED BY <1>1, <1>4, <1>5, <1>6, AwayStays, Unseen

\* Lemma: steps that write no row.
LEMMA ReadingUnseen ==
    ASSUME IInv, IInv', TapStays, NextComic \/ List \/ Fetch \/ Thrown
    PROVE  UNCHANGED shelf
<1>1. row' = row
    <2>1. CASE NextComic
        BY <2>1 DEF NextComic
    <2>2. CASE List \/ Fetch \/ Thrown
        BY <2>2 DEF List, Fetch, Thrown
    <2> QED BY <2>1, <2>2
<1>2. torn' = torn /\ drain.step # "row"
    <2>1. CASE NextComic
        BY <2>1 DEF NextComic, At
    <2>2. CASE List \/ Fetch \/ Thrown
        BY <2>2 DEF List, Fetch, Thrown, At
    <2> QED BY <2>1, <2>2
<1>3. drain'.step # "row"
    <2>1. CASE NextComic
        <3>1. CASE drain' = Off
            BY <3>1 DEF Off
        <3>2. ASSUME NEW c \in NextQueued,
                     drain' = [Off EXCEPT !.step = "begin", !.item = c, !.done = row[c].pagesDone]
              PROVE  drain'.step = "begin"
            BY <3>2 DEF Off
        <3> QED BY <2>1, <3>1, <3>2 DEF NextComic
    <2>2. CASE List
        BY <2>2 DEF List, IInv, Typed, Drain
    <2>3. CASE Fetch
        BY <2>3 DEF Fetch, Go, IInv, Typed, Drain
    <2>4. CASE Thrown
        BY <2>4 DEF Thrown, Off
    <2> QED BY <2>1, <2>2, <2>3, <2>4
<1>4. Rows' = Rows
    BY <1>1 DEF Rows
<1> QED BY <1>1, <1>2, <1>3, <1>4, AwayStays, Unseen

\* Lemma: so is one that is taken up,
LEMMA BeginUnseen == ASSUME IInv, IInv', TapStays, Begin PROVE UNCHANGED shelf
<1> DEFINE i == drain.item
<1>1. /\ drain.step = "begin" /\ torn' = torn
      /\ row' = IF i \in Rows THEN [row EXCEPT ![i].state = "running"] ELSE row
    BY DEF Begin, At
<1>2. drain'.step # "row"
    BY DEF Begin, IInv, Typed, Drain
<1>3. row \in [Comics -> Row] /\ i \in Comics /\ (i \in Rows => row[i].state \in Wanted)
    BY <1>1 DEF IInv, Typed, Hands
<1>4. \/ row' = row
      \/ /\ i \in Rows /\ row'[i].state = "running"
         /\ \A c \in Comics \ {i} : row'[c] = row[c]
    BY <1>1, <1>3, StateSet DEF States
<1>5. Rows' = Rows
    BY <1>4 DEF Rows
<1>6. \A c \in Rows : \/ row'[c].state = row[c].state
                      \/ row[c].state \in Wanted /\ row'[c].state \in Wanted
    BY <1>3, <1>4 DEF Wanted, Rows
<1> QED BY <1>1, <1>2, <1>5, <1>6, AwayStays, Unseen

\* Lemma: or goes on,
LEMMA CountUnseen == ASSUME IInv, IInv', TapStays, Count PROVE UNCHANGED shelf
<1> DEFINE i == drain.item
<1>1. /\ drain.step = "count" /\ torn' = torn
      /\ row' = IF i \in Rows THEN [row EXCEPT ![i].pagesDone = drain.done + 1] ELSE row
    BY DEF Count, At
<1>2. drain'.step # "row"
    BY DEF Count, IInv, Typed, Drain
<1>3. row \in [Comics -> Row]
    BY DEF IInv, Typed
<1>4. \A c \in Comics : row'[c].state = row[c].state
    BY <1>1, <1>3 DEF Row
<1>5. Rows' = Rows
    BY <1>4 DEF Rows
<1>6. \A c \in Rows : row'[c].state = row[c].state
    BY <1>4 DEF Rows
<1> QED BY <1>1, <1>2, <1>5, <1>6, AwayStays, Unseen

\* Lemma: or waits for the network.
LEMMA NetworkDownUnseen == ASSUME IInv, IInv', TapStays, NetworkDown PROVE UNCHANGED shelf
<1> DEFINE i == drain.item
<1>1. drain.step = "fetch" /\ torn' = torn /\ SetRow(i, "paused", drain.done)
    BY DEF NetworkDown, At
<1>2. drain'.step # "row"
    BY DEF NetworkDown, Loop, Off
<1>3. row \in [Comics -> Row] /\ i \in Comics /\ (i \in Rows => row[i].state \in Wanted)
    BY <1>1 DEF IInv, Typed, Hands
<1>4. \/ row' = row
      \/ /\ i \in Rows /\ row'[i].state = "paused"
         /\ \A c \in Comics \ {i} : row'[c] = row[c]
    <2>1. CASE i \in Rows
        BY <1>1, <1>3, <2>1, BothSet DEF States
    <2>2. CASE i \notin Rows
        BY <1>1, <2>2 DEF SetRow
    <2> QED BY <2>1, <2>2
<1>5. Rows' = Rows
    BY <1>4 DEF Rows
<1>6. \A c \in Rows : \/ row'[c].state = row[c].state
                      \/ row[c].state \in Wanted /\ row'[c].state \in Wanted
    BY <1>3, <1>4 DEF Wanted, Rows
<1> QED BY <1>1, <1>2, <1>5, <1>6, AwayStays, Unseen

\* Lemma: the row of a comic given up goes after it.
LEMMA EvictRowUnseen == ASSUME IInv, IInv', TapStays, EvictRow PROVE UNCHANGED shelf
<1> DEFINE v == drain.victim
<1>1. /\ drain.step = "row" /\ v \in Comics /\ row \in [Comics -> Row]
      /\ row' = [row EXCEPT ![v] = NoRow] /\ torn' = torn \ {v}
    BY DEF EvictRow, IInv, Typed, Hands, At
<1>2. drain'.step = "evict"
    BY DEF EvictRow, IInv, Typed, Drain
<1> HIDE DEF v
<1>3. Rows' = Rows \ {v} /\ \A c \in Comics \ {v} : row'[c] = row[c]
    BY <1>1 DEF Rows, NoRow
<1>4. v \in Away /\ \A c \in Comics \ {v} : c \in Away' <=> c \in Away
    BY <1>1, <1>2 DEF Away, Removing, At, TapStays, v
<1>5. ASSUME NEW c \in Comics PROVE Same(c)
    <2>1. CASE c = v
        BY <1>3, <1>4, <2>1 DEF Same
    <2>2. CASE c # v
        <3>1. row'[c] = row[c] /\ (c \in Rows' <=> c \in Rows) /\ (c \in Away' <=> c \in Away)
            BY <1>3, <1>4, <2>2
        <3> QED BY <3>1 DEF Same
    <2> QED BY <2>1, <2>2
<1> QED BY <1>5, AllSame

-----------------------------------------------------------------------------
(* Steps that move a comic *)

\* Lemma: the comic in the drain's hands ends, held or refused.
LEMMA Ends ==
    ASSUME IInv, IInv', TapStays, torn' = torn, drain.item \in Comics,
           drain.step # "row", drain'.step # "row",
           NEW s \in {"complete", "failed"}, SetRow(drain.item, s, drain.done)
    PROVE  [Promise!Next]_shelf
<1> DEFINE i == drain.item
<1>1. row \in [Comics -> Row] /\ (i \in Rows => row[i].state \in Wanted)
    BY DEF IInv, Typed, Hands
<1>2. CASE i \in Rows
    <2>1. row'[i].state = s /\ \A c \in Comics \ {i} : row'[c] = row[c]
        BY <1>1, <1>2, BothSet DEF States
    <2>2. Rows' = Rows
        BY <1>2, <2>1 DEF Rows
    <2>3. Away' = Away
        BY AwayStays
    <2>4. \A c \in Comics \ {i} : Same(c)
        BY <2>1, <2>2, <2>3 DEF Same
    <2>5. CASE i \in Away
        <3>1. i \notin Rows' \ Away'
            BY <2>3, <2>5
        <3> QED BY <2>4, <3>1, OneMoves
    <2>6. CASE i \notin Away
        BY <1>1, <1>2, <2>1, <2>2, <2>3, <2>4, <2>6, OneMoves
    <2> QED BY <2>5, <2>6
<1>3. CASE i \notin Rows
    <2>1. row' = row
        BY <1>3 DEF SetRow
    <2>2. Rows' = Rows
        BY <2>1 DEF Rows
    <2>3. Away' = Away
        BY AwayStays
    <2> QED BY <2>1, <2>2, <2>3, Unseen
<1> QED BY <1>2, <1>3

\* Lemma: the loop over the pages holds a comic, or moves none.
LEMMA PageMoves == ASSUME IInv, IInv', TapStays, Page PROVE [Promise!Next]_shelf
<1>1. drain.step = "page" /\ torn' = torn /\ drain.item \in Comics
    BY DEF Page, IInv, Hands, At
<1>2. CASE AllDone(drain.done) /\ SetRow(drain.item, "complete", drain.done) /\ Loop
    <2>1. drain'.step # "row"
        BY <1>2 DEF Loop, Off
    <2> QED BY <1>1, <1>2, <2>1, Ends
<1>3. CASE ~AllDone(drain.done)
    <2>1. row' = row
        BY <1>3 DEF Page
    <2>2. drain'.step # "row"
        <3>1. CASE Loop
            BY <3>1 DEF Loop, Off
        <3>2. CASE drain' = [drain EXCEPT !.used = Downloaded,
                                          !.step = IF Fits(Downloaded) THEN "fetch" ELSE "list"]
            BY <3>2 DEF IInv, Typed, Drain
        <3> QED BY <1>3, <3>1, <3>2 DEF Page
    <2>3. Rows' = Rows
        BY <2>1 DEF Rows
    <2> QED BY <1>1, <2>1, <2>2, <2>3, AwayStays, Unseen
<1> QED BY <1>2, <1>3 DEF Page

\* Lemma: an eviction that makes no room refuses the comic at hand.
LEMMA EvictedMoves == ASSUME IInv, IInv', TapStays, Evicted PROVE [Promise!Next]_shelf
<1>1. drain.step = "evict" /\ torn' = torn /\ drain.item \in Comics
    BY DEF Evicted, IInv, Hands, At
<1>2. CASE SetRow(drain.item, "failed", drain.done) /\ Loop
    <2>1. drain'.step # "row"
        BY <1>2 DEF Loop, Off
    <2> QED BY <1>1, <1>2, <2>1, Ends
<1>3. CASE drain' = [drain EXCEPT !.step = "fetch", !.candidates = {}] /\ UNCHANGED row
    <2>1. drain'.step # "row"
        BY <1>3 DEF IInv, Typed, Drain
    <2>2. Rows' = Rows
        BY <1>3 DEF Rows
    <2> QED BY <1>1, <1>3, <2>1, <2>2, AwayStays, Unseen
<1> QED BY <1>2, <1>3 DEF Evicted

\* Lemma: so does the server.
LEMMA RefusedMoves == ASSUME IInv, IInv', TapStays, Refused PROVE [Promise!Next]_shelf
<1>1. /\ drain.step = "fetch" /\ torn' = torn /\ drain.item \in Comics
      /\ SetRow(drain.item, "failed", drain.done)
    BY DEF Refused, IInv, Hands, At
<1>2. drain'.step # "row"
    BY DEF Refused, Loop, Off
<1> QED BY <1>1, <1>2, Ends

\* Lemma: the files of a comic go, then its row: it is off the shelf at once.
LEMMA Goes ==
    ASSUME IInv, IInv', NEW v \in Comics, row' = row, Away' = Away \cup {v}
    PROVE  [Promise!Next]_shelf
<1>1. Rows' = Rows
    BY DEF Rows
<1>2. \A c \in Comics \ {v} : Same(c)
    BY <1>1 DEF Same
<1>3. v \notin Rows' \ Away'
    OBVIOUS
<1> QED BY <1>2, <1>3, OneMoves

\* Lemma: a comic given up goes,
LEMMA EvictMoves == ASSUME IInv, IInv', TapStays, Evict PROVE [Promise!Next]_shelf
<1>1. PICK v \in drain.candidates :
         drain' = [drain EXCEPT !.step = "row", !.victim = v, !.candidates = @ \ {v},
                                !.used = @ - Pages]
    BY DEF Evict
<1>2. drain \in Drain
    BY DEF IInv, Typed
<1>3. drain'.step = "row" /\ drain'.victim = v /\ v \in Comics
    BY <1>1, <1>2 DEF Drain
<1>4. drain.step = "evict" /\ row' = row /\ torn' = torn
    BY DEF Evict, At
<1>5. Away' = Away \cup {v}
    BY <1>3, <1>4 DEF Away, Removing, At, TapStays
<1> QED BY <1>3, <1>4, <1>5, Goes

\* Lemma: and a comic removed.
LEMMA RemoveMoves ==
    ASSUME IInv, IInv', NEW c \in Comics, Remove(c) PROVE [Promise!Next]_shelf
<1>1. /\ op = Idle /\ op' = [Idle EXCEPT !.kind = "remove", !.comic = c]
      /\ row' = row /\ drain' = drain /\ torn' = torn
    BY DEF Remove
<1>2. op'.kind = "remove" /\ op'.comic = c /\ op.kind = "idle"
    BY <1>1 DEF Idle
<1>3. Away' = Away \cup {c}
    BY <1>1, <1>2 DEF Away, Removing, At
<1> QED BY <1>1, <1>3, Goes

\* Lemma: a comic asked for is wanted.
LEMMA AskWriteMoves == ASSUME IInv, IInv', AskWrite PROVE [Promise!Next]_shelf
<1> DEFINE i == op.comic
<1>1. op.kind = "ask" /\ i \in Comics /\ op \in Op /\ row \in [Comics -> Row]
    BY DEF AskWrite, IInv, Asked, Typed
<1>2. PICK r : r.state = "queued" /\ row' = [row EXCEPT ![i] = r]
    <2>1. CASE op.existing.state = "none"
        BY <2>1 DEF AskWrite
    <2>2. CASE op.existing.state # "none"
        <3>1. row' = [row EXCEPT ![i] = [op.existing EXCEPT !.state = "queued"]]
            BY <2>2 DEF AskWrite
        <3>2. op.existing \in Row
            BY <1>1 DEF Op
        <3>3. [op.existing EXCEPT !.state = "queued"].state = "queued"
            BY <3>2 DEF Row
        <3> QED BY <3>1, <3>3
    <2> QED BY <2>1, <2>2
<1>3. row'[i].state = "queued" /\ \A c \in Comics \ {i} : row'[c] = row[c]
    BY <1>1, <1>2
<1>4. Rows' = Rows \cup {i}
    BY <1>1, <1>3 DEF Rows
<1>5. op'.kind = "idle" /\ torn' = torn
    BY DEF AskWrite, Idle
<1>6. drain.step = "row" <=> drain'.step = "row"
    BY StartedKeeps DEF AskWrite
<1>7. drain'.victim = drain.victim
    BY StartedKeeps DEF AskWrite
<1>8. Away' = Away
    BY <1>1, <1>5, <1>6, <1>7 DEF Away, Removing, At
<1>9. \A c \in Comics \ {i} : Same(c)
    BY <1>3, <1>4, <1>8 DEF Same
<1>10. \/ i \in Rows' \ Away' /\ row'[i].state = "queued"
       \/ i \notin Rows' \ Away'
    BY <1>3, <1>4
<1> QED BY <1>1, <1>9, <1>10, OneMoves

\* Lemma: the row of a removed comic goes after it.
LEMMA RemoveRowUnseen == ASSUME IInv, IInv', RemoveRow PROVE UNCHANGED shelf
<1> DEFINE i == op.comic
<1>1. /\ op.kind = "remove" /\ op' = Idle /\ row \in [Comics -> Row]
      /\ row' = [row EXCEPT ![i] = NoRow] /\ torn' = torn \ {i} /\ drain' = drain
    BY DEF RemoveRow, IInv, Typed
<1>2. op'.kind = "idle"
    BY <1>1 DEF Idle
<1> HIDE DEF i
<1>3. \A c \in Comics \ {i} : row'[c] = row[c] /\ (c \in Rows' <=> c \in Rows)
    BY <1>1 DEF Rows
<1>4. i \notin Rows'
    BY <1>1 DEF Rows, NoRow
<1>5. i \in Away /\ \A c \in Comics \ {i} : c \in Away' <=> c \in Away
    BY <1>1, <1>2 DEF Away, Removing, At, i
<1>6. ASSUME NEW c \in Comics PROVE Same(c)
    <2>1. CASE c = i
        BY <1>4, <1>5, <2>1 DEF Same
    <2>2. CASE c # i
        <3>1. row'[c] = row[c] /\ (c \in Rows' <=> c \in Rows) /\ (c \in Away' <=> c \in Away)
            BY <1>3, <1>5, <2>2
        <3> QED BY <3>1 DEF Same
    <2> QED BY <2>1, <2>2
<1> QED BY <1>6, AllSame

\* Lemma: steps of the user, and of the phone, that change nothing he sees.
LEMMA UserUnseen ==
    ASSUME IInv, IInv',
           \/ \E c \in Comics : AskRead(c)
           \/ Pause \/ Start \/ Kill \/ UNCHANGED vars
    PROVE  UNCHANGED shelf
<1>1. row' = row
    BY DEF AskRead, Pause, Start, Kill, vars
<1>2. Rows' = Rows
    BY <1>1 DEF Rows
<1>3. CASE \E c \in Comics : AskRead(c)
    <2>1. PICK c \in Comics : AskRead(c)
        BY <1>3
    <2>2. /\ op = Idle /\ drain' = drain /\ torn' = torn
          /\ op' = [Idle EXCEPT !.kind = "ask", !.comic = c, !.existing = row[c]]
        BY <2>1 DEF AskRead
    <2>3. op.kind = "idle" /\ op'.kind = "ask"
        BY <2>2 DEF Idle
    <2>4. Away' = Away
        BY <2>2, <2>3 DEF Away, Removing, At
    <2> QED BY <1>1, <1>2, <2>4, Unseen
<1>4. CASE Pause \/ UNCHANGED vars
    <2>1. op' = op /\ drain' = drain /\ torn' = torn
        BY <1>4 DEF Pause, vars
    <2>2. Away' = Away
        BY <2>1 DEF Away, Removing, At
    <2> QED BY <1>1, <1>2, <2>2, Unseen
<1>5. CASE Start
    <2>1. op' = op /\ torn' = torn /\ Started
        BY <1>5 DEF Start
    <2>2. drain'.victim = drain.victim
        BY <2>1, StartedKeeps
    <2>3. drain.step = "row" <=> drain'.step = "row"
        BY <2>1, StartedKeeps
    <2>4. Away' = Away
        BY <2>1, <2>2, <2>3 DEF Away, Removing, At
    <2> QED BY <1>1, <1>2, <2>4, Unseen
<1>6. CASE Kill
    <2>1. drain' = Off /\ op' = Idle /\ torn' = torn \cup (Removing \cap Rows)
        BY <1>6 DEF Kill
    <2>2. drain'.step # "row" /\ op'.kind = "idle"
        BY <2>1 DEF Off, Idle
    <2>3. \A c \in Rows : c \in Away' <=> c \in Away
        BY <2>1, <2>2 DEF Away, Removing, At
    <2>4. \A c \in Comics : Same(c)
        BY <1>1, <1>2, <2>3 DEF Same
    <2> QED BY <2>4, AllSame
<1> QED BY <1>3, <1>4, <1>5, <1>6

-----------------------------------------------------------------------------
(* The refinement *)

\* Lemma: every step of the drain is one of Shelf, or none.
LEMMA DrainMoves ==
    ASSUME IInv, IInv', Overtakes(DrainAction) PROVE [Promise!Next]_shelf
<1>1. DrainAction /\ TapStays
    BY Tapping DEF Overtakes, IInv, Typed
<1> QED BY <1>1, SettleUnseen, ReadingUnseen, BeginUnseen, CountUnseen, NetworkDownUnseen,
           EvictRowUnseen, PageMoves, EvictedMoves, RefusedMoves, EvictMoves
        DEF DrainAction, Progress

\* A step of Downloads is one of Shelf, or none.
THEOREM ShelfStep == IInv /\ IInv' /\ [Next]_vars => [Promise!Next]_shelf
<1> SUFFICES ASSUME IInv, IInv', [Next]_vars PROVE [Promise!Next]_shelf
    OBVIOUS
<1>1. CASE Overtakes(DrainAction)
    BY <1>1, DrainMoves
<1>2. CASE \E c \in Comics : AskRead(c)
    BY <1>2, UserUnseen
<1>3. CASE \E c \in Comics : Remove(c)
    BY <1>3, RemoveMoves
<1>4. CASE UserStep
    BY <1>4, AskWriteMoves, RemoveRowUnseen DEF UserStep
<1>5. CASE Pause \/ Start \/ Kill \/ UNCHANGED vars
    BY <1>5, UserUnseen
<1> QED BY <1>1, <1>2, <1>3, <1>4, <1>5 DEF Next

\* Lemma: nothing is on the shelf at first.
LEMMA ShelfInit == Init => Promise!Init
<1> SUFFICES ASSUME Init PROVE Promise!Init
    OBVIOUS
<1>1. \A c \in Comics : c \notin Rows
    BY DEF Init, Rows, NoRow
<1>2. \A c \in Comics : Standing(c) = "absent"
    BY <1>1 DEF Standing
<1> QED BY <1>2 DEF shelf, Promise!Init

\* Whatever was asked for is held whole, refused or removed, and nothing else
\* changes what the user counts on: Downloads implements Shelf.
THEOREM ShelfTheorem == ~Reask /\ Spec => Promise!Spec
<1> SUFFICES ASSUME ~Reask PROVE Spec => Promise!Spec
    OBVIOUS
<1>1. Spec => []IInv
    BY Invariance
<1>2. IInv /\ IInv' /\ [Next]_vars => [Promise!Next]_shelf
    BY ShelfStep
<1> QED BY <1>1, <1>2, ShelfInit, PTL DEF Spec, Promise!Spec
=============================================================================

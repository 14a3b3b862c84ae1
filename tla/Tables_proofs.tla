---------------------------- MODULE Tables_proofs ----------------------------
(***************************************************************************)
(* Three tables that are read in an order, each by who keeps the other     *)
(* side of it in step: the progress rows of the server, by their stamps,   *)
(* which a phone pulls (SyncCursor); the pending rows of a phone, oldest   *)
(* first, which it pushes (OfflineQueue); and the inventory of the derived *)
(* cache, least recently hit first, which an eviction goes through         *)
(* (DerivedCache).  They share no state; what they share is how rows are   *)
(* kept in an order, and taken out of it.                                  *)
(***************************************************************************)
EXTENDS SyncCursor, OfflineQueue, DerivedCache, FiniteSetTheorems, WellFoundedInduction, TLAPS

-----------------------------------------------------------------------------
(* Numbers and rows in an order *)

\* A set of natural numbers has a least one.
LEMMA LeastOf ==
    ASSUME NEW S \in SUBSET Nat, S # {}
    PROVE  \E m \in S : \A n \in S : m <= n
<1> DEFINE R == OpToRel(<, Nat)
<1>1. IsWellFoundedOn(R, Nat)
  BY NatLessThanWellFounded
<1>2. \A x, y \in Nat : y < x => <<y, x>> \in R
  BY DEF OpToRel
<1> HIDE DEF R
<1>3. PICK m \in S : \A n \in S : ~(<<n, m>> \in R)
  BY <1>1, WFMin
<1>4. \A n \in S : ~(n < m)
  BY <1>2, <1>3
<1> QED BY <1>3, <1>4

\* A set of numbers that has a bound has a last one.
LEMMA LastOf ==
    ASSUME NEW S \in SUBSET Nat, S # {}, NEW b \in Nat, \A n \in S : n <= b
    PROVE  \E m \in S : \A n \in S : n <= m
<1> DEFINE Bounds == {k \in Nat : \A n \in S : n <= k}
<1>1. Bounds \subseteq Nat /\ Bounds # {}
  OBVIOUS
<1>2. PICK k \in Bounds : \A j \in Bounds : k <= j
  <2> HIDE DEF Bounds
  <2> QED BY <1>1, LeastOf
<1>3. ASSUME k \notin S PROVE FALSE
  <2>1. \A n \in S : n <= k - 1
    BY <1>2, <1>3
  <2>2. PICK n \in S : n <= k - 1
    BY <2>1
  <2>3. k - 1 \in Bounds /\ ~(k <= k - 1)
    BY <1>2, <2>1, <2>2
  <2> QED BY <1>2, <2>3
<1> QED BY <1>2, <1>3

\* One row more is kept or left out.
Sieve(s, S, f, n) ==
    IF n = 0 THEN <<>> ELSE IF s[n] \in S THEN f[n - 1] ELSE Append(f[n - 1], s[n])

\* Lemma: the sieve can be run to the end of any sequence.
LEMMA SieveRuns ==
    ASSUME NEW s, Len(s) \in Nat, NEW S, NEW m \in 0..Len(s)
    PROVE  \E f : f = [n \in 0..m |-> Sieve(s, S, f, n)]
<1> DEFINE Runs(k) == \E f : f = [n \in 0..k |-> Sieve(s, S, f, n)]
           Stuck == {k \in Nat : ~Runs(k)}
<1> SUFFICES ASSUME Stuck # {} PROVE FALSE
  OBVIOUS
<1> HIDE DEF Runs
<1>1. PICK k \in Stuck : \A j \in Stuck : k <= j
  BY LeastOf
<1>2. CASE k = 0
  <2>1. [n \in 0..0 |-> <<>>] = [n \in 0..0 |-> Sieve(s, S, [i \in 0..0 |-> <<>>], n)]
    BY DEF Sieve
  <2> QED BY <1>1, <1>2, <2>1 DEF Runs
<1>3. CASE k # 0
  <2>1. k - 1 \in Nat /\ k \in Nat /\ k - 1 \notin Stuck
    BY <1>1, <1>3
  <2>2. Runs(k - 1)
    BY <2>1
  <2>3. PICK f : f = [n \in 0..k - 1 |-> Sieve(s, S, f, n)]
    BY <2>2 DEF Runs
  <2>4. PICK g : g = [n \in 0..k |-> IF n = k THEN Sieve(s, S, f, k) ELSE f[n]]
    OBVIOUS
  <2>5. ASSUME NEW n \in 0..k PROVE g[n] = Sieve(s, S, g, n)
    <3>1. CASE n = 0
      BY <1>3, <2>1, <2>3, <2>4, <3>1 DEF Sieve
    <3>2. CASE n # 0
      <4>1. n - 1 \in 0..k - 1 /\ g[n - 1] = f[n - 1]
        BY <2>1, <2>4, <3>2
      <4>2. Sieve(s, S, g, n) = Sieve(s, S, f, n)
        BY <3>2, <4>1 DEF Sieve
      <4>3. CASE n = k
        BY <2>4, <4>2, <4>3
      <4>4. CASE n # k
        BY <2>1, <2>3, <2>4, <4>2, <4>4
      <4> QED BY <4>3, <4>4
    <3> QED BY <3>1, <3>2
  <2>6. g = [n \in 0..k |-> Sieve(s, S, g, n)]
    BY <2>4, <2>5
  <2>7. Runs(k)
    BY <2>6 DEF Runs
  <2> QED BY <1>1, <2>7
<1> QED BY <1>2, <1>3

\* Lemma: what is kept of a table are the rows that are not taken out, and
\* no row twice if none was there twice.
LEMMA WithoutKeeps ==
    ASSUME NEW T, NEW s \in Seq(T), NEW S
    PROVE  /\ Without(s, S) \in Seq(T)
           /\ ToSet(Without(s, S)) = ToSet(s) \ S
           /\ IsInjective(s) => IsInjective(Without(s, S))
<1> DEFINE kept == CHOOSE f : f = [n \in 0..Len(s) |-> Sieve(s, S, f, n)]
           Good(n) == /\ kept[n] \in Seq(T)
                      /\ \A x : x \in ToSet(kept[n]) <=> x \notin S /\ \E i \in 1..n : x = s[i]
                      /\ IsInjective(s) => IsInjective(kept[n])
           Bad == {n \in Nat : n <= Len(s) /\ ~Good(n)}
<1>0. Len(s) \in Nat /\ Len(s) \in 0..Len(s)
  OBVIOUS
<1>1. Len(s) \in Nat /\ DOMAIN s = 1..Len(s) /\ \A n \in 1..Len(s) : s[n] \in T
  OBVIOUS
<1>2. \E f : f = [n \in 0..Len(s) |-> Sieve(s, S, f, n)]
  <2>1. PICK m \in 0..Len(s) : m = Len(s)
    BY <1>0
  <2>2. \E f : f = [n \in 0..m |-> Sieve(s, S, f, n)]
    BY <1>0, <2>1, SieveRuns
  <2> QED BY <2>1, <2>2
<1>3. kept = [n \in 0..Len(s) |-> Sieve(s, S, kept, n)]
  BY <1>2
<1>4. Without(s, S) = kept[Len(s)]
  BY DEF Without, Sieve
<1> HIDE DEF kept
<1>5. \A n \in 0..Len(s) : kept[n] = Sieve(s, S, kept, n)
  BY <1>3
<1>6. Bad = {}
  <2> SUFFICES ASSUME Bad # {} PROVE FALSE
    OBVIOUS
  <2> HIDE DEF Good
  <2>1. PICK n \in Bad : \A m \in Bad : n <= m
    BY LeastOf
  <2>2. CASE n = 0
    <3>1. kept[0] = <<>>
      BY <1>1, <1>5 DEF Sieve
    <3>2. Good(0)
      BY <3>1 DEF Good, ToSet, IsInjective
    <3> QED BY <2>1, <2>2, <3>2
  <2>3. CASE n # 0
    <3>1. n \in 1..Len(s) /\ n - 1 \in Nat /\ n - 1 \notin Bad /\ n \in Nat
      BY <1>1, <2>1, <2>3
    <3>2. Good(n - 1)
      BY <1>1, <3>1
    <3>3. kept[n] = IF s[n] \in S THEN kept[n - 1] ELSE Append(kept[n - 1], s[n])
      BY <1>1, <1>5, <3>1 DEF Sieve
    <3>4. \A x : (\E i \in 1..n : x = s[i]) <=> x = s[n] \/ \E i \in 1..n - 1 : x = s[i]
      BY <3>1
    <3>5. CASE s[n] \in S
      BY <3>2, <3>3, <3>4, <3>5 DEF Good
    <3>6. CASE s[n] \notin S
      <4>1. PICK q \in Seq(T) : q = kept[n - 1]
        BY <3>2 DEF Good
      <4>2. PICK r : r = Append(q, s[n])
        OBVIOUS
      <4>3. /\ r \in Seq(T) /\ Len(q) \in Nat /\ DOMAIN q = 1..Len(q) /\ DOMAIN r = 1..Len(q) + 1
            /\ r[Len(q) + 1] = s[n] /\ \A i \in 1..Len(q) : r[i] = q[i]
        BY <1>1, <3>1, <4>1, <4>2
      <4>4. \A x : x \in ToSet(r) <=> x = s[n] \/ x \in ToSet(q)
        <5> SUFFICES ASSUME NEW x PROVE x \in ToSet(r) <=> x = s[n] \/ x \in ToSet(q)
          OBVIOUS
        <5>1. ASSUME x \in ToSet(r) PROVE x = s[n] \/ x \in ToSet(q)
          <6>1. PICK i \in 1..Len(q) + 1 : x = r[i]
            BY <4>3, <5>1 DEF ToSet
          <6> QED BY <4>3, <6>1 DEF ToSet
        <5>2. ASSUME x = s[n] \/ x \in ToSet(q) PROVE x \in ToSet(r)
          BY <4>3, <5>2 DEF ToSet
        <5> QED BY <5>1, <5>2
      <4>5. ASSUME IsInjective(s) PROVE IsInjective(r)
        <5>1. IsInjective(q)
          BY <3>2, <4>1, <4>5 DEF Good
        <5>2. s[n] \notin ToSet(q)
          BY <1>1, <3>1, <3>2, <4>1, <4>5 DEF Good, IsInjective
        <5>3. \A i \in 1..Len(q) : q[i] # s[n]
          BY <4>3, <5>2 DEF ToSet
        <5> QED BY <4>3, <5>1, <5>3 DEF IsInjective
      <4>6. kept[n] = r
        BY <3>3, <3>6, <4>1, <4>2
      <4>7. Good(n)
        BY <3>2, <3>4, <3>6, <4>1, <4>3, <4>4, <4>5, <4>6 DEF Good
      <4> QED BY <2>1, <4>7
    <3> QED BY <2>1, <3>5, <3>6
  <2> QED BY <2>2, <2>3
<1>7. Good(Len(s))
  <2> HIDE DEF Good
  <2> QED BY <1>1, <1>6
<1>8. ToSet(kept[Len(s)]) = ToSet(s) \ S
  BY <1>1, <1>7 DEF ToSet
<1> QED BY <1>4, <1>7, <1>8

-----------------------------------------------------------------------------
(***************************************************************************)
(* SyncCursor.  The cursor of GET /sync never passes over a change that    *)
(* the phone has not received, whatever the comics, the transactions that  *)
(* overlap, the rows they write, the loads under way and the limit, but    *)
(* for the rows that the two defects of the cursor have hidden: a write    *)
(* that committed behind a cursor already given, and a page that ended     *)
(* among rows of one stamp.                                                *)
(***************************************************************************)

\* Every row up to n has been merged.
MergedTo(n) == \A c \in InOrder : stamp[c] <= n => got[c] >= version[c]

\* ... or will have been, once the page in hand is.
PageReaches(page, n) ==
    \A c \in InOrder : stamp[c] <= n =>
        got[c] >= version[c] \/ \E change \in page : change.comic = c /\ change.version >= version[c]

Stamps ==
    /\ \A c \in Comics : stamp[c] <= clock
    /\ \A w \in Writers : tx[w].writes # {} => tx[w].now <= clock

LoadKnown(p) ==
    /\ p.step # "idle" => p.cursor <= given /\ MergedTo(p.cursor)
    /\ p.step = "merge" => p.next <= given /\ PageReaches(p.batch, p.next)

\* The inductive invariant.
Known ==
    /\ TypeOK
    /\ Stamps
    /\ cursor <= given /\ MergedTo(cursor)
    /\ \A l \in Loads : LoadKnown(pull[l])

\* The stamp of the last row of a page is that of one of its rows, and no
\* row of the page has a later one.
LEMMA LastStampIs ==
    ASSUME stamp \in [Comics -> Nat], clock \in Nat, \A c \in Comics : stamp[c] <= clock,
           NEW B \in SUBSET Comics, B # {}, NEW since
    PROVE  \E b \in B : /\ LastStamp(B, since) = stamp[b]
                        /\ \A c \in B : stamp[c] <= stamp[b]
<1> DEFINE S == {stamp[c] : c \in B}
           last == CHOOSE n \in S : \A c \in B : stamp[c] <= n
<1>1. S \in SUBSET Nat /\ S # {} /\ \A n \in S : n <= clock
  OBVIOUS
<1>2. \E m \in S : \A n \in S : n <= m
  <2> HIDE DEF S
  <2> QED BY <1>1, LastOf
<1>3. \E m \in S : \A c \in B : stamp[c] <= m
  BY <1>2
<1>4. last \in S /\ \A c \in B : stamp[c] <= last
  BY <1>3
<1>5. LastStamp(B, since) = last
  BY DEF LastStamp
<1> HIDE DEF last
<1>6. PICK b \in B : last = stamp[b]
  BY <1>4
<1> QED BY <1>4, <1>5, <1>6

\* A page brings the phone as far as the cursor that comes with it.
LEMMA PageIsWhole ==
    ASSUME Known, NEW since \in Nat, MergedTo(since), since <= given,
           NEW B \in SUBSET ChangedSince(since), FirstOf(B, ChangedSince(since))
    PROVE  LET next == NextCursor(B, ChangedSince(since), since)
               page == {[comic |-> c, version |-> version[c]] : c \in B}
           IN  /\ next \in Nat
               /\ page \in SUBSET Change
               /\ \A c \in InOrder \ Beside(B, ChangedSince(since)) : stamp[c] <= next =>
                      \/ got[c] >= version[c]
                      \/ \E change \in page : change.comic = c /\ change.version >= version[c]
<1> DEFINE next == NextCursor(B, ChangedSince(since), since)
           page == {[comic |-> c, version |-> version[c]] : c \in B}
<1>1. /\ stamp \in [Comics -> Nat] /\ version \in [Comics -> Nat] /\ got \in [Comics -> Nat]
      /\ clock \in Nat /\ \A c \in Comics : stamp[c] <= clock
      /\ B \subseteq Comics /\ InOrder \subseteq Comics
  BY DEF Known, TypeOK, Stamps, ChangedSince, InOrder
<1>2. page \in SUBSET Change
  BY <1>1 DEF Change
<1>3. \A b \in B : \E change \in page : change.comic = b /\ change.version >= version[b]
  <2> SUFFICES ASSUME NEW b \in B
               PROVE  \E change \in page : change.comic = b /\ change.version >= version[b]
    OBVIOUS
  <2>1. [comic |-> b, version |-> version[b]] \in page /\ version[b] \in Nat
    BY <1>1
  <2> QED BY <2>1
<1> HIDE DEF page
<1>4. CASE B = {}
  <2>1. next = since
    BY <1>4 DEF NextCursor, LastStamp
  <2> QED BY <1>2, <2>1 DEF MergedTo, page
<1>5. CASE B # {}
  <2>2. \E b \in B : /\ LastStamp(B, since) = stamp[b]
                     /\ \A c \in B : stamp[c] <= stamp[b]
    BY <1>1, <1>5, LastStampIs
  <2>3. PICK b \in B : next = stamp[b] /\ \A c \in B : stamp[c] <= stamp[b]
    BY <2>2 DEF NextCursor
  <2>4. next \in Nat
    BY <1>1, <2>3
  <2>5. ASSUME NEW c \in InOrder \ Beside(B, ChangedSince(since)), stamp[c] <= stamp[b]
        PROVE  \/ got[c] >= version[c]
               \/ \E change \in page : change.comic = c /\ change.version >= version[c]
    <3>1. CASE stamp[c] <= since
      BY <3>1 DEF MergedTo
    <3>2. CASE c \in B
      BY <1>3, <3>2
    <3>3. CASE ~(stamp[c] <= since) /\ c \notin B
      <4>1. c \in ChangedSince(since) \ B
        BY <1>1, <3>3 DEF ChangedSince
      <4>2. stamp[b] <= stamp[c]
        BY <4>1 DEF FirstOf
      <4>3. stamp[c] = stamp[b]
        BY <1>1, <2>5, <4>2
      <4> QED BY <4>1, <4>3 DEF Beside
    <3> QED BY <3>1, <3>2, <3>3
  <2> QED BY <1>2, <2>3, <2>4, <2>5 DEF page
<1> QED BY <1>4, <1>5

-----------------------------------------------------------------------------
(* Each action *)

\* One load moves on, nothing else does.
LEMMA OneLoad ==
    ASSUME Known, NEW l \in Loads, NEW p \in Pull,
           pull' = [pull EXCEPT ![l] = p],
           UNCHANGED <<stamp, version, clock, tx, cursor, got, history>>,
           LoadKnown(p)
    PROVE  Known'
<1>1. TypeOK'
  BY DEF Known, TypeOK, history
<1>2. Stamps' /\ cursor' <= given' /\ MergedTo(cursor)'
  BY DEF Known, Stamps, MergedTo, InOrder, history
<1>3. ASSUME NEW j \in Loads PROVE LoadKnown(pull[j])'
  <2>1. pull'[j] = (IF j = l THEN p ELSE pull[j]) /\ LoadKnown(pull[j])
    BY DEF Known, TypeOK
  <2>2. PICK q : q = pull'[j]
    OBVIOUS
  <2>3. LoadKnown(q)
    BY <2>1, <2>2
  <2>4. LoadKnown(q)'
    BY <2>3 DEF LoadKnown, MergedTo, PageReaches, InOrder, history
  <2> QED BY <2>2, <2>4 DEF LoadKnown, MergedTo, PageReaches, InOrder
<1> QED BY <1>1, <1>2, <1>3 DEF Known

\* A load at rest has promised nothing.
LEMMA RestingKnown == Resting \in Pull /\ LoadKnown(Resting)
BY DEF Resting, Pull, LoadKnown

\* A load that goes on from n.
LEMMA FromKnown ==
    ASSUME Known, NEW n \in Nat, n <= given, MergedTo(n), NEW p \in Pull
    PROVE  LET q == [p EXCEPT !.step = "fetch", !.cursor = n]
           IN  q \in Pull /\ LoadKnown(q) /\ q.step = "fetch"
<1> PICK q : q = [p EXCEPT !.step = "fetch", !.cursor = n]
  OBVIOUS
<1>1. q \in Pull /\ q.step = "fetch" /\ q.cursor = n
  BY DEF Pull
<1> QED BY <1>1 DEF LoadKnown

LEMMA StartKnown ==
    ASSUME Known, NEW l \in Loads, Start(l)
    PROVE  Known'
<1> PICK q : q = [Resting EXCEPT !.step = "fetch", !.cursor = cursor]
  OBVIOUS
<1>1. q \in Pull /\ LoadKnown(q)
  BY FromKnown, RestingKnown DEF Known, TypeOK
<1>2. pull' = [pull EXCEPT ![l] = q] /\ UNCHANGED <<stamp, version, clock, tx, cursor, got, history>>
  BY DEF Start
<1> QED BY <1>1, <1>2, OneLoad

LEMMA FailKnown ==
    ASSUME Known, NEW l \in Loads, Fail(l)
    PROVE  Known'
BY RestingKnown, OneLoad DEF Fail

LEMMA FetchKnown ==
    ASSUME Known, NEW l \in Loads, Fetch(l)
    PROVE  Known'
<1>1. pull[l] \in Pull /\ pull[l].step = "fetch" /\ LoadKnown(pull[l])
  BY DEF Known, TypeOK, Fetch
<1>2. PICK since : since = pull[l].cursor
  OBVIOUS
<1>3. since \in Nat /\ since <= given /\ MergedTo(since)
  BY <1>1, <1>2 DEF LoadKnown, Pull
<1>4. PICK B \in SUBSET ChangedSince(since) :
        /\ FirstOf(B, ChangedSince(since))
        /\ pull' = [pull EXCEPT ![l] =
              [step |-> "merge", cursor |-> since,
               next |-> NextCursor(B, ChangedSince(since), since),
               batch |-> {[comic |-> c, version |-> version[c]] : c \in B},
               more |-> B # ChangedSince(since), pages |-> pull[l].pages + 1]]
        /\ given' = Later(given, NextCursor(B, ChangedSince(since), since))
        /\ cut' = cut \cup Beside(B, ChangedSince(since))
  BY <1>1, <1>2 DEF Fetch, Known, TypeOK
<1>5. PICK next : next = NextCursor(B, ChangedSince(since), since)
  OBVIOUS
<1>6. PICK page : page = {[comic |-> c, version |-> version[c]] : c \in B}
  OBVIOUS
<1>7. /\ next \in Nat /\ page \in SUBSET Change
      /\ \A c \in InOrder \ Beside(B, ChangedSince(since)) : stamp[c] <= next =>
             got[c] >= version[c] \/ \E change \in page : change.comic = c /\ change.version >= version[c]
  BY <1>3, <1>4, <1>5, <1>6, PageIsWhole
<1>8. UNCHANGED <<stamp, version, clock, tx, cursor, got, late>>
  BY DEF Fetch
<1>9. given \in Nat /\ given' \in Nat /\ given <= given' /\ next <= given'
  BY <1>4, <1>5, <1>7 DEF Later, Known, TypeOK
<1>10. InOrder' \subseteq InOrder \ Beside(B, ChangedSince(since))
  BY <1>4, <1>8 DEF InOrder
<1>11. ASSUME NEW n, MergedTo(n) PROVE MergedTo(n)'
  BY <1>8, <1>10, <1>11 DEF MergedTo
<1>12. PageReaches(page, next)'
  BY <1>7, <1>8, <1>10 DEF PageReaches
<1>13. PICK p : p = [step |-> "merge", cursor |-> since, next |-> next, batch |-> page,
                     more |-> B # ChangedSince(since), pages |-> pull[l].pages + 1]
  OBVIOUS
<1>14. p \in Pull
  <2>1. pull[l].pages + 1 \in Nat
    BY <1>1 DEF Pull
  <2> QED BY <1>3, <1>7, <1>13, <2>1 DEF Pull
<1>15. p.step = "merge" /\ p.cursor = since /\ p.next = next /\ p.batch = page
  BY <1>13
<1>16. LoadKnown(p)'
  <2>1. MergedTo(since)'
    BY <1>3, <1>11
  <2> QED BY <1>3, <1>9, <1>12, <1>15, <2>1 DEF LoadKnown, MergedTo, PageReaches
<1>17. pull' = [pull EXCEPT ![l] = p]
  BY <1>4, <1>5, <1>6, <1>13
<1>18. TypeOK'
  <2>1. cut' \subseteq Comics
    BY <1>4 DEF Beside, ChangedSince, Known, TypeOK
  <2> QED BY <1>8, <1>9, <1>14, <1>17, <2>1 DEF Known, TypeOK
<1>19. Stamps' /\ cursor' <= given' /\ MergedTo(cursor)'
  <2>1. cursor \in Nat /\ cursor <= given /\ MergedTo(cursor)
    BY DEF Known, TypeOK
  <2>2. MergedTo(cursor)'
    BY <1>8, <1>10, <2>1 DEF MergedTo
  <2> QED BY <1>8, <1>9, <2>1, <2>2 DEF Known, Stamps
<1>20. ASSUME NEW j \in Loads PROVE LoadKnown(pull[j])'
  <2>1. CASE j = l
    <3>1. pull'[j] = p
      BY <1>17, <2>1 DEF Known, TypeOK
    <3> QED BY <1>16, <3>1 DEF LoadKnown, MergedTo, PageReaches
  <2>2. CASE j # l
    <3>1. PICK q : q = pull[j]
      OBVIOUS
    <3>2. q \in Pull /\ LoadKnown(q) /\ pull'[j] = q
      BY <1>17, <2>2, <3>1 DEF Known, TypeOK
    <3>3. q.step # "idle" => q.cursor <= given' /\ MergedTo(q.cursor)'
      BY <1>9, <1>11, <3>2 DEF LoadKnown, Pull
    <3>4. q.step = "merge" => q.next <= given' /\ PageReaches(q.batch, q.next)'
      BY <1>8, <1>9, <1>10, <3>2 DEF LoadKnown, PageReaches, Pull
    <3> QED BY <3>2, <3>3, <3>4 DEF LoadKnown, MergedTo, PageReaches
  <2> QED BY <2>1, <2>2
<1> QED BY <1>18, <1>19, <1>20 DEF Known

LEMMA MergeOneKnown ==
    ASSUME Known, NEW l \in Loads, MergeOne(l)
    PROVE  Known'
<1>1. pull[l] \in Pull /\ pull[l].step = "merge" /\ LoadKnown(pull[l])
  BY DEF Known, TypeOK, MergeOne
<1>2. PICK change \in pull[l].batch :
        /\ got' = [got EXCEPT ![change.comic] = IF got[change.comic] < change.version
                                                THEN change.version ELSE got[change.comic]]
        /\ pull' = [pull EXCEPT ![l].batch = pull[l].batch \ {change}]
  BY DEF MergeOne, Known, TypeOK
<1>3. change \in Change /\ got \in [Comics -> Nat] /\ version \in [Comics -> Nat]
  BY <1>1 DEF Pull, Known, TypeOK
<1>4. /\ got' \in [Comics -> Nat] /\ \A c \in Comics : got'[c] >= got[c]
      /\ got'[change.comic] >= change.version
  BY <1>2, <1>3 DEF Change
<1>5. UNCHANGED <<stamp, version, clock, tx, cursor, given, late, cut>> /\ InOrder \subseteq Comics
  BY DEF MergeOne, history, InOrder
<1>6. PICK p : p = [pull[l] EXCEPT !.batch = pull[l].batch \ {change}]
  OBVIOUS
<1>7. pull' = [pull EXCEPT ![l] = p]
  BY <1>2, <1>6
<1>8. p \in Pull /\ p.step = "merge" /\ p.cursor = pull[l].cursor /\ p.next = pull[l].next
      /\ p.batch = pull[l].batch \ {change}
  BY <1>1, <1>6 DEF Pull
<1>9. TypeOK'
  BY <1>4, <1>5, <1>7, <1>8 DEF Known, TypeOK
<1>10. Stamps' /\ cursor' <= given' /\ InOrder' = InOrder
  BY <1>5 DEF Known, Stamps, InOrder
<1>11. ASSUME NEW n, MergedTo(n) PROVE MergedTo(n)'
  BY <1>3, <1>4, <1>5, <1>10, <1>11 DEF MergedTo
<1>12. MergedTo(cursor)'
  BY <1>3, <1>4, <1>5, <1>10 DEF Known, MergedTo
<1>13. ASSUME NEW j \in Loads PROVE LoadKnown(pull[j])'
  <2>1. pull'[j] = (IF j = l THEN p ELSE pull[j]) /\ LoadKnown(pull[j]) /\ pull[j] \in Pull
    BY <1>7 DEF Known, TypeOK
  <2>2. PICK q : q = pull'[j]
    OBVIOUS
  <2>3. q.step # "idle" => q.cursor <= given /\ MergedTo(q.cursor)
    BY <1>1, <1>8, <2>1, <2>2 DEF LoadKnown
  <2>4. q.step # "idle" => q.cursor <= given' /\ MergedTo(q.cursor)'
    BY <1>5, <1>11, <2>3
  <2>5. ASSUME q.step = "merge" PROVE q.next <= given' /\ PageReaches(q.batch, q.next)'
    <3>1. q.next <= given
      BY <1>1, <1>8, <2>1, <2>2, <2>5 DEF LoadKnown
    <3>2. ASSUME NEW c \in InOrder, stamp'[c] <= q.next
          PROVE  \/ got'[c] >= version'[c]
                 \/ \E other \in q.batch : other.comic = c /\ other.version >= version'[c]
      <4>1. PageReaches(pull[j].batch, q.next) /\ version'[c] = version[c] /\ stamp'[c] = stamp[c]
        BY <1>1, <1>5, <1>8, <2>1, <2>2, <2>5 DEF LoadKnown
      <4>2. \/ got[c] >= version[c]
            \/ \E other \in pull[j].batch : other.comic = c /\ other.version >= version[c]
        BY <3>2, <4>1 DEF PageReaches
      <4>3. CASE got[c] >= version[c]
        BY <1>3, <1>4, <1>5, <4>1, <4>3
      <4>4. ASSUME NEW other \in pull[j].batch, other.comic = c, other.version >= version[c]
            PROVE  \/ got'[c] >= version'[c]
                   \/ \E another \in q.batch : another.comic = c /\ another.version >= version'[c]
        <5>1. CASE other = change
          <6>1. other.version \in Nat /\ version[c] \in Nat /\ got'[c] \in Nat
            BY <1>3, <1>4, <1>5, <5>1 DEF Change
          <6>2. got'[c] >= other.version
            BY <1>4, <4>4, <5>1
          <6> QED BY <4>1, <4>4, <6>1, <6>2
        <5>2. CASE other # change
          <6>1. other \in q.batch
            BY <1>8, <2>1, <2>2, <4>4, <5>2
          <6> QED BY <4>1, <4>4, <6>1
        <5> QED BY <5>1, <5>2
      <4> QED BY <4>2, <4>3, <4>4
    <3> QED BY <1>5, <1>10, <3>1, <3>2 DEF PageReaches
  <2> QED BY <2>2, <2>4, <2>5 DEF LoadKnown, MergedTo, PageReaches
<1> QED BY <1>9, <1>10, <1>12, <1>13 DEF Known

LEMMA SaveCursorKnown ==
    ASSUME Known, NEW l \in Loads, SaveCursor(l)
    PROVE  Known'
<1>1. pull[l] \in Pull /\ pull[l].step = "merge" /\ pull[l].batch = {} /\ LoadKnown(pull[l])
  BY DEF Known, TypeOK, SaveCursor
<1>2. PICK n : n = pull[l].next
  OBVIOUS
<1>3. n \in Nat /\ n <= given /\ PageReaches({}, n)
  BY <1>1, <1>2 DEF LoadKnown, Pull
<1>4. MergedTo(n)
  BY <1>3 DEF PageReaches, MergedTo
<1>5. PICK p : p = [pull[l] EXCEPT !.step = "fetch", !.cursor = n]
  OBVIOUS
<1>6. p \in Pull /\ LoadKnown(p)
  BY <1>1, <1>3, <1>4, <1>5, FromKnown
<1>7. PICK q : q = IF pull[l].more /\ pull[l].pages < PullMaxPages THEN p ELSE Resting
  OBVIOUS
<1>8. q \in Pull /\ LoadKnown(q)
  BY <1>6, <1>7, RestingKnown
<1>9. cursor' = n /\ pull' = [pull EXCEPT ![l] = q] /\ UNCHANGED <<stamp, version, clock, tx, got, given, late, cut>>
  BY <1>2, <1>5, <1>7 DEF SaveCursor, Known, TypeOK, history
<1>10. TypeOK'
  BY <1>3, <1>8, <1>9 DEF Known, TypeOK
<1>11. Stamps' /\ cursor' <= given' /\ MergedTo(cursor)'
  BY <1>3, <1>4, <1>9 DEF Known, Stamps, MergedTo, InOrder
<1>12. ASSUME NEW j \in Loads PROVE LoadKnown(pull[j])'
  <2>1. pull'[j] = (IF j = l THEN q ELSE pull[j]) /\ LoadKnown(pull[j])
    BY <1>9 DEF Known, TypeOK
  <2>2. PICK r : r = pull'[j]
    OBVIOUS
  <2>3. LoadKnown(r)
    BY <1>8, <2>1, <2>2
  <2>4. LoadKnown(r)'
    BY <1>9, <2>3 DEF LoadKnown, MergedTo, PageReaches, InOrder
  <2> QED BY <2>2, <2>4 DEF LoadKnown, MergedTo, PageReaches, InOrder
<1> QED BY <1>10, <1>11, <1>12 DEF Known

\* A transaction begins: nothing can be seen of it.
LEMMA BeginKnown ==
    ASSUME Known, NEW w \in Writers, NEW S \in Writes, Begin(w, S)
    PROVE  Known'
<1>1. /\ clock \in Nat /\ clock' = clock + 1
      /\ tx \in [Writers -> Tx] /\ S \in SUBSET Comics /\ stamp \in [Comics -> Nat]
      /\ UNCHANGED <<stamp, version, cursor, pull, got, given, late, cut>>
  BY CursorAssumption DEF CursorAssumption, Begin, Known, TypeOK, history
<1>2. PICK t : t = [writes |-> S, now |-> clock + 1]
  OBVIOUS
<1>3. t \in Tx /\ t.writes = S /\ t.now = clock + 1
  BY <1>1, <1>2 DEF Tx
<1>4. tx' = [tx EXCEPT ![w] = t]
  BY <1>2 DEF Begin
<1>5. TypeOK'
  BY <1>1, <1>3, <1>4 DEF Known, TypeOK
<1>6. Stamps'
  <2>1. \A c \in Comics : stamp'[c] <= clock'
    BY <1>1 DEF Known, Stamps
  <2>2. ASSUME NEW v \in Writers, tx'[v].writes # {} PROVE tx'[v].now <= clock'
    <3>1. CASE v = w
      BY <1>1, <1>3, <1>4, <3>1
    <3>2. CASE v # w
      <4>1. tx'[v] = tx[v] /\ tx[v].now \in Nat /\ tx[v].now <= clock
        BY <1>1, <1>4, <2>2, <3>2 DEF Known, Stamps, Tx
      <4> QED BY <1>1, <4>1
    <3> QED BY <3>1, <3>2
  <2> QED BY <2>1, <2>2 DEF Stamps
<1>7. cursor' <= given' /\ MergedTo(cursor)' /\ \A l \in Loads : LoadKnown(pull[l])'
  BY <1>1 DEF Known, LoadKnown, MergedTo, PageReaches, InOrder
<1> QED BY <1>5, <1>6, <1>7 DEF Known

\* A commit: its rows get a stamp past every cursor given, or they are late.
LEMMA CommitKnown ==
    ASSUME Known, NEW w \in Writers, Commit(w)
    PROVE  Known'
<1>1. /\ stamp \in [Comics -> Nat] /\ version \in [Comics -> Nat] /\ clock \in Nat
      /\ tx \in [Writers -> Tx] /\ tx[w].writes # {} /\ given \in Nat
      /\ late \subseteq Comics /\ cut \subseteq Comics
  BY DEF Known, TypeOK, Commit
<1>2. PICK rows : rows = tx[w].writes
  OBVIOUS
<1>3. PICK now : now = tx[w].now
  OBVIOUS
<1>4. rows \in SUBSET Comics /\ now \in Nat /\ now <= clock
  BY <1>1, <1>2, <1>3 DEF Tx, Known, Stamps
<1>5. /\ stamp' = [c \in Comics |-> IF c \in rows THEN now ELSE stamp[c]]
      /\ version' = [c \in Comics |-> IF c \in rows THEN version[c] + 1 ELSE version[c]]
      /\ tx' = [tx EXCEPT ![w] = NoTx]
      /\ late' = (IF now <= given THEN late \cup rows ELSE late \ rows)
      /\ cut' = cut \ rows
      /\ UNCHANGED <<clock, cursor, pull, got, given>>
  BY <1>2, <1>3 DEF Commit
<1>6. NoTx \in Tx /\ NoTx.writes = {}
  BY DEF NoTx, Tx
<1>7. TypeOK'
  BY <1>1, <1>4, <1>5, <1>6 DEF Known, TypeOK
<1>8. Stamps'
  <2>1. \A c \in Comics : stamp'[c] <= clock'
    BY <1>1, <1>4, <1>5 DEF Known, Stamps
  <2>2. \A v \in Writers : tx'[v].writes # {} => tx'[v].now <= clock'
    BY <1>1, <1>5, <1>6 DEF Known, Stamps
  <2> QED BY <2>1, <2>2 DEF Stamps
<1>9. ASSUME NEW n \in Nat, n <= given, NEW c \in InOrder', stamp'[c] <= n
      PROVE  c \in InOrder /\ stamp[c] <= n /\ version'[c] = version[c]
  <2>1. c \in Comics /\ c \notin late' /\ c \notin cut'
    BY DEF InOrder
  <2>2. c \notin rows
    BY <1>1, <1>4, <1>5, <1>9, <2>1
  <2> QED BY <1>1, <1>5, <1>9, <2>1, <2>2 DEF InOrder
<1>10. ASSUME NEW n \in Nat, n <= given, MergedTo(n) PROVE MergedTo(n)'
  BY <1>5, <1>9, <1>10 DEF MergedTo
<1>11. cursor' <= given' /\ MergedTo(cursor)'
  <2>1. PICK n : n = cursor
    OBVIOUS
  <2>2. n <= given /\ MergedTo(n)'
    BY <1>10, <2>1 DEF Known, TypeOK
  <2> QED BY <1>5, <2>1, <2>2 DEF MergedTo
<1>12. ASSUME NEW j \in Loads PROVE LoadKnown(pull[j])'
  <2>1. PICK q : q = pull[j]
    OBVIOUS
  <2>2. q \in Pull /\ LoadKnown(q)
    BY <2>1 DEF Known, TypeOK
  <2>3. q.step # "idle" => q.cursor <= given' /\ MergedTo(q.cursor)'
    BY <1>5, <1>10, <2>2 DEF LoadKnown, Pull
  <2>4. ASSUME q.step = "merge" PROVE q.next <= given' /\ PageReaches(q.batch, q.next)'
    <3>1. q.next \in Nat /\ q.next <= given /\ PageReaches(q.batch, q.next)
      BY <2>2, <2>4 DEF LoadKnown, Pull
    <3>2. ASSUME NEW c \in InOrder', stamp'[c] <= q.next
          PROVE  \/ got'[c] >= version'[c]
                 \/ \E change \in q.batch : change.comic = c /\ change.version >= version'[c]
      <4>1. c \in InOrder /\ stamp[c] <= q.next /\ version'[c] = version[c]
        BY <1>9, <3>1, <3>2
      <4> QED BY <1>5, <3>1, <4>1 DEF PageReaches
    <3> QED BY <1>5, <3>1, <3>2 DEF PageReaches
  <2> QED BY <1>5, <2>1, <2>3, <2>4 DEF LoadKnown, MergedTo, PageReaches
<1> QED BY <1>7, <1>8, <1>11, <1>12 DEF Known

\* Lemma: nothing is there at first.
LEMMA InitKnown == Init => Known
<1> SUFFICES ASSUME Init PROVE Known
  OBVIOUS
<1>1. NoTx \in Tx /\ NoTx.writes = {}
  BY DEF NoTx, Tx
<1>2. TypeOK
  BY <1>1, RestingKnown DEF Init, TypeOK
<1>3. Stamps /\ cursor <= given /\ MergedTo(cursor)
  BY <1>1 DEF Init, Stamps, MergedTo, InOrder
<1>4. \A l \in Loads : LoadKnown(pull[l])
  BY RestingKnown DEF Init
<1> QED BY <1>2, <1>3, <1>4 DEF Known

\* Lemma: every step keeps the invariant.
LEMMA NextKnown ==
    ASSUME Known, [Next]_vars
    PROVE  Known'
<1>1. CASE \E w \in Writers, S \in Writes : Begin(w, S)
  BY <1>1, BeginKnown
<1>2. CASE \E w \in Writers : Commit(w)
  BY <1>2, CommitKnown
<1>3. CASE \E l \in Loads : Load(l) \/ Fail(l)
  BY <1>3, StartKnown, FetchKnown, MergeOneKnown, SaveCursorKnown, FailKnown DEF Load
<1>4. CASE UNCHANGED vars
  BY <1>4 DEF vars, history, Known, TypeOK, Stamps, MergedTo, PageReaches, LoadKnown, InOrder
<1> QED BY <1>1, <1>2, <1>3, <1>4 DEF Next

-----------------------------------------------------------------------------
\* service.go: the cursor never passes over a change the phone has not
\* received, but for the rows that committed behind a cursor already given
\* and those that a page left out beside a row of the same stamp.
THEOREM CursorTheorem == Spec => []NothingSkipped
<1>1. Known => NothingSkipped
  BY DEF Known, MergedTo, NothingSkipped
<1>2. Known /\ [Next]_vars => Known'
  BY NextKnown
<1> QED BY <1>1, <1>2, InitKnown, PTL DEF Spec

\* service.go: when the server says there is no more, the phone has every
\* change or holds it in the page just received, under the same proviso.
THEOREM DrainedTheorem == Spec => DrainedIsComplete
<1> DEFINE Whole(l) ==
        Fetch(l) /\ ~pull'[l].more =>
          \A c \in InOrder : \/ got[c] >= version[c]
                             \/ [comic |-> c, version |-> version[c]] \in pull'[l].batch
<1>1. ASSUME Known, NEW l \in Loads PROVE Whole(l)
  <2> SUFFICES ASSUME Fetch(l), ~pull'[l].more, NEW c \in InOrder
               PROVE  \/ got[c] >= version[c]
                      \/ [comic |-> c, version |-> version[c]] \in pull'[l].batch
    OBVIOUS
  <2>1. pull[l] \in Pull /\ pull[l].step = "fetch" /\ LoadKnown(pull[l])
    BY <1>1 DEF Known, TypeOK, Fetch
  <2>2. PICK since : since = pull[l].cursor
    OBVIOUS
  <2>3. MergedTo(since) /\ since \in Nat
    BY <2>1, <2>2 DEF LoadKnown, Pull
  <2>4. PICK B \in SUBSET ChangedSince(since) :
          pull' = [pull EXCEPT ![l] =
              [step |-> "merge", cursor |-> since,
               next |-> NextCursor(B, ChangedSince(since), since),
               batch |-> {[comic |-> b, version |-> version[b]] : b \in B},
               more |-> B # ChangedSince(since), pages |-> pull[l].pages + 1]]
    BY <1>1, <2>1, <2>2 DEF Fetch, Known, TypeOK
  <2>5. /\ pull'[l].batch = {[comic |-> b, version |-> version[b]] : b \in B}
        /\ pull'[l].more = (B # ChangedSince(since))
    BY <1>1, <2>4 DEF Known, TypeOK
  <2>6. CASE c \in ChangedSince(since)
    BY <2>5, <2>6
  <2>7. CASE c \notin ChangedSince(since)
    <3>1. stamp[c] <= since
      BY <1>1, <2>3, <2>7 DEF ChangedSince, Known, TypeOK, InOrder
    <3> QED BY <2>3, <3>1 DEF MergedTo
  <2> QED BY <2>6, <2>7
<1>2. Known /\ [Next]_vars => [\A l \in Loads : Whole(l)]_vars
  BY <1>1
<1>3. Known /\ [Next]_vars => Known'
  BY NextKnown
<1>4. Spec => [][\A l \in Loads : Whole(l)]_vars
  <2> HIDE DEF Whole
  <2> QED BY <1>2, <1>3, InitKnown, PTL DEF Spec
<1> QED BY <1>4 DEF DrainedIsComplete

-----------------------------------------------------------------------------
(***************************************************************************)
(* OfflineQueue.  The last position recorded on a phone is on the server   *)
(* or still in the queue, whatever is in flight when it is recorded,       *)
(* however often pushes are refused, lost, or stopped half way, unless the *)
(* comic itself is gone from the server, or the answer to an older         *)
(* position has cleared the mark of this one.                              *)
(***************************************************************************)

\* Whatever a call carries that the server has gone through is on it, unless
\* the reader has left that position behind since.
Landed ==
    /\ \A c \in Readable :
          put[c] = "applied" => <<"put", c>> \in aged \/ c \in reached \cup purged
    /\ load \in {"sent", "applied"} =>
          \A c \in ToSet(batch) : \/ c \in ToSet(todo)
                                 \/ <<"batch", c>> \in aged \/ c \in reached \cup purged

\* An answer comes when there is nothing left of the batch.
Flying ==
    /\ load = "sent" => todo # <<>>
    /\ load = "applied" => todo = <<>>

\* The inductive invariant.
Kept ==
    /\ queue \in Seq(Readable) /\ batch \in Seq(Readable) /\ todo \in Seq(Readable)
    /\ put \in [Readable -> {"none", "sent", "applied"}]
    /\ Landed /\ Flying
    /\ NothingLost

\* A row is added at the end.
LEMMA AppendAdds ==
    ASSUME NEW T, NEW s \in Seq(T), NEW x \in T
    PROVE  Append(s, x) \in Seq(T) /\ ToSet(Append(s, x)) = ToSet(s) \cup {x}
<1>1. PICK r : r = Append(s, x)
  OBVIOUS
<1>2. /\ r \in Seq(T) /\ Len(s) \in Nat /\ DOMAIN s = 1..Len(s) /\ DOMAIN r = 1..Len(s) + 1
      /\ r[Len(s) + 1] = x /\ \A i \in 1..Len(s) : r[i] = s[i]
  BY <1>1
<1>3. \A y : y \in ToSet(r) <=> y = x \/ y \in ToSet(s)
  <2> SUFFICES ASSUME NEW y PROVE y \in ToSet(r) <=> y = x \/ y \in ToSet(s)
    OBVIOUS
  <2>1. ASSUME y \in ToSet(r) PROVE y = x \/ y \in ToSet(s)
    <3>1. PICK i \in 1..Len(s) + 1 : y = r[i]
      BY <1>2, <2>1 DEF ToSet
    <3> QED BY <1>2, <3>1 DEF ToSet
  <2>2. ASSUME y = x \/ y \in ToSet(s) PROVE y \in ToSet(r)
    BY <1>2, <2>2 DEF ToSet
  <2> QED BY <2>1, <2>2
<1> QED BY <1>1, <1>2, <1>3

\* The first row is taken.
LEMMA TailTakes ==
    ASSUME NEW T, NEW s \in Seq(T), s # <<>>
    PROVE  /\ Tail(s) \in Seq(T) /\ Head(s) \in T
           /\ ToSet(s) = ToSet(Tail(s)) \cup {Head(s)}
<1>1. PICK r : r = Tail(s)
  OBVIOUS
<1>2. /\ r \in Seq(T) /\ Len(s) \in Nat \ {0} /\ DOMAIN s = 1..Len(s) /\ DOMAIN r = 1..Len(s) - 1
      /\ Head(s) = s[1] /\ s[1] \in T /\ \A i \in 1..Len(s) - 1 : r[i] = s[i + 1]
  BY <1>1
<1>3. \A y : y \in ToSet(s) <=> y = Head(s) \/ y \in ToSet(r)
  <2> SUFFICES ASSUME NEW y PROVE y \in ToSet(s) <=> y = Head(s) \/ y \in ToSet(r)
    OBVIOUS
  <2>1. ASSUME y \in ToSet(s) PROVE y = Head(s) \/ y \in ToSet(r)
    <3>1. PICK i \in 1..Len(s) : y = s[i]
      BY <1>2, <2>1 DEF ToSet
    <3>2. CASE i = 1
      BY <1>2, <3>1, <3>2
    <3>3. CASE i # 1
      <4>1. i - 1 \in DOMAIN r /\ r[i - 1] = y
        BY <1>2, <3>1, <3>3
      <4> QED BY <4>1 DEF ToSet
    <3> QED BY <3>2, <3>3
  <2>2. ASSUME y = Head(s) \/ y \in ToSet(r) PROVE y \in ToSet(s)
    <3>1. CASE y = Head(s)
      BY <1>2, <3>1 DEF ToSet
    <3>2. CASE y \in ToSet(r)
      <4>1. PICK i \in 1..Len(s) - 1 : y = r[i]
        BY <1>2, <3>2 DEF ToSet
      <4>2. i + 1 \in DOMAIN s /\ s[i + 1] = y
        BY <1>2, <4>1
      <4> QED BY <4>2 DEF ToSet
    <3> QED BY <2>2, <3>1, <3>2
  <2> QED BY <2>1, <2>2
<1> QED BY <1>1, <1>2, <1>3

\* Lemma: nothing is recorded at first.
LEMMA InitKept == QueueInit => Kept
BY DEF QueueInit, Kept, Landed, Flying, NothingLost

\* The reader leaves a position: those on their way are aged.
LEMMA ReadKept ==
    ASSUME Kept, NEW c \in Readable, Read(c)
    PROVE  Kept'
<1>1. PICK less : less = Without(queue, {c})
  OBVIOUS
<1>2. less \in Seq(Readable) /\ ToSet(less) = ToSet(queue) \ {c}
  BY <1>1, WithoutKeeps DEF Kept
<1>3. /\ queue' = Append(less, c) /\ reached' = reached \ {c}
      /\ aged' = aged \cup {<<h, c>> : h \in Carrying(c)}
      /\ (put' = [put EXCEPT ![c] = "sent"] /\ put[c] = "none") \/ UNCHANGED put
      /\ recorded' = recorded \cup {c} /\ unmarked' = unmarked \ {c}
      /\ UNCHANGED <<purged, load, batch, todo>>
  BY <1>1 DEF Read
<1>4. queue' \in Seq(Readable) /\ ToSet(queue') = ToSet(queue) \cup {c}
  BY <1>2, <1>3, AppendAdds
<1>5. /\ put[c] # "none" => <<"put", c>> \in aged'
      /\ c \in ToSet(batch) => <<"batch", c>> \in aged'
      /\ aged \subseteq aged'
  BY <1>3 DEF Carrying, Carriers
<1>6. put' \in [Readable -> {"none", "sent", "applied"}]
  BY <1>3 DEF Kept
<1>7. \A d \in Readable : put'[d] = "applied" => put[d] = "applied"
  BY <1>3 DEF Kept
<1>8. Landed'
  <2>1. ASSUME NEW d \in Readable, put'[d] = "applied"
        PROVE  <<"put", d>> \in aged' \/ d \in reached' \cup purged'
    BY <1>3, <1>5, <1>7, <2>1 DEF Kept, Landed
  <2>2. ASSUME load' \in {"sent", "applied"}, NEW d \in ToSet(batch')
        PROVE  \/ d \in ToSet(todo')
               \/ <<"batch", d>> \in aged' \/ d \in reached' \cup purged'
    BY <1>3, <1>5, <2>2 DEF Kept, Landed
  <2> QED BY <2>1, <2>2 DEF Landed
<1>9. Flying' /\ NothingLost'
  BY <1>3, <1>4 DEF Kept, Flying, NothingLost
<1> QED BY <1>3, <1>4, <1>6, <1>8, <1>9 DEF Kept

LEMMA PutAppliedKept ==
    ASSUME Kept, NEW c \in Readable, PutApplied(c)
    PROVE  Kept'
<1>1. /\ put' = [put EXCEPT ![c] = "applied"] /\ reached \subseteq reached'
      /\ <<"put", c>> \in aged \/ c \in reached'
      /\ UNCHANGED <<queue, purged, load, batch, todo, aged, recorded, unmarked>>
  BY DEF PutApplied, Reach
<1>2. put' \in [Readable -> {"none", "sent", "applied"}]
  BY <1>1 DEF Kept
<1>3. Landed'
  BY <1>1 DEF Kept, Landed
<1> QED BY <1>1, <1>2, <1>3 DEF Kept, Flying, NothingLost

\* A call is over: nothing is carried by it any more.
LEMMA PutOverKept ==
    ASSUME Kept, NEW c \in Readable, PutOver(c), UNCHANGED <<reached, purged, load, batch, todo>>
    PROVE  put' \in [Readable -> {"none", "sent", "applied"}] /\ Landed' /\ Flying'
<1>1. put' = [put EXCEPT ![c] = "none"] /\ aged' = aged \ {<<"put", c>>}
  BY DEF PutOver
<1>2. put' \in [Readable -> {"none", "sent", "applied"}]
  BY <1>1 DEF Kept
<1>3. \A d : <<"batch", d>> \in aged => <<"batch", d>> \in aged'
  BY <1>1
<1>4. \A d \in Readable : put'[d] = "applied" => d # c /\ put[d] = "applied"
  BY <1>1 DEF Kept
<1>5. \A d : d # c /\ <<"put", d>> \in aged => <<"put", d>> \in aged'
  BY <1>1
<1>6. Landed'
  BY <1>3, <1>4, <1>5 DEF Kept, Landed
<1> QED BY <1>2, <1>6 DEF Kept, Flying

\* The answer to a PUT: the position has reached the server, or another one
\* loses its mark.
LEMMA PutConfirmedKept ==
    ASSUME Kept, NEW c \in Readable, PutConfirmed(c)
    PROVE  Kept'
<1>1. /\ put[c] = "applied" /\ PutOver(c)
      /\ queue' = Without(queue, {c})
      /\ unmarked' = unmarked \cup {d \in {c} : <<"put", d>> \in aged /\ d \in ToSet(queue)}
      /\ UNCHANGED <<reached, purged, load, batch, todo, recorded>>
  BY DEF PutConfirmed, MarkSynced, serverSide
<1>2. queue' \in Seq(Readable) /\ ToSet(queue') = ToSet(queue) \ {c}
  BY <1>1, WithoutKeeps DEF Kept
<1>3. <<"put", c>> \in aged \/ c \in reached \cup purged
  BY <1>1 DEF Kept, Landed
<1>4. NothingLost'
  BY <1>1, <1>2, <1>3 DEF Kept, NothingLost
<1> QED BY <1>1, <1>2, <1>4, PutOverKept DEF Kept

\* A load begins with a copy of the queue.
LEMMA LoadStartKept ==
    ASSUME Kept, LoadStart
    PROVE  Kept'
<1>1. /\ batch' = queue /\ todo' = queue
      /\ UNCHANGED <<queue, reached, purged, put, aged, recorded, unmarked>>
      /\ load' = IF queue = <<>> THEN "pull" ELSE "sent"
  BY DEF LoadStart, NothingToSend, serverSide, putVars
<1>2. Flying' /\ Landed'
  BY <1>1 DEF Kept, Flying, Landed
<1> QED BY <1>1, <1>2 DEF Kept, NothingLost

\* The server writes the first of what is left, or refuses it.
LEMMA ServerApplyKept ==
    ASSUME Kept, ServerApply
    PROVE  Kept'
<1>1. /\ UNCHANGED <<queue, purged, batch, put, aged, recorded, unmarked>>
      /\ load = "sent" /\ todo # <<>>
  BY DEF ServerApply, Kept, Flying, putVars
<1>2. CASE load' = "refused" /\ UNCHANGED <<reached, todo>>
  BY <1>1, <1>2 DEF Kept, Landed, Flying, NothingLost
<1>3. CASE ~(load' = "refused" /\ UNCHANGED <<reached, todo>>)
  <2>1. /\ reached' = Reach(Head(todo), "batch") /\ todo' = Tail(todo)
        /\ load' = IF todo' = <<>> THEN "applied" ELSE load
    BY <1>3 DEF ServerApply
  <2>2. todo' \in Seq(Readable) /\ ToSet(todo) = ToSet(todo') \cup {Head(todo)}
    BY <1>1, <2>1, TailTakes DEF Kept
  <2>3. reached \subseteq reached' /\ (<<"batch", Head(todo)>> \in aged \/ Head(todo) \in reached')
    BY <2>1 DEF Reach
  <2>4. Landed'
    BY <1>1, <2>2, <2>3 DEF Kept, Landed
  <2>5. Flying'
    BY <1>1, <2>1 DEF Flying
  <2> QED BY <1>1, <2>2, <2>3, <2>4, <2>5 DEF Kept, NothingLost
<1> QED BY <1>2, <1>3

\* The load has done with its batch.
LEMMA BatchOverKept ==
    ASSUME Kept, NEW next \in {"idle", "pull"}, BatchOver(next), UNCHANGED <<put, reached, purged>>
    PROVE  batch' \in Seq(Readable) /\ todo' \in Seq(Readable) /\ Landed' /\ Flying'
<1>1. /\ batch' = <<>> /\ todo' = <<>> /\ load' \in {"idle", "pull"}
      /\ aged' = {pair \in aged : pair[1] # "batch"}
  BY DEF BatchOver
<1>2. \A d : <<"put", d>> \in aged => <<"put", d>> \in aged'
  BY <1>1
<1>3. Landed'
  BY <1>1, <1>2 DEF Kept, Landed
<1> QED BY <1>1, <1>3 DEF Flying

\* The answer to a batch: each of its positions has reached the server, or
\* another one loses its mark.
LEMMA PushConfirmedKept ==
    ASSUME Kept, PushConfirmed
    PROVE  Kept'
<1>1. /\ queue' = Without(queue, ToSet(batch)) /\ BatchOver("pull") /\ load = "applied"
      /\ unmarked' = unmarked \cup {c \in ToSet(batch) : <<"batch", c>> \in aged /\ c \in ToSet(queue)}
      /\ UNCHANGED <<reached, purged, put, recorded>>
  BY DEF PushConfirmed, MarkSynced, Marked, serverSide
<1>2. queue' \in Seq(Readable) /\ ToSet(queue') = ToSet(queue) \ ToSet(batch)
  BY <1>1, WithoutKeeps DEF Kept
<1>3. \A c \in ToSet(batch) : <<"batch", c>> \in aged \/ c \in reached \cup purged
  <2>1. ToSet(todo) = {}
    BY <1>1 DEF Kept, Flying, ToSet
  <2> QED BY <1>1, <2>1 DEF Kept, Landed
<1>4. NothingLost'
  BY <1>1, <1>2, <1>3 DEF Kept, NothingLost
<1> QED BY <1>1, <1>2, <1>4, BatchOverKept DEF Kept

\* Lemma: every step keeps the invariant.
LEMMA NextKept == Kept /\ [QueueNext]_queueVars => Kept'
<1> SUFFICES ASSUME Kept, [QueueNext]_queueVars PROVE Kept'
  OBVIOUS
<1>1. CASE \E c \in Readable : Read(c) \/ PutApplied(c) \/ PutConfirmed(c)
  BY <1>1, ReadKept, PutAppliedKept, PutConfirmedKept
<1>2. ASSUME NEW c \in Readable, PutFailed(c) PROVE Kept'
  <2>1. PutOver(c) /\ UNCHANGED <<queue, reached, purged, load, batch, todo, recorded, unmarked>>
    BY <1>2 DEF PutFailed, serverSide
  <2> QED BY <2>1, PutOverKept DEF Kept, NothingLost
<1>3. CASE \E c \in Purgeable : Purge(c)
  BY <1>3 DEF Purge, putVars, Kept, Landed, Flying, NothingLost
<1>4. CASE ReadElsewhere \/ PullDone \/ PullLost \/ UNCHANGED queueVars
  <2>1. /\ UNCHANGED <<queue, reached, purged, batch, todo, put, aged, recorded, unmarked>>
        /\ load' = load \/ load' = "idle"
    BY <1>4 DEF ReadElsewhere, PullDone, PullLost, queueVars, serverSide, putVars
  <2> QED BY <2>1 DEF Kept, Landed, Flying, NothingLost
<1>5. CASE PushRefused \/ PushLost
  <2>1. /\ UNCHANGED <<queue, reached, purged, put, recorded, unmarked>>
        /\ BatchOver("idle") \/ BatchOver("pull")
    BY <1>5 DEF PushRefused, PushLost, KeptAfterRefusal, serverSide
  <2>2. batch' \in Seq(Readable) /\ todo' \in Seq(Readable) /\ Landed' /\ Flying'
    BY <2>1, BatchOverKept
  <2> QED BY <2>1, <2>2 DEF Kept, NothingLost
<1>6. CASE LoadStart \/ ServerApply \/ PushConfirmed
  BY <1>6, LoadStartKept, ServerApplyKept, PushConfirmedKept
<1> QED BY <1>1, <1>2, <1>3, <1>4, <1>5, <1>6 DEF QueueNext, LoadStep

\* progress_sync.dart: rows are marked only once the server has confirmed, or
\* an offline reading would be lost.  No last position is lost, but that of a
\* comic that is gone and that whose mark the answer to an older one cleared.
THEOREM QueueTheorem == QueueSpec => []NothingLost
<1>1. Kept => NothingLost
  BY DEF Kept
<1> QED BY <1>1, InitKept, NextKept, PTL DEF QueueSpec

-----------------------------------------------------------------------------
(***************************************************************************)
(* DerivedCache.  An eviction goes through the inventory that it has       *)
(* listed and counts down what is left to free; hits move rows, purges     *)
(* take them away, and only a row that is added, or one that it failed to  *)
(* delete, can leave more than the target behind.                          *)
(***************************************************************************)

Request == {q \in [step: Steps, key: Variants, todo: Seq(Variants), excess: Int] :
              q.step = "drop" => q.todo # <<>>}
Evicts(q) == q # Idle /\ q.step \in Evicting

\* What an eviction has still to free is enough.
Frees(q) ==
    /\ q # Idle /\ q.step = "list" => SizeOf(ToSet(lru)) <= Target + q.excess
    /\ q # Idle /\ q.step \in {"evict", "drop"} =>
          /\ IsInjective(q.todo) /\ ToSet(lru) \subseteq ToSet(q.todo)
          /\ SizeOf(ToSet(q.todo)) <= Target + q.excess

\* The inductive invariant.
Inventory ==
    /\ lru \in Seq(Variants) /\ IsInjective(lru)
    /\ req \in [Requests -> Request \cup {Idle}]
    /\ \A r, s \in Requests : Evicts(req[r]) /\ Evicts(req[s]) => r = s
    /\ alone => \A r \in Requests : Frees(req[r])

\* The bytes of some variants, one by one.
Bytes(S) == UNION {{k} \X (1..Size[k]) : k \in S}

LEMMA BytesOfOne ==
    ASSUME NEW k \in Variants
    PROVE  IsFiniteSet({k} \X (1..Size[k])) /\ Cardinality({k} \X (1..Size[k])) = Size[k]
<1>1. PICK n \in Nat : n = Size[k]
  BY CacheAssumption DEF CacheAssumption
<1>2. IsFiniteSet(1..n) /\ Cardinality(1..n) = n
  BY FS_Interval
<1>3. IsFiniteSet({k}) /\ Cardinality({k}) = 1
  BY FS_Singleton
<1>4. PICK B : B = 1..n
  OBVIOUS
<1>5. /\ IsFiniteSet({k} \X B)
      /\ Cardinality({k} \X B) = Cardinality({k}) * Cardinality(B)
  BY <1>2, <1>3, <1>4, FS_Product
<1>6. Cardinality({k}) * Cardinality(B) = n
  BY <1>2, <1>3, <1>4
<1> QED BY <1>1, <1>4, <1>5, <1>6

LEMMA BytesFinite ==
    ASSUME NEW S \in SUBSET Variants
    PROVE  IsFiniteSet(Bytes(S))
<1> DEFINE Of(k) == {k} \X (1..Size[k])
           T == {Of(k) : k \in S}
           f == [k \in S |-> Of(k)]
<1>1. IsFiniteSet(S)
  BY FS_Subset, CacheAssumption DEF CacheAssumption
<1>2. f \in Surjection(S, T)
  BY DEF Surjection
<1>3. \A B \in T : IsFiniteSet(B)
  BY BytesOfOne
<1>4. Bytes(S) = UNION T
  BY DEF Bytes
<1> HIDE DEF f, T
<1>5. IsFiniteSet(T)
  BY <1>1, <1>2, FS_Surjection
<1> QED BY <1>3, <1>4, <1>5, FS_UNION

\* The size of some variants; what one of them adds to it.
LEMMA Sizes ==
    ASSUME NEW S \in SUBSET Variants
    PROVE  /\ SizeOf(S) \in Nat
           /\ \A R \in SUBSET S : SizeOf(R) <= SizeOf(S)
           /\ \A k \in S : SizeOf(S \ {k}) = SizeOf(S) - Size[k]
           /\ S = {} => SizeOf(S) = 0
<1>1. \A R : SizeOf(R) = Cardinality(Bytes(R))
  BY DEF SizeOf, Bytes
<1>2. IsFiniteSet(Bytes(S)) /\ Cardinality(Bytes(S)) \in Nat
  BY BytesFinite, FS_CardinalityType
<1>3. ASSUME NEW R \in SUBSET S
      PROVE  SizeOf(R) <= SizeOf(S)
  <2>1. Bytes(R) \subseteq Bytes(S)
    BY DEF Bytes
  <2> QED BY <1>1, <1>2, <2>1, FS_Subset
<1>4. ASSUME NEW k \in S
      PROVE  SizeOf(S \ {k}) = SizeOf(S) - Size[k]
  <2>1. PICK K : K = {k} \X (1..Size[k])
    OBVIOUS
  <2>2. PICK rest : rest = Bytes(S \ {k})
    OBVIOUS
  <2>3. Bytes(S) = rest \cup K
    BY <2>1, <2>2 DEF Bytes
  <2>4. rest \cap K = {}
    BY <2>1, <2>2 DEF Bytes
  <2>5. IsFiniteSet(rest) /\ IsFiniteSet(K) /\ Cardinality(K) = Size[k]
    <3>1. S \ {k} \in SUBSET Variants /\ k \in Variants
      OBVIOUS
    <3> QED BY <2>1, <2>2, <3>1, BytesFinite, BytesOfOne
  <2>6. Cardinality(rest \cup K) = Cardinality(rest) + Cardinality(K) - Cardinality(rest \cap K)
    BY <2>5, FS_Union
  <2>7. Cardinality(rest \cap K) = 0
    BY <2>4, FS_EmptySet
  <2>8. Cardinality(rest) \in Nat /\ Cardinality(K) \in Nat
    BY <2>5, FS_CardinalityType
  <2>9. Cardinality(rest \cup K) = Cardinality(rest) + Size[k] /\ Size[k] \in Nat
    BY <2>5, <2>6, <2>7, <2>8
  <2>10. SizeOf(S) = Cardinality(rest \cup K) /\ SizeOf(S \ {k}) = Cardinality(rest)
    BY <1>1, <2>2, <2>3
  <2> QED BY <2>8, <2>9, <2>10
<1>5. ASSUME S = {}
      PROVE  SizeOf(S) = 0
  <2>1. Bytes(S) = {}
    BY <1>5 DEF Bytes
  <2> QED BY <1>1, <2>1, FS_EmptySet
<1>6. SizeOf(S) \in Nat
  BY <1>1, <1>2
<1> QED BY <1>3, <1>4, <1>5, <1>6

\* A row that is not there is added at the end; the first is taken away.
LEMMA AppendOnce ==
    ASSUME NEW T, NEW s \in Seq(T), NEW x \in T, IsInjective(s), x \notin ToSet(s)
    PROVE  IsInjective(Append(s, x))
<1>1. PICK r : r = Append(s, x)
  OBVIOUS
<1>2. /\ Len(s) \in Nat /\ DOMAIN s = 1..Len(s) /\ DOMAIN r = 1..Len(s) + 1
      /\ r[Len(s) + 1] = x /\ \A i \in 1..Len(s) : r[i] = s[i]
  BY <1>1
<1>3. \A i \in 1..Len(s) : s[i] # x
  BY <1>2 DEF ToSet
<1>4. \A i, j \in 1..Len(s) : s[i] = s[j] => i = j
  BY <1>2 DEF IsInjective
<1>5. \A i, j \in DOMAIN r : r[i] = r[j] => i = j
  BY <1>2, <1>3, <1>4
<1> QED BY <1>1, <1>5 DEF IsInjective

LEMMA TailOnce ==
    ASSUME NEW T, NEW s \in Seq(T), s # <<>>, IsInjective(s)
    PROVE  /\ Tail(s) \in Seq(T) /\ IsInjective(Tail(s)) /\ Head(s) \in T /\ Head(s) \in ToSet(s)
           /\ ToSet(Tail(s)) = ToSet(s) \ {Head(s)}
<1>1. PICK r : r = Tail(s)
  OBVIOUS
<1>2. /\ r \in Seq(T) /\ Len(s) \in Nat /\ Len(s) > 0 /\ DOMAIN s = 1..Len(s) /\ DOMAIN r = 1..Len(s) - 1
      /\ \A i \in 1..Len(s) - 1 : r[i] = s[i + 1]
      /\ Head(s) = s[1] /\ s[1] \in T
  BY <1>1
<1>3. \A i, j \in 1..Len(s) : s[i] = s[j] => i = j
  BY <1>2 DEF IsInjective
<1>4. \A i, j \in 1..Len(s) - 1 : r[i] = r[j] => i = j
  BY <1>2, <1>3
<1>5. ASSUME NEW x PROVE x \in ToSet(r) <=> x \in ToSet(s) /\ x # s[1]
  <2>1. ASSUME x \in ToSet(r) PROVE x \in ToSet(s) /\ x # s[1]
    <3>1. PICK i \in 1..Len(s) - 1 : x = r[i]
      BY <1>2, <2>1 DEF ToSet
    <3>2. i + 1 \in 1..Len(s) /\ 1 \in 1..Len(s) /\ i + 1 # 1 /\ x = s[i + 1]
      BY <1>2, <3>1
    <3> QED BY <1>2, <1>3, <3>2 DEF ToSet
  <2>2. ASSUME x \in ToSet(s), x # s[1] PROVE x \in ToSet(r)
    <3>1. PICK i \in 1..Len(s) : x = s[i]
      BY <1>2, <2>2 DEF ToSet
    <3>2. i - 1 \in 1..Len(s) - 1 /\ r[i - 1] = x
      BY <1>2, <2>2, <3>1
    <3> QED BY <1>2, <3>2 DEF ToSet
  <2> QED BY <2>1, <2>2
<1>6. Head(s) \in ToSet(s)
  BY <1>2 DEF ToSet
<1> QED BY <1>1, <1>2, <1>4, <1>5, <1>6 DEF IsInjective

-----------------------------------------------------------------------------
(* Each action of the cache *)

\* One request moves on; of the rows, none is added unless the eviction is
\* no longer alone.
LEMMA OneRequest ==
    ASSUME Inventory, NEW r \in Requests, NEW q \in Request \cup {Idle},
           req' = [req EXCEPT ![r] = q],
           lru' \in Seq(Variants), IsInjective(lru'),
           alone' => alone /\ ToSet(lru') \subseteq ToSet(lru),
           Evicts(q) => Evicts(req[r]),
           alone' => Frees(q)'
    PROVE  Inventory'
<1>1. /\ req' \in [Requests -> Request \cup {Idle}]
      /\ \A s \in Requests : req'[s] = IF s = r THEN q ELSE req[s]
  BY DEF Inventory
<1>2. \A s, t \in Requests : Evicts(req'[s]) /\ Evicts(req'[t]) => s = t
  BY <1>1 DEF Inventory
<1>3. ASSUME alone', NEW p \in Request \cup {Idle}, Frees(p)
      PROVE  Frees(p)'
  <2>1. ToSet(lru') \subseteq ToSet(lru) /\ ToSet(lru) \subseteq Variants
    <3>1. ToSet(lru') \subseteq ToSet(lru)
      BY <1>3
    <3>2. lru \in Seq(Variants)
      BY DEF Inventory
    <3>3. ToSet(lru) \subseteq Variants
      BY <3>2 DEF ToSet
    <3> QED BY <3>1, <3>3
  <2>2. /\ SizeOf(ToSet(lru')) \in Nat /\ SizeOf(ToSet(lru)) \in Nat
        /\ SizeOf(ToSet(lru')) <= SizeOf(ToSet(lru))
    <3>1. PICK S \in SUBSET Variants : S = ToSet(lru)
      BY <2>1
    <3>2. PICK R \in SUBSET S : R = ToSet(lru')
      BY <2>1, <3>1
    <3> QED BY <3>1, <3>2, Sizes
  <2>3. Target \in Int
    BY CacheAssumption DEF CacheAssumption, Target
  <2>4. p # Idle => p.excess \in Int
    BY DEF Request
  <2>5. p # Idle /\ p.step = "list" => SizeOf(ToSet(lru')) <= Target + p.excess
    BY <1>3, <2>2, <2>3, <2>4 DEF Frees
  <2>6. p # Idle /\ p.step \in {"evict", "drop"} =>
           /\ IsInjective(p.todo) /\ ToSet(lru') \subseteq ToSet(p.todo)
           /\ SizeOf(ToSet(p.todo)) <= Target + p.excess
    BY <1>3, <2>1 DEF Frees
  <2> QED BY <1>3, <2>5, <2>6 DEF Frees
<1>4. ASSUME alone', NEW s \in Requests
      PROVE  Frees(req[s])'
  <2>1. PICK p : p = req'[s]
    OBVIOUS
  <2>2. Frees(p)'
    <3>1. CASE s = r
      BY <1>1, <1>4, <2>1, <3>1
    <3>2. CASE s # r
      <4>1. p = req[s] /\ p \in Request \cup {Idle} /\ Frees(req[s])
        BY <1>1, <1>4, <2>1, <3>2 DEF Inventory
      <4> QED BY <1>3, <1>4, <4>1
    <3> QED BY <3>1, <3>2
  <2> QED BY <2>1, <2>2 DEF Frees
<1> QED BY <1>1, <1>2, <1>4 DEF Inventory

\* A request that goes on, or ends, without evicting.
LEMMA ElsewhereFrees ==
    ASSUME NEW q, ~Evicts(q)
    PROVE  Frees(q)'
BY DEF Frees, Evicts, Evicting

\* What a request is.
LEMMA AtWork ==
    ASSUME Inventory, NEW r \in Requests, NEW step, At(r, step)
    PROVE  req[r] # Idle /\ req[r] \in Request /\ req[r].step = step /\ req[r].key \in Variants
BY DEF Inventory, At, Request

LEMMA GoesOn ==
    ASSUME Inventory, NEW r \in Requests, req[r] \in Request, NEW step \in Steps, Go(r, step),
           step = "drop" => req[r].todo # <<>>
    PROVE  \E q \in Request : /\ req' = [req EXCEPT ![r] = q]
                              /\ q.step = step /\ q.todo = req[r].todo /\ q.excess = req[r].excess
<1>1. PICK q : q = [req[r] EXCEPT !.step = step]
  OBVIOUS
<1>2. q \in Request /\ q.step = step /\ q.todo = req[r].todo /\ q.excess = req[r].excess
  BY <1>1 DEF Request
<1>3. req' = [req EXCEPT ![r] = q]
  BY <1>1 DEF Go, Inventory
<1> QED BY <1>2, <1>3

\* A row becomes the one hit last.
LEMMA LatestRows ==
    ASSUME Inventory, NEW k \in Variants
    PROVE  /\ Latest(k) \in Seq(Variants) /\ IsInjective(Latest(k))
           /\ ToSet(Latest(k)) = ToSet(lru) \cup {k}
<1>1. PICK s : s = Without(lru, {k})
  OBVIOUS
<1>2. s \in Seq(Variants) /\ IsInjective(s) /\ ToSet(s) = ToSet(lru) \ {k}
  BY <1>1, WithoutKeeps DEF Inventory
<1>3. Latest(k) = Append(s, k)
  BY <1>1 DEF Latest
<1> QED BY <1>2, <1>3, AppendAdds, AppendOnce

\* A request that is not evicting: asks, is served, is recorded.
LEMMA ServedInventory ==
    ASSUME Inventory, NEW r \in Requests,
           \/ \E k \in Variants : Ask(r, k)
           \/ Touch(r) \/ Stat(r) \/ Foster(r) \/ Write(r) \/ Record(r)
    PROVE  Inventory'
<1>1. ASSUME NEW q \in Request \cup {Idle}, req' = [req EXCEPT ![r] = q], ~Evicts(q),
             \/ lru' = lru /\ (alone' => alone)
             \/ \E k \in Variants : lru' = Latest(k) /\ (alone' => alone /\ k \in ToSet(lru))
      PROVE  Inventory'
  <2>1. lru' \in Seq(Variants) /\ IsInjective(lru') /\ (alone' => alone /\ ToSet(lru') \subseteq ToSet(lru))
    BY <1>1, LatestRows DEF Inventory
  <2> QED BY <1>1, <2>1, OneRequest, ElsewhereFrees
<1>2. ASSUME NEW k \in Variants, Ask(r, k)
      PROVE  Inventory'
  <2>1. PICK step \in {"touch", "write"} : step = IF k \in files THEN "touch" ELSE "write"
    OBVIOUS
  <2>2. PICK q : q = [step |-> step, key |-> k, todo |-> <<>>, excess |-> 0]
    OBVIOUS
  <2>3. q \in Request /\ ~Evicts(q)
    BY <2>1, <2>2 DEF Request, Evicts, Steps, Evicting
  <2>4. req' = [req EXCEPT ![r] = q] /\ lru' = lru /\ alone' = alone
    BY <1>2, <2>1, <2>2 DEF Ask
  <2> QED BY <1>1, <2>3, <2>4
<1>3. ASSUME Finish(r),
             \/ lru' = lru /\ (alone' => alone)
             \/ \E k \in Variants : lru' = Latest(k) /\ (alone' => alone /\ k \in ToSet(lru))
      PROVE  Inventory'
  BY <1>1, <1>3 DEF Finish, Evicts
<1>4. ASSUME NEW step \in Steps \ Evicting, Go(r, step), req[r] \in Request,
             \/ lru' = lru /\ (alone' => alone)
             \/ \E k \in Variants : lru' = Latest(k) /\ (alone' => alone /\ k \in ToSet(lru))
      PROVE  Inventory'
  <2>1. PICK q \in Request : req' = [req EXCEPT ![r] = q] /\ q.step = step
    BY <1>4, GoesOn DEF Evicting
  <2>2. ~Evicts(q)
    BY <1>4, <2>1 DEF Evicts
  <2> QED BY <1>1, <1>4, <2>1, <2>2
<1>5. {"stat", "foster", "record", "measure"} \subseteq Steps \ Evicting
  BY DEF Steps, Evicting
<1>6. CASE Touch(r)
  <2>1. req[r] \in Request /\ req[r].key \in Variants
    BY <1>6, AtWork DEF Touch
  <2>2. \/ lru' = lru /\ alone' = alone /\ (Go(r, "stat") \/ Finish(r))
        \/ req[r].key \in ToSet(lru) /\ lru' = Latest(req[r].key) /\ alone' = alone /\ Finish(r)
    BY <1>6 DEF Touch, Readopt, Rows
  <2> QED BY <1>3, <1>4, <1>5, <2>1, <2>2
<1>7. CASE Stat(r)
  <2>1. req[r] \in Request /\ lru' = lru /\ alone' = alone /\ (Go(r, "foster") \/ Finish(r))
    BY <1>7, AtWork DEF Stat
  <2> QED BY <1>3, <1>4, <1>5, <2>1
<1>8. CASE Foster(r)
  <2>1. /\ req[r].key \in Variants /\ Finish(r)
        /\ (lru' = lru /\ alone' = alone) \/ (lru' = Latest(req[r].key) /\ ~alone')
    BY <1>8, AtWork DEF Foster
  <2> QED BY <1>3, <2>1
<1>9. CASE Write(r)
  <2>1. req[r] \in Request /\ lru' = lru /\ alone' = alone /\ (Go(r, "record") \/ Finish(r))
    BY <1>9, AtWork DEF Write
  <2> QED BY <1>3, <1>4, <1>5, <2>1
<1>10. CASE Record(r)
  <2>1. /\ req[r] \in Request /\ req[r].key \in Variants /\ Go(r, "measure")
        /\ (lru' = lru /\ alone' = alone) \/ (lru' = Latest(req[r].key) /\ ~alone')
    BY <1>10, AtWork DEF Record
  <2> QED BY <1>4, <1>5, <2>1
<1> QED BY <1>2, <1>6, <1>7, <1>8, <1>9, <1>10

\* The eviction's own steps.
LEMMA MeasureInventory ==
    ASSUME Inventory, NEW r \in Requests, Measure(r)
    PROVE  Inventory'
<1>1. req[r] # Idle /\ req[r] \in Request /\ lru' = lru
  BY AtWork DEF Measure
<1>2. CASE Finish(r) /\ alone' = alone
  <2>1. /\ req' = [req EXCEPT ![r] = Idle] /\ ~Evicts(Idle)
        /\ lru' \in Seq(Variants) /\ IsInjective(lru') /\ ToSet(lru') \subseteq ToSet(lru)
    BY <1>1, <1>2 DEF Finish, Evicts, Inventory
  <2> QED BY <1>2, <2>1, OneRequest, ElsewhereFrees
<1>3. CASE /\ \A other \in Requests : req[other] # Idle => req[other].step \notin Evicting
           /\ req' = [req EXCEPT ![r].step = "list", ![r].excess = Excess]
  <2>1. ToSet(lru) \in SUBSET Variants
    BY DEF Inventory, ToSet
  <2>2. SizeOf(ToSet(lru)) \in Nat /\ Target \in Int
    BY <2>1, Sizes, CacheAssumption DEF CacheAssumption, Target
  <2>3. PICK e \in Int : e = SizeOf(ToSet(lru)) - Target
    BY <2>2
  <2>4. Excess = e
    BY <2>3 DEF Excess, Rows
  <2>5. PICK q : q = [req[r] EXCEPT !.step = "list", !.excess = e]
    OBVIOUS
  <2>6. q \in Request /\ q.step = "list" /\ q.excess = e
    BY <1>1, <2>3, <2>5 DEF Request, Steps
  <2>7. req' = [req EXCEPT ![r] = q]
    BY <1>3, <2>4, <2>5 DEF Inventory
  <2>8. /\ req' \in [Requests -> Request \cup {Idle}]
        /\ \A s \in Requests : req'[s] = IF s = r THEN q ELSE req[s]
    BY <2>6, <2>7 DEF Inventory
  <2>9. \A s \in Requests : s # r => ~Evicts(req'[s])
    BY <1>3, <2>8 DEF Evicts
  <2>10. ASSUME NEW s \in Requests
         PROVE  Frees(req[s])'
    <3>1. PICK p : p = req'[s]
      OBVIOUS
    <3>2. Frees(p)'
      <4>1. CASE s = r
        <5>1. p = q /\ SizeOf(ToSet(lru')) <= Target + q.excess
          BY <1>1, <2>2, <2>3, <2>6, <2>8, <3>1, <4>1
        <5> QED BY <2>6, <5>1 DEF Frees
      <4>2. CASE s # r
        BY <2>9, <3>1, <4>2, ElsewhereFrees
      <4> QED BY <4>1, <4>2
    <3> QED BY <3>1, <3>2 DEF Frees
  <2> QED BY <1>1, <2>8, <2>9, <2>10 DEF Inventory
<1> QED BY <1>2, <1>3 DEF Measure

LEMMA ListInventory ==
    ASSUME Inventory, NEW r \in Requests, List(r)
    PROVE  Inventory'
<1>1. req[r] # Idle /\ req[r] \in Request /\ req[r].step = "list" /\ lru' = lru /\ alone' = alone
  BY AtWork DEF List
<1>2. lru \in Seq(Variants) /\ IsInjective(lru)
  BY DEF Inventory
<1>3. PICK q : q = [req[r] EXCEPT !.step = "evict", !.todo = lru]
  OBVIOUS
<1>4. q \in Request /\ q.step = "evict" /\ q.todo = lru /\ q.excess = req[r].excess
  BY <1>1, <1>2, <1>3 DEF Request, Steps
<1>5. req' = [req EXCEPT ![r] = q]
  BY <1>3 DEF List, Inventory
<1>6. Evicts(req[r])
  BY <1>1 DEF Evicts, Evicting
<1>7. ASSUME alone'
      PROVE  Frees(q)'
  <2>1. Frees(req[r])
    BY <1>1, <1>7 DEF Inventory
  <2>2. SizeOf(ToSet(lru)) <= Target + q.excess
    BY <1>1, <1>4, <2>1 DEF Frees
  <2> QED BY <1>1, <1>2, <1>4, <2>2 DEF Frees
<1> QED BY <1>1, <1>2, <1>4, <1>5, <1>6, <1>7, OneRequest

LEMMA EvictDoneInventory ==
    ASSUME Inventory, NEW r \in Requests, EvictDone(r)
    PROVE  Inventory'
<1>1. /\ req' = [req EXCEPT ![r] = Idle] /\ ~Evicts(Idle) /\ lru' = lru /\ alone' = alone
      /\ lru' \in Seq(Variants) /\ IsInjective(lru') /\ ToSet(lru') \subseteq ToSet(lru)
  BY DEF EvictDone, Finish, Evicts, Inventory
<1> QED BY <1>1, OneRequest, ElsewhereFrees

\* An entry is spared: the eviction is no longer alone.
LEMMA SpareInventory ==
    ASSUME Inventory, NEW r \in Requests,
           req[r] # Idle, req[r].step \in {"evict", "drop"}, req[r].todo # <<>>,
           Spare(r), ~alone', lru' = lru
    PROVE  Inventory'
<1>1. req[r] \in Request
  BY DEF Inventory
<1>2. PICK rest : rest = Tail(req[r].todo)
  OBVIOUS
<1>3. rest \in Seq(Variants)
  BY <1>1, <1>2 DEF Request
<1>4. PICK q : q = [req[r] EXCEPT !.step = "evict", !.todo = rest]
  OBVIOUS
<1>5. q \in Request
  BY <1>1, <1>3, <1>4 DEF Request, Steps
<1>6. req' = [req EXCEPT ![r] = q]
  BY <1>2, <1>4 DEF Spare, Inventory
<1>7. Evicts(req[r])
  BY DEF Evicts, Evicting
<1> QED BY <1>5, <1>6, <1>7, OneRequest DEF Inventory

LEMMA EvictFileInventory ==
    ASSUME Inventory, NEW r \in Requests, EvictFile(r)
    PROVE  Inventory'
<1>1. /\ req[r] # Idle /\ req[r] \in Request /\ req[r].step = "evict" /\ req[r].todo # <<>>
      /\ lru' = lru
  BY AtWork DEF EvictFile, Enough
<1>2. CASE Go(r, "drop") /\ alone' = alone
  <2>1. PICK q \in Request : /\ req' = [req EXCEPT ![r] = q]
                             /\ q.step = "drop" /\ q.todo = req[r].todo /\ q.excess = req[r].excess
    BY <1>1, <1>2, GoesOn DEF Steps
  <2>2. Evicts(req[r])
    BY <1>1 DEF Evicts, Evicting
  <2>3. lru' \in Seq(Variants) /\ IsInjective(lru') /\ ToSet(lru') \subseteq ToSet(lru)
    BY <1>1 DEF Inventory
  <2>4. ASSUME alone'
        PROVE  Frees(q)'
    <3>1. Frees(req[r])
      BY <1>2, <2>4 DEF Inventory
    <3>2. IsInjective(q.todo) /\ ToSet(lru) \subseteq ToSet(q.todo) /\ SizeOf(ToSet(q.todo)) <= Target + q.excess
      BY <1>1, <2>1, <3>1 DEF Frees
    <3> QED BY <1>1, <2>1, <3>2 DEF Frees
  <2> QED BY <1>2, <2>1, <2>2, <2>3, <2>4, OneRequest
<1>3. CASE Spare(r) /\ alone' = FALSE
  BY <1>1, <1>3, SpareInventory
<1> QED BY <1>2, <1>3 DEF EvictFile

LEMMA EvictRowInventory ==
    ASSUME Inventory, NEW r \in Requests, EvictRow(r)
    PROVE  Inventory'
<1>1. /\ req[r] # Idle /\ req[r] \in Request /\ req[r].step = "drop" /\ req[r].todo # <<>>
      /\ req[r].todo \in Seq(Variants) /\ req[r].excess \in Int
  <2>1. req[r] # Idle /\ req[r] \in Request /\ req[r].step = "drop"
    BY AtWork DEF EvictRow
  <2> QED BY <2>1 DEF Request
<1>2. PICK todos \in Seq(Variants) : todos = req[r].todo
  BY <1>1
<1>3. PICK k : k = Head(todos)
  OBVIOUS
<1>4. k \in Variants /\ k \in ToSet(todos)
  BY <1>1, <1>2, <1>3 DEF ToSet
<1>5. CASE /\ lru' = Without(lru, {k}) /\ alone' = alone
           /\ req' = [req EXCEPT ![r].step = "evict", ![r].todo = Tail(todos),
                                 ![r].excess = req[r].excess - Size[k]]
  <2>1. PICK rest : rest = Tail(todos)
    OBVIOUS
  <2>2. rest \in Seq(Variants)
    BY <1>1, <1>2, <2>1
  <2>3. Size[k] \in Nat
    BY <1>4, CacheAssumption DEF CacheAssumption
  <2>4. PICK e \in Int : e = req[r].excess - Size[k]
    BY <1>1, <2>3
  <2>5. PICK q : q = [req[r] EXCEPT !.step = "evict", !.todo = rest, !.excess = e]
    OBVIOUS
  <2>6. q \in Request /\ q.step = "evict" /\ q.todo = rest /\ q.excess = e
    BY <1>1, <2>2, <2>4, <2>5 DEF Request, Steps
  <2>7. req' = [req EXCEPT ![r] = q]
    BY <1>5, <2>1, <2>4, <2>5 DEF Inventory
  <2>8. Evicts(req[r])
    BY <1>1 DEF Evicts, Evicting
  <2>9. /\ lru' \in Seq(Variants) /\ IsInjective(lru')
        /\ ToSet(lru') = ToSet(lru) \ {k}
    BY <1>5, WithoutKeeps DEF Inventory
  <2>10. ASSUME alone'
         PROVE  Frees(q)'
    <3>1. Frees(req[r])
      BY <1>5, <2>10 DEF Inventory
    <3>2. /\ IsInjective(todos) /\ ToSet(lru) \subseteq ToSet(todos)
          /\ SizeOf(ToSet(todos)) <= Target + req[r].excess
      BY <1>1, <1>2, <3>1 DEF Frees
    <3>3. IsInjective(rest) /\ ToSet(rest) = ToSet(todos) \ {k}
      BY <1>1, <1>2, <1>3, <2>1, <3>2, TailOnce
    <3>4. PICK S \in SUBSET Variants : S = ToSet(todos)
      <4>1. ToSet(todos) \subseteq Variants
        BY DEF ToSet
      <4> QED BY <4>1
    <3>5. SizeOf(S) \in Nat /\ SizeOf(S \ {k}) = SizeOf(S) - Size[k]
      BY <1>4, <3>4, Sizes
    <3>6. Target \in Int
      BY CacheAssumption DEF CacheAssumption, Target
    <3>7. SizeOf(ToSet(rest)) <= Target + e
      BY <1>1, <2>3, <2>4, <3>2, <3>3, <3>4, <3>5, <3>6
    <3> QED BY <2>6, <2>9, <3>2, <3>3, <3>7 DEF Frees
  <2> QED BY <1>5, <2>6, <2>7, <2>8, <2>9, <2>10, OneRequest
<1>6. CASE Spare(r) /\ alone' = FALSE /\ lru' = lru
  BY <1>1, <1>6, SpareInventory
<1> QED
  <2>1. \/ /\ Without(lru, {k}) = lru' /\ alone' = alone
           /\ req' = [req EXCEPT ![r].step = "evict", ![r].todo = Tail(todos),
                                 ![r].excess = req[r].excess - Size[k]]
        \/ Spare(r) /\ alone' = FALSE /\ lru' = lru
    BY <1>2, <1>3 DEF EvictRow
  <2> QED BY <1>5, <1>6, <2>1

\* Rows are taken away, by none of the requests.
LEMMA FewerRows ==
    ASSUME Inventory, req' = req, alone' = alone,
           lru' \in Seq(Variants), IsInjective(lru'), ToSet(lru') \subseteq ToSet(lru)
    PROVE  Inventory'
<1>1. CASE Requests = {}
  BY <1>1 DEF Inventory
<1>2. ASSUME NEW r \in Requests
      PROVE  Inventory'
  <2>1. PICK q \in Request \cup {Idle} : q = req[r]
    BY <1>2 DEF Inventory
  <2>2. req' = [req EXCEPT ![r] = q]
    BY <1>2, <2>1 DEF Inventory
  <2>3. ASSUME alone'
        PROVE  Frees(q)'
    <3>1. Frees(q)
      BY <1>2, <2>1, <2>3 DEF Inventory
    <3>2. ToSet(lru) \subseteq Variants
      <4>1. lru \in Seq(Variants)
        BY DEF Inventory
      <4> QED BY <4>1 DEF ToSet
    <3>3. PICK S \in SUBSET Variants : S = ToSet(lru)
      BY <3>2
    <3>4. PICK R \in SUBSET S : R = ToSet(lru')
      BY <3>3
    <3>5. /\ SizeOf(R) \in Nat /\ SizeOf(S) \in Nat
          /\ SizeOf(R) <= SizeOf(S)
      BY <3>3, <3>4, Sizes
    <3>6. Target \in Int /\ (q # Idle => q.excess \in Int)
      BY <2>1, CacheAssumption DEF CacheAssumption, Target, Request
    <3>7. q # Idle /\ q.step = "list" => SizeOf(ToSet(lru')) <= Target + q.excess
      BY <3>1, <3>3, <3>4, <3>5, <3>6 DEF Frees
    <3>8. q # Idle /\ q.step \in {"evict", "drop"} =>
             /\ IsInjective(q.todo) /\ ToSet(lru') \subseteq ToSet(q.todo)
             /\ SizeOf(ToSet(q.todo)) <= Target + q.excess
      BY <3>1 DEF Frees
    <3> QED BY <3>7, <3>8 DEF Frees
  <2> QED BY <2>1, <2>2, <2>3, OneRequest
<1> QED BY <1>1, <1>2

LEMMA PurgesInventory ==
    ASSUME Inventory,
           PurgeEntries \/ ComicPurged \/ Crash \/ (\E k \in Variants : PurgeFile(k))
    PROVE  Inventory'
<1>1. CASE PurgeEntries
  <2>1. /\ req' = req /\ alone' = alone /\ lru' = <<>>
        /\ <<>> \in Seq(Variants) /\ IsInjective(<<>>) /\ ToSet(<<>>) = {}
    BY <1>1 DEF PurgeEntries, IsInjective, ToSet
  <2> QED BY <2>1, FewerRows
<1>2. CASE ComicPurged
  <2>1. PICK T : T = Doomed \ foster
    OBVIOUS
  <2>2. req' = req /\ alone' = alone /\ lru' = Without(lru, T)
    BY <1>2, <2>1 DEF ComicPurged
  <2>3. lru' \in Seq(Variants) /\ IsInjective(lru') /\ ToSet(lru') = ToSet(lru) \ T
    BY <2>2, WithoutKeeps DEF Inventory
  <2> QED BY <2>2, <2>3, FewerRows
<1>3. CASE Crash
  <2>1. req' = [r \in Requests |-> Idle] /\ lru' = lru
    BY <1>3 DEF Crash
  <2>2. \A r \in Requests : req'[r] = Idle
    BY <2>1
  <2>3. ASSUME NEW r \in Requests
        PROVE  Frees(req[r])'
    <3>1. PICK p : p = req'[r]
      OBVIOUS
    <3>2. Frees(p)' /\ p = Idle
      BY <2>2, <3>1 DEF Frees
    <3> QED BY <3>1, <3>2 DEF Frees
  <2>4. \A r, s \in Requests : Evicts(req'[r]) /\ Evicts(req'[s]) => r = s
    BY <2>2 DEF Evicts
  <2> QED BY <2>1, <2>3, <2>4 DEF Inventory
<1>4. ASSUME NEW k \in Variants, PurgeFile(k)
      PROVE  Inventory'
  <2>1. req' = req /\ alone' = alone /\ lru' = lru
    BY <1>4 DEF PurgeFile
  <2> QED BY <2>1, FewerRows DEF Inventory
<1> QED BY <1>1, <1>2, <1>3, <1>4

LEMMA InventoryHolds == CacheSpec => []Inventory
<1>1. ASSUME CacheInit PROVE Inventory
  <2>1. lru = <<>> /\ req = [r \in Requests |-> Idle] /\ alone = FALSE
    BY <1>1 DEF CacheInit
  <2>2. <<>> \in Seq(Variants) /\ IsInjective(<<>>)
    BY DEF IsInjective
  <2>3. \A r \in Requests : ~Evicts(req[r])
    BY <2>1 DEF Evicts
  <2> QED BY <2>1, <2>2, <2>3 DEF Inventory
<1>2. ASSUME Inventory, [CacheNext]_cacheVars PROVE Inventory'
  <2>1. CASE UNCHANGED cacheVars
    <3>1. req' = req /\ alone' = alone /\ lru' = lru
      BY <2>1 DEF cacheVars
    <3> QED BY <1>2, <3>1, FewerRows DEF Inventory
  <2>2. ASSUME NEW r \in Requests, NEW k \in Variants, Ask(r, k) PROVE Inventory'
    BY <1>2, <2>2, ServedInventory
  <2>3. ASSUME NEW r \in Requests, Step(r) PROVE Inventory'
    BY <1>2, <2>3, ServedInventory, MeasureInventory, ListInventory, EvictFileInventory,
       EvictRowInventory, EvictDoneInventory DEF Step
  <2>4. CASE PurgeEntries \/ ComicPurged \/ Crash \/ (\E k \in Variants : PurgeFile(k))
    BY <1>2, <2>4, PurgesInventory
  <2> QED BY <1>2, <2>1, <2>2, <2>3, <2>4 DEF CacheNext
<1> QED BY <1>1, <1>2, PTL DEF CacheSpec

\* EvictionSuffices: an eviction that nothing made fail, and during which no
\* row was added, ends below the target, whatever was hit, purged or deleted
\* meanwhile, for any variants, sizes, limit and number of requests
\* (cache.go, evictIfNeeded).
THEOREM CacheTheorem == CacheSpec => EvictionSuffices
<1>1. ASSUME Inventory, NEW r \in Requests, EvictDone(r), alone
      PROVE  SizeOf(Rows) <= Target
  <2>1. /\ req[r] # Idle /\ req[r] \in Request /\ req[r].step = "evict"
        /\ req[r].excess <= 0 \/ req[r].todo = <<>>
    BY <1>1, AtWork DEF EvictDone, Enough
  <2>2. PICK todos \in Seq(Variants) : todos = req[r].todo
    BY <2>1 DEF Request
  <2>3. Frees(req[r])
    BY <1>1 DEF Inventory
  <2>4. ToSet(lru) \subseteq ToSet(todos) /\ SizeOf(ToSet(todos)) <= Target + req[r].excess
    BY <2>1, <2>2, <2>3 DEF Frees
  <2>5. PICK S \in SUBSET Variants : S = ToSet(todos)
    <3>1. ToSet(todos) \subseteq Variants
      BY DEF ToSet
    <3> QED BY <3>1
  <2>6. PICK R \in SUBSET S : R = ToSet(lru)
    BY <2>4, <2>5
  <2>7. /\ SizeOf(R) \in Nat /\ SizeOf(S) \in Nat
        /\ SizeOf(R) <= SizeOf(S)
    BY <2>5, <2>6, Sizes
  <2>8. Target \in Nat /\ req[r].excess \in Int
    BY <2>1, CacheAssumption DEF CacheAssumption, Target, Request
  <2>9. SizeOf(R) <= Target
    <3>1. CASE req[r].excess <= 0
      BY <2>4, <2>5, <2>7, <2>8, <3>1
    <3>2. CASE req[r].todo = <<>>
      <4>1. S = {} /\ R = {}
        BY <2>2, <2>5, <3>2 DEF ToSet
      <4>2. SizeOf(R) = 0
        BY <4>1, Sizes
      <4> QED BY <2>8, <4>2
    <3> QED BY <2>1, <3>1, <3>2
  <2> QED BY <2>6, <2>9 DEF Rows
<1>2. Inventory /\ [CacheNext]_cacheVars =>
         [\A r \in Requests : EvictDone(r) /\ alone => SizeOf(Rows) <= Target]_cacheVars
  BY <1>1
<1> QED BY <1>2, InventoryHolds, PTL DEF CacheSpec, EvictionSuffices
=============================================================================

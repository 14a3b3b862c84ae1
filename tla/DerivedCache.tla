---------------------------- MODULE DerivedCache ----------------------------
(***************************************************************************)
(* The cache of covers and transcoded pages: files in a storage provider   *)
(* and an inventory of them in the database, kept in step by no            *)
(* transaction.  Requests that miss write both, and evict; a hit puts a    *)
(* file nobody counts back in the inventory; an administrator purges; a    *)
(* comic is purged and takes its rows with it; the server stops at any     *)
(* point.                                                                  *)
(*                                                                         *)
(* A variant is a key: a page or a cover, a width, a format.  Its bytes    *)
(* are left out: pages read again after a comic has changed do not reach   *)
(* the variants already there, whose keys do not name the content.         *)
(***************************************************************************)
EXTENDS Integers, FiniteSets, SequencesExt, Sift

CONSTANTS
    Variants,  \* keys
    Hot,       \* those that are asked for again and again
    Doomed,    \* those of a comic that may be purged
    Size,      \* the size of each
    MaxSize,   \* the limit, 0 for none
    Requests,  \* requests in progress at once
    Idle,
    Cold,      \* bound: requests for the variants that are not hot
    Events     \* bound: failures, purges and crashes

ASSUME CacheAssumption ==
    /\ IsFiniteSet(Variants) /\ Hot \subseteq Variants /\ Doomed \subseteq Variants \ Hot
    /\ Size \in [Variants -> Nat \ {0}] /\ MaxSize \in Nat
    /\ Cold \in Nat /\ Events \in Nat

VARIABLES
    files,    \* the objects of the provider
    lru,      \* the inventory, least recently hit first
    foster,   \* rows put back by a hit, that refer to no comic
    gone,     \* the comic of Doomed has been purged
    req,      \* requests
    purging,  \* objects that a purge has still to delete
    cold, left, \* what Cold and Events still allow
    alone     \* history: nothing was recorded, or spared, since the eviction began

cacheVars == <<files, lru, foster, gone, req, purging, cold, left, alone>>

Rows == ToSet(lru)
Steps == {"touch", "stat", "foster", "write", "record", "measure", "list", "evict", "drop"}
Evicting == {"list", "evict", "drop"}

CacheTypes ==
    /\ files \subseteq Variants
    /\ lru \in Seq(Variants) /\ IsInjective(lru)
    /\ foster \subseteq Rows /\ gone \in BOOLEAN
    /\ \A r \in Requests : req[r] # Idle =>
          /\ req[r].step \in Steps /\ req[r].key \in Variants
          /\ req[r].todo \in Seq(Variants) /\ req[r].excess \in Int
    /\ Cardinality({r \in Requests : req[r] # Idle /\ req[r].step \in Evicting}) <= 1
    /\ purging \subseteq Variants
    /\ cold \in Nat /\ left \in Nat
    /\ alone \in BOOLEAN

CacheInit ==
    /\ files = {} /\ lru = <<>> /\ foster = {} /\ gone = FALSE
    /\ req = [r \in Requests |-> Idle]
    /\ purging = {}
    /\ cold = Cold /\ left = Events
    /\ alone = FALSE

-----------------------------------------------------------------------------
Spend == left > 0 /\ left' = left - 1

\* The bytes of some variants, counted one by one.
SizeOf(S) == Cardinality(UNION {{k} \X (1..Size[k]) : k \in S})
Target == (MaxSize * 90) \div 100

At(r, step) == req[r] # Idle /\ req[r].step = step
Go(r, step) == req' = [req EXCEPT ![r].step = step]
Finish(r) == req' = [req EXCEPT ![r] = Idle]

\* TouchEntry and RecordEntry: the row is the one hit last.
Latest(k) == Append(Without(lru, {k}), k)

\* Get opens the object; the comic of a page exists when it is asked for.
Ask(r, k) ==
    /\ req[r] = Idle
    /\ ~(gone /\ k \in Doomed)
    /\ IF k \in Hot THEN UNCHANGED cold ELSE cold > 0 /\ cold' = cold - 1
    /\ req' = [req EXCEPT ![r] = [step |-> IF k \in files THEN "touch" ELSE "write",
                                  key |-> k, todo |-> <<>>, excess |-> 0]]
    /\ UNCHANGED <<files, lru, foster, gone, purging, left, alone>>

\* Mutant: a file without a row is served and left as it is.
AskNoMore(r) == Finish(r)
\* The file is there and no row was touched: it must be counted again.
Readopt(r) == Go(r, "stat")

Touch(r) ==
    /\ At(r, "touch")
    /\ \/ /\ req[r].key \in Rows
          /\ lru' = Latest(req[r].key)
          /\ Finish(r) /\ UNCHANGED left
       \/ req[r].key \notin Rows /\ Readopt(r) /\ UNCHANGED <<lru, left>>
       \/ Spend /\ Finish(r) /\ UNCHANGED lru
    /\ UNCHANGED <<files, foster, gone, purging, cold, alone>>

Stat(r) ==
    /\ At(r, "stat")
    /\ IF req[r].key \in files THEN Go(r, "foster") ELSE Finish(r)
    /\ UNCHANGED <<files, lru, foster, gone, purging, cold, left, alone>>

\* The row refers to no comic, unless there is one by now that does.
Foster(r) ==
    /\ At(r, "foster")
    /\ \/ /\ lru' = Latest(req[r].key)
          /\ foster' = IF req[r].key \in Rows THEN foster ELSE foster \cup {req[r].key}
          /\ alone' = FALSE
          /\ UNCHANGED left
       \/ Spend /\ UNCHANGED <<lru, foster, alone>>
    /\ Finish(r)
    /\ UNCHANGED <<files, gone, purging, cold>>

\* A miss: the variant is made and written, or something fails.
Write(r) ==
    /\ At(r, "write")
    /\ \/ files' = files \cup {req[r].key} /\ Go(r, "record") /\ UNCHANGED left
       \/ Spend /\ Finish(r) /\ UNCHANGED files
    /\ UNCHANGED <<lru, foster, gone, purging, cold, alone>>

\* A row cannot refer to a comic that is gone; Put goes on all the same.
Record(r) ==
    /\ At(r, "record")
    /\ \/ /\ ~(gone /\ req[r].key \in Doomed)
          /\ lru' = Latest(req[r].key) /\ alone' = FALSE
          /\ UNCHANGED left
       \/ /\ IF gone /\ req[r].key \in Doomed THEN UNCHANGED left ELSE Spend
          /\ UNCHANGED <<lru, alone>>
    /\ Go(r, "measure")
    /\ UNCHANGED <<files, foster, gone, purging, cold>>

Over == SizeOf(Rows) > MaxSize
\* Mutant: what is to be freed is counted from above the limit.
ExcessTooSmall == SizeOf(Rows) - (2 * MaxSize - Target)
Excess == SizeOf(Rows) - Target

\* evictIfNeeded: TryLock, then the size of the inventory.
Measure(r) ==
    /\ At(r, "measure")
    /\ \/ /\ MaxSize > 0 /\ Over
          /\ \A other \in Requests : req[other] # Idle => req[other].step \notin Evicting
          /\ req' = [req EXCEPT ![r].step = "list", ![r].excess = Excess]
          /\ alone' = TRUE
       \/ /\ \/ MaxSize = 0 \/ ~Over
             \/ \E other \in Requests : req[other] # Idle /\ req[other].step \in Evicting
          /\ Finish(r) /\ UNCHANGED alone
    /\ UNCHANGED <<files, lru, foster, gone, purging, cold, left>>

\* ListForEviction: the first 500; there are never so many here.
List(r) ==
    /\ At(r, "list")
    /\ req' = [req EXCEPT ![r].step = "evict", ![r].todo = lru]
    /\ UNCHANGED <<files, lru, foster, gone, purging, cold, left, alone>>

Enough(r) == req[r].excess <= 0 \/ req[r].todo = <<>>
EvictDone(r) ==
    /\ At(r, "evict") /\ Enough(r)
    /\ Finish(r)
    /\ UNCHANGED <<files, lru, foster, gone, purging, cold, left, alone>>

Spare(r) == req' = [req EXCEPT ![r].step = "evict", ![r].todo = Tail(@)]

\* Delete: the object, then the row; a failure of either spares the entry.
EvictFile(r) ==
    /\ At(r, "evict") /\ ~Enough(r)
    /\ \/ /\ files' = files \ {Head(req[r].todo)}
          /\ Go(r, "drop")
          /\ UNCHANGED <<left, alone>>
       \/ Spend /\ Spare(r) /\ alone' = FALSE /\ UNCHANGED files
    /\ UNCHANGED <<lru, foster, gone, purging, cold>>

EvictRow(r) ==
    /\ At(r, "drop")
    /\ LET k == Head(req[r].todo)
       IN  \/ /\ lru' = Without(lru, {k}) /\ foster' = foster \ {k}
              /\ req' = [req EXCEPT ![r].step = "evict", ![r].todo = Tail(@),
                                    ![r].excess = @ - Size[k]]
              /\ UNCHANGED <<left, alone>>
           \/ Spend /\ Spare(r) /\ alone' = FALSE /\ UNCHANGED <<lru, foster>>
    /\ UNCHANGED <<files, gone, purging, cold>>

-----------------------------------------------------------------------------
\* Purge: the whole inventory first, then the objects that it named.
PurgeEntries ==
    /\ Spend
    /\ purging' = purging \cup Rows
    /\ lru' = <<>> /\ foster' = {}
    /\ UNCHANGED <<cold, files, gone, req, alone>>

PurgeFile(k) ==
    /\ k \in purging
    /\ purging' = purging \ {k}
    /\ \/ files' = files \ {k} /\ UNCHANGED left
       \/ Spend /\ UNCHANGED files
    /\ UNCHANGED <<cold, lru, foster, gone, req, alone>>

\* The rows of a comic go with it; its variants stay in the provider.
ComicPurged ==
    /\ ~gone /\ Spend
    /\ gone' = TRUE
    /\ lru' = Without(lru, Doomed \ foster)
    /\ UNCHANGED <<files, foster, req, purging, cold, alone>>

Crash ==
    /\ Spend
    /\ req' = [r \in Requests |-> Idle]
    /\ purging' = {}
    /\ UNCHANGED <<cold, files, lru, foster, gone, alone>>

Step(r) ==
    \/ Touch(r) \/ Stat(r) \/ Foster(r) \/ Write(r) \/ Record(r)
    \/ Measure(r) \/ List(r) \/ EvictFile(r) \/ EvictRow(r) \/ EvictDone(r)

CacheNext ==
    \/ \E r \in Requests, k \in Variants : Ask(r, k)
    \/ \E r \in Requests : Step(r)
    \/ PurgeEntries \/ ComicPurged \/ Crash
    \/ \E k \in Variants : PurgeFile(k)

CacheSpec == CacheInit /\ [][CacheNext]_cacheVars

(***************************************************************************)
(* Requests and purges that run go on; each hot variant is asked for again *)
(* and again.                                                              *)
(***************************************************************************)
FairCache ==
    /\ CacheSpec
    /\ \A r \in Requests : WF_cacheVars(Step(r))
    /\ \A k \in Variants : WF_cacheVars(PurgeFile(k))
    /\ \A k \in Hot : SF_cacheVars(\E r \in Requests : Ask(r, k))

-----------------------------------------------------------------------------
\* PROPERTIES

\* An eviction that nothing made fail and during which nothing was recorded
\* ends below the target, whatever was hit, purged or deleted meanwhile.
EvictionSuffices ==
    [][\A r \in Requests : EvictDone(r) /\ alone => SizeOf(Rows) <= Target]_cacheVars

\* The two stores heal: whatever a crash, a failure, a purge or an eviction
\* that met a write left in one and not in the other, a variant that is asked
\* for ends in the provider and counted in the inventory.
Heals == <>[](Hot \subseteq files \cap Rows)
=============================================================================

----------------------------- MODULE Ed2kBridge -----------------------------
(***************************************************************************)
(* The bridge from the download queue to the library: what is complete in  *)
(* a snapshot becomes a comic, if its category says so                     *)
(* (apps/server/internal/amule/bridge.go).  The daemon goes its own way    *)
(* between two snapshots; each snapshot is compared with the one before,   *)
(* for the notifications, and starts a goroutine that publishes what it    *)
(* shows complete.  These goroutines run side by side, each step may fail, *)
(* and the server may be killed between any two.                           *)
(*                                                                         *)
(* All files are of one category, whose destination may change.  How the   *)
(* file is copied (a stream into ingest.Upload) is one step here, which    *)
(* may fail with the object written.                                       *)
(***************************************************************************)
EXTENDS Ed2kEvents, Naturals, FiniteSets

CONSTANTS
    Files,         \* eD2k hashes
    Tasks,         \* slots for goroutines: bounds how many run at once
    MaxDownloads,  \* how often a file may be queued
    MaxCrashes     \* bound on the restarts of the server

ASSUME BridgeAssumption == MaxDownloads \in Nat /\ MaxCrashes \in Nat

VARIABLES
    queue,       \* the daemon's download queue
    incoming,    \* the files in its incoming directory
    previous,    \* the snapshot before, if the session has one
    compared,    \* whether it has one
    task,        \* the goroutines of publishCompleted
    rule,        \* destination of the category
    publication, \* ed2k_publications: the status of each row
    \* History, read by the properties only.
    comics,      \* comics made of each file
    told,        \* times the end of the present download was announced
    downloads,   \* times it was queued
    dropped,     \* files whose goroutine died or whose row was not written
    crashes

daemonVars == <<queue, incoming, downloads>>
vars == <<daemonVars, previous, compared, task, rule, publication, comics, told,
          dropped, crashes>>

Task == [todo: SUBSET Files, file: SUBSET Files,
         step: {"idle", "next", "route", "skip", "copy", "record", "fail"}]

Publication == {"none", "pending", "published", "skipped", "error"}

TypeOK ==
    /\ queue \in [Files -> Download] /\ previous \in [Files -> Download]
    /\ incoming \subseteq Files /\ dropped \subseteq Files
    /\ compared \in BOOLEAN
    /\ task \in [Tasks -> Task]
    /\ \A t \in Tasks : \* a goroutine has one file at hand, or is between two
          /\ Cardinality(task[t].file) <= 1
          /\ task[t].step \in {"idle", "next"} <=> task[t].file = {}
    /\ rule \in {"disk", "library"}
    /\ publication \in [Files -> Publication]
    /\ comics \in [Files -> Nat] /\ told \in [Files -> Nat]
    /\ downloads \in [Files -> 0..MaxDownloads]
    /\ crashes \in 0..MaxCrashes

Absent == [status |-> "absent", acquired |-> FALSE]
Idle == [todo |-> {}, file |-> {}, step |-> "idle"]

Init ==
    /\ queue = [f \in Files |-> Absent] /\ previous = [f \in Files |-> Absent]
    /\ incoming = {} /\ compared = FALSE /\ dropped = {}
    /\ task = [t \in Tasks |-> Idle]
    /\ rule \in {"disk", "library"}
    /\ publication = [f \in Files |-> "none"]
    /\ comics = [f \in Files |-> 0] /\ told = [f \in Files |-> 0]
    /\ downloads = [f \in Files |-> 0]
    /\ crashes = 0

-----------------------------------------------------------------------------
(* The daemon *)

Turn(f, from, to) ==
    /\ queue[f].status = from
    /\ queue' = [queue EXCEPT ![f].status = to]

Enqueue(f) ==
    /\ queue[f] = Absent
    /\ downloads[f] < MaxDownloads
    /\ downloads' = [downloads EXCEPT ![f] = @ + 1]
    /\ queue' = [queue EXCEPT ![f] = [status |-> "active", acquired |-> FALSE]]
    /\ told' = [told EXCEPT ![f] = 0]
    /\ UNCHANGED incoming

Transfer(f) ==
    /\ \/ Turn(f, "active", "paused") \/ Turn(f, "paused", "active")
       \/ Turn(f, "active", "erroneous")
       \/ queue[f].acquired /\ Turn(f, "active", "completing")
       \/ queue[f].status = "active" /\ queue' = [queue EXCEPT ![f].acquired = TRUE]
    /\ UNCHANGED <<incoming, downloads, told>>

\* A file is put in the incoming directory and stays in the queue or leaves it.
Assemble(f) ==
    /\ queue[f].status = "completing"
    /\ \E left \in {Absent, [queue[f] EXCEPT !.status = "completed"]} :
          queue' = [queue EXCEPT ![f] = left]
    /\ incoming' = incoming \cup {f}
    /\ UNCHANGED <<downloads, told>>

\* Cancelled, or cleared once complete.
Remove(f) ==
    /\ queue[f] # Absent
    /\ queue' = [queue EXCEPT ![f] = Absent]
    /\ UNCHANGED <<incoming, downloads, told>>

Daemon(f) ==
    /\ Enqueue(f) \/ Transfer(f) \/ Assemble(f) \/ Remove(f)
    /\ UNCHANGED <<previous, compared, task, rule, publication, comics, dropped, crashes>>

-----------------------------------------------------------------------------
(* The snapshots *)

Complete == {f \in Files : queue[f].status = "completed"}

\* Who is told, by this snapshot, that a download has ended.
Ended == {f \in Files : /\ compared
                        /\ {queue[f], previous[f]} # {Absent}
                        /\ FileEvent(previous[f], queue[f]) = "completed"}

\* store, diff, publish, and onSnapshot, which starts a goroutine.  One that
\* has no complete file to look at ends at once and is left out.
Snapshot ==
    /\ previous' = queue
    /\ compared' = TRUE
    /\ told' = [f \in Files |-> told[f] + (IF f \in Ended THEN 1 ELSE 0)]
    /\ IF Complete = {} THEN task' = task
       ELSE \E t \in Tasks :
               /\ task[t] = Idle
               /\ task' = [task EXCEPT ![t] = [Idle EXCEPT !.todo = Complete, !.step = "next"]]
    /\ UNCHANGED <<daemonVars, rule, publication, comics, dropped, crashes>>

\* The session is lost, or suspended: the next one compares with nothing.
SessionEnds ==
    /\ compared
    /\ compared' = FALSE
    /\ UNCHANGED <<daemonVars, previous, task, rule, publication, comics, told,
                   dropped, crashes>>

-----------------------------------------------------------------------------
(* publishCompleted *)

Handles(t, f, step) == task[t].step = step /\ task[t].file = {f}

\* Mutant: the file stays at hand.
KeepsFile(t) == [task EXCEPT ![t].step = "next"]
\* The goroutine has done with its file.
NextFile(t) == [task EXCEPT ![t].file = {}, ![t].step = "next"]
Step(t, step) == [task EXCEPT ![t].step = step]

UnchangedOutside == UNCHANGED <<daemonVars, previous, compared, rule, told, crashes>>

\* Mutant: a row that is there does not refuse the claim.
AlwaysFree(f) == TRUE
\* ON CONFLICT DO NOTHING
Free(f) == publication[f] = "none"

\* The claim; refused when the hash is known, and lost when the base fails.
Claim(t, f) ==
    /\ task[t].step = "next"
    /\ f \in task[t].todo
    /\ \/ /\ Free(f)
          /\ publication' = [publication EXCEPT ![f] = "pending"]
          /\ task' = [task EXCEPT ![t].todo = @ \ {f}, ![t].file = {f}, ![t].step = "route"]
          /\ dropped' = dropped
       \/ /\ publication' = publication
          /\ task' = [task EXCEPT ![t].todo = @ \ {f}]
          /\ dropped' = IF Free(f) THEN dropped \cup {f} ELSE dropped
    /\ UNCHANGED comics /\ UnchangedOutside

Finish(t) ==
    /\ task[t].step = "next"
    /\ task[t].todo = {}
    /\ task' = [task EXCEPT ![t] = Idle]
    /\ UNCHANGED <<publication, comics, dropped>> /\ UnchangedOutside

\* GetDestination, which may fail.
Route(t, f) ==
    /\ Handles(t, f, "route")
    /\ task' \in {Step(t, IF rule = "disk" THEN "skip" ELSE "copy"), Step(t, "fail")}
    /\ UNCHANGED <<publication, comics, dropped>> /\ UnchangedOutside

\* copyToLibrary: a comic, an error, or an error with the object written,
\* which a scan makes a comic of.
Copy(t, f) ==
    /\ Handles(t, f, "copy")
    /\ \/ /\ f \in incoming
          /\ comics' = [comics EXCEPT ![f] = @ + 1]
          /\ task' \in {Step(t, "record"), Step(t, "fail")}
       \/ comics' = comics /\ task' = Step(t, "fail")
    /\ UNCHANGED <<publication, dropped>> /\ UnchangedOutside

\* SetPublicationResult, and where the goroutine goes if it fails.
Result(t, f, status, otherwise) ==
    /\ \/ /\ publication' = [publication EXCEPT ![f] = status]
          /\ task' = NextFile(t)
          /\ dropped' = dropped
       \/ /\ publication' = publication
          /\ task' = otherwise
          /\ dropped' = dropped \cup (IF task'[t].step = "next" THEN {f} ELSE {})
    /\ UNCHANGED comics /\ UnchangedOutside

Skip(t, f)   == Handles(t, f, "skip") /\ Result(t, f, "skipped", NextFile(t))
Record(t, f) == Handles(t, f, "record") /\ Result(t, f, "published", Step(t, "fail"))
\* Mutants: a failure is logged and not written; it is written as a success.
FailInLog(t, f) == /\ Handles(t, f, "fail")
                   /\ task' = NextFile(t)
                   /\ UNCHANGED <<publication, comics, dropped>> /\ UnchangedOutside
FailAsPublished(t, f) == Handles(t, f, "fail") /\ Result(t, f, "published", NextFile(t))
Fail(t, f)   == Handles(t, f, "fail") /\ Result(t, f, "error", NextFile(t))

Publish(t) ==
    \/ Finish(t)
    \/ \E f \in Files : Claim(t, f) \/ Route(t, f) \/ Copy(t, f)
                        \/ Skip(t, f) \/ Record(t, f) \/ Fail(t, f)

-----------------------------------------------------------------------------
SetDestination ==
    /\ rule' \in {"disk", "library"}
    /\ UNCHANGED <<daemonVars, previous, compared, task, publication, comics, told,
                   dropped, crashes>>

\* The server is killed and starts again; the rows remain.
Crash ==
    /\ crashes < MaxCrashes
    /\ crashes' = crashes + 1
    /\ task' = [t \in Tasks |-> Idle]
    /\ dropped' = dropped \cup UNION {task[t].file : t \in Tasks}
    /\ compared' = FALSE
    /\ UNCHANGED <<daemonVars, previous, rule, publication, comics, told>>

Next ==
    \/ \E f \in Files : Daemon(f)
    \/ Snapshot \/ SessionEnds
    \/ \E t \in Tasks : Publish(t)
    \/ SetDestination \/ Crash

Spec == Init /\ [][Next]_vars

(***************************************************************************)
(* Somebody watches: snapshots go on.  A goroutine runs to its end.        *)
(* Nothing is assumed of the daemon.                                       *)
(***************************************************************************)
FairSpec == Spec /\ WF_vars(Snapshot) /\ \A t \in Tasks : WF_vars(Publish(t))

-----------------------------------------------------------------------------
\* PROPERTIES

\* bridge.go: two turns that see the same complete file make one publication,
\* and so do two downloads of it, a crash or an error in between.
PublishedOnce == \A f \in Files : comics[f] <= 1

\* What the journal says has happened has: a comic for "published", none for
\* a file left on disk or never claimed.
JournalIsTrue ==
    \A f \in Files : /\ publication[f] = "published" => comics[f] = 1
                     /\ publication[f] \in {"none", "skipped"} => comics[f] = 0

\* events.go: one notification for one end of a download, whichever of the two
\* ways it was seen.
EndedOnce == \A f \in Files : told[f] <= 1

\* A publication that was claimed is decided, unless its goroutine died or
\* could not write how it ended.
Decided ==
    \A f \in Files : publication[f] = "pending" ~> (publication[f] # "pending" \/ f \in dropped)

\* 005-temps-reel-sse-evenements-derives.md: the bridge relies on the state, a
\* file present in the incoming directory and not yet published, however it
\* came there.  Every such file is taken up one day, failures of the base and
\* crashes apart.
EveryArrivalTaken ==
    \A f \in Files : f \in incoming ~> (publication[f] # "none" \/ f \in dropped)
=============================================================================

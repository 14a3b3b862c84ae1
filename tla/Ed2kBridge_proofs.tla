-------------------------- MODULE Ed2kBridge_proofs --------------------------
(***************************************************************************)
(* Ed2kBridge: whatever the files, the goroutines that run side by side,   *)
(* their failures and the restarts, a file makes one comic at most and the *)
(* journal says what happened.                                             *)
(*                                                                         *)
(* Neither property says who may still make a comic.  The claim decides    *)
(* it: while a goroutine has a file at hand the row is pending, no other   *)
(* has it, and the step it is at tells whether the comic is made.          *)
(***************************************************************************)
EXTENDS Ed2kBridge, FiniteSetTheorems, TLAPS

\* A goroutine has one file at hand, or is between two.
Shape == \A t \in Tasks :
    \/ task[t].file = {} /\ task[t].step \in {"idle", "next"}
    \/ (\E f \in Files : task[t].file = {f}) /\ task[t].step \notin {"idle", "next"}

\* A claimed file is in the hands of the goroutine that claimed it, no other.
Sole == \A t, u \in Tasks, f \in Files :
    f \in task[t].file /\ f \in task[u].file => t = u

\* What is known of a file at hand, by the step of its goroutine.
Known == \A t \in Tasks, f \in Files : f \in task[t].file =>
    /\ publication[f] = "pending"
    /\ task[t].step \in {"route", "skip", "copy"} => comics[f] = 0
    /\ task[t].step = "record" => comics[f] = 1

\* TypeOK without cardinalities, which Shape stands for.
Types ==
    /\ queue \in [Files -> Download] /\ previous \in [Files -> Download]
    /\ incoming \subseteq Files /\ dropped \subseteq Files
    /\ compared \in BOOLEAN
    /\ task \in [Tasks -> Task]
    /\ rule \in {"disk", "library"}
    /\ publication \in [Files -> Publication]
    /\ comics \in [Files -> Nat] /\ told \in [Files -> Nat]
    /\ downloads \in [Files -> 0..MaxDownloads]
    /\ crashes \in 0..MaxCrashes

IInv == Types /\ Shape /\ Sole /\ Known /\ PublishedOnce /\ JournalIsTrue

-----------------------------------------------------------------------------
\* Lemma: the type invariant follows.
LEMMA TypesAndShape ==
    ASSUME Types, Shape
    PROVE  TypeOK
<1>1. ASSUME NEW t \in Tasks
      PROVE  /\ Cardinality(task[t].file) <= 1
             /\ task[t].step \in {"idle", "next"} <=> task[t].file = {}
    <2>1. CASE task[t].file = {} /\ task[t].step \in {"idle", "next"}
        BY <2>1, FS_EmptySet
    <2>2. CASE (\E f \in Files : task[t].file = {f}) /\ task[t].step \notin {"idle", "next"}
        <3>1. PICK f \in Files : task[t].file = {f}
            BY <2>2
        <3>2. Cardinality({f}) = 1
            BY FS_Singleton
        <3> QED BY <2>2, <3>1, <3>2
    <2> QED BY <2>1, <2>2 DEF Shape
<1> QED BY <1>1 DEF Types, TypeOK

\* Lemma: the types of what the actions assign whole.
LEMMA IdleIsATask == Idle \in Task
BY DEF Idle, Task

\* Lemma: the state of a goroutine that starts.
LEMMA StartIsATask ==
    ASSUME NEW S \in SUBSET Files
    PROVE  LET new == [Idle EXCEPT !.todo = S, !.step = "next"]
           IN  new \in Task /\ new.file = {} /\ new.step = "next"
BY DEF Idle, Task

\* Lemma: a download that is not there is one of the values of downloads.
LEMMA AbsentIsADownload == Absent \in Download
BY DEF Absent, Download, DownloadStatus

\* At first nothing is claimed, nothing is made.
THEOREM InitIInv == Init => IInv
<1> SUFFICES ASSUME Init PROVE IInv
    OBVIOUS
<1> USE DEF Init
<1>1. Types
    <2>1. 0 \in 0..MaxDownloads /\ 0 \in 0..MaxCrashes
        BY BridgeAssumption
    <2>2. "none" \in Publication
        BY DEF Publication
    <2> QED BY <2>1, <2>2, IdleIsATask, AbsentIsADownload DEF Types
<1>2. Shape /\ Sole /\ Known
    BY DEF Shape, Sole, Known, Idle
<1>3. PublishedOnce /\ JournalIsTrue
    BY DEF PublishedOnce, JournalIsTrue
<1> QED BY <1>1, <1>2, <1>3 DEF IInv

-----------------------------------------------------------------------------
(* What leaves goroutines, rows and comics alone *)

Untouched == UNCHANGED <<task, publication, comics>>

\* Lemma: only goroutines disturb the invariant, apart from its types.
LEMMA UntouchedKeeps ==
    ASSUME IInv, Types', Untouched
    PROVE  IInv'
BY DEF IInv, Untouched, Shape, Sole, Known, PublishedOnce, JournalIsTrue

\* Lemma: the daemon's steps.
LEMMA DaemonKeepsIInv ==
    ASSUME IInv, NEW f \in Files, Daemon(f)
    PROVE  IInv'
<1> USE DEF Daemon
<1>1. /\ queue' \in [Files -> Download]
      /\ incoming' \subseteq Files
      /\ downloads' \in [Files -> 0..MaxDownloads]
      /\ told' \in [Files -> Nat]
    <2>1. CASE Enqueue(f)
        <3>1. [status |-> "active", acquired |-> FALSE] \in Download
            BY DEF Download, DownloadStatus
        <3>2. downloads[f] + 1 \in 0..MaxDownloads
            BY <2>1, BridgeAssumption DEF Enqueue, IInv, Types
        <3> QED BY <2>1, <3>1, <3>2 DEF Enqueue, IInv, Types
    <2>2. CASE Transfer(f)
        <3>1. queue' \in [Files -> Download]
            <4>1. ASSUME NEW from, NEW to \in DownloadStatus, Turn(f, from, to)
                  PROVE  queue' \in [Files -> Download]
                BY <4>1 DEF Turn, IInv, Types, Download
            <4>2. {"active", "paused", "erroneous", "completing"} \subseteq DownloadStatus
                BY DEF DownloadStatus
            <4>3. CASE queue' = [queue EXCEPT ![f].acquired = TRUE]
                BY <4>3 DEF IInv, Types, Download
            <4> QED BY <2>2, <4>1, <4>2, <4>3 DEF Transfer
        <3> QED BY <2>2, <3>1 DEF Transfer, IInv, Types
    <2>3. CASE Assemble(f)
        <3>1. [queue[f] EXCEPT !.status = "completed"] \in Download
            BY DEF IInv, Types, Download, DownloadStatus
        <3> QED BY <2>3, <3>1, AbsentIsADownload DEF Assemble, IInv, Types
    <2>4. CASE Remove(f)
        BY <2>4, AbsentIsADownload DEF Remove, IInv, Types
    <2> QED BY <2>1, <2>2, <2>3, <2>4
<1>2. Types'
    BY <1>1 DEF IInv, Types
<1> QED BY <1>2, UntouchedKeeps DEF Untouched

\* Lemma: a snapshot starts a goroutine that has no file at hand yet.
LEMMA SnapshotKeepsIInv ==
    ASSUME IInv, Snapshot
    PROVE  IInv'
<1> USE DEF Snapshot, daemonVars
<1>1. told' \in [Files -> Nat]
    <2>1. \A f \in Files : told[f] + (IF f \in Ended THEN 1 ELSE 0) \in Nat
        BY DEF IInv, Types
    <2> QED BY <2>1
<1>2. CASE Complete = {}
    <2>1. Types'
        BY <1>1, <1>2 DEF IInv, Types
    <2> QED BY <1>2, <2>1, UntouchedKeeps DEF Untouched
<1>3. CASE Complete # {}
    <2> DEFINE new == [Idle EXCEPT !.todo = Complete, !.step = "next"]
    <2>1. PICK t \in Tasks : task[t] = Idle /\ task' = [task EXCEPT ![t] = new]
        BY <1>3
    <2>2. /\ new \in Task
          /\ new.file = {}
          /\ new.step = "next"
        <3>1. Complete \in SUBSET Files
            BY DEF Complete
        <3> QED BY <3>1, StartIsATask
    <2> HIDE DEF new
    <2>3. Types'
        BY <1>1, <2>1, <2>2 DEF IInv, Types
    <2>4. Shape' /\ Sole' /\ Known'
        BY <2>1, <2>2 DEF IInv, Types, Shape, Sole, Known
    <2>5. PublishedOnce' /\ JournalIsTrue'
        BY DEF IInv, PublishedOnce, JournalIsTrue
    <2> QED BY <2>3, <2>4, <2>5 DEF IInv
<1> QED BY <1>2, <1>3

\* Lemma: after a restart nothing is at hand; the rows keep what was claimed
\* from being claimed again.
LEMMA CrashKeepsIInv ==
    ASSUME IInv, Crash
    PROVE  IInv'
<1> USE DEF Crash, daemonVars
<1>1. Types'
    <2>1. crashes + 1 \in 0..MaxCrashes
        BY BridgeAssumption DEF IInv, Types
    <2>2. UNION {task[t].file : t \in Tasks} \subseteq Files
        BY DEF IInv, Types, Task
    <2> QED BY <2>1, <2>2, IdleIsATask DEF IInv, Types
<1>2. Shape' /\ Sole' /\ Known'
    BY DEF Shape, Sole, Known, Idle
<1>3. PublishedOnce' /\ JournalIsTrue'
    BY DEF IInv, PublishedOnce, JournalIsTrue
<1> QED BY <1>1, <1>2, <1>3 DEF IInv

-----------------------------------------------------------------------------
(* The goroutines *)

\* Lemma: what a step of one goroutine must establish about itself for the
\* invariant to go on.  It turns to the file it has, to none, or to one whose
\* row was free, and the row and the comics of other files are left alone.
LEMMA OneGoroutine ==
    ASSUME IInv, NEW t \in Tasks, NEW f \in Files, UnchangedOutside,
           NEW new \in Task, task' = [task EXCEPT ![t] = new],
           NEW status \in Publication,
           publication' \in {publication, [publication EXCEPT ![f] = status]},
           NEW n \in Nat, comics' \in {comics, [comics EXCEPT ![f] = n]},
           dropped' \subseteq Files,
           task[t].file = {f} \/ (task[t].file = {} /\ publication[f] = "none")
           \/ UNCHANGED <<publication, comics>>,
           \/ new.file = {} /\ new.step \in {"idle", "next"}
           \/ /\ new.file = {f} /\ new.step \notin {"idle", "next"}
              /\ task[t].file = {f} \/ (task[t].file = {} /\ publication[f] = "none")
              /\ publication'[f] = "pending"
              /\ new.step \in {"route", "skip", "copy"} => comics'[f] = 0
              /\ new.step = "record" => comics'[f] = 1,
           comics'[f] <= 1,
           publication'[f] = "published" => comics'[f] = 1,
           publication'[f] \in {"none", "skipped"} => comics'[f] = 0
    PROVE  IInv'
<1> USE DEF IInv
<1>1. Types'
    BY DEF Types, UnchangedOutside, daemonVars
<1>2. Shape'
    BY DEF Types, Shape
<1>3. \A u \in Tasks \ {t} : task'[u] = task[u]
    BY DEF Types
<1>4. task'[t] = new
    BY DEF Types
<1>5. \A g \in Files \ {f} : publication'[g] = publication[g] /\ comics'[g] = comics[g]
    BY DEF Types
<1>6. \* nobody else has f, unless its row and comics are left alone
      \A u \in Tasks \ {t} : f \in task[u].file =>
          /\ UNCHANGED <<publication, comics>>
          /\ new.file = {}
    BY DEF Sole, Known
<1>7. Sole'
    BY <1>3, <1>4, <1>6 DEF Sole
<1>8. Known'
    <2> SUFFICES ASSUME NEW u \in Tasks, NEW g \in Files, g \in task'[u].file
                 PROVE  /\ publication'[g] = "pending"
                        /\ task'[u].step \in {"route", "skip", "copy"} => comics'[g] = 0
                        /\ task'[u].step = "record" => comics'[g] = 1
        BY DEF Known
    <2>1. CASE u = t
        BY <2>1, <1>4
    <2>2. CASE u # t /\ g = f
        BY <2>2, <1>3, <1>6 DEF Known
    <2>3. CASE u # t /\ g # f
        BY <2>3, <1>3, <1>5 DEF Known
    <2> QED BY <2>1, <2>2, <2>3
<1>9. PublishedOnce' /\ JournalIsTrue'
    BY <1>5 DEF PublishedOnce, JournalIsTrue
<1> QED BY <1>1, <1>2, <1>7, <1>8, <1>9

\* Lemma: the goroutine that has f at hand, at a step where it may be, and
\* f's row and comics as they are there.
LEMMA HandlesOne ==
    ASSUME IInv, NEW t \in Tasks, NEW f \in Files, NEW step \in {"route", "skip", "copy", "record", "fail"},
           Handles(t, f, step)
    PROVE  /\ task[t] = [todo |-> task[t].todo, file |-> {f}, step |-> step]
           /\ task[t].file = {f}
           /\ task[t].todo \subseteq Files
           /\ publication[f] = "pending"
           /\ comics[f] \in Nat /\ comics[f] <= 1
           /\ step \in {"route", "skip", "copy"} => comics[f] = 0
           /\ step = "record" => comics[f] = 1
<1>1. task[t] \in Task
    BY DEF IInv, Types
<1>2. task[t].step = step /\ task[t].file = {f}
    BY DEF Handles
<1>3. f \in task[t].file
    BY <1>2
<1>4. /\ publication[f] = "pending"
      /\ step \in {"route", "skip", "copy"} => comics[f] = 0
      /\ step = "record" => comics[f] = 1
    BY <1>2, <1>3 DEF IInv, Known
<1>5. comics[f] \in Nat /\ comics[f] <= 1
    BY DEF IInv, Types, PublishedOnce
<1> QED BY <1>1, <1>2, <1>4, <1>5 DEF Task

\* Lemma: from one step on its file to another, the row left as it is.
LEMMA MovesOn ==
    ASSUME IInv, NEW t \in Tasks, NEW f \in Files, UnchangedOutside,
           NEW from \in {"route", "skip", "copy", "record", "fail"}, Handles(t, f, from),
           NEW to \in {"route", "skip", "copy", "record", "fail"}, task' = Step(t, to),
           publication' = publication, dropped' \subseteq Files,
           NEW n \in {0, 1}, comics' \in {comics, [comics EXCEPT ![f] = n]},
           to \in {"route", "skip", "copy"} => comics'[f] = 0,
           to = "record" => comics'[f] = 1
    PROVE  IInv'
<1> DEFINE new == [todo |-> task[t].todo, file |-> {f}, step |-> to]
<1>1. /\ task[t] = [todo |-> task[t].todo, file |-> {f}, step |-> from]
      /\ task[t].file = {f}
      /\ task[t].todo \subseteq Files
      /\ publication[f] = "pending"
      /\ comics[f] \in Nat /\ comics[f] <= 1
      /\ from \in {"route", "skip", "copy"} => comics[f] = 0
      /\ from = "record" => comics[f] = 1
    BY HandlesOne, Zenon
<1>2. [task[t] EXCEPT !.step = to] = new
    BY <1>1
<1>3. task' = [task EXCEPT ![t] = new]
    <2>1. Step(t, to) = [task EXCEPT ![t] = [task[t] EXCEPT !.step = to]]
        BY DEF Step
    <2> HIDE DEF new
    <2> QED BY <2>1, <1>2
<1>4. new \in Task /\ new.file = {f} /\ new.step = to
    BY <1>1 DEF Task
<1>5. comics'[f] <= 1 /\ publication'[f] = "pending"
    BY <1>1 DEF IInv, Types
<1>6. "pending" \in Publication /\ n \in Nat
    BY DEF Publication
<1> HIDE DEF new
<1> QED BY <1>1, <1>3, <1>4, <1>5, <1>6, OneGoroutine

\* Lemma: done with its file, whether the result was written or not.
LEMMA LetsGo ==
    ASSUME IInv, NEW t \in Tasks, NEW f \in Files, UnchangedOutside,
           NEW from \in {"route", "skip", "copy", "record", "fail"}, Handles(t, f, from),
           task' = NextFile(t), UNCHANGED comics, dropped' \subseteq Files,
           NEW status \in {"pending", "published", "skipped", "error"},
           publication' = [publication EXCEPT ![f] = status],
           status = "published" => from = "record",
           status = "skipped" => from = "skip"
    PROVE  IInv'
<1> DEFINE new == [todo |-> task[t].todo, file |-> {}, step |-> "next"]
<1>1. /\ task[t] = [todo |-> task[t].todo, file |-> {f}, step |-> from]
      /\ task[t].file = {f}
      /\ task[t].todo \subseteq Files
      /\ publication[f] = "pending"
      /\ comics[f] \in Nat /\ comics[f] <= 1
      /\ from \in {"route", "skip", "copy"} => comics[f] = 0
      /\ from = "record" => comics[f] = 1
    BY HandlesOne, Zenon
<1> DEFINE hands == [task[t] EXCEPT !.file = {}]
<1>2. [hands EXCEPT !.step = "next"] = new
    <2>1. hands = [todo |-> task[t].todo, file |-> {}, step |-> from]
        BY <1>1
    <2> HIDE DEF hands
    <2> QED BY <2>1
<1>3. task' = [task EXCEPT ![t] = new]
    <2> DEFINE half == [task EXCEPT ![t] = hands]
    <2>1. NextFile(t) = [half EXCEPT ![t] = [half[t] EXCEPT !.step = "next"]]
        BY DEF NextFile
    <2>2. half[t] = hands
        BY DEF IInv, Types
    <2>3. [half EXCEPT ![t] = new] = [task EXCEPT ![t] = new]
        <3> HIDE DEF new, hands
        <3> QED OBVIOUS
    <2> HIDE DEF new, hands, half
    <2> QED BY <2>1, <2>2, <2>3, <1>2
<1>4. new \in Task /\ new.file = {} /\ new.step = "next"
    BY <1>1 DEF Task
<1>5. publication'[f] = status /\ comics' = comics
    BY DEF IInv, Types
<1>6. /\ status \in Publication /\ 0 \in Nat
      /\ publication' \in {publication, [publication EXCEPT ![f] = status]}
      /\ comics' \in {comics, [comics EXCEPT ![f] = 0]}
    BY DEF Publication
<1>7. /\ comics'[f] <= 1
      /\ publication'[f] = "published" => comics'[f] = 1
      /\ publication'[f] \in {"none", "skipped"} => comics'[f] = 0
    BY <1>1, <1>5
<1> HIDE DEF new, hands
<1> QED BY <1>1, <1>3, <1>4, <1>6, <1>7, OneGoroutine

\* Lemma: a goroutine ends with nothing at hand.
LEMMA FinishKeepsIInv ==
    ASSUME IInv, NEW t \in Tasks, Finish(t)
    PROVE  IInv'
<1> USE DEF Finish, UnchangedOutside, daemonVars
<1>1. Types'
    BY IdleIsATask DEF IInv, Types
<1>2. task'[t] = Idle /\ \A u \in Tasks \ {t} : task'[u] = task[u]
    BY DEF IInv, Types
<1>3. Idle.file = {} /\ Idle.step = "idle"
    BY DEF Idle
<1>4. Shape' /\ Sole' /\ Known'
    BY <1>2, <1>3 DEF IInv, Shape, Sole, Known
<1>5. PublishedOnce' /\ JournalIsTrue'
    BY DEF IInv, PublishedOnce, JournalIsTrue
<1> QED BY <1>1, <1>4, <1>5 DEF IInv

\* Lemma: the claim.  Only a free row is taken, and a free row has no comic.
LEMMA ClaimKeepsIInv ==
    ASSUME IInv, NEW t \in Tasks, NEW f \in Files, Claim(t, f)
    PROVE  IInv'
<1> DEFINE rest == task[t].todo \ {f}
           taken == [todo |-> rest, file |-> {f}, step |-> "route"]
           refused == [todo |-> rest, file |-> {}, step |-> "next"]
<1>1. task[t].step = "next" /\ f \in task[t].todo /\ UnchangedOutside /\ comics' = comics
    BY DEF Claim
<1>2. /\ task[t] = [todo |-> task[t].todo, file |-> {}, step |-> "next"]
      /\ task[t].todo \subseteq Files
      /\ task[t].file = {}
    <2>1. task[t] \in Task
        BY DEF IInv, Types
    <2>2. task[t].file = {}
        BY <1>1 DEF IInv, Shape
    <2> QED BY <1>1, <2>1, <2>2 DEF Task
<1>3. dropped' \subseteq Files
    BY DEF Claim, IInv, Types
<1>4. taken \in Task /\ taken.file = {f} /\ taken.step = "route"
    BY <1>2 DEF Task
<1>5. refused \in Task /\ refused.file = {} /\ refused.step = "next"
    BY <1>2 DEF Task
<1>6. "pending" \in Publication /\ 0 \in Nat
    BY DEF Publication
<1>7. comics' \in {comics, [comics EXCEPT ![f] = 0]} /\ comics'[f] <= 1
    BY <1>1 DEF IInv, PublishedOnce
<1>8. CASE /\ Free(f)
           /\ publication' = [publication EXCEPT ![f] = "pending"]
           /\ task' = [task EXCEPT ![t].todo = @ \ {f}, ![t].file = {f}, ![t].step = "route"]
    <2> DEFINE one == [task[t] EXCEPT !.todo = rest]
               two == [one EXCEPT !.file = {f}]
               first == [task EXCEPT ![t] = one]
               second == [first EXCEPT ![t] = two]
    <2>1. one = [todo |-> rest, file |-> {}, step |-> "next"]
        BY <1>2
    <2>2. two = [todo |-> rest, file |-> {f}, step |-> "next"]
        <3> HIDE DEF one
        <3> QED BY <2>1
    <2>3. [two EXCEPT !.step = "route"] = taken
        <3> HIDE DEF two
        <3> QED BY <2>2
    <2>4. first[t] = one /\ second[t] = two
        <3> HIDE DEF one, two
        <3> QED BY DEF IInv, Types
    <2>5. task' = [second EXCEPT ![t] = [second[t] EXCEPT !.step = "route"]]
        <3>1. second = [first EXCEPT ![t] = [first[t] EXCEPT !.file = {f}]]
            <4> HIDE DEF one, first
            <4> QED BY <2>4
        <3> HIDE DEF second
        <3> QED BY <1>8, <3>1
    <2>6. task' = [task EXCEPT ![t] = taken]
        <3>1. [second EXCEPT ![t] = taken] = [task EXCEPT ![t] = taken]
            <4> HIDE DEF one, two, taken
            <4> QED OBVIOUS
        <3> HIDE DEF second, two, taken
        <3> QED BY <2>3, <2>4, <2>5, <3>1
    <2>7. /\ publication[f] = "none" /\ comics'[f] = 0
          /\ publication'[f] = "pending"
          /\ publication' \in {publication, [publication EXCEPT ![f] = "pending"]}
        BY <1>1, <1>8 DEF Free, IInv, Types, JournalIsTrue
    <2> HIDE DEF taken
    <2> QED BY <1>1, <1>2, <1>3, <1>4, <1>6, <1>7, <2>6, <2>7, OneGoroutine
<1>9. CASE publication' = publication /\ task' = [task EXCEPT ![t].todo = @ \ {f}]
    <2>1. [task[t] EXCEPT !.todo = rest] = refused
        BY <1>2
    <2>2. task' = [task EXCEPT ![t] = refused]
        <3>1. task' = [task EXCEPT ![t] = [task[t] EXCEPT !.todo = rest]]
            BY <1>9
        <3> HIDE DEF refused
        <3> QED BY <2>1, <3>1
    <2>3. /\ publication'[f] = "published" => comics'[f] = 1
          /\ publication'[f] \in {"none", "skipped"} => comics'[f] = 0
          /\ publication' \in {publication, [publication EXCEPT ![f] = "pending"]}
          /\ UNCHANGED <<publication, comics>>
        BY <1>1, <1>9 DEF IInv, JournalIsTrue
    <2> HIDE DEF refused
    <2> QED BY <1>1, <1>3, <1>5, <1>6, <1>7, <2>2, <2>3, OneGoroutine
<1> QED BY <1>8, <1>9 DEF Claim

\* Lemma: the destination of a file that has no comic yet.
LEMMA RouteKeepsIInv ==
    ASSUME IInv, NEW t \in Tasks, NEW f \in Files, Route(t, f)
    PROVE  IInv'
<1>1. /\ Handles(t, f, "route") /\ UnchangedOutside
      /\ UNCHANGED <<publication, comics, dropped>>
    BY DEF Route
<1>2. comics[f] = 0
    BY <1>1, HandlesOne
<1>3. PICK to \in {"skip", "copy", "fail"} : task' = Step(t, to)
    BY DEF Route
<1>4. /\ dropped' \subseteq Files
      /\ comics' \in {comics, [comics EXCEPT ![f] = 0]}
      /\ comics'[f] = 0
    BY <1>1, <1>2 DEF IInv, Types
<1> QED BY <1>1, <1>3, <1>4, MovesOn

\* Lemma: the only step that makes a comic, and of a file that has none.
LEMMA CopyKeepsIInv ==
    ASSUME IInv, NEW t \in Tasks, NEW f \in Files, Copy(t, f)
    PROVE  IInv'
<1>1. /\ Handles(t, f, "copy") /\ UnchangedOutside
      /\ publication' = publication /\ dropped' \subseteq Files
    BY DEF Copy, IInv, Types
<1>2. comics[f] = 0
    BY <1>1, HandlesOne
<1>3. PICK to \in {"record", "fail"} : task' = Step(t, to)
    BY DEF Copy
<1>4. CASE comics' = [comics EXCEPT ![f] = @ + 1]
    <2>1. comics' = [comics EXCEPT ![f] = 1] /\ comics'[f] = 1
        BY <1>2, <1>4 DEF IInv, Types
    <2> QED BY <1>1, <1>3, <2>1, MovesOn
<1>5. CASE comics' = comics /\ task' = Step(t, "fail")
    <2>1. comics' \in {comics, [comics EXCEPT ![f] = 0]}
        BY <1>5
    <2> QED BY <1>1, <1>5, <2>1, MovesOn
<1> QED BY <1>4, <1>5 DEF Copy

\* Lemma: a result, written as the step at hand allows, or not written.
LEMMA ResultKeepsIInv ==
    ASSUME IInv, NEW t \in Tasks, NEW f \in Files,
           NEW from \in {"skip", "record", "fail"}, Handles(t, f, from),
           NEW status \in {"skipped", "published", "error"},
           status = "published" => from = "record",
           status = "skipped" => from = "skip",
           NEW otherwise \in {NextFile(t), Step(t, "fail")},
           Result(t, f, status, otherwise)
    PROVE  IInv'
<1>1. UnchangedOutside /\ comics' = comics /\ dropped' \subseteq Files
    BY DEF Result, IInv, Types
<1>2. publication[f] = "pending"
    BY HandlesOne
<1>3. CASE /\ publication' = [publication EXCEPT ![f] = status]
           /\ task' = NextFile(t)
    BY <1>1, <1>3, LetsGo
<1>4. CASE publication' = publication /\ task' = NextFile(t)
    <2>1. publication' = [publication EXCEPT ![f] = "pending"]
        BY <1>2, <1>4 DEF IInv, Types
    <2> QED BY <1>1, <1>4, <2>1, LetsGo
<1>5. CASE publication' = publication /\ task' = Step(t, "fail")
    <2>1. comics' \in {comics, [comics EXCEPT ![f] = 0]}
        BY <1>1
    <2> QED BY <1>1, <1>5, <2>1, MovesOn
<1> QED BY <1>3, <1>4, <1>5 DEF Result

-----------------------------------------------------------------------------
\* Every step of the daemon, the snapshots, the goroutines and the restarts
\* keeps the invariant.
THEOREM NextIInv == IInv /\ [Next]_vars => IInv'
<1> SUFFICES ASSUME IInv, [Next]_vars PROVE IInv'
    OBVIOUS
<1>1. ASSUME NEW f \in Files, Daemon(f) PROVE IInv'
    BY <1>1, DaemonKeepsIInv
<1>2. CASE Snapshot
    BY <1>2, SnapshotKeepsIInv
<1>3. CASE SessionEnds
    <2>1. Types'
        BY <1>3 DEF SessionEnds, daemonVars, IInv, Types
    <2> QED BY <1>3, <2>1, UntouchedKeeps DEF SessionEnds, Untouched
<1>4. ASSUME NEW t \in Tasks, Publish(t) PROVE IInv'
    <2>1. CASE Finish(t)
        BY <2>1, FinishKeepsIInv
    <2>2. ASSUME NEW f \in Files,
                 Claim(t, f) \/ Route(t, f) \/ Copy(t, f)
                 \/ Skip(t, f) \/ Record(t, f) \/ Fail(t, f)
          PROVE  IInv'
        <3>1. CASE Claim(t, f)
            BY <3>1, ClaimKeepsIInv
        <3>2. CASE Route(t, f)
            BY <3>2, RouteKeepsIInv
        <3>3. CASE Copy(t, f)
            BY <3>3, CopyKeepsIInv
        <3>4. CASE Skip(t, f)
            BY <3>4, ResultKeepsIInv DEF Skip
        <3>5. CASE Record(t, f)
            BY <3>5, ResultKeepsIInv DEF Record
        <3>6. CASE Fail(t, f)
            BY <3>6, ResultKeepsIInv DEF Fail
        <3> QED BY <2>2, <3>1, <3>2, <3>3, <3>4, <3>5, <3>6
    <2> QED BY <1>4, <2>1, <2>2 DEF Publish
<1>5. CASE SetDestination
    <2>1. Types'
        BY <1>5 DEF SetDestination, daemonVars, IInv, Types
    <2> QED BY <1>5, <2>1, UntouchedKeeps DEF SetDestination, Untouched
<1>6. CASE Crash
    BY <1>6, CrashKeepsIInv
<1>7. CASE UNCHANGED vars
    <2>1. Types'
        BY <1>7 DEF vars, daemonVars, IInv, Types
    <2> QED BY <1>7, <2>1, UntouchedKeeps DEF vars, Untouched
<1> QED BY <1>1, <1>2, <1>3, <1>4, <1>5, <1>6, <1>7 DEF Next

\* The invariant holds in every state.
THEOREM Invariance == Spec => []IInv
<1> QED BY InitIInv, NextIInv, PTL DEF Spec

\* Every state is of its type.
THEOREM BridgeTypes == Spec => []TypeOK
<1>1. IInv => TypeOK
    BY TypesAndShape DEF IInv
<1> QED BY <1>1, Invariance, PTL

\* bridge.go: two turns that see the same complete file, two downloads of it,
\* an error or a restart in between, make one comic at most.
THEOREM PublishedOnceTheorem == Spec => []PublishedOnce
<1>1. IInv => PublishedOnce
    BY DEF IInv
<1> QED BY <1>1, Invariance, PTL

\* bridge.go: the journal says "published" of what is a comic, and of what it
\* says was left on disk, or does not mention, there is none.
THEOREM JournalTheorem == Spec => []JournalIsTrue
<1>1. IInv => JournalIsTrue
    BY DEF IInv
<1> QED BY <1>1, Invariance, PTL

-----------------------------------------------------------------------------
(***************************************************************************)
(* The notifications.  Once the end of a download is told, the download is *)
(* complete in the queue or gone from it, and what the next snapshot will  *)
(* be compared with shows it so.                                           *)
(***************************************************************************)
Told == \A f \in Files :
    /\ told[f] \in {0, 1}
    /\ told[f] = 1 =>
          \/ queue[f].status = "completed" /\ (compared => previous[f].status = "completed")
          \/ queue[f].status = "absent" /\ (compared => previous[f].status \in {"absent", "completed"})

\* events.go: an end is seen complete in the queue, or gone from it, and is
\* not seen again.
LEMMA SeenEnding ==
    ASSUME NEW was \in Download, NEW now \in Download
    PROVE  /\ FileEvent(was, now) = "completed" => now.status \in {"absent", "completed"}
           /\ now.status = "completed" /\ was.status = "completed" => FileEvent(was, now) # "completed"
           /\ now.status = "absent" /\ was.status \in {"absent", "completed"}
                  => FileEvent(was, now) # "completed"
<1>1. CASE was.status = "absent"
    BY <1>1 DEF FileEvent, Appeared
<1>2. CASE was.status # "absent" /\ now.status = "absent"
    BY <1>2 DEF FileEvent, Gone
<1>3. CASE was.status # "absent" /\ now.status # "absent"
    BY <1>3 DEF FileEvent, StatusChange
<1> QED BY <1>1, <1>2, <1>3

\* Lemma: the daemon does not take a finished download up again, except as
\* another one.
LEMMA DaemonTold ==
    ASSUME IInv, Told, NEW f \in Files, Daemon(f)
    PROVE  Told'
<1>1. /\ compared' = compared /\ previous' = previous
      /\ queue \in [Files -> Download] /\ told \in [Files -> Nat]
    BY DEF Daemon, IInv, Types
<1>2. \A g \in Files \ {f} : queue'[g] = queue[g] /\ told'[g] = told[g]
    BY <1>1 DEF Daemon, Enqueue, Transfer, Turn, Assemble, Remove
<1>3. CASE Enqueue(f)
    <2>1. told'[f] = 0
        BY <1>1, <1>3 DEF Enqueue
    <2> QED BY <1>1, <1>2, <2>1 DEF Told
<1>4. CASE Transfer(f)
    <2>1. queue[f].status \notin {"absent", "completed"} \/ queue'[f].status = queue[f].status
        BY <1>1, <1>4 DEF Transfer, Turn, Download
    <2>2. told'[f] = told[f]
        BY <1>4 DEF Transfer
    <2> QED BY <1>1, <1>2, <2>1, <2>2 DEF Told
<1>5. CASE Assemble(f)
    <2>1. queue[f].status = "completing" /\ told'[f] = told[f]
        BY <1>5 DEF Assemble
    <2> QED BY <1>1, <1>2, <2>1 DEF Told
<1>6. CASE Remove(f)
    <2>1. queue'[f].status = "absent" /\ told'[f] = told[f]
        BY <1>1, <1>6 DEF Remove, Absent
    <2> QED BY <1>1, <1>2, <2>1 DEF Told
<1> QED BY <1>3, <1>4, <1>5, <1>6 DEF Daemon

\* Lemma: a snapshot tells an end that was not told.
LEMMA SnapshotTold ==
    ASSUME IInv, Told, Snapshot
    PROVE  Told'
<1> SUFFICES ASSUME NEW f \in Files
             PROVE  /\ told'[f] \in {0, 1}
                    /\ told'[f] = 1 => queue[f].status \in {"absent", "completed"}
    BY DEF Told, Snapshot, daemonVars
<1>1. previous[f] \in Download /\ queue[f] \in Download
    BY DEF IInv, Types
<1>2. told'[f] = told[f] + (IF f \in Ended THEN 1 ELSE 0)
    BY DEF Snapshot
<1>3. CASE f \in Ended
    <2>1. compared /\ FileEvent(previous[f], queue[f]) = "completed"
        BY <1>3 DEF Ended
    <2>2. told[f] = 0
        BY <1>1, <2>1, SeenEnding DEF Told
    <2> QED BY <1>1, <1>2, <1>3, <2>1, <2>2, SeenEnding
<1>4. CASE f \notin Ended
    BY <1>2, <1>4 DEF Told
<1> QED BY <1>3, <1>4

\* Lemma: nothing else is told, and a comparison may only be forgotten.
LEMMA NextTold == IInv /\ Told /\ [Next]_vars => Told'
<1> SUFFICES ASSUME IInv, Told, [Next]_vars PROVE Told'
    OBVIOUS
<1>1. ASSUME UNCHANGED <<queue, told, previous>>, compared' => compared PROVE Told'
    BY <1>1 DEF Told
<1>2. CASE \E f \in Files : Daemon(f)
    BY <1>2, DaemonTold
<1>3. CASE Snapshot
    BY <1>3, SnapshotTold
<1>4. CASE SessionEnds \/ SetDestination \/ Crash \/ UNCHANGED vars
    BY <1>1, <1>4 DEF SessionEnds, SetDestination, Crash, vars, daemonVars
<1>5. ASSUME NEW t \in Tasks, Publish(t) PROVE Told'
    <2>1. UnchangedOutside
        BY <1>5 DEF Publish, Finish, Claim, Route, Copy, Skip, Record, Fail, Result
    <2> QED BY <1>1, <2>1 DEF UnchangedOutside, daemonVars
<1> QED BY <1>2, <1>3, <1>4, <1>5 DEF Next

\* events.go: one notification for one end of a download, whichever of the
\* two ways it was seen, however the sessions and the server come and go.
THEOREM EndedOnceTheorem == Spec => []EndedOnce
<1>1. Init => Told
    BY DEF Init, Told
<1>2. IInv /\ Told => EndedOnce
    BY DEF Told, EndedOnce
<1> QED BY <1>1, <1>2, InitIInv, NextIInv, NextTold, PTL DEF Spec
=============================================================================

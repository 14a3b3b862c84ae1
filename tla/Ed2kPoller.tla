----------------------------- MODULE Ed2kPoller -----------------------------
(***************************************************************************)
(* The polling loop of the eD2k module (apps/server/internal/amule/        *)
(* poller.go and session.go): one goroutine that opens a session with the  *)
(* aMule daemon when somebody watches, collects snapshots, announces the   *)
(* changes of its state through the hub, and persists that state.          *)
(*                                                                         *)
(* Time is left out: a wait ends by its timer or by the wake-up channel,   *)
(* in any order, so the intervals and the growing delay between attempts   *)
(* do not appear.  The number of subscribers the hub reports is reduced to *)
(* what the loop asks of it, whether there is one.  A snapshot is reduced  *)
(* to whether it differs from the previous one, which publishes an event.  *)
(* What the status says is left out too: it only reads.                    *)
(*                                                                         *)
(* The state is persisted in the row of the daemon an administrator        *)
(* declared (service.go): there may be none, and declaring, forgetting and *)
(* declaring again go on beside the loop, under an open session too.  The  *)
(* row's address is left out: whether the daemon answers is nobody's       *)
(* choice.                                                                 *)
(***************************************************************************)
EXTENDS SseHub

CONSTANTS
    Change,          \* an event that is not an announcement
    MaxRestarts,     \* bound on restarts of the server
    MaxChanges       \* bound on declarations and removals of the daemon

ASSUME PollerAssumption ==
    /\ States = {"connected", "disconnected"}
    /\ Change \notin States
    /\ Events = States \cup {Change}
    /\ MaxRestarts \in Nat /\ MaxChanges \in Nat

VARIABLES
    pc,          \* where the goroutine is
    after,       \* where it goes once the state is persisted or the session closed
    watched,     \* watchers > 0, as the hub last reported
    wake,        \* a token in the wake-up channel
    opened,      \* an EC session with the daemon is open
    session,     \* it is exposed to the commands and to Status
    first,       \* the session has no snapshot yet
    state,       \* the state last announced by this process
    declared,    \* there is a row for the daemon
    stored,      \* its last_state; Unknown is NULL
    due,         \* requests about the daemon that have yet to publish the status
    changes,
    daemon,      \* the daemon answers
    stopping,    \* Stop was called
    restarts,
    \* History, read by the properties only.
    unseen,      \* dials and collections begun since nobody watches
    missed,      \* the last persist failed
    fresh        \* the row was made since the last persist

loopVars == <<pc, after, opened, session, first, state>>
rowVars == <<declared, due, changes, fresh>>
vars == <<hubVars, loopVars, rowVars, watched, wake, stored, daemon, stopping,
          restarts, unseen, missed>>

Pc == {"watch", "asleep", "dial", "connected", "lost", "suspend", "stop", "persist",
       "expose", "check", "collect", "pause", "close", "backoff", "done"}

TypeOK ==
    /\ HubTypeOK
    /\ pc \in Pc /\ after \in Pc
    /\ {watched, wake, opened, session, first, daemon, declared, stopping, missed,
        fresh} \subseteq BOOLEAN
    /\ state \in States \cup {Unknown}
    /\ stored \in States \cup {Unknown}
    /\ ~declared => stored = Unknown
    /\ changes \in 0..MaxChanges /\ due \in 0..changes
    /\ restarts \in 0..MaxRestarts
    /\ unseen \in Nat

Init ==
    /\ HubInit
    /\ pc = "watch" /\ after = "watch"
    /\ watched = FALSE /\ wake = FALSE
    /\ opened = FALSE /\ session = FALSE /\ first = FALSE
    /\ state = Unknown /\ stored = Unknown
    /\ daemon \in BOOLEAN /\ declared \in BOOLEAN
    /\ due = 0 /\ changes = 0
    /\ stopping = FALSE /\ restarts = 0
    /\ unseen = 0 /\ missed = FALSE /\ fresh = FALSE

-----------------------------------------------------------------------------
(* What the hub tells the loop *)

\* Mutant: only arrivals are notified.
NotifiedOfArrivals == Subscribers' \ Subscribers # {}
\* The hub calls back whenever its set of subscribers changes.
Notified == Subscribers' # Subscribers

\* subscribersChanged, under the hub's lock: the count is stored and a token
\* is left in the channel.  Every action that goes through the hub ends so.
SubscribersChanged ==
    /\ watched' = IF Notified THEN Subscribers' # {} ELSE watched
    /\ wake' = (wake \/ Notified)

Still == UNCHANGED <<hubVars, watched, wake>>

\* History: an exchange with the daemon begins; somebody watches again.
Exchange == unseen' = IF Subscribers = {} THEN unseen + 1 ELSE 0
SeenAgain == unseen' = IF Subscribers' = {} THEN unseen ELSE 0

rest == <<rowVars, stored, daemon, stopping, restarts, missed>>

Goto(next) == pc' = next /\ UNCHANGED <<after, opened, session, first, state>>

-----------------------------------------------------------------------------
(* run *)

\* waitForWatchers: the count is read, then the loop sleeps until woken.
Watch ==
    /\ pc = "watch"
    /\ Goto(IF watched THEN "dial" ELSE "asleep")
    /\ UNCHANGED unseen /\ Still /\ UNCHANGED rest

WakeUp ==
    /\ pc = "asleep"
    /\ \/ wake /\ Goto("watch")
       \/ stopping /\ Goto("done")
    /\ wake' = (wake /\ stopping)
    /\ UNCHANGED <<hubVars, watched, unseen, rest>>

\* dial.Open: the row is read first.
Dial ==
    /\ pc = "dial"
    /\ \/ declared /\ daemon /\ opened' = TRUE /\ pc' = "connected"
       \/ ~(declared /\ daemon) /\ opened' = opened /\ pc' = "lost"
       \/ stopping /\ opened' = opened /\ pc' = "done"
    /\ Exchange
    /\ UNCHANGED <<after, session, first, state>> /\ Still /\ UNCHANGED rest

\* setState: a change is announced, then persisted; no change is nothing.
SetState(s, next) ==
    /\ state' = s
    /\ IF state # s
       THEN Publish(s) /\ pc' = "persist" /\ after' = next
       ELSE UNCHANGED <<hubVars, after>> /\ pc' = next
    /\ SubscribersChanged /\ SeenAgain
    /\ UNCHANGED <<opened, session, first, rest>>

Connected == pc = "connected" /\ SetState("connected", "expose")
Lost      == pc = "lost" /\ SetState("disconnected", "backoff")
Suspend   == pc = "suspend" /\ SetState("disconnected", "watch")
\* Mutant: a loop that is told to stop does not say so.
StopInSilence == pc = "stop" /\ Goto("done") /\ Still /\ UNCHANGED <<unseen, rest>>
StopSaid  == pc = "stop" /\ SetState("disconnected", "done")

\* SetEd2kDaemonState: an UPDATE, which finds no row when none is declared.
WhereDeclared == IF declared THEN state ELSE Unknown

\* onState: the state is persisted; a failure is only logged.
Persist ==
    /\ pc = "persist"
    /\ \/ stored' = WhereDeclared /\ missed' = FALSE /\ fresh' = FALSE
       \/ stored' = stored /\ missed' = TRUE /\ fresh' = fresh
    /\ pc' = after /\ after' = "watch"
    /\ UNCHANGED <<opened, session, first, state>>
    /\ Still /\ UNCHANGED <<unseen, declared, due, changes, daemon, stopping, restarts>>

\* setSession(conn), then pollLoop begins.
Expose ==
    /\ pc = "expose"
    /\ pc' = "check" /\ session' = TRUE /\ first' = TRUE
    /\ UNCHANGED <<after, opened, state, unseen>> /\ Still /\ UNCHANGED rest

\* pollLoop ends: with no error when nobody watches, with one when a
\* collection fails.
Leaving(cause) ==
    /\ pc' = "close" /\ after' = cause
    /\ UNCHANGED <<opened, session, first, state>>

\* Mutant: the loop waits for a watcher with its session open.
CheckKeepsSession ==
    /\ pc = "check"
    /\ Goto(IF watched THEN "collect" ELSE "pause")
    /\ UNCHANGED unseen /\ Still /\ UNCHANGED rest
\* The head of pollLoop.
Check ==
    /\ pc = "check"
    /\ IF watched THEN Goto("collect") ELSE Leaving("suspend")
    /\ UNCHANGED unseen /\ Still /\ UNCHANGED rest

\* A snapshot; the first of a session has nothing to differ from.
Collect ==
    /\ pc = "collect" /\ daemon
    /\ \/ ~first /\ Publish(Change)
       \/ UNCHANGED hubVars
    /\ SubscribersChanged /\ Exchange
    /\ pc' = "pause" /\ first' = FALSE
    /\ UNCHANGED <<after, opened, session, state, rest>>

CollectFails ==
    /\ pc = "collect" /\ (~daemon \/ stopping)
    /\ Leaving("lost")
    /\ Exchange /\ Still /\ UNCHANGED rest

\* wait, between two snapshots: the timer, a token, or the end.
Pause ==
    /\ pc = "pause"
    /\ \/ Goto("check") /\ wake' \in {wake, FALSE}
       \/ stopping /\ Leaving("suspend") /\ wake' = wake
    /\ UNCHANGED <<hubVars, watched, unseen, rest>>

\* The session is withdrawn and closed; a stop comes before the cause.
Close ==
    /\ pc = "close"
    /\ pc' = IF stopping THEN "stop" ELSE after
    /\ after' = "watch"
    /\ session' = FALSE /\ opened' = FALSE /\ first' = FALSE
    /\ UNCHANGED <<state, unseen>> /\ Still /\ UNCHANGED rest

\* Mutant: only a token ends the wait before another attempt.
BackoffUntilWoken ==
    /\ pc = "backoff" /\ wake
    /\ Goto("watch") /\ wake' = FALSE
    /\ UNCHANGED <<hubVars, watched, unseen, rest>>
\* wait, before another attempt.
Backoff ==
    /\ pc = "backoff"
    /\ \/ Goto("watch") /\ wake' \in {wake, FALSE}
       \/ stopping /\ Goto("done") /\ wake' = wake
    /\ UNCHANGED <<hubVars, watched, unseen, rest>>

Loop ==
    \/ Watch \/ WakeUp \/ Dial \/ Connected \/ Lost \/ Suspend \/ StopSaid
    \/ Persist \/ Expose \/ Check \/ Collect \/ CollectFails \/ Pause
    \/ Close \/ Backoff

-----------------------------------------------------------------------------
(* Around the loop *)

\* A step of a browser, which the hub reports to the loop.
Browse(b) ==
    /\ \/ Open(b) \/ Greet(b) \/ Subscribe(b) \/ Deliver(b)
       \/ Reconnect(b) \/ Leave(b)
    /\ SubscribersChanged /\ SeenAgain
    /\ UNCHANGED <<loopVars, rest>>

\* A command was sent to the daemon: a token asks for a snapshot.
Nudge ==
    /\ session
    /\ wake' = TRUE
    /\ UNCHANGED <<hubVars, loopVars, watched, unseen, rest>>

\* A request about the daemon: it writes, and will publish.
Request ==
    /\ changes < MaxChanges
    /\ changes' = changes + 1 /\ due' = due + 1
    /\ Still /\ UNCHANGED <<loopVars, unseen, daemon, stopping, restarts, missed>>

\* Mutant: the row is replaced.
ReplaceDaemon ==
    /\ Request
    /\ declared' = TRUE /\ stored' = Unknown
    /\ fresh' = (fresh \/ ~declared)
\* SetDaemon: a row that exists keeps the state it stores.
SetDaemon ==
    /\ Request
    /\ declared' = TRUE
    /\ fresh' = (fresh \/ ~declared)
    /\ UNCHANGED stored

\* ForgetDaemon: the row goes, with what it stores.  The session stays.
ForgetDaemon ==
    /\ Request
    /\ declared' = FALSE /\ stored' = Unknown /\ fresh' = FALSE

\* publishStatus, at the end of both: an event that is not an announcement.
PublishStatus ==
    /\ due > 0
    /\ due' = due - 1
    /\ Publish(Change)
    /\ SubscribersChanged /\ SeenAgain
    /\ UNCHANGED <<loopVars, declared, changes, fresh, stored, daemon, stopping,
                   restarts, missed>>

DaemonTurns ==
    /\ daemon' = ~daemon
    /\ UNCHANGED <<hubVars, loopVars, rowVars, watched, wake, unseen, stored,
                   stopping, restarts, missed>>

Stop ==
    /\ ~stopping
    /\ stopping' = TRUE
    /\ UNCHANGED <<hubVars, loopVars, rowVars, watched, wake, unseen, stored, daemon,
                   restarts, missed>>

\* The process ends, stopped or killed anywhere, and another one starts.
Restart ==
    /\ restarts < MaxRestarts
    /\ restarts' = restarts + 1
    /\ CutAll
    /\ pc' = "watch" /\ after' = "watch" /\ state' = Unknown
    /\ watched' = FALSE /\ wake' = FALSE /\ stopping' = FALSE
    /\ opened' = FALSE /\ session' = FALSE /\ first' = FALSE
    /\ due' = 0
    /\ unseen' = 0 /\ missed' = FALSE
    /\ UNCHANGED <<declared, changes, fresh, stored, daemon>>

Next ==
    \/ Loop
    \/ \E b \in Browsers : Browse(b)
    \/ Nudge \/ SetDaemon \/ ForgetDaemon \/ PublishStatus
    \/ DaemonTurns \/ Stop \/ Restart

Spec == Init /\ [][Next]_vars

(***************************************************************************)
(* The goroutine runs on; its waits end by their timer.  Nothing is        *)
(* assumed of the browsers, of the daemon nor of the administrators.       *)
(***************************************************************************)
FairSpec == Spec /\ WF_vars(Loop)

-----------------------------------------------------------------------------
\* PROPERTIES

\* poller.go: an instance nobody watches produces no traffic.  Once the last
\* browser is gone, whatever it interrupts, at most the exchange that was
\* about to begin is made.
QuietWhenUnwatched == unseen <= 1

\* ... and the session is closed in the end.
Sleeps == <>[](Subscribers = {}) => <>[]~opened

\* As long as somebody watches and the declared daemon answers, snapshots go
\* on: no wake-up is lost, no failure is final.
Serves == <>[](Subscribers # {} /\ declared /\ daemon /\ ~stopping)
              => []<>(pc = "pause")

\* What the row stores is the last state announced, so that it explains after
\* a restart what happened before (session.go), save when persisting it failed,
\* and save in a row made since: such a row stores nothing until the state
\* CHANGES.  And a loop that was stopped leaves no session and does not leave
\* "connected" behind.
StoredFollows ==
    /\ state # Unknown /\ pc # "persist" /\ ~missed
          => stored = IF declared /\ ~fresh THEN state ELSE Unknown
    /\ pc = "done" => ~opened /\ ~session /\ state # "connected"

\* session.go, literally, once a persist has succeeded: the row of a declared
\* daemon stores the last state announced.
RowExplains ==
    declared /\ state # Unknown /\ pc # "persist" /\ ~missed => stored = state

\* The last announcement a stream carried or still holds.
LastAnnounced(b) ==
    LET at == {i \in DOMAIN frames[b] : frames[b][i] \in States}
    IN  IF at = {} THEN heard[b]
        ELSE frames[b][CHOOSE i \in at : \A j \in at : j <= i]

\* sse.go: a subscriber is disconnected rather than made to miss events.  What
\* a stream still open has carried since it was registered ends with the
\* present state, however slow its browser.
OpenStreamIsCurrent ==
    \A b \in Subscribers : LastAnnounced(b) \in {Unknown, state}
=============================================================================

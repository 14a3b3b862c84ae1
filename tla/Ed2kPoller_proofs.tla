-------------------------- MODULE Ed2kPoller_proofs --------------------------
(***************************************************************************)
(* What holds of the polling loop for any set of browsers, any size of the *)
(* hub's buffers and any number of restarts and of changes to the declared *)
(* daemon: it is quiet when nobody watches, what its row stores is the     *)
(* state it announced unless the row is newer, a stream still open has     *)
(* missed nothing, and no buffer outgrows its bound.                       *)
(***************************************************************************)
EXTENDS Ed2kPoller, TLAPS

\* The count that the loop reads is the hub's.
CountIsTrue == watched = (Subscribers # {})

\* What was begun since the last departure; an exchange is about to begin
\* only when none has begun, whatever happens to the browsers meanwhile.
OneAtMost ==
    /\ unseen \in {0, 1}
    /\ Subscribers # {} => unseen = 0
    /\ pc \in {"dial", "collect"} => unseen = 0
    /\ after \notin {"dial", "collect"}

Quiet == CountIsTrue /\ OneAtMost

-----------------------------------------------------------------------------
\* The callback, made by every action that goes through the hub, keeps the
\* count true.
LEMMA CallbackCounts ==
    ASSUME CountIsTrue, SubscribersChanged
    PROVE  CountIsTrue'
<1>1. CASE Subscribers' = Subscribers
  BY <1>1 DEF CountIsTrue, SubscribersChanged, Notified
<1>2. CASE Subscribers' # Subscribers
  BY <1>2 DEF CountIsTrue, SubscribersChanged, Notified
<1> QED
  BY <1>1, <1>2

\* Where the hub is left alone, so is the set of its subscribers.
LEMMA HubUntouched ==
    ASSUME UNCHANGED hubVars
    PROVE  Subscribers' = Subscribers
BY DEF hubVars, Subscribers

\* An event may end streams and starts none.
LEMMA PublishStartsNone ==
    ASSUME NEW event, Publish(event)
    PROVE  Subscribers' \subseteq Subscribers
BY DEF Publish, Subscribers

\* An announcement counts for nothing: the loop has left an exchange behind,
\* and goes to where no exchange begins.
LEMMA SetStateQuiet ==
    ASSUME Quiet, NEW s, NEW next, SetState(s, next), next \notin {"dial", "collect"}
    PROVE  Quiet'
<1>1. CountIsTrue'
  BY CallbackCounts DEF SetState, Quiet
<1>2. unseen' \in {0, 1} /\ (Subscribers' # {} => unseen' = 0)
  BY DEF SetState, SeenAgain, Quiet, OneAtMost
<1>3. pc' \notin {"dial", "collect"} /\ after' \notin {"dial", "collect"}
  BY DEF SetState, Quiet, OneAtMost
<1> QED
  BY <1>1, <1>2, <1>3 DEF Quiet, OneAtMost

\* A step that leaves the hub and the counts alone, and goes to where no
\* exchange begins, or where one may because somebody watches.
LEMMA StillQuiet ==
    ASSUME Quiet, Subscribers' = Subscribers, watched' = watched, unseen' = unseen,
           after' \notin {"dial", "collect"},
           pc' \in {"dial", "collect"} => pc' = pc \/ watched
    PROVE  Quiet'
BY DEF Quiet, CountIsTrue, OneAtMost

\* Lemma: nothing is exchanged at first.
LEMMA InitQuiet == Init => Quiet
BY DEF Init, HubInit, Quiet, CountIsTrue, OneAtMost, Subscribers

\* Each action of the loop keeps it quiet.
LEMMA LoopQuiet ==
    ASSUME Quiet, Loop
    PROVE  Quiet'
<1>1. CASE Watch
  BY <1>1, HubUntouched, StillQuiet DEF Watch, Goto, Still, Quiet, OneAtMost
<1>2. CASE WakeUp
  BY <1>2, HubUntouched, StillQuiet DEF WakeUp, Goto, Quiet, OneAtMost
<1>3. CASE Dial
  <2>1. unseen = 0 /\ after' \notin {"dial", "collect"}
    BY <1>3 DEF Dial, Quiet, OneAtMost
  <2>2. Subscribers' = Subscribers /\ watched' = watched
    BY <1>3, HubUntouched DEF Dial, Still
  <2>3. unseen' \in {0, 1} /\ (Subscribers # {} => unseen' = 0)
    BY <1>3, <2>1 DEF Dial, Exchange
  <2>4. pc' \notin {"dial", "collect"}
    BY <1>3 DEF Dial
  <2> QED
    BY <2>1, <2>2, <2>3, <2>4 DEF Quiet, CountIsTrue, OneAtMost
<1>4. CASE Connected
  BY <1>4, SetStateQuiet DEF Connected
<1>5. CASE Lost
  BY <1>5, SetStateQuiet DEF Lost
<1>6. CASE Suspend
  BY <1>6, SetStateQuiet DEF Suspend
<1>7. CASE StopSaid
  BY <1>7, SetStateQuiet DEF StopSaid
<1>8. CASE Persist
  BY <1>8, HubUntouched, StillQuiet DEF Persist, Goto, Still, Quiet, OneAtMost
<1>9. CASE Expose
  BY <1>9, HubUntouched, StillQuiet DEF Expose, Still, Quiet, OneAtMost
<1>10. CASE Check
  BY <1>10, HubUntouched, StillQuiet DEF Check, Goto, Leaving, Still, Quiet, OneAtMost
<1>11. CASE Collect
  <2>1. unseen = 0 /\ after' \notin {"dial", "collect"}
    BY <1>11 DEF Collect, Quiet, OneAtMost
  <2>2. Subscribers' \subseteq Subscribers
    BY <1>11, HubUntouched, PublishStartsNone DEF Collect
  <2>3. CountIsTrue'
    BY <1>11, CallbackCounts DEF Collect, Quiet
  <2>4. unseen' \in {0, 1} /\ (Subscribers # {} => unseen' = 0)
    BY <1>11, <2>1 DEF Collect, Exchange
  <2>5. pc' \notin {"dial", "collect"}
    BY <1>11 DEF Collect
  <2> QED
    BY <2>1, <2>2, <2>3, <2>4, <2>5 DEF Quiet, OneAtMost
<1>12. CASE CollectFails
  <2>1. unseen = 0
    BY <1>12 DEF CollectFails, Quiet, OneAtMost
  <2>2. Subscribers' = Subscribers /\ watched' = watched
    BY <1>12, HubUntouched DEF CollectFails, Still
  <2>3. unseen' \in {0, 1} /\ (Subscribers # {} => unseen' = 0)
    BY <1>12, <2>1 DEF CollectFails, Exchange
  <2>4. pc' \notin {"dial", "collect"} /\ after' \notin {"dial", "collect"}
    BY <1>12 DEF CollectFails, Leaving
  <2> QED
    BY <2>2, <2>3, <2>4 DEF Quiet, CountIsTrue, OneAtMost
<1>13. CASE Pause
  BY <1>13, HubUntouched, StillQuiet DEF Pause, Goto, Leaving, Quiet, OneAtMost
<1>14. CASE Close
  BY <1>14, HubUntouched, StillQuiet DEF Close, Still, Quiet, OneAtMost
<1>15. CASE Backoff
  BY <1>15, HubUntouched, StillQuiet DEF Backoff, Goto, Quiet, OneAtMost
<1> QED
  BY <1>1, <1>2, <1>3, <1>4, <1>5, <1>6, <1>7, <1>8, <1>9, <1>10, <1>11, <1>12,
     <1>13, <1>14, <1>15 DEF Loop

\* So do the browsers, the commands, the daemon and the end of the process.
LEMMA NextQuiet == Quiet /\ [Next]_vars => Quiet'
<1> SUFFICES ASSUME Quiet, [Next]_vars PROVE Quiet'
  OBVIOUS
<1>1. CASE Loop
  BY <1>1, LoopQuiet
<1>2. ASSUME NEW b \in Browsers, Browse(b)
      PROVE  Quiet'
  <2>1. CountIsTrue'
    BY <1>2, CallbackCounts DEF Browse, Quiet
  <2>2. unseen' \in {0, 1} /\ (Subscribers' # {} => unseen' = 0)
    BY <1>2 DEF Browse, SeenAgain, Quiet, OneAtMost
  <2>3. pc' = pc /\ after' = after
    BY <1>2 DEF Browse, loopVars
  <2>4. unseen = 0 => unseen' = 0
    BY <1>2 DEF Browse, SeenAgain
  <2> QED
    BY <2>1, <2>2, <2>3, <2>4 DEF Quiet, OneAtMost
<1>3. CASE Nudge \/ SetDaemon \/ ForgetDaemon \/ DaemonTurns \/ Stop
  <2>1. UNCHANGED <<hubVars, loopVars, watched, unseen>>
    BY <1>3 DEF Nudge, SetDaemon, ForgetDaemon, Request, Still, DaemonTurns, Stop
  <2>2. Subscribers' = Subscribers
    BY <2>1, HubUntouched
  <2> QED
    BY <2>1, <2>2, StillQuiet DEF loopVars, Quiet, OneAtMost
<1>6. CASE PublishStatus
  <2>1. CountIsTrue'
    BY <1>6, CallbackCounts DEF PublishStatus, Quiet
  <2>2. unseen' \in {0, 1} /\ (Subscribers' # {} => unseen' = 0) /\ (unseen = 0 => unseen' = 0)
    BY <1>6 DEF PublishStatus, SeenAgain, Quiet, OneAtMost
  <2>3. pc' = pc /\ after' = after
    BY <1>6 DEF PublishStatus, loopVars
  <2> QED
    BY <2>1, <2>2, <2>3 DEF Quiet, OneAtMost
<1>4. CASE Restart
  <2>1. Subscribers' = {}
    BY <1>4 DEF Restart, CutAll, Subscribers
  <2> QED
    BY <1>4, <2>1 DEF Restart, Quiet, CountIsTrue, OneAtMost
<1>5. CASE UNCHANGED vars
  <2>1. Subscribers' = Subscribers
    BY <1>5, HubUntouched DEF vars
  <2> QED
    BY <1>5, <2>1, StillQuiet DEF vars, loopVars, Quiet, OneAtMost
<1> QED
  BY <1>1, <1>2, <1>3, <1>4, <1>5, <1>6 DEF Next

\* poller.go: an instance nobody watches produces no traffic, save the
\* exchange that was about to begin.
THEOREM QuietTheorem == Spec => []QuietWhenUnwatched
<1>1. Quiet => QuietWhenUnwatched
  BY DEF Quiet, OneAtMost, QuietWhenUnwatched
<1> QED
  BY <1>1, InitQuiet, NextQuiet, PTL DEF Spec

-----------------------------------------------------------------------------
(***************************************************************************)
(* Where the loop may be when a session is open, when it is exposed and    *)
(* when the last state announced is "connected"; and where it goes once a  *)
(* state is persisted or a session closed.                                 *)
(***************************************************************************)
InSession ==
    \/ pc \in {"expose", "check", "collect", "pause", "close"}
    \/ pc = "persist" /\ after = "expose"

Control ==
    /\ opened => pc = "connected" \/ InSession
    /\ session => pc \in {"check", "collect", "pause", "close"}
    /\ state = "connected" => pc \in {"lost", "suspend", "stop"} \/ InSession
    /\ pc = "close" => after \in {"lost", "suspend"}
    /\ pc = "persist" => after \in {"expose", "backoff", "watch", "done"}

\* Between two announcements, what the row stores is the last one, if there is
\* a row and it was there when the announcement was persisted.
Saved == state # Unknown /\ pc # "persist" /\ ~missed
            => stored = IF declared /\ ~fresh THEN state ELSE Unknown

Settled == Control /\ Saved

\* Lemma: what is stored at first is no session.
LEMMA UnknownIsNoState == Unknown # "connected"
BY HubAssumption, PollerAssumption

\* Lemma: nothing is announced at first.
LEMMA InitSettled == Init => Settled
BY UnknownIsNoState DEF Init, Settled, Control, Saved, InSession

\* An announcement made outside a session, and the one that opens it.
LEMMA SetStateSettled ==
    ASSUME Settled, NEW s \in {"connected", "disconnected"}, NEW next, SetState(s, next),
           pc \in {"connected", "lost", "suspend", "stop"},
           pc = "connected" => s = "connected" /\ next = "expose",
           pc # "connected" => s = "disconnected" /\ next \in {"backoff", "watch", "done"}
    PROVE  Settled'
<1>1. Saved'
  BY DEF SetState, Settled, Saved, rest, rowVars
<1>2. CASE pc = "connected"
  <2>1. /\ pc' = "expose" \/ (pc' = "persist" /\ after' = "expose")
        /\ ~session
    BY <1>2 DEF SetState, Settled, Control
  <2>2. session' = session
    BY DEF SetState
  <2>3. Control'
    BY <2>1, <2>2 DEF Control, InSession
  <2> QED
    BY <1>1, <2>3 DEF Settled
<1>3. CASE pc # "connected"
  <2>1. ~opened /\ ~session
    BY <1>3 DEF Settled, Control, InSession
  <2>2. opened' = opened /\ session' = session /\ state' = "disconnected"
    BY <1>3 DEF SetState
  <2>3. /\ pc' \in {"persist", "backoff", "watch", "done"}
        /\ pc' = "persist" => after' \in {"backoff", "watch", "done"}
    BY <1>3 DEF SetState
  <2>4. Control'
    BY <2>1, <2>2, <2>3 DEF Control, InSession
  <2> QED
    BY <1>1, <2>4 DEF Settled
<1> QED
  BY <1>2, <1>3

\* A step that announces and persists nothing.
LEMMA SavedUntouched ==
    ASSUME Saved, UNCHANGED <<state, stored, missed, declared, fresh>>,
           pc # "persist" \/ pc' = pc
    PROVE  Saved'
BY DEF Saved

\* Lemma: each action of the loop keeps both.
LEMMA LoopSettled ==
    ASSUME Settled, Loop
    PROVE  Settled'
<1>1. CASE Watch \/ WakeUp \/ Backoff
  <2>1. /\ pc' \in {"dial", "asleep", "watch", "done"}
        /\ UNCHANGED <<after, opened, session, state, stored, missed, declared, fresh>>
        /\ pc \in {"watch", "asleep", "backoff"}
    BY <1>1 DEF Watch, WakeUp, Backoff, Goto, rest, rowVars
  <2> QED
    BY <2>1, SavedUntouched DEF Settled, Control, InSession
<1>2. CASE Dial
  <2>1. /\ pc = "dial" /\ ~opened /\ ~session /\ state # "connected"
        /\ UNCHANGED <<session, state, stored, missed, declared, fresh>>
    BY <1>2 DEF Dial, Settled, Control, InSession, rest, rowVars
  <2>2. \/ pc' = "connected"
        \/ pc' \in {"lost", "done"} /\ opened' = opened
    BY <1>2 DEF Dial
  <2> QED
    BY <2>1, <2>2, SavedUntouched DEF Settled, Control, InSession
<1>3. CASE Connected
  BY <1>3, SetStateSettled DEF Connected
<1>4. CASE Lost
  BY <1>4, SetStateSettled DEF Lost
<1>5. CASE Suspend
  BY <1>5, SetStateSettled DEF Suspend
<1>6. CASE StopSaid
  BY <1>6, SetStateSettled DEF StopSaid
<1>7. CASE Persist
  <2>1. /\ pc = "persist" /\ pc' = after
        /\ UNCHANGED <<opened, session, state, declared>>
    BY <1>7 DEF Persist
  <2>2. \/ stored' = (IF declared THEN state ELSE Unknown) /\ fresh' = FALSE
        \/ missed' = TRUE
    BY <1>7 DEF Persist, WhereDeclared
  <2>3. Saved'
    BY <2>1, <2>2 DEF Saved
  <2>4. Control'
    BY <2>1 DEF Settled, Control, InSession
  <2> QED
    BY <2>3, <2>4 DEF Settled
<1>8. CASE Expose
  BY <1>8, SavedUntouched DEF Expose, Settled, Control, InSession, rest, rowVars
<1>9. CASE Check \/ CollectFails \/ Pause
  <2>1. /\ pc \in {"check", "collect", "pause"}
        /\ UNCHANGED <<opened, session, state, stored, missed, declared, fresh>>
        /\ \/ pc' \in {"check", "collect"}
           \/ pc' = "close" /\ after' \in {"lost", "suspend"}
    BY <1>9 DEF Check, CollectFails, Pause, Goto, Leaving, rest, rowVars
  <2> QED
    BY <2>1, SavedUntouched DEF Settled, Control, InSession
<1>10. CASE Collect
  BY <1>10, SavedUntouched DEF Collect, Settled, Control, InSession, rest, rowVars
<1>11. CASE Close
  <2>1. /\ pc = "close" /\ pc' \in {"stop", "lost", "suspend"}
        /\ opened' = FALSE /\ session' = FALSE
        /\ UNCHANGED <<state, stored, missed, declared, fresh>>
    BY <1>11 DEF Close, Settled, Control, rest, rowVars
  <2> QED
    BY <2>1, SavedUntouched DEF Settled, Control, InSession
<1> QED
  BY <1>1, <1>2, <1>3, <1>4, <1>5, <1>6, <1>7, <1>8, <1>9, <1>10, <1>11 DEF Loop

\* Lemma: every step keeps what is stored and what is announced together.
LEMMA NextSettled == Settled /\ [Next]_vars => Settled'
<1> SUFFICES ASSUME Settled, [Next]_vars PROVE Settled'
  OBVIOUS
<1>1. CASE Loop
  BY <1>1, LoopSettled
<1>2. CASE \/ \E b \in Browsers : Browse(b)
           \/ Nudge \/ PublishStatus \/ DaemonTurns \/ Stop
           \/ UNCHANGED vars
  <2>1. UNCHANGED <<pc, after, opened, session, state, stored, missed, declared, fresh>>
    BY <1>2 DEF Browse, Nudge, PublishStatus, DaemonTurns, Stop, vars, loopVars, rest, rowVars
  <2> QED
    BY <2>1, SavedUntouched DEF Settled, Control, InSession
<1>3. CASE Restart
  BY <1>3, UnknownIsNoState DEF Restart, Settled, Control, Saved, InSession
<1>4. CASE SetDaemon \/ ForgetDaemon
  <2>1. UNCHANGED <<pc, after, opened, session, state, missed>>
    BY <1>4 DEF SetDaemon, ForgetDaemon, Request, loopVars
  <2>2. Control'
    BY <2>1 DEF Settled, Control, InSession
  <2>3. CASE SetDaemon
    <3>1. declared' = TRUE /\ stored' = stored /\ fresh' = (fresh \/ ~declared)
      BY <2>3 DEF SetDaemon
    <3>2. declared' /\ ~fresh' <=> declared /\ ~fresh
      BY <3>1
    <3>3. Saved'
      BY <2>1, <3>1, <3>2 DEF Settled, Saved
    <3> QED
      BY <2>2, <3>3 DEF Settled
  <2>4. CASE ForgetDaemon
    <3>1. declared' = FALSE /\ stored' = Unknown
      BY <2>4 DEF ForgetDaemon
    <3>2. Saved'
      BY <3>1 DEF Saved
    <3> QED
      BY <2>2, <3>2 DEF Settled
  <2> QED
    BY <1>4, <2>3, <2>4
<1> QED
  BY <1>1, <1>2, <1>3, <1>4 DEF Next

\* session.go: what is stored explains, after a restart, what happened before,
\* if the row was there to store it; whatever the requests that declare the
\* daemon and forget it do meanwhile.  And a loop that was stopped leaves nothing open nor announced as open.
THEOREM StoredTheorem == Spec => []StoredFollows
<1>1. Settled => StoredFollows
  BY DEF Settled, Control, Saved, InSession, StoredFollows
<1> QED
  BY <1>1, InitSettled, NextSettled, PTL DEF Spec

-----------------------------------------------------------------------------
(***************************************************************************)
(* What a stream has carried, in a form that needs no choice: v is the     *)
(* last announcement of f, or h when f has none.                           *)
(***************************************************************************)
EndsWith(f, h, v) ==
    \/ v = h /\ \A i \in DOMAIN f : f[i] \notin States
    \/ \E i \in DOMAIN f : /\ v = f[i] /\ f[i] \in States
                          /\ \A j \in DOMAIN f : f[j] \in States => j <= i

StreamTypes ==
    /\ stream \in [Browsers -> Stream]
    /\ frames \in [Browsers -> Seq(Events)]
    /\ heard \in [Browsers -> States \cup {Unknown}]

\* A stream that is not registered yet has nothing waiting for it.
Unopened == \A b \in Browsers : stream[b] \in {"away", "retry", "greeted"} => frames[b] = <<>>

\* An open one ends with the present state, if it has carried any.
Carried == \A b \in Subscribers : \E v \in {Unknown, state} : EndsWith(frames[b], heard[b], v)

Current == StreamTypes /\ Unopened /\ Carried

\* The last announcement is the one that EndsWith describes.
LEMMA TheLastOne ==
    ASSUME NEW b \in Browsers, NEW v, frames[b] \in Seq(Events), EndsWith(frames[b], heard[b], v)
    PROVE  LastAnnounced(b) = v
<1> DEFINE f == frames[b]
           at == {i \in DOMAIN f : f[i] \in States}
           last == CHOOSE i \in at : \A j \in at : j <= i
<1>1. LastAnnounced(b) = IF at = {} THEN heard[b] ELSE f[last]
  BY DEF LastAnnounced
<1>2. CASE at = {}
  BY <1>1, <1>2 DEF EndsWith
<1>3. CASE at # {}
  <2>1. PICK i \in at : v = f[i] /\ \A j \in at : j <= i
    BY <1>3 DEF EndsWith
  <2>2. last \in at /\ \A j \in at : j <= last
    BY <2>1
  <2>3. at \subseteq Nat
    OBVIOUS
  <2>4. last = i
    BY <2>1, <2>2, <2>3
  <2> QED
    BY <1>1, <1>3, <2>1, <2>4
<1> QED
  BY <1>2, <1>3

\* An event is added at the end.
LEMMA Appended ==
    ASSUME NEW f \in Seq(Events), NEW h, NEW v, NEW event \in Events, EndsWith(f, h, v)
    PROVE  EndsWith(Append(f, event), h, IF event \in States THEN event ELSE v)
<1> DEFINE g == Append(f, event)
<1>1. /\ Len(f) \in Nat /\ DOMAIN f = 1..Len(f)
      /\ DOMAIN g = 1..Len(f) + 1 /\ g[Len(f) + 1] = event
      /\ \A i \in 1..Len(f) : g[i] = f[i]
  OBVIOUS
<1> HIDE DEF g
<1>2. CASE event \in States
  <2>1. Len(f) + 1 \in DOMAIN g /\ \A j \in DOMAIN g : j <= Len(f) + 1
    BY <1>1
  <2> QED
    BY <1>1, <1>2, <2>1 DEF EndsWith
<1>3. CASE event \notin States
  <2>1. CASE v = h /\ \A i \in DOMAIN f : f[i] \notin States
    <3>1. \A i \in DOMAIN g : g[i] \notin States
      BY <1>1, <1>3, <2>1
    <3> QED
      BY <1>3, <2>1, <3>1 DEF EndsWith
  <2>2. ASSUME NEW i \in DOMAIN f, v = f[i], f[i] \in States,
               \A j \in DOMAIN f : f[j] \in States => j <= i
        PROVE  EndsWith(g, h, v)
    <3>1. i \in DOMAIN g /\ g[i] = v
      BY <1>1, <2>2
    <3>2. ASSUME NEW j \in DOMAIN g, g[j] \in States PROVE j <= i
      BY <1>1, <1>3, <2>2, <3>2
    <3> QED
      BY <2>2, <3>1, <3>2 DEF EndsWith
  <2> QED
    BY <1>3, <2>1, <2>2 DEF EndsWith
<1> QED
  BY <1>2, <1>3 DEF g

\* A frame is read: an announcement is heard.
LEMMA Read ==
    ASSUME NEW f \in Seq(Events), f # <<>>, NEW h, NEW v, EndsWith(f, h, v)
    PROVE  EndsWith(Tail(f), IF Head(f) \in States THEN Head(f) ELSE h, v)
<1> DEFINE g == Tail(f)
           k == IF Head(f) \in States THEN Head(f) ELSE h
<1>1. /\ Len(f) \in Nat \ {0} /\ DOMAIN f = 1..Len(f)
      /\ DOMAIN g = 1..Len(f) - 1 /\ Head(f) = f[1]
      /\ \A i \in 1..Len(f) - 1 : g[i] = f[i + 1]
  OBVIOUS
<1> HIDE DEF g
<1>2. CASE v = h /\ \A i \in DOMAIN f : f[i] \notin States
  <2>1. k = h
    BY <1>1, <1>2
  <2>2. \A i \in DOMAIN g : g[i] \notin States
    BY <1>1, <1>2
  <2> QED
    BY <1>2, <2>1, <2>2 DEF EndsWith
<1>3. ASSUME NEW i \in DOMAIN f, v = f[i], f[i] \in States,
             \A j \in DOMAIN f : f[j] \in States => j <= i
      PROVE  EndsWith(g, k, v)
  <2>1. CASE i = 1
    <3>1. k = v
      BY <1>1, <1>3, <2>1
    <3>2. \A j \in DOMAIN g : g[j] \notin States
      BY <1>1, <1>3, <2>1
    <3> QED
      BY <3>1, <3>2 DEF EndsWith
  <2>2. CASE i # 1
    <3>1. i - 1 \in DOMAIN g /\ g[i - 1] = v
      BY <1>1, <1>3, <2>2
    <3>2. ASSUME NEW j \in DOMAIN g, g[j] \in States PROVE j <= i - 1
      BY <1>1, <1>3, <3>2
    <3> QED
      BY <1>3, <3>1, <3>2 DEF EndsWith
  <2> QED
    BY <2>1, <2>2
<1> QED
  BY <1>2, <1>3 DEF EndsWith, g

\* A step that leaves the streams and the state alone.
LEMMA StreamsUntouched ==
    ASSUME Current, UNCHANGED <<hubVars, state>>
    PROVE  Current'
BY DEF Current, StreamTypes, Unopened, Carried, Subscribers, hubVars

\* An event: whoever is too late for it is no subscriber any more.
LEMMA PublishKeeps ==
    ASSUME Current, NEW event \in Events, Publish(event),
           state' = IF event \in States THEN event ELSE state
    PROVE  Current'
<1>1. StreamTypes'
  <2>1. \A b \in Browsers : Append(frames[b], event) \in Seq(Events)
    BY DEF Current, StreamTypes
  <2> QED
    BY <2>1 DEF Current, StreamTypes, Publish, Stream
<1>2. Unopened'
  BY DEF Current, StreamTypes, Unopened, Publish, Subscribers
<1>3. ASSUME NEW b \in Subscribers'
      PROVE  \E v \in {Unknown, state'} : EndsWith(frames'[b], heard'[b], v)
  <2>1. b \in Browsers /\ b \in Subscribers /\ ~Late(b) /\ heard'[b] = heard[b]
    BY <1>3 DEF Publish, Subscribers
  <2>2. Takes(b)
    BY <2>1, HubAssumption DEF Late, Takes, Current, StreamTypes
  <2>3. frames'[b] = Append(frames[b], event) /\ frames[b] \in Seq(Events)
    BY <2>1, <2>2 DEF Publish, Current, StreamTypes
  <2>4. PICK v \in {Unknown, state} : EndsWith(frames[b], heard[b], v)
    BY <2>1 DEF Current, Carried
  <2>5. EndsWith(frames'[b], heard'[b], IF event \in States THEN event ELSE v)
    BY <2>1, <2>3, <2>4, Appended
  <2> QED
    BY <2>4, <2>5
<1> QED
  BY <1>1, <1>2, <1>3 DEF Current, Carried

\* A step of one browser.
LEMMA BrowseKeeps ==
    ASSUME Current, NEW b \in Browsers, Browse(b)
    PROVE  Current'
<1>1. state' = state
  BY DEF Browse, loopVars
<1>2. CASE Open(b) \/ Greet(b) \/ Reconnect(b)
  <2>1. /\ stream' \in [Browsers -> Stream] /\ UNCHANGED <<frames, heard>>
        /\ stream'[b] \in {"retry", "greeted"} /\ frames[b] = <<>>
        /\ \A other \in Browsers : other # b => stream'[other] = stream[other]
    BY <1>2 DEF Current, StreamTypes, Unopened, Open, Greet, Reconnect, Stream
  <2> QED
    BY <1>1, <2>1 DEF Current, StreamTypes, Unopened, Carried, Subscribers
<1>3. CASE Subscribe(b)
  <2>1. /\ stream' = [stream EXCEPT ![b] = "open"] /\ heard' = [heard EXCEPT ![b] = Unknown]
        /\ frames' = frames /\ frames[b] = <<>>
    BY <1>3 DEF Subscribe, Current, Unopened
  <2>2. StreamTypes' /\ Unopened'
    BY <2>1 DEF Current, StreamTypes, Unopened, Stream
  <2>3. EndsWith(frames'[b], heard'[b], Unknown)
    BY <2>1 DEF EndsWith, Current, StreamTypes
  <2>4. ASSUME NEW other \in Subscribers', other # b
        PROVE  other \in Subscribers /\ frames'[other] = frames[other] /\ heard'[other] = heard[other]
    BY <2>1, <2>4 DEF Subscribers, Current, StreamTypes
  <2> QED
    BY <1>1, <2>2, <2>3, <2>4 DEF Current, Carried
<1>4. CASE Deliver(b)
  <2>1. /\ stream' = stream /\ stream[b] \in {"open", "dropped"} /\ frames[b] # <<>>
        /\ frames' = [frames EXCEPT ![b] = Tail(frames[b])]
        /\ heard' = [heard EXCEPT ![b] = IF Head(frames[b]) \in States THEN Head(frames[b]) ELSE heard[b]]
    BY <1>4 DEF Deliver, Current, StreamTypes
  <2>2. frames[b] \in Seq(Events) /\ Tail(frames[b]) \in Seq(Events)
    BY <2>1 DEF Current, StreamTypes
  <2>3. StreamTypes'
    BY <2>1, <2>2 DEF Current, StreamTypes
  <2>4. Unopened'
    BY <2>1 DEF Current, StreamTypes, Unopened
  <2>5. ASSUME b \in Subscribers
        PROVE  \E v \in {Unknown, state} : EndsWith(frames'[b], heard'[b], v)
    <3>1. PICK v \in {Unknown, state} : EndsWith(frames[b], heard[b], v)
      BY <2>5 DEF Current, Carried
    <3> QED
      BY <2>1, <2>2, <3>1, Read DEF Current, StreamTypes
  <2>6. ASSUME NEW other \in Subscribers, other # b
        PROVE  frames'[other] = frames[other] /\ heard'[other] = heard[other]
    BY <2>1, <2>6 DEF Subscribers, Current, StreamTypes
  <2>7. Subscribers' = Subscribers
    BY <2>1 DEF Subscribers
  <2> QED
    BY <1>1, <2>3, <2>4, <2>5, <2>6, <2>7 DEF Current, Carried
<1>5. CASE Leave(b)
  <2>1. /\ stream' = [stream EXCEPT ![b] = "away"] /\ frames' = [frames EXCEPT ![b] = <<>>]
        /\ heard' = heard
    BY <1>5 DEF Leave
  <2>2. StreamTypes'
    BY <2>1 DEF Current, StreamTypes, Stream
  <2> QED
    BY <1>1, <2>1, <2>2 DEF Current, StreamTypes, Unopened, Carried, Subscribers
<1> QED
  BY <1>2, <1>3, <1>4, <1>5 DEF Browse

\* Lemma: every stream is away at first.
LEMMA InitCurrent == Init => Current
BY DEF Init, HubInit, Current, StreamTypes, Unopened, Carried, Subscribers, Stream

\* The state changes as it is announced, and not otherwise while the process
\* runs; its end takes every stream with it.
LEMMA NextCurrent == Current /\ [Next]_vars => Current'
<1> SUFFICES ASSUME Current, [Next]_vars PROVE Current'
  OBVIOUS
<1>1. ASSUME NEW s \in States, NEW next, SetState(s, next)
      PROVE  Current'
  <2>1. CASE state # s
    BY <1>1, <2>1, PublishKeeps, PollerAssumption DEF SetState
  <2>2. CASE state = s
    BY <1>1, <2>2, StreamsUntouched DEF SetState
  <2> QED
    BY <2>1, <2>2
<1>2. CASE Connected \/ Lost \/ Suspend \/ StopSaid
  BY <1>1, <1>2, PollerAssumption DEF Connected, Lost, Suspend, StopSaid
<1>3. CASE Collect
  <2>1. state' = state /\ (Publish(Change) \/ UNCHANGED hubVars)
    BY <1>3 DEF Collect
  <2> QED
    BY <2>1, PublishKeeps, StreamsUntouched, PollerAssumption
<1>4. CASE Watch \/ WakeUp \/ Dial \/ Persist \/ Expose \/ Check \/ CollectFails \/ Pause \/ Close \/ Backoff
  <2>1. UNCHANGED <<hubVars, state>>
    BY <1>4 DEF Watch, WakeUp, Dial, Persist, Expose, Check, CollectFails, Pause, Close, Backoff,
                Goto, Leaving, Still
  <2> QED
    BY <2>1, StreamsUntouched
<1>5. CASE \/ Nudge \/ SetDaemon \/ ForgetDaemon \/ DaemonTurns \/ Stop
           \/ UNCHANGED vars
  <2>1. UNCHANGED <<hubVars, state>>
    BY <1>5 DEF Nudge, SetDaemon, ForgetDaemon, Request, Still, DaemonTurns, Stop,
                loopVars, vars
  <2> QED
    BY <2>1, StreamsUntouched
<1>6. CASE Restart
  <2>1. stream' = [b \in Browsers |-> IF stream[b] = "away" THEN "away" ELSE "retry"]
        /\ frames' = [b \in Browsers |-> <<>>] /\ heard' = heard
    BY <1>6 DEF Restart, CutAll
  <2> QED
    BY <2>1 DEF Current, StreamTypes, Stream, Unopened, Carried, Subscribers
<1>7. CASE \E b \in Browsers : Browse(b)
  BY <1>7, BrowseKeeps
<1>8. CASE PublishStatus
  <2>1. state' = state /\ Publish(Change)
    BY <1>8 DEF PublishStatus, loopVars
  <2> QED
    BY <2>1, PublishKeeps, PollerAssumption
<1> QED
  BY <1>2, <1>3, <1>4, <1>5, <1>6, <1>7, <1>8 DEF Next, Loop

\* sse.go: a subscriber is disconnected rather than made to miss events.
THEOREM CurrentTheorem == Spec => []OpenStreamIsCurrent
<1>1. Current => OpenStreamIsCurrent
  <2> SUFFICES ASSUME Current, NEW b \in Subscribers
               PROVE  LastAnnounced(b) \in {Unknown, state}
    BY DEF OpenStreamIsCurrent
  <2>1. PICK v \in {Unknown, state} : EndsWith(frames[b], heard[b], v)
    BY DEF Current, Carried
  <2>2. b \in Browsers /\ frames[b] \in Seq(Events)
    BY DEF Subscribers, Current, StreamTypes
  <2> QED
    BY <2>1, <2>2, TheLastOne
<1> QED
  BY <1>1, InitCurrent, NextCurrent, PTL DEF Spec

-----------------------------------------------------------------------------
\* An event leaves no buffer longer than the hub allows.
LEMMA PublishTyped ==
    ASSUME HubTypeOK, NEW event \in Events, Publish(event)
    PROVE  HubTypeOK'
<1>1. stream' \in [Browsers -> Stream]
  BY DEF HubTypeOK, Publish, Stream
<1>2. ASSUME NEW b \in Browsers
      PROVE  frames'[b] \in Seq(Events) /\ Len(frames'[b]) <= Buffer
  <2>1. frames[b] \in Seq(Events) /\ Len(frames[b]) \in Nat /\ Len(frames[b]) <= Buffer
    BY DEF HubTypeOK
  <2>2. /\ Append(frames[b], event) \in Seq(Events)
        /\ Len(Append(frames[b], event)) = Len(frames[b]) + 1
    BY <2>1
  <2>3. frames'[b] = IF b \in Subscribers /\ Len(frames[b]) < Buffer
                     THEN Append(frames[b], event) ELSE frames[b]
    BY DEF Publish, Takes
  <2> QED
    BY <2>1, <2>2, <2>3, HubAssumption
<1>3. frames' \in [Browsers -> Seq(Events)]
  <2>1. DOMAIN frames' = Browsers /\ frames' = [b \in Browsers |-> frames'[b]]
    BY DEF Publish
  <2> QED
    BY <1>2, <2>1
<1> QED
  BY <1>1, <1>2, <1>3 DEF HubTypeOK, Publish

\* So does a step of one browser.
LEMMA BrowserTyped ==
    ASSUME HubTypeOK, NEW b \in Browsers,
           \/ Open(b) \/ Greet(b) \/ Subscribe(b) \/ Deliver(b)
           \/ Reconnect(b) \/ Leave(b)
    PROVE  HubTypeOK'
<1>1. CASE Open(b) \/ Subscribe(b) \/ Reconnect(b)
  BY <1>1 DEF HubTypeOK, Open, Subscribe, Reconnect, Stream
<1>2. CASE Greet(b)
  BY <1>2 DEF HubTypeOK, Greet, Stream
<1>3. CASE Deliver(b)
  <2>1. /\ frames[b] \in Seq(Events) /\ frames[b] # <<>>
        /\ Len(frames[b]) \in Nat /\ Len(frames[b]) <= Buffer
    BY <1>3 DEF HubTypeOK, Deliver
  <2>2. /\ Tail(frames[b]) \in Seq(Events) /\ Len(Tail(frames[b])) = Len(frames[b]) - 1
        /\ Head(frames[b]) \in Events
    BY <2>1
  <2>3. Len(Tail(frames[b])) <= Buffer
    BY <2>1, <2>2, HubAssumption
  <2> QED
    BY <1>3, <2>2, <2>3 DEF HubTypeOK, Deliver
<1>4. CASE Leave(b)
  <2>1. <<>> \in Seq(Events) /\ Len(<<>>) <= Buffer
    BY HubAssumption
  <2> QED
    BY <1>4, <2>1 DEF HubTypeOK, Leave, Stream
<1> QED
  BY <1>1, <1>2, <1>3, <1>4

\* The hub left alone.
LEMMA HubStillTyped ==
    ASSUME HubTypeOK, UNCHANGED hubVars
    PROVE  HubTypeOK'
BY DEF HubTypeOK, hubVars

\* The row, left alone or changed by its own requests.
RowTypes ==
    /\ declared \in BOOLEAN /\ fresh \in BOOLEAN
    /\ stored \in States \cup {Unknown}
    /\ ~declared => stored = Unknown
    /\ changes \in 0..MaxChanges /\ due \in 0..changes

\* What an action of the loop leaves of the state it announced.
LEMMA SetStateTyped ==
    ASSUME TypeOK, NEW s \in States, NEW next \in Pc, SetState(s, next)
    PROVE  TypeOK'
<1>1. HubTypeOK'
  BY PublishTyped, HubStillTyped, PollerAssumption DEF SetState, TypeOK
<1>2. /\ pc' \in Pc /\ after' \in Pc /\ state' \in States \cup {Unknown}
      /\ restarts' \in 0..MaxRestarts /\ unseen' \in Nat
      /\ {opened', session', first', daemon', stopping', missed'} \subseteq BOOLEAN
  BY DEF SetState, TypeOK, Pc, SeenAgain, rest
<1>3. watched' \in BOOLEAN /\ wake' \in BOOLEAN
  BY DEF SetState, TypeOK, SubscribersChanged
<1>4. RowTypes'
  BY DEF SetState, TypeOK, RowTypes, rest, rowVars
<1> QED
  BY <1>1, <1>2, <1>3, <1>4 DEF TypeOK, RowTypes

\* Lemma: each action of the loop.
LEMMA LoopTyped ==
    ASSUME TypeOK, Loop
    PROVE  TypeOK'
<1> USE DEF Pc
<1>1. CASE Connected \/ Lost \/ Suspend \/ StopSaid
  BY <1>1, SetStateTyped, PollerAssumption DEF Connected, Lost, Suspend, StopSaid
<1>2. CASE Collect
  <2>1. HubTypeOK'
    BY <1>2, PublishTyped, HubStillTyped, PollerAssumption DEF Collect, TypeOK
  <2>2. watched' \in BOOLEAN /\ wake' \in BOOLEAN
    BY <1>2 DEF Collect, TypeOK, SubscribersChanged
  <2>3. unseen' \in Nat
    BY <1>2 DEF Collect, TypeOK, Exchange
  <2>4. /\ pc' \in Pc /\ UNCHANGED <<after, opened, session, state, rest>>
        /\ first' = FALSE
    BY <1>2 DEF Collect
  <2> QED
    BY <2>1, <2>2, <2>3, <2>4 DEF TypeOK, rest, rowVars
<1>3. CASE Watch
  BY <1>3, HubStillTyped DEF Watch, Goto, Still, rest, rowVars, TypeOK
<1>4. CASE WakeUp
  BY <1>4, HubStillTyped DEF WakeUp, Goto, rest, rowVars, TypeOK
<1>5. CASE Dial
  <2>1. HubTypeOK'
    BY <1>5, HubStillTyped DEF Dial, Still, TypeOK
  <2>2. unseen' \in Nat
    BY <1>5 DEF Dial, TypeOK, Exchange
  <2>3. /\ pc' \in Pc /\ opened' \in BOOLEAN
        /\ UNCHANGED <<after, session, first, state, watched, wake, rest>>
    BY <1>5 DEF Dial, Still, TypeOK
  <2> QED
    BY <2>1, <2>2, <2>3 DEF TypeOK, rest, rowVars
<1>6. CASE Persist
  BY <1>6, HubStillTyped DEF Persist, WhereDeclared, Still, TypeOK
<1>7. CASE Expose
  BY <1>7, HubStillTyped DEF Expose, Still, rest, rowVars, TypeOK
<1>8. CASE Check
  BY <1>8, HubStillTyped DEF Check, Goto, Leaving, Still, rest, rowVars, TypeOK
<1>9. CASE CollectFails
  BY <1>9, HubStillTyped DEF CollectFails, Leaving, Exchange, Still, rest, rowVars, TypeOK
<1>10. CASE Pause
  BY <1>10, HubStillTyped DEF Pause, Goto, Leaving, rest, rowVars, TypeOK
<1>11. CASE Close
  BY <1>11, HubStillTyped DEF Close, Still, rest, rowVars, TypeOK
<1>12. CASE Backoff
  BY <1>12, HubStillTyped DEF Backoff, Goto, rest, rowVars, TypeOK
<1> QED
  BY <1>1, <1>2, <1>3, <1>4, <1>5, <1>6, <1>7, <1>8, <1>9, <1>10, <1>11, <1>12 DEF Loop

\* Every variable keeps to its type: no buffer outgrows the hub's, nothing is
\* stored where no daemon is declared, no request publishes twice, and the loop
\* is always at one of its steps.
THEOREM TypeTheorem == Spec => []TypeOK
<1>1. Init => TypeOK
  <2> SUFFICES ASSUME Init PROVE TypeOK
    OBVIOUS
  <2>1. <<>> \in Seq(Events) /\ Len(<<>>) <= Buffer
    BY HubAssumption
  <2>2. HubTypeOK
    BY <2>1 DEF Init, HubInit, HubTypeOK, Stream
  <2>3. /\ pc \in Pc /\ after \in Pc /\ restarts \in 0..MaxRestarts /\ unseen \in Nat
        /\ state = Unknown
    BY PollerAssumption DEF Init, Pc
  <2>5. RowTypes
    <3>1. changes \in 0..MaxChanges /\ due \in 0..changes
      BY PollerAssumption DEF Init
    <3> QED
      BY <3>1 DEF Init, RowTypes
  <2>4. {watched, wake, opened, session, first, daemon, stopping, missed} \subseteq BOOLEAN
    BY DEF Init
  <2> QED
    BY <2>2, <2>3, <2>4, <2>5 DEF TypeOK, RowTypes
<1>2. TypeOK /\ [Next]_vars => TypeOK'
  <2> SUFFICES ASSUME TypeOK, [Next]_vars PROVE TypeOK'
    OBVIOUS
  <2>1. CASE Loop
    BY <2>1, LoopTyped
  <2>2. ASSUME NEW b \in Browsers, Browse(b) PROVE TypeOK'
    <3>1. HubTypeOK'
      BY <2>2, BrowserTyped DEF Browse, TypeOK
    <3>2. watched' \in BOOLEAN /\ wake' \in BOOLEAN
      BY <2>2 DEF Browse, TypeOK, SubscribersChanged
    <3> QED
      BY <2>2, <3>1, <3>2 DEF Browse, TypeOK, SeenAgain, loopVars, rest, rowVars
  <2>3. CASE Nudge
    BY <2>3, HubStillTyped DEF Nudge, TypeOK, loopVars, rest, rowVars
  <2>4. CASE DaemonTurns
    BY <2>4, HubStillTyped DEF DaemonTurns, TypeOK, loopVars, rowVars
  <2>5. CASE Stop
    BY <2>5, HubStillTyped DEF Stop, TypeOK, loopVars, rowVars
  <2>8. CASE SetDaemon \/ ForgetDaemon
    <3>1. HubTypeOK'
      BY <2>8, HubStillTyped DEF SetDaemon, ForgetDaemon, Request, Still, TypeOK
    <3>2. RowTypes'
      <4>1. changes' \in 0..MaxChanges /\ due' \in 0..changes'
        BY <2>8, PollerAssumption DEF SetDaemon, ForgetDaemon, Request, TypeOK
      <4>2. declared' \in BOOLEAN /\ fresh' \in BOOLEAN
        BY <2>8 DEF SetDaemon, ForgetDaemon
      <4>3. stored' \in States \cup {Unknown} /\ (~declared' => stored' = Unknown)
        BY <2>8 DEF SetDaemon, ForgetDaemon, TypeOK
      <4> QED
        BY <4>1, <4>2, <4>3 DEF RowTypes
    <3>3. UNCHANGED <<loopVars, watched, wake, unseen, daemon, stopping, restarts, missed>>
      BY <2>8 DEF SetDaemon, ForgetDaemon, Request, Still
    <3> QED
      BY <3>1, <3>2, <3>3 DEF TypeOK, RowTypes, loopVars
  <2>9. CASE PublishStatus
    <3>1. HubTypeOK'
      BY <2>9, PublishTyped, PollerAssumption DEF PublishStatus, TypeOK
    <3>2. watched' \in BOOLEAN /\ wake' \in BOOLEAN /\ unseen' \in Nat
      BY <2>9 DEF PublishStatus, TypeOK, SubscribersChanged, SeenAgain
    <3>3. RowTypes'
      BY <2>9 DEF PublishStatus, RowTypes, TypeOK
    <3>4. UNCHANGED <<loopVars, daemon, stopping, restarts, missed>>
      BY <2>9 DEF PublishStatus
    <3> QED
      BY <3>1, <3>2, <3>3, <3>4 DEF TypeOK, RowTypes, loopVars
  <2>6. CASE Restart
    <3>1. HubTypeOK'
      <4>1. <<>> \in Seq(Events) /\ Len(<<>>) <= Buffer
        BY HubAssumption
      <4> QED
        BY <2>6, <4>1 DEF Restart, CutAll, HubTypeOK, TypeOK, Stream
    <3>2. /\ pc' \in Pc /\ after' \in Pc /\ restarts' \in 0..MaxRestarts /\ unseen' \in Nat
          /\ state' = Unknown /\ RowTypes'
      BY <2>6, PollerAssumption DEF Restart, TypeOK, RowTypes, Pc
    <3>3. {watched', wake', opened', session', first', daemon', stopping', missed'} \subseteq BOOLEAN
      BY <2>6 DEF Restart, TypeOK
    <3> QED
      BY <3>1, <3>2, <3>3 DEF TypeOK, RowTypes
  <2>7. CASE UNCHANGED vars
    BY <2>7, HubStillTyped DEF vars, loopVars, rowVars, TypeOK
  <2> QED
    BY <2>1, <2>2, <2>3, <2>4, <2>5, <2>6, <2>7, <2>8, <2>9 DEF Next
<1> QED
  BY <1>1, <1>2, PTL DEF Spec
=============================================================================

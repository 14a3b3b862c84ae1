------------------------------ MODULE Sessions ------------------------------
(***************************************************************************)
(* Accounts, the sessions of one of them and the short cache through which *)
(* every request learns the role of its account.                           *)
(*                                                                         *)
(* A browser holds one refresh token for all its tabs; each exchange       *)
(* revokes it and makes a successor, in separate statements, and a token   *)
(* that comes back revokes its whole chain.  Administrators change roles   *)
(* and close accounts at the same time.  Passwords, devices and profiles   *)
(* are left out; so is the expiry of a refresh token, which ends a chain   *)
(* as its revocation does.                                                 *)
(***************************************************************************)
EXTENDS Integers, FiniteSets

CONSTANTS
    Accounts,  \* all administrators at first
    Owner,     \* the one whose browser is modelled
    Tabs,      \* tabs of that browser, or the one process of a phone
    Calls,     \* refreshes in progress at once
    Ops,       \* operations of administrators at once
    Checks,    \* requests whose account is being looked up
    None,      \* no tab, no entry
    TTL,       \* livenessTTL, in ticks
    MaxClock, MaxId,  \* bounds: ticks, sessions
    Events     \* bound: what users and the network may do

ASSUME SessionsAssumption ==
    /\ IsFiniteSet(Accounts) /\ Owner \in Accounts
    /\ IsFiniteSet(Calls) /\ None \notin Tabs
    /\ TTL \in Nat /\ MaxClock \in Nat /\ MaxId \in Nat \ {0} /\ Events \in Nat

VARIABLES
    account,  \* role, whether closed, and when one of them last changed
    cache,    \* the liveness cache
    check, op, call,
    session,  \* sessions of Owner: the login they come from, parent, live
    stored,   \* the refresh token of the browser, 0 when logged out
    stuck,    \* tabs whose refreshInFlight stays at an answer of null
    clock, left,
    raced,    \* history: two operations of administrators overlapped
    excused,  \* history: logins with an overlap, a loss or a failure
    out       \* history: logins that the user ended

vars == <<account, cache, check, op, call, session, stored, stuck, clock, left, raced, excused, out>>
admin == <<account, op, raced>>
client == <<call, session, stored, stuck, excused, out>>

Role == {"admin", "user"}
Account == [role: Role, closed: BOOLEAN, since: 0..MaxClock]
Entry == [role: Role, active: BOOLEAN, at: 0..MaxClock]
Check == [who: Accounts, step: {"none", "read", "put"}, entry: Entry]
Op == [kind: {"promote", "demote", "delete"}, target: Accounts,
       step: {"none", "count", "write", "forget", "logout"}]
Session == [root: 0..MaxId, parent: 0..MaxId, live: BOOLEAN]
Call == [tab: Tabs \cup {None}, token: 0..MaxId, fresh: 0..MaxId,
         step: {"none", "find", "chain", "user", "revoke", "create", "granted", "refused"}]

NoCheck == [who |-> Owner, step |-> "none",
            entry |-> [role |-> "user", active |-> FALSE, at |-> 0]]
NoOp == [kind |-> "promote", target |-> Owner, step |-> "none"]
NoSession == [root |-> 0, parent |-> 0, live |-> FALSE]
NoCall == [tab |-> None, token |-> 0, fresh |-> 0, step |-> "none"]

TypeOK ==
    /\ account \in [Accounts -> Account]
    /\ cache \in [Accounts -> Entry \cup {None}]
    /\ check \in [Checks -> Check]
    /\ op \in [Ops -> Op]
    /\ call \in [Calls -> Call]
    /\ session \in [1..MaxId -> Session]
    /\ stored \in 0..MaxId /\ stuck \in SUBSET Tabs
    /\ clock \in 0..MaxClock /\ left \in 0..Events /\ raced \in BOOLEAN
    /\ excused \in SUBSET (1..MaxId) /\ out \in SUBSET (1..MaxId)

Init ==
    /\ account = [a \in Accounts |-> [role |-> "admin", closed |-> FALSE, since |-> 0]]
    /\ cache = [a \in Accounts |-> None]
    /\ check = [r \in Checks |-> NoCheck]
    /\ op = [o \in Ops |-> NoOp]
    /\ call = [c \in Calls |-> NoCall]
    /\ session = [id \in 1..MaxId |-> NoSession]
    /\ stored = 0 /\ stuck = {}
    /\ clock = 0 /\ left = Events
    /\ raced = FALSE /\ excused = {} /\ out = {}

Spend == left > 0 /\ left' = left - 1

Tick ==
    /\ clock < MaxClock
    /\ clock' = clock + 1
    /\ UNCHANGED <<account, cache, check, op, call, session, stored, stuck, left, raced, excused, out>>

-----------------------------------------------------------------------------
(* AccountState: the cache, else the database *)

\* What livenessCache.get accepts.
Fresh(a) == cache[a] # None /\ clock - cache[a].at <= TTL

CheckStart(r, a) ==
    /\ check[r].step = "none" /\ ~Fresh(a)
    /\ check' = [check EXCEPT ![r] = [who |-> a, step |-> "read",
                    entry |-> [role |-> "user", active |-> FALSE, at |-> clock]]]
    /\ UNCHANGED <<admin, client, cache, clock, left>>

CheckRead(r) ==
    /\ check[r].step = "read"
    /\ LET a == account[check[r].who]
       IN  check' = [check EXCEPT ![r].step = "put",
                        ![r].entry = [role |-> a.role, active |-> ~a.closed, at |-> @.at]]
    /\ UNCHANGED <<admin, client, cache, clock, left>>

\* Mutant: an entry is dated when it is stored.
StampedLate(r) == [check[r].entry EXCEPT !.at = clock]
\* An entry is dated from before its reading.
Stamped(r) == check[r].entry

CheckPut(r) ==
    /\ check[r].step = "put"
    /\ cache' = [cache EXCEPT ![check[r].who] = Stamped(r)]
    /\ check' = [check EXCEPT ![r] = NoCheck]
    /\ UNCHANGED <<admin, client, clock, left>>

-----------------------------------------------------------------------------
(* SetRole and Delete *)

Active(a) == ~account[a].closed
Admins == {a \in Accounts : Active(a) /\ account[a].role = "admin"}
\* The middleware takes for an administrator who is one, or was.
Accepted(a) == a \in Admins \/ (Fresh(a) /\ cache[a].active /\ cache[a].role = "admin")

\* The target is read; one does not demote or close one's own account.
OpFind(o, actor, target, kind) ==
    /\ op[o].step = "none" /\ Spend
    /\ Accepted(actor) /\ Active(target)
    /\ account[target].role # (CASE kind = "promote" -> "admin" [] kind = "demote" -> "user"
                                 [] kind = "delete" -> "none")
    /\ kind = "promote" \/ actor # target
    /\ op' = [op EXCEPT ![o] = [kind |-> kind, target |-> target, step |->
                 IF kind # "promote" /\ account[target].role = "admin" THEN "count" ELSE "write"]]
    /\ raced' = (raced \/ \E other \in Ops : op[other].step # "none")
    /\ UNCHANGED <<client, account, cache, check, clock>>

\* Mutant: closed accounts are counted.
CountAnyAdmins == Cardinality({a \in Accounts : account[a].role = "admin"})
CountAdmins == Cardinality(Admins)

\* ensureNotLastAdmin
OpCount(o) ==
    /\ op[o].step = "count"
    /\ op' = [op EXCEPT ![o] = IF CountAdmins <= 1 THEN NoOp ELSE [@ EXCEPT !.step = "write"]]
    /\ UNCHANGED <<client, account, cache, check, clock, left, raced>>

\* A role is not set on an account that has been closed.
OpWrite(o) ==
    /\ op[o].step = "write"
    /\ LET t == op[o].target
       IN  IF op[o].kind # "delete" /\ account[t].closed
           THEN op' = [op EXCEPT ![o] = NoOp] /\ UNCHANGED account
           ELSE /\ op' = [op EXCEPT ![o].step = "forget"]
                /\ account' = [account EXCEPT ![t].since = clock,
                      ![t].role = CASE op[o].kind = "promote" -> "admin"
                                    [] op[o].kind = "demote" -> "user" [] OTHER -> @,
                      ![t].closed = @ \/ op[o].kind = "delete"]
    /\ UNCHANGED <<client, cache, check, clock, left, raced>>

OpForget(o) ==
    /\ op[o].step = "forget"
    /\ cache' = [cache EXCEPT ![op[o].target] = None]
    /\ op' = [op EXCEPT ![o] = IF op[o].kind = "delete" THEN [@ EXCEPT !.step = "logout"] ELSE NoOp]
    /\ UNCHANGED <<client, account, check, clock, left, raced>>

Revoked(ids) == [id \in 1..MaxId |-> [session[id] EXCEPT !.live = @ /\ id \notin ids]]

\* LogoutAll
OpLogout(o) ==
    /\ op[o].step = "logout"
    /\ session' = IF op[o].target = Owner THEN Revoked(1..MaxId) ELSE session
    /\ excused' = IF op[o].target = Owner THEN 1..MaxId ELSE excused
    /\ op' = [op EXCEPT ![o] = NoOp]
    /\ UNCHANGED <<account, cache, check, call, stored, stuck, clock, left, raced, out>>

-----------------------------------------------------------------------------
(* The browser and the rotation of its token *)

Made == {id \in 1..MaxId : session[id].root # 0}
InFlight == {c \in Calls : call[c].step # "none"}
NewId == Cardinality(Made) + 1
Room == Cardinality(Made) + Cardinality(InFlight) < MaxId
Add(parent, root) ==
    session' = [session EXCEPT ![NewId] = [root |-> root, parent |-> parent, live |-> TRUE]]

Login ==
    /\ stored = 0 /\ Room /\ Spend
    /\ Active(Owner)
    /\ Add(0, NewId) /\ stored' = NewId
    /\ UNCHANGED <<admin, cache, check, stuck, call, clock, excused, out>>

\* The token is forgotten whatever becomes of the request.
Logout ==
    /\ stored # 0 /\ Spend
    /\ LET root == session[stored].root
       IN  /\ \/ session' = Revoked({stored}) /\ out' = out \cup {root}
              \/ UNCHANGED <<session, out>>
           /\ excused' = IF InFlight = {} THEN excused ELSE excused \cup {root}
    /\ stored' = 0
    /\ UNCHANGED <<admin, cache, check, stuck, call, clock>>

\* Mutant: each request that is refused refreshes the token by itself.
NotDeduplicated(t) == TRUE
\* refreshInFlight: one exchange at a time, in each tab.
Deduplicated(t) == \A c \in InFlight : call[c].tab # t

RefreshStart(c, t) ==
    /\ call[c].step = "none" /\ stored # 0 /\ Room
    /\ Spend /\ t \notin stuck /\ Deduplicated(t)
    /\ call' = [call EXCEPT ![c] = [tab |-> t, token |-> stored, fresh |-> 0, step |-> "find"]]
    /\ excused' = IF \A d \in InFlight : call[d].tab = t THEN excused
                  ELSE excused \cup {session[stored].root}
    /\ UNCHANGED <<admin, cache, check, stuck, session, stored, clock, out>>

\* Without a token the exchange ends before its "finally": refreshInFlight
\* keeps this answer until the page is loaded again.
RefreshNone(t) ==
    /\ stored = 0 /\ t \notin stuck /\ Deduplicated(t)
    /\ stuck' = stuck \cup {t}
    /\ UNCHANGED <<admin, cache, check, call, session, stored, clock, left, excused, out>>

\* Such a tab is refused with an access token that has expired: it has that
\* old answer for its exchange, and forgets the tokens of the browser.
Unrefreshed(t) ==
    /\ t \in stuck /\ stored # 0
    /\ stored' = 0
    /\ excused' = IF InFlight = {} THEN excused ELSE excused \cup {session[stored].root}
    /\ UNCHANGED <<admin, cache, check, call, session, stuck, clock, left, out>>

Reload(t) ==
    /\ t \in stuck
    /\ stuck' = stuck \ {t}
    /\ UNCHANGED <<admin, cache, check, call, session, stored, clock, left, excused, out>>

On(c, step) == call[c].step = step
Advance(c, step) == call' = [call EXCEPT ![c].step = step]

RefreshFind(c) ==
    /\ On(c, "find")
    /\ Advance(c, IF session[call[c].token].live THEN "user" ELSE "chain")
    /\ UNCHANGED <<admin, cache, check, stuck, session, stored, clock, left, excused, out>>

\* The session and all that descend from it: the least set that has it and
\* the children of its members.
Closed(ids) == \A n \in Made : session[n].parent \in ids => n \in ids
Chain(id) ==
    {m \in 1..MaxId : \A ids \in SUBSET (1..MaxId) : id \in ids /\ Closed(ids) => m \in ids}

\* RevokeSessionChain: a revoked token has come back.
RefreshChain(c) ==
    /\ On(c, "chain")
    /\ session' = Revoked(Chain(call[c].token))
    /\ Advance(c, "refused")
    /\ UNCHANGED <<admin, cache, check, stuck, stored, clock, left, excused, out>>

RefreshUser(c) ==
    /\ On(c, "user")
    /\ Advance(c, IF Active(Owner) THEN "revoke" ELSE "refused")
    /\ UNCHANGED <<admin, cache, check, stuck, session, stored, clock, left, excused, out>>

\* Mutant: the presented token stays good.
Kept(token) == session
\* RevokeSession
Consumed(token) == Revoked({token})

RefreshRevoke(c) ==
    /\ On(c, "revoke")
    /\ session' = Consumed(call[c].token)
    /\ Advance(c, "create")
    /\ UNCHANGED <<admin, cache, check, stuck, stored, clock, left, excused, out>>

RefreshCreate(c) ==
    /\ On(c, "create")
    /\ Add(call[c].token, session[call[c].token].root)
    /\ call' = [call EXCEPT ![c].step = "granted", ![c].fresh = NewId]
    /\ UNCHANGED <<admin, cache, check, stuck, stored, clock, left, excused, out>>

\* setTokens or clearTokens, unless nobody waits any more.
Answered(c) ==
    /\ On(c, "granted") \/ On(c, "refused")
    /\ stored' = IF call[c].tab = None THEN stored ELSE call[c].fresh
    /\ call' = [call EXCEPT ![c] = NoCall]
    /\ UNCHANGED <<admin, cache, check, stuck, session, clock, left, excused, out>>

\* The network fails: the browser forgets its token, a phone keeps it; the
\* server stops there, or goes on for nobody.
Lost(c) ==
    /\ c \in InFlight /\ call[c].tab # None /\ Spend
    /\ call' = [call EXCEPT ![c] = IF On(c, "granted") \/ On(c, "refused") THEN NoCall
                                   ELSE [@ EXCEPT !.tab = None]]
    /\ stored' \in {stored, 0}
    /\ excused' = excused \cup {session[call[c].token].root}
    /\ UNCHANGED <<admin, cache, check, stuck, session, clock, out>>

\* A statement fails, or the request is cancelled: an error is answered.
Fail(c) ==
    /\ call[c].step \notin {"none", "granted", "refused"} /\ Spend
    /\ Advance(c, "refused")
    /\ excused' = excused \cup {session[call[c].token].root}
    /\ UNCHANGED <<admin, cache, check, stuck, session, stored, clock, out>>

Refresh(c) ==
    \/ RefreshFind(c) \/ RefreshChain(c) \/ RefreshUser(c) \/ RefreshRevoke(c)
    \/ RefreshCreate(c) \/ Answered(c)
OpStep(o) == OpCount(o) \/ OpWrite(o) \/ OpForget(o) \/ OpLogout(o)

Next ==
    \/ Tick \/ Login \/ Logout
    \/ \E r \in Checks, a \in Accounts : CheckStart(r, a)
    \/ \E r \in Checks : CheckRead(r) \/ CheckPut(r)
    \/ \E o \in Ops, a, b \in Accounts, kind \in {"promote", "demote", "delete"} : OpFind(o, a, b, kind)
    \/ \E o \in Ops : OpStep(o)
    \/ \E c \in Calls, t \in Tabs : RefreshStart(c, t)
    \/ \E t \in Tabs : RefreshNone(t) \/ Unrefreshed(t) \/ Reload(t)
    \/ \E c \in Calls : Refresh(c) \/ Lost(c) \/ Fail(c)

Spec == Init /\ [][Next]_vars

-----------------------------------------------------------------------------
\* PROPERTIES

\* What the cache says wrongly of an account was read before the account
\* changed: TTL after a change no request goes by the old state, even when
\* an answer read before is stored after the entry was forgotten.
StaleIsBounded ==
    \A a \in Accounts :
        cache[a] # None /\ (cache[a].role # account[a].role \/ cache[a].active # Active(a))
            => cache[a].at <= account[a].since

\* An administrator remains, unless two of them acted at once.
AdminRemains == raced \/ Admins # {}

Live(root) == {id \in Made : session[id].root = root /\ session[id].live}

\* One session of a login is live at most, and none after its logout, unless
\* exchanges overlapped, an answer was lost or a statement failed.
OneLivePerLogin ==
    \A root \in 1..MaxId \ excused :
        Cardinality(Live(root)) <= IF root \in out THEN 0 ELSE 1

\* With the same exceptions, an exchange that is answered leaves the browser
\* a good token: nobody is logged out by it for having opened several screens
\* at once.  A tab that makes no exchange is another matter, see below.
NobodyLoggedOut ==
    [][\A c \in Calls :
          Answered(c) /\ Active(Owner) /\ session[call[c].token].root \notin excused
              => On(c, "granted") /\ session[stored'].live]_vars

\* What the comment of request() says: a tab that is refused refreshes before
\* it gives up its tokens.  False in a tab that was once refused without any.
RefreshesFirst == [][\A t \in Tabs : ~Unrefreshed(t)]_vars
=============================================================================

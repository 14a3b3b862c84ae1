-------------------------- MODULE Sessions_proofs --------------------------
(***************************************************************************)
(* Sessions, the side of the server: whatever the accounts, the operations *)
(* of administrators, the requests and the life of an entry, a stale entry *)
(* of the liveness cache was read before the account changed, and an       *)
(* administrator remains unless two operations overlapped.                 *)
(***************************************************************************)
EXTENDS Sessions, FiniteSetTheorems, TLAPS

USE SessionsAssumption DEF SessionsAssumption

AccountTypes ==
    /\ account \in [Accounts -> Account]
    /\ cache \in [Accounts -> Entry \cup {None}]
    /\ check \in [Checks -> Check]
    /\ op \in [Ops -> Op]
    /\ clock \in 0..MaxClock
    /\ raced \in BOOLEAN

\* Everything but the cache, the lookups, the accounts and their operations.
AccountVars == <<account, cache, check, op, clock, raced>>

-----------------------------------------------------------------------------
\* An entry says what the account is, or was read before its last change.
Right(a, entry) ==
    /\ entry.at <= clock
    /\ \/ entry.role = account[a].role /\ entry.active = Active(a)
       \/ entry.at <= account[a].since

\* So do the entries that a request has read and not yet stored.
Dated ==
    /\ \A a \in Accounts : account[a].since <= clock
    /\ \A a \in Accounts : cache[a] # None => Right(a, cache[a])
    /\ \A r \in Checks : check[r].entry.at <= clock
    /\ \A r \in Checks : check[r].step = "put" => Right(check[r].who, check[r].entry)

\* While operations have not overlapped, one is under way at most, and when
\* it is about to take an administrator away another is there.
Spared ==
    ~raced =>
        /\ \A o, p \in Ops : op[o].step # "none" /\ op[p].step # "none" => o = p
        /\ Admins # {}
        /\ \A o \in Ops : op[o].step = "write" /\ op[o].kind # "promote"
                             => \E a \in Admins : a # op[o].target

AInv == AccountTypes /\ Dated /\ Spared

\* Lemma: at first every account is an administrator, and nothing is cached.
LEMMA InitAInv == Init => AInv
<1> SUFFICES ASSUME Init PROVE AInv
    OBVIOUS
<1>1. NoCheck \in Check /\ NoOp \in Op
    BY DEF NoCheck, Check, NoOp, Op, Entry, Role
<1>2. AccountTypes
    <2>1. account \in [Accounts -> Account]
        BY DEF Init, Account, Role
    <2>2. /\ cache \in [Accounts -> Entry \cup {None}]
          /\ check \in [Checks -> Check] /\ op \in [Ops -> Op]
        BY <1>1 DEF Init
    <2>3. clock = 0 /\ raced \in BOOLEAN
        BY DEF Init
    <2>4. clock \in 0..MaxClock
        BY <2>3
    <2> QED BY <2>1, <2>2, <2>3, <2>4 DEF AccountTypes
<1>3. Dated
    BY DEF Init, Dated, NoCheck
<1>4. Owner \in Admins
    BY DEF Init, Admins, Active
<1>5. Spared
    BY <1>4 DEF Init, Spared, NoOp
<1> QED BY <1>2, <1>3, <1>5 DEF AInv

\* Lemma: what touches none of this keeps it.
LEMMA AccountsUntouched == ASSUME AInv, UNCHANGED AccountVars PROVE AInv'
BY DEF AInv, AccountVars, AccountTypes, Dated, Right, Spared, Admins, Active

\* Lemma: time passes.
LEMMA TickAccounts == ASSUME AInv, Tick PROVE AInv'
<1>1. clock' = clock + 1 /\ clock < MaxClock /\ UNCHANGED <<account, cache, check, op, raced>>
    BY DEF Tick
<1>2. AccountTypes'
    BY <1>1 DEF AInv, AccountTypes
<1>3. /\ \A a \in Accounts : account[a].since \in Int
      /\ \A a \in Accounts : cache[a] # None => cache[a].at \in Int
      /\ \A r \in Checks : check[r].entry.at \in Int /\ check[r].who \in Accounts
      /\ clock \in Int
    BY DEF AInv, AccountTypes, Account, Entry, Check
<1>4. Dated'
    BY <1>1, <1>3 DEF AInv, Dated, Right, Active
<1>5. Spared'
    BY <1>1 DEF AInv, Spared, Admins, Active
<1> QED BY <1>2, <1>4, <1>5 DEF AInv

-----------------------------------------------------------------------------
(* The cache *)

\* Lemma: a request that looks an account up dates what it will read.
LEMMA CheckStartKeeps ==
    ASSUME AInv, NEW r \in Checks, NEW a \in Accounts, CheckStart(r, a) PROVE AInv'
<1> DEFINE e == [role |-> "user", active |-> FALSE, at |-> clock]
           n == [who |-> a, step |-> "read", entry |-> e]
<1>1. check' = [check EXCEPT ![r] = n] /\ UNCHANGED <<account, cache, op, clock, raced>>
    BY DEF CheckStart, admin
<1>2. n \in Check /\ n.step = "read" /\ n.entry.at = clock
    BY DEF AInv, AccountTypes, Check, Entry, Role
<1> HIDE DEF n
<1>3. check' \in [Checks -> Check] /\ \A q \in Checks : check'[q] = IF q = r THEN n ELSE check[q]
    BY <1>1, <1>2 DEF AInv, AccountTypes
<1>4. AccountTypes'
    BY <1>1, <1>3 DEF AInv, AccountTypes
<1>5. clock <= clock
    BY DEF AInv, AccountTypes
<1>6. Dated'
    BY <1>1, <1>2, <1>3, <1>5 DEF AInv, Dated, Right, Active
<1>7. Spared'
    BY <1>1 DEF AInv, Spared, Admins, Active
<1> QED BY <1>4, <1>6, <1>7 DEF AInv

\* Lemma: what it reads is right at that moment.
LEMMA CheckReadKeeps == ASSUME AInv, NEW r \in Checks, CheckRead(r) PROVE AInv'
<1> DEFINE a == check[r].who
           e == [role |-> account[a].role, active |-> ~account[a].closed, at |-> check[r].entry.at]
<1>1. check[r] \in Check /\ a \in Accounts /\ account[a] \in Account
    BY DEF AInv, AccountTypes, Check
<1>2. /\ check' = [check EXCEPT ![r] = [check[r] EXCEPT !.step = "put", !.entry = e]]
      /\ UNCHANGED <<account, cache, op, clock, raced>>
    BY <1>1 DEF CheckRead, admin, Check
<1>3. PICK n \in Check : n = [check[r] EXCEPT !.step = "put", !.entry = e]
    BY <1>1 DEF Check, Entry, Account
<1>4. n.who = a /\ n.step = "put" /\ n.entry = e
    BY <1>1, <1>3 DEF Check
<1>5. check' \in [Checks -> Check] /\ \A q \in Checks : check'[q] = IF q = r THEN n ELSE check[q]
    BY <1>2, <1>3 DEF AInv, AccountTypes
<1>6. AccountTypes'
    BY <1>2, <1>5 DEF AInv, AccountTypes
<1>7. n.entry.at <= clock /\ Right(a, n.entry)
    BY <1>4 DEF AInv, Dated, Right, Active
<1>8. Dated'
    BY <1>2, <1>4, <1>5, <1>7 DEF AInv, Dated, Right, Active
<1>9. Spared'
    BY <1>2 DEF AInv, Spared, Admins, Active
<1> QED BY <1>6, <1>8, <1>9 DEF AInv

\* Lemma: and is stored with the date from before its reading.
LEMMA CheckPutKeeps == ASSUME AInv, NEW r \in Checks, CheckPut(r) PROVE AInv'
<1> DEFINE a == check[r].who
           e == check[r].entry
<1>1. /\ check[r].step = "put" /\ cache' = [cache EXCEPT ![a] = e]
      /\ check' = [check EXCEPT ![r] = NoCheck]
      /\ UNCHANGED <<account, op, clock, raced>>
    BY DEF CheckPut, Stamped, admin
<1>2. a \in Accounts /\ e \in Entry /\ Right(a, e)
    BY <1>1 DEF AInv, AccountTypes, Check, Dated
<1> HIDE DEF a, e
<1>3. NoCheck \in Check /\ NoCheck.step = "none" /\ NoCheck.entry.at = 0
    BY DEF NoCheck, Check, Entry, Role
<1>4. /\ check' \in [Checks -> Check]
      /\ \A q \in Checks : check'[q] = IF q = r THEN NoCheck ELSE check[q]
    BY <1>1, <1>3 DEF AInv, AccountTypes
<1>5. /\ cache' \in [Accounts -> Entry \cup {None}]
      /\ \A b \in Accounts : cache'[b] = IF b = a THEN e ELSE cache[b]
    BY <1>1, <1>2 DEF AInv, AccountTypes
<1>6. AccountTypes'
    BY <1>1, <1>4, <1>5 DEF AInv, AccountTypes
<1>7. 0 <= clock
    BY DEF AInv, AccountTypes
<1>8. Dated'
    BY <1>1, <1>2, <1>3, <1>4, <1>5, <1>7 DEF AInv, Dated, Right, Active
<1>9. Spared'
    BY <1>1 DEF AInv, Spared, Admins, Active
<1> QED BY <1>6, <1>8, <1>9 DEF AInv

-----------------------------------------------------------------------------
(* The operations of administrators *)

\* Lemma: an operation begins, or ends, without writing.
LEMMA OpMoves ==
    ASSUME AInv, NEW o \in Ops, NEW n \in Op, op' = [op EXCEPT ![o] = n],
           UNCHANGED <<account, cache, check, clock>>, raced' \in BOOLEAN,
           raced => raced',
           ~raced' => /\ n.step # "none" => \A p \in Ops \ {o} : op[p].step = "none"
                      /\ n.step = "write" /\ n.kind # "promote"
                            => \E a \in Admins : a # n.target
    PROVE  AInv'
<1>1. op' \in [Ops -> Op] /\ \A p \in Ops : op'[p] = IF p = o THEN n ELSE op[p]
    BY DEF AInv, AccountTypes
<1>2. AccountTypes'
    BY <1>1 DEF AInv, AccountTypes
<1>3. Dated'
    BY DEF AInv, Dated, Right, Active
<1>4. Admins' = Admins
    BY DEF Admins, Active
<1>5. Spared'
    BY <1>1, <1>4 DEF AInv, Spared
<1> QED BY <1>2, <1>3, <1>5 DEF AInv

\* Lemma: an operation that begins is alone, or counts as overlapping.
LEMMA OpFindKeeps ==
    ASSUME AInv, NEW o \in Ops, NEW actor \in Accounts, NEW target \in Accounts,
           NEW kind \in {"promote", "demote", "delete"}, OpFind(o, actor, target, kind)
    PROVE  AInv'
<1> DEFINE s == IF kind # "promote" /\ account[target].role = "admin" THEN "count" ELSE "write"
           n == [kind |-> kind, target |-> target, step |-> s]
<1>1. /\ op' = [op EXCEPT ![o] = n]
      /\ raced' = (raced \/ \E other \in Ops : op[other].step # "none")
      /\ UNCHANGED <<account, cache, check, clock>>
    BY DEF OpFind
<1>2. n \in Op /\ n.kind = kind /\ n.target = target /\ n.step = s
    BY DEF Op
<1>3. raced' \in BOOLEAN /\ (raced => raced')
    BY <1>1 DEF AInv, AccountTypes
<1>4. ASSUME ~raced' PROVE \A p \in Ops \ {o} : op[p].step = "none"
    BY <1>1, <1>4
<1>5. ASSUME ~raced', s = "write", kind # "promote" PROVE \E a \in Admins : a # target
    <2>1. target \notin Admins
        BY <1>5 DEF Admins
    <2>2. Admins # {}
        BY <1>3, <1>5 DEF AInv, Spared
    <2> QED BY <2>1, <2>2
<1> HIDE DEF n, s
<1> QED BY <1>1, <1>2, <1>3, <1>4, <1>5, OpMoves

\* Lemma: two administrators are two accounts.
LEMMA AnotherRemains ==
    ASSUME AInv, ~(CountAdmins <= 1) PROVE \A t \in Accounts : \E a \in Admins : a # t
<1>1. IsFiniteSet(Admins) /\ Cardinality(Admins) \in Nat
    BY FS_Subset, FS_CardinalityType DEF Admins
<1>2. SUFFICES ASSUME NEW t \in Accounts, \A a \in Admins : a = t PROVE FALSE
    OBVIOUS
<1>3. Admins \subseteq {t}
    BY <1>2
<1>4. IsFiniteSet({t}) /\ Cardinality({t}) = 1
    BY FS_Singleton
<1>5. Cardinality(Admins) <= 1
    BY <1>3, <1>4, FS_Subset
<1> QED BY <1>5 DEF CountAdmins

\* Lemma: the last administrator is counted, and spared.
LEMMA OpCountKeeps == ASSUME AInv, NEW o \in Ops, OpCount(o) PROVE AInv'
<1>1. op[o] \in Op /\ op[o].step = "count" /\ UNCHANGED <<account, cache, check, clock>>
    BY DEF OpCount, AInv, AccountTypes
<1>2. \A p \in Ops \ {o} : ~raced => op[p].step = "none"
    BY <1>1 DEF AInv, Spared
<1>3. raced' \in BOOLEAN /\ raced' = raced
    BY DEF OpCount, AInv, AccountTypes
<1>4. CASE CountAdmins <= 1
    <2>1. op' = [op EXCEPT ![o] = NoOp]
        BY <1>4 DEF OpCount
    <2>2. NoOp \in Op /\ NoOp.step = "none"
        BY DEF NoOp, Op
    <2>3. PICK n \in Op : n = NoOp /\ n.step = "none"
        BY <2>2
    <2>4. op' = [op EXCEPT ![o] = n]
        BY <2>1, <2>3
    <2> QED BY <1>1, <1>3, <2>3, <2>4, OpMoves
<1>5. CASE ~(CountAdmins <= 1)
    <2>1. op' = [op EXCEPT ![o] = [op[o] EXCEPT !.step = "write"]]
        BY <1>5 DEF OpCount
    <2>2. PICK n \in Op : n = [op[o] EXCEPT !.step = "write"]
        BY <1>1 DEF Op
    <2>3. op' = [op EXCEPT ![o] = n]
        BY <2>1, <2>2
    <2>4. \E a \in Admins : a # n.target
        <3>1. n.target \in Accounts
            BY DEF Op
        <3> QED BY <1>5, <3>1, AnotherRemains
    <2> QED BY <1>1, <1>2, <1>3, <2>3, <2>4, OpMoves
<1> QED BY <1>4, <1>5

\* Lemma: an account changes now: whatever was read of it was read before.
LEMMA OpWriteKeeps == ASSUME AInv, NEW o \in Ops, OpWrite(o) PROVE AInv'
<1> DEFINE t == op[o].target
           kind == op[o].kind
<1>1. /\ op[o] \in Op /\ op[o].step = "write" /\ t \in Accounts
      /\ UNCHANGED <<cache, check, clock, raced>>
    BY DEF OpWrite, AInv, AccountTypes, Op
<1>2. \A p \in Ops \ {o} : ~raced => op[p].step = "none"
    BY <1>1 DEF AInv, Spared
<1>3. raced' \in BOOLEAN /\ raced' = raced
    BY <1>1 DEF AInv, AccountTypes
<1>4. CASE kind # "delete" /\ account[t].closed
    <2>1. op' = [op EXCEPT ![o] = NoOp]
        BY <1>4 DEF OpWrite
    <2>5. UNCHANGED <<account, cache, check, clock>>
        BY <1>1, <1>4 DEF OpWrite
    <2>2. NoOp \in Op /\ NoOp.step = "none"
        BY DEF NoOp, Op
    <2>3. PICK n \in Op : n = NoOp /\ n.step = "none"
        BY <2>2
    <2>4. op' = [op EXCEPT ![o] = n]
        BY <2>1, <2>3
    <2> QED BY <1>3, <2>3, <2>4, <2>5, OpMoves
<1>5. CASE ~(kind # "delete" /\ account[t].closed)
    <2>1. PICK n \in Op : n = [op[o] EXCEPT !.step = "forget"]
        BY <1>1 DEF Op
    <2>2. n.step = "forget"
        BY <1>1, <2>1 DEF Op
    <2>3. op' = [op EXCEPT ![o] = n]
        BY <1>5, <2>1 DEF OpWrite
    <2> DEFINE role == CASE kind = "promote" -> "admin" [] kind = "demote" -> "user"
                         [] OTHER -> account[t].role
               closed == account[t].closed \/ kind = "delete"
    <2>4. account[t] \in Account /\ clock \in 0..MaxClock
        BY <1>1 DEF AInv, AccountTypes
    <2>5. role \in Role /\ closed \in BOOLEAN
        BY <2>4 DEF Account, Role
    <2> HIDE DEF role, closed
    <2>6. account' = [account EXCEPT ![t] =
                         [account[t] EXCEPT !.since = clock, !.role = role, !.closed = closed]]
        BY <1>5 DEF OpWrite, role, closed
    <2>7. PICK new \in Account :
             new = [account[t] EXCEPT !.since = clock, !.role = role, !.closed = closed]
        BY <2>4, <2>5 DEF Account
    <2>13. /\ new.role = role /\ new.closed = closed /\ new.since = clock
           /\ account' = [account EXCEPT ![t] = new]
        BY <2>4, <2>6, <2>7 DEF Account
    <2>8. /\ account' \in [Accounts -> Account]
          /\ \A a \in Accounts : account'[a] = IF a = t THEN new ELSE account[a]
        BY <1>1, <2>13 DEF AInv, AccountTypes
    <2>9. op' \in [Ops -> Op] /\ \A p \in Ops : op'[p] = IF p = o THEN n ELSE op[p]
        BY <2>3 DEF AInv, AccountTypes
    <2>10. AccountTypes'
        BY <1>1, <2>8, <2>9 DEF AInv, AccountTypes
    <2>11. Dated'
        <3>1. \A a \in Accounts : account'[a].since <= clock
            BY <2>4, <2>13, <2>8 DEF AInv, Dated
        <3>2. ASSUME NEW a \in Accounts, NEW e, Right(a, e) PROVE Right(a, e)'
            BY <1>1, <2>13, <2>8, <3>2 DEF Right, Active
        <3>3. \A r \in Checks : check[r].who \in Accounts
            BY DEF AInv, AccountTypes, Check
        <3>4. \A a \in Accounts : cache'[a] # None => Right(a, cache[a])'
            BY <1>1, <3>2 DEF AInv, Dated
        <3>5. \A r \in Checks : check'[r].step = "put" => Right(check[r].who, check[r].entry)'
            BY <1>1, <3>2, <3>3 DEF AInv, Dated
        <3> QED BY <1>1, <3>1, <3>4, <3>5 DEF AInv, Dated
    <2>12. Spared'
        <3>1. ASSUME ~raced PROVE Admins' # {}
            <4>1. CASE kind = "promote"
                <5>1. role = "admin" /\ closed = FALSE
                    BY <1>5, <2>4, <4>1 DEF Account, role, closed
                <5>2. t \in Admins'
                    BY <1>1, <2>13, <2>8, <5>1 DEF Admins, Active
                <5> QED BY <5>2
            <4>2. CASE kind # "promote"
                <5>1. PICK a \in Admins : a # t
                    BY <1>1, <3>1, <4>2 DEF AInv, Spared
                <5>2. a \in Admins'
                    BY <2>8, <5>1 DEF Admins, Active
                <5> QED BY <5>2
            <4> QED BY <4>1, <4>2
        <3> QED BY <1>2, <1>3, <2>2, <2>9, <3>1 DEF Spared
    <2> QED BY <2>10, <2>11, <2>12 DEF AInv
<1> QED BY <1>4, <1>5

\* Lemma: the entry of the account is forgotten.
LEMMA OpForgetKeeps == ASSUME AInv, NEW o \in Ops, OpForget(o) PROVE AInv'
<1>1. /\ op[o] \in Op /\ op[o].step = "forget" /\ op[o].target \in Accounts
      /\ cache' = [cache EXCEPT ![op[o].target] = None]
      /\ UNCHANGED <<account, check, clock, raced>>
    BY DEF OpForget, AInv, AccountTypes, Op
<1>2. \A p \in Ops \ {o} : ~raced => op[p].step = "none"
    BY <1>1 DEF AInv, Spared
<1>3. PICK n \in Op : n.step \in {"none", "logout"} /\ op' = [op EXCEPT ![o] = n]
    <2>1. CASE op[o].kind = "delete"
        <3>1. PICK n \in Op : n = [op[o] EXCEPT !.step = "logout"]
            BY <1>1 DEF Op
        <3>2. n.step = "logout"
            BY <1>1, <3>1 DEF Op
        <3> QED BY <2>1, <3>1, <3>2 DEF OpForget
    <2>2. CASE op[o].kind # "delete"
        <3>1. NoOp \in Op /\ NoOp.step = "none"
            BY DEF NoOp, Op
        <3> QED BY <2>2, <3>1 DEF OpForget
    <2> QED BY <2>1, <2>2
<1>4. op' \in [Ops -> Op] /\ \A p \in Ops : op'[p] = IF p = o THEN n ELSE op[p]
    BY <1>3 DEF AInv, AccountTypes
<1>5. /\ cache' \in [Accounts -> Entry \cup {None}]
      /\ \A b \in Accounts : cache'[b] = IF b = op[o].target THEN None ELSE cache[b]
    BY <1>1 DEF AInv, AccountTypes
<1>6. AccountTypes'
    BY <1>1, <1>4, <1>5 DEF AInv, AccountTypes
<1>7. Dated'
    BY <1>1, <1>5 DEF AInv, Dated, Right, Active
<1>8. Admins' = Admins
    BY <1>1 DEF Admins, Active
<1>9. Spared'
    BY <1>1, <1>2, <1>3, <1>4, <1>8 DEF AInv, Spared
<1> QED BY <1>6, <1>7, <1>9 DEF AInv

\* Lemma: its sessions are revoked.
LEMMA OpLogoutKeeps == ASSUME AInv, NEW o \in Ops, OpLogout(o) PROVE AInv'
<1>1. /\ op' = [op EXCEPT ![o] = NoOp]
      /\ UNCHANGED <<account, cache, check, clock>> /\ raced' = raced
    BY DEF OpLogout
<1>2. NoOp \in Op /\ NoOp.step = "none"
    BY DEF NoOp, Op
<1>3. raced' \in BOOLEAN
    BY <1>1 DEF AInv, AccountTypes
<1> QED BY <1>1, <1>2, <1>3, OpMoves

-----------------------------------------------------------------------------
\* Lemma: what the browser does touches none of this.
LEMMA ClientKeeps ==
    ASSUME AInv,
           \/ Login \/ Logout
           \/ \E c \in Calls, t \in Tabs : RefreshStart(c, t)
           \/ \E t \in Tabs : RefreshNone(t) \/ Unrefreshed(t) \/ Reload(t)
           \/ \E c \in Calls : Refresh(c) \/ Lost(c) \/ Fail(c)
    PROVE  AInv'
<1>1. UNCHANGED AccountVars
    <2>1. CASE Login \/ Logout
        BY <2>1 DEF Login, Logout, admin, AccountVars
    <2>2. CASE \E c \in Calls, t \in Tabs : RefreshStart(c, t)
        BY <2>2 DEF RefreshStart, admin, AccountVars
    <2>3. CASE \E c \in Calls : Refresh(c)
        BY <2>3 DEF Refresh, RefreshFind, RefreshChain, RefreshUser, RefreshRevoke, RefreshCreate,
                    Answered, admin, AccountVars
    <2>4. CASE \E c \in Calls : Lost(c) \/ Fail(c)
        BY <2>4 DEF Lost, Fail, admin, AccountVars
    <2>5. CASE \E t \in Tabs : RefreshNone(t) \/ Unrefreshed(t) \/ Reload(t)
        BY <2>5 DEF RefreshNone, Unrefreshed, Reload, admin, AccountVars
    <2> QED BY <2>1, <2>2, <2>3, <2>4, <2>5
<1> QED BY <1>1, AccountsUntouched

\* Lemma: every step keeps the invariant.
LEMMA NextAInv == AInv /\ [Next]_vars => AInv'
<1> SUFFICES ASSUME AInv, [Next]_vars PROVE AInv'
    OBVIOUS
<1>1. CASE Tick
    BY <1>1, TickAccounts
<1>2. CASE \E r \in Checks, a \in Accounts : CheckStart(r, a)
    BY <1>2, CheckStartKeeps
<1>3. CASE \E r \in Checks : CheckRead(r) \/ CheckPut(r)
    BY <1>3, CheckReadKeeps, CheckPutKeeps
<1>4. CASE \E o \in Ops, a, b \in Accounts, kind \in {"promote", "demote", "delete"} :
              OpFind(o, a, b, kind)
    BY <1>4, OpFindKeeps
<1>5. CASE \E o \in Ops : OpStep(o)
    BY <1>5, OpCountKeeps, OpWriteKeeps, OpForgetKeeps, OpLogoutKeeps DEF OpStep
<1>6. CASE \/ Login \/ Logout
           \/ \E c \in Calls, t \in Tabs : RefreshStart(c, t)
           \/ \E c \in Calls : Refresh(c) \/ Lost(c) \/ Fail(c)
           \/ \E t \in Tabs : RefreshNone(t) \/ Unrefreshed(t) \/ Reload(t)
    BY <1>6, ClientKeeps
<1>7. CASE UNCHANGED vars
    BY <1>7, AccountsUntouched DEF vars, AccountVars
<1> QED BY <1>1, <1>2, <1>3, <1>4, <1>5, <1>6, <1>7 DEF Next

\* Lemma: the invariant holds always.
LEMMA SpecAInv == Spec => []AInv
BY InitAInv, NextAInv, PTL DEF Spec

\* liveness.go: what the cache says wrongly of an account was read before the
\* account changed, however reads, changes and entries interleave.
THEOREM StaleTheorem == Spec => []StaleIsBounded
<1>1. AInv => StaleIsBounded
    BY DEF AInv, Dated, Right, StaleIsBounded
<1> QED BY <1>1, SpecAInv, PTL

\* accounts.go: an administrator remains, unless operations overlapped.
THEOREM AdminTheorem == Spec => []AdminRemains
<1>1. AInv => AdminRemains
    BY DEF AInv, Spared, AdminRemains
<1> QED BY <1>1, SpecAInv, PTL

-----------------------------------------------------------------------------
(***************************************************************************)
(* Sessions, the side of the browser.  A login is the root of a chain of   *)
(* sessions; what the invariant says of it holds until something excuses   *)
(* it: exchanges that overlap, an answer that is lost, a statement that    *)
(* fails, the account that is closed.                                      *)
(***************************************************************************)

\* What the invariant of the chains is about.
ChainVars == <<call, session, stored, excused, out>>

ClientTypes ==
    /\ call \in [Calls -> Call]
    /\ session \in [1..MaxId -> Session]
    /\ stored \in 0..MaxId
    /\ excused \in SUBSET (1..MaxId)
    /\ out \in SUBSET (1..MaxId)

Ended == {"none", "granted", "refused"}
\* The calls that may still make a session.
Pending == {c \in Calls : call[c].step \notin Ended}

\* Sessions are numbered in their order, and there is room for the pending ones.
Numbered == \E n \in 0..MaxId : Made = 1..n /\ n + Cardinality(Pending) <= MaxId

RootOf(c) == session[call[c].token].root

\* What sessions, tokens and calls refer to was made, within one login.
Family ==
    /\ \A id \in Made :
          /\ session[id].root \in Made
          /\ session[id].parent # 0 => /\ session[id].parent \in Made
                                       /\ session[session[id].parent].root = session[id].root
    /\ stored # 0 => stored \in Made
    /\ out \subseteq Made
    /\ \A c \in InFlight : call[c].token \in Made
    /\ \A c \in Calls : IF call[c].step = "granted"
                        THEN call[c].fresh \in Made /\ session[call[c].fresh].root = RootOf(c)
                        ELSE call[c].fresh = 0

\* The call of a login that nothing excuses is the only one, is waited for,
\* and presents the token that the browser still holds.
Sole ==
    \A c \in InFlight : RootOf(c) \notin excused =>
        InFlight = {c} /\ call[c].tab # None /\ stored = call[c].token

\* Such a login has one live session at most: the one of the browser, until
\* it is exchanged for the one of the call.
Good(root) ==
    /\ \A x, y \in Live(root) : x = y
    /\ root \in out => Live(root) = {}
    /\ stored # 0 /\ session[stored].root = root =>
          /\ root \notin out
          /\ \/ stored \in Live(root)
             \/ \E c \in InFlight : call[c].token = stored /\ call[c].step \in {"create", "granted"}
    /\ \A c \in InFlight : RootOf(c) = root =>
          /\ call[c].step # "chain"
          /\ call[c].step = "create" => Live(root) = {}
          /\ call[c].step = "granted" => call[c].fresh \in Live(root)
          /\ call[c].step = "refused" => ~Active(Owner)
AllGood == \A root \in 1..MaxId \ excused : Good(root)

CInv == ClientTypes /\ Numbered /\ Family /\ Sole /\ AllGood

-----------------------------------------------------------------------------
(* Sessions *)

\* Lemma: the numbers of sessions.
LEMMA Counted ==
    ASSUME ClientTypes, NEW n \in 0..MaxId, Made = 1..n
    PROVE  Cardinality(Made) = n /\ NewId = n + 1
<1>1. Cardinality(1..n) = n
    BY FS_Interval
<1> QED BY <1>1 DEF NewId

\* Lemma: some sessions are revoked.
LEMMA Revoking ==
    ASSUME ClientTypes, NEW ids, session' = Revoked(ids)
    PROVE  /\ session' \in [1..MaxId -> Session]
           /\ Made' = Made
           /\ \A id \in 1..MaxId : /\ session'[id].root = session[id].root
                                   /\ session'[id].parent = session[id].parent
           /\ \A root \in 1..MaxId : Live(root)' = Live(root) \ ids
<1>1. ASSUME NEW id \in 1..MaxId
      PROVE  /\ session'[id] \in Session
             /\ session'[id].root = session[id].root
             /\ session'[id].parent = session[id].parent
             /\ session'[id].live <=> session[id].live /\ id \notin ids
    <2>1. session[id] \in Session
        BY DEF ClientTypes
    <2>2. PICK l \in BOOLEAN : l = (session[id].live /\ id \notin ids)
        OBVIOUS
    <2>3. session'[id] = [session[id] EXCEPT !.live = l]
        BY <2>2 DEF Revoked
    <2> QED BY <2>1, <2>2, <2>3 DEF Session
<1>2. session' = [id \in 1..MaxId |-> session'[id]]
    BY DEF Revoked
<1>3. session' \in [1..MaxId -> Session]
    BY <1>1, <1>2
<1>4. Made' = Made
    BY <1>1 DEF Made
<1>5. \A root \in 1..MaxId : Live(root)' = Live(root) \ ids
    BY <1>1, <1>4 DEF Live, Made
<1> QED BY <1>1, <1>3, <1>4, <1>5

\* Lemma: a session is made, the next one.
LEMMA Adding ==
    ASSUME ClientTypes, NEW n \in 0..MaxId, Made = 1..n, n < MaxId,
           NEW p \in 0..MaxId, NEW r \in 1..MaxId, Add(p, r)
    PROVE  /\ session' \in [1..MaxId -> Session]
           /\ NewId = n + 1 /\ Made' = 1..n + 1
           /\ \A id \in Made : session'[id] = session[id]
           /\ session'[n + 1].root = r /\ session'[n + 1].parent = p
           /\ \A root \in 1..MaxId :
                 Live(root)' = IF root = r THEN Live(root) \cup {n + 1} ELSE Live(root)
<1> DEFINE k == n + 1
<1>1. NewId = k
    BY Counted
<1> DEFINE s == [root |-> r, parent |-> p, live |-> TRUE]
<1>2. s \in Session
    BY DEF Session
<1>3. session' = [session EXCEPT ![k] = s]
    BY <1>1 DEF Add
<1>4. s.root = r /\ s.parent = p /\ s.live
    OBVIOUS
<1> HIDE DEF s
<1>5. k \in 1..MaxId /\ k \notin Made
    OBVIOUS
<1>6. /\ session' \in [1..MaxId -> Session] /\ session'[k] = s
      /\ \A id \in 1..MaxId \ {k} : session'[id] = session[id]
    BY <1>2, <1>3, <1>5 DEF ClientTypes
<1>7. Made' = Made \cup {k}
    BY <1>4, <1>5, <1>6 DEF Made
<1>8. Made' = 1..k
    BY <1>7
<1>9. ASSUME NEW root \in 1..MaxId
      PROVE  Live(root)' = IF root = r THEN Live(root) \cup {k} ELSE Live(root)
    BY <1>4, <1>5, <1>6, <1>7 DEF Live, Made
<1> QED BY <1>1, <1>4, <1>5, <1>6, <1>8, <1>9

\* Lemma: what descends from a session is of its login.
LEMMA Kin ==
    ASSUME ClientTypes, Family, NEW id \in Made, NEW m \in Chain(id)
    PROVE  m \in Made /\ session[m].root = session[id].root
<1> DEFINE S == {x \in Made : session[x].root = session[id].root}
<1>1. S \in SUBSET (1..MaxId) /\ id \in S
    BY DEF Made
<1>2. Closed(S)
    <2>1. ASSUME NEW x \in Made, session[x].parent \in S PROVE x \in S
        <3>1. session[x].parent # 0
            BY <1>1, <2>1
        <3> QED BY <2>1, <3>1 DEF Family
    <2> QED BY <2>1 DEF Closed
<1>3. m \in S
    BY <1>1, <1>2 DEF Chain
<1> QED BY <1>3

-----------------------------------------------------------------------------
(* One call moves *)

\* Lemma: what a call that moves leaves of the others.
LEMMA OthersStay ==
    ASSUME ClientTypes, NEW c \in Calls, NEW n \in Call, call' = [call EXCEPT ![c] = n]
    PROVE  /\ call' \in [Calls -> Call]
           /\ \A d \in Calls : call'[d] = IF d = c THEN n ELSE call[d]
           /\ InFlight' = IF n.step = "none" THEN InFlight \ {c} ELSE InFlight \cup {c}
<1>1. call' \in [Calls -> Call] /\ \A d \in Calls : call'[d] = IF d = c THEN n ELSE call[d]
    BY DEF ClientTypes
<1> QED BY <1>1 DEF InFlight

\* Lemma: room is kept by a call that goes on, or ends.
LEMMA RoomStays ==
    ASSUME ClientTypes, Numbered, Made' = Made, NEW c \in Calls, NEW n \in Call,
           call' = [call EXCEPT ![c] = n],
           call[c].step \in Ended => n.step \in Ended
    PROVE  Numbered'
<1>1. PICK m \in 0..MaxId : Made = 1..m /\ m + Cardinality(Pending) <= MaxId
    BY DEF Numbered
<1>2. Pending' \subseteq Pending
    BY OthersStay DEF Pending
<1>3. IsFiniteSet(Pending)
    BY FS_Subset DEF Pending
<1>4. Cardinality(Pending') <= Cardinality(Pending)
      /\ Cardinality(Pending) \in Nat /\ Cardinality(Pending') \in Nat
    BY <1>2, <1>3, FS_Subset, FS_CardinalityType
<1>5. m + Cardinality(Pending') <= MaxId
    BY <1>1, <1>4
<1> QED BY <1>1, <1>5 DEF Numbered

\* Lemma: a call moves; what is said of other logins stays.
LEMMA OneCall ==
    ASSUME CInv, NEW c \in InFlight, NEW n \in Call, call' = [call EXCEPT ![c] = n],
           n.step # "none" => n.token = call[c].token,
           NEW root \in 1..MaxId, root = RootOf(c),
           session' \in [1..MaxId -> Session], Numbered', Family',
           \A id \in Made : id \in Made' /\ session'[id].root = session[id].root,
           \A r \in 1..MaxId \ {root} : Live(r)' = Live(r),
           stored' \in 0..MaxId,
           stored' # 0 => stored' = stored \/ session'[stored'].root = root,
           out' = out, account' = account,
           excused' = excused \/ excused' = excused \cup {root},
           root \notin excused' /\ n.step # "none" => n.tab = call[c].tab /\ stored' = stored,
           root \notin excused' => Good(root)'
    PROVE  CInv'
<1>1. /\ call' \in [Calls -> Call]
      /\ \A d \in Calls : call'[d] = IF d = c THEN n ELSE call[d]
      /\ InFlight' = IF n.step = "none" THEN InFlight \ {c} ELSE InFlight
    <2>1. c \in Calls /\ ClientTypes
        BY DEF CInv, InFlight
    <2>2. InFlight \cup {c} = InFlight
        OBVIOUS
    <2> QED BY <2>1, <2>2, OthersStay
<1>2. ClientTypes'
    BY <1>1 DEF CInv, ClientTypes
<1>3. ASSUME NEW d \in InFlight' PROVE d \in InFlight /\ RootOf(d)' = RootOf(d)
    <2>1. d \in InFlight /\ call'[d].token = call[d].token
        BY <1>1, <1>3
    <2>2. call[d].token \in Made
        BY <2>1 DEF CInv, Family
    <2> QED BY <2>1, <2>2 DEF RootOf
<1>4. Sole'
    <2>1. ASSUME NEW d \in InFlight', RootOf(d)' \notin excused'
          PROVE  InFlight' = {d} /\ call'[d].tab # None /\ stored' = call'[d].token
        <3>1. d \in InFlight /\ RootOf(d) \notin excused /\ RootOf(d)' = RootOf(d)
            BY <1>3, <2>1
        <3>2. InFlight = {d} /\ call[d].tab # None /\ stored = call[d].token
            BY <3>1 DEF CInv, Sole
        <3>3. d = c
            BY <3>2
        <3>4. n.step # "none"
            BY <1>1, <2>1, <3>2, <3>3
        <3> QED BY <1>1, <2>1, <3>1, <3>2, <3>3, <3>4
    <2> QED BY <2>1 DEF Sole
<1>5. AllGood'
    <2>1. ASSUME NEW r \in 1..MaxId \ excused', r # root PROVE Good(r)'
        <3>1. Good(r) /\ Live(r)' = Live(r)
            BY <2>1 DEF CInv, AllGood
        <3>2. ASSUME stored' # 0, session'[stored'].root = r
              PROVE  /\ r \notin out
                     /\ \/ stored' \in Live(r)
                        \/ \E d \in InFlight' :
                              call'[d].token = stored' /\ call'[d].step \in {"create", "granted"}
            <4>1. stored' = stored /\ stored \in Made /\ session[stored].root = r
                BY <2>1, <3>2 DEF CInv, Family
            <4>2. r \notin out
                BY <3>1, <4>1, <3>2 DEF Good
            <4>3. CASE stored \in Live(r)
                BY <4>1, <4>2, <4>3
            <4>4. ASSUME NEW d \in InFlight, call[d].token = stored,
                         call[d].step \in {"create", "granted"}
                  PROVE  /\ d \in InFlight'
                         /\ call'[d].token = stored' /\ call'[d].step \in {"create", "granted"}
                <5>1. d # c
                    BY <2>1, <4>1, <4>4 DEF RootOf
                <5> QED BY <1>1, <4>1, <4>4, <5>1 DEF InFlight
            <4> QED BY <3>1, <3>2, <4>1, <4>2, <4>3, <4>4 DEF Good
        <3>3. ASSUME NEW d \in InFlight', RootOf(d)' = r
              PROVE  /\ call'[d].step # "chain"
                     /\ call'[d].step = "create" => Live(r) = {}
                     /\ call'[d].step = "granted" => call'[d].fresh \in Live(r)
                     /\ call'[d].step = "refused" => ~Active(Owner)
            <4>1. d \in InFlight /\ RootOf(d) = r
                BY <1>3, <3>3
            <4>2. d # c /\ call'[d] = call[d]
                BY <1>1, <2>1, <4>1, <3>3 DEF InFlight
            <4> QED BY <3>1, <4>1, <4>2 DEF Good
        <3>4. Active(Owner)' = Active(Owner)
            BY DEF Active
        <3> QED BY <3>1, <3>2, <3>3, <3>4 DEF Good
    <2> QED BY <2>1 DEF AllGood
<1> QED BY <1>2, <1>4, <1>5 DEF CInv

\* Lemma: the same, when no session is made: what refers to sessions still does.
LEMMA OneCallInPlace ==
    ASSUME CInv, NEW c \in InFlight, NEW n \in Call, call' = [call EXCEPT ![c] = n],
           n.step # "none" => n.token = call[c].token,
           call[c].step \in Ended => n.step \in Ended,
           n.step # "granted", n.fresh = 0,
           NEW root \in 1..MaxId, root = RootOf(c),
           session' \in [1..MaxId -> Session], Made' = Made,
           \A id \in 1..MaxId : /\ session'[id].root = session[id].root
                                /\ session'[id].parent = session[id].parent,
           \A r \in 1..MaxId \ {root} : Live(r)' = Live(r),
           stored' \in 0..MaxId,
           stored' # 0 => stored' \in Made /\ (stored' = stored \/ session[stored'].root = root),
           out' = out, account' = account,
           excused' = excused \/ excused' = excused \cup {root},
           root \notin excused' /\ n.step # "none" => n.tab = call[c].tab /\ stored' = stored,
           root \notin excused' => Good(root)'
    PROVE  CInv'
<1>1. c \in Calls /\ ClientTypes /\ Numbered /\ Family
    BY DEF CInv, InFlight
<1>2. /\ \A d \in Calls : call'[d] = IF d = c THEN n ELSE call[d]
      /\ InFlight' = IF n.step = "none" THEN InFlight \ {c} ELSE InFlight \cup {c}
    BY <1>1, OthersStay
<1>3. Numbered'
    BY <1>1, RoomStays
<1>4. Made \subseteq 1..MaxId
    BY DEF Made
<1>5. Family'
    <2>1. \A id \in Made :
             /\ session'[id].root \in Made
             /\ session'[id].parent # 0 =>
                   /\ session'[id].parent \in Made
                   /\ session'[session'[id].parent].root = session'[id].root
        <3>1. ASSUME NEW id \in Made
              PROVE  /\ session'[id].root \in Made
                     /\ session'[id].parent # 0 =>
                           /\ session'[id].parent \in Made
                           /\ session'[session'[id].parent].root = session'[id].root
            <4>1. session'[id].root = session[id].root /\ session'[id].parent = session[id].parent
                BY <1>4
            <4>2. /\ session[id].root \in Made
                  /\ session[id].parent # 0 =>
                        /\ session[id].parent \in Made
                        /\ session[session[id].parent].root = session[id].root
                BY <1>1 DEF Family
            <4> QED BY <1>4, <4>1, <4>2
        <3> QED BY <3>1
    <2>2. \A d \in InFlight' : call'[d].token \in Made
        <3>1. ASSUME NEW d \in InFlight' PROVE call'[d].token \in Made
            <4>1. CASE d = c
                <5>1. call'[d].token = call[c].token
                    BY <1>1, <1>2, <3>1, <4>1 DEF InFlight
                <5> QED BY <1>1, <5>1 DEF Family
            <4>2. CASE d # c
                BY <1>1, <1>2, <3>1, <4>2 DEF Family, InFlight
            <4> QED BY <4>1, <4>2
        <3> QED BY <3>1
    <2>3. ASSUME NEW d \in Calls
          PROVE  IF call'[d].step = "granted"
                 THEN call'[d].fresh \in Made /\ session'[call'[d].fresh].root = RootOf(d)'
                 ELSE call'[d].fresh = 0
        <3>1. CASE d = c
            BY <1>1, <1>2, <3>1
        <3>2. CASE d # c
            <4>1. call'[d] = call[d]
                BY <1>2, <3>2
            <4>2. call[d].step = "granted" => call[d].token \in Made
                BY <1>1 DEF Family, InFlight
            <4>3. CASE call[d].step = "granted"
                <5>1. call[d].fresh \in Made /\ session[call[d].fresh].root = RootOf(d)
                    BY <1>1, <4>3 DEF Family
                <5>2. RootOf(d)' = RootOf(d)
                    BY <1>4, <4>1, <4>2, <4>3 DEF RootOf
                <5> QED BY <1>4, <4>1, <4>3, <5>1, <5>2
            <4>4. CASE call[d].step # "granted"
                BY <1>1, <4>1, <4>4 DEF Family
            <4> QED BY <4>3, <4>4
        <3> QED BY <3>1, <3>2
    <2> QED BY <1>1, <2>1, <2>2, <2>3 DEF Family
<1>6. \A id \in Made : id \in Made' /\ session'[id].root = session[id].root
    BY <1>4
<1>7. stored' # 0 => stored' = stored \/ session'[stored'].root = root
    BY <1>4
<1> QED BY <1>3, <1>5, <1>6, <1>7, OneCall

\* Lemma: where the token of a call is, and whether it is live.
LEMMA Presented ==
    ASSUME CInv, NEW c \in InFlight
    PROVE  /\ c \in Calls /\ call[c] \in Call /\ call[c].token \in Made
           /\ RootOf(c) \in 1..MaxId
           /\ RootOf(c) \notin excused =>
                 /\ Good(RootOf(c)) /\ InFlight = {c} /\ call[c].tab # None
                 /\ stored = call[c].token /\ RootOf(c) \notin out
                 /\ call[c].step \notin {"create", "granted"} => stored \in Live(RootOf(c))
<1>1. c \in Calls /\ call[c] \in Call /\ call[c].token \in Made
    BY DEF CInv, InFlight, ClientTypes, Family
<1>2. RootOf(c) \in 1..MaxId
    BY <1>1 DEF CInv, Family, RootOf, Made
<1>3. ASSUME RootOf(c) \notin excused
      PROVE  /\ Good(RootOf(c)) /\ InFlight = {c} /\ call[c].tab # None
             /\ stored = call[c].token
    BY <1>2, <1>3 DEF CInv, AllGood, Sole
<1>4. ASSUME RootOf(c) \notin excused
      PROVE  /\ RootOf(c) \notin out
             /\ call[c].step \notin {"create", "granted"} => stored \in Live(RootOf(c))
    <2>1. stored # 0 /\ session[stored].root = RootOf(c)
        BY <1>1, <1>3, <1>4 DEF RootOf, Made
    <2> QED BY <1>3, <1>4, <2>1 DEF Good
<1> QED BY <1>1, <1>2, <1>3, <1>4

\* Lemma: a live session is made, of its login.
LEMMA LiveIs ==
    ASSUME NEW id, NEW root
    PROVE  id \in Live(root) <=> id \in Made /\ session[id].root = root /\ session[id].live
BY DEF Live

\* Lemma: a call that goes on, or ends, without a change of sessions.
LEMMA Advancing ==
    ASSUME CInv, NEW c \in InFlight, NEW s \in {"user", "chain", "revoke", "create", "refused"},
           call[c].step \notin Ended, Advance(c, s),
           UNCHANGED <<session, stored, out, account>>,
           excused' = excused \/ excused' = excused \cup {RootOf(c)},
           RootOf(c) \notin excused' =>
               /\ s \in {"user", "revoke", "refused"}
               /\ call[c].step \notin {"create", "granted"}
               /\ s = "refused" => ~Active(Owner)
    PROVE  CInv'
<1>1. PICK root \in 1..MaxId : root = RootOf(c)
    BY Presented
<1>2. c \in Calls /\ call[c] \in Call /\ call[c].token \in Made
    BY Presented
<1>3. PICK n \in Call : n = [call[c] EXCEPT !.step = s]
    BY <1>2 DEF Call
<1>4. n.step = s /\ n.token = call[c].token /\ n.fresh = call[c].fresh /\ n.tab = call[c].tab
    BY <1>2, <1>3 DEF Call
<1>5. call' = [call EXCEPT ![c] = n]
    BY <1>3 DEF Advance
<1>6. n.fresh = 0
    BY <1>2, <1>4 DEF CInv, Family, Ended
<1>7. \A d \in Calls : call'[d] = IF d = c THEN n ELSE call[d]
    BY <1>2, <1>5 DEF CInv, ClientTypes
<1>8. InFlight' = InFlight
    BY <1>2, <1>4, <1>7 DEF InFlight
<1>9. Made' = Made /\ \A r : Live(r)' = Live(r)
    BY DEF Made, Live
<1>10. ASSUME root \notin excused' PROVE Good(root)'
    <2>1. root \notin excused
        BY <1>10
    <2>2. /\ Good(root) /\ InFlight = {c} /\ stored = call[c].token /\ root \notin out
          /\ stored \in Live(root)
        BY <1>1, <1>10, <2>1, Presented
    <2>3. call'[c].step \in {"user", "revoke", "refused"}
          /\ (call'[c].step = "refused" => ~Active(Owner))
        BY <1>1, <1>2, <1>4, <1>7, <1>10
    <2>4. Active(Owner)' = Active(Owner)
        BY DEF Active
    <2> QED BY <1>8, <1>9, <2>2, <2>3, <2>4 DEF Good
<1>11. session' \in [1..MaxId -> Session] /\ stored' \in 0..MaxId
    BY DEF CInv, ClientTypes
<1>12. stored' # 0 => stored' \in Made
    BY DEF CInv, Family
<1>13. \A id \in 1..MaxId : /\ session'[id].root = session[id].root
                            /\ session'[id].parent = session[id].parent
    OBVIOUS
<1>14. \A r \in 1..MaxId \ {root} : Live(r)' = Live(r)
    BY <1>9
<1>15. call[c].step \in Ended => n.step \in Ended
    OBVIOUS
<1>16. out' = out /\ account' = account /\ stored' = stored
    OBVIOUS
<1>17. n.step # "granted"
    BY <1>4
<1>18. excused' = excused \/ excused' = excused \cup {root}
    BY <1>1
<1> QED BY <1>1, <1>4, <1>5, <1>6, <1>9, <1>10, <1>11, <1>12, <1>13, <1>14, <1>15, <1>16, <1>17,
           <1>18, OneCallInPlace

-----------------------------------------------------------------------------
(* The exchange, step by step *)

\* Lemma: the token of a login that nothing excuses is found live.
LEMMA RefreshFindKeeps == ASSUME CInv, NEW c \in Calls, RefreshFind(c) PROVE CInv'
<1>1. /\ call[c].step = "find" /\ c \in InFlight
      /\ UNCHANGED <<session, stored, out, account>> /\ excused' = excused
    BY DEF RefreshFind, On, InFlight, admin
<1>2. RootOf(c) \notin excused => session[call[c].token].live
    BY <1>1, Presented, LiveIs
<1>3. PICK s \in {"user", "chain"} :
         Advance(c, s) /\ (s = "chain" => ~session[call[c].token].live)
    BY DEF RefreshFind
<1>4. RootOf(c) \notin excused' =>
         /\ s \in {"user", "revoke", "refused"}
         /\ call[c].step \notin {"create", "granted"}
         /\ s = "refused" => ~Active(Owner)
    BY <1>1, <1>2, <1>3
<1> QED BY <1>1, <1>3, <1>4, Advancing DEF Ended

\* Lemma: only the owner of a closed account is refused.
LEMMA RefreshUserKeeps == ASSUME CInv, NEW c \in Calls, RefreshUser(c) PROVE CInv'
<1>1. /\ call[c].step = "user" /\ c \in InFlight
      /\ UNCHANGED <<session, stored, out, account>> /\ excused' = excused
    BY DEF RefreshUser, On, InFlight, admin
<1>2. PICK s \in {"revoke", "refused"} : Advance(c, s) /\ (s = "refused" => ~Active(Owner))
    BY DEF RefreshUser
<1>3. RootOf(c) \notin excused' =>
         /\ s \in {"user", "revoke", "refused"}
         /\ call[c].step \notin {"create", "granted"}
         /\ s = "refused" => ~Active(Owner)
    BY <1>1, <1>2
<1> QED BY <1>1, <1>2, <1>3, Advancing DEF Ended

\* Lemma: a statement that fails excuses the login.
LEMMA FailKeeps == ASSUME CInv, NEW c \in Calls, Fail(c) PROVE CInv'
<1>1. /\ call[c].step \notin Ended /\ c \in InFlight /\ Advance(c, "refused")
      /\ UNCHANGED <<session, stored, out, account>>
      /\ excused' = excused \cup {RootOf(c)}
    BY DEF Fail, Ended, InFlight, admin, RootOf
<1>2. RootOf(c) \in excused'
    BY <1>1
<1> QED BY <1>1, <1>2, Advancing

\* Lemma: a chain that is revoked is of a login already excused.
LEMMA RefreshChainKeeps == ASSUME CInv, NEW c \in Calls, RefreshChain(c) PROVE CInv'
<1>1. /\ call[c].step = "chain" /\ c \in InFlight /\ session' = Revoked(Chain(call[c].token))
      /\ call' = [call EXCEPT ![c].step = "refused"]
      /\ stored' = stored /\ out' = out /\ account' = account /\ excused' = excused
    BY DEF RefreshChain, On, InFlight, admin, Advance
<1>2. PICK root \in 1..MaxId : root = RootOf(c)
    BY <1>1, Presented
<1>3. call[c] \in Call /\ call[c].token \in Made /\ ClientTypes /\ Family
    BY <1>1, Presented DEF CInv
<1>4. root \in excused
    BY <1>1, <1>2, Presented DEF Good
<1>5. /\ session' \in [1..MaxId -> Session]
      /\ Made' = Made
      /\ \A id \in 1..MaxId : /\ session'[id].root = session[id].root
                              /\ session'[id].parent = session[id].parent
      /\ \A r \in 1..MaxId : Live(r)' = Live(r) \ Chain(call[c].token)
    BY <1>1, <1>3, Revoking
<1>6. \A r \in 1..MaxId \ {root} : Live(r)' = Live(r)
    <2>1. \A m \in Chain(call[c].token) : session[m].root = root
        BY <1>2, <1>3, Kin DEF RootOf
    <2> QED BY <1>5, <2>1 DEF Live
<1>7. PICK n \in Call : n = [call[c] EXCEPT !.step = "refused"]
    BY <1>3 DEF Call
<1>8. n.step = "refused" /\ n.token = call[c].token /\ n.fresh = 0
    <2>1. call[c].fresh = 0
        BY <1>1, <1>3 DEF Family
    <2> QED BY <1>3, <1>7, <2>1 DEF Call
<1>9. call' = [call EXCEPT ![c] = n]
    BY <1>1, <1>7
<1>10. stored' \in 0..MaxId /\ (stored' # 0 => stored' \in Made /\ stored' = stored)
    BY <1>1, <1>3 DEF ClientTypes, Family
<1> QED BY <1>1, <1>2, <1>4, <1>5, <1>6, <1>8, <1>9, <1>10, OneCallInPlace DEF Ended

\* Lemma: the token is consumed: the login has no live session for a while.
LEMMA RefreshRevokeKeeps == ASSUME CInv, NEW c \in Calls, RefreshRevoke(c) PROVE CInv'
<1> DEFINE k == call[c].token
<1>1. /\ call[c].step = "revoke" /\ c \in InFlight /\ session' = Revoked({k})
      /\ call' = [call EXCEPT ![c].step = "create"]
      /\ stored' = stored /\ out' = out /\ account' = account /\ excused' = excused
    BY DEF RefreshRevoke, On, InFlight, admin, Advance, Consumed
<1>2. PICK root \in 1..MaxId : root = RootOf(c)
    BY <1>1, Presented
<1>3. c \in Calls /\ call[c] \in Call /\ k \in Made /\ ClientTypes /\ Family
    BY <1>1, Presented DEF CInv
<1>4. /\ session' \in [1..MaxId -> Session]
      /\ Made' = Made
      /\ \A id \in 1..MaxId : /\ session'[id].root = session[id].root
                              /\ session'[id].parent = session[id].parent
      /\ \A r \in 1..MaxId : Live(r)' = Live(r) \ {k}
    BY <1>1, <1>3, Revoking
<1>5. \A r \in 1..MaxId \ {root} : Live(r)' = Live(r)
    BY <1>2, <1>4 DEF Live, RootOf
<1>6. PICK n \in Call : n = [call[c] EXCEPT !.step = "create"]
    BY <1>3 DEF Call
<1>7. n.step = "create" /\ n.token = k /\ n.fresh = 0 /\ n.tab = call[c].tab
    <2>1. call[c].fresh = 0
        BY <1>1, <1>3 DEF Family
    <2> QED BY <1>3, <1>6, <2>1 DEF Call
<1>8. call' = [call EXCEPT ![c] = n]
    BY <1>1, <1>6
<1>9. stored' \in 0..MaxId /\ (stored' # 0 => stored' \in Made /\ stored' = stored)
    BY <1>1, <1>3 DEF ClientTypes, Family
<1>10. ASSUME root \notin excused PROVE Good(root)'
    <2>1. /\ Good(root) /\ InFlight = {c} /\ stored = k /\ root \notin out
          /\ stored \in Live(root)
        BY <1>1, <1>2, <1>10, Presented
    <2>2. Live(root)' = {}
        BY <1>4, <2>1 DEF Good
    <2>3. \A d \in Calls : call'[d] = IF d = c THEN n ELSE call[d]
        BY <1>3, <1>8 DEF ClientTypes
    <2>4. InFlight' = {c}
        BY <1>3, <1>7, <2>1, <2>3 DEF InFlight
    <2>5. call'[c].token = stored' /\ call'[c].step = "create"
        BY <1>1, <1>3, <1>7, <2>1, <2>3
    <2> QED BY <1>1, <2>1, <2>2, <2>4, <2>5 DEF Good
<1> QED BY <1>1, <1>2, <1>4, <1>5, <1>7, <1>8, <1>9, <1>10, OneCallInPlace DEF Ended

\* Lemma: its successor is made, in the place that was kept for it.
LEMMA RefreshCreateKeeps == ASSUME CInv, NEW c \in Calls, RefreshCreate(c) PROVE CInv'
<1> DEFINE k == call[c].token
<1>1. /\ call[c].step = "create" /\ c \in InFlight
      /\ Add(k, RootOf(c))
      /\ call' = [call EXCEPT ![c] = [call[c] EXCEPT !.step = "granted", !.fresh = NewId]]
      /\ stored' = stored /\ out' = out /\ account' = account /\ excused' = excused
    BY DEF RefreshCreate, On, InFlight, admin, RootOf
<1>2. PICK root \in 1..MaxId : root = RootOf(c)
    BY <1>1, Presented
<1>3. c \in Calls /\ call[c] \in Call /\ k \in Made /\ ClientTypes /\ Family
    BY <1>1, Presented DEF CInv
<1>4. PICK m \in 0..MaxId : Made = 1..m /\ m + Cardinality(Pending) <= MaxId
    BY DEF CInv, Numbered
<1>5. c \in Pending /\ IsFiniteSet(Pending) /\ Cardinality(Pending) \in Nat
    BY <1>1, FS_Subset, FS_CardinalityType DEF Pending, Ended
<1>6. /\ Cardinality(Pending \ {c}) = Cardinality(Pending) - 1
      /\ Cardinality(Pending \ {c}) \in Nat
    BY <1>5, FS_RemoveElement, FS_CardinalityType
<1>7. m < MaxId
    BY <1>4, <1>5, <1>6
<1>8. k \in 0..MaxId
    BY <1>3 DEF Made
<1>9. /\ session' \in [1..MaxId -> Session]
      /\ NewId = m + 1 /\ Made' = 1..m + 1
      /\ \A id \in Made : session'[id] = session[id]
      /\ session'[m + 1].root = root /\ session'[m + 1].parent = k
      /\ \A r \in 1..MaxId : Live(r)' = IF r = root THEN Live(r) \cup {m + 1} ELSE Live(r)
    BY <1>1, <1>2, <1>3, <1>4, <1>7, <1>8, Adding
<1>22. m + 1 \in 0..MaxId
    BY <1>4, <1>7
<1>10. PICK n \in Call : n = [call[c] EXCEPT !.step = "granted", !.fresh = m + 1]
    BY <1>3, <1>22 DEF Call
<1>11. n.step = "granted" /\ n.token = k /\ n.fresh = m + 1 /\ n.tab = call[c].tab
    BY <1>3, <1>10 DEF Call
<1>12. call' = [call EXCEPT ![c] = n]
    BY <1>1, <1>9, <1>10
<1>13. /\ \A d \in Calls : call'[d] = IF d = c THEN n ELSE call[d]
       /\ InFlight' = InFlight
    BY <1>1, <1>3, <1>11, <1>12 DEF ClientTypes, InFlight
<1>14. Numbered'
    <2>1. Pending' = Pending \ {c}
        BY <1>11, <1>13 DEF Pending, Ended
    <2>2. m + 1 \in 0..MaxId /\ m + 1 + Cardinality(Pending') <= MaxId
        BY <1>4, <1>5, <1>6, <1>7, <2>1
    <2> QED BY <1>9, <2>2 DEF Numbered
<1>15. Made \subseteq Made' /\ m + 1 \in Made' /\ m + 1 # 0
    BY <1>4, <1>9
<1>16. root \in Made /\ session[k].root = root
    BY <1>2, <1>3 DEF RootOf, Family
<1>17. Family'
    <2>1. ASSUME NEW id \in Made'
          PROVE  /\ session'[id].root \in Made'
                 /\ session'[id].parent # 0 =>
                       /\ session'[id].parent \in Made'
                       /\ session'[session'[id].parent].root = session'[id].root
        <3>1. CASE id = m + 1
            BY <1>3, <1>9, <1>15, <1>16, <3>1
        <3>2. CASE id # m + 1
            <4>1. id \in Made /\ session'[id] = session[id]
                BY <1>4, <1>9, <3>2
            <4>2. /\ session[id].root \in Made
                  /\ session[id].parent # 0 =>
                        /\ session[id].parent \in Made
                        /\ session[session[id].parent].root = session[id].root
                BY <1>3, <4>1 DEF Family
            <4> QED BY <1>9, <1>15, <4>1, <4>2
        <3> QED BY <3>1, <3>2
    <2>2. \A d \in InFlight : call'[d].token = call[d].token /\ call[d].token \in Made
        BY <1>3, <1>11, <1>13 DEF Family, InFlight
    <2>3. ASSUME NEW d \in Calls
          PROVE  IF call'[d].step = "granted"
                 THEN call'[d].fresh \in Made' /\ session'[call'[d].fresh].root = RootOf(d)'
                 ELSE call'[d].fresh = 0
        <3>1. CASE d = c
            <4>1. call'[c].step = "granted" /\ call'[c].fresh = m + 1 /\ call'[c].token = k
                BY <1>3, <1>11, <1>13
            <4>2. RootOf(c)' = root
                BY <1>3, <1>9, <1>16, <4>1 DEF RootOf
            <4> QED BY <1>9, <1>15, <3>1, <4>1, <4>2
        <3>2. CASE d # c
            <4>1. call'[d] = call[d]
                BY <1>13, <3>2
            <4>2. CASE call[d].step = "granted"
                <5>1. /\ call[d].fresh \in Made /\ session[call[d].fresh].root = RootOf(d)
                      /\ call[d].token \in Made
                    BY <1>3, <4>2 DEF Family, InFlight
                <5>2. RootOf(d)' = RootOf(d)
                    BY <1>9, <4>1, <5>1 DEF RootOf
                <5> QED BY <1>9, <1>15, <4>1, <4>2, <5>1, <5>2
            <4>3. CASE call[d].step # "granted"
                BY <1>3, <4>1, <4>3 DEF Family
            <4> QED BY <4>2, <4>3
        <3> QED BY <3>1, <3>2
    <2>4. (stored' # 0 => stored' \in Made') /\ out' \subseteq Made'
        BY <1>1, <1>3, <1>15 DEF Family
    <2> QED BY <1>13, <1>15, <2>1, <2>2, <2>3, <2>4 DEF Family
<1>18. ASSUME root \notin excused PROVE Good(root)'
    <2>1. Good(root) /\ InFlight = {c} /\ stored = k /\ root \notin out
        BY <1>1, <1>2, <1>18, Presented
    <2>2. RootOf(c) = root
        BY <1>2
    <2>3. Live(root)' = {m + 1}
        BY <1>1, <1>9, <2>1, <2>2 DEF Good
    <2>4. call'[c].token = stored' /\ call'[c].step = "granted" /\ call'[c].fresh = m + 1
        BY <1>1, <1>3, <1>11, <1>13, <2>1
    <2> QED BY <1>1, <1>13, <2>1, <2>3, <2>4 DEF Good
<1>19. stored' \in 0..MaxId
    BY <1>1, <1>3 DEF ClientTypes
<1>20. \A id \in Made : id \in Made' /\ session'[id].root = session[id].root
    BY <1>9, <1>15
<1>21. \A r \in 1..MaxId \ {root} : Live(r)' = Live(r)
    BY <1>9
<1> QED BY <1>1, <1>2, <1>9, <1>11, <1>12, <1>14, <1>17, <1>18, <1>19, <1>20, <1>21, OneCall

\* Lemma: nobody waits for a call that ends; nothing is left of it.
LEMMA NoCallIs == NoCall \in Call /\ NoCall.step = "none" /\ NoCall.fresh = 0 /\ NoCall.tab = None
BY DEF NoCall, Call

\* Lemma: the answer replaces the token that was presented.
LEMMA AnsweredKeeps == ASSUME CInv, NEW c \in Calls, Answered(c) PROVE CInv'
<1>1. /\ call[c].step \in {"granted", "refused"} /\ c \in InFlight
      /\ stored' = IF call[c].tab = None THEN stored ELSE call[c].fresh
      /\ call' = [call EXCEPT ![c] = NoCall]
      /\ session' = session /\ out' = out /\ account' = account /\ excused' = excused
    BY DEF Answered, On, InFlight, admin
<1>2. PICK root \in 1..MaxId : root = RootOf(c)
    BY <1>1, Presented
<1>3. call[c] \in Call /\ call[c].token \in Made /\ ClientTypes /\ Family
    BY <1>1, Presented DEF CInv
<1>4. PICK n \in Call : n = NoCall /\ n.step = "none" /\ n.fresh = 0
    BY NoCallIs
<1>5. call' = [call EXCEPT ![c] = n]
    BY <1>1, <1>4
<1>6. Made' = Made /\ \A r : Live(r)' = Live(r)
    BY <1>1 DEF Made, Live
<1>7. /\ call[c].step = "granted" => call[c].fresh \in Made /\ session[call[c].fresh].root = root
      /\ call[c].step # "granted" => call[c].fresh = 0
    BY <1>2, <1>3 DEF Family
<1>8. /\ stored' \in 0..MaxId
      /\ stored' # 0 => stored' \in Made /\ (stored' = stored \/ session[stored'].root = root)
    <2>1. CASE call[c].tab = None
        BY <1>1, <1>3, <2>1 DEF ClientTypes, Family
    <2>2. CASE call[c].tab # None
        BY <1>1, <1>3, <1>7, <2>2 DEF Call
    <2> QED BY <2>1, <2>2
<1>9. ASSUME root \notin excused PROVE Good(root)'
    <2>1. Good(root) /\ InFlight = {c} /\ call[c].tab # None /\ root \notin out
        BY <1>1, <1>2, <1>9, Presented
    <2>2. InFlight' = {}
        <3>1. c \in Calls /\ \A d \in Calls : call'[d] = IF d = c THEN n ELSE call[d]
            BY <1>3, <1>5 DEF ClientTypes
        <3>2. \A d \in Calls \ {c} : call[d].step = "none"
            BY <2>1 DEF InFlight
        <3> QED BY <1>4, <3>1, <3>2 DEF InFlight
    <2>3. stored' = call[c].fresh
        BY <1>1, <2>1
    <2>4. RootOf(c) = root
        BY <1>2
    <2>5. stored' # 0 => stored' \in Live(root)
        BY <1>1, <1>7, <2>1, <2>3, <2>4 DEF Good
    <2> QED BY <1>1, <1>6, <2>1, <2>2, <2>5 DEF Good
<1>10. session' \in [1..MaxId -> Session] /\ \A id \in 1..MaxId :
           session'[id].root = session[id].root /\ session'[id].parent = session[id].parent
    BY <1>1, <1>3 DEF ClientTypes
<1>11. \A r \in 1..MaxId \ {root} : Live(r)' = Live(r)
    BY <1>6
<1> QED BY <1>1, <1>2, <1>4, <1>5, <1>6, <1>8, <1>9, <1>10, <1>11, OneCallInPlace DEF Ended

\* Lemma: an answer that is lost excuses the login.
LEMMA LostKeeps == ASSUME CInv, NEW c \in Calls, Lost(c) PROVE CInv'
<1>1. /\ c \in InFlight
      /\ call' = [call EXCEPT ![c] = IF call[c].step \in {"granted", "refused"} THEN NoCall
                                     ELSE [call[c] EXCEPT !.tab = None]]
      /\ stored' \in {stored, 0}
      /\ excused' = excused \cup {RootOf(c)}
      /\ session' = session /\ out' = out /\ account' = account
    BY DEF Lost, On, admin, RootOf
<1>2. PICK root \in 1..MaxId : root = RootOf(c)
    BY <1>1, Presented
<1>3. call[c] \in Call /\ ClientTypes /\ Family
    BY <1>1, Presented DEF CInv
<1>4. PICK n \in Call :
         /\ call' = [call EXCEPT ![c] = n]
         /\ n.step # "none" => n.token = call[c].token
         /\ call[c].step \in Ended => n.step \in Ended
         /\ n.step # "granted" /\ n.fresh = 0
    <2>1. CASE call[c].step \in {"granted", "refused"}
        BY <1>1, <2>1, NoCallIs DEF Ended
    <2>2. CASE call[c].step \notin {"granted", "refused"}
        <3>1. PICK n \in Call : n = [call[c] EXCEPT !.tab = None]
            BY <1>3 DEF Call
        <3>2. n.step = call[c].step /\ n.token = call[c].token /\ n.fresh = call[c].fresh
            BY <1>3, <3>1 DEF Call
        <3>3. call[c].fresh = 0
            BY <1>3, <2>2 DEF Family
        <3> QED BY <1>1, <2>2, <3>1, <3>2, <3>3
    <2> QED BY <2>1, <2>2
<1>5. Made' = Made /\ \A r : Live(r)' = Live(r)
    BY <1>1 DEF Made, Live
<1>6. stored' \in 0..MaxId /\ (stored' # 0 => stored' \in Made /\ stored' = stored)
    BY <1>1, <1>3 DEF ClientTypes, Family
<1>7. session' \in [1..MaxId -> Session] /\ \A id \in 1..MaxId :
           session'[id].root = session[id].root /\ session'[id].parent = session[id].parent
    BY <1>1, <1>3 DEF ClientTypes
<1>8. root \in excused' /\ excused' = excused \cup {root}
    BY <1>1, <1>2
<1>9. \A r \in 1..MaxId \ {root} : Live(r)' = Live(r)
    BY <1>5
<1> QED BY <1>1, <1>2, <1>4, <1>5, <1>6, <1>7, <1>8, <1>9, OneCallInPlace

-----------------------------------------------------------------------------
(* Logins, logouts and new exchanges *)

\* Lemma: a login makes the root of a new chain.
LEMMA LoginKeeps == ASSUME CInv, Login PROVE CInv'
<1>1. /\ stored = 0 /\ Room /\ Add(0, NewId) /\ stored' = NewId
      /\ account' = account /\ call' = call /\ excused' = excused /\ out' = out
    BY DEF Login, admin
<1>2. ClientTypes /\ Family /\ Sole
    BY DEF CInv
<1>3. PICK m \in 0..MaxId : Made = 1..m /\ m + Cardinality(Pending) <= MaxId
    BY DEF CInv, Numbered
<1>4. /\ IsFiniteSet(InFlight) /\ Cardinality(InFlight) \in Nat
      /\ Cardinality(Pending) \in Nat /\ Cardinality(Pending) <= Cardinality(InFlight)
    BY FS_Subset, FS_CardinalityType DEF Pending, InFlight, Ended
<1>5. Cardinality(Made) = m
    BY <1>2, <1>3, Counted
<1>6. m + 1 + Cardinality(Pending) <= MaxId
    BY <1>1, <1>4, <1>5 DEF Room
<1> DEFINE k == m + 1
<1>7. m < MaxId /\ k \in 1..MaxId /\ 0 \in 0..MaxId /\ NewId = k
    BY <1>2, <1>3, <1>4, <1>6, Counted
<1>8. Add(0, k)
    BY <1>1, <1>7
<1>9. /\ session' \in [1..MaxId -> Session]
      /\ Made' = 1..m + 1
      /\ \A id \in Made : session'[id] = session[id]
      /\ session'[m + 1].root = k /\ session'[m + 1].parent = 0
      /\ \A r \in 1..MaxId : Live(r)' = IF r = k THEN Live(r) \cup {m + 1} ELSE Live(r)
    BY <1>2, <1>3, <1>7, <1>8, Adding
<1>10. Made \subseteq Made' /\ k \in Made' /\ k \notin Made /\ Made \subseteq 1..MaxId
    BY <1>3, <1>7, <1>9
<1> HIDE DEF k
<1>11. stored' = k /\ k # 0
    BY <1>1, <1>7
<1>12. ClientTypes'
    BY <1>1, <1>2, <1>7, <1>9, <1>11 DEF ClientTypes
<1>13. Numbered'
    <2>1. Pending' = Pending
        BY <1>1 DEF Pending
    <2> QED BY <1>6, <1>7, <1>9, <2>1 DEF Numbered, k
<1>14. InFlight' = InFlight
    BY <1>1 DEF InFlight
<1>15. ASSUME NEW c \in Calls, call[c].token \in Made PROVE RootOf(c)' = RootOf(c)
    BY <1>1, <1>9, <1>15 DEF RootOf
<1>16. Family'
    <2>1. ASSUME NEW id \in Made'
          PROVE  /\ session'[id].root \in Made'
                 /\ session'[id].parent # 0 =>
                       /\ session'[id].parent \in Made'
                       /\ session'[session'[id].parent].root = session'[id].root
        <3>1. CASE id = k
            BY <1>9, <1>10, <3>1 DEF k
        <3>2. CASE id # k
            <4>1. id \in Made /\ session'[id] = session[id]
                BY <1>3, <1>9, <3>2 DEF k
            <4>2. /\ session[id].root \in Made
                  /\ session[id].parent # 0 =>
                        /\ session[id].parent \in Made
                        /\ session[session[id].parent].root = session[id].root
                BY <1>2, <4>1 DEF Family
            <4> QED BY <1>9, <1>10, <4>1, <4>2
        <3> QED BY <3>1, <3>2
    <2>2. \A c \in InFlight : call[c].token \in Made'
        BY <1>2, <1>10 DEF Family
    <2>3. ASSUME NEW c \in Calls
          PROVE  IF call[c].step = "granted"
                 THEN call[c].fresh \in Made' /\ session'[call[c].fresh].root = RootOf(c)'
                 ELSE call[c].fresh = 0
        <3>1. CASE call[c].step = "granted"
            <4>1. /\ call[c].fresh \in Made /\ session[call[c].fresh].root = RootOf(c)
                  /\ call[c].token \in Made
                BY <1>2, <3>1 DEF Family, InFlight
            <4> QED BY <1>9, <1>10, <1>15, <3>1, <4>1
        <3>2. CASE call[c].step # "granted"
            BY <1>2, <3>2 DEF Family
        <3> QED BY <3>1, <3>2
    <2>4. stored' \in Made' /\ out' \subseteq Made'
        BY <1>1, <1>2, <1>10, <1>11 DEF Family
    <2> QED BY <1>1, <1>14, <2>1, <2>2, <2>3, <2>4 DEF Family
<1>17. ASSUME NEW c \in InFlight PROVE /\ RootOf(c) \in excused /\ RootOf(c)' = RootOf(c)
                                       /\ RootOf(c) \in Made
    <2>1. c \in Calls /\ call[c].token \in Made
        BY <1>2 DEF Family, InFlight
    <2>2. call[c].token # 0
        BY <1>10, <2>1
    <2>3. RootOf(c) \in Made
        BY <1>2, <2>1 DEF Family, RootOf
    <2> QED BY <1>1, <1>2, <1>15, <2>1, <2>2, <2>3 DEF Sole
<1>18. Sole'
    BY <1>1, <1>14, <1>17 DEF Sole
<1>19. AllGood'
    <2>1. ASSUME NEW r \in 1..MaxId \ excused PROVE Good(r)'
        <3>1. Good(r)
            BY <2>1 DEF CInv, AllGood
        <3>2. \A c \in InFlight : RootOf(c)' # r
            BY <1>17, <2>1
        <3>3. CASE r = k
            <4>1. Live(r) = {}
                BY <1>2, <1>10, <3>3 DEF Live, Family
            <4>2. Live(r)' = {k}
                BY <1>9, <3>3, <4>1 DEF k
            <4>3. r \notin out'
                BY <1>1, <1>2, <1>10, <3>3 DEF Family
            <4> QED BY <1>11, <1>14, <3>2, <4>2, <4>3 DEF Good
        <3>4. CASE r # k
            <4>1. Live(r)' = Live(r)
                BY <1>9, <3>4
            <4>2. session'[stored'].root # r
                BY <1>9, <1>11, <3>4 DEF k
            <4> QED BY <1>1, <1>14, <3>1, <3>2, <4>1, <4>2 DEF Good
        <3> QED BY <3>3, <3>4
    <2> QED BY <1>1, <2>1 DEF AllGood
<1> QED BY <1>12, <1>13, <1>16, <1>18, <1>19 DEF CInv

\* Lemma: what a change of the browser's token, of what is excused or ended
\* and of live sessions leaves as it was.
LEMMA Framed ==
    ASSUME ClientTypes, Numbered, Family, call' = call,
           session' \in [1..MaxId -> Session], Made' = Made,
           \A id \in 1..MaxId : /\ session'[id].root = session[id].root
                                /\ session'[id].parent = session[id].parent,
           stored' \in {stored, 0},
           excused' \in SUBSET (1..MaxId), out' \in SUBSET (1..MaxId), out' \subseteq Made
    PROVE  /\ ClientTypes' /\ Numbered' /\ Family'
           /\ InFlight' = InFlight /\ \A c \in InFlight : RootOf(c)' = RootOf(c)
<1>1. Made \subseteq 1..MaxId
    BY DEF Made
<1>2. ClientTypes'
    BY DEF ClientTypes
<1>3. Numbered'
    <2>1. Pending' = Pending
        BY DEF Pending
    <2> QED BY <2>1 DEF Numbered
<1>4. InFlight' = InFlight
    BY DEF InFlight
<1>5. ASSUME NEW c \in Calls, call[c].token \in Made PROVE RootOf(c)' = RootOf(c)
    BY <1>1, <1>5 DEF RootOf
<1>6. ASSUME NEW c \in InFlight PROVE RootOf(c)' = RootOf(c)
    BY <1>5 DEF Family, InFlight
<1>7. Family'
    <2>1. ASSUME NEW id \in Made
          PROVE  /\ session'[id].root \in Made
                 /\ session'[id].parent # 0 =>
                       /\ session'[id].parent \in Made
                       /\ session'[session'[id].parent].root = session'[id].root
        <3>1. session'[id].root = session[id].root /\ session'[id].parent = session[id].parent
            BY <1>1
        <3>2. /\ session[id].root \in Made
              /\ session[id].parent # 0 =>
                    /\ session[id].parent \in Made
                    /\ session[session[id].parent].root = session[id].root
            BY DEF Family
        <3> QED BY <1>1, <3>1, <3>2
    <2>2. ASSUME NEW c \in Calls
          PROVE  IF call[c].step = "granted"
                 THEN call[c].fresh \in Made /\ session'[call[c].fresh].root = RootOf(c)'
                 ELSE call[c].fresh = 0
        <3>1. CASE call[c].step = "granted"
            <4>1. /\ call[c].fresh \in Made /\ session[call[c].fresh].root = RootOf(c)
                  /\ call[c].token \in Made
                BY <3>1 DEF Family, InFlight
            <4> QED BY <1>1, <1>5, <3>1, <4>1
        <3>2. CASE call[c].step # "granted"
            BY <3>2 DEF Family
        <3> QED BY <3>1, <3>2
    <2> QED BY <1>4, <2>1, <2>2 DEF Family
<1> QED BY <1>2, <1>3, <1>4, <1>6, <1>7

\* Lemma: the browser forgets its token, whatever the server hears.
LEMMA ForgettingKeeps ==
    ASSUME CInv, NEW root \in Made, root = session[stored].root,
           stored # 0, stored \in Made, stored' = 0, account' = account, call' = call,
           \/ session' = Revoked({stored}) /\ out' = out \cup {root}
           \/ session' = session /\ out' = out,
           excused' = IF InFlight = {} THEN excused ELSE excused \cup {root}
    PROVE  CInv'
<1>1. ClientTypes /\ Numbered /\ Family /\ Sole /\ AllGood
    BY DEF CInv
<1>2. root = session[stored].root
    OBVIOUS
<1>3. /\ stored # 0 /\ stored \in Made /\ stored' = 0 /\ account' = account /\ call' = call
      /\ \/ session' = Revoked({stored}) /\ out' = out \cup {root}
         \/ session' = session /\ out' = out
      /\ excused' = IF InFlight = {} THEN excused ELSE excused \cup {root}
    OBVIOUS
<1>4. /\ session' \in [1..MaxId -> Session] /\ Made' = Made
      /\ \A id \in 1..MaxId : /\ session'[id].root = session[id].root
                              /\ session'[id].parent = session[id].parent
    <2>1. CASE session' = Revoked({stored})
        BY <1>1, <2>1, Revoking
    <2>2. CASE session' = session
        BY <1>1, <2>2 DEF ClientTypes, Made
    <2> QED BY <1>3, <2>1, <2>2
<1>5. Made \subseteq 1..MaxId
    BY DEF Made
<1>6. out' \in SUBSET (1..MaxId) /\ excused' \in SUBSET (1..MaxId) /\ out' \subseteq Made
    BY <1>1, <1>3, <1>5 DEF ClientTypes, Family
<1>7. /\ ClientTypes' /\ Numbered' /\ Family'
      /\ InFlight' = InFlight /\ \A c \in InFlight : RootOf(c)' = RootOf(c)
    BY <1>1, <1>3, <1>4, <1>6, Framed
<1>8. ASSUME NEW c \in InFlight PROVE RootOf(c) \in excused'
    <2>1. CASE RootOf(c) \in excused
        BY <1>3, <2>1
    <2>2. CASE RootOf(c) \notin excused
        <3>1. RootOf(c) = root
            BY <1>1, <1>2, <2>2 DEF Sole, RootOf
        <3> QED BY <1>3, <3>1
    <2> QED BY <2>1, <2>2
<1>9. Sole'
    BY <1>7, <1>8 DEF Sole
<1>10. AllGood'
    <2>1. ASSUME NEW r \in 1..MaxId \ excused' PROVE Good(r)'
        <3>1. Good(r) /\ r \notin excused
            BY <1>1, <1>3, <2>1 DEF AllGood
        <3>2. \A c \in InFlight' : RootOf(c)' # r
            BY <1>7, <1>8, <2>1
        <3>3. Live(r)' \subseteq Live(r)
            <4>1. CASE session' = Revoked({stored})
                BY <1>1, <4>1, Revoking
            <4>2. CASE session' = session
                BY <4>2 DEF Live, Made
            <4> QED BY <1>3, <4>1, <4>2
        <3>4. r \in out' => Live(r)' = {}
            <4>1. CASE r \in out
                BY <3>1, <3>3, <4>1 DEF Good
            <4>2. CASE r \notin out
                <5>1. ASSUME r \in out' PROVE r = root /\ session' = Revoked({stored})
                    BY <1>3, <4>2, <5>1
                <5>2. ASSUME r \in out' PROVE InFlight = {}
                    BY <1>3, <2>1, <5>1, <5>2
                <5>3. ASSUME r \in out' PROVE stored \in Live(r)
                    BY <1>2, <1>3, <3>1, <5>1, <5>2, <5>3 DEF Good
                <5>4. ASSUME r \in out' PROVE Live(r)' = Live(r) \ {stored}
                    BY <1>1, <5>1, <5>4, Revoking
                <5> QED BY <3>1, <5>3, <5>4 DEF Good
            <4> QED BY <4>1, <4>2
        <3> QED BY <1>3, <3>1, <3>2, <3>3, <3>4 DEF Good
    <2> QED BY <2>1 DEF AllGood
<1> QED BY <1>7, <1>9, <1>10 DEF CInv

\* Lemma: a logout keeps the invariant.
LEMMA LogoutKeeps == ASSUME CInv, Logout PROVE CInv'
<1>1. Family
    BY DEF CInv
<1>2. PICK root \in Made : root = session[stored].root
    BY <1>1 DEF Logout, Family
<1>3. /\ stored # 0 /\ stored \in Made /\ stored' = 0 /\ account' = account /\ call' = call
      /\ \/ session' = Revoked({stored}) /\ out' = out \cup {root}
         \/ session' = session /\ out' = out
      /\ excused' = IF InFlight = {} THEN excused ELSE excused \cup {root}
    BY <1>1, <1>2 DEF Logout, admin, Family
<1> QED BY <1>2, <1>3, ForgettingKeeps

\* Lemma: so does a tab that forgets the tokens without an exchange.
LEMMA UnrefreshedKeeps == ASSUME CInv, NEW t \in Tabs, Unrefreshed(t) PROVE CInv'
<1>1. Family
    BY DEF CInv
<1>2. PICK root \in Made : root = session[stored].root
    BY <1>1 DEF Unrefreshed, Family
<1>3. /\ stored # 0 /\ stored \in Made /\ stored' = 0 /\ account' = account /\ call' = call
      /\ session' = session /\ out' = out
      /\ excused' = IF InFlight = {} THEN excused ELSE excused \cup {root}
    BY <1>1, <1>2 DEF Unrefreshed, admin, Family
<1> QED BY <1>2, <1>3, ForgettingKeeps

\* Lemma: what touches none of this keeps it, if it opens no closed account.
LEMMA ClientStays ==
    ASSUME CInv, UNCHANGED ChainVars, Active(Owner)' => Active(Owner) PROVE CInv'
<1>1. /\ call' = call /\ session' = session /\ stored' = stored /\ excused' = excused
      /\ out' = out
    BY DEF ChainVars
<1>2. Made' = Made /\ InFlight' = InFlight /\ Pending' = Pending
      /\ \A r : Live(r)' = Live(r)
    BY <1>1 DEF Made, InFlight, Pending, Live
<1>3. \A c : RootOf(c)' = RootOf(c)
    BY <1>1 DEF RootOf
<1>4. ClientTypes'
    BY <1>1 DEF CInv, ClientTypes
<1>5. Numbered'
    BY <1>2 DEF CInv, Numbered
<1>6. Family'
    BY <1>1, <1>2, <1>3 DEF CInv, Family
<1>7. Sole'
    BY <1>1, <1>2, <1>3 DEF CInv, Sole
<1>8. ASSUME NEW r \in 1..MaxId \ excused PROVE Good(r)'
    <2>1. Good(r)
        BY DEF CInv, AllGood
    <2> QED BY <1>1, <1>2, <1>3, <2>1 DEF Good
<1>9. AllGood'
    BY <1>1, <1>8 DEF AllGood
<1> QED BY <1>4, <1>5, <1>6, <1>7, <1>9 DEF CInv

\* Lemma: all the sessions of a closed account are revoked.
LEMMA OpLogoutClient == ASSUME CInv, NEW o \in Ops, OpLogout(o) PROVE CInv'
<1>1. ClientTypes /\ Numbered /\ Family /\ Sole /\ AllGood
    BY DEF CInv
<1>2. call' = call /\ stored' = stored /\ out' = out /\ account' = account
    BY DEF OpLogout
<1>3. CASE op[o].target = Owner
    <2>1. session' = Revoked(1..MaxId) /\ excused' = 1..MaxId
        BY <1>3 DEF OpLogout
    <2>2. /\ session' \in [1..MaxId -> Session] /\ Made' = Made
          /\ \A id \in 1..MaxId : /\ session'[id].root = session[id].root
                                  /\ session'[id].parent = session[id].parent
        BY <1>1, <2>1, Revoking
    <2>3. out' \in SUBSET (1..MaxId) /\ excused' \in SUBSET (1..MaxId) /\ out' \subseteq Made
        BY <1>1, <1>2, <2>1 DEF ClientTypes, Family
    <2>4. /\ ClientTypes' /\ Numbered' /\ Family'
          /\ InFlight' = InFlight /\ \A c \in InFlight : RootOf(c)' = RootOf(c)
        BY <1>1, <1>2, <2>2, <2>3, Framed
    <2>5. \A c \in InFlight : RootOf(c) \in 1..MaxId
        BY Presented
    <2>6. Sole'
        BY <2>1, <2>4, <2>5 DEF Sole
    <2>7. AllGood'
        BY <2>1 DEF AllGood
    <2> QED BY <2>4, <2>6, <2>7 DEF CInv
<1>4. CASE op[o].target # Owner
    <2>1. session' = session /\ excused' = excused
        BY <1>4 DEF OpLogout
    <2> QED BY <1>2, <2>1, ClientStays DEF ChainVars, Active
<1> QED BY <1>3, <1>4

\* Lemma: a new exchange is alone, or excuses the login.
LEMMA RefreshStartKeeps ==
    ASSUME CInv, NEW c \in Calls, NEW t \in Tabs, RefreshStart(c, t) PROVE CInv'
<1>1. ClientTypes /\ Numbered /\ Family /\ Sole /\ AllGood
    BY DEF CInv
<1>2. PICK root \in Made : root = session[stored].root
    BY <1>1 DEF RefreshStart, Family
<1>3. /\ call[c].step = "none" /\ stored # 0 /\ stored \in Made /\ Room /\ Deduplicated(t)
      /\ call' = [call EXCEPT ![c] = [tab |-> t, token |-> stored, fresh |-> 0, step |-> "find"]]
      /\ excused' = IF \A d \in InFlight : call[d].tab = t THEN excused
                    ELSE excused \cup {root}
      /\ session' = session /\ stored' = stored /\ account' = account /\ out' = out
    BY <1>1, <1>2 DEF RefreshStart, admin, Family
<1>4. excused' = IF InFlight = {} THEN excused ELSE excused \cup {root}
    BY <1>3 DEF Deduplicated
<1> DEFINE n == [tab |-> t, token |-> stored, fresh |-> 0, step |-> "find"]
<1>5. n \in Call /\ n.tab = t /\ n.token = stored /\ n.fresh = 0 /\ n.step = "find"
    BY <1>1 DEF Call, ClientTypes
<1>6. /\ call' = [call EXCEPT ![c] = n]
      /\ call' \in [Calls -> Call]
      /\ \A d \in Calls : call'[d] = IF d = c THEN n ELSE call[d]
      /\ InFlight' = InFlight \cup {c}
    <2>1. call' = [call EXCEPT ![c] = n]
        BY <1>3
    <2> HIDE DEF n
    <2> QED BY <1>1, <1>5, <2>1, OthersStay
<1> HIDE DEF n
<1>7. Made \subseteq 1..MaxId /\ Made' = Made /\ \A r : Live(r)' = Live(r)
    BY <1>3 DEF Made, Live
<1>8. ClientTypes'
    BY <1>1, <1>3, <1>4, <1>6, <1>7 DEF ClientTypes
<1>9. Numbered'
    <2>1. PICK m \in 0..MaxId : Made = 1..m
        BY <1>1 DEF Numbered
    <2>2. IsFiniteSet(InFlight) /\ Cardinality(InFlight) \in Nat /\ Cardinality(Made) = m
        BY <1>1, <2>1, FS_Subset, FS_CardinalityType, Counted DEF InFlight
    <2>3. m + Cardinality(InFlight) < MaxId
        BY <1>3, <2>2 DEF Room
    <2>4. c \notin InFlight
        BY <1>3 DEF InFlight
    <2>5. /\ Cardinality(InFlight \cup {c}) = Cardinality(InFlight) + 1
          /\ IsFiniteSet(InFlight \cup {c})
        BY <2>2, <2>4, FS_AddElement
    <2>6. Pending' \subseteq InFlight \cup {c}
        BY <1>6 DEF Pending, InFlight, Ended
    <2>7. Cardinality(Pending') <= Cardinality(InFlight) + 1 /\ Cardinality(Pending') \in Nat
        BY <2>5, <2>6, FS_Subset, FS_CardinalityType
    <2>8. m + Cardinality(Pending') <= MaxId
        BY <2>2, <2>3, <2>7
    <2> QED BY <1>7, <2>1, <2>8 DEF Numbered
<1>10. \A d \in Calls \ {c} : call'[d] = call[d] /\ RootOf(d)' = RootOf(d)
    BY <1>3, <1>6 DEF RootOf
<1>11. call'[c] = n /\ RootOf(c)' = root
    BY <1>2, <1>3, <1>5, <1>6 DEF RootOf
<1>12. Family'
    <2>1. \A d \in InFlight' : call'[d].token \in Made
        BY <1>1, <1>3, <1>5, <1>6 DEF Family, InFlight
    <2>2. ASSUME NEW d \in Calls
          PROVE  IF call'[d].step = "granted"
                 THEN call'[d].fresh \in Made /\ session[call'[d].fresh].root = RootOf(d)'
                 ELSE call'[d].fresh = 0
        <3>1. CASE d = c
            BY <1>5, <1>11, <3>1
        <3>2. CASE d # c
            BY <1>1, <1>10, <3>2 DEF Family
        <3> QED BY <3>1, <3>2
    <2> QED BY <1>1, <1>3, <1>7, <2>1, <2>2 DEF Family
<1>13. ASSUME NEW d \in InFlight PROVE d # c /\ RootOf(d) \in excused'
    <2>1. d # c
        BY <1>3 DEF InFlight
    <2>2. CASE RootOf(d) \in excused
        BY <1>4, <2>1, <2>2
    <2>3. CASE RootOf(d) \notin excused
        <3>1. RootOf(d) = root
            BY <1>1, <1>2, <2>3 DEF Sole, RootOf
        <3> QED BY <1>4, <2>1, <3>1
    <2> QED BY <2>1, <2>2, <2>3
<1>14. InFlight \subseteq Calls
    BY DEF InFlight
<1>15. Sole'
    <2>1. ASSUME NEW d \in InFlight', RootOf(d)' \notin excused'
          PROVE  InFlight' = {d} /\ call'[d].tab # None /\ stored' = call'[d].token
        <3>1. d = c
            BY <1>6, <1>10, <1>13, <1>14, <2>1
        <3>2. InFlight = {}
            BY <1>4, <1>11, <2>1, <3>1
        <3> QED BY <1>3, <1>5, <1>6, <1>11, <3>1, <3>2
    <2> QED BY <2>1 DEF Sole
<1>16. AllGood'
    <2>1. ASSUME NEW r \in 1..MaxId \ excused' PROVE Good(r)'
        <3>1. Good(r)
            BY <1>1, <1>4, <2>1 DEF AllGood
        <3>2. \A d \in InFlight' : RootOf(d)' = r => d = c
            BY <1>6, <1>10, <1>13, <1>14, <2>1
        <3>3. call'[c].step = "find"
            BY <1>5, <1>11
        <3>4. ASSUME session[stored].root = r PROVE r \notin out /\ stored \in Live(r)
            <4>1. InFlight = {}
                BY <1>2, <1>4, <2>1, <3>4
            <4> QED BY <1>3, <3>1, <3>4, <4>1 DEF Good
        <3> QED BY <1>3, <1>7, <3>1, <3>2, <3>3, <3>4 DEF Good
    <2> QED BY <2>1 DEF AllGood
<1> QED BY <1>8, <1>9, <1>12, <1>15, <1>16 DEF CInv

-----------------------------------------------------------------------------
\* Lemma: nobody has logged in at first.
LEMMA InitCInv == Init => CInv
<1> SUFFICES ASSUME Init PROVE CInv
    OBVIOUS
<1>1. /\ call = [c \in Calls |-> NoCall] /\ session = [id \in 1..MaxId |-> NoSession]
      /\ stored = 0 /\ excused = {} /\ out = {}
    BY DEF Init
<1>2. NoCall \in Call /\ NoCall.step = "none" /\ NoCall.fresh = 0
    BY NoCallIs
<1>3. NoSession \in Session /\ NoSession.root = 0
    BY DEF NoSession, Session
<1>4. ClientTypes
    BY <1>1, <1>2, <1>3 DEF ClientTypes
<1>5. Made = {} /\ InFlight = {} /\ Pending = {}
    BY <1>1, <1>2, <1>3 DEF Made, InFlight, Pending, Ended
<1>6. Numbered
    <2>1. Made = 1..0 /\ 0 + Cardinality(Pending) <= MaxId /\ 0 \in 0..MaxId
        BY <1>5, FS_EmptySet
    <2> QED BY <2>1 DEF Numbered
<1>7. Family
    BY <1>1, <1>2, <1>5 DEF Family
<1>8. Sole
    BY <1>5 DEF Sole
<1>9. \A root : Live(root) = {}
    BY <1>5 DEF Live
<1>10. AllGood
    BY <1>1, <1>5, <1>9 DEF AllGood, Good
<1> QED BY <1>4, <1>6, <1>7, <1>8, <1>10 DEF CInv

\* Lemma: a closed account is not opened again.
LEMMA ClosedStays == ASSUME AInv, NEW o \in Ops, OpWrite(o) PROVE Active(Owner)' => Active(Owner)
<1>1. op[o].target \in Accounts /\ account \in [Accounts -> Account]
    BY DEF AInv, AccountTypes, Op
<1>2. CASE account' = account
    BY <1>2 DEF Active
<1>3. CASE account' # account
    <2> DEFINE t == op[o].target
               role == CASE op[o].kind = "promote" -> "admin" [] op[o].kind = "demote" -> "user"
                         [] OTHER -> account[t].role
               closed == account[t].closed \/ op[o].kind = "delete"
               new == [account[t] EXCEPT !.since = clock, !.role = role, !.closed = closed]
    <2>1. account' = [account EXCEPT ![t] = new]
        BY <1>3 DEF OpWrite
    <2>2. account[t] \in Account /\ (account[t].closed => closed)
        BY <1>1
    <2> HIDE DEF role, closed
    <2>3. new.closed = closed
        BY <2>2 DEF Account
    <2> HIDE DEF new
    <2>4. account'[Owner] = IF t = Owner THEN new ELSE account[Owner]
        BY <1>1, <2>1
    <2> QED BY <2>2, <2>3, <2>4 DEF Active
<1> QED BY <1>2, <1>3

\* Lemma: every step keeps the invariant.
LEMMA NextCInv == AInv /\ CInv /\ [Next]_vars => CInv'
<1> SUFFICES ASSUME AInv, CInv, [Next]_vars PROVE CInv'
    OBVIOUS
<1>1. CASE Tick
    BY <1>1, ClientStays DEF Tick, ChainVars, Active
<1>2. CASE \E r \in Checks, a \in Accounts : CheckStart(r, a)
    BY <1>2, ClientStays DEF CheckStart, admin, client, ChainVars, Active
<1>3. CASE \E r \in Checks : CheckRead(r) \/ CheckPut(r)
    BY <1>3, ClientStays DEF CheckRead, CheckPut, admin, client, ChainVars, Active
<1>4. CASE \E o \in Ops, a, b \in Accounts, kind \in {"promote", "demote", "delete"} :
              OpFind(o, a, b, kind)
    BY <1>4, ClientStays DEF OpFind, client, ChainVars, Active
<1>5. CASE \E o \in Ops : OpCount(o) \/ OpForget(o)
    BY <1>5, ClientStays DEF OpCount, OpForget, client, ChainVars, Active
<1>6. CASE \E o \in Ops : OpWrite(o)
    <2>1. UNCHANGED ChainVars
        BY <1>6 DEF OpWrite, client, ChainVars
    <2> QED BY <1>6, <2>1, ClosedStays, ClientStays
<1>7. CASE \E o \in Ops : OpLogout(o)
    BY <1>7, OpLogoutClient
<1>8. CASE Login \/ Logout
    BY <1>8, LoginKeeps, LogoutKeeps
<1>9. CASE \E c \in Calls, t \in Tabs : RefreshStart(c, t)
    BY <1>9, RefreshStartKeeps
<1>10. CASE \E c \in Calls : Refresh(c) \/ Lost(c) \/ Fail(c)
    BY <1>10, RefreshFindKeeps, RefreshChainKeeps, RefreshUserKeeps, RefreshRevokeKeeps,
       RefreshCreateKeeps, AnsweredKeeps, LostKeeps, FailKeeps DEF Refresh
<1>11. CASE \E t \in Tabs : RefreshNone(t) \/ Unrefreshed(t) \/ Reload(t)
    <2>1. CASE \E t \in Tabs : RefreshNone(t) \/ Reload(t)
        BY <2>1, ClientStays DEF RefreshNone, Reload, admin, ChainVars, Active
    <2> QED BY <1>11, <2>1, UnrefreshedKeeps
<1>12. CASE UNCHANGED vars
    BY <1>12, ClientStays DEF vars, ChainVars, Active
<1> QED BY <1>1, <1>2, <1>3, <1>4, <1>5, <1>6, <1>7, <1>8, <1>9, <1>10, <1>11, <1>12
    DEF Next, OpStep

\* Lemma: both invariants hold always.
LEMMA SpecCInv == Spec => [](AInv /\ CInv)
<1>1. Init => AInv /\ CInv
    BY InitAInv, InitCInv
<1>2. AInv /\ CInv /\ [Next]_vars => (AInv /\ CInv)'
    BY NextAInv, NextCInv
<1> QED BY <1>1, <1>2, PTL DEF Spec

\* service.go, Refresh: a login whose exchanges nothing disturbs has one live
\* session at most, and none once its user has ended it.
THEOREM OneLiveTheorem == Spec => []OneLivePerLogin
<1>1. CInv => OneLivePerLogin
    <2> SUFFICES ASSUME CInv, NEW root \in 1..MaxId \ excused
                 PROVE  Cardinality(Live(root)) <= IF root \in out THEN 0 ELSE 1
        BY DEF OneLivePerLogin
    <2>1. Good(root)
        BY DEF CInv, AllGood
    <2>2. CASE Live(root) = {}
        BY <2>2, FS_EmptySet
    <2>3. CASE Live(root) # {}
        <3>1. PICK id : Live(root) = {id}
            BY <2>1, <2>3 DEF Good
        <3>2. Cardinality({id}) = 1
            BY FS_Singleton
        <3>3. root \notin out
            BY <2>1, <2>3 DEF Good
        <3> QED BY <3>1, <3>2, <3>3
    <2> QED BY <2>2, <2>3
<1> QED BY <1>1, SpecCInv, PTL

\* client.ts, refreshInFlight: what answers an exchange that nothing disturbs
\* leaves the browser with a token that is good, unless the account is closed.
THEOREM LoggedInTheorem == Spec => NobodyLoggedOut
<1> DEFINE Answer(c) == Answered(c) /\ Active(Owner) /\ session[call[c].token].root \notin excused
                          => On(c, "granted") /\ session[stored'].live
<1>1. CInv => \A c \in Calls : Answer(c)
    <2> SUFFICES ASSUME CInv, NEW c \in Calls, Answered(c), Active(Owner), RootOf(c) \notin excused
                 PROVE  call[c].step = "granted" /\ session[stored'].live
        BY DEF RootOf, On
    <2>1. /\ call[c].step \in {"granted", "refused"} /\ c \in InFlight
          /\ stored' = IF call[c].tab = None THEN stored ELSE call[c].fresh
        BY DEF Answered, On, InFlight
    <2>2. Good(RootOf(c)) /\ call[c].tab # None
        BY <2>1, Presented
    <2>3. call[c].step = "granted" /\ call[c].fresh \in Live(RootOf(c))
        BY <2>1, <2>2 DEF Good
    <2> QED BY <2>1, <2>2, <2>3 DEF Live
<1>2. AInv /\ CInv => [\A c \in Calls : Answer(c)]_vars
    BY <1>1
<1> QED BY <1>2, SpecCInv, PTL DEF NobodyLoggedOut, Answer
=============================================================================

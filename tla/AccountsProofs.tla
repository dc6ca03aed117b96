---------------------------- MODULE AccountsProofs ----------------------------
(***************************************************************************)
(* For any users, any number of requests and any limit: the state stays    *)
(* well-typed, the failed logins in a row are bounded by the limit and the *)
(* number of requests, and as long as no two requests overlap a super      *)
(* administrator remains and the sessions follow the accounts.             *)
(***************************************************************************)
EXTENDS Accounts, FiniteSetTheorems, TLAPS

-----------------------------------------------------------------------------
\* Types.  A request under way knows the user it is about, and one that comes
\* with a session the user that sends it.

KnowsUsers(q) ==
    /\ q.pc # "idle" => q.who \in Users
    /\ q.pc = "loadMe" => q.me \in Users

TypeInv == AccountsTypeOK /\ \A r \in Requests : KnowsUsers(req[r])

LEMMA IdleType == Idle \in Request /\ Absent \in User /\ Closed \in Session
BY DEF Idle, Request, Absent, User, Roles, Kinds, AdminKinds, Closed, Session

LEMMA InitType == AccountsInit => TypeInv
<1> SUFFICES ASSUME AccountsInit PROVE TypeInv
  OBVIOUS
<1>1. users \in [Users -> User]
  BY DEF AccountsInit, User, Absent, Roles
<1> QED BY <1>1, IdleType DEF AccountsInit, TypeInv, KnowsUsers, AccountsTypeOK, Idle

\* A request that changes to a well-typed one that knows its user.
LEMMA RequestChange ==
    ASSUME TypeInv, NEW r \in Requests, NEW q \in Request, KnowsUsers(q),
           req' = [req EXCEPT ![r] = q],
           users' \in [Users -> User], sessions' \in [Sessions -> Session],
           failures' \in [Users -> Nat], overlapped' \in BOOLEAN
    PROVE  TypeInv'
BY DEF TypeInv, AccountsTypeOK, KnowsUsers

\* A request that ends.
LEMMA EndType ==
    ASSUME TypeInv, NEW r \in Requests, End(r),
           users' \in [Users -> User], sessions' \in [Sessions -> Session],
           failures' \in [Users -> Nat], overlapped' \in BOOLEAN
    PROVE  TypeInv'
BY IdleType, RequestChange DEF End, Idle, KnowsUsers

LEMMA RefuseType ==
    ASSUME TypeInv, NEW r \in Requests, Refuse(r), overlapped' \in BOOLEAN
    PROVE  TypeInv'
BY EndType DEF Refuse, TypeInv, AccountsTypeOK

\* A request that goes on with what it has.
LEMMA GotoType ==
    ASSUME TypeInv, NEW r \in Requests, req[r].pc # "idle",
           NEW point \in {"loadLogin", "reject", "loadTarget", "count", "write"},
           Goto(r, point) \/ \E row \in User : Keep(r, row, point),
           overlapped' \in BOOLEAN
    PROVE  TypeInv'
<1>1. req \in [Requests -> Request] /\ req[r] \in Request /\ req[r].who \in Users
  BY DEF TypeInv, AccountsTypeOK, KnowsUsers
<1>2. CASE Goto(r, point)
  <2> DEFINE q == [req[r] EXCEPT !.pc = point]
  <2>1. q \in Request /\ KnowsUsers(q) /\ req' = [req EXCEPT ![r] = q]
    BY <1>1, <1>2 DEF Request, Goto, KnowsUsers
  <2> QED BY <1>2, <2>1, RequestChange DEF Goto, TypeInv, AccountsTypeOK
<1>3. ASSUME NEW row \in User, Keep(r, row, point)
      PROVE  TypeInv'
  <2> DEFINE l == [row EXCEPT !.hash = NoHash]
             q == [req[r] EXCEPT !.loaded = l, !.pc = point]
  <2>1. l \in User
    BY DEF User
  <2> HIDE DEF l
  <2>2. q \in Request /\ KnowsUsers(q)
    BY <1>1, <2>1 DEF Request, KnowsUsers
  <2>3. req' = [req EXCEPT ![r] = q]
    BY <1>1, <1>3 DEF Keep, l
  <2> QED BY <1>3, <2>2, <2>3, RequestChange DEF Keep, TypeInv, AccountsTypeOK
<1> QED BY <1>2, <1>3

LEMMA RevokedType ==
    ASSUME TypeInv, NEW u, NEW kept
    PROVE  Revoked(u, kept) \in [Sessions -> Session]
BY IdleType DEF Revoked, TypeInv, AccountsTypeOK

LEMMA BeginType ==
    ASSUME TypeInv, NEW r \in Requests, BeginLogin(r) \/ BeginAuthenticated(r),
           overlapped' \in BOOLEAN
    PROVE  TypeInv'
<1>1. CASE BeginLogin(r)
  <2>1. PICK u \in Users, h \in Hashes :
            Begin(r, [Idle EXCEPT !.pc = "check", !.who = u, !.hash = h])
    BY <1>1 DEF BeginLogin
  <2> DEFINE q == [Idle EXCEPT !.pc = "check", !.who = u, !.hash = h]
  <2>2. q \in Request /\ KnowsUsers(q)
    BY IdleType DEF Request, KnowsUsers
  <2> QED BY <2>1, <2>2, RequestChange DEF Begin, TypeInv, AccountsTypeOK
<1>2. CASE BeginAuthenticated(r)
  <2>1. PICK s \in Sessions, u \in Users, f \in Forms :
            Open(s) /\ Begin(r, Asked(s, u, f))
    BY <1>2 DEF BeginAuthenticated
  <2> DEFINE q == Asked(s, u, f)
  <2>2. sessions[s].user \in Users
    BY <2>1 DEF TypeInv, AccountsTypeOK, Session, Open
  <2>3. q \in Request /\ KnowsUsers(q)
    BY <2>2, IdleType DEF Asked, Request, KnowsUsers, Forms
  <2> HIDE DEF q
  <2>4. req' = [req EXCEPT ![r] = q] /\ UNCHANGED <<users, sessions, failures>>
    BY <2>1 DEF Begin, q
  <2> QED BY <2>3, <2>4, RequestChange DEF TypeInv, AccountsTypeOK
<1> QED BY <1>1, <1>2

\* One row, or one session, changes.
LEMMA RowType ==
    ASSUME TypeInv, NEW u \in Users
    PROVE  /\ users[u] \in User
           /\ \A row \in User : [users EXCEPT ![u] = row] \in [Users -> User]
BY DEF TypeInv, AccountsTypeOK

LEMMA HashType ==
    ASSUME TypeInv, NEW u, NEW h \in Hashes \cup {NoHash}
    PROVE  [users EXCEPT ![u].hash = h] \in [Users -> User]
BY DEF TypeInv, AccountsTypeOK, User

LEMMA SessionType ==
    ASSUME TypeInv, NEW s, NEW x \in Session
    PROVE  [sessions EXCEPT ![s] = x] \in [Sessions -> Session]
BY DEF TypeInv, AccountsTypeOK

LEMMA FailureType ==
    ASSUME TypeInv, NEW u, NEW n \in Nat
    PROVE  [failures EXCEPT ![u] = n] \in [Users -> Nat]
BY DEF TypeInv, AccountsTypeOK

LEMMA UnderWay ==
    ASSUME TypeInv, NEW r \in Requests, req[r].pc # "idle"
    PROVE  /\ req[r] \in Request /\ req[r].who \in Users
           /\ req[r].hash \in Hashes \cup {NoHash} /\ req[r].loaded \in User
BY DEF TypeInv, AccountsTypeOK, Request, KnowsUsers

LEMMA ReadType ==
    ASSUME TypeInv, NEW r \in Requests, overlapped' \in BOOLEAN,
           \/ CheckAttempts(r) \/ LoadLogin(r) \/ LoadMe(r) \/ LoadTarget(r)
           \/ CountSupers(r) \/ CommitFails(r)
    PROVE  TypeInv'
<1>1. req[r].pc # "idle"
  BY DEF CheckAttempts, LoadLogin, LoadMe, LoadTarget, CountSupers, CommitFails
<1>2. CASE CheckAttempts(r) \/ LoadLogin(r) \/ CountSupers(r) \/ CommitFails(r)
  BY <1>1, <1>2, RefuseType, GotoType
  DEF CheckAttempts, LoadLogin, CountSupers, CommitFails
<1>3. CASE LoadMe(r)
  <2>1. users[req[r].me] \in User
    BY <1>3 DEF LoadMe, TypeInv, AccountsTypeOK, KnowsUsers
  <2> QED BY <1>1, <1>3, <2>1, RefuseType, GotoType DEF LoadMe
<1>4. CASE LoadTarget(r)
  BY <1>1, <1>4, RefuseType, GotoType, UnderWay, RowType, IdleType DEF LoadTarget
<1> QED BY <1>2, <1>3, <1>4

LEMMA WriteType ==
    ASSUME TypeInv, NEW r \in Requests, overlapped' \in BOOLEAN,
           \/ LoginSucceeds(r) \/ LoginFails(r) \/ Logout(r) \/ ChangePassword(r)
           \/ CreateUser(r) \/ UpdateUser(r) \/ ResetPassword(r)
    PROVE  TypeInv'
<1>1. req[r].pc # "idle" /\ End(r)
  BY DEF LoginSucceeds, LoginFails, Logout, ChangePassword, CreateUser,
         UpdateUser, ResetPassword, Writing
<1>2. /\ req[r].who \in Users /\ req[r].hash \in Hashes \cup {NoHash}
      /\ failures[req[r].who] \in Nat
      /\ users \in [Users -> User] /\ sessions \in [Sessions -> Session]
      /\ failures \in [Users -> Nat]
  BY <1>1, UnderWay DEF TypeInv, AccountsTypeOK
<1>3. users' \in [Users -> User]
  <2>1. CASE ChangePassword(r) \/ ResetPassword(r)
    <3>1. [users EXCEPT ![req[r].me].hash = req[r].hash] \in [Users -> User]
          /\ [users EXCEPT ![req[r].who].hash = req[r].hash] \in [Users -> User]
      BY <1>2, HashType
    <3> QED BY <2>1, <3>1, Zenon DEF ChangePassword, ResetPassword
  <2>2. CASE CreateUser(r)
    <3> DEFINE row == [status |-> "active", hash |-> req[r].hash,
                       role |-> IF req[r].role = "super" THEN "super" ELSE "other"]
    <3>1. row \in User
      BY <1>2 DEF User, Roles
    <3>2. users' = [users EXCEPT ![req[r].who] = row]
      BY <2>2 DEF CreateUser
    <3> QED BY <1>2, <3>1, <3>2, RowType
  <2>3. CASE UpdateUser(r)
    <3>1. \A row \in User : Updated(r, row) \in User
      <4>1. req[r].role \in Roles \cup {"keep"}
        BY <1>1, UnderWay DEF Request
      <4> QED BY <4>1 DEF Updated, User, Roles
    <3>2. users' = [users EXCEPT ![req[r].who] = Updated(r, users[req[r].who])]
      BY <2>3 DEF UpdateUser
    <3> QED BY <1>2, <3>1, <3>2, RowType
  <2>4. CASE LoginSucceeds(r) \/ LoginFails(r) \/ Logout(r)
    BY <1>2, <2>4 DEF LoginSucceeds, LoginFails, Logout
  <2> QED BY <2>1, <2>2, <2>3, <2>4
<1>4. sessions' \in [Sessions -> Session]
  <2>1. CASE LoginSucceeds(r)
    <3>1. [user |-> req[r].who, proved |-> req[r].hash] \in Session
      BY <1>2 DEF Session
    <3> QED BY <2>1, <3>1, SessionType DEF LoginSucceeds
  <2>2. CASE ChangePassword(r)
    <3>1. \A s \in Sessions : [sessions[s] EXCEPT !.proved = req[r].hash] \in Session
      BY <1>2 DEF Session
    <3>2. \A s \in Sessions : Revoked(req[r].me, {req[r].session})[s] \in Session
      BY RevokedType
    <3> QED BY <2>2, <3>1, <3>2 DEF ChangePassword
  <2>3. CASE LoginFails(r) \/ Logout(r) \/ CreateUser(r) \/ UpdateUser(r)
             \/ ResetPassword(r)
    BY <1>2, <2>3, SessionType, RevokedType, IdleType
    DEF LoginFails, Logout, CreateUser, UpdateUser, ResetPassword
  <2> QED BY <2>1, <2>2, <2>3
<1>5. failures' \in [Users -> Nat]
  BY <1>2, FailureType DEF LoginSucceeds, LoginFails, Logout, ChangePassword,
     CreateUser, UpdateUser, ResetPassword
<1> QED BY <1>1, <1>3, <1>4, <1>5, EndType

LEMMA NextType == TypeInv /\ [AccountsNext]_accountVars => TypeInv'
<1> SUFFICES ASSUME TypeInv, [AccountsNext]_accountVars PROVE TypeInv'
  OBVIOUS
<1>1. ASSUME NEW r \in Requests, Handle(r),
             overlapped' = (overlapped \/ Cardinality(Busy') > 1)
      PROVE  TypeInv'
  <2>1. overlapped' \in BOOLEAN
    BY <1>1
  <2> QED BY <1>1, <2>1, BeginType, ReadType, WriteType DEF Handle
<1>2. ASSUME NEW u \in Users, NEW h \in Hashes,
             CliCreateAdmin(u, h) \/ CliResetPassword(u, h), overlapped' \in BOOLEAN
      PROVE  TypeInv'
  <2>1. users' \in [Users -> User]
    <3>1. [status |-> "active", role |-> "super", hash |-> h] \in User
      BY DEF User, Roles
    <3> QED BY <1>2, <3>1, RowType, HashType DEF CliCreateAdmin, CliResetPassword
  <2>2. sessions' \in [Sessions -> Session]
    BY <1>2, RevokedType
    DEF CliCreateAdmin, CliResetPassword, TypeInv, AccountsTypeOK
  <2> QED BY <1>2, <2>1, <2>2
          DEF CliCreateAdmin, CliResetPassword, TypeInv, AccountsTypeOK, KnowsUsers
<1>3. CASE Passing /\ UNCHANGED overlapped
  <2>1. UNCHANGED <<users, req>>
    BY <1>3 DEF Passing, Expire, AgeFailure
  <2>2. sessions' \in [Sessions -> Session]
    BY <1>3, SessionType, IdleType
    DEF Passing, Expire, AgeFailure, TypeInv, AccountsTypeOK
  <2>3. failures' \in [Users -> Nat]
    <3>1. \A u \in Users : failures[u] > 0 => failures[u] - 1 \in Nat
      BY DEF TypeInv, AccountsTypeOK
    <3> QED BY <1>3, <3>1, FailureType
            DEF Passing, Expire, AgeFailure, TypeInv, AccountsTypeOK
  <2> QED BY <1>3, <2>1, <2>2, <2>3 DEF TypeInv, AccountsTypeOK, KnowsUsers
<1>4. CASE UNCHANGED accountVars
  BY <1>4 DEF accountVars, TypeInv, AccountsTypeOK, KnowsUsers
<1>5. ASSUME Cli, overlapped' = (overlapped \/ Busy # {})
      PROVE  TypeInv'
  <2>1. overlapped' \in BOOLEAN
    BY <1>5
  <2> QED BY <1>2, <1>5, <2>1 DEF Cli
<1> QED BY <1>1, <1>3, <1>4, <1>5 DEF AccountsNext

\* The state stays well-typed.
THEOREM AccountsTypeCorrect == AccountsSpec => []AccountsTypeOK
<1>1. TypeInv => AccountsTypeOK
  BY DEF TypeInv
<1> QED BY <1>1, InitType, NextType, PTL DEF AccountsSpec

-----------------------------------------------------------------------------
\* The bound on failed logins.  A login past the check may still fail: count it
\* with the failures of its user.

PastCheck(q) == q.kind = "login" /\ q.pc \in {"loadLogin", "reject", "write"}

Trying(u) == {r \in Requests : PastCheck(req[r]) /\ req[r].who = u}

\* The points of a login are not those of other requests.
LoginPoints(q) ==
    /\ q.kind = "login" => q.pc \in {"idle", "check", "loadLogin", "reject", "write"}
    /\ q.pc \in {"check", "loadLogin", "reject"} => q.kind = "login"

Bound == MaxAttempts + Cardinality(Requests) - 1

BoundInv ==
    /\ \A r \in Requests : LoginPoints(req[r])
    /\ \A u \in Users : failures[u] + Cardinality(Trying(u)) <= Bound

LEMMA TryingFinite ==
    /\ Cardinality(Requests) \in Nat /\ MaxAttempts \in Nat
    /\ \A S : S \subseteq Requests =>
           /\ IsFiniteSet(S) /\ Cardinality(S) \in Nat
           /\ Cardinality(S) <= Cardinality(Requests)
BY AccountsAssumption, FS_CardinalityType, FS_Subset

LEMMA InitBound == AccountsInit => BoundInv
<1> SUFFICES ASSUME AccountsInit PROVE BoundInv
  OBVIOUS
<1>1. \A r \in Requests : LoginPoints(req[r])
  BY DEF AccountsInit, LoginPoints, Idle
<1>2. ASSUME NEW u \in Users
      PROVE  failures[u] + Cardinality(Trying(u)) <= Bound
  <2>1. Trying(u) = {} /\ failures[u] = 0
    BY DEF AccountsInit, Trying, PastCheck, Idle
  <2>2. Cardinality(Trying(u)) = 0
    BY <2>1, FS_EmptySet
  <2> QED BY <2>1, <2>2, TryingFinite, AccountsAssumption DEF Bound
<1> QED BY <1>1, <1>2 DEF BoundInv

\* For each user one of three things: nothing gets worse; there is room for
\* every request to fail; or a login that was counted has failed.
StepFor(u) ==
    \/ Trying(u)' \subseteq Trying(u) /\ failures'[u] <= failures[u]
    \/ failures'[u] < MaxAttempts
    \/ /\ failures'[u] = failures[u] + 1
       /\ \E r \in Trying(u) : Trying(u)' \subseteq Trying(u) \ {r}

LEMMA StepBounded ==
    ASSUME TypeInv, TypeInv', BoundInv, NEW u \in Users, StepFor(u)
    PROVE  failures'[u] + Cardinality(Trying(u)') <= Bound
<1> DEFINE T == Trying(u)
           N == Trying(u)'
<1>1. T \subseteq Requests /\ N \subseteq Requests
  BY DEF Trying
<1>2. failures[u] \in Nat /\ failures'[u] \in Nat
  BY DEF TypeInv, AccountsTypeOK
<1>3. failures[u] + Cardinality(T) <= Bound
  BY DEF BoundInv
<1> HIDE DEF T, N
<1>4. Cardinality(T) \in Nat /\ Cardinality(N) \in Nat
      /\ Cardinality(N) <= Cardinality(Requests) /\ IsFiniteSet(T)
  BY <1>1, TryingFinite
<1>5. CASE N \subseteq T /\ failures'[u] <= failures[u]
  <2>1. Cardinality(N) <= Cardinality(T)
    BY <1>4, <1>5, FS_Subset
  <2> QED BY <1>2, <1>3, <1>4, <1>5, <2>1, TryingFinite DEF Bound, N
<1>6. CASE failures'[u] < MaxAttempts
  BY <1>2, <1>4, <1>6, TryingFinite DEF Bound, N
<1>7. ASSUME failures'[u] = failures[u] + 1, NEW r \in T, N \subseteq T \ {r}
      PROVE  failures'[u] + Cardinality(N) <= Bound
  <2>1. IsFiniteSet(T \ {r}) /\ Cardinality(T \ {r}) = Cardinality(T) - 1
    BY <1>4, <1>7, FS_RemoveElement
  <2>2. Cardinality(N) <= Cardinality(T \ {r})
    BY <1>7, <2>1, FS_Subset
  <2> QED BY <1>2, <1>3, <1>4, <1>7, <2>1, <2>2, TryingFinite DEF Bound
<1> QED BY <1>5, <1>6, <1>7 DEF StepFor, T, N

\* A request that is not counted anew, while no failure is added.
LEMMA QuietStep ==
    ASSUME TypeInv, BoundInv, NEW r \in Requests, NEW q \in Request,
           req' = [req EXCEPT ![r] = q], LoginPoints(q),
           PastCheck(q) => PastCheck(req[r]) /\ q.who = req[r].who,
           \A u \in Users : failures'[u] <= failures[u]
    PROVE  /\ \A x \in Requests : LoginPoints(req'[x])
           /\ \A u \in Users : StepFor(u)
<1>1. \A x \in Requests : req'[x] = IF x = r THEN q ELSE req[x]
  BY DEF TypeInv, AccountsTypeOK
<1>2. \A x \in Requests : LoginPoints(req'[x])
  BY <1>1 DEF BoundInv
<1>3. ASSUME NEW u \in Users PROVE Trying(u)' \subseteq Trying(u)
  BY <1>1 DEF Trying
<1> QED BY <1>2, <1>3 DEF StepFor

\* What every step does to the points of the requests and to each user.
Bounded ==
    /\ \A x \in Requests : LoginPoints(req'[x])
    /\ \A u \in Users : StepFor(u)

LEMMA EndBounded ==
    ASSUME TypeInv, BoundInv, NEW r \in Requests, End(r),
           \A u \in Users : failures'[u] <= failures[u]
    PROVE  Bounded
<1>1. LoginPoints(Idle) /\ ~PastCheck(Idle)
  BY DEF LoginPoints, PastCheck, Idle
<1> QED BY <1>1, IdleType, QuietStep DEF End, Bounded

\* A request that goes on and was counted before, or is not counted.
LEMMA GotoBounded ==
    ASSUME TypeInv, BoundInv, NEW r \in Requests, req[r].pc # "idle",
           NEW point \in {"loadLogin", "reject", "loadTarget", "count", "write"},
           Goto(r, point) \/ \E row \in User : Keep(r, row, point),
           IF req[r].kind = "login"
           THEN req[r].pc = "loadLogin" /\ point \in {"reject", "write"}
           ELSE point \in {"loadTarget", "count", "write"}
    PROVE  Bounded
<1>1. req[r] \in Request /\ req \in [Requests -> Request] /\ TypeInv
  BY DEF TypeInv, AccountsTypeOK
<1>2. \A u \in Users : failures'[u] <= failures[u]
  <2>1. failures' = failures
    BY DEF Goto, Keep
  <2> QED BY <2>1 DEF TypeInv, AccountsTypeOK
<1>3. PICK q \in Request : /\ req' = [req EXCEPT ![r] = q]
                           /\ q.kind = req[r].kind /\ q.who = req[r].who
                           /\ q.pc = point
  <2>1. CASE Goto(r, point)
    <3> DEFINE p == [req[r] EXCEPT !.pc = point]
    <3>1. p \in Request /\ p.kind = req[r].kind /\ p.who = req[r].who /\ p.pc = point
      BY <1>1 DEF Request
    <3>2. req' = [req EXCEPT ![r] = p]
      BY <1>1, <2>1 DEF Goto
    <3> QED BY <3>1, <3>2
  <2>2. ASSUME NEW row \in User, Keep(r, row, point)
        PROVE  \E q \in Request : /\ req' = [req EXCEPT ![r] = q]
                                  /\ q.kind = req[r].kind /\ q.who = req[r].who
                                  /\ q.pc = point
    <3> DEFINE l == [row EXCEPT !.hash = NoHash]
               p == [req[r] EXCEPT !.loaded = l, !.pc = point]
    <3>1. l \in User
      BY DEF User
    <3> HIDE DEF l
    <3>2. p \in Request /\ p.kind = req[r].kind /\ p.who = req[r].who /\ p.pc = point
      BY <1>1, <3>1 DEF Request
    <3>3. req' = [req EXCEPT ![r] = p]
      BY <1>1, <2>2 DEF Keep, l
    <3> QED BY <3>2, <3>3
  <2> QED BY <2>1, <2>2
<1>4. LoginPoints(q) /\ (PastCheck(q) => PastCheck(req[r]))
  BY <1>3 DEF LoginPoints, PastCheck
<1> QED BY <1>2, <1>3, <1>4, QuietStep DEF Bounded

LEMMA BeginBounded ==
    ASSUME TypeInv, BoundInv, NEW r \in Requests,
           BeginLogin(r) \/ BeginAuthenticated(r)
    PROVE  Bounded
<1>1. \A u \in Users : failures'[u] <= failures[u]
  <2>1. \A q : Begin(r, q) => failures' = failures
    BY DEF Begin
  <2>2. failures' = failures
    BY <2>1 DEF BeginLogin, BeginAuthenticated
  <2> QED BY <2>2 DEF TypeInv, AccountsTypeOK
<1>2. CASE BeginLogin(r)
  <2>1. PICK u \in Users, h \in Hashes :
            req' = [req EXCEPT ![r] = [Idle EXCEPT !.pc = "check", !.who = u,
                                                   !.hash = h]]
    BY <1>2 DEF BeginLogin, Begin
  <2> DEFINE q == [Idle EXCEPT !.pc = "check", !.who = u, !.hash = h]
  <2>2. q \in Request
    BY IdleType DEF Request
  <2>3. q.pc = "check" /\ q.kind = "login"
    BY DEF Idle
  <2>4. LoginPoints(q) /\ ~PastCheck(q)
    BY <2>3 DEF LoginPoints, PastCheck
  <2> HIDE DEF q
  <2>5. req' = [req EXCEPT ![r] = q]
    BY <2>1 DEF q
  <2> QED BY <1>1, <2>2, <2>4, <2>5, QuietStep DEF Bounded
<1>3. CASE BeginAuthenticated(r)
  <2>1. PICK s \in Sessions, u \in Users, f \in Forms :
            Begin(r, Asked(s, u, f))
    BY <1>3 DEF BeginAuthenticated
  <2> DEFINE q == Asked(s, u, f)
  <2>2. sessions[s].user \in Users \cup {NoUser}
    BY DEF TypeInv, AccountsTypeOK, Session
  <2>3. q \in Request
    BY <2>2, IdleType DEF Asked, Request, Forms
  <2>4. q.pc = "loadMe" /\ q.kind # "login"
    BY DEF Asked, Idle, Forms
  <2>5. LoginPoints(q) /\ ~PastCheck(q)
    BY <2>4 DEF LoginPoints, PastCheck
  <2> HIDE DEF q
  <2>6. req' = [req EXCEPT ![r] = q]
    BY <2>1 DEF q, Begin
  <2> QED BY <1>1, <2>3, <2>5, <2>6, QuietStep DEF Bounded
<1> QED BY <1>2, <1>3

\* A login that passes the check finds fewer failures than the limit.
LEMMA CheckBounded ==
    ASSUME TypeInv, BoundInv, NEW r \in Requests, CheckAttempts(r)
    PROVE  Bounded
<1>1. req[r] \in Request /\ req \in [Requests -> Request] /\ req[r].kind = "login"
      /\ req[r].pc = "check" /\ failures \in [Users -> Nat]
  BY DEF CheckAttempts, TypeInv, AccountsTypeOK, BoundInv, LoginPoints
<1>2. CASE Refuse(r)
  BY <1>1, <1>2, EndBounded DEF Refuse
<1>3. CASE failures[req[r].who] < MaxAttempts /\ Goto(r, "loadLogin")
  <2>1. /\ UNCHANGED failures
        /\ \A x \in Requests : x # r => req'[x] = req[x]
        /\ req'[r].kind = "login" /\ req'[r].pc = "loadLogin"
        /\ req'[r].who = req[r].who
    BY <1>1, <1>3 DEF Goto, Request
  <2>2. \A x \in Requests : LoginPoints(req'[x])
    BY <2>1 DEF BoundInv, LoginPoints
  <2>3. ASSUME NEW u \in Users PROVE StepFor(u)
    <3>1. CASE u = req[r].who
      BY <1>3, <2>1, <3>1 DEF StepFor
    <3>2. CASE u # req[r].who
      <4>1. Trying(u)' \subseteq Trying(u)
        BY <2>1, <3>2 DEF Trying
      <4> QED BY <1>1, <2>1, <4>1 DEF StepFor
    <3> QED BY <3>1, <3>2
  <2> QED BY <2>2, <2>3 DEF Bounded
<1>4. req[r].who \in Users /\ failures[req[r].who] \in Nat
  BY <1>1, UnderWay
<1> QED BY <1>2, <1>3, <1>4, AccountsAssumption DEF CheckAttempts

LEMMA FailBounded ==
    ASSUME TypeInv, BoundInv, NEW r \in Requests, LoginFails(r)
    PROVE  Bounded
<1>1. req[r].who \in Users /\ req \in [Requests -> Request]
      /\ failures \in [Users -> Nat] /\ req[r].pc = "reject"
  BY UnderWay DEF LoginFails, TypeInv, AccountsTypeOK
<1>2. PastCheck(req[r])
  BY <1>1 DEF BoundInv, LoginPoints, PastCheck
<1>3. \A x \in Requests : req'[x] = IF x = r THEN Idle ELSE req[x]
  BY <1>1 DEF LoginFails, End
<1>4. ~PastCheck(Idle) /\ LoginPoints(Idle)
  BY DEF PastCheck, LoginPoints, Idle
<1>5. \A u \in Users : Trying(u)' \subseteq Trying(u) \ {r}
  BY <1>3, <1>4 DEF Trying
<1>6. ASSUME NEW u \in Users PROVE StepFor(u)
  <2>1. CASE u = req[r].who
    <3>1. r \in Trying(u) /\ failures'[u] = failures[u] + 1
      BY <1>1, <1>2, <2>1 DEF Trying, LoginFails
    <3> QED BY <1>5, <3>1 DEF StepFor
  <2>2. CASE u # req[r].who
    <3>1. failures'[u] <= failures[u]
      BY <1>1, <2>2 DEF LoginFails
    <3> QED BY <1>5, <3>1 DEF StepFor
  <2> QED BY <2>1, <2>2
<1>7. \A x \in Requests : LoginPoints(req'[x])
  BY <1>3, <1>4 DEF BoundInv
<1> QED BY <1>6, <1>7 DEF Bounded

LEMMA HandleBounded ==
    ASSUME TypeInv, BoundInv, NEW r \in Requests, Handle(r)
    PROVE  Bounded
<1>1. \A u \in Users : failures[u] <= failures[u]
  BY DEF TypeInv, AccountsTypeOK
<1>2. CASE BeginLogin(r) \/ BeginAuthenticated(r)
  BY <1>2, BeginBounded
<1>3. CASE CheckAttempts(r)
  BY <1>3, CheckBounded
<1>4. CASE LoadLogin(r)
  <2>1. req[r].kind = "login"
    BY <1>4 DEF LoadLogin, BoundInv, LoginPoints
  <2> QED BY <1>4, <2>1, GotoBounded DEF LoadLogin
<1>5. CASE LoadMe(r)
  <2>1. req[r].kind # "login" /\ users[req[r].me] \in User
    BY <1>5 DEF LoadMe, BoundInv, LoginPoints, TypeInv, AccountsTypeOK, KnowsUsers
  <2>2. Refuse(r) => Bounded
    BY <1>1, EndBounded DEF Refuse
  <2> QED BY <1>5, <2>1, <2>2, GotoBounded DEF LoadMe
<1>6. CASE LoadTarget(r)
  <2>1. req[r].kind # "login" /\ req[r].pc # "idle"
    BY <1>6 DEF LoadTarget, BoundInv, LoginPoints
  <2>2. Refuse(r) => Bounded
    BY <1>1, EndBounded DEF Refuse
  <2> QED BY <1>6, <2>1, <2>2, GotoBounded, UnderWay, RowType, IdleType
          DEF LoadTarget
<1>7. CASE CountSupers(r)
  <2>1. req[r].kind # "login"
    BY <1>7 DEF CountSupers, BoundInv, LoginPoints
  <2>2. Refuse(r) => Bounded
    BY <1>1, EndBounded DEF Refuse
  <2> QED BY <1>7, <2>1, <2>2, GotoBounded DEF CountSupers
<1>8. CASE LoginSucceeds(r)
  <2>1. \A u \in Users : failures'[u] <= failures[u]
    BY <1>8 DEF LoginSucceeds, TypeInv, AccountsTypeOK
  <2> QED BY <1>8, <2>1, EndBounded DEF LoginSucceeds
<1>9. CASE LoginFails(r)
  BY <1>9, FailBounded
<1>10. CASE Logout(r) \/ ChangePassword(r) \/ CreateUser(r) \/ UpdateUser(r)
            \/ ResetPassword(r) \/ CommitFails(r)
  <2>1. End(r) /\ failures' = failures
    BY <1>10 DEF Logout, ChangePassword, CreateUser, UpdateUser, ResetPassword,
                 CommitFails, Refuse
  <2> QED BY <1>1, <2>1, EndBounded
<1> QED BY <1>2, <1>3, <1>4, <1>5, <1>6, <1>7, <1>8, <1>9, <1>10 DEF Handle

\* Steps that leave the requests alone.
LEMMA OtherBounded ==
    ASSUME TypeInv, BoundInv, UNCHANGED req,
           \A u \in Users : failures'[u] <= failures[u]
    PROVE  Bounded
<1>1. \A u \in Users : Trying(u)' = Trying(u)
  BY DEF Trying
<1> QED BY <1>1 DEF Bounded, StepFor, BoundInv

LEMMA NextBounded == TypeInv /\ BoundInv /\ [AccountsNext]_accountVars => BoundInv'
<1> SUFFICES ASSUME TypeInv, BoundInv, [AccountsNext]_accountVars
             PROVE  BoundInv'
  OBVIOUS
<1>1. failures \in [Users -> Nat]
  BY DEF TypeInv, AccountsTypeOK
<1>2. ASSUME \E r \in Requests : Handle(r)
      PROVE  Bounded
  BY <1>2, HandleBounded
<1>3. ASSUME Cli \/ UNCHANGED accountVars
      PROVE  Bounded
  <2>1. UNCHANGED <<req, failures>>
    BY <1>3 DEF Cli, CliCreateAdmin, CliResetPassword, accountVars
  <2> QED BY <1>1, <2>1, OtherBounded
<1>4. ASSUME Passing
      PROVE  Bounded
  <2>1. UNCHANGED req
    BY <1>4 DEF Passing, Expire, AgeFailure
  <2>2. \A u \in Users : failures'[u] <= failures[u]
    BY <1>1, <1>4 DEF Passing, Expire, AgeFailure
  <2> QED BY <2>1, <2>2, OtherBounded
<1>5. Bounded
  BY <1>2, <1>3, <1>4, HandleBounded DEF AccountsNext
<1>6. ASSUME NEW u \in Users
      PROVE  failures'[u] + Cardinality(Trying(u)') <= Bound
  BY <1>5, NextType, StepBounded DEF Bounded
<1> QED BY <1>5, <1>6 DEF Bounded, BoundInv, Bound

\* However many logins run at once, a user's failed logins in a row are no more
\* than the limit and one for each other request (auth.py, login).
THEOREM FailuresAreBounded == AccountsSpec => []AttemptsBounded
<1>1. TypeInv /\ BoundInv => AttemptsBounded
  <2> SUFFICES ASSUME TypeInv, BoundInv, NEW u \in Users
               PROVE  failures[u] <= MaxAttempts + Cardinality(Requests) - 1
    BY DEF AttemptsBounded
  <2>1. failures[u] + Cardinality(Trying(u)) <= Bound /\ failures[u] \in Nat
    BY DEF BoundInv, TypeInv, AccountsTypeOK
  <2>2. Cardinality(Trying(u)) \in Nat
    BY TryingFinite DEF Trying
  <2> QED BY <2>1, <2>2, TryingFinite DEF Bound
<1> QED BY <1>1, InitType, InitBound, NextType, NextBounded, PTL DEF AccountsSpec

-----------------------------------------------------------------------------
\* One request at a time: what it has loaded is still what the rows say.

SupersOf(us) == {u \in Users : us[u].status = "active" /\ us[u].role = "super"}

Followed(us, ss) ==
    \A s \in Sessions : ss[s].user # NoUser =>
        /\ us[ss[s].user].status = "active"
        /\ ss[s].proved = us[ss[s].user].hash

Agrees(loaded, row) == loaded.status = row.status /\ loaded.role = row.role

TakesSuper(q) ==
    /\ q.loaded.status = "active" /\ q.loaded.role = "super"
    /\ q.role = "other" \/ q.active = "off"

\* A login that writes has shown the password; the session of any other request
\* is closed or still the sender's; an update knows its row, and another super
\* administrator if it takes one away.
TrueTo(q, us, ss) ==
    /\ q.kind = "login" /\ q.pc = "write" =>
           us[q.who].status = "active" /\ us[q.who].hash = q.hash
    /\ q.kind # "login" /\ q.session \in Sessions /\ ss[q.session].user # NoUser =>
           ss[q.session].user = q.me
    /\ q.pc = "loadTarget" /\ q.who = q.me => Agrees(q.loaded, us[q.who])
    /\ q.kind = "update" /\ q.pc \in {"count", "write"} => Agrees(q.loaded, us[q.who])
    /\ q.kind = "update" /\ q.pc = "write" /\ TakesSuper(q) =>
           \E v \in SupersOf(us) : v # q.who

Alone ==
    /\ \A q, r \in Busy : q = r
    /\ IsFiniteSet(SupersOf(users)) /\ SupersOf(users) # {}
    /\ Followed(users, sessions)
    /\ \A r \in Busy : TrueTo(req[r], users, sessions)

AloneInv == ~overlapped => Alone

LEMMA AloneProperties ==
    TypeInv /\ AloneInv => SuperAdminRemains /\ SessionsFollowAccounts
BY DEF AloneInv, Alone, Followed, SupersOf, SuperAdminRemains, Supers,
       SessionsFollowAccounts, Open, TypeInv, AccountsTypeOK, Session

\* No two requests are busy while at most one is.
LEMMA AtMostOne ==
    ASSUME NEW S \in SUBSET Requests, ~(Cardinality(S) > 1)
    PROVE  \A q, r \in S : q = r
<1> SUFFICES ASSUME NEW q \in S, NEW r \in S, q # r PROVE FALSE
  OBVIOUS
<1>1. IsFiniteSet({q}) /\ Cardinality({q}) = 1
  BY FS_Singleton
<1>2. IsFiniteSet({q} \cup {r}) /\ Cardinality({q} \cup {r}) = 2
  <2>1. r \notin {q}
    OBVIOUS
  <2>2. Cardinality({q} \cup {r}) = Cardinality({q}) + 1 /\ IsFiniteSet({q} \cup {r})
    BY <1>1, <2>1, FS_AddElement
  <2> QED BY <1>1, <2>2
<1>3. IsFiniteSet(S) /\ Cardinality(S) \in Nat
  BY TryingFinite
<1>4. Cardinality({q} \cup {r}) <= Cardinality(S)
  BY <1>3, FS_Subset
<1> QED BY <1>2, <1>3, <1>4

\* Of more than one super administrator another one is left.
LEMMA AnotherSuper ==
    ASSUME NEW S, IsFiniteSet(S), S # {}, ~(Cardinality(S) <= 1), NEW u
    PROVE  \E v \in S : v # u
<1> SUFFICES ASSUME S \subseteq {u} PROVE FALSE
  OBVIOUS
<1>1. IsFiniteSet({u}) /\ Cardinality({u}) = 1
  BY FS_Singleton
<1>2. Cardinality(S) <= 1 /\ Cardinality(S) \in Nat
  BY <1>1, FS_Subset, FS_CardinalityType
<1> QED BY <1>2

\* The one request that is under way goes on, or begins, or ends.
LEMMA RequestAlone ==
    ASSUME TypeInv, Alone, NEW r \in Requests, NEW q,
           req' = [req EXCEPT ![r] = q], ~(Cardinality(Busy') > 1),
           req[r].pc # "idle" \/ q.pc # "idle",
           q.pc # "idle" => TrueTo(q, users', sessions'),
           IsFiniteSet(SupersOf(users')), SupersOf(users') # {},
           Followed(users', sessions')
    PROVE  Alone'
<1>1. req'[r] = q /\ \A x \in Requests \ {r} : req'[x] = req[x]
  BY DEF TypeInv, AccountsTypeOK
<1>2. \A x, y \in Busy' : x = y
  BY AtMostOne DEF Busy
<1>3. \A x \in Busy' : x = r
  <2>1. CASE q.pc # "idle"
    BY <1>1, <1>2, <2>1 DEF Busy
  <2>2. CASE q.pc = "idle"
    BY <1>1, <2>2 DEF Alone, Busy
  <2> QED BY <2>1, <2>2
<1>4. \A x \in Busy' : TrueTo(req'[x], users', sessions')
  BY <1>1, <1>3 DEF Busy
<1>5. SupersOf(users)' = SupersOf(users') /\ Followed(users, sessions)' = Followed(users', sessions')
  BY DEF SupersOf, Followed
<1>6. (\A x \in Busy : TrueTo(req[x], users, sessions))'
  BY <1>4 DEF TrueTo, SupersOf, Agrees, TakesSuper
<1> QED BY <1>2, <1>5, <1>6 DEF Alone

LEMMA EndAlone ==
    ASSUME TypeInv, Alone, NEW r \in Requests, End(r), req[r].pc # "idle",
           ~(Cardinality(Busy') > 1),
           IsFiniteSet(SupersOf(users')), SupersOf(users') # {},
           Followed(users', sessions')
    PROVE  Alone'
<1>1. Idle.pc = "idle"
  BY DEF Idle
<1> QED BY <1>1, RequestAlone DEF End

LEMMA RefuseAlone ==
    ASSUME TypeInv, Alone, NEW r \in Requests, Refuse(r), req[r].pc # "idle",
           ~(Cardinality(Busy') > 1)
    PROVE  Alone'
<1>1. users' = users /\ sessions' = sessions /\ End(r)
  BY DEF Refuse
<1> QED BY <1>1, EndAlone DEF Alone

\* It goes on with what it has.
LEMMA GotoAlone ==
    ASSUME TypeInv, Alone, NEW r \in Requests, req[r].pc # "idle",
           ~(Cardinality(Busy') > 1),
           NEW point \in {"loadLogin", "reject", "write"}, Goto(r, point),
           req[r].kind = "login" /\ point = "write" =>
               /\ users[req[r].who].status = "active"
               /\ users[req[r].who].hash = req[r].hash,
           req[r].kind = "update" /\ point = "write" =>
               /\ req[r].pc = "count"
               /\ TakesSuper(req[r]) => \E v \in SupersOf(users) : v # req[r].who
    PROVE  Alone'
<1> DEFINE q == [req[r] EXCEPT !.pc = point]
<1>1. req[r] \in Request /\ req \in [Requests -> Request]
  BY DEF TypeInv, AccountsTypeOK
<1>2. /\ q.pc = point /\ q.kind = req[r].kind /\ q.who = req[r].who
      /\ q.me = req[r].me /\ q.session = req[r].session /\ q.loaded = req[r].loaded
      /\ q.hash = req[r].hash /\ q.role = req[r].role /\ q.active = req[r].active
  BY <1>1 DEF Request
<1>3. req' = [req EXCEPT ![r] = q]
  BY <1>1 DEF Goto
<1> HIDE DEF q
<1>4. users' = users /\ sessions' = sessions
  BY DEF Goto
<1>5. TrueTo(req[r], users, sessions)
  BY DEF Alone, Busy
<1>6. TakesSuper(q) = TakesSuper(req[r])
  BY <1>2 DEF TakesSuper
<1>7. TrueTo(q, users, sessions)
  BY <1>2, <1>5, <1>6 DEF TrueTo
<1>8. TrueTo(q, users', sessions') /\ SupersOf(users') = SupersOf(users)
      /\ Followed(users', sessions')
  BY <1>4, <1>7 DEF Alone
<1> QED BY <1>2, <1>3, <1>8, RequestAlone DEF Alone

\* It goes on with the row that it has read.
LEMMA KeepAlone ==
    ASSUME TypeInv, Alone, NEW r \in Requests, req[r].pc # "idle",
           ~(Cardinality(Busy') > 1), req[r].kind # "login",
           NEW point \in {"loadTarget", "count", "write"},
           NEW row \in User, Keep(r, row, point),
           point = "loadTarget" /\ req[r].who = req[r].me =>
               Agrees(row, users[req[r].who]),
           req[r].kind = "update" => point # "write",
           point = "count" => Agrees(row, users[req[r].who])
    PROVE  Alone'
<1> DEFINE l == [row EXCEPT !.hash = NoHash]
           q == [req[r] EXCEPT !.loaded = l, !.pc = point]
<1>1. req[r] \in Request /\ req \in [Requests -> Request]
  BY DEF TypeInv, AccountsTypeOK
<1>2. l.status = row.status /\ l.role = row.role
  BY DEF User
<1>3. \A x : Agrees(row, x) => Agrees(l, x)
  BY <1>2 DEF Agrees
<1> HIDE DEF l
<1>4. /\ q.pc = point /\ q.kind = req[r].kind /\ q.who = req[r].who
      /\ q.me = req[r].me /\ q.session = req[r].session /\ q.loaded = l
  BY <1>1 DEF Request
<1>5. req' = [req EXCEPT ![r] = q]
  BY <1>1 DEF Keep, l
<1> HIDE DEF q
<1>6. users' = users /\ sessions' = sessions
  BY DEF Keep
<1>7. TrueTo(req[r], users, sessions)
  BY DEF Alone, Busy
<1>8. TrueTo(q, users, sessions)
  BY <1>3, <1>4, <1>7 DEF TrueTo
<1>9. TrueTo(q, users', sessions') /\ SupersOf(users') = SupersOf(users)
      /\ Followed(users', sessions')
  BY <1>6, <1>8 DEF Alone
<1> QED BY <1>4, <1>5, <1>9, RequestAlone DEF Alone

LEMMA BeginAlone ==
    ASSUME TypeInv, Alone, NEW r \in Requests,
           BeginLogin(r) \/ BeginAuthenticated(r), ~(Cardinality(Busy') > 1)
    PROVE  Alone'
<1>1. ASSUME NEW q, Begin(r, q), q.pc # "idle", TrueTo(q, users, sessions)
      PROVE  Alone'
  <2>1. users' = users /\ sessions' = sessions /\ req' = [req EXCEPT ![r] = q]
    BY <1>1 DEF Begin
  <2>2. TrueTo(q, users', sessions') /\ SupersOf(users') = SupersOf(users)
        /\ Followed(users', sessions')
    BY <1>1, <2>1 DEF Alone
  <2> QED BY <1>1, <2>1, <2>2, RequestAlone DEF Alone
<1>2. CASE BeginLogin(r)
  <2>1. PICK u \in Users, h \in Hashes :
            Begin(r, [Idle EXCEPT !.pc = "check", !.who = u, !.hash = h])
    BY <1>2 DEF BeginLogin
  <2> DEFINE q == [Idle EXCEPT !.pc = "check", !.who = u, !.hash = h]
  <2>2. q.pc = "check" /\ q.kind = "login"
    BY DEF Idle
  <2>3. Begin(r, q)
    BY <2>1
  <2> HIDE DEF q
  <2>4. TrueTo(q, users, sessions)
    BY <2>2 DEF TrueTo
  <2> QED BY <1>1, <2>2, <2>3, <2>4
<1>3. CASE BeginAuthenticated(r)
  <2>1. PICK s \in Sessions, u \in Users, f \in Forms : Begin(r, Asked(s, u, f))
    BY <1>3 DEF BeginAuthenticated
  <2> DEFINE q == Asked(s, u, f)
  <2>2. /\ q.pc = "loadMe" /\ q.session = s /\ q.me = sessions[s].user
    BY DEF Asked, Idle
  <2>3. Begin(r, q)
    BY <2>1
  <2>4. q.kind # "login"
    BY DEF Asked, Idle, Forms
  <2> HIDE DEF q
  <2>5. TrueTo(q, users, sessions)
    BY <2>2, <2>4 DEF TrueTo
  <2> QED BY <1>1, <2>2, <2>3, <2>5
<1> QED BY <1>2, <1>3

\* The reads.
LEMMA ReadAlone ==
    ASSUME TypeInv, BoundInv, Alone, NEW r \in Requests, ~(Cardinality(Busy') > 1),
           \/ CheckAttempts(r) \/ LoadLogin(r) \/ LoadMe(r) \/ LoadTarget(r)
           \/ CountSupers(r) \/ CommitFails(r)
    PROVE  Alone'
<1>1. req[r].pc # "idle" /\ r \in Busy
  BY DEF CheckAttempts, LoadLogin, LoadMe, LoadTarget, CountSupers, CommitFails, Busy
<1>2. req[r] \in Request /\ LoginPoints(req[r]) /\ TrueTo(req[r], users, sessions)
      /\ req[r].who \in Users
  BY <1>1, UnderWay DEF BoundInv, Alone
<1>3. CASE Refuse(r)
  BY <1>1, <1>3, RefuseAlone
<1>4. CASE CheckAttempts(r) /\ ~Refuse(r)
  <2>1. Goto(r, "loadLogin")
    BY <1>4 DEF CheckAttempts
  <2> QED BY <1>1, <2>1, GotoAlone
<1>5. CASE LoadLogin(r)
  <2>1. req[r].kind = "login"
    BY <1>2, <1>5 DEF LoadLogin, LoginPoints
  <2>2. \/ Goto(r, "reject")
        \/ Goto(r, "write") /\ users[req[r].who].status = "active"
                            /\ users[req[r].who].hash = req[r].hash
    BY <1>5 DEF LoadLogin
  <2> QED BY <1>1, <2>1, <2>2, GotoAlone
<1>6. CASE LoadMe(r) /\ ~Refuse(r)
  <2>1. req[r].kind # "login" /\ req[r].me \in Users
    BY <1>2, <1>6 DEF LoadMe, LoginPoints, TypeInv, KnowsUsers
  <2>2. users[req[r].me] \in User
    BY <2>1, RowType
  <2>3. \/ Keep(r, users[req[r].me], "loadTarget")
        \/ req[r].kind \notin AdminKinds /\ Goto(r, "write")
    BY <1>6 DEF LoadMe
  <2>4. CASE Keep(r, users[req[r].me], "loadTarget")
    <3>1. Agrees(users[req[r].me], users[req[r].me])
      BY DEF Agrees
    <3> QED BY <1>1, <2>1, <2>2, <2>4, <3>1, KeepAlone
  <2>5. CASE req[r].kind \notin AdminKinds /\ Goto(r, "write")
    BY <1>1, <2>1, <2>5, GotoAlone DEF AdminKinds
  <2> QED BY <2>3, <2>4, <2>5
<1>7. CASE LoadTarget(r) /\ ~Refuse(r)
  <2> DEFINE row == IF req[r].who = req[r].me THEN req[r].loaded ELSE users[req[r].who]
  <2>1. req[r].kind # "login" /\ req[r].pc = "loadTarget"
    BY <1>2, <1>7 DEF LoadTarget, LoginPoints
  <2>2. row \in User
    BY <1>1, <1>2, UnderWay, RowType
  <2>3. Agrees(row, users[req[r].who])
    BY <1>2, <2>1 DEF TrueTo, Agrees
  <2>4. \/ req[r].kind = "update" /\ Keep(r, row, "count")
        \/ req[r].kind # "update" /\ Keep(r, Absent, "write")
    BY <1>7 DEF LoadTarget
  <2> HIDE DEF row
  <2> QED BY <1>1, <2>1, <2>2, <2>3, <2>4, IdleType, KeepAlone
<1>8. CASE CountSupers(r) /\ ~Refuse(r)
  <2>1. /\ req[r].pc = "count" /\ Goto(r, "write") /\ req[r].kind # "login"
        /\ TakesSuper(req[r]) => ~(Cardinality(SupersOf(users)) <= 1)
    BY <1>2, <1>8 DEF CountSupers, LoginPoints, Removes, TakesSuper, Supers, SupersOf
  <2>2. TakesSuper(req[r]) => \E v \in SupersOf(users) : v # req[r].who
    BY <2>1, AnotherSuper DEF Alone
  <2> QED BY <1>1, <2>1, <2>2, GotoAlone
<1> QED BY <1>3, <1>4, <1>5, <1>6, <1>7, <1>8 DEF CommitFails

\* One row changes, and a super administrator is left.
LEMMA RowSupers ==
    ASSUME TypeInv, Alone, NEW u \in Users, NEW row \in User,
           users' = [users EXCEPT ![u] = row],
           \/ row.status = "active" /\ row.role = "super"
           \/ \E v \in SupersOf(users) : v # u
           \/ u \notin SupersOf(users)
    PROVE  IsFiniteSet(SupersOf(users')) /\ SupersOf(users') # {}
<1>1. users \in [Users -> User] /\ IsFiniteSet(SupersOf(users)) /\ SupersOf(users) # {}
  BY DEF TypeInv, AccountsTypeOK, Alone
<1>2. \A v \in Users : users'[v] = IF v = u THEN row ELSE users[v]
  BY <1>1
<1>3. SupersOf(users') \subseteq SupersOf(users) \cup {u}
  BY <1>2 DEF SupersOf
<1>4. IsFiniteSet(SupersOf(users) \cup {u})
  BY <1>1, FS_AddElement
<1>5. \E v \in Users : v \in SupersOf(users')
  BY <1>1, <1>2 DEF SupersOf
<1> QED BY <1>3, <1>4, <1>5, FS_Subset

LEMMA HashSupers ==
    ASSUME TypeInv, Alone, NEW u, NEW h, users' = [users EXCEPT ![u].hash = h]
    PROVE  /\ IsFiniteSet(SupersOf(users')) /\ SupersOf(users') # {}
           /\ \A v \in Users : users'[v].status = users[v].status
                               /\ (v # u => users'[v] = users[v])
                               /\ (v = u => users'[v].hash = h)
<1>1. users \in [Users -> User]
  BY DEF TypeInv, AccountsTypeOK
<1>2. \A v \in Users : /\ users'[v].status = users[v].status
                       /\ users'[v].role = users[v].role
                       /\ (v # u => users'[v] = users[v])
                       /\ (v = u => users'[v].hash = h)
  BY <1>1 DEF User
<1>3. SupersOf(users') = SupersOf(users)
  BY <1>2 DEF SupersOf
<1> QED BY <1>2, <1>3 DEF Alone

LEMMA SessionUsers ==
    ASSUME TypeInv, NEW s \in Sessions
    PROVE  sessions[s] \in Session /\ (sessions[s].user # NoUser => sessions[s].user \in Users)
BY DEF TypeInv, AccountsTypeOK, Session

\* A password changes and the user's sessions are revoked.
LEMMA RevokedFollowed ==
    ASSUME TypeInv, Alone, NEW u, NEW h,
           users' = [users EXCEPT ![u].hash = h], sessions' = Revoked(u, {})
    PROVE  Followed(users', sessions')
<1> SUFFICES ASSUME NEW s \in Sessions, sessions'[s].user # NoUser
             PROVE  /\ users'[sessions'[s].user].status = "active"
                    /\ sessions'[s].proved = users'[sessions'[s].user].hash
  BY DEF Followed
<1>1. sessions'[s] = sessions[s] /\ sessions[s].user # u
  BY DEF Revoked, Closed
<1>2. sessions[s].user \in Users
  BY <1>1, SessionUsers
<1> QED BY <1>1, <1>2, HashSupers DEF Alone, Followed

\* The writes.
LEMMA WriteAlone ==
    ASSUME TypeInv, TypeInv', BoundInv, Alone, NEW r \in Requests,
           ~(Cardinality(Busy') > 1),
           \/ LoginSucceeds(r) \/ LoginFails(r) \/ Logout(r) \/ ChangePassword(r)
           \/ CreateUser(r) \/ UpdateUser(r) \/ ResetPassword(r)
    PROVE  Alone'
<1> DEFINE q == req[r]
<1>1. req[r].pc # "idle" /\ r \in Busy /\ End(r)
  BY DEF LoginSucceeds, LoginFails, Logout, ChangePassword, CreateUser,
         UpdateUser, ResetPassword, Writing, Busy
<1>2. /\ q \in Request /\ TrueTo(q, users, sessions) /\ q.who \in Users
      /\ users \in [Users -> User] /\ users' \in [Users -> User]
      /\ sessions \in [Sessions -> Session] /\ users[q.who] \in User
  BY <1>1, UnderWay DEF Alone, TypeInv, AccountsTypeOK
<1>3. SUFFICES /\ IsFiniteSet(SupersOf(users')) /\ SupersOf(users') # {}
               /\ Followed(users', sessions')
  BY <1>1, EndAlone
<1>4. CASE LoginSucceeds(r)
  <2>1. PICK s \in Sessions :
            sessions' = [sessions EXCEPT ![s] = [user |-> q.who, proved |-> q.hash]]
    BY <1>4 DEF LoginSucceeds
  <2>2. users[q.who].status = "active" /\ users[q.who].hash = q.hash
    BY <1>2, <1>4 DEF LoginSucceeds, Writing, TrueTo
  <2>3. \A x \in Sessions : sessions'[x] = IF x = s THEN [user |-> q.who, proved |-> q.hash]
                                                   ELSE sessions[x]
    BY <1>2, <2>1
  <2>4. users' = users
    BY <1>4 DEF LoginSucceeds
  <2> QED BY <2>2, <2>3, <2>4 DEF Alone, Followed
<1>5. CASE LoginFails(r) \/ Logout(r)
  <2>1. users' = users
    BY <1>5 DEF LoginFails, Logout
  <2>2. \A x \in Sessions : sessions'[x] \in {Closed, sessions[x]}
    BY <1>2, <1>5 DEF LoginFails, Logout
  <2> QED BY <2>1, <2>2 DEF Alone, Followed, Closed
<1>6. CASE ChangePassword(r)
  <2>1. users' = [users EXCEPT ![q.me].hash = q.hash]
    BY <1>6 DEF ChangePassword
  <2>2. ASSUME NEW s \in Sessions, sessions'[s].user # NoUser
        PROVE  /\ users'[sessions'[s].user].status = "active"
               /\ sessions'[s].proved = users'[sessions'[s].user].hash
    <3>1. sessions[s] \in Session
      BY SessionUsers
    <3>2. CASE s = q.session /\ Open(s)
      <4>1. sessions'[s] = [sessions[s] EXCEPT !.proved = q.hash]
        BY <1>6, <3>2 DEF ChangePassword
      <4>2. sessions'[s].user = sessions[s].user /\ sessions'[s].proved = q.hash
        BY <3>1, <4>1 DEF Session
      <4>3. q.kind = "password"
        BY <1>6 DEF ChangePassword, Writing
      <4>4. sessions[s].user = q.me /\ sessions[s].user \in Users
        BY <1>2, <3>2, <4>3, SessionUsers DEF TrueTo, Open
      <4>5. users[q.me].status = "active"
        BY <3>2, <4>4 DEF Alone, Followed, Open
      <4>6. users'[q.me].status = users[q.me].status /\ users'[q.me].hash = q.hash
        BY <1>2, <2>1, <4>4 DEF User
      <4> QED BY <4>2, <4>4, <4>5, <4>6
    <3>3. CASE ~(s = q.session /\ Open(s))
      <4>1. sessions'[s] = Revoked(q.me, {q.session})[s]
        BY <1>6, <3>3 DEF ChangePassword
      <4>2. sessions'[s] = sessions[s] /\ sessions[s].user # q.me
        BY <2>2, <3>3, <4>1 DEF Revoked, Closed, Open
      <4>3. sessions[s].user \in Users /\ users[sessions[s].user].status = "active"
            /\ sessions[s].proved = users[sessions[s].user].hash
        BY <2>2, <4>2, SessionUsers DEF Alone, Followed
      <4>4. users'[sessions[s].user] = users[sessions[s].user]
        BY <2>1, <4>2, <4>3, HashSupers
      <4> QED BY <4>2, <4>3, <4>4
    <3> QED BY <3>2, <3>3
  <2> QED BY <2>1, <2>2, HashSupers DEF Followed
<1>7. CASE CreateUser(r)
  <2> DEFINE row == [status |-> "active", hash |-> q.hash,
                     role |-> IF q.role = "super" THEN "super" ELSE "other"]
  <2>1. /\ users' = [users EXCEPT ![q.who] = row] /\ sessions' = sessions
        /\ users[q.who].status = "absent"
    BY <1>7 DEF CreateUser
  <2>2. row = users'[q.who] /\ row \in User
    BY <1>2, <2>1
  <2>3. q.who \notin SupersOf(users)
    BY <2>1 DEF SupersOf
  <2> HIDE DEF row
  <2>4. \A s \in Sessions : sessions[s].user # NoUser =>
            sessions[s].user \in Users \ {q.who}
    BY <2>1, SessionUsers DEF Alone, Followed
  <2>5. \A u \in Users \ {q.who} : users'[u] = users[u]
    BY <1>2, <2>1
  <2> QED BY <1>2, <2>1, <2>2, <2>3, <2>4, <2>5, RowSupers DEF Alone, Followed
<1>8. CASE UpdateUser(r)
  <2> DEFINE row == Updated(r, users[q.who])
  <2>1. /\ users' = [users EXCEPT ![q.who] = row]
        /\ sessions' = IF q.active = "off" THEN Revoked(q.who, {}) ELSE sessions
        /\ q.kind = "update" /\ q.pc = "write"
    BY <1>8 DEF UpdateUser, Writing
  <2>2. Agrees(q.loaded, users[q.who])
        /\ (TakesSuper(q) => \E v \in SupersOf(users) : v # q.who)
    BY <1>2, <2>1 DEF TrueTo
  <2>3. row \in User /\ \A u \in Users : users'[u] = IF u = q.who THEN row ELSE users[u]
    <3>1. row = users'[q.who]
      BY <1>2, <2>1
    <3> QED BY <1>2, <2>1, <3>1
  <2>4. /\ row.hash = users[q.who].hash
        /\ q.active # "off" /\ users[q.who].status = "active" => row.status = "active"
        /\ \/ row.status = "active" /\ row.role = "super"
           \/ TakesSuper(q)
           \/ ~(users[q.who].status = "active" /\ users[q.who].role = "super")
    <3>1. q.role \in Roles \cup {"keep"} /\ q.active \in {"keep", "on", "off"}
      BY <1>2 DEF Request
    <3> QED BY <1>2, <2>2, <3>1 DEF Updated, User, Roles, Agrees, TakesSuper
  <2> HIDE DEF row
  <2>5. IsFiniteSet(SupersOf(users')) /\ SupersOf(users') # {}
    BY <1>2, <2>1, <2>2, <2>3, <2>4, RowSupers DEF SupersOf
  <2>6. ASSUME NEW s \in Sessions, sessions'[s].user # NoUser
        PROVE  /\ users'[sessions'[s].user].status = "active"
               /\ sessions'[s].proved = users'[sessions'[s].user].hash
    <3>1. sessions'[s] = sessions[s] /\ (q.active = "off" => sessions[s].user # q.who)
      BY <2>1, <2>6 DEF Revoked, Closed
    <3>2. sessions[s].user \in Users
      BY <2>6, <3>1, SessionUsers
    <3> QED BY <2>3, <2>4, <2>6, <3>1, <3>2 DEF Alone, Followed
  <2> QED BY <2>5, <2>6 DEF Followed
<1>9. CASE ResetPassword(r)
  <2>1. users' = [users EXCEPT ![q.who].hash = q.hash] /\ sessions' = Revoked(q.who, {})
    BY <1>9 DEF ResetPassword
  <2> QED BY <2>1, HashSupers, RevokedFollowed
<1> QED BY <1>4, <1>5, <1>6, <1>7, <1>8, <1>9

\* The command line, while no request is under way.
LEMMA CliAlone ==
    ASSUME TypeInv, TypeInv', Alone, Cli, Busy = {}
    PROVE  Alone'
<1>1. UNCHANGED req /\ Busy' = {}
  BY DEF Cli, CliCreateAdmin, CliResetPassword, Busy
<1>2. SUFFICES /\ IsFiniteSet(SupersOf(users')) /\ SupersOf(users') # {}
               /\ Followed(users', sessions')
  BY <1>1 DEF Alone, SupersOf, Followed
<1>3. PICK u \in Users, h \in Hashes : CliCreateAdmin(u, h) \/ CliResetPassword(u, h)
  BY DEF Cli
<1>4. CASE CliCreateAdmin(u, h)
  <2> DEFINE row == [status |-> "active", role |-> "super", hash |-> h]
  <2>1. /\ users' = [users EXCEPT ![u] = row] /\ sessions' = sessions
        /\ users[u].status = "absent"
    BY <1>4 DEF CliCreateAdmin
  <2>2. row \in User /\ \A v \in Users \ {u} : users'[v] = users[v]
    BY <2>1 DEF User, Roles, TypeInv, AccountsTypeOK
  <2>3. IsFiniteSet(SupersOf(users')) /\ SupersOf(users') # {}
    BY <2>1, <2>2, RowSupers
  <2>4. ASSUME NEW s \in Sessions, sessions[s].user # NoUser
        PROVE  sessions[s].user \in Users \ {u}
    BY <2>1, <2>4, SessionUsers DEF Alone, Followed
  <2>5. Followed(users', sessions')
    BY <2>1, <2>2, <2>4 DEF Alone, Followed
  <2> QED BY <2>3, <2>5
<1>5. CASE CliResetPassword(u, h)
  <2>1. users' = [users EXCEPT ![u].hash = h] /\ sessions' = Revoked(u, {})
    BY <1>5 DEF CliResetPassword
  <2> QED BY <2>1, HashSupers, RevokedFollowed
<1> QED BY <1>3, <1>4, <1>5

\* Time passes, or nothing happens: sessions can only close.
LEMMA PassingAlone ==
    ASSUME TypeInv, Alone, Passing \/ UNCHANGED accountVars
    PROVE  Alone'
<1>1. /\ UNCHANGED <<users, req>>
      /\ \A s \in Sessions : sessions'[s] \in {Closed, sessions[s]}
  BY DEF Passing, Expire, AgeFailure, accountVars, TypeInv, AccountsTypeOK
<1>2. Busy' = Busy
  BY <1>1 DEF Busy
<1>3. \A s \in Sessions : sessions'[s].user # NoUser => sessions'[s] = sessions[s]
  BY <1>1 DEF Closed
<1>4. \A r \in Busy : TrueTo(req[r], users', sessions')
  BY <1>1, <1>3 DEF Alone, TrueTo
<1>5. (\A r \in Busy : TrueTo(req[r], users, sessions))'
  BY <1>1, <1>2, <1>4 DEF TrueTo, SupersOf, Agrees, TakesSuper
<1>6. IsFiniteSet(SupersOf(users))' /\ (SupersOf(users) # {})' /\ Followed(users, sessions)'
  BY <1>1, <1>3 DEF Alone, SupersOf, Followed
<1> QED BY <1>2, <1>5, <1>6 DEF Alone

LEMMA NextAlone ==
    ASSUME TypeInv, TypeInv', BoundInv, AloneInv, [AccountsNext]_accountVars
    PROVE  AloneInv'
<1> SUFFICES ASSUME ~overlapped' PROVE Alone'
  BY DEF AloneInv
<1>1. CASE \E r \in Requests : Handle(r)
           /\ overlapped' = (overlapped \/ Cardinality(Busy') > 1)
  <2>1. Alone /\ ~(Cardinality(Busy') > 1)
    BY <1>1 DEF AloneInv
  <2> QED BY <1>1, <2>1, BeginAlone, ReadAlone, WriteAlone DEF Handle
<1>2. CASE Cli /\ overlapped' = (overlapped \/ Busy # {})
  BY <1>2, CliAlone DEF AloneInv
<1>3. CASE (Passing /\ UNCHANGED overlapped) \/ UNCHANGED accountVars
  BY <1>3, PassingAlone DEF AloneInv, accountVars
<1> QED BY <1>1, <1>2, <1>3 DEF AccountsNext

LEMMA InitAlone == AccountsInit => AloneInv
<1> SUFFICES ASSUME AccountsInit PROVE Alone
  BY DEF AloneInv
<1>1. PICK u \in Users, h \in Hashes :
          users = [[v \in Users |-> Absent] EXCEPT
                      ![u] = [status |-> "active", role |-> "super", hash |-> h]]
  BY DEF AccountsInit
<1>2. SupersOf(users) = {u}
  BY <1>1 DEF SupersOf, Absent
<1>3. Busy = {} /\ Followed(users, sessions)
  BY DEF AccountsInit, Busy, Idle, Followed, Closed
<1> QED BY <1>2, <1>3, FS_Singleton DEF Alone

\* As long as requests come one at a time the installation keeps an active super
\* administrator, for any users and any sequence of requests (users.py,
\* _protect_last_super_admin).
THEOREM SuperAdminStays == AccountsSpec => []SuperAdminRemains
BY InitType, InitBound, InitAlone, NextType, NextBounded, NextAlone,
   AloneProperties, PTL DEF AccountsSpec

\* And an open session belongs to an active user, and to one who has shown the
\* password that is valid now (users.py, auth.py).
THEOREM SessionsAreFollowed == AccountsSpec => []SessionsFollowAccounts
BY InitType, InitBound, InitAlone, NextType, NextBounded, NextAlone,
   AloneProperties, PTL DEF AccountsSpec
=============================================================================

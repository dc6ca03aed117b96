------------------------------ MODULE Accounts ------------------------------
(***************************************************************************)
(* Users, sessions and logins (api/dependencies.py, api/routes/auth.py,    *)
(* api/routes/users.py, cli.py).                                           *)
(*                                                                         *)
(* These routes are plain functions: each request runs in a thread and     *)
(* reads the database row by row, outside any transaction.  SQLite begins  *)
(* one at the first write of a request, and the rows it loaded before may  *)
(* be stale by then.  So every read is a step, and from the first write to *)
(* the commit is one step.                                                 *)
(***************************************************************************)
EXTENDS Naturals, FiniteSets

CONSTANTS
    Users,       \* user names, one client address each
    Hashes,      \* passwords; a hash stands for the password it verifies
    Sessions,    \* how many sessions may be open at once
    Requests,    \* how many requests run at once
    Beside,      \* bound: the kinds of request that begin beside another one,
                 \* and after one that did
    MaxAttempts  \* login_max_attempts

ASSUME AccountsAssumption ==
    /\ MaxAttempts \in Nat \ {0}
    /\ IsFiniteSet(Requests) /\ Requests # {}

CONSTANTS NoUser, NoHash, NoSession
ASSUME NoneAssumption ==
    /\ NoUser \notin Users /\ NoHash \notin Hashes /\ NoSession \notin Sessions

VARIABLES
    users,      \* per name: the row, or that there is none
    sessions,   \* per slot: whose session is open there
    failures,   \* per name: failed logins since the last success, in the window
    req,        \* per request: what it does, where it is, what it has loaded
    overlapped  \* two requests have been under way at once (history)

accountVars == <<users, sessions, failures, req, overlapped>>

-----------------------------------------------------------------------------
Roles == {"super", "other"}
User ==
    [status: {"absent", "active", "inactive"}, role: Roles, hash: Hashes \cup {NoHash}]
Absent == [status |-> "absent", role |-> "other", hash |-> NoHash]

\* proved is the password that the owner of the session has shown last.
Session == [user: Users \cup {NoUser}, proved: Hashes \cup {NoHash}]
Closed == [user |-> NoUser, proved |-> NoHash]

AdminKinds == {"create", "update", "reset"}
Kinds == {"login", "logout", "password"} \cup AdminKinds

\* who is the user a request is about, me the one that sends it.  A request
\* to update may leave a column as it is.
Request ==
    [pc: {"idle", "check", "loadLogin", "reject",
          "loadMe", "loadTarget", "count", "write"},
     kind: Kinds, who: Users \cup {NoUser}, me: Users \cup {NoUser},
     session: Sessions \cup {NoSession}, loaded: User, hash: Hashes \cup {NoHash},
     role: Roles \cup {"keep"}, active: {"keep", "on", "off"}]

\* What an idle request holds.
Idle ==
    [pc |-> "idle", kind |-> "login", who |-> NoUser, me |-> NoUser,
     session |-> NoSession, loaded |-> Absent, hash |-> NoHash,
     role |-> "keep", active |-> "keep"]

AccountsTypeOK ==
    /\ users \in [Users -> User]
    /\ sessions \in [Sessions -> Session]
    /\ failures \in [Users -> Nat]
    /\ req \in [Requests -> Request]
    /\ overlapped \in BOOLEAN

Busy == {r \in Requests : req[r].pc # "idle"}
Open(s) == sessions[s].user # NoUser
Supers == {u \in Users : users[u].status = "active" /\ users[u].role = "super"}

\* The installation has created the first super administrator.
AccountsInit ==
    /\ \E u \in Users, h \in Hashes :
           users = [[v \in Users |-> Absent] EXCEPT
                       ![u] = [status |-> "active", role |-> "super", hash |-> h]]
    /\ sessions = [s \in Sessions |-> Closed]
    /\ failures = [u \in Users |-> 0]
    /\ req = [r \in Requests |-> Idle]
    /\ overlapped = FALSE

-----------------------------------------------------------------------------
\* Arrivals and ends of requests.

Begin(r, request) ==
    /\ req[r].pc = "idle"
    /\ (Busy = {} /\ ~overlapped) \/ request.kind \in Beside
    /\ req' = [req EXCEPT ![r] = request]
    /\ UNCHANGED <<users, sessions, failures>>

End(r) == req' = [req EXCEPT ![r] = Idle]
Refuse(r) == End(r) /\ UNCHANGED <<users, sessions, failures>>
Goto(r, point) ==
    /\ req' = [req EXCEPT ![r].pc = point]
    /\ UNCHANGED <<users, sessions, failures>>

BeginLogin(r) ==
    \E u \in Users, h \in Hashes :
        Begin(r, [Idle EXCEPT !.pc = "check", !.who = u, !.hash = h])

\* What may be asked for with a session: the password is there for all but a
\* logout and an update, role and activity where the schema has them.
Forms ==
    {f \in [kind: Kinds \ {"login"}, hash: Hashes \cup {NoHash},
            role: Roles \cup {"keep"}, active: {"keep", "on", "off"}] :
        /\ f.hash = NoHash <=> f.kind \in {"logout", "update"}
        /\ f.role = "keep" => f.kind # "create"
        /\ f.role # "keep" => f.kind \in {"create", "update"}
        /\ f.active # "keep" => f.kind = "update"
        /\ f.kind = "update" => ~(f.role = "keep" /\ f.active = "keep")}

\* The request that comes with session s, about user u.
Asked(s, u, f) ==
    [Idle EXCEPT !.pc = "loadMe", !.kind = f.kind, !.who = u,
                 !.me = sessions[s].user, !.session = s,
                 !.hash = f.hash, !.role = f.role, !.active = f.active]

\* get_auth_context: the token is that of a session that is neither revoked
\* nor expired.  A deactivation is an update.
BeginAuthenticated(r) ==
    \E s \in {t \in Sessions : Open(t)}, u \in Users, f \in Forms :
        /\ f.kind \in AdminKinds \/ u = sessions[s].user
        /\ Begin(r, Asked(s, u, f))

-----------------------------------------------------------------------------
\* Reads.

\* One failure more is let through (for the mutants).
CheckAttemptsLate(r) ==
    /\ req[r].pc = "check"
    /\ IF failures[req[r].who] > MaxAttempts
       THEN Refuse(r) ELSE Goto(r, "loadLogin")

CheckAttempts(r) ==
    /\ req[r].pc = "check"
    /\ IF failures[req[r].who] >= MaxAttempts
       THEN Refuse(r) ELSE Goto(r, "loadLogin")

LoadLogin(r) ==
    LET user == users[req[r].who] IN
    /\ req[r].pc = "loadLogin"
    /\ Goto(r, IF user.status = "active" /\ user.hash = req[r].hash
               THEN "write" ELSE "reject")

\* The request keeps of a row what it reads later: status and role.
Keep(r, row, point) ==
    /\ req' = [req EXCEPT ![r].loaded = [row EXCEPT !.hash = NoHash],
                          ![r].pc = point]
    /\ UNCHANGED <<users, sessions, failures>>

\* The sender must be active, for administration a super administrator, and
\* for a new password know the old one.
LoadMe(r) ==
    LET me == users[req[r].me] IN
    /\ req[r].pc = "loadMe"
    /\ \/ /\ me.status = "active"
          /\ IF req[r].kind \in AdminKinds
             THEN me.role = "super" /\ Keep(r, me, "loadTarget")
             ELSE Goto(r, "write")
       \/ /\ \/ me.status # "active"
             \/ req[r].kind \in AdminKinds /\ me.role # "super"
             \/ req[r].kind = "password"
          /\ Refuse(r)

\* Whether the update takes a super administrator away, as far as it knows.
Removes(r) ==
    /\ req[r].loaded.status = "active" /\ req[r].loaded.role = "super"
    /\ req[r].role = "other" \/ req[r].active = "off"

\* The session of a request holds one copy of a row: the sender's is not read
\* again.
LoadTarget(r) ==
    LET who == req[r].who
        row == IF who = req[r].me THEN req[r].loaded ELSE users[who]
    IN  /\ req[r].pc = "loadTarget"
        /\ IF (row.status = "absent") # (req[r].kind = "create") THEN Refuse(r)
           ELSE IF req[r].kind = "update" THEN Keep(r, row, "count")
           ELSE Keep(r, Absent, "write")

\* A protection that looks at the role only (for the mutants).
CountSupersByRole(r) ==
    /\ req[r].pc = "count"
    /\ IF Removes(r) /\ req[r].role = "other" /\ Cardinality(Supers) <= 1
       THEN Refuse(r) ELSE Goto(r, "write")

\* _protect_last_super_admin
CountSupers(r) ==
    /\ req[r].pc = "count"
    /\ IF Removes(r) /\ Cardinality(Supers) <= 1
       THEN Refuse(r) ELSE Goto(r, "write")

-----------------------------------------------------------------------------
\* Writes.

Writing(r, kind) == req[r].pc = "write" /\ req[r].kind = kind

LoginSucceeds(r) ==
    /\ Writing(r, "login")
    /\ \E s \in Sessions :
           /\ ~Open(s) /\ \A q \in Busy : req[q].kind # "login" => req[q].session # s
           /\ sessions' = [sessions EXCEPT ![s] =
                              [user |-> req[r].who, proved |-> req[r].hash]]
    /\ failures' = [failures EXCEPT ![req[r].who] = 0]
    /\ End(r)
    /\ UNCHANGED users

LoginFails(r) ==
    /\ req[r].pc = "reject"
    /\ failures' = [failures EXCEPT ![req[r].who] = @ + 1]
    /\ End(r)
    /\ UNCHANGED <<users, sessions>>

Logout(r) ==
    /\ Writing(r, "logout")
    /\ sessions' = [sessions EXCEPT ![req[r].session] = Closed]
    /\ End(r)
    /\ UNCHANGED <<users, failures>>

\* The sessions when those of a user are revoked, except the ones kept.
Revoked(u, kept) ==
    [s \in Sessions |-> IF sessions[s].user = u /\ s \notin kept
                        THEN Closed ELSE sessions[s]]

ChangePassword(r) ==
    /\ Writing(r, "password")
    /\ users' = [users EXCEPT ![req[r].me].hash = req[r].hash]
    /\ sessions' = [s \in Sessions |->
                       IF s = req[r].session /\ Open(s)
                       THEN [sessions[s] EXCEPT !.proved = req[r].hash]
                       ELSE Revoked(req[r].me, {req[r].session})[s]]
    /\ End(r)
    /\ UNCHANGED failures

CreateUser(r) ==
    /\ Writing(r, "create")
    /\ users[req[r].who].status = "absent"
    /\ users' = [users EXCEPT ![req[r].who] =
                    [status |-> "active", hash |-> req[r].hash,
                     role |-> IF req[r].role = "super" THEN "super" ELSE "other"]]
    /\ End(r)
    /\ UNCHANGED <<sessions, failures>>

\* The row after an update: only a column whose value differs from the loaded
\* one is written.
Updated(r, row) ==
    [row EXCEPT
        !.role = IF req[r].role \in {"keep", req[r].loaded.role} THEN @ ELSE req[r].role,
        !.status =
            CASE req[r].active = "on" /\ req[r].loaded.status # "active" -> "active"
              [] req[r].active = "off" /\ req[r].loaded.status = "active" -> "inactive"
              [] OTHER -> @]

\* An update that leaves the sessions alone (for the mutants).
UpdateUserOnly(r) ==
    /\ Writing(r, "update")
    /\ users' = [users EXCEPT ![req[r].who] = Updated(r, @)]
    /\ End(r)
    /\ UNCHANGED <<sessions, failures>>

UpdateUser(r) ==
    /\ Writing(r, "update")
    /\ users' = [users EXCEPT ![req[r].who] = Updated(r, @)]
    /\ sessions' = IF req[r].active = "off" THEN Revoked(req[r].who, {}) ELSE sessions
    /\ End(r)
    /\ UNCHANGED failures

ResetPassword(r) ==
    /\ Writing(r, "reset")
    /\ users' = [users EXCEPT ![req[r].who].hash = req[r].hash]
    /\ sessions' = Revoked(req[r].who, {})
    /\ End(r)
    /\ UNCHANGED failures

\* The database is locked for too long, or the row exists by now.
CommitFails(r) == req[r].pc \in {"write", "reject"} /\ Refuse(r)

-----------------------------------------------------------------------------
\* Time, and the command line, which is another process.

Expire(s) ==
    /\ Open(s)
    /\ sessions' = [sessions EXCEPT ![s] = Closed]
    /\ UNCHANGED <<users, failures, req>>

\* A count that goes below zero (for the mutants).
AgeFailureUnchecked(u) ==
    /\ failures' = [failures EXCEPT ![u] = @ - 1]
    /\ UNCHANGED <<users, sessions, req>>

AgeFailure(u) ==
    /\ failures[u] > 0
    /\ failures' = [failures EXCEPT ![u] = @ - 1]
    /\ UNCHANGED <<users, sessions, req>>

CliCreateAdmin(u, h) ==
    /\ users[u].status = "absent"
    /\ users' = [users EXCEPT ![u] = [status |-> "active", role |-> "super", hash |-> h]]
    /\ UNCHANGED <<sessions, failures, req>>

CliResetPassword(u, h) ==
    /\ users[u].status # "absent"
    /\ users' = [users EXCEPT ![u].hash = h]
    /\ sessions' = Revoked(u, {})
    /\ UNCHANGED <<failures, req>>

-----------------------------------------------------------------------------
Handle(r) ==
    \/ BeginLogin(r) \/ BeginAuthenticated(r)
    \/ CheckAttempts(r) \/ LoadLogin(r) \/ LoadMe(r) \/ LoadTarget(r) \/ CountSupers(r)
    \/ LoginSucceeds(r) \/ LoginFails(r) \/ Logout(r) \/ ChangePassword(r)
    \/ CreateUser(r) \/ UpdateUser(r) \/ ResetPassword(r) \/ CommitFails(r)

Cli == \E u \in Users, h \in Hashes : CliCreateAdmin(u, h) \/ CliResetPassword(u, h)

Passing == (\E s \in Sessions : Expire(s)) \/ (\E u \in Users : AgeFailure(u))

AccountsNext ==
    \/ /\ \E r \in Requests : Handle(r)
       /\ overlapped' = (overlapped \/ Cardinality(Busy') > 1)
    \/ Cli /\ overlapped' = (overlapped \/ Busy # {})
    \/ Passing /\ UNCHANGED overlapped

AccountsSpec == AccountsInit /\ [][AccountsNext]_accountVars

-----------------------------------------------------------------------------
\* Properties.

\* However many logins run at once, no more passwords are tried in a row than
\* the limit, and one for each request that was already past the check
\* (auth.py, _recent_failed_attempts and login).
AttemptsBounded ==
    \A u \in Users : failures[u] <= MaxAttempts + Cardinality(Requests) - 1

\* As long as requests come one at a time there is an active super
\* administrator, after any sequence of updates, deactivations and creations
\* (users.py, _protect_last_super_admin).
SuperAdminRemains == ~overlapped => Supers # {}

\* As long as requests come one at a time an open session belongs to an active
\* user, and its owner has shown the password that is valid now (users.py and
\* auth.py: what deactivation, reset and change revoke).
SessionsFollowAccounts ==
    ~overlapped =>
        \A s \in Sessions : Open(s) =>
            /\ users[sessions[s].user].status = "active"
            /\ sessions[s].proved = users[sessions[s].user].hash
=============================================================================

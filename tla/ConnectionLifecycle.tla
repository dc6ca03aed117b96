------------------------ MODULE ConnectionLifecycle ------------------------
(***************************************************************************)
(* One VPN connection under start, stop, restart and delete requests.      *)
(*                                                                         *)
(* A request (routes/connections.py) loads the database row once, calls    *)
(* ConnectionLifecycleService, which awaits one helper operation after     *)
(* another through RealConnectionLifecycleDriver, and commits at the end.  *)
(* Requests take no lock: they interleave at every await, and the helpers  *)
(* they wait for run side by side.  The executor gives up on a helper      *)
(* after its timeout; the helper itself goes on.                           *)
(*                                                                         *)
(* The session does not flush before the commit and writes only the        *)
(* columns whose value differs from the loaded one, so STARTING and        *)
(* STOPPING are never seen outside the request that set them.              *)
(*                                                                         *)
(* The process may stop at any point; the next start of the service runs   *)
(* recover_interrupted_connections before it accepts requests.             *)
(***************************************************************************)
EXTENDS RootHelper

CONSTANTS
    Requests,   \* request slots: how many requests may run at once
    Strays,     \* slots of helpers that the executor has given up on
    Survivors   \* the kinds of process that may outlive the service

ASSUME SurvivorsAssumption == Survivors \subseteq {"vpn", "socks", "helper"}

VARIABLES
    up,    \* the service accepts requests
    row,   \* the committed row of the connection and of its SOCKS endpoint
    rt,    \* what the helper finds on the machine (RootHelper)
    req,   \* per slot: the request, where it waits, and its session
    late,  \* per slot: a helper that still runs though its caller has gone on
    raced  \* history: a start that has read the state file, or a recovery, has
           \* run beside another helper

vars == <<up, row, rt, req, late>>

-----------------------------------------------------------------------------
Status == {"STOPPED", "STARTING", "RUNNING", "STOPPING", "FAILED"}

\* The columns of a connection (and is_active of its endpoint) that requests
\* change, as a session holds them; failures is consecutive_failures.
Columns ==
    [status: Status, active: BOOLEAN, node: Nodes \cup {NoNode}, failures: Nat]

\* What a commit can leave: the transitional values stay in their session.
Committed == {"STOPPED", "RUNNING", "FAILED"}

Row == [exists: BOOLEAN, endpoint: BOOLEAN, col: Columns]

NoColumns ==
    [status |-> "STOPPED", active |-> FALSE, node |-> NoNode, failures |-> 0]
NoRow == [exists |-> FALSE, endpoint |-> FALSE, col |-> NoColumns]

\* What a start, a stop and a delete wait for, in the order of the drivers.
StartPoints ==
    {"createNamespace", "applyKillswitch", "startOpenvpn", "spawnOpenvpn",
     "awaitTunnel", "probeExit", "startSocks", "spawnSocks", "awaitSocks"}
UndoPoints ==
    {"undoSocks", "undoOpenvpn", "undoKillswitch", "undoApply",
     "undoNamespace"}
StopPoints ==
    {"stopSocks", "stopOpenvpn", "removeKillswitch", "deleteNamespace"}
Points == StartPoints \cup UndoPoints \cup StopPoints \cup {"commit", "delete"}

Request ==
    [op: {"none", "start", "stop", "restart", "delete"},
     pc: Points \cup {"idle"}, endpoint: BOOLEAN, seen: Columns, mem: Columns]

IdleRequest ==
    [op |-> "none", pc |-> "idle", endpoint |-> FALSE,
     seen |-> NoColumns, mem |-> NoColumns]

At(r, point) == up /\ req[r].pc = point

\* The operation of the helper that a request waits for, where it is one that
\* changes something or decides about it; the other points only look.
OperationAt ==
    [createNamespace |-> "createNamespace", applyKillswitch |-> "applyKillswitch",
     startOpenvpn |-> "askOpenvpn", spawnOpenvpn |-> "spawnOpenvpn",
     startSocks |-> "askSocks", spawnSocks |-> "spawnSocks",
     undoSocks |-> "stopSocks", undoOpenvpn |-> "stopOpenvpn",
     undoKillswitch |-> "removeKillswitch", undoApply |-> "removeKillswitch",
     undoNamespace |-> "deleteNamespace", stopSocks |-> "stopSocks",
     stopOpenvpn |-> "stopOpenvpn", removeKillswitch |-> "removeKillswitch",
     deleteNamespace |-> "deleteNamespace"]

InCall(q) == q.pc \in DOMAIN OperationAt
CallOf(q) == [op |-> OperationAt[q.pc], node |-> q.mem.node]

NoCall == [op |-> "none", node |-> NoNode]
NoneLate == \A k \in Strays : late[k] = NoCall

\* recover_interrupted_connections selects by the committed row.
Interrupted ==
    row.exists /\ (row.col.status # "STOPPED" \/ row.col.active)

\* The helpers of the connection that are at work: those that requests wait for,
\* those that nobody waits for, and the purge of a service that starts.
Running ==
    {<<"request", r, CallOf(req[r])>> : r \in {s \in Requests : InCall(req[s])}}
    \cup {<<"late", k, late[k]>> : k \in {l \in Strays : late[l] # NoCall}}
    \cup {<<"recovery", 0, [op |-> "purge", node |-> NoNode]>> :
             x \in {y \in {0} : ~up /\ Interrupted}}

\* A start between its look and its spawn, or a recovery, is not alone.
Race(running) ==
    \E x \in running : x[3].op \in Spawns \cup {"purge"} /\ running # {x}

TypeOK ==
    /\ up \in BOOLEAN
    /\ row \in Row
    /\ row.col.status \in Committed
    /\ rt \in Runtime
    /\ req \in [Requests -> Request]
    /\ late \in [Strays -> Call \cup {NoCall}]
    /\ raced \in BOOLEAN

Init ==
    /\ up = TRUE
    /\ row = NoRow
    /\ rt = CleanRuntime
    /\ req = [r \in Requests |-> IdleRequest]
    /\ late = [k \in Strays |-> NoCall]
    /\ raced = FALSE

-----------------------------------------------------------------------------
\* How a request moves.

\* The request waits at another point, with its session at mem.
Continue(r, point, mem) ==
    req' = [req EXCEPT ![r].pc = point, ![r].mem = mem]

\* The executor's time is up: the caller goes on, and so does the helper.
GiveUp(c) ==
    /\ UNCHANGED rt
    /\ \E k \in Strays : late[k] = NoCall /\ late' = [late EXCEPT ![k] = c]

\* Await a helper operation; go on as ok or fail says.
AwaitCall(c, ok, fail) ==
    /\ UNCHANGED <<up, row>>
    /\ \/ \E o \in Outcomes(c, rt) :
              /\ rt' = o.rt
              /\ UNCHANGED late
              /\ IF o.ok THEN ok ELSE fail
       \/ GiveUp(c) /\ fail

Await(r, ok, fail) == AwaitCall(CallOf(req[r]), ok, fail)

\* Await, and go on at one of two points with the session as it is.
AwaitThen(r, okPoint, failPoint) ==
    Await(r, Continue(r, okPoint, req[r].mem), Continue(r, failPoint, req[r].mem))

\* A helper that only looks answers no, or yes if it finds what it looks for.
Look(found, ok, fail) ==
    /\ UNCHANGED <<up, row, rt, late>>
    /\ (found /\ ok) \/ fail

\* start() returns FAILED.
StartFailed(r) ==
    Continue(r, "commit",
             [req[r].mem EXCEPT !.status = "FAILED", !.active = FALSE])

\* A start that forgets to leave STARTING (for the mutants).
StartSucceededUnset(r) ==
    Continue(r, "commit",
             [req[r].mem EXCEPT !.active = req[r].endpoint, !.failures = 0])

\* start() returns RUNNING; the endpoint, if there is one, is active.
StartSucceeded(r) ==
    Continue(r, "commit",
             [req[r].mem EXCEPT !.status = "RUNNING",
                                !.active = req[r].endpoint, !.failures = 0])

\* stop() returns FAILED; the endpoint keeps the value the session has.
StopFailed(r) ==
    Continue(r, "commit", [req[r].mem EXCEPT !.status = "FAILED"])

\* stop() returns STOPPED; restart() calls start() without an await between.
StopSucceeded(r) ==
    IF req[r].op = "restart"
    THEN Continue(r, "createNamespace",
                  [req[r].mem EXCEPT !.status = "STARTING", !.active = FALSE])
    ELSE Continue(r, "commit",
                  [req[r].mem EXCEPT !.status = "STOPPED", !.active = FALSE])

\* The route has loaded the row and the service has accepted the request.
Accept(r, op, status, point) ==
    /\ up
    /\ req[r].pc = "idle"
    /\ row.exists
    /\ req' = [req EXCEPT ![r] =
                  [op |-> op, pc |-> point, endpoint |-> row.endpoint,
                   seen |-> row.col,
                   mem |-> [row.col EXCEPT !.status = status]]]
    /\ UNCHANGED <<up, row, rt, late>>

-----------------------------------------------------------------------------
\* Requests.

\* POST /connections: the row starts STOPPED; ids of deleted rows come back.
CreateConnection ==
    /\ up
    /\ ~row.exists
    /\ \E n \in Nodes, e \in BOOLEAN :
           row' = [exists |-> TRUE, endpoint |-> e,
                   col |-> [NoColumns EXCEPT !.node = n]]
    /\ UNCHANGED <<up, rt, req, late>>

AcceptStart(r) ==
    /\ row.col.status \in {"STOPPED", "FAILED"}
    /\ Accept(r, "start", "STARTING", "createNamespace")

\* The driver stops the proxy only when the row says that it is active.
FirstStopPoint == IF row.col.active THEN "stopSocks" ELSE "stopOpenvpn"

\* A stop of a STOPPED connection changes nothing.
AcceptStop(r) ==
    /\ row.col.status # "STOPPED"
    /\ Accept(r, "stop", "STOPPING", FirstStopPoint)

AcceptRestart(r) ==
    IF row.col.status = "STOPPED"
    THEN Accept(r, "restart", "STARTING", "createNamespace")
    ELSE Accept(r, "restart", "STOPPING", FirstStopPoint)

\* delete_connection checks the status and deletes in two statements of a
\* worker thread.
AcceptDelete(r) ==
    /\ row.col.status = "STOPPED"
    /\ Accept(r, "delete", "STOPPED", "delete")

-----------------------------------------------------------------------------
\* RealConnectionLifecycleDriver.start

CreateNamespace(r) ==
    /\ At(r, "createNamespace")
    /\ AwaitThen(r, "applyKillswitch", "undoNamespace")

ApplyKillswitch(r) ==
    /\ At(r, "applyKillswitch")
    /\ AwaitThen(r, "startOpenvpn", "undoApply")

\* The helper of a start looks, and then spawns; both times its caller waits.
StartOpenvpn(r) ==
    /\ At(r, "startOpenvpn")
    /\ AwaitThen(r, "spawnOpenvpn", "undoOpenvpn")

SpawnOpenvpn(r) ==
    /\ At(r, "spawnOpenvpn")
    /\ AwaitThen(r, "awaitTunnel", "undoOpenvpn")

\* A poll without a limit (for the mutants).
AwaitTunnelForEver(r) ==
    /\ At(r, "awaitTunnel")
    /\ Look(TunReady(rt), Continue(r, "probeExit", req[r].mem), UNCHANGED req)

\* Polls until tun0 and the route are there; gives up after its timeout.
AwaitTunnel(r) ==
    /\ At(r, "awaitTunnel")
    /\ Look(TunReady(rt), Continue(r, "probeExit", req[r].mem),
            Continue(r, "undoOpenvpn", req[r].mem))

\* The helper demands the kill switch and tun0 again before it asks for the
\* exit address.
ProbeExit(r) ==
    /\ At(r, "probeExit")
    /\ Look(KillswitchActive(rt) /\ TunReady(rt),
            IF req[r].endpoint
            THEN Continue(r, "startSocks", req[r].mem)
            ELSE StartSucceeded(r),
            Continue(r, "undoOpenvpn", req[r].mem))

\* The manager checks tun0 before it tries; only a try is rolled back.
StartSocks(r) ==
    /\ At(r, "startSocks")
    /\ \/ AwaitThen(r, "spawnSocks", "undoSocks")
       \/ Look(FALSE, FALSE, Continue(r, "undoOpenvpn", req[r].mem))

SpawnSocks(r) ==
    /\ At(r, "spawnSocks")
    /\ AwaitThen(r, "awaitSocks", "undoSocks")

\* A port that does not answer in time is rolled back; a check that raises
\* (the helper timed out) is not.
AwaitSocks(r) ==
    /\ At(r, "awaitSocks")
    /\ Look(rt.socks, StartSucceeded(r),
            \/ Continue(r, "undoSocks", req[r].mem)
            \/ Continue(r, "undoOpenvpn", req[r].mem))

\* Socks5Manager._rollback_stop: start fails whatever the answer is.
UndoSocks(r) ==
    /\ At(r, "undoSocks")
    /\ AwaitThen(r, "undoOpenvpn", "undoOpenvpn")

\* The driver keeps the kill switch and the namespace of an OpenVPN that it
\* could not stop.  OpenVPNManager.start has tried once before it raised; a
\* stop that worked there is the exit of the process.
UndoOpenvpn(r) ==
    /\ At(r, "undoOpenvpn")
    /\ Await(r, Continue(r, "undoKillswitch", req[r].mem), StartFailed(r))

UndoKillswitch(r) ==
    /\ At(r, "undoKillswitch")
    /\ Await(r, Continue(r, "undoNamespace", req[r].mem), StartFailed(r))

\* KillSwitchManager.apply removes after a failed installation; the driver
\* then deletes the namespace whether or not that worked.
UndoApply(r) ==
    /\ At(r, "undoApply")
    /\ AwaitThen(r, "undoNamespace", "undoNamespace")

\* NamespaceManager.delete: at the end of the driver's cleanup, and as the
\* rollback of a create of which any command failed.
UndoNamespace(r) ==
    /\ At(r, "undoNamespace")
    /\ Await(r, StartFailed(r), StartFailed(r))

-----------------------------------------------------------------------------
\* RealConnectionLifecycleDriver.stop

\* SocksEndpointService.stop marks the endpoint inactive at once.
StopSocks(r) ==
    /\ At(r, "stopSocks")
    /\ Await(r, Continue(r, "stopOpenvpn", [req[r].mem EXCEPT !.active = FALSE]),
             StopFailed(r))

StopOpenvpn(r) ==
    /\ At(r, "stopOpenvpn")
    /\ Await(r, Continue(r, "removeKillswitch", req[r].mem), StopFailed(r))

RemoveKillswitch(r) ==
    /\ At(r, "removeKillswitch")
    /\ Await(r, Continue(r, "deleteNamespace", req[r].mem), StopFailed(r))

\* A stop that does not look at the cleanup report (for the mutants).
DeleteNamespaceUnchecked(r) ==
    /\ At(r, "deleteNamespace")
    /\ Await(r, StopSucceeded(r), StopSucceeded(r))

DeleteNamespace(r) ==
    /\ At(r, "deleteNamespace")
    /\ Await(r, StopSucceeded(r), StopFailed(r))

-----------------------------------------------------------------------------
\* The end of a request.

\* An UPDATE names only the columns whose value differs from the loaded one.
Written(old, seen, mem) ==
    [status |-> IF mem.status # seen.status THEN mem.status ELSE old.status,
     active |-> IF mem.active # seen.active THEN mem.active ELSE old.active,
     node   |-> IF mem.node # seen.node THEN mem.node ELSE old.node,
     failures |-> IF mem.failures # seen.failures
                  THEN mem.failures ELSE old.failures]

\* db.commit(); without a row the UPDATE fails and the session rolls back.
Commit(r) ==
    /\ At(r, "commit")
    /\ row' = IF row.exists
              THEN [row EXCEPT !.col = Written(@, req[r].seen, req[r].mem)]
              ELSE row
    /\ req' = [req EXCEPT ![r] = IdleRequest]
    /\ UNCHANGED <<up, rt, late>>

DeleteRow(r) ==
    /\ At(r, "delete")
    /\ row' = NoRow
    /\ req' = [req EXCEPT ![r] = IdleRequest]
    /\ UNCHANGED <<up, rt, late>>

\* The database refuses a commit: the session rolls back, the machine does not.
CommitRefused(r) ==
    /\ At(r, "commit") \/ At(r, "delete")
    /\ req' = [req EXCEPT ![r] = IdleRequest]
    /\ UNCHANGED <<up, row, rt, late>>

-----------------------------------------------------------------------------
\* The machine and the service.

OpenvpnExits ==
    /\ rt.vpn # NoNode
    /\ rt' = WithoutVpn(rt)
    /\ UNCHANGED <<up, row, req, late>>

SocksExits ==
    /\ rt.socks
    /\ rt' = WithoutSocks(rt)
    /\ UNCHANGED <<up, row, req, late>>

\* A helper that nobody waits for takes effect; a look that permits a start is
\* followed by its spawn.
LateStep(k) ==
    /\ late[k] # NoCall
    /\ \E o \in Outcomes(late[k], rt) :
          /\ rt' = o.rt
          /\ late' = [late EXCEPT ![k] = IF o.ok /\ late[k].op \in Asks
                                        THEN [late[k] EXCEPT !.op = SpawnAfter(late[k].op)]
                                        ELSE NoCall]
    /\ UNCHANGED <<up, row, req>>

\* The service ends, by a crash or by a stop; nothing in memory survives.
Crash ==
    /\ up
    /\ up' = FALSE
    /\ req' = [r \in Requests |-> IdleRequest]
    /\ \E alive \in SUBSET Survivors :
           /\ LET s == IF "vpn" \in alive THEN rt ELSE WithoutVpn(rt)
              IN  rt' = IF "socks" \in alive THEN s ELSE WithoutSocks(s)
           /\ late' = IF "helper" \in alive THEN late
                      ELSE [k \in Strays |-> NoCall]
    /\ UNCHANGED row

\* The row of a connection that was purged.
ClosedRow ==
    [row EXCEPT !.col.status = "STOPPED", !.col.active = FALSE,
                !.col.failures = 0]

\* A recovery that ignores the purge's answer (for the mutants).
RecoverUnchecked ==
    /\ ~up
    /\ up' = TRUE
    /\ IF Interrupted
       THEN /\ \E o \in Purge(rt) : rt' = o.rt
            /\ row' = ClosedRow
       ELSE UNCHANGED <<row, rt>>
    /\ UNCHANGED <<req, late>>

\* The lifespan of main.py: a purge that fails keeps the service down.
Recover ==
    /\ ~up
    /\ IF Interrupted
       THEN \E o \in Purge(rt) :
                /\ rt' = o.rt
                /\ up' = o.ok
                /\ row' = IF o.ok THEN ClosedRow ELSE row
       ELSE /\ up' = TRUE
            /\ UNCHANGED <<row, rt>>
    /\ UNCHANGED <<req, late>>

-----------------------------------------------------------------------------
Arrive(r) ==
    AcceptStart(r) \/ AcceptStop(r) \/ AcceptRestart(r) \/ AcceptDelete(r)

\* One step of a request that was accepted.
Progress(r) ==
    \/ CreateNamespace(r) \/ ApplyKillswitch(r)
    \/ StartOpenvpn(r) \/ SpawnOpenvpn(r) \/ AwaitTunnel(r) \/ ProbeExit(r)
    \/ StartSocks(r) \/ SpawnSocks(r) \/ AwaitSocks(r)
    \/ UndoSocks(r) \/ UndoOpenvpn(r) \/ UndoKillswitch(r) \/ UndoApply(r)
    \/ UndoNamespace(r)
    \/ StopSocks(r) \/ StopOpenvpn(r) \/ RemoveKillswitch(r)
    \/ DeleteNamespace(r)
    \/ Commit(r) \/ DeleteRow(r)

\* The service while it runs, on a machine whose processes may end.
Serving ==
    \/ CreateConnection
    \/ \E r \in Requests : Arrive(r) \/ Progress(r)
    \/ OpenvpnExits
    \/ SocksExits

\* What may go wrong around it.
Mishap ==
    \/ \E r \in Requests : CommitRefused(r)
    \/ \E k \in Strays : LateStep(k)

\* A race is noted in the step that brings it about.
Note(running) == raced' = (raced \/ Race(running)')

Next == (Serving \/ Mishap \/ Crash \/ Recover) /\ Note(Running)

Spec == Init /\ [][Next]_<<vars, raced>>

-----------------------------------------------------------------------------
\* Properties.

Quiet == \A r \in Requests : req[r].pc = "idle"

\* The row says that nothing of the connection runs, or there is no row.
SaysStopped == row.exists => row.col.status = "STOPPED"

\* Whatever requests interleave, whatever fails, is cut off or takes effect after
\* its caller has given up: until a start looks for the kill switch and spawns
\* its process while another helper of the connection is at work, a managed
\* OpenVPN runs only behind host rules and a state file for its own node, a
\* managed 3proxy only behind host rules and a state file, and while a process
\* runs in the namespace that has the name, the rules are in that namespace too
\* (root_helper.py: execute, _apply_killswitch, _remove_killswitch).
KillSwitchGuard == ~raced => Guarded(rt)

\* One request or switch at a time, no crash, no helper that outlives its call and
\* no refused commit: whenever no request runs and the row says STOPPED, or was
\* deleted, no process, no state file and no namespace is left, whichever helper
\* operations failed before; what may be left are host rules, where the helper
\* could not list them (ConnectionLifecycleService.stop, delete_connection).
StoppedIsClean == Quiet /\ SaysStopped => NothingButRules(rt)

\* A service that comes up never presents a connection as running or a proxy
\* as active.  Unless another helper was at work beside it, it has also removed
\* every process, the state file and the namespace of a connection whose row said
\* that it was (recovery.py, main.py lifespan).
RecoveryFailsClosed ==
    [][~up /\ up' =>
           /\ row'.exists => row'.col.status = "STOPPED" /\ ~row'.col.active
           /\ Interrupted /\ ~raced => NothingButRules(rt')]_vars

\* A request that was accepted ends: no failure of the helper, no other
\* request and no death of a process keeps it waiting for ever.
RequestsEnd == \A r \in Requests : req[r].pc # "idle" ~> req[r].pc = "idle"

\* The abstract promise, read off the machine.
Promise == INSTANCE FailClosedTunnel WITH
    guard  <- IF rt.hostRules THEN rt.ks ELSE NoNode,
    tunnel <- rt.vpn,
    proxy  <- rt.socks,
    raced  <- raced

\* Every step of the service is a step of the fail-closed tunnel.
KeepsPromise == Promise!Spec

\* recovery.py: every interrupted connection is purged when the service
\* starts again.
RestartPurges == [][~up /\ up' => NothingButRules(rt')]_vars
=============================================================================

----------------------------- MODULE AutoSwitch -----------------------------
(***************************************************************************)
(* Health checks and node switches of one connection (services/auto_switch *)
(* and the routes that call it), beside the lifecycle requests of          *)
(* ConnectionLifecycle.                                                    *)
(*                                                                         *)
(* A job is a manual switch, or a health check of the monitor or of the    *)
(* route, which may go on to an automatic switch.  Switches of one         *)
(* connection take its asyncio.Lock in turn; lifecycle requests do not     *)
(* take it.  A job loads the row before it waits for the lock and does not *)
(* load it again.  The code after the last await of a job, the commit      *)
(* included, is one step, and the lock is free only when it ends.          *)
(***************************************************************************)
EXTENDS ConnectionLifecycle, Sequences

CONSTANTS
    Jobs,          \* how many switches and health checks may run at once
    Threshold,     \* failed checks in a row before an automatic switch
    MaxSwitches,   \* automatic switches within an hour
    FailureBound   \* no new job on a row with that many failures (for TLC)

ASSUME SwitchAssumption ==
    Threshold \in 1..20 /\ MaxSwitches \in 1..20 /\ FailureBound \in Nat

VARIABLES
    lock,    \* the jobs in line for the connection's lock, its holder first
    job,     \* per slot: the job, where it waits, and its session
    recent   \* automatic switch events of the connection in the last hour

allVars == <<vars, lock, job, recent>>

SwitchPoints ==
    {"haltSocks", "verifyGuard", "haltOpenvpn", "reguard", "undoReguard",
     "restore", "undoRestore", "dial", "spawnDial", "awaitDial", "verifyExit",
     "resumeSocks", "spawnResume", "awaitResume", "undoResume", "undoDial",
     "settle"}

Job ==
    [kind: {"none", "manual", "health"},
     pc: SwitchPoints \cup {"idle", "observe", "probe", "judge", "queued"},
     candidate: Nodes \cup {NoNode}, resume: BOOLEAN,
     seen: Columns, mem: Columns]

IdleJob ==
    [kind |-> "none", pc |-> "idle", candidate |-> NoNode, resume |-> FALSE,
     seen |-> NoColumns, mem |-> NoColumns]

SwitchTypeOK ==
    /\ TypeOK
    /\ lock \in Seq(Jobs)
    /\ job \in [Jobs -> Job]
    /\ recent \in Nat

SwitchInit ==
    /\ Init
    /\ lock = <<>>
    /\ job = [j \in Jobs |-> IdleJob]
    /\ recent = 0

-----------------------------------------------------------------------------
\* How a job moves.

JobAt(j, point) == up /\ job[j].pc = point

\* The operation of the helper that a job waits for, as for requests.
JobOperationAt ==
    [haltSocks |-> "stopSocks", haltOpenvpn |-> "stopOpenvpn",
     reguard |-> "applyKillswitch", undoReguard |-> "removeKillswitch",
     restore |-> "applyKillswitch", undoRestore |-> "removeKillswitch",
     dial |-> "askOpenvpn", spawnDial |-> "spawnOpenvpn",
     resumeSocks |-> "askSocks", spawnResume |-> "spawnSocks",
     undoResume |-> "stopSocks", undoDial |-> "stopOpenvpn"]

\* Only the restoration is for the node of the session.
JobInCall(x) == x.pc \in DOMAIN JobOperationAt
JobCallOf(x) ==
    [op |-> JobOperationAt[x.pc],
     node |-> IF x.pc = "restore" THEN x.mem.node ELSE x.candidate]

AllRunning ==
    Running \cup {<<"job", j, JobCallOf(job[j])>> : j \in {i \in Jobs : JobInCall(job[i])}}

\* A job that has just loaded the row.
Loaded(kind, point) ==
    [IdleJob EXCEPT !.kind = kind, !.pc = point,
                    !.seen = row.col, !.mem = row.col]

Move(j, point) == job' = [job EXCEPT ![j].pc = point]

\* Await a helper operation; go on as ok or fail says.
JobAwait(j, ok, fail) ==
    /\ AwaitCall(JobCallOf(job[j]), ok, fail)
    /\ UNCHANGED <<req, lock, recent>>

\* A helper that only looks.
JobLook(found, ok, fail) ==
    /\ Look(found, ok, fail)
    /\ UNCHANGED <<req, lock, recent>>

\* The session of job s is committed: only changed columns are written.
Save(s) ==
    row' = IF row.exists
           THEN [row EXCEPT !.col = Written(@, s.seen, s.mem)]
           ELSE row

\* The switch is over; the row is yet to be saved.
SwitchEnds(j, mem) == job' = [job EXCEPT ![j].pc = "settle", ![j].mem = mem]

SwitchFailed(j) ==
    SwitchEnds(j, [job[j].mem EXCEPT !.status = "FAILED", !.active = FALSE,
                                     !.failures = @ + 1])

\* A success that forgets to leave STARTING (for the mutants).
SwitchSucceededStarting(j) ==
    SwitchEnds(j, [job[j].mem EXCEPT !.status = "STARTING",
                                     !.node = job[j].candidate])

\* A success that keeps the old node in the row (for the mutants).
SwitchSucceededSameNode(j) ==
    SwitchEnds(j, [job[j].mem EXCEPT !.status = "RUNNING", !.failures = 0,
                                     !.active = job[j].resume])

SwitchSucceeded(j) ==
    SwitchEnds(j, [job[j].mem EXCEPT !.status = "RUNNING", !.failures = 0,
                                     !.active = job[j].resume,
                                     !.node = job[j].candidate])

-----------------------------------------------------------------------------
\* The lock.

\* The switch is refused: no candidate, or too many switches in the hour.  The
\* lock goes on at once; a health check commits what it has seen.
Refuse(j, s, line) ==
    /\ job' = [job EXCEPT ![j] = IdleJob]
    /\ lock' = Tail(line)
    /\ IF s.kind = "health" THEN Save(s) ELSE UNCHANGED row

\* The first job of the line runs: it counts the events of the hour, takes a
\* candidate other than the node of its session, and loads the endpoint.
Turn(j, s, line) ==
    \/ Refuse(j, s, line)
    \/ /\ s.kind = "health" => recent < MaxSwitches
       /\ \E n \in Nodes \ {s.mem.node} :
              job' = [job EXCEPT ![j] =
                         [s EXCEPT !.candidate = n, !.resume = row.col.active,
                                   !.seen.active = row.col.active,
                                   !.mem.active = row.col.active,
                                   !.pc = IF row.col.active THEN "haltSocks"
                                          ELSE "verifyGuard"]]
       /\ lock' = line
       /\ UNCHANGED row

\* A switch that does not wait for the lock (for the mutants).
EnterAtOnce(j, s) == Turn(j, s, Append(lock, j))

\* A free lock is taken without an await; otherwise the job waits in line.
Enter(j, s) ==
    IF lock = <<>>
    THEN Turn(j, s, <<j>>)
    ELSE /\ job' = [job EXCEPT ![j] = [s EXCEPT !.pc = "queued"]]
         /\ lock' = Append(lock, j)
         /\ UNCHANGED row

WakeUp(j) ==
    /\ JobAt(j, "queued")
    /\ lock # <<>> /\ Head(lock) = j
    /\ Turn(j, job[j], lock)
    /\ UNCHANGED <<up, rt, req, late, recent>>

-----------------------------------------------------------------------------
\* Jobs arrive.

Idle(j) ==
    /\ up /\ job[j].pc = "idle"
    /\ row.exists /\ row.col.failures < FailureBound

\* POST /connections/{id}/switch
AcceptSwitch(j) ==
    /\ Idle(j)
    /\ row.col.status \in {"RUNNING", "FAILED"}
    /\ Enter(j, Loaded("manual", "queued"))
    /\ UNCHANGED <<up, rt, req, late, recent>>

\* POST /connections/{id}/health-check, and each tick of the monitor.
AcceptCheck(j) ==
    /\ Idle(j)
    /\ row.col.status = "RUNNING"
    /\ job' = [job EXCEPT ![j] = Loaded("health", "observe")]
    /\ UNCHANGED <<up, row, rt, req, late, lock, recent>>

-----------------------------------------------------------------------------
\* ConnectionSwitchService.check_health

Checked(j, failures) ==
    job' = [job EXCEPT ![j].pc = "judge", ![j].mem =
               [job[j].mem EXCEPT !.failures = failures]]

Healthy(j) == Checked(j, 0)
Unhealthy(j) == Checked(j, job[j].mem.failures + 1)

Observe(j) ==
    /\ JobAt(j, "observe")
    /\ JobLook(rt.vpn # NoNode, Move(j, "probe"), Unhealthy(j))

\* The exit probe, the classification and the service checks against the policy.
Probe(j) ==
    /\ JobAt(j, "probe")
    /\ JobLook(KillswitchActive(rt) /\ TunReady(rt), Healthy(j), Unhealthy(j))

\* Enough failures lead to an automatic switch, by the count of this session.
Judge(j) ==
    /\ JobAt(j, "judge")
    /\ IF job[j].mem.failures >= Threshold
       THEN Enter(j, job[j])
       ELSE /\ Save(job[j])
            /\ job' = [job EXCEPT ![j] = IdleJob]
            /\ UNCHANGED lock
    /\ UNCHANGED <<up, rt, req, late, recent>>

-----------------------------------------------------------------------------
\* RealConnectionRuntimeDriver.switch

HaltSocks(j) ==
    /\ JobAt(j, "haltSocks")
    /\ JobAwait(j, Move(j, "verifyGuard"), SwitchFailed(j))

\* killswitch.status asks for the rules and a state file, of any node.
VerifyGuard(j) ==
    /\ JobAt(j, "verifyGuard")
    /\ JobLook(KillswitchActive(rt), Move(j, "haltOpenvpn"), SwitchFailed(j))

HaltOpenvpn(j) ==
    /\ JobAt(j, "haltOpenvpn")
    /\ JobAwait(j, Move(j, "reguard"), SwitchFailed(j))

Reguard(j) ==
    /\ JobAt(j, "reguard")
    /\ JobAwait(j, Move(j, "dial"), Move(j, "undoReguard"))

\* KillSwitchManager.apply removes after a failure, whatever comes of it.
UndoReguard(j) ==
    /\ JobAt(j, "undoReguard")
    /\ JobAwait(j, Move(j, "restore"), Move(j, "restore"))

\* The kill switch of the old node of the session is applied again.
Restore(j) ==
    /\ JobAt(j, "restore")
    /\ JobAwait(j, SwitchFailed(j), Move(j, "undoRestore"))

UndoRestore(j) ==
    /\ JobAt(j, "undoRestore")
    /\ JobAwait(j, SwitchFailed(j), SwitchFailed(j))

\* As in a start: the helper looks, and then spawns.
Dial(j) ==
    /\ JobAt(j, "dial")
    /\ JobAwait(j, Move(j, "spawnDial"), Move(j, "undoDial"))

SpawnDial(j) ==
    /\ JobAt(j, "spawnDial")
    /\ JobAwait(j, Move(j, "awaitDial"), Move(j, "undoDial"))

AwaitDial(j) ==
    /\ JobAt(j, "awaitDial")
    /\ JobLook(TunReady(rt), Move(j, "verifyExit"), Move(j, "undoDial"))

\* Exit address, performance, network type and services of the new node.
VerifyExit(j) ==
    /\ JobAt(j, "verifyExit")
    /\ JobLook(KillswitchActive(rt) /\ TunReady(rt),
               IF job[j].resume THEN Move(j, "resumeSocks") ELSE SwitchSucceeded(j),
               Move(j, "undoDial"))

\* A check of tun0 that fails leaves nothing to roll back.
ResumeSocks(j) ==
    /\ JobAt(j, "resumeSocks")
    /\ \/ JobAwait(j, Move(j, "spawnResume"), Move(j, "undoResume"))
       \/ JobLook(FALSE, FALSE, Move(j, "undoDial"))

SpawnResume(j) ==
    /\ JobAt(j, "spawnResume")
    /\ JobAwait(j, Move(j, "awaitResume"), Move(j, "undoResume"))

AwaitResume(j) ==
    /\ JobAt(j, "awaitResume")
    /\ JobLook(rt.socks, SwitchSucceeded(j),
               Move(j, "undoResume") \/ Move(j, "undoDial"))

UndoResume(j) ==
    /\ JobAt(j, "undoResume")
    /\ JobAwait(j, Move(j, "undoDial"), Move(j, "undoDial"))

UndoDial(j) ==
    /\ JobAt(j, "undoDial")
    /\ JobAwait(j, SwitchFailed(j), SwitchFailed(j))

\* An end that keeps the lock (for the mutants).
SettledLocked(j) ==
    /\ JobAt(j, "settle")
    /\ Save(job[j])
    /\ job' = [job EXCEPT ![j] = IdleJob]
    /\ UNCHANGED <<up, rt, req, late, lock, recent>>

\* switch() returns, its event and its columns are committed, the lock goes on.
Settled(j) ==
    /\ JobAt(j, "settle")
    /\ Save(job[j])
    /\ recent' = IF job[j].kind = "health" /\ row.exists
                 THEN recent + 1 ELSE recent
    /\ lock' = Tail(lock)
    /\ job' = [job EXCEPT ![j] = IdleJob]
    /\ UNCHANGED <<up, rt, req, late>>

-----------------------------------------------------------------------------
\* An event leaves the window of an hour.
Age ==
    /\ recent > 0
    /\ recent' = recent - 1
    /\ UNCHANGED <<vars, lock, job>>

\* Deleting a connection cuts its events off from the id.
Lifecycle(step) ==
    /\ step
    /\ recent' = IF row.exists /\ ~row'.exists THEN 0 ELSE recent
    /\ UNCHANGED <<lock, job>>

\* Locks and jobs are in the memory of the service, events in its database.
CrashAll ==
    /\ Crash
    /\ lock' = <<>>
    /\ job' = [j \in Jobs |-> IdleJob]
    /\ UNCHANGED recent

ArriveJob(j) == AcceptSwitch(j) \/ AcceptCheck(j)

ProgressJob(j) ==
    \/ Observe(j) \/ Probe(j) \/ Judge(j) \/ WakeUp(j)
    \/ HaltSocks(j) \/ VerifyGuard(j) \/ HaltOpenvpn(j) \/ Reguard(j)
    \/ UndoReguard(j) \/ Restore(j) \/ UndoRestore(j)
    \/ Dial(j) \/ SpawnDial(j) \/ AwaitDial(j) \/ VerifyExit(j)
    \/ ResumeSocks(j) \/ SpawnResume(j) \/ AwaitResume(j)
    \/ UndoResume(j) \/ UndoDial(j)
    \/ Settled(j)

Switching == \E j \in Jobs : ArriveJob(j) \/ ProgressJob(j)

SwitchNext ==
    /\ Lifecycle(Serving \/ Mishap \/ Recover) \/ CrashAll \/ Switching \/ Age
    /\ Note(AllRunning)

SwitchSpec == SwitchInit /\ [][SwitchNext]_<<allVars, raced>>

\* Requests and jobs one after another, while the service keeps running, every
\* helper ends before its call and no commit is refused.  Every helper call ends,
\* at the latest by the executor's timeout, and its task goes on.
OneAtATime == Quiet \/ \A j \in Jobs : job[j].pc = "idle"

SerialNext ==
    /\ Lifecycle(Serving) \/ Switching \/ Age
    /\ Note(AllRunning)
    /\ OneAtATime' /\ NoneLate'

SerialSpec ==
    /\ SwitchInit
    /\ [][SerialNext]_<<allVars, raced>>
    /\ \A r \in Requests : WF_vars(Progress(r))

\* The row and the machine after a start with a proxy has succeeded.
RunningInit ==
    /\ up = TRUE
    /\ \E n \in Nodes :
           /\ row = [exists |-> TRUE, endpoint |-> TRUE,
                     col |-> [status |-> "RUNNING", active |-> TRUE,
                              node |-> n, failures |-> 0]]
           /\ rt = [ns |-> TRUE, ks |-> n, hostRules |-> TRUE, nsRules |-> TRUE,
                    vpn |-> n, socks |-> TRUE, orphaned |-> FALSE]
    /\ req = [r \in Requests |-> IdleRequest]
    /\ late = [k \in Strays |-> NoCall]
    /\ raced = FALSE
    /\ lock = <<>>
    /\ job = [j \in Jobs |-> IdleJob]
    /\ recent = 0

\* No helper outlives its call.
RunningSpec == RunningInit /\ [][SwitchNext /\ NoneLate']_<<allVars, raced>>

FairSwitchSpec ==
    RunningSpec /\ \A j \in Jobs : WF_allVars(ProgressJob(j))

-----------------------------------------------------------------------------
\* Properties.

\* Counting the events and adding one are far apart, and several checks may
\* find the same connection unhealthy: there are still never more than
\* MaxSwitches automatic switches of a connection in an hour
\* (ConnectionSwitchService.switch).
RateLimit == recent <= MaxSwitches

\* Starts, stops, restarts, checks and switches one after another, with any
\* failure of a helper that ends before its call: a connection that is RUNNING
\* while no job runs has a tunnel to the node of its row or none, although a
\* switch commits a row that it loaded before its first await
\* (ConnectionSwitchService.switch).
RowNamesTunnel ==
    /\ \A j \in Jobs : job[j].pc = "idle"
    /\ up /\ row.exists /\ row.col.status = "RUNNING" /\ rt.vpn # NoNode
    => rt.vpn = row.col.node

\* Switches alone, whose helpers end before their calls: clients never get through
\* a tunnel that is not verified yet, not even when an earlier switch could not
\* stop the proxy (RealConnectionRuntimeDriver.switch, _apply_killswitch).
NoProxyBeforeVerified ==
    \A j \in Jobs :
        job[j].pc \in {"dial", "spawnDial", "awaitDial", "verifyExit"} => ~rt.socks

\* A switch or a check that was accepted ends, so the lock is never kept,
\* whichever jobs wait for it and whatever fails.
JobsEnd == \A j \in Jobs : job[j].pc # "idle" ~> job[j].pc = "idle"
=============================================================================

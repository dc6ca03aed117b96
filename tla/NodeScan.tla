------------------------------ MODULE NodeScan ------------------------------
(***************************************************************************)
(* The scans of nodes (services/scanning/service.py and full.py).          *)
(*                                                                         *)
(* A scan takes a permit of the coordinator's semaphore and, if it is a    *)
(* full scan, one of the reserved slots: a connection id on which it       *)
(* brings up a namespace, the kill switch and OpenVPN, and takes them down *)
(* again.  That work runs in a worker thread, which nothing can stop; the  *)
(* coroutine that awaits it may time out or be cancelled, and has to keep  *)
(* the slot until the thread is done.                                      *)
(***************************************************************************)
EXTENDS RootHelper, Sequences, FiniteSets

CONSTANTS
    Scans,          \* how many scans may be asked for, or still run, at once
    Concurrency,    \* permits, and slots
    BuiltinTimeout, \* asyncio.TimeoutError is TimeoutError (Python >= 3.11)
    VpnSurvives     \* an OpenVPN may outlive the service

ASSUME ScanAssumption ==
    /\ Concurrency \in 1..10
    /\ BuiltinTimeout \in BOOLEAN /\ VpnSurvives \in BOOLEAN

Slots == 1..Concurrency
NoSlot == 0

VARIABLES
    phase,    \* of the service
    machine,  \* per slot: what the helper finds there
    free,     \* the queue of slots that no scan has
    line,     \* the scans that wait for a permit
    scan,     \* per scan: its kind, where its coroutine waits, its slot
    thread    \* per scan: its worker, what it does and what came of it

scanVars == <<phase, machine, free, line, scan, thread>>

-----------------------------------------------------------------------------
Scan ==
    [pc: {"idle", "permit", "shielded", "drain", "cancel"},
     kind: {"fast", "full"}, node: Nodes \cup {NoNode}, slot: Slots \cup {NoSlot}]

IdleScan == [pc |-> "idle", kind |-> "fast", node |-> NoNode, slot |-> NoSlot]

ThreadPoints ==
    {"create", "undoCreate", "apply", "undoApply", "dial", "awaitTun", "probe",
     "stop", "remove", "delete", "transport"}

Thread ==
    [pc: ThreadPoints \cup {"none", "done"}, result: {"SUCCEEDED", "FAILED"},
     node: Nodes \cup {NoNode}, slot: Slots \cup {NoSlot}]

NoThread ==
    [pc |-> "none", result |-> "FAILED", node |-> NoNode, slot |-> NoSlot]

ScanTypeOK ==
    /\ phase \in {"serving", "stopping", "down"}
    /\ machine \in [Slots -> Runtime]
    /\ free \in Seq(Slots)
    /\ line \in Seq(Scans)
    /\ scan \in [Scans -> Scan]
    /\ thread \in [Scans -> Thread]

ScanInit ==
    /\ phase = "serving"
    /\ machine = [s \in Slots |-> CleanRuntime]
    /\ free = [i \in Slots |-> i]
    /\ line = <<>>
    /\ scan = [c \in Scans |-> IdleScan]
    /\ thread = [c \in Scans |-> NoThread]

HasPermit(c) == scan[c].pc \in {"shielded", "drain", "cancel"}
Live(c) == thread[c].pc \in ThreadPoints

-----------------------------------------------------------------------------
\* The coroutine: NodeScanCoordinator.scan and _wait_safely.

RequestScan(c) ==
    /\ phase = "serving"
    /\ scan[c].pc = "idle" /\ thread[c].pc = "none"
    /\ \E k \in {"fast", "full"}, n \in Nodes :
           scan' = [scan EXCEPT ![c] =
                       [IdleScan EXCEPT !.pc = "permit", !.kind = k, !.node = n]]
    /\ line' = Append(line, c)
    /\ UNCHANGED <<phase, machine, free, thread>>

\* With its permit a full scan takes a slot, and the operation starts.
Acquire(c) ==
    /\ phase = "serving"
    /\ line # <<>> /\ Head(line) = c
    /\ Cardinality({d \in Scans : HasPermit(d)}) < Concurrency
    /\ line' = Tail(line)
    /\ \/ /\ scan[c].kind = "fast"
          /\ scan' = [scan EXCEPT ![c].pc = "shielded"]
          /\ thread' = [thread EXCEPT ![c] = [NoThread EXCEPT !.pc = "transport"]]
          /\ UNCHANGED free
       \/ /\ scan[c].kind = "full"
          /\ free # <<>>
          /\ scan' = [scan EXCEPT ![c].pc = "shielded", ![c].slot = Head(free)]
          /\ thread' = [thread EXCEPT ![c] =
                           [NoThread EXCEPT !.pc = "create", !.slot = Head(free),
                                            !.node = scan[c].node]]
          /\ free' = Tail(free)
    /\ UNCHANGED <<phase, machine>>

\* A scan that forgets to put its slot back (for the mutants).
LeaveWithSlot(c) ==
    /\ scan' = [scan EXCEPT ![c] = IdleScan]
    /\ thread' = IF Live(c) THEN thread ELSE [thread EXCEPT ![c] = NoThread]
    /\ UNCHANGED <<phase, machine, line, free>>

\* A scan that puts back a slot that it may not have (for the mutants).
LeaveNoSlot(c) ==
    /\ scan' = [scan EXCEPT ![c] = IdleScan]
    /\ free' = Append(free, scan[c].slot)
    /\ thread' = IF Live(c) THEN thread ELSE [thread EXCEPT ![c] = NoThread]
    /\ UNCHANGED <<phase, machine, line>>

\* The scan gives its permit and its slot back; a thread that is not done
\* goes on by itself.
Leave(c) ==
    /\ scan' = [scan EXCEPT ![c] = IdleScan]
    /\ free' = IF scan[c].slot = NoSlot THEN free ELSE Append(free, scan[c].slot)
    /\ thread' = IF Live(c) THEN thread ELSE [thread EXCEPT ![c] = NoThread]
    /\ UNCHANGED <<phase, machine, line>>

\* A coroutine that does not wait for its thread (for the mutants).
TimeOutUndrained(c) ==
    /\ scan[c].pc = "shielded" /\ Live(c)
    /\ Leave(c)

\* The time is up: wait for the shielded operation.  Where wait_for raises an
\* error of its own the coordinator ends the scan at once.
TimeOut(c) ==
    /\ scan[c].pc = "shielded" /\ Live(c)
    /\ IF BuiltinTimeout
       THEN /\ scan' = [scan EXCEPT ![c].pc = "drain"]
            /\ UNCHANGED <<phase, machine, free, line, thread>>
       ELSE Leave(c)

\* The operation is done, whatever the coroutine waited for it for.
Finish(c) ==
    /\ HasPermit(c) /\ ~Live(c)
    /\ Leave(c)

\* Semaphore.acquire takes a cancelled waiter out of its line.
Without(waiters, c) ==
    LET i == CHOOSE i \in 1..Len(waiters) : waiters[i] = c
    IN  SubSeq(waiters, 1, i - 1) \o SubSeq(waiters, i + 1, Len(waiters))

\* BatchScanTaskService.stop cancels the scans, the end of the event loop those
\* that are still there.  The first cancellation waits for the operation; one
\* that meets a coroutine that already waits cancels the operation itself, and
\* the thread is left alone.
CancelScan(c) ==
    /\ phase = "stopping"
    /\ \/ /\ scan[c].pc = "permit"
          /\ line' = Without(line, c)
          /\ scan' = [scan EXCEPT ![c] = IdleScan]
          /\ UNCHANGED <<phase, machine, free, thread>>
       \/ /\ scan[c].pc = "shielded"
          /\ scan' = [scan EXCEPT ![c].pc = "cancel"]
          /\ UNCHANGED <<phase, machine, free, line, thread>>
       \/ scan[c].pc \in {"drain", "cancel"} /\ Leave(c)

-----------------------------------------------------------------------------
\* The worker: IsolatedFullScanRunner._scan_sync and _cleanup.

\* The worker runs a helper operation on its slot and goes on as it answers.
Work(c, outcomes, ok, fail) ==
    /\ UNCHANGED <<phase, free, line, scan>>
    /\ \E o \in outcomes :
           /\ machine' = [machine EXCEPT ![thread[c].slot] = o.rt]
           /\ IF o.ok THEN ok ELSE fail

WorkerAt(c, point) == thread[c].pc = point
There(c) == machine[thread[c].slot]
To(c, point) == thread' = [thread EXCEPT ![c].pc = point]
Succeeded(c, point) ==
    thread' = [thread EXCEPT ![c].pc = point, ![c].result = "SUCCEEDED"]

\* A cleanup that failed makes the scan a failure.
Dirty(c) == thread' = [thread EXCEPT ![c].pc = "done", ![c].result = "FAILED"]

\* After the namespace the configuration is staged and the rules are planned;
\* when that fails only the namespace goes.
MakeNamespace(c) ==
    /\ WorkerAt(c, "create")
    /\ Work(c, NamespaceCreate(There(c)),
            To(c, "apply") \/ To(c, "delete"), To(c, "undoCreate"))

\* NamespaceManager.create deletes after a failure, whatever it was.
UnmakeNamespace(c) ==
    /\ WorkerAt(c, "undoCreate")
    /\ Work(c, NamespaceDelete(There(c)), Dirty(c), Dirty(c))

InstallRules(c) ==
    /\ WorkerAt(c, "apply")
    /\ Work(c, KillswitchApply(There(c), thread[c].node),
            To(c, "dial"), To(c, "undoApply"))

UninstallRules(c) ==
    /\ WorkerAt(c, "undoApply")
    /\ Work(c, KillswitchRemove(There(c)), To(c, "remove"), To(c, "remove"))

DialNode(c) ==
    /\ WorkerAt(c, "dial")
    /\ Work(c, OpenvpnStart(There(c), thread[c].node),
            To(c, "awaitTun"), To(c, "stop"))

AwaitTun(c) ==
    /\ WorkerAt(c, "awaitTun")
    /\ Work(c, {Fail(There(c))} \cup {o \in {Ok(There(c))} : TunReady(There(c))},
            To(c, "probe"), To(c, "stop"))

\* The exit address decides; the service checks never fail.
ProbeNode(c) ==
    /\ WorkerAt(c, "probe")
    /\ Work(c, {Fail(There(c))} \cup
                   {o \in {Ok(There(c))} :
                       KillswitchActive(There(c)) /\ TunReady(There(c))},
            Succeeded(c, "stop"), To(c, "stop"))

\* Rules and namespace stay when the OpenVPN could not be stopped.
StopOpenvpnOf(c) ==
    /\ WorkerAt(c, "stop")
    /\ Work(c, OpenvpnStop(There(c)), To(c, "remove"), Dirty(c))

RemoveRules(c) ==
    /\ WorkerAt(c, "remove")
    /\ Work(c, KillswitchRemove(There(c)), To(c, "delete"), Dirty(c))

\* A cleanup that does not look at the report (for the mutants).
RemoveNamespaceUnchecked(c) ==
    /\ WorkerAt(c, "delete")
    /\ Work(c, NamespaceDelete(There(c)), To(c, "done"), To(c, "done"))

RemoveNamespace(c) ==
    /\ WorkerAt(c, "delete")
    /\ Work(c, NamespaceDelete(There(c)), To(c, "done"), Dirty(c))

\* SocketFastScanTransport.scan: name, connection, and its own time limit.
Transport(c) ==
    /\ WorkerAt(c, "transport")
    /\ To(c, "done") \/ Succeeded(c, "done")
    /\ UNCHANGED <<phase, machine, free, line, scan>>

\* A worker that nobody waits for any more is done.
Detached(c) ==
    /\ scan[c].pc = "idle" /\ thread[c].pc = "done"
    /\ thread' = [thread EXCEPT ![c] = NoThread]
    /\ UNCHANGED <<phase, machine, free, line, scan>>

-----------------------------------------------------------------------------
\* The service.

OpenvpnOfSlotExits(s) ==
    /\ machine[s].vpn # NoNode
    /\ machine' = [machine EXCEPT ![s] = WithoutVpn(@)]
    /\ UNCHANGED <<phase, free, line, scan, thread>>

Shutdown ==
    /\ phase = "serving"
    /\ phase' = "stopping"
    /\ UNCHANGED <<machine, free, line, scan, thread>>

\* The end of the process: asyncio waits for the worker threads.
Exit ==
    /\ phase = "stopping"
    /\ \A c \in Scans : scan[c].pc = "idle" /\ thread[c].pc = "none"
    /\ phase' = "down"
    /\ UNCHANGED <<machine, free, line, scan, thread>>

Kill ==
    /\ phase # "down"
    /\ phase' = "down"
    /\ line' = <<>>
    /\ scan' = [c \in Scans |-> IdleScan]
    /\ thread' = [c \in Scans |-> NoThread]
    /\ \E dead \in SUBSET Slots :
           /\ VpnSurvives \/ dead = Slots
           /\ machine' = [s \in Slots |-> IF s \in dead
                                          THEN WithoutVpn(machine[s])
                                          ELSE machine[s]]
    /\ UNCHANGED free

\* The recovery purges connections, not slots; the queue is full again.
Boot ==
    /\ phase = "down"
    /\ phase' = "serving"
    /\ free' = [i \in Slots |-> i]
    /\ UNCHANGED <<machine, line, scan, thread>>

-----------------------------------------------------------------------------
Worker(c) ==
    \/ MakeNamespace(c) \/ UnmakeNamespace(c) \/ InstallRules(c)
    \/ UninstallRules(c) \/ DialNode(c) \/ AwaitTun(c) \/ ProbeNode(c)
    \/ StopOpenvpnOf(c) \/ RemoveRules(c) \/ RemoveNamespace(c)
    \/ Transport(c) \/ Detached(c)

Coroutine(c) == Acquire(c) \/ Finish(c) \/ CancelScan(c)

ScanNext ==
    \/ \E c \in Scans :
           RequestScan(c) \/ Coroutine(c) \/ TimeOut(c) \/ Worker(c)
    \/ \E s \in Slots : OpenvpnOfSlotExits(s)
    \/ Shutdown \/ Exit \/ Kill \/ Boot

ScanSpec == ScanInit /\ [][ScanNext]_scanVars

FairScanSpec ==
    ScanSpec /\ \A c \in Scans :
        WF_scanVars(Coroutine(c)) /\ WF_scanVars(Worker(c))

-----------------------------------------------------------------------------
\* Properties.

\* Whatever scan times out, fails or is cut off, and whatever a scan before it left:
\* the OpenVPN of a slot runs only behind the kill switch of its node, with its
\* namespace unless that was deleted under it (full.py, _cleanup).
SlotsGuarded == \A s \in Slots : Guarded(machine[s])

\* Two workers never use the same slot, not even when the first one belongs to
\* a scan that has timed out (NodeScanCoordinator.scan, _wait_safely).
OneWorkerPerSlot ==
    \A c, d \in Scans :
        Live(c) /\ Live(d) /\ thread[c].slot = thread[d].slot
        /\ thread[c].slot # NoSlot => c = d

\* A full scan that reports success has left no process, no state file and no
\* namespace in its slot, although every step of its cleanup may fail; what it may
\* have left are host rules that a helper could not list (full.py, _cleanup and
\* its report).
SuccessIsClean ==
    \A c \in Scans :
        thread[c].pc = "done" /\ thread[c].result = "SUCCEEDED"
        /\ scan[c].slot # NoSlot => NothingButRules(machine[scan[c].slot])

\* No slot is lost and none is in the queue twice: a scan with a permit never
\* waits for a slot (NodeScanCoordinator.scan).
SlotForEachPermit ==
    /\ phase # "down"
    => /\ \A s \in Slots :
              Cardinality({i \in DOMAIN free : free[i] = s})
              + Cardinality({c \in Scans : scan[c].slot = s}) = 1

\* A scan that was asked for ends, however many wait for the permits and
\* whatever was left in the slots.
ScansEnd == \A c \in Scans : scan[c].pc # "idle" ~> scan[c].pc = "idle"

\* README.md: after a failure or a cancellation the slot goes back only when
\* the cleanup is finished.
SlotReturnedIdle ==
    \A c \in Scans : Live(c) => \A i \in DOMAIN free : free[i] # thread[c].slot

\* README.md: while an OpenVPN could not be stopped its namespace stays.
PreservedNamespaceStays ==
    [][\A s \in Slots :
           machine[s].ns /\ machine[s].vpn # NoNode => machine'[s].ns]_scanVars
=============================================================================

---------------------------- MODULE NodeScanProofs ----------------------------
(***************************************************************************)
(* For any number of scans, any number of slots and any nodes: the OpenVPN *)
(* of a slot runs only behind its kill switch, and what happens in a slot  *)
(* is what FailClosedTunnel allows; the state is well-typed and no slot is *)
(* ever lost; and, where a time limit waits for the operation, no two      *)
(* workers use the same slot and a scan that reports success has left      *)
(* nothing in it.                                                          *)
(***************************************************************************)
EXTENDS NodeScan, RootHelperProofs, FiniteSetTheorems, SequenceTheorems

\* The points at which a worker acts on its slot.
SlotPoints == ThreadPoints \ {"transport"}

-----------------------------------------------------------------------------
\* What the guard of the slots rests on: a worker on a slot has a slot, and a
\* node to dial.

MachinesOK ==
    /\ machine \in [Slots -> Runtime]
    /\ \A s \in Slots : Guarded(machine[s])

ThreadOK(t) ==
    t.pc \in SlotPoints => t.slot \in Slots /\ t.node \in Nodes

ThreadsOK ==
    /\ thread \in [Scans -> Thread]
    /\ \A c \in Scans : ThreadOK(thread[c])

\* A full scan names a node.
CoroutinesOK ==
    /\ scan \in [Scans -> Scan]
    /\ \A c \in Scans : scan[c].kind = "full" => scan[c].node \in Nodes

GuardInv == free \in Seq(Slots) /\ MachinesOK /\ ThreadsOK /\ CoroutinesOK

LEMMA InitGuardInv == ScanInit => GuardInv
<1> SUFFICES ASSUME ScanInit PROVE GuardInv
  OBVIOUS
<1>1. free \in Seq(Slots)
  BY ScanAssumption DEF ScanInit, Slots
<1>2. MachinesOK
  BY DEF ScanInit, MachinesOK, CleanRuntime, Runtime, Guarded, HasProcess
<1>3. ThreadsOK
  BY DEF ScanInit, ThreadsOK, ThreadOK, Thread, NoThread, SlotPoints, ThreadPoints
<1>4. CoroutinesOK
  BY DEF ScanInit, CoroutinesOK, Scan, IdleScan
<1> QED BY <1>1, <1>2, <1>3, <1>4 DEF GuardInv

\* One thread changes to a sound one.
LEMMA ThreadChange ==
    ASSUME ThreadsOK, NEW c \in Scans, NEW t \in Thread, ThreadOK(t),
           thread' = [thread EXCEPT ![c] = t]
    PROVE  ThreadsOK'
BY DEF ThreadsOK, ThreadOK

\* A thread goes on with its slot and its node, wherever it goes.
LEMMA ThreadGoesOn ==
    ASSUME ThreadsOK, NEW c \in Scans, thread[c].pc \in SlotPoints,
           NEW point \in ThreadPoints \cup {"done"},
           To(c, point) \/ Succeeded(c, point) \/ Dirty(c)
    PROVE  ThreadsOK'
<1> DEFINE t == thread[c]
<1>1. t \in Thread /\ t.slot \in Slots /\ t.node \in Nodes
  BY DEF ThreadsOK, ThreadOK
<1>2. CASE To(c, point)
  <2> DEFINE u == [t EXCEPT !.pc = point]
  <2>1. thread' = [thread EXCEPT ![c] = u]
    BY <1>2 DEF To, ThreadsOK
  <2>2. u \in Thread /\ ThreadOK(u)
    BY <1>1 DEF Thread, ThreadOK
  <2> QED BY <2>1, <2>2, ThreadChange
<1>3. CASE Succeeded(c, point)
  <2> DEFINE u == [t EXCEPT !.pc = point, !.result = "SUCCEEDED"]
  <2>1. thread' = [thread EXCEPT ![c] = u]
    BY <1>3 DEF Succeeded, ThreadsOK
  <2>2. u \in Thread /\ ThreadOK(u)
    BY <1>1 DEF Thread, ThreadOK
  <2> QED BY <2>1, <2>2, ThreadChange
<1>4. CASE Dirty(c)
  <2> DEFINE u == [t EXCEPT !.pc = "done", !.result = "FAILED"]
  <2>1. thread' = [thread EXCEPT ![c] = u]
    BY <1>4 DEF Dirty, ThreadsOK
  <2>2. u \in Thread /\ ThreadOK(u)
    BY <1>1 DEF Thread, ThreadOK
  <2> QED BY <2>1, <2>2, ThreadChange
<1> QED BY <1>2, <1>3, <1>4

\* One slot changes to what a sound operation leaves there.
LEMMA SlotChange ==
    ASSUME MachinesOK, NEW s \in Slots, NEW m \in Runtime, Guarded(m),
           machine' = [machine EXCEPT ![s] = m]
    PROVE  MachinesOK'
<1>1. machine' \in [Slots -> Runtime]
  BY DEF MachinesOK
<1>2. ASSUME NEW x \in Slots PROVE Guarded(machine'[x])
  BY DEF MachinesOK
<1> QED BY <1>1, <1>2 DEF MachinesOK, Guarded, HasProcess

\* What all steps of a worker on its slot have in common.
Operates(c, outcomes) ==
    /\ thread[c].pc \in SlotPoints
    /\ UNCHANGED <<free, scan>>
    /\ \E o \in outcomes : machine' = [machine EXCEPT ![thread[c].slot] = o.rt]
    /\ \E p \in ThreadPoints \cup {"done"} :
           To(c, p) \/ Succeeded(c, p) \/ Dirty(c)

LeavesSound(outcomes) ==
    \A o \in outcomes : o.rt \in Runtime /\ Guarded(o.rt)

\* A worker that runs a sound operation, whatever it does next.
LEMMA OperatesSound ==
    ASSUME GuardInv, NEW c \in Scans, NEW outcomes, LeavesSound(outcomes),
           Operates(c, outcomes)
    PROVE  GuardInv'
<1>1. PICK o \in outcomes : machine' = [machine EXCEPT ![thread[c].slot] = o.rt]
  BY DEF Operates
<1>2. o.rt \in Runtime /\ Guarded(o.rt)
  BY DEF LeavesSound
<1>3. thread[c].slot \in Slots
  BY DEF GuardInv, ThreadsOK, ThreadOK, Operates
<1>4. MachinesOK'
  BY <1>1, <1>2, <1>3, SlotChange DEF GuardInv
<1>5. ThreadsOK'
  BY ThreadGoesOn DEF GuardInv, Operates
<1> QED BY <1>4, <1>5 DEF GuardInv, CoroutinesOK, Operates

\* What an operation leaves where it found a guarded record: a guarded one, by a
\* step of the promise (RootHelperProofs).
Sound(r, o) == o.rt \in Runtime /\ Guarded(o.rt) /\ Kept(r, o.rt)

LEMMA LawfulIsSound ==
    ASSUME NEW r, Guarded(r), NEW o, Lawful(r, o.rt)
    PROVE  Sound(r, o)
BY DEF Lawful, Sound

LEMMA EveryOutcomeSound ==
    ASSUME NEW r \in Runtime, Guarded(r), NEW n \in Nodes
    PROVE  /\ \A o \in NamespaceCreate(r) : Sound(r, o)
           /\ \A o \in NamespaceDelete(r) : Sound(r, o)
           /\ \A o \in KillswitchApply(r, n) : Sound(r, o)
           /\ \A o \in KillswitchRemove(r) : Sound(r, o)
           /\ \A o \in OpenvpnStart(r, n) : Sound(r, o)
           /\ \A o \in OpenvpnStop(r) : Sound(r, o)
           /\ \A o \in {Fail(r), Ok(r)} : Sound(r, o)
<1>1. \A o \in NamespaceCreate(r) : Sound(r, o)
  BY NamespaceCreateLeaves, LawfulIsSound
<1>2. \A o \in NamespaceDelete(r) : Sound(r, o)
  BY NamespaceDeleteLeaves, LawfulIsSound
<1>3. \A o \in KillswitchApply(r, n) : Sound(r, o)
  BY KillswitchApplyLeaves, LawfulIsSound
<1>4. \A o \in KillswitchRemove(r) : Sound(r, o)
  BY KillswitchRemoveLeaves, LawfulIsSound
<1>5. \A o \in OpenvpnStart(r, n) : Sound(r, o)
  BY OpenvpnStartLeaves, LawfulIsSound
<1>6. \A o \in OpenvpnStop(r) : Sound(r, o)
  BY OpenvpnStopLeaves, LawfulIsSound
<1>7. \A o \in {Fail(r), Ok(r)} : Sound(r, o)
  BY SameLawful, AnswerLeaves, LawfulIsSound
<1> QED BY <1>1, <1>2, <1>3, <1>4, <1>5, <1>6, <1>7

\* Every operation leaves a sound slot behind.
LEMMA SlotOperations ==
    ASSUME GuardInv, NEW c \in Scans, thread[c].pc \in SlotPoints
    PROVE  /\ LeavesSound(NamespaceCreate(There(c)))
           /\ LeavesSound(NamespaceDelete(There(c)))
           /\ LeavesSound(KillswitchApply(There(c), thread[c].node))
           /\ LeavesSound(KillswitchRemove(There(c)))
           /\ LeavesSound(OpenvpnStart(There(c), thread[c].node))
           /\ LeavesSound(OpenvpnStop(There(c)))
           /\ LeavesSound({Fail(There(c)), Ok(There(c))})
<1>1. There(c) \in Runtime /\ Guarded(There(c)) /\ thread[c].node \in Nodes
  BY DEF GuardInv, MachinesOK, ThreadsOK, ThreadOK, There
<1>2. \A r, o : Sound(r, o) => o.rt \in Runtime /\ Guarded(o.rt)
  BY DEF Sound
<1> HIDE DEF There
<1> QED BY <1>1, <1>2, EveryOutcomeSound DEF LeavesSound

\* The operations of a worker on its slot.
Operations(c) ==
    {NamespaceCreate(There(c)), NamespaceDelete(There(c)),
     KillswitchApply(There(c), thread[c].node), KillswitchRemove(There(c)),
     OpenvpnStart(There(c), thread[c].node), OpenvpnStop(There(c)),
     {Fail(There(c)), Ok(There(c))}}

\* A worker's step on its slot, one case per point.
LEMMA WorkerOperates ==
    ASSUME NEW c \in Scans, Worker(c), ~Transport(c), ~Detached(c)
    PROVE  \E outcomes \in Operations(c) : Operates(c, outcomes)
<1>1. SlotPoints = {"create", "undoCreate", "apply", "undoApply", "dial",
                    "awaitTun", "probe", "stop", "remove", "delete"}
      /\ SlotPoints \subseteq ThreadPoints
  BY DEF SlotPoints, ThreadPoints
<1>2. CASE MakeNamespace(c)
  <2>1. Operates(c, NamespaceCreate(There(c)))
    BY <1>1, <1>2 DEF MakeNamespace, WorkerAt, Work, Operates
  <2> QED BY <2>1 DEF Operations
<1>3. CASE UnmakeNamespace(c)
  <2>1. Operates(c, NamespaceDelete(There(c)))
    BY <1>1, <1>3 DEF UnmakeNamespace, WorkerAt, Work, Operates
  <2> QED BY <2>1 DEF Operations
<1>4. CASE InstallRules(c)
  <2>1. Operates(c, KillswitchApply(There(c), thread[c].node))
    BY <1>1, <1>4 DEF InstallRules, WorkerAt, Work, Operates
  <2> QED BY <2>1 DEF Operations
<1>5. CASE UninstallRules(c)
  <2>1. Operates(c, KillswitchRemove(There(c)))
    BY <1>1, <1>5 DEF UninstallRules, WorkerAt, Work, Operates
  <2> QED BY <2>1 DEF Operations
<1>6. CASE DialNode(c)
  <2>1. Operates(c, OpenvpnStart(There(c), thread[c].node))
    BY <1>1, <1>6 DEF DialNode, WorkerAt, Work, Operates
  <2> QED BY <2>1 DEF Operations
<1>7. CASE AwaitTun(c)
  <2>1. Operates(c, {Fail(There(c)), Ok(There(c))})
    BY <1>1, <1>7 DEF AwaitTun, WorkerAt, Work, Operates
  <2> QED BY <2>1 DEF Operations
<1>8. CASE ProbeNode(c)
  <2>1. Operates(c, {Fail(There(c)), Ok(There(c))})
    BY <1>1, <1>8 DEF ProbeNode, WorkerAt, Work, Operates
  <2> QED BY <2>1 DEF Operations
<1>9. CASE StopOpenvpnOf(c)
  <2>1. Operates(c, OpenvpnStop(There(c)))
    BY <1>1, <1>9 DEF StopOpenvpnOf, WorkerAt, Work, Operates
  <2> QED BY <2>1 DEF Operations
<1>10. CASE RemoveRules(c)
  <2>1. Operates(c, KillswitchRemove(There(c)))
    BY <1>1, <1>10 DEF RemoveRules, WorkerAt, Work, Operates
  <2> QED BY <2>1 DEF Operations
<1>11. CASE RemoveNamespace(c)
  <2>1. Operates(c, NamespaceDelete(There(c)))
    BY <1>1, <1>11 DEF RemoveNamespace, WorkerAt, Work, Operates
  <2> QED BY <2>1 DEF Operations
<1> QED BY <1>2, <1>3, <1>4, <1>5, <1>6, <1>7, <1>8, <1>9, <1>10, <1>11 DEF Worker

LEMMA WorkerSound ==
    ASSUME GuardInv, NEW c \in Scans, Worker(c)
    PROVE  GuardInv'
<1>1. CASE ~Transport(c) /\ ~Detached(c)
  <2>1. PICK outcomes \in Operations(c) : Operates(c, outcomes)
    BY <1>1, WorkerOperates
  <2>2. LeavesSound(outcomes)
    BY <2>1, SlotOperations DEF Operates, Operations
  <2> QED BY <2>1, <2>2, OperatesSound
<1>2. CASE Transport(c) \/ Detached(c)
  <2>1. ThreadsOK'
    BY <1>2 DEF Transport, Detached, To, Succeeded, GuardInv, ThreadsOK,
                 ThreadOK, Thread, NoThread, SlotPoints, ThreadPoints
  <2>2. UNCHANGED <<machine, free, scan>>
    BY <1>2 DEF Transport, Detached
  <2> QED BY <2>1, <2>2 DEF GuardInv, MachinesOK, CoroutinesOK, Guarded, HasProcess
<1> QED BY <1>1, <1>2

-----------------------------------------------------------------------------
\* The coroutine's steps leave the slots' resources alone.

LEMMA SameMachines ==
    ASSUME GuardInv, UNCHANGED machine
    PROVE  MachinesOK'
BY DEF GuardInv, MachinesOK, Guarded, HasProcess

LEMMA LeaveSound ==
    ASSUME GuardInv, NEW c \in Scans, Leave(c)
    PROVE  GuardInv'
<1>1. free' \in Seq(Slots)
  BY DEF GuardInv, Leave, CoroutinesOK, Scan
<1>2. MachinesOK'
  BY SameMachines DEF Leave
<1>3. ThreadsOK'
  <2>1. NoThread \in Thread /\ ThreadOK(NoThread)
    BY DEF NoThread, Thread, ThreadOK, SlotPoints, ThreadPoints
  <2> QED BY <2>1, ThreadChange DEF GuardInv, Leave, ThreadsOK, ThreadOK
<1>4. CoroutinesOK'
  BY DEF GuardInv, Leave, CoroutinesOK, Scan, IdleScan
<1> QED BY <1>1, <1>2, <1>3, <1>4 DEF GuardInv

LEMMA AcquireSound ==
    ASSUME GuardInv, NEW c \in Scans, Acquire(c)
    PROVE  GuardInv'
<1>1. UNCHANGED machine
  BY DEF Acquire
<1>2. CASE scan[c].kind = "fast"
  <2> DEFINE t == [NoThread EXCEPT !.pc = "transport"]
  <2>1. t \in Thread /\ ThreadOK(t)
    BY DEF NoThread, Thread, ThreadOK, SlotPoints, ThreadPoints
  <2>2. thread' = [thread EXCEPT ![c] = t] /\ UNCHANGED free
        /\ scan' = [scan EXCEPT ![c].pc = "shielded"]
    BY <1>2 DEF Acquire
  <2>3. ThreadsOK'
    BY <2>1, <2>2, ThreadChange DEF GuardInv
  <2>4. CoroutinesOK'
    BY <2>2 DEF GuardInv, CoroutinesOK, Scan
  <2> QED BY <1>1, <2>2, <2>3, <2>4, SameMachines DEF GuardInv
<1>3. CASE scan[c].kind = "full"
  <2> DEFINE t == [NoThread EXCEPT !.pc = "create", !.slot = Head(free),
                                   !.node = scan[c].node]
  <2>1. /\ thread' = [thread EXCEPT ![c] = t] /\ free' = Tail(free)
        /\ scan' = [scan EXCEPT ![c].pc = "shielded", ![c].slot = Head(free)]
        /\ free # <<>>
    BY <1>3 DEF Acquire
  <2>2. Head(free) \in Slots /\ Tail(free) \in Seq(Slots)
    BY <2>1 DEF GuardInv
  <2>3. scan[c].node \in Nodes
    BY <1>3 DEF GuardInv, CoroutinesOK
  <2>4. t \in Thread /\ ThreadOK(t)
    BY <2>2, <2>3 DEF NoThread, Thread, ThreadOK, SlotPoints, ThreadPoints
  <2>5. ThreadsOK'
    BY <2>1, <2>4, ThreadChange DEF GuardInv
  <2>6. CoroutinesOK'
    BY <2>1, <2>2 DEF GuardInv, CoroutinesOK, Scan
  <2> QED BY <1>1, <2>1, <2>2, <2>5, <2>6, SameMachines DEF GuardInv
<1> QED BY <1>2, <1>3 DEF GuardInv, CoroutinesOK, Scan

\* A step that moves one coroutine only.
LEMMA ScanChange ==
    ASSUME GuardInv, UNCHANGED <<machine, free, thread>>,
           NEW c \in Scans, NEW x \in Scan, x.kind = "full" => x.node \in Nodes,
           scan' = [scan EXCEPT ![c] = x]
    PROVE  GuardInv'
<1>1. CoroutinesOK'
  BY DEF GuardInv, CoroutinesOK
<1> QED BY <1>1 DEF GuardInv, MachinesOK, ThreadsOK, ThreadOK, Guarded, HasProcess

LEMMA CoroutineSound ==
    ASSUME GuardInv, NEW c \in Scans,
           RequestScan(c) \/ Coroutine(c) \/ TimeOut(c)
    PROVE  GuardInv'
<1>1. CASE RequestScan(c)
  <2>1. PICK k \in {"fast", "full"}, n \in Nodes :
            scan' = [scan EXCEPT ![c] =
                        [IdleScan EXCEPT !.pc = "permit", !.kind = k, !.node = n]]
    BY <1>1 DEF RequestScan
  <2> DEFINE x == [IdleScan EXCEPT !.pc = "permit", !.kind = k, !.node = n]
  <2>2. x \in Scan /\ x.node \in Nodes
    BY DEF IdleScan, Scan
  <2> QED BY <1>1, <2>1, <2>2, ScanChange DEF RequestScan
<1>2. CASE Acquire(c)
  BY <1>2, AcquireSound
<1>3. CASE Finish(c)
  BY <1>3, LeaveSound DEF Finish
<1>4. ASSUME NEW p \in {"drain", "cancel"}, UNCHANGED <<machine, free, thread>>,
             scan' = [scan EXCEPT ![c].pc = p]
      PROVE  GuardInv'
  <2> DEFINE x == [scan[c] EXCEPT !.pc = p]
  <2>1. x \in Scan /\ (x.kind = "full" => x.node \in Nodes)
    BY DEF GuardInv, CoroutinesOK, Scan
  <2>2. scan' = [scan EXCEPT ![c] = x]
    BY <1>4 DEF GuardInv, CoroutinesOK
  <2> QED BY <1>4, <2>1, <2>2, ScanChange
<1>5. CASE CancelScan(c)
  <2>1. CASE scan[c].pc = "permit"
    BY <1>5, <2>1, ScanChange DEF CancelScan, IdleScan, Scan
  <2>2. CASE scan[c].pc = "shielded"
    BY <1>4, <1>5, <2>2 DEF CancelScan
  <2>3. CASE scan[c].pc \in {"drain", "cancel"}
    BY <1>5, <2>3, LeaveSound DEF CancelScan
  <2> QED BY <1>5, <2>1, <2>2, <2>3 DEF CancelScan
<1>6. CASE TimeOut(c)
  BY <1>4, <1>6, LeaveSound DEF TimeOut
<1> QED BY <1>1, <1>2, <1>3, <1>5, <1>6 DEF Coroutine

LEMMA ServiceSound ==
    ASSUME GuardInv,
           \/ \E s \in Slots : OpenvpnOfSlotExits(s)
           \/ Shutdown \/ Exit \/ Kill \/ Boot
    PROVE  GuardInv'
<1>1. CASE \E s \in Slots : OpenvpnOfSlotExits(s)
  <2>1. PICK s \in Slots : OpenvpnOfSlotExits(s)
    BY <1>1
  <2>2. WithoutVpn(machine[s]) \in Runtime /\ Guarded(WithoutVpn(machine[s]))
    BY WithoutVpnLawful DEF GuardInv, MachinesOK, Lawful
  <2>3. machine' = [machine EXCEPT ![s] = WithoutVpn(machine[s])]
    BY <2>1 DEF OpenvpnOfSlotExits
  <2>4. MachinesOK'
    BY <2>2, <2>3, SlotChange DEF GuardInv
  <2> QED BY <2>1, <2>4
          DEF OpenvpnOfSlotExits, GuardInv, ThreadsOK, ThreadOK, CoroutinesOK
<1>2. CASE Shutdown \/ Exit
  <2>1. UNCHANGED <<machine, free, scan, thread>>
    BY <1>2 DEF Shutdown, Exit
  <2> QED BY <2>1, SameMachines DEF GuardInv, ThreadsOK, ThreadOK, CoroutinesOK
<1>3. CASE Kill
  <2>1. \A s \in Slots : machine[s] \in Runtime /\ Guarded(machine[s])
            /\ WithoutVpn(machine[s]) \in Runtime /\ Guarded(WithoutVpn(machine[s]))
    BY WithoutVpnLawful DEF GuardInv, MachinesOK, Lawful
  <2>2. PICK dead \in SUBSET Slots :
            machine' = [s \in Slots |-> IF s \in dead THEN WithoutVpn(machine[s])
                                                      ELSE machine[s]]
    BY <1>3 DEF Kill
  <2>3. \A s \in Slots : machine'[s] \in Runtime /\ Guarded(machine'[s])
    BY <2>1, <2>2
  <2>4. MachinesOK'
    BY <2>2, <2>3 DEF MachinesOK, Guarded, HasProcess
  <2>5. ThreadsOK' /\ CoroutinesOK'
    BY <1>3 DEF Kill, ThreadsOK, ThreadOK, CoroutinesOK, NoThread, Thread,
                IdleScan, Scan, SlotPoints, ThreadPoints
  <2> QED BY <1>3, <2>4, <2>5 DEF Kill, GuardInv
<1>4. CASE Boot
  <2>1. free' \in Seq(Slots)
    BY <1>4, ScanAssumption DEF Boot, Slots
  <2> QED BY <1>4, <2>1, SameMachines
          DEF Boot, GuardInv, ThreadsOK, ThreadOK, CoroutinesOK
<1> QED BY <1>1, <1>2, <1>3, <1>4

LEMMA ScanNextSound == GuardInv /\ [ScanNext]_scanVars => GuardInv'
<1> SUFFICES ASSUME GuardInv, [ScanNext]_scanVars PROVE GuardInv'
  OBVIOUS
<1>1. CASE ScanNext
  BY <1>1, CoroutineSound, WorkerSound, ServiceSound DEF ScanNext
<1>2. CASE UNCHANGED scanVars
  <2>1. UNCHANGED <<machine, free, scan, thread>>
    BY <1>2 DEF scanVars
  <2> QED BY <2>1, SameMachines DEF GuardInv, ThreadsOK, ThreadOK, CoroutinesOK
<1> QED BY <1>1, <1>2

\* Whatever scans time out, are cancelled or are cut off, and whether an
\* OpenVPN outlives the service or not: the OpenVPN of a slot runs only behind
\* the kill switch of its node (full.py, _cleanup).
THEOREM SlotsAreGuarded == ScanSpec => []SlotsGuarded
<1>1. GuardInv => SlotsGuarded
  BY DEF GuardInv, MachinesOK, SlotsGuarded
<1> QED BY <1>1, InitGuardInv, ScanNextSound, PTL DEF ScanSpec

-----------------------------------------------------------------------------
\* Every slot keeps the promise of a connection.

\* The abstract promise, read off the machine of a slot.  A slot is one worker's at
\* a time, and its helpers run one after the other.
SlotPromise(s) == INSTANCE FailClosedTunnel WITH
    guard  <- GuardOf(machine[s]),
    tunnel <- machine[s].vpn,
    proxy  <- machine[s].socks,
    raced  <- FALSE

\* The machine of each slot stays or takes a step of the fail-closed tunnel.
SlotsKept == \A s \in Slots : Kept(machine[s], machine'[s])

\* What stays as it is is kept.
LEMMA SameIsKept ==
    ASSUME NEW r \in Runtime
    PROVE  Kept(r, r)
BY DEF Kept, CloseStep

\* One slot takes such a step and the others stay.
LEMMA SlotKept ==
    ASSUME GuardInv, NEW s \in Slots, NEW m, Kept(machine[s], m),
           machine' = [machine EXCEPT ![s] = m]
    PROVE  SlotsKept
<1>1. ASSUME NEW x \in Slots PROVE Kept(machine[x], machine'[x])
  <2>1. CASE x = s
    BY <2>1 DEF GuardInv, MachinesOK
  <2>2. CASE x # s
    BY <2>2, SameIsKept DEF GuardInv, MachinesOK
  <2> QED BY <2>1, <2>2
<1> QED BY <1>1 DEF SlotsKept

LEMMA SlotsStay ==
    ASSUME GuardInv, UNCHANGED machine
    PROVE  SlotsKept
BY SameIsKept DEF GuardInv, MachinesOK, SlotsKept

\* A helper operation on a guarded slot is such a step (RootHelperProofs).
LEMMA OperationsKept ==
    ASSUME GuardInv, NEW c \in Scans, thread[c].pc \in SlotPoints,
           NEW outcomes \in Operations(c), NEW o \in outcomes
    PROVE  Kept(There(c), o.rt)
<1>1. There(c) \in Runtime /\ Guarded(There(c)) /\ thread[c].node \in Nodes
  BY DEF GuardInv, MachinesOK, ThreadsOK, ThreadOK, There
<1> HIDE DEF There
<1>2. Sound(There(c), o)
  BY <1>1, EveryOutcomeSound DEF Operations
<1> QED BY <1>2 DEF Sound

\* And so is what a worker does.
LEMMA WorkerKept ==
    ASSUME GuardInv, NEW c \in Scans, Worker(c)
    PROVE  SlotsKept
<1>1. CASE ~Transport(c) /\ ~Detached(c)
  <2>1. PICK outcomes \in Operations(c) : Operates(c, outcomes)
    BY <1>1, WorkerOperates
  <2>2. PICK o \in outcomes : machine' = [machine EXCEPT ![thread[c].slot] = o.rt]
    BY <2>1 DEF Operates
  <2>3. thread[c].pc \in SlotPoints
    BY <2>1 DEF Operates
  <2>4. thread[c].slot \in Slots
    BY <2>3 DEF GuardInv, ThreadsOK, ThreadOK
  <2>5. Kept(machine[thread[c].slot], o.rt)
    BY <2>3, OperationsKept DEF There
  <2> QED BY <2>2, <2>4, <2>5, SlotKept
<1>2. CASE Transport(c) \/ Detached(c)
  BY <1>2, SlotsStay DEF Transport, Detached
<1> QED BY <1>1, <1>2

\* The coroutines leave the slots alone; an OpenVPN may exit, or many with the service.
LEMMA NextKept == GuardInv /\ [ScanNext]_scanVars => SlotsKept
<1> SUFFICES ASSUME GuardInv, [ScanNext]_scanVars PROVE SlotsKept
  OBVIOUS
<1>1. ASSUME NEW c \in Scans, RequestScan(c) \/ Coroutine(c) \/ TimeOut(c)
      PROVE  SlotsKept
  <2>1. UNCHANGED machine
    BY <1>1 DEF RequestScan, Coroutine, TimeOut, Acquire, Finish, CancelScan, Leave
  <2> QED BY <2>1, SlotsStay
<1>2. ASSUME NEW s \in Slots, OpenvpnOfSlotExits(s) PROVE SlotsKept
  <2>1. Kept(machine[s], WithoutVpn(machine[s]))
    BY WithoutVpnLawful DEF GuardInv, MachinesOK, Lawful
  <2>2. machine' = [machine EXCEPT ![s] = WithoutVpn(machine[s])]
    BY <1>2 DEF OpenvpnOfSlotExits
  <2> QED BY <2>1, <2>2, SlotKept
<1>3. CASE Kill
  <2>1. PICK dead \in SUBSET Slots :
            machine' = [s \in Slots |-> IF s \in dead THEN WithoutVpn(machine[s])
                                                      ELSE machine[s]]
    BY <1>3 DEF Kill
  <2>2. ASSUME NEW s \in Slots PROVE Kept(machine[s], machine'[s])
    <3>1. machine'[s] \in {WithoutVpn(machine[s]), machine[s]}
      BY <2>1
    <3> QED BY <3>1, WithoutVpnLawful, SameIsKept DEF GuardInv, MachinesOK, Lawful
  <2> QED BY <2>2 DEF SlotsKept
<1>4. CASE Shutdown \/ Exit \/ Boot \/ UNCHANGED scanVars
  BY <1>4, SlotsStay DEF Shutdown, Exit, Boot, scanVars
<1> QED BY <1>1, <1>2, <1>3, <1>4, WorkerKept DEF ScanNext

\* A step that Kept allows is one of the promise.
LEMMA KeptIsPromised ==
    ASSUME NEW s \in Slots, machine[s] \in Runtime, machine'[s] \in Runtime,
           Kept(machine[s], machine'[s])
    PROVE  [SlotPromise(s)!Next]_(SlotPromise(s)!vars)
<1>1. CASE ReguardStep(machine[s], machine'[s])
  BY <1>1 DEF ReguardStep, HasProcess, Runtime, GuardOf, SlotPromise!Next, SlotPromise!Orderly, SlotPromise!Reguard
<1>2. CASE OpenStep(machine[s], machine'[s])
  BY <1>2 DEF OpenStep, GuardOf, Runtime,
                    SlotPromise!Next, SlotPromise!Orderly, SlotPromise!OpenTunnel, SlotPromise!OpenProxy
<1>3. CASE CloseStep(machine[s], machine'[s])
  BY <1>3 DEF CloseStep, GuardOf, HasProcess, Runtime,
                    SlotPromise!Next, SlotPromise!Orderly, SlotPromise!Close, SlotPromise!TearDown
<1> QED BY <1>1, <1>2, <1>3 DEF Kept

\* Whatever scans time out, are cancelled or are cut off: what happens in a slot is
\* what may happen to a connection, step by step.
THEOREM SlotsKeepPromise ==
    ASSUME NEW s \in Slots
    PROVE  ScanSpec => SlotPromise(s)!Spec
<1>1. ScanInit => SlotPromise(s)!Init
  BY DEF ScanInit, SlotPromise!Init, CleanRuntime, GuardOf
<1>2. ASSUME GuardInv, GuardInv', [ScanNext]_scanVars
      PROVE  [SlotPromise(s)!Next]_(SlotPromise(s)!vars)
  <2>1. machine[s] \in Runtime /\ machine'[s] \in Runtime
    BY <1>2 DEF GuardInv, MachinesOK
  <2>2. Kept(machine[s], machine'[s])
    BY <1>2, NextKept DEF SlotsKept
  <2> QED BY <2>1, <2>2, KeptIsPromised
<1>3. GuardInv /\ GuardInv' /\ [ScanNext]_scanVars => [SlotPromise(s)!Next]_(SlotPromise(s)!vars)
  BY <1>2
<1> QED BY <1>1, <1>3, InitGuardInv, ScanNextSound, PTL DEF ScanSpec, SlotPromise!Spec

-----------------------------------------------------------------------------
\* What keeps two workers apart: a slot is in the queue or a scan's, and while
\* the service serves, a live worker's slot is that of its scan.

NoSlotTwice ==
    /\ \A i, j \in 1..Len(free) : free[i] = free[j] => i = j
    /\ \A c \in Scans : \A i \in 1..Len(free) : free[i] # scan[c].slot
    /\ \A c, d \in Scans :
           scan[c].slot = scan[d].slot /\ scan[c].slot # NoSlot => c = d

WorkersOfScans ==
    phase = "serving" =>
        \A c \in Scans : Live(c) => thread[c].slot \in {NoSlot, scan[c].slot}

\* Nothing of the process is left when it is down.
DownIsIdle ==
    /\ \A c \in Scans : scan[c].pc = "idle" => scan[c].slot = NoSlot
    /\ phase = "down" =>
           \A c \in Scans : scan[c].pc = "idle" /\ thread[c].pc = "none"

ExclusiveInv == NoSlotTwice /\ WorkersOfScans /\ DownIsIdle /\ OneWorkerPerSlot

LEMMA NoSlotNotInQueue ==
    ASSUME GuardInv
    PROVE  NoSlot \notin Slots /\ \A i \in 1..Len(free) : free[i] \in Slots
BY ScanAssumption DEF GuardInv, Slots, NoSlot

LEMMA InitExclusive == ScanInit => ExclusiveInv
BY ScanAssumption
DEF ScanInit, ExclusiveInv, NoSlotTwice, WorkersOfScans, DownIsIdle,
    OneWorkerPerSlot, Live, Slots, NoSlot, IdleScan, NoThread, ThreadPoints

\* A step of workers: none starts, and none changes its slot.
LEMMA WorkersKept ==
    ASSUME ExclusiveInv, UNCHANGED <<free, scan>>, phase # "down", phase' # "down",
           phase' = "serving" => phase = "serving",
           \A c \in Scans :
               Live(c)' => Live(c) /\ thread'[c].slot = thread[c].slot
    PROVE  ExclusiveInv'
<1>1. NoSlotTwice' /\ DownIsIdle'
  BY DEF ExclusiveInv, NoSlotTwice, DownIsIdle
<1>2. WorkersOfScans'
  BY DEF ExclusiveInv, WorkersOfScans, Live
<1>3. OneWorkerPerSlot'
  BY DEF ExclusiveInv, OneWorkerPerSlot, Live
<1> QED BY <1>1, <1>2, <1>3 DEF ExclusiveInv

LEMMA WorkerExclusive ==
    ASSUME GuardInv, ExclusiveInv, NEW c \in Scans, Worker(c)
    PROVE  ExclusiveInv'
<1>1. thread[c].pc \in ThreadPoints \cup {"done"}
  BY DEF Worker, MakeNamespace, UnmakeNamespace, InstallRules, UninstallRules,
         DialNode, AwaitTun, ProbeNode, StopOpenvpnOf, RemoveRules,
         RemoveNamespace, Transport, Detached, WorkerAt, ThreadPoints
<1>2. UNCHANGED <<phase, free, scan>>
  BY DEF Worker, MakeNamespace, UnmakeNamespace, InstallRules, UninstallRules,
         DialNode, AwaitTun, ProbeNode, StopOpenvpnOf, RemoveRules,
         RemoveNamespace, Transport, Detached, Work
<1>3. phase # "down"
  BY <1>1 DEF ExclusiveInv, DownIsIdle, ThreadPoints
<1>4. CASE Detached(c)
  <2>1. \A d \in Scans : Live(d)' => Live(d) /\ thread'[d].slot = thread[d].slot
    BY <1>4 DEF Detached, GuardInv, ThreadsOK, Live, NoThread, ThreadPoints
  <2> QED BY <1>2, <1>3, <2>1, WorkersKept
<1>5. CASE ~Detached(c)
  <2>1. /\ Live(c)
        /\ \E p \in ThreadPoints \cup {"done"} :
               To(c, p) \/ Succeeded(c, p) \/ Dirty(c)
    <3>1. CASE Transport(c)
      BY <3>1 DEF Transport, WorkerAt, Live, ThreadPoints
    <3>2. CASE ~Transport(c)
      BY <1>5, <3>2, WorkerOperates DEF Operates, Live, SlotPoints
    <3> QED BY <3>1, <3>2
  <2>2. \A d \in Scans : Live(d)' => Live(d) /\ thread'[d].slot = thread[d].slot
    <3>1. PICK p \in ThreadPoints \cup {"done"} :
              To(c, p) \/ Succeeded(c, p) \/ Dirty(c)
      BY <2>1
    <3>2. thread[c] \in Thread /\ thread \in [Scans -> Thread]
      BY DEF GuardInv, ThreadsOK
    <3>3. ASSUME NEW d \in Scans
          PROVE  /\ thread'[d].slot = thread[d].slot
                 /\ d # c => thread'[d] = thread[d]
      <4>1. CASE To(c, p)
        BY <3>2, <4>1 DEF To, Thread
      <4>2. CASE Succeeded(c, p)
        BY <3>2, <4>2 DEF Succeeded, Thread
      <4>3. CASE Dirty(c)
        BY <3>2, <4>3 DEF Dirty, Thread
      <4> QED BY <3>1, <4>1, <4>2, <4>3
    <3> QED BY <2>1, <3>3 DEF Live
  <2> QED BY <1>2, <1>3, <2>2, WorkersKept
<1> QED BY <1>4, <1>5

\* A scan that leaves puts its slot at the end of the queue.
LEMMA LeaveNoTwice ==
    ASSUME GuardInv, NoSlotTwice, NEW c \in Scans, Leave(c)
    PROVE  NoSlotTwice'
<1>1. /\ scan'[c].slot = NoSlot
      /\ \A d \in Scans : d # c => scan'[d] = scan[d]
  BY DEF Leave, GuardInv, CoroutinesOK, IdleScan
<1>2. CASE scan[c].slot = NoSlot
  BY <1>1, <1>2, NoSlotNotInQueue DEF Leave, NoSlotTwice
<1>3. CASE scan[c].slot # NoSlot
  <2>1. free' = Append(free, scan[c].slot) /\ free \in Seq(Slots)
        /\ scan[c].slot \in Slots
    BY <1>3 DEF Leave, GuardInv, CoroutinesOK, Scan
  <2>2. /\ Len(free') = Len(free) + 1 /\ Len(free) \in Nat
        /\ free'[Len(free) + 1] = scan[c].slot
        /\ \A i \in 1..Len(free) : free'[i] = free[i]
    BY <2>1
  <2>3. \A i \in 1..Len(free') : i \in 1..Len(free) \/ i = Len(free) + 1
    BY <2>2
  <2> QED BY <1>1, <1>3, <2>2, <2>3, NoSlotNotInQueue DEF NoSlotTwice
<1> QED BY <1>2, <1>3

\* A full scan takes the first slot of the queue.
LEMMA TakeNoTwice ==
    ASSUME GuardInv, NoSlotTwice, NEW c \in Scans, free # <<>>,
           free' = Tail(free), scan'[c].slot = Head(free),
           \A d \in Scans : d # c => scan'[d] = scan[d]
    PROVE  NoSlotTwice'
<1>1. /\ Head(free) = free[1] /\ Len(free) \in Nat \ {0} /\ 1 \in 1..Len(free)
      /\ Len(free') = Len(free) - 1
      /\ \A i \in 1..Len(free') : free'[i] = free[i + 1] /\ i + 1 \in 1..Len(free)
  BY DEF GuardInv
<1> USE DEF NoSlotTwice
<1>2. \A i, j \in 1..Len(free') : free'[i] = free'[j] => i = j
  <2>1. SUFFICES ASSUME NEW i \in 1..Len(free'), NEW j \in 1..Len(free'),
                        free'[i] = free'[j]
        PROVE  i = j
    OBVIOUS
  <2>2. i + 1 = j + 1
    BY <1>1, <2>1
  <2> QED BY <1>1, <2>2
<1>3. \A i \in 1..Len(free') : free'[i] # Head(free)
  BY <1>1
<1>4. \A d \in Scans : \A i \in 1..Len(free') : free'[i] # scan'[d].slot
  BY <1>1, <1>3
<1>5. \A d \in Scans : d # c => scan'[d].slot # scan'[c].slot
  BY <1>1
<1> QED BY <1>2, <1>4, <1>5

\* The workers are as far apart after a scan has left.
LEMMA LeaveExclusive ==
    ASSUME GuardInv, ExclusiveInv, NEW c \in Scans, Leave(c),
           phase # "down", phase = "serving" => ~Live(c)
    PROVE  ExclusiveInv'
<1>1. /\ scan' = [scan EXCEPT ![c] = IdleScan] /\ UNCHANGED phase
      /\ scan'[c].slot = NoSlot
      /\ \A d \in Scans : d # c => scan'[d] = scan[d]
  BY DEF Leave, GuardInv, CoroutinesOK, IdleScan
<1>2. \A d \in Scans : Live(d)' => Live(d) /\ thread'[d] = thread[d]
  BY DEF Leave, GuardInv, ThreadsOK, Live, NoThread, ThreadPoints
<1>3. NoSlotTwice'
  BY LeaveNoTwice DEF ExclusiveInv
<1>4. WorkersOfScans'
  BY <1>1, <1>2 DEF ExclusiveInv, WorkersOfScans, Live, Leave, NoThread,
                    ThreadPoints, GuardInv, ThreadsOK
<1>5. DownIsIdle'
  BY <1>1 DEF ExclusiveInv, DownIsIdle
<1>6. OneWorkerPerSlot'
  BY <1>2 DEF ExclusiveInv, OneWorkerPerSlot, Live
<1> QED BY <1>3, <1>4, <1>5, <1>6 DEF ExclusiveInv

\* The slot that a scan takes from the queue is nobody's.
LEMMA AcquireExclusive ==
    ASSUME GuardInv, ExclusiveInv, NEW c \in Scans, Acquire(c)
    PROVE  ExclusiveInv'
<1>1. phase = "serving" /\ UNCHANGED phase
  BY DEF Acquire
<1>2. thread \in [Scans -> Thread] /\ scan \in [Scans -> Scan]
  BY DEF GuardInv, ThreadsOK, CoroutinesOK
<1>3. CASE scan[c].kind = "fast"
  <2>1. /\ UNCHANGED free
        /\ scan'[c].slot = scan[c].slot /\ scan'[c].pc # "idle"
        /\ \A d \in Scans : d # c => scan'[d] = scan[d]
    <3>1. scan' = [scan EXCEPT ![c].pc = "shielded"] /\ UNCHANGED free
      BY <1>3 DEF Acquire
    <3>2. scan[c] \in Scan
      BY <1>2
    <3>3. scan'[c].slot = scan[c].slot /\ scan'[c].pc = "shielded"
      BY <1>2, <3>1, <3>2 DEF Scan
    <3>4. ASSUME NEW d \in Scans, d # c PROVE scan'[d] = scan[d]
      BY <1>2, <3>1, <3>4
    <3> QED BY <3>1, <3>3, <3>4
  <2>2. /\ thread'[c].slot = NoSlot
        /\ \A d \in Scans : d # c => thread'[d] = thread[d]
    BY <1>2, <1>3 DEF Acquire, NoThread
  <2>3. NoSlotTwice' /\ DownIsIdle'
    BY <1>1, <2>1 DEF ExclusiveInv, NoSlotTwice, DownIsIdle
  <2>4. WorkersOfScans'
    BY <1>1, <2>1, <2>2 DEF ExclusiveInv, WorkersOfScans, Live
  <2>5. OneWorkerPerSlot'
    BY <2>2 DEF ExclusiveInv, OneWorkerPerSlot, Live
  <2> QED BY <2>3, <2>4, <2>5 DEF ExclusiveInv
<1>4. CASE scan[c].kind = "full"
  <2>1. /\ free' = Tail(free) /\ free # <<>> /\ free \in Seq(Slots)
        /\ scan' = [scan EXCEPT ![c].pc = "shielded", ![c].slot = Head(free)]
    BY <1>4 DEF Acquire, GuardInv
  <2>2. /\ Head(free) = free[1] /\ Len(free) \in Nat \ {0} /\ 1 \in 1..Len(free)
        /\ Len(free') = Len(free) - 1
        /\ \A i \in 1..Len(free') : free'[i] = free[i + 1] /\ i + 1 \in 1..Len(free)
    BY <2>1
  <2>3. /\ scan'[c].slot = Head(free) /\ scan'[c].pc # "idle"
        /\ \A d \in Scans : d # c => scan'[d] = scan[d]
    BY <1>2, <2>1 DEF Scan
  <2>4. /\ thread'[c].slot = Head(free)
        /\ \A d \in Scans : d # c => thread'[d] = thread[d]
    BY <1>2, <1>4 DEF Acquire, NoThread
  <2>5. NoSlotTwice'
    BY <2>1, <2>3, TakeNoTwice DEF ExclusiveInv
  <2>6. WorkersOfScans' /\ DownIsIdle'
    BY <1>1, <2>3, <2>4
    DEF ExclusiveInv, WorkersOfScans, DownIsIdle, Live
  <2>7. OneWorkerPerSlot'
    <3>1. \A d \in Scans : d # c /\ Live(d) => thread[d].slot # Head(free)
      BY <1>1, <2>2, NoSlotNotInQueue
      DEF ExclusiveInv, WorkersOfScans, NoSlotTwice
    <3> QED BY <2>4, <3>1 DEF ExclusiveInv, OneWorkerPerSlot, Live
  <2> QED BY <2>5, <2>6, <2>7 DEF ExclusiveInv
<1> QED BY <1>2, <1>3, <1>4 DEF Scan

\* A step that moves one coroutine and leaves its slot alone.
LEMMA ScanKept ==
    ASSUME GuardInv, ExclusiveInv, UNCHANGED <<phase, free, thread>>,
           phase # "down", NEW c \in Scans, NEW x \in Scan,
           x.slot = scan[c].slot, x.pc # "idle",
           scan' = [scan EXCEPT ![c] = x]
    PROVE  ExclusiveInv'
<1>1. \A d \in Scans : scan'[d].slot = scan[d].slot
  BY DEF GuardInv, CoroutinesOK
<1>2. NoSlotTwice' /\ WorkersOfScans' /\ OneWorkerPerSlot'
  BY <1>1 DEF ExclusiveInv, NoSlotTwice, WorkersOfScans, OneWorkerPerSlot, Live
<1>3. DownIsIdle'
  BY DEF ExclusiveInv, DownIsIdle, GuardInv, CoroutinesOK
<1> QED BY <1>2, <1>3 DEF ExclusiveInv

\* A time limit that waits for the operation moves the coroutine only.
LEMMA CoroutineExclusive ==
    ASSUME BuiltinTimeout, GuardInv, ExclusiveInv, NEW c \in Scans,
           RequestScan(c) \/ Coroutine(c) \/ TimeOut(c)
    PROVE  ExclusiveInv'
<1>1. scan[c] \in Scan /\ scan \in [Scans -> Scan]
  BY DEF GuardInv, CoroutinesOK
<1>2. phase = "down" => scan[c].pc = "idle"
  BY DEF ExclusiveInv, DownIsIdle
<1>3. CASE RequestScan(c)
  <2>1. PICK k \in {"fast", "full"}, n \in Nodes :
            scan' = [scan EXCEPT ![c] =
                        [IdleScan EXCEPT !.pc = "permit", !.kind = k, !.node = n]]
    BY <1>3 DEF RequestScan
  <2> DEFINE x == [IdleScan EXCEPT !.pc = "permit", !.kind = k, !.node = n]
  <2>2. x \in Scan /\ x.slot = NoSlot /\ x.pc = "permit"
    BY DEF IdleScan, Scan
  <2>3. scan[c].slot = NoSlot /\ phase # "down"
    BY <1>3 DEF RequestScan, ExclusiveInv, DownIsIdle
  <2> HIDE DEF x
  <2>4. scan' = [scan EXCEPT ![c] = x]
    BY <2>1 DEF x
  <2> QED BY <1>3, <2>2, <2>3, <2>4, ScanKept DEF RequestScan
<1>4. CASE Acquire(c)
  BY <1>4, AcquireExclusive
<1>5. CASE Finish(c)
  BY <1>2, <1>5, LeaveExclusive DEF Finish, HasPermit
<1>6. ASSUME NEW p \in {"drain", "cancel"}, phase # "down",
             UNCHANGED <<phase, free, thread>>, scan' = [scan EXCEPT ![c].pc = p]
      PROVE  ExclusiveInv'
  <2> DEFINE x == [scan[c] EXCEPT !.pc = p]
  <2>1. x \in Scan /\ x.slot = scan[c].slot /\ x.pc # "idle"
    BY <1>1 DEF Scan
  <2> QED BY <1>1, <1>6, <2>1, ScanKept
<1>7. CASE TimeOut(c)
  BY <1>2, <1>6, <1>7 DEF TimeOut
<1>8. CASE CancelScan(c)
  <2>1. CASE scan[c].pc = "permit"
    <3>1. /\ scan' = [scan EXCEPT ![c] = IdleScan] /\ phase = "stopping"
          /\ UNCHANGED <<phase, free, thread>>
      BY <1>8, <2>1 DEF CancelScan
    <3>2. /\ scan'[c].slot = NoSlot
          /\ \A d \in Scans : d # c => scan'[d] = scan[d]
      BY <1>1, <3>1 DEF IdleScan
    <3>3. NoSlotTwice'
      BY <3>1, <3>2, NoSlotNotInQueue DEF ExclusiveInv, NoSlotTwice
    <3>4. WorkersOfScans' /\ OneWorkerPerSlot'
      BY <3>1 DEF ExclusiveInv, WorkersOfScans, OneWorkerPerSlot, Live
    <3>5. DownIsIdle'
      BY <3>1, <3>2 DEF ExclusiveInv, DownIsIdle
    <3> QED BY <3>3, <3>4, <3>5 DEF ExclusiveInv
  <2>2. CASE scan[c].pc = "shielded"
    BY <1>6, <1>8, <2>2 DEF CancelScan
  <2>3. CASE scan[c].pc \in {"drain", "cancel"}
    BY <1>8, <2>3, LeaveExclusive DEF CancelScan
  <2> QED BY <1>8, <2>1, <2>2, <2>3 DEF CancelScan
<1> QED BY <1>3, <1>4, <1>5, <1>7, <1>8 DEF Coroutine

LEMMA ServiceExclusive ==
    ASSUME GuardInv, ExclusiveInv,
           \/ \E s \in Slots : OpenvpnOfSlotExits(s)
           \/ Shutdown \/ Exit \/ Kill \/ Boot
    PROVE  ExclusiveInv'
<1> USE DEF ExclusiveInv
<1>1. CASE \/ \E s \in Slots : OpenvpnOfSlotExits(s)
           \/ Shutdown \/ Exit
  <2>1. /\ UNCHANGED <<free, scan, thread>>
        /\ phase' = "serving" => phase = "serving"
        /\ phase' = "down" =>
               \A c \in Scans : scan[c].pc = "idle" /\ thread[c].pc = "none"
    BY <1>1 DEF OpenvpnOfSlotExits, Shutdown, Exit, DownIsIdle
  <2> QED BY <2>1 DEF NoSlotTwice, WorkersOfScans, DownIsIdle,
                      OneWorkerPerSlot, Live
<1>2. CASE Kill
  <2>1. /\ phase' = "down" /\ UNCHANGED free
        /\ \A c \in Scans : scan'[c] = IdleScan /\ thread'[c] = NoThread
    BY <1>2 DEF Kill
  <2>2. NoSlotTwice'
    BY <2>1, NoSlotNotInQueue DEF NoSlotTwice, IdleScan
  <2> QED BY <2>1, <2>2 DEF WorkersOfScans, DownIsIdle, OneWorkerPerSlot, Live,
                            IdleScan, NoThread, ThreadPoints
<1>3. CASE Boot
  <2>1. /\ phase = "down" /\ phase' = "serving" /\ UNCHANGED <<scan, thread>>
        /\ free' = [i \in 1..Concurrency |-> i]
    BY <1>3 DEF Boot, Slots
  <2>2. \A c \in Scans : scan[c].slot = NoSlot /\ ~Live(c)
    BY <2>1 DEF DownIsIdle, Live, ThreadPoints
  <2>3. NoSlotTwice'
    BY <2>1, <2>2, ScanAssumption DEF NoSlotTwice, NoSlot
  <2> QED BY <2>1, <2>2, <2>3 DEF WorkersOfScans, DownIsIdle,
                                  OneWorkerPerSlot, Live
<1> QED BY <1>1, <1>2, <1>3

LEMMA NextExclusive ==
    ASSUME BuiltinTimeout
    PROVE  GuardInv /\ ExclusiveInv /\ [ScanNext]_scanVars => ExclusiveInv'
<1> SUFFICES ASSUME GuardInv, ExclusiveInv, [ScanNext]_scanVars
             PROVE  ExclusiveInv'
  OBVIOUS
<1>1. CASE ScanNext
  BY <1>1, CoroutineExclusive, WorkerExclusive, ServiceExclusive DEF ScanNext
<1>2. CASE UNCHANGED scanVars
  BY <1>2 DEF scanVars, ExclusiveInv, NoSlotTwice, WorkersOfScans, DownIsIdle,
              OneWorkerPerSlot, Live
<1> QED BY <1>1, <1>2

\* Where a time limit waits for the operation, no two workers use the same
\* slot, however many scans there are (NodeScanCoordinator.scan).
THEOREM WorkersAreApart ==
    ASSUME BuiltinTimeout
    PROVE  ScanSpec => []OneWorkerPerSlot
<1>1. ExclusiveInv => OneWorkerPerSlot
  BY DEF ExclusiveInv
<1>2. GuardInv /\ ExclusiveInv /\ [ScanNext]_scanVars
      => GuardInv' /\ ExclusiveInv'
  BY NextExclusive, ScanNextSound
<1>3. ScanInit => GuardInv /\ ExclusiveInv
  BY InitGuardInv, InitExclusive
<1> QED BY <1>1, <1>2, <1>3, PTL DEF ScanSpec

-----------------------------------------------------------------------------
\* The line of the semaphore: who waits for a permit stands in it, once.

WaitersOK ==
    /\ line \in Seq(Scans)
    /\ \A i, j \in 1..Len(line) : line[i] = line[j] => i = j
    /\ \A i \in 1..Len(line) : scan[line[i]].pc = "permit"
    /\ \A c \in Scans : scan[c].pc = "permit" => \E i \in 1..Len(line) : line[i] = c

LineInv == phase \in {"serving", "stopping", "down"} /\ WaitersOK

\* A step of scans that neither come to wait nor cease to.
LEMMA WaitersKept ==
    ASSUME WaitersOK, UNCHANGED line,
           \A c \in Scans : scan'[c].pc = "permit" <=> scan[c].pc = "permit"
    PROVE  WaitersOK'
<1>1. \A i \in 1..Len(line) : line[i] \in Scans
  BY DEF WaitersOK
<1> QED BY <1>1 DEF WaitersOK

LEMMA RequestWaits ==
    ASSUME GuardInv, WaitersOK, NEW c \in Scans, RequestScan(c)
    PROVE  WaitersOK'
<1>1. /\ line' = Append(line, c) /\ scan[c].pc = "idle" /\ scan'[c].pc = "permit"
      /\ \A d \in Scans : d # c => scan'[d] = scan[d]
  BY DEF RequestScan, GuardInv, CoroutinesOK, IdleScan
<1>2. /\ line' \in Seq(Scans) /\ Len(line') = Len(line) + 1 /\ Len(line) \in Nat
      /\ line'[Len(line) + 1] = c
      /\ \A i \in 1..Len(line) : line'[i] = line[i] /\ line[i] \in Scans
  BY <1>1 DEF WaitersOK
<1>3. \A i \in 1..Len(line) : line[i] # c
  BY <1>1 DEF WaitersOK
<1>4. \A i \in 1..Len(line') : i \in 1..Len(line) \/ i = Len(line) + 1
  BY <1>2
<1>5. \A i, j \in 1..Len(line') : line'[i] = line'[j] => i = j
  BY <1>2, <1>3, <1>4 DEF WaitersOK
<1>6. \A i \in 1..Len(line') : scan'[line'[i]].pc = "permit"
  BY <1>1, <1>2, <1>3, <1>4 DEF WaitersOK
<1>7. ASSUME NEW d \in Scans, scan'[d].pc = "permit"
      PROVE  \E i \in 1..Len(line') : line'[i] = d
  <2>1. CASE d = c
    BY <1>2, <2>1
  <2>2. CASE d # c
    <3>1. PICK i \in 1..Len(line) : line[i] = d
      BY <1>1, <1>7, <2>2 DEF WaitersOK
    <3>2. i \in 1..Len(line') /\ line'[i] = d
      BY <1>2, <3>1
    <3> QED BY <3>2
  <2> QED BY <2>1, <2>2
<1> QED BY <1>2, <1>5, <1>6, <1>7 DEF WaitersOK

\* The first of the line takes its permit.
LEMMA AcquireWaits ==
    ASSUME GuardInv, WaitersOK, NEW c \in Scans, Acquire(c)
    PROVE  WaitersOK' /\ scan[c].pc = "permit"
<1>1. scan \in [Scans -> Scan]
  BY DEF GuardInv, CoroutinesOK
<1>2. /\ line' = Tail(line) /\ line # <<>> /\ Head(line) = c /\ line \in Seq(Scans)
      /\ scan'[c].pc = "shielded"
      /\ \A d \in Scans : d # c => scan'[d] = scan[d]
  BY <1>1 DEF Acquire, WaitersOK, Scan
<1>3. /\ line' \in Seq(Scans) /\ Len(line) \in Nat \ {0} /\ Len(line') = Len(line) - 1
      /\ line[1] = c /\ 1 \in 1..Len(line)
      /\ \A i \in 1..Len(line') : line'[i] = line[i + 1] /\ i + 1 \in 1..Len(line)
  BY <1>2
<1>4. scan[c].pc = "permit"
  BY <1>3 DEF WaitersOK
<1>5. ASSUME NEW i \in 1..Len(line'), NEW j \in 1..Len(line'), line'[i] = line'[j]
      PROVE  i = j
  <2>1. i + 1 = j + 1
    BY <1>3, <1>5 DEF WaitersOK
  <2> QED BY <1>3, <2>1
<1>6. ASSUME NEW i \in 1..Len(line')
      PROVE  line'[i] # c /\ scan'[line'[i]].pc = "permit"
  <2>1. line'[i] # c
    BY <1>3 DEF WaitersOK
  <2>2. line'[i] \in Scans
    BY <1>3
  <2> QED BY <1>2, <1>3, <2>1, <2>2 DEF WaitersOK
<1>7. ASSUME NEW d \in Scans, scan'[d].pc = "permit"
      PROVE  \E i \in 1..Len(line') : line'[i] = d
  <2>1. d # c
    BY <1>2, <1>7
  <2>2. PICK i \in 1..Len(line) : line[i] = d
    BY <1>2, <1>7, <2>1 DEF WaitersOK
  <2>3. i - 1 \in 1..Len(line') /\ line'[i - 1] = d
    BY <1>3, <2>1, <2>2
  <2> QED BY <2>3
<1> QED BY <1>3, <1>4, <1>5, <1>6, <1>7 DEF WaitersOK

\* A waiter that is cancelled leaves the line, from wherever it stands.
LEMMA CancelWaits ==
    ASSUME GuardInv, WaitersOK, NEW c \in Scans, scan[c].pc = "permit",
           line' = Without(line, c), scan' = [scan EXCEPT ![c] = IdleScan]
    PROVE  WaitersOK'
<1> DEFINE k == CHOOSE i \in 1..Len(line) : line[i] = c
           Old(i) == IF i < k THEN i ELSE i + 1
<1>1. k \in 1..Len(line) /\ line[k] = c /\ line \in Seq(Scans) /\ Len(line) \in Nat
  BY DEF WaitersOK
<1>2. line' = SubSeq(line, 1, k - 1) \o SubSeq(line, k + 1, Len(line))
  BY DEF Without
<1> HIDE DEF k
<1>3. /\ line' \in Seq(Scans) /\ Len(line') = Len(line) - 1
      /\ \A i \in 1..Len(line') : line'[i] = line[Old(i)]
  <2> DEFINE a == SubSeq(line, 1, k - 1)
             b == SubSeq(line, k + 1, Len(line))
  <2>1. /\ a \in Seq(Scans) /\ Len(a) = k - 1
        /\ \A i \in 1..(k - 1) : a[i] = line[i]
    BY <1>1
  <2>2. /\ b \in Seq(Scans) /\ Len(b) = Len(line) - k
        /\ \A i \in 1..(Len(line) - k) : b[i] = line[k + i]
    BY <1>1
  <2> HIDE DEF a, b
  <2>3. line' = a \o b
    BY <1>2 DEF a, b
  <2>4. /\ line' \in Seq(Scans) /\ Len(line') = Len(a) + Len(b)
        /\ \A i \in 1..(Len(a) + Len(b)) :
               line'[i] = IF i <= Len(a) THEN a[i] ELSE b[i - Len(a)]
    <3>1. a \in Seq(Scans) /\ b \in Seq(Scans)
      BY <2>1, <2>2
    <3>2. /\ a \o b \in Seq(Scans) /\ Len(a \o b) = Len(a) + Len(b)
          /\ \A i \in 1..(Len(a) + Len(b)) :
                 (a \o b)[i] = IF i <= Len(a) THEN a[i] ELSE b[i - Len(a)]
      BY <3>1, ConcatProperties, Zenon
    <3> QED BY <2>3, <3>2, Zenon
  <2>5. Len(line') = Len(line) - 1
    BY <1>1, <2>1, <2>2, <2>4
  <2>6. ASSUME NEW i \in 1..Len(line') PROVE line'[i] = line[Old(i)]
    <3>1. CASE i < k
      BY <1>1, <2>1, <2>4, <2>5, <3>1
    <3>2. CASE i >= k
      <4>1. line'[i] = b[i - (k - 1)]
        BY <1>1, <2>1, <2>2, <2>4, <2>5, <3>2
      <4>2. i - (k - 1) \in 1..(Len(line) - k)
        BY <1>1, <2>5, <3>2
      <4>3. b[i - (k - 1)] = line[k + (i - (k - 1))]
        BY <2>2, <4>2
      <4>4. k + (i - (k - 1)) = Old(i)
        BY <1>1, <2>5, <3>2
      <4> QED BY <4>1, <4>3, <4>4
    <3> QED BY <1>1, <2>5, <3>1, <3>2
  <2> QED BY <2>4, <2>5, <2>6
<1>4. \A i \in 1..Len(line') : Old(i) \in 1..Len(line) /\ Old(i) # k
  BY <1>1, <1>3
<1>5. /\ scan'[c].pc = "idle"
      /\ \A d \in Scans : d # c => scan'[d] = scan[d]
  BY DEF GuardInv, CoroutinesOK, IdleScan
<1>6. ASSUME NEW i \in 1..Len(line'), NEW j \in 1..Len(line'), line'[i] = line'[j]
      PROVE  i = j
  <2>1. Old(i) = Old(j)
    <3> HIDE DEF Old
    <3> QED BY <1>3, <1>4, <1>6 DEF WaitersOK
  <2> QED BY <1>1, <1>3, <2>1
<1>7. ASSUME NEW i \in 1..Len(line')
      PROVE  scan'[line'[i]].pc = "permit"
  <2> HIDE DEF Old
  <2>1. line'[i] # c /\ line'[i] \in Scans /\ scan[line'[i]].pc = "permit"
    BY <1>1, <1>3, <1>4 DEF WaitersOK
  <2> QED BY <1>5, <2>1
<1>8. ASSUME NEW d \in Scans, scan'[d].pc = "permit"
      PROVE  \E i \in 1..Len(line') : line'[i] = d
  <2>1. d # c /\ scan[d].pc = "permit"
    BY <1>5, <1>8
  <2>2. PICK j \in 1..Len(line) : line[j] = d
    BY <2>1 DEF WaitersOK
  <2>3. j # k
    BY <1>1, <2>1, <2>2
  <2>4. CASE j < k
    <3>1. j \in 1..Len(line') /\ line'[j] = d
      BY <1>1, <1>3, <2>2, <2>4
    <3> QED BY <3>1
  <2>5. CASE j > k
    <3>1. j - 1 \in 1..Len(line') /\ line'[j - 1] = d
      BY <1>1, <1>3, <2>2, <2>5
    <3> QED BY <3>1
  <2> QED BY <1>1, <2>2, <2>3, <2>4, <2>5
<1> QED BY <1>3, <1>6, <1>7, <1>8 DEF WaitersOK

\* A scan that leaves was not waiting any more.
LEMMA LeaveWaits ==
    ASSUME GuardInv, LineInv, NEW c \in Scans, scan[c].pc # "permit", Leave(c)
    PROVE  LineInv'
<1>1. \A d \in Scans : scan'[d].pc = "permit" <=> scan[d].pc = "permit"
  BY DEF Leave, GuardInv, CoroutinesOK, IdleScan
<1> QED BY <1>1, WaitersKept DEF Leave, LineInv

LEMMA CoroutineWaits ==
    ASSUME GuardInv, LineInv, NEW c \in Scans,
           RequestScan(c) \/ Coroutine(c) \/ TimeOut(c)
    PROVE  LineInv'
<1>1. CASE RequestScan(c)
  BY <1>1, RequestWaits DEF RequestScan, LineInv
<1>2. CASE Acquire(c)
  BY <1>2, AcquireWaits DEF Acquire, LineInv
<1>3. CASE Finish(c)
  BY <1>3, LeaveWaits DEF Finish, HasPermit
<1>4. ASSUME NEW p \in {"drain", "cancel"}, scan[c].pc = "shielded",
             UNCHANGED <<phase, line>>, scan' = [scan EXCEPT ![c].pc = p]
      PROVE  LineInv'
  <2>1. \A d \in Scans : scan'[d].pc = "permit" <=> scan[d].pc = "permit"
    BY <1>4 DEF GuardInv, CoroutinesOK, Scan
  <2> QED BY <1>4, <2>1, WaitersKept DEF LineInv
<1>5. CASE CancelScan(c)
  <2>1. CASE scan[c].pc = "permit"
    BY <1>5, <2>1, CancelWaits DEF CancelScan, LineInv
  <2>2. CASE scan[c].pc = "shielded"
    BY <1>4, <1>5, <2>2 DEF CancelScan
  <2>3. CASE scan[c].pc \in {"drain", "cancel"}
    BY <1>5, <2>3, LeaveWaits DEF CancelScan
  <2> QED BY <1>5, <2>1, <2>2, <2>3 DEF CancelScan
<1>6. CASE TimeOut(c)
  BY <1>4, <1>6, LeaveWaits DEF TimeOut
<1> QED BY <1>1, <1>2, <1>3, <1>5, <1>6 DEF Coroutine

\* A worker leaves the coroutines and their queue alone.
LEMMA WorkerAlone ==
    ASSUME NEW c \in Scans, Worker(c)
    PROVE  UNCHANGED <<phase, free, line, scan>>
BY DEF Worker, MakeNamespace, UnmakeNamespace, InstallRules, UninstallRules,
       DialNode, AwaitTun, ProbeNode, StopOpenvpnOf, RemoveRules,
       RemoveNamespace, Transport, Detached, Work

LEMMA NextWaits == GuardInv /\ LineInv /\ [ScanNext]_scanVars => LineInv'
<1> SUFFICES ASSUME GuardInv, LineInv, [ScanNext]_scanVars PROVE LineInv'
  OBVIOUS
<1>1. ASSUME UNCHANGED <<line, scan>>, phase' \in {"serving", "stopping", "down"}
      PROVE  LineInv'
  BY <1>1 DEF LineInv, WaitersOK
<1>2. CASE \E c \in Scans : RequestScan(c) \/ Coroutine(c) \/ TimeOut(c)
  BY <1>2, CoroutineWaits
<1>3. CASE \E c \in Scans : Worker(c)
  BY <1>1, <1>3, WorkerAlone DEF LineInv
<1>4. CASE (\E s \in Slots : OpenvpnOfSlotExits(s)) \/ Shutdown \/ Exit \/ Boot
  BY <1>1, <1>4 DEF OpenvpnOfSlotExits, Shutdown, Exit, Boot, LineInv
<1>5. CASE Kill
  BY <1>5 DEF Kill, LineInv, WaitersOK, IdleScan
<1>6. CASE UNCHANGED scanVars
  BY <1>1, <1>6 DEF scanVars, LineInv
<1> QED BY <1>2, <1>3, <1>4, <1>5, <1>6 DEF ScanNext

LEMMA InitWaits == ScanInit => LineInv
BY DEF ScanInit, LineInv, WaitersOK, IdleScan

\* The types of the scans, their slots and their workers, whatever times out, is
\* cancelled or is cut off (service.py, full.py).
THEOREM ScanTypeCorrect == ScanSpec => []ScanTypeOK
<1>1. GuardInv /\ LineInv => ScanTypeOK
  BY DEF GuardInv, LineInv, WaitersOK, MachinesOK, ThreadsOK, CoroutinesOK, ScanTypeOK
<1>2. GuardInv /\ LineInv /\ [ScanNext]_scanVars => GuardInv' /\ LineInv'
  BY NextWaits, ScanNextSound
<1>3. ScanInit => GuardInv /\ LineInv
  BY InitGuardInv, InitWaits
<1> QED BY <1>1, <1>2, <1>3, PTL DEF ScanSpec

-----------------------------------------------------------------------------
\* The pool of slots: while the service runs each slot is in the queue or a
\* scan's, and a scan has one only from its permit to its end.

Placed(s) ==
    \/ \E i \in 1..Len(free) : free[i] = s
    \/ \E c \in Scans : scan[c].slot = s

PoolInv ==
    /\ NoSlotTwice
    /\ \A c \in Scans : scan[c].pc \in {"idle", "permit"} => scan[c].slot = NoSlot
    /\ phase = "down" => \A c \in Scans : scan[c].pc = "idle"
    /\ phase # "down" => \A s \in Slots : Placed(s)

\* A step in which no slot moves.
LEMMA PoolKept ==
    ASSUME GuardInv, PoolInv, UNCHANGED free, phase # "down",
           \A c \in Scans : /\ scan'[c].slot = scan[c].slot
                            /\ scan'[c].pc \in {"idle", "permit"} =>
                                   scan[c].pc \in {"idle", "permit"},
           phase' = "down" => \A c \in Scans : scan'[c].pc = "idle"
    PROVE  PoolInv'
<1>1. NoSlotTwice'
  BY DEF PoolInv, NoSlotTwice
<1>2. \A s \in Slots : Placed(s)'
  BY DEF PoolInv, Placed
<1> QED BY <1>1, <1>2 DEF PoolInv

LEMMA LeavePool ==
    ASSUME GuardInv, PoolInv, NEW c \in Scans, Leave(c), phase # "down"
    PROVE  PoolInv'
<1>1. /\ scan'[c] = IdleScan /\ UNCHANGED phase
      /\ \A d \in Scans : d # c => scan'[d] = scan[d]
  BY DEF Leave, GuardInv, CoroutinesOK
<1>2. NoSlotTwice'
  BY LeaveNoTwice DEF PoolInv
<1>3. ASSUME NEW s \in Slots PROVE Placed(s)'
  <2>1. CASE scan[c].slot = NoSlot
    <3>1. UNCHANGED free /\ s # NoSlot
      BY <2>1, NoSlotNotInQueue DEF Leave
    <3> QED BY <1>1, <2>1, <3>1 DEF PoolInv, Placed
  <2>2. CASE scan[c].slot # NoSlot
    <3>1. free' = Append(free, scan[c].slot) /\ free \in Seq(Slots)
      BY <2>2 DEF Leave, GuardInv
    <3>2. /\ Len(free') = Len(free) + 1 /\ Len(free) \in Nat
          /\ free'[Len(free) + 1] = scan[c].slot
          /\ \A i \in 1..Len(free) : free'[i] = free[i] /\ i \in 1..Len(free')
          /\ Len(free) + 1 \in 1..Len(free')
      BY <3>1
    <3>3. CASE scan[c].slot = s
      BY <3>2, <3>3 DEF Placed
    <3>4. CASE scan[c].slot # s
      BY <1>1, <3>2, <3>4 DEF PoolInv, Placed
    <3> QED BY <3>3, <3>4
  <2> QED BY <2>1, <2>2
<1> QED BY <1>1, <1>2, <1>3 DEF PoolInv, IdleScan

LEMMA AcquirePool ==
    ASSUME GuardInv, LineInv, PoolInv, NEW c \in Scans, Acquire(c)
    PROVE  PoolInv'
<1>1. scan[c].pc = "permit" /\ scan[c].slot = NoSlot /\ scan \in [Scans -> Scan]
  BY AcquireWaits DEF LineInv, PoolInv, GuardInv, CoroutinesOK
<1>2. phase = "serving" /\ UNCHANGED phase
  BY DEF Acquire
<1>3. CASE scan[c].kind = "fast"
  <2>1. UNCHANGED free /\ scan' = [scan EXCEPT ![c].pc = "shielded"]
    BY <1>3 DEF Acquire
  <2>2. \A d \in Scans : /\ scan'[d].slot = scan[d].slot
                         /\ scan'[d].pc \in {"idle", "permit"} =>
                                scan[d].pc \in {"idle", "permit"}
    BY <1>1, <2>1 DEF Scan
  <2> QED BY <1>2, <2>1, <2>2, PoolKept
<1>4. CASE scan[c].kind = "full"
  <2>1. /\ free' = Tail(free) /\ free # <<>> /\ free \in Seq(Slots)
        /\ scan' = [scan EXCEPT ![c].pc = "shielded", ![c].slot = Head(free)]
    BY <1>4 DEF Acquire, GuardInv
  <2>2. /\ scan'[c].slot = Head(free) /\ scan'[c].pc = "shielded"
        /\ \A d \in Scans : d # c => scan'[d] = scan[d]
    BY <1>1, <2>1 DEF Scan
  <2>3. NoSlotTwice'
    BY <2>1, <2>2, TakeNoTwice DEF PoolInv
  <2>4. ASSUME NEW s \in Slots PROVE Placed(s)'
    <3>1. Placed(s) /\ s # NoSlot
      BY <1>2, NoSlotNotInQueue DEF PoolInv
    <3>2. CASE \E d \in Scans : scan[d].slot = s
      BY <1>1, <2>2, <3>1, <3>2 DEF Placed
    <3>3. CASE \E i \in 1..Len(free) : free[i] = s
      <4>1. PICK i \in 1..Len(free) : free[i] = s
        BY <3>3
      <4>2. CASE i = 1
        <5>1. scan'[c].slot = s
          BY <2>1, <2>2, <4>1, <4>2
        <5> QED BY <5>1 DEF Placed
      <4>3. CASE i # 1
        <5>1. i - 1 \in 1..Len(free') /\ free'[i - 1] = s
          BY <2>1, <4>1, <4>3
        <5> QED BY <5>1 DEF Placed
      <4> QED BY <4>2, <4>3
    <3> QED BY <3>1, <3>2, <3>3 DEF Placed
  <2> QED BY <1>2, <2>2, <2>3, <2>4 DEF PoolInv
<1> QED BY <1>1, <1>3, <1>4 DEF Scan

LEMMA CoroutinePool ==
    ASSUME GuardInv, LineInv, PoolInv, NEW c \in Scans,
           RequestScan(c) \/ Coroutine(c) \/ TimeOut(c)
    PROVE  PoolInv'
<1>1. scan[c] \in Scan /\ scan \in [Scans -> Scan]
  BY DEF GuardInv, CoroutinesOK
<1>2. scan[c].pc # "idle" => phase # "down"
  BY DEF PoolInv
<1>3. ASSUME NEW p \in {"drain", "cancel"}, phase # "down", UNCHANGED <<phase, free>>,
             scan[c].pc = "shielded", scan' = [scan EXCEPT ![c].pc = p]
      PROVE  PoolInv'
  <2>1. \A d \in Scans : /\ scan'[d].slot = scan[d].slot
                         /\ scan'[d].pc \in {"idle", "permit"} =>
                                scan[d].pc \in {"idle", "permit"}
    BY <1>1, <1>3 DEF Scan
  <2> QED BY <1>3, <2>1, PoolKept
<1>4. ASSUME NEW x \in Scan, x.slot = NoSlot, phase # "down", UNCHANGED <<phase, free>>,
             scan[c].pc \in {"idle", "permit"}, scan' = [scan EXCEPT ![c] = x]
      PROVE  PoolInv'
  <2>1. \A d \in Scans : /\ scan'[d].slot = scan[d].slot
                         /\ scan'[d].pc \in {"idle", "permit"} =>
                                scan[d].pc \in {"idle", "permit"}
    BY <1>1, <1>4 DEF PoolInv
  <2> QED BY <1>4, <2>1, PoolKept
<1>5. CASE RequestScan(c)
  <2>1. PICK k \in {"fast", "full"}, n \in Nodes :
            scan' = [scan EXCEPT ![c] =
                        [IdleScan EXCEPT !.pc = "permit", !.kind = k, !.node = n]]
    BY <1>5 DEF RequestScan
  <2> DEFINE x == [IdleScan EXCEPT !.pc = "permit", !.kind = k, !.node = n]
  <2>2. x \in Scan /\ x.slot = NoSlot
    BY DEF IdleScan, Scan
  <2>3. scan' = [scan EXCEPT ![c] = x]
    BY <2>1
  <2> HIDE DEF x
  <2> QED BY <1>4, <1>5, <2>2, <2>3 DEF RequestScan
<1>6. CASE Acquire(c)
  BY <1>6, AcquirePool
<1>7. CASE Finish(c)
  BY <1>2, <1>7, LeavePool DEF Finish, HasPermit
<1>8. CASE TimeOut(c)
  BY <1>2, <1>3, <1>8, LeavePool DEF TimeOut
<1>9. CASE CancelScan(c)
  <2>1. CASE scan[c].pc = "permit"
    <3>1. IdleScan \in Scan /\ IdleScan.slot = NoSlot
      BY DEF IdleScan, Scan
    <3> QED BY <1>4, <1>9, <2>1, <3>1 DEF CancelScan
  <2>2. CASE scan[c].pc = "shielded"
    BY <1>3, <1>9, <2>2 DEF CancelScan
  <2>3. CASE scan[c].pc \in {"drain", "cancel"}
    BY <1>9, <2>3, LeavePool DEF CancelScan
  <2> QED BY <1>9, <2>1, <2>2, <2>3 DEF CancelScan
<1> QED BY <1>5, <1>6, <1>7, <1>8, <1>9 DEF Coroutine

LEMMA NextPool == GuardInv /\ LineInv /\ PoolInv /\ [ScanNext]_scanVars => PoolInv'
<1> SUFFICES ASSUME GuardInv, LineInv, PoolInv, [ScanNext]_scanVars PROVE PoolInv'
  OBVIOUS
<1>1. ASSUME UNCHANGED <<phase, free, scan>> PROVE PoolInv'
  BY <1>1 DEF PoolInv, NoSlotTwice, Placed
<1>2. CASE \E c \in Scans : RequestScan(c) \/ Coroutine(c) \/ TimeOut(c)
  BY <1>2, CoroutinePool
<1>3. CASE \E c \in Scans : Worker(c)
  BY <1>1, <1>3, WorkerAlone
<1>4. CASE \E s \in Slots : OpenvpnOfSlotExits(s)
  BY <1>1, <1>4 DEF OpenvpnOfSlotExits
<1>5. CASE Shutdown \/ Exit
  <2>1. phase # "down" /\ UNCHANGED <<free, scan>>
    BY <1>5 DEF Shutdown, Exit
  <2>2. phase' = "down" => \A c \in Scans : scan'[c].pc = "idle"
    BY <1>5 DEF Shutdown, Exit
  <2> QED BY <2>1, <2>2, PoolKept
<1>6. CASE Kill
  <2>1. \A c \in Scans : scan'[c].slot = NoSlot /\ scan'[c].pc = "idle"
    BY <1>6 DEF Kill, IdleScan
  <2>2. NoSlotTwice'
    BY <1>6, <2>1, NoSlotNotInQueue DEF Kill, PoolInv, NoSlotTwice
  <2>3. phase' = "down"
    BY <1>6 DEF Kill
  <2> QED BY <2>1, <2>2, <2>3 DEF PoolInv
<1>7. CASE Boot
  <2>1. /\ UNCHANGED scan /\ free' = [i \in 1..Concurrency |-> i]
        /\ \A c \in Scans : scan[c].slot = NoSlot
    BY <1>7 DEF Boot, Slots, PoolInv
  <2>2. NoSlotTwice'
    BY <2>1, ScanAssumption DEF NoSlotTwice, NoSlot
  <2>3. \A s \in Slots : Placed(s)'
    BY <2>1, ScanAssumption DEF Placed, Slots
  <2>4. phase' = "serving"
    BY <1>7 DEF Boot
  <2> QED BY <2>1, <2>2, <2>3, <2>4 DEF PoolInv
<1>8. CASE UNCHANGED scanVars
  BY <1>1, <1>8 DEF scanVars
<1> QED BY <1>2, <1>3, <1>4, <1>5, <1>6, <1>7, <1>8 DEF ScanNext

LEMMA InitPool == ScanInit => PoolInv
BY ScanAssumption
DEF ScanInit, PoolInv, NoSlotTwice, Placed, Slots, NoSlot, IdleScan

LEMMA PoolCounts ==
    ASSUME GuardInv, PoolInv
    PROVE  SlotForEachPermit
<1> SUFFICES ASSUME phase # "down", NEW s \in Slots
             PROVE  Cardinality({i \in DOMAIN free : free[i] = s})
                    + Cardinality({c \in Scans : scan[c].slot = s}) = 1
  BY DEF SlotForEachPermit
<1> DEFINE I == {i \in 1..Len(free) : free[i] = s}
           C == {c \in Scans : scan[c].slot = s}
<1>1. DOMAIN free = 1..Len(free)
  BY DEF GuardInv
<1>2. s # NoSlot
  BY NoSlotNotInQueue
<1>3. \A i, j \in I : i = j
  BY DEF PoolInv, NoSlotTwice
<1>4. \A c, d \in C : c = d
  BY <1>2 DEF PoolInv, NoSlotTwice
<1>5. I = {} \/ C = {}
  BY DEF PoolInv, NoSlotTwice
<1>6. I # {} \/ C # {}
  BY DEF PoolInv, Placed
<1> HIDE DEF I, C
<1>7. Cardinality(I) = IF I = {} THEN 0 ELSE 1
  <2>1. I = {} \/ \E x : I = {x}
    BY <1>3
  <2> QED BY <2>1, FS_EmptySet, FS_Singleton
<1>8. Cardinality(C) = IF C = {} THEN 0 ELSE 1
  <2>1. C = {} \/ \E x : C = {x}
    BY <1>4
  <2> QED BY <2>1, FS_EmptySet, FS_Singleton
<1>9. Cardinality(I) + Cardinality(C) = 1
  BY <1>5, <1>6, <1>7, <1>8
<1> QED BY <1>1, <1>9 DEF I, C

\* No slot is lost or handed out twice, and a scan with a permit finds one in the
\* queue, on every version of Python and after every crash (service.py, scan).
THEOREM PoolIsComplete == ScanSpec => []SlotForEachPermit
<1>1. GuardInv /\ PoolInv => SlotForEachPermit
  BY PoolCounts
<1>2. GuardInv /\ LineInv /\ PoolInv /\ [ScanNext]_scanVars
      => GuardInv' /\ LineInv' /\ PoolInv'
  BY NextPool, NextWaits, ScanNextSound
<1>3. ScanInit => GuardInv /\ LineInv /\ PoolInv
  BY InitGuardInv, InitWaits, InitPool
<1> QED BY <1>1, <1>2, <1>3, PTL DEF ScanSpec

-----------------------------------------------------------------------------
\* The cleanup: what a scan knows of its slot once its probe has succeeded, which
\* nobody else may touch before the scan puts it back.

TidySlots == \A s \in Slots : Tidy(machine[s]) /\ ~machine[s].socks

OwnSlot ==
    \A c \in Scans :
        /\ scan[c].slot # NoSlot => thread[c].slot = scan[c].slot
        /\ thread[c].pc = "transport" => thread[c].slot = NoSlot

\* What a removal of the rules leaves that reports success.
Bare(r) == ~HasProcess(r) /\ r.ks = NoNode

\* A slot that a scan has is no other worker's.
HeldAlone ==
    \A c, d \in Scans :
        Live(d) /\ scan[c].slot # NoSlot /\ thread[d].slot = scan[c].slot => c = d

StageOK(t, m) ==
    t.result = "SUCCEEDED" =>
        /\ t.pc \in {"stop", "remove", "delete", "done"}
        /\ t.pc = "remove" => m.vpn = NoNode
        /\ t.pc = "delete" => Bare(m)
        /\ t.pc = "done" => NothingButRules(m)

StagesOK ==
    \A c \in Scans :
        scan[c].slot # NoSlot => StageOK(thread[c], machine[scan[c].slot])

CleanInv == TidySlots /\ OwnSlot /\ HeldAlone /\ StagesOK

\* A step that acts on no slot and hands none out.
LEMMA CleanKept ==
    ASSUME CleanInv, UNCHANGED machine,
           \A c \in Scans :
               /\ scan'[c].slot \in {scan[c].slot, NoSlot}
               /\ scan'[c].slot # NoSlot => thread'[c] = thread[c]
               /\ Live(c)' => thread'[c] = thread[c]
    PROVE  CleanInv'
<1>1. TidySlots'
  BY DEF CleanInv, TidySlots, Tidy, HasProcess
<1>2. OwnSlot'
  BY DEF CleanInv, OwnSlot, Live, ThreadPoints
<1>3. HeldAlone'
  BY DEF CleanInv, HeldAlone, Live
<1>4. StagesOK'
  BY DEF CleanInv, StagesOK, StageOK, Bare, HasProcess, NothingButRules
<1> QED BY <1>1, <1>2, <1>3, <1>4 DEF CleanInv

\* A worker that goes on keeps its slot, and the other workers stay.
OthersStay(c) ==
    \A d \in Scans : /\ thread'[d].slot = thread[d].slot
                     /\ d # c => thread'[d] = thread[d]

LEMMA GoesOn ==
    ASSUME ThreadsOK, NEW c \in Scans, NEW point
    PROVE  /\ To(c, point) =>
                  /\ OthersStay(c) /\ thread'[c].pc = point
                  /\ thread'[c].result = thread[c].result
           /\ Succeeded(c, point) => OthersStay(c) /\ thread'[c].pc = point
           /\ Dirty(c) =>
                  /\ OthersStay(c) /\ thread'[c].pc = "done"
                  /\ thread'[c].result = "FAILED"
<1>1. thread[c] \in Thread /\ thread \in [Scans -> Thread]
  BY DEF ThreadsOK
<1>2. ASSUME To(c, point)
      PROVE  /\ OthersStay(c) /\ thread'[c].pc = point
             /\ thread'[c].result = thread[c].result
  BY <1>1, <1>2 DEF To, OthersStay, Thread
<1>3. ASSUME Succeeded(c, point) PROVE OthersStay(c) /\ thread'[c].pc = point
  BY <1>1, <1>3 DEF Succeeded, OthersStay, Thread
<1>4. ASSUME Dirty(c)
      PROVE  /\ OthersStay(c) /\ thread'[c].pc = "done"
             /\ thread'[c].result = "FAILED"
  BY <1>1, <1>4 DEF Dirty, OthersStay, Thread
<1> QED BY <1>2, <1>3, <1>4

\* A worker acts on its slot: what the scan knows must hold there afterwards.
LEMMA CleanStep ==
    ASSUME GuardInv, CleanInv, NEW c \in Scans, thread[c].pc \in SlotPoints,
           NEW m \in Runtime, Tidy(m), ~m.socks,
           machine' = [machine EXCEPT ![thread[c].slot] = m],
           UNCHANGED scan, OthersStay(c), thread'[c].pc # "transport",
           scan[c].slot # NoSlot => StageOK(thread'[c], m)
    PROVE  CleanInv'
<1>1. thread[c].slot \in Slots /\ Live(c) /\ machine \in [Slots -> Runtime]
  BY DEF GuardInv, ThreadsOK, ThreadOK, MachinesOK, Live, SlotPoints
<1>2. TidySlots'
  BY <1>1 DEF CleanInv, TidySlots, Tidy, HasProcess
<1>3. OwnSlot'
  BY DEF CleanInv, OwnSlot, OthersStay
<1>4. HeldAlone'
  BY <1>1 DEF CleanInv, HeldAlone, OthersStay, Live
<1>5. ASSUME NEW d \in Scans, scan[d].slot # NoSlot
      PROVE  StageOK(thread'[d], machine'[scan[d].slot])
  <2>1. CASE d = c
    <3>1. machine'[scan[d].slot] = m
      BY <1>1, <1>5, <2>1 DEF CleanInv, OwnSlot
    <3> QED BY <1>5, <2>1, <3>1
  <2>2. CASE d # c
    <3>1. scan[d].slot # thread[c].slot
      BY <1>1, <1>5, <2>2 DEF CleanInv, HeldAlone
    <3>2. scan[d].slot \in Slots
      BY <1>5 DEF GuardInv, CoroutinesOK, Scan
    <3>3. machine'[scan[d].slot] = machine[scan[d].slot] /\ thread'[d] = thread[d]
      BY <1>1, <2>2, <3>1, <3>2 DEF OthersStay
    <3> QED BY <1>5, <3>3 DEF CleanInv, StagesOK
  <2> QED BY <2>1, <2>2
<1>6. StagesOK'
  BY <1>5 DEF StagesOK, StageOK, Bare, HasProcess, NothingButRules
<1> QED BY <1>2, <1>3, <1>4, <1>6 DEF CleanInv

\* Every operation of a worker leaves a tidy slot without a proxy.
LEMMA SlotOperationsTidy ==
    ASSUME GuardInv, CleanInv, NEW c \in Scans, thread[c].pc \in SlotPoints,
           NEW outcomes \in Operations(c), NEW o \in outcomes
    PROVE  o.rt \in Runtime /\ Tidy(o.rt) /\ ~o.rt.socks
<1> DEFINE r == There(c)
<1>1. r \in Runtime /\ Tidy(r) /\ ~r.socks /\ thread[c].node \in Nodes
  BY DEF GuardInv, MachinesOK, ThreadsOK, ThreadOK, There, CleanInv, TidySlots
<1>2. o.rt \in Runtime
  BY SlotOperations DEF Operations, LeavesSound
<1> HIDE DEF r
<1>3. r = There(c)
  BY DEF r
<1> DEFINE Stays == Tidy(o.rt) /\ o.rt.socks = r.socks
<1>4. CASE outcomes = NamespaceCreate(r)
  <2>1. Stays BY <1>1, <1>4, NamespaceCreateLeaves DEF SameProcesses, Lawful
  <2> QED BY <1>1, <1>2, <2>1
<1>5. CASE outcomes = NamespaceDelete(r)
  <2>1. Stays BY <1>1, <1>5, NamespaceDeleteLeaves DEF SameProcesses, Lawful
  <2> QED BY <1>1, <1>2, <2>1
<1>6. CASE outcomes = KillswitchApply(r, thread[c].node)
  <2>1. Stays BY <1>1, <1>6, KillswitchApplyLeaves DEF SameProcesses, Lawful
  <2> QED BY <1>1, <1>2, <2>1
<1>7. CASE outcomes = KillswitchRemove(r)
  <2>1. Stays BY <1>1, <1>7, KillswitchRemoveLeaves DEF SameProcesses, Lawful
  <2> QED BY <1>1, <1>2, <2>1
<1>8. CASE outcomes = OpenvpnStart(r, thread[c].node)
  <2>1. Stays BY <1>1, <1>8, OpenvpnStartLeaves DEF Lawful
  <2> QED BY <1>1, <1>2, <2>1
<1>9. CASE outcomes = OpenvpnStop(r)
  <2>1. Stays BY <1>1, <1>9, OpenvpnStopLeaves DEF Lawful
  <2> QED BY <1>1, <1>2, <2>1
<1>10. CASE outcomes = {Fail(r), Ok(r)}
  BY <1>1, <1>10 DEF Ok, Fail
<1> QED BY <1>3, <1>4, <1>5, <1>6, <1>7, <1>8, <1>9, <1>10 DEF Operations

\* A worker goes on from a point at which nothing has succeeded yet, or fails.
LEMMA StageEarly ==
    ASSUME GuardInv, CleanInv, NEW c \in Scans, NEW point,
           \/ Dirty(c)
           \/ /\ thread[c].pc \notin {"stop", "remove", "delete", "done"}
              /\ To(c, point)
    PROVE  /\ OthersStay(c)
           /\ scan[c].slot # NoSlot => thread'[c].result # "SUCCEEDED"
<1>1. CASE Dirty(c)
  BY <1>1, GoesOn DEF GuardInv
<1>2. CASE /\ thread[c].pc \notin {"stop", "remove", "delete", "done"}
           /\ To(c, point)
  <2>1. scan[c].slot # NoSlot => thread[c].result # "SUCCEEDED"
    BY <1>2 DEF CleanInv, StagesOK, StageOK
  <2> QED BY <1>2, <2>1, GoesOn DEF GuardInv
<1> QED BY <1>1, <1>2

\* What an outcome of a worker's operation has to bring.
StepsTo(c, o) ==
    /\ machine' = [machine EXCEPT ![thread[c].slot] = o.rt]
    /\ OthersStay(c) /\ thread'[c].pc # "transport"
    /\ scan[c].slot # NoSlot => StageOK(thread'[c], o.rt)

\* The worker sets the slot up: only the probe succeeds.
LEMMA SetupStage ==
    ASSUME GuardInv, CleanInv, NEW c \in Scans,
           \/ MakeNamespace(c) \/ UnmakeNamespace(c) \/ InstallRules(c)
           \/ UninstallRules(c) \/ DialNode(c) \/ AwaitTun(c) \/ ProbeNode(c)
    PROVE  \E outcomes \in Operations(c) : \E o \in outcomes : StepsTo(c, o)
<1>1. ASSUME NEW o, NEW p, p # "transport", Dirty(c) \/ To(c, p),
             thread[c].pc \notin {"stop", "remove", "delete", "done"},
             machine' = [machine EXCEPT ![thread[c].slot] = o.rt]
      PROVE  StepsTo(c, o)
  <2>1. thread'[c].pc # "transport"
    BY <1>1, GoesOn DEF GuardInv
  <2> QED BY <1>1, <2>1, StageEarly DEF StepsTo, StageOK
<1>2. CASE MakeNamespace(c)
  <2>1. PICK o \in NamespaceCreate(There(c)) :
            /\ machine' = [machine EXCEPT ![thread[c].slot] = o.rt]
            /\ To(c, "apply") \/ To(c, "delete") \/ To(c, "undoCreate")
    BY <1>2 DEF MakeNamespace, Work
  <2> QED BY <1>1, <1>2, <2>1 DEF MakeNamespace, WorkerAt, Operations
<1>3. CASE UnmakeNamespace(c)
  <2>1. PICK o \in NamespaceDelete(There(c)) :
            /\ machine' = [machine EXCEPT ![thread[c].slot] = o.rt]
            /\ Dirty(c)
    BY <1>3 DEF UnmakeNamespace, Work
  <2> QED BY <1>1, <1>3, <2>1 DEF UnmakeNamespace, WorkerAt, Operations
<1>4. CASE InstallRules(c)
  <2>1. PICK o \in KillswitchApply(There(c), thread[c].node) :
            /\ machine' = [machine EXCEPT ![thread[c].slot] = o.rt]
            /\ To(c, "dial") \/ To(c, "undoApply")
    BY <1>4 DEF InstallRules, Work
  <2> QED BY <1>1, <1>4, <2>1 DEF InstallRules, WorkerAt, Operations
<1>5. CASE UninstallRules(c)
  <2>1. PICK o \in KillswitchRemove(There(c)) :
            /\ machine' = [machine EXCEPT ![thread[c].slot] = o.rt]
            /\ To(c, "remove")
    BY <1>5 DEF UninstallRules, Work
  <2> QED BY <1>1, <1>5, <2>1 DEF UninstallRules, WorkerAt, Operations
<1>6. CASE DialNode(c)
  <2>1. PICK o \in OpenvpnStart(There(c), thread[c].node) :
            /\ machine' = [machine EXCEPT ![thread[c].slot] = o.rt]
            /\ To(c, "awaitTun") \/ To(c, "stop")
    BY <1>6 DEF DialNode, Work
  <2> QED BY <1>1, <1>6, <2>1 DEF DialNode, WorkerAt, Operations
<1>7. CASE AwaitTun(c)
  <2>1. PICK o \in {Fail(There(c)), Ok(There(c))} :
            /\ machine' = [machine EXCEPT ![thread[c].slot] = o.rt]
            /\ To(c, "probe") \/ To(c, "stop")
    BY <1>7 DEF AwaitTun, Work
  <2> QED BY <1>1, <1>7, <2>1 DEF AwaitTun, WorkerAt, Operations
<1>8. CASE ProbeNode(c)
  <2>1. PICK o \in {Fail(There(c)), Ok(There(c))} :
            /\ machine' = [machine EXCEPT ![thread[c].slot] = o.rt]
            /\ Succeeded(c, "stop") \/ To(c, "stop")
    BY <1>8 DEF ProbeNode, Work
  <2>2. ASSUME Succeeded(c, "stop") PROVE StepsTo(c, o)
    BY <2>1, <2>2, GoesOn DEF GuardInv, StepsTo, StageOK
  <2> QED BY <1>1, <1>8, <2>1, <2>2 DEF ProbeNode, WorkerAt, Operations
<1> QED BY <1>2, <1>3, <1>4, <1>5, <1>6, <1>7, <1>8

\* The worker takes the slot down: each step that answers with success has done
\* its part, and one that does not makes the scan a failure.
LEMMA CleanupStage ==
    ASSUME GuardInv, CleanInv, NEW c \in Scans,
           StopOpenvpnOf(c) \/ RemoveRules(c) \/ RemoveNamespace(c)
    PROVE  \E outcomes \in Operations(c) : \E o \in outcomes : StepsTo(c, o)
<1>1. ASSUME NEW o, Dirty(c),
             machine' = [machine EXCEPT ![thread[c].slot] = o.rt]
      PROVE  StepsTo(c, o)
  <2>1. thread'[c].pc # "transport"
    BY <1>1, GoesOn DEF GuardInv
  <2> QED BY <1>1, <2>1, StageEarly DEF StepsTo, StageOK
<1>2. ASSUME thread[c].pc \in SlotPoints
      PROVE  There(c) \in Runtime /\ Tidy(There(c))
  BY <1>2 DEF GuardInv, MachinesOK, ThreadsOK, ThreadOK, There, CleanInv, TidySlots
<1>3. scan[c].slot # NoSlot => StageOK(thread[c], There(c))
  BY DEF CleanInv, StagesOK, OwnSlot, There
<1> USE DEF SlotPoints, ThreadPoints
<1>4. CASE StopOpenvpnOf(c)
  <2>1. PICK o \in OpenvpnStop(There(c)) :
            /\ machine' = [machine EXCEPT ![thread[c].slot] = o.rt]
            /\ IF o.ok THEN To(c, "remove") ELSE Dirty(c)
    BY <1>4 DEF StopOpenvpnOf, Work
  <2>2. o.ok => o.rt.vpn = NoNode
    BY <1>2, <1>4, OpenvpnStopLeaves DEF StopOpenvpnOf, WorkerAt
  <2>3. ASSUME o.ok PROVE StepsTo(c, o)
    BY <2>1, <2>2, <2>3, GoesOn DEF GuardInv, StepsTo, StageOK
  <2> QED BY <1>1, <2>1, <2>3 DEF Operations
<1>5. CASE RemoveRules(c)
  <2>1. PICK o \in KillswitchRemove(There(c)) :
            /\ machine' = [machine EXCEPT ![thread[c].slot] = o.rt]
            /\ IF o.ok THEN To(c, "delete") ELSE Dirty(c)
    BY <1>5 DEF RemoveRules, Work
  <2>2. o.ok => Bare(o.rt)
    BY <1>2, <1>5, KillswitchRemoveLeaves DEF RemoveRules, WorkerAt, Bare
  <2>3. ASSUME o.ok PROVE StepsTo(c, o)
    BY <2>1, <2>2, <2>3, GoesOn DEF GuardInv, StepsTo, StageOK
  <2> QED BY <1>1, <2>1, <2>3 DEF Operations
<1>6. CASE RemoveNamespace(c)
  <2>1. PICK o \in NamespaceDelete(There(c)) :
            /\ machine' = [machine EXCEPT ![thread[c].slot] = o.rt]
            /\ IF o.ok THEN To(c, "done") ELSE Dirty(c)
    BY <1>6 DEF RemoveNamespace, Work
  <2>2. Bare(There(c)) /\ o.ok => NothingButRules(o.rt)
    BY <1>2, <1>6, NamespaceDeleteLeaves DEF RemoveNamespace, WorkerAt, Bare
  <2>3. ASSUME o.ok PROVE StepsTo(c, o)
    <3>1. /\ OthersStay(c) /\ thread'[c].pc = "done"
          /\ thread'[c].result = thread[c].result
      BY <2>1, <2>3, GoesOn DEF GuardInv
    <3>2. scan[c].slot # NoSlot /\ thread[c].result = "SUCCEEDED" => Bare(There(c))
      BY <1>3, <1>6 DEF RemoveNamespace, WorkerAt, StageOK
    <3> QED BY <2>1, <2>2, <2>3, <3>1, <3>2 DEF StepsTo, StageOK
  <2> QED BY <1>1, <2>1, <2>3 DEF Operations
<1> QED BY <1>4, <1>5, <1>6

LEMMA WorkerClean ==
    ASSUME GuardInv, PoolInv, CleanInv, NEW c \in Scans, Worker(c)
    PROVE  CleanInv'
<1>1. CASE ~Transport(c) /\ ~Detached(c)
  <2>1. /\ thread[c].pc \in SlotPoints /\ UNCHANGED scan
        /\ \E outcomes \in Operations(c) : \E o \in outcomes : StepsTo(c, o)
    BY <1>1, SetupStage, CleanupStage, WorkerOperates DEF Worker, Operates
  <2>2. PICK outcomes \in Operations(c) : \E o \in outcomes : StepsTo(c, o)
    BY <2>1
  <2>3. PICK o \in outcomes : StepsTo(c, o)
    BY <2>2
  <2>4. o.rt \in Runtime /\ Tidy(o.rt) /\ ~o.rt.socks
    BY <2>1, SlotOperationsTidy
  <2> QED BY <2>1, <2>3, <2>4, CleanStep DEF StepsTo
<1>2. CASE Transport(c)
  <2>1. scan[c].slot = NoSlot /\ UNCHANGED <<machine, scan>>
    BY <1>2 DEF Transport, WorkerAt, CleanInv, OwnSlot
  <2>2. OthersStay(c) /\ thread'[c].pc = "done"
    BY <1>2, GoesOn DEF Transport, GuardInv
  <2> QED BY <2>1, <2>2, CleanKept DEF OthersStay, Live, ThreadPoints
<1>3. CASE Detached(c)
  <2>1. /\ scan[c].slot = NoSlot /\ UNCHANGED <<machine, scan>>
        /\ thread'[c].pc = "none"
        /\ \A d \in Scans : d # c => thread'[d] = thread[d]
    BY <1>3 DEF Detached, PoolInv, GuardInv, ThreadsOK, NoThread
  <2> QED BY <2>1, CleanKept DEF Live, ThreadPoints
<1> QED BY <1>1, <1>2, <1>3

LEMMA LeaveClean ==
    ASSUME GuardInv, CleanInv, NEW c \in Scans, Leave(c)
    PROVE  CleanInv'
<1>1. /\ UNCHANGED machine /\ scan'[c].slot = NoSlot
      /\ \A d \in Scans : d # c => scan'[d] = scan[d] /\ thread'[d] = thread[d]
      /\ Live(c)' => thread'[c] = thread[c]
  BY DEF Leave, GuardInv, CoroutinesOK, ThreadsOK, IdleScan, NoThread, Live,
         ThreadPoints
<1> QED BY <1>1, CleanKept

\* The slot that a scan takes is no worker's, and nothing has succeeded on it.
LEMMA AcquireClean ==
    ASSUME GuardInv, LineInv, PoolInv, ExclusiveInv, CleanInv,
           NEW c \in Scans, Acquire(c)
    PROVE  CleanInv'
<1>1. phase = "serving" /\ UNCHANGED machine
  BY DEF Acquire
<1>2. scan[c].slot = NoSlot /\ scan \in [Scans -> Scan] /\ thread \in [Scans -> Thread]
  BY AcquireWaits DEF LineInv, PoolInv, GuardInv, CoroutinesOK, ThreadsOK
<1>3. /\ \A d \in Scans : d # c => scan'[d] = scan[d] /\ thread'[d] = thread[d]
      /\ thread'[c].slot = scan'[c].slot /\ thread'[c].result = "FAILED"
      /\ \/ thread'[c].pc = "transport" /\ scan'[c].slot = NoSlot
         \/ /\ thread'[c].pc = "create" /\ free # <<>>
            /\ scan'[c].slot = Head(free)
  <2>1. CASE scan[c].kind = "fast"
    <3>1. /\ scan' = [scan EXCEPT ![c].pc = "shielded"]
          /\ thread' = [thread EXCEPT ![c] = [NoThread EXCEPT !.pc = "transport"]]
      BY <2>1 DEF Acquire
    <3>2. thread'[c].slot = NoSlot /\ thread'[c].result = "FAILED"
          /\ thread'[c].pc = "transport"
      BY <1>2, <3>1 DEF NoThread
    <3>3. scan'[c].slot = NoSlot
      BY <1>2, <3>1 DEF Scan
    <3> QED BY <1>2, <3>1, <3>2, <3>3
  <2>2. CASE scan[c].kind = "full"
    <3>1. /\ scan' = [scan EXCEPT ![c].pc = "shielded", ![c].slot = Head(free)]
          /\ thread' = [thread EXCEPT ![c] =
                           [NoThread EXCEPT !.pc = "create", !.slot = Head(free),
                                            !.node = scan[c].node]]
          /\ free # <<>>
      BY <2>2 DEF Acquire
    <3>2. thread'[c].slot = Head(free) /\ thread'[c].result = "FAILED"
          /\ thread'[c].pc = "create"
      BY <1>2, <3>1 DEF NoThread
    <3>3. scan'[c].slot = Head(free)
      BY <1>2, <3>1 DEF Scan
    <3> QED BY <1>2, <3>1, <3>2, <3>3
  <2> QED BY <1>2, <2>1, <2>2 DEF Scan
<1>4. ASSUME scan'[c].slot # NoSlot
      PROVE  \A d \in Scans : Live(d) => thread[d].slot # scan'[c].slot
  <2>1. free # <<>> /\ scan'[c].slot = Head(free)
    BY <1>3, <1>4
  <2>2. 1 \in 1..Len(free) /\ Head(free) = free[1]
    BY <2>1 DEF GuardInv
  <2> QED BY <1>1, <1>4, <2>1, <2>2 DEF ExclusiveInv, WorkersOfScans, NoSlotTwice
<1>5. TidySlots'
  BY <1>1 DEF CleanInv, TidySlots, Tidy, HasProcess
<1>6. OwnSlot'
  BY <1>3 DEF CleanInv, OwnSlot
<1>7. HeldAlone'
  <2>1. SUFFICES ASSUME NEW d \in Scans, NEW e \in Scans, Live(e)',
                        scan'[d].slot # NoSlot, thread'[e].slot = scan'[d].slot
                 PROVE  d = e
    BY DEF HeldAlone
  <2>2. CASE d = c /\ e # c
    BY <1>3, <1>4, <2>1, <2>2 DEF Live
  <2>3. CASE d # c /\ e = c
    <3>1. scan[d].slot = Head(free) /\ free # <<>>
      BY <1>3, <2>1, <2>3
    <3>2. 1 \in 1..Len(free) /\ Head(free) = free[1]
      BY <3>1 DEF GuardInv
    <3> QED BY <3>1, <3>2 DEF PoolInv, NoSlotTwice
  <2>4. CASE d # c /\ e # c
    BY <1>3, <2>1, <2>4 DEF CleanInv, HeldAlone, Live
  <2> QED BY <2>2, <2>3, <2>4
<1>8. StagesOK'
  <2>1. ASSUME NEW d \in Scans, scan'[d].slot # NoSlot
        PROVE  StageOK(thread'[d], machine[scan'[d].slot])
    BY <1>3, <2>1 DEF CleanInv, StagesOK, StageOK
  <2> QED BY <1>1, <2>1 DEF StagesOK, StageOK, Bare, HasProcess, NothingButRules
<1> QED BY <1>5, <1>6, <1>7, <1>8 DEF CleanInv

LEMMA CoroutineClean ==
    ASSUME GuardInv, LineInv, PoolInv, ExclusiveInv, CleanInv, NEW c \in Scans,
           RequestScan(c) \/ Coroutine(c) \/ TimeOut(c)
    PROVE  CleanInv'
<1>1. scan[c] \in Scan /\ scan \in [Scans -> Scan]
  BY DEF GuardInv, CoroutinesOK
<1>2. ASSUME UNCHANGED <<machine, thread>>, NEW x \in Scan, x.slot = NoSlot,
             scan' = [scan EXCEPT ![c] = x]
      PROVE  CleanInv'
  <2>1. \A d \in Scans : scan'[d].slot \in {scan[d].slot, NoSlot}
    BY <1>1, <1>2
  <2> QED BY <1>2, <2>1, CleanKept
<1>3. ASSUME UNCHANGED <<machine, thread>>, NEW p, scan' = [scan EXCEPT ![c].pc = p]
      PROVE  CleanInv'
  <2>1. \A d \in Scans : scan'[d].slot = scan[d].slot
    BY <1>1, <1>3 DEF Scan
  <2> QED BY <1>3, <2>1, CleanKept
<1>4. CASE RequestScan(c)
  <2>1. PICK k \in {"fast", "full"}, n \in Nodes :
            scan' = [scan EXCEPT ![c] =
                        [IdleScan EXCEPT !.pc = "permit", !.kind = k, !.node = n]]
    BY <1>4 DEF RequestScan
  <2> DEFINE x == [IdleScan EXCEPT !.pc = "permit", !.kind = k, !.node = n]
  <2>2. x \in Scan /\ x.slot = NoSlot
    BY DEF IdleScan, Scan
  <2>3. UNCHANGED <<machine, thread>> /\ scan' = [scan EXCEPT ![c] = x]
    BY <1>4, <2>1 DEF RequestScan
  <2> HIDE DEF x
  <2> QED BY <1>2, <2>2, <2>3
<1>5. CASE Acquire(c)
  BY <1>5, AcquireClean
<1>6. CASE Finish(c)
  BY <1>6, LeaveClean DEF Finish
<1>7. CASE TimeOut(c)
  BY <1>3, <1>7, LeaveClean DEF TimeOut
<1>8. CASE CancelScan(c)
  <2>1. CASE scan[c].pc = "permit"
    <3>1. IdleScan \in Scan /\ IdleScan.slot = NoSlot
      BY DEF IdleScan, Scan
    <3>2. UNCHANGED <<machine, thread>> /\ scan' = [scan EXCEPT ![c] = IdleScan]
      BY <1>8, <2>1 DEF CancelScan
    <3> QED BY <1>2, <3>1, <3>2
  <2>2. CASE scan[c].pc = "shielded"
    BY <1>3, <1>8, <2>2 DEF CancelScan
  <2>3. CASE scan[c].pc \in {"drain", "cancel"}
    BY <1>8, <2>3, LeaveClean DEF CancelScan
  <2> QED BY <1>8, <2>1, <2>2, <2>3 DEF CancelScan
<1> QED BY <1>4, <1>5, <1>6, <1>7, <1>8 DEF Coroutine

\* An OpenVPN that exits leaves no slot less clean than it was.
LEMMA ServiceClean ==
    ASSUME GuardInv, CleanInv,
           \/ \E s \in Slots : OpenvpnOfSlotExits(s)
           \/ Shutdown \/ Exit \/ Kill \/ Boot
    PROVE  CleanInv'
<1>1. machine \in [Slots -> Runtime]
  BY DEF GuardInv, MachinesOK
<1>2. \A s \in Slots : Tidy(WithoutVpn(machine[s])) /\ ~WithoutVpn(machine[s]).socks
  <2>1. ASSUME NEW s \in Slots
        PROVE  Tidy(WithoutVpn(machine[s])) /\ ~WithoutVpn(machine[s]).socks
    <3>1. machine[s] \in Runtime /\ Tidy(machine[s]) /\ ~machine[s].socks
      BY <1>1 DEF CleanInv, TidySlots
    <3> QED BY <3>1, WithoutVpnLawful DEF Lawful
  <2> QED BY <2>1
<1>3. CASE \E s \in Slots : OpenvpnOfSlotExits(s)
  <2>1. PICK s \in Slots : OpenvpnOfSlotExits(s)
    BY <1>3
  <2>2. /\ machine[s].vpn # NoNode /\ UNCHANGED <<scan, thread>>
        /\ machine'[s] = WithoutVpn(machine[s])
        /\ \A r \in Slots : r # s => machine'[r] = machine[r]
    BY <1>1, <2>1 DEF OpenvpnOfSlotExits
  <2>3. TidySlots'
    BY <1>2, <2>2 DEF CleanInv, TidySlots, Tidy, HasProcess
  <2>4. OwnSlot' /\ HeldAlone'
    BY <2>2 DEF CleanInv, OwnSlot, HeldAlone, Live
  <2>5. ASSUME NEW c \in Scans, scan[c].slot # NoSlot
        PROVE  StageOK(thread[c], machine'[scan[c].slot])
    <3>1. StageOK(thread[c], machine[scan[c].slot]) /\ scan[c].slot \in Slots
      BY <2>5 DEF CleanInv, StagesOK, GuardInv, CoroutinesOK, Scan
    <3>2. CASE scan[c].slot = s
      <4>1. NothingButRules(machine[s]) => machine[s].vpn = NoNode
        BY DEF NothingButRules, CleanRuntime
      <4>2. thread[c].result = "SUCCEEDED" => thread[c].pc = "stop"
        BY <2>2, <3>1, <3>2, <4>1 DEF StageOK, Bare, HasProcess
      <4> QED BY <4>2 DEF StageOK
    <3>3. CASE scan[c].slot # s
      BY <2>2, <3>1, <3>3
    <3> QED BY <3>2, <3>3
  <2>6. StagesOK'
    BY <2>2, <2>5 DEF StagesOK, StageOK, Bare, HasProcess, NothingButRules
  <2> QED BY <2>3, <2>4, <2>6 DEF CleanInv
<1>4. CASE Shutdown \/ Exit \/ Boot
  BY <1>4, CleanKept DEF Shutdown, Exit, Boot
<1>5. CASE Kill
  <2>1. /\ \A c \in Scans : scan'[c].slot = NoSlot /\ thread'[c].pc = "none"
        /\ \A s \in Slots : machine'[s] \in {machine[s], WithoutVpn(machine[s])}
    BY <1>5 DEF Kill, IdleScan, NoThread
  <2>2. TidySlots'
    BY <1>2, <2>1 DEF CleanInv, TidySlots, Tidy, HasProcess
  <2> QED BY <2>1, <2>2
          DEF CleanInv, OwnSlot, HeldAlone, StagesOK, Live, ThreadPoints
<1> QED BY <1>3, <1>4, <1>5

LEMMA InitClean == ScanInit => CleanInv
BY DEF ScanInit, CleanInv, TidySlots, OwnSlot, HeldAlone, StagesOK, Tidy,
       HasProcess, CleanRuntime, IdleScan, NoThread, Live, ThreadPoints

LEMMA NextClean ==
    GuardInv /\ LineInv /\ PoolInv /\ ExclusiveInv /\ CleanInv
    /\ [ScanNext]_scanVars => CleanInv'
<1> SUFFICES ASSUME GuardInv, LineInv, PoolInv, ExclusiveInv, CleanInv,
                    [ScanNext]_scanVars
             PROVE  CleanInv'
  OBVIOUS
<1>1. CASE ScanNext
  BY <1>1, CoroutineClean, WorkerClean, ServiceClean DEF ScanNext
<1>2. CASE UNCHANGED scanVars
  BY <1>2, CleanKept DEF scanVars
<1> QED BY <1>1, <1>2

\* Where a time limit waits for the operation, a full scan that reports success
\* has left nothing in its slot: not of its own, nor of a scan before it, whatever
\* step of its cleanup may fail, but for host rules that a helper could not list
\* (full.py, _cleanup).
THEOREM SuccessLeavesNothing ==
    ASSUME BuiltinTimeout
    PROVE  ScanSpec => []SuccessIsClean
<1>1. CleanInv => SuccessIsClean
  BY DEF CleanInv, StagesOK, StageOK, SuccessIsClean
<1> DEFINE Inv == GuardInv /\ LineInv /\ PoolInv /\ ExclusiveInv /\ CleanInv
<1>2. Inv /\ [ScanNext]_scanVars => Inv'
  BY NextClean, NextPool, NextWaits, NextExclusive, ScanNextSound
<1>3. ScanInit => Inv
  BY InitGuardInv, InitWaits, InitPool, InitExclusive, InitClean
<1>4. Inv => CleanInv
  OBVIOUS
<1> HIDE DEF Inv
<1> QED BY <1>1, <1>2, <1>3, <1>4, PTL DEF ScanSpec
=============================================================================

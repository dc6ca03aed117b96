----------------------------- MODULE BatchScan -----------------------------
(***************************************************************************)
(* A batch of scans (services/scanning/batch.py): one task row, one        *)
(* coroutine per node that scans and then records its result in the row,   *)
(* and a coroutine that gathers them and ends the task.                    *)
(*                                                                         *)
(* gather ends with the first member that raises or is cancelled; the      *)
(* other members go on.  The event loop lets the gatherer know of the end  *)
(* of its members in a step of its own.                                    *)
(***************************************************************************)
EXTENDS Naturals, FiniteSets

CONSTANTS
    Members   \* the nodes of the batch

ASSUME MembersAssumption == Members # {} /\ IsFiniteSet(Members)

VARIABLES
    phase,    \* of the service
    task,     \* the row: its status and its result
    batch,    \* the coroutine _run
    member,   \* per node: where its coroutine _scan_one is
    refused   \* the database has refused a commit (history)

batchVars == <<phase, task, batch, member, refused>>

Final == {"SUCCEEDED", "FAILED", "CANCELLED"}

Task ==
    [status: {"none", "PENDING", "RUNNING"} \cup Final,
     items: SUBSET Members, completed: Nat, succeeded: Nat, failed: Nat]

NoTask ==
    [status |-> "none", items |-> {},
     completed |-> 0, succeeded |-> 0, failed |-> 0]

\* raised and cancelled are ends that the gatherer has to deal with.
MemberPoints ==
    {"idle", "fresh", "scan", "cancelling", "done", "raised", "cancelled"}

BatchTypeOK ==
    /\ phase \in {"serving", "stopping", "down"}
    /\ task \in Task
    /\ batch \in {"none", "created", "gather", "interrupted"}
    /\ member \in [Members -> MemberPoints]
    /\ refused \in BOOLEAN

BatchInit ==
    /\ phase = "serving"
    /\ task = NoTask
    /\ batch = "none"
    /\ member = [n \in Members |-> "idle"]
    /\ refused = FALSE

MoveMember(n, point) == member' = [member EXCEPT ![n] = point]

\* The row is committed, or the database refuses and the row stays.
Accepted(row) == task' = row /\ UNCHANGED refused
Refused == refused' = TRUE /\ UNCHANGED task

-----------------------------------------------------------------------------
\* BatchScanTaskService.start and the beginning of _run.

StartBatch ==
    /\ phase = "serving"
    /\ task.status = "none"
    /\ task' = [NoTask EXCEPT !.status = "PENDING"]
    /\ batch' = "created"
    /\ UNCHANGED <<phase, member, refused>>

\* A refusal here ends _run, before it catches anything.
RunBatch ==
    /\ batch = "created"
    /\ UNCHANGED phase
    /\ \/ /\ Accepted([task EXCEPT !.status = "RUNNING"])
          /\ batch' = "gather"
          /\ member' = [n \in Members |-> "fresh"]
       \/ /\ Refused
          /\ batch' = "none"
          /\ UNCHANGED member

-----------------------------------------------------------------------------
\* _scan_one

BeginScan(n) ==
    /\ member[n] = "fresh"
    /\ MoveMember(n, "scan")
    /\ UNCHANGED <<phase, task, batch, refused>>

\* A result written over what the batch started with (for the mutants).
AddedToStale(n, ok) ==
    [task EXCEPT !.items = {n}, !.completed = 1,
                 !.succeeded = IF ok THEN 1 ELSE 0,
                 !.failed = IF ok THEN 0 ELSE 1]

\* The row with the result of node n added to it.
Added(n, ok) ==
    [task EXCEPT !.items = @ \cup {n},
                 !.completed = Cardinality(task.items \cup {n}),
                 !.succeeded = @ + (IF ok THEN 1 ELSE 0),
                 !.failed = @ + (IF ok THEN 0 ELSE 1)]

\* The scan ends or raises, or the node is gone; its result is recorded under
\* the progress lock, without an await since the scan ended.
RecordResult(n) ==
    /\ UNCHANGED <<phase, batch>>
    /\ \E ok \in BOOLEAN :
           /\ member[n] = "scan" \/ (member[n] = "fresh" /\ ~ok)
           /\ \/ Accepted(Added(n, ok)) /\ MoveMember(n, "done")
              \/ Refused /\ MoveMember(n, "raised")

\* A cancelled scan waits for its operation first, and records nothing here.
ScanCancelled(n) ==
    /\ member[n] = "cancelling"
    /\ MoveMember(n, "cancelled")
    /\ UNCHANGED <<phase, task, batch, refused>>

-----------------------------------------------------------------------------
\* The rest of _run.

Some(point) == \E n \in Members : member[n] = point
AllDone == \A n \in Members : member[n] = "done"

EndBatch(status) ==
    /\ Accepted([task EXCEPT !.status = status]) \/ Refused
    /\ batch' = "none"
    /\ UNCHANGED <<phase, member>>

Gathered ==
    /\ batch = "gather" /\ AllDone
    /\ EndBatch("SUCCEEDED")

GatherRaised ==
    /\ batch = "gather" /\ Some("raised")
    /\ EndBatch("FAILED")

\* An end under a status of its own (for the mutants).
GatherInterrupted ==
    /\ \/ batch = "gather" /\ Some("cancelled")
       \/ batch = "interrupted"
    /\ EndBatch("INTERRUPTED")

\* The first member that ends cancelled ends the gathering.
GatherCancelled ==
    /\ \/ batch = "gather" /\ Some("cancelled")
       \/ batch = "interrupted"
    /\ EndBatch("CANCELLED")

-----------------------------------------------------------------------------
\* The service.

\* stop() cancels _run.  Before its first step nothing of it will run; while it
\* gathers, the members are cancelled; if the gathering is over, _run itself is.
StopService ==
    /\ phase = "serving"
    /\ phase' = "stopping"
    /\ batch' = CASE batch = "created" -> "none"
                  [] batch = "gather" /\ (AllDone \/ Some("raised")) -> "interrupted"
                  [] OTHER -> batch
    /\ member' = IF batch = "gather" /\ batch' = "gather"
                 THEN [n \in Members |->
                          CASE member[n] = "fresh" -> "cancelled"
                            [] member[n] = "scan" -> "cancelling"
                            [] OTHER -> member[n]]
                 ELSE member
    /\ UNCHANGED <<task, refused>>

\* The process ends: at any time, or after a stop when _run is done.
EndService ==
    /\ phase # "down"
    /\ phase' = "down"
    /\ batch' = "none"
    /\ member' = [n \in Members |-> "idle"]
    /\ UNCHANGED <<task, refused>>

\* A recovery that knows running batches only (for the mutants).
BootRunningOnly ==
    /\ phase = "down"
    /\ phase' = "serving"
    /\ task' = [task EXCEPT !.status = IF @ = "RUNNING" THEN "CANCELLED" ELSE @]
    /\ UNCHANGED <<batch, member, refused>>

\* A recovery that cancels every batch (for the mutants).
BootAll ==
    /\ phase = "down"
    /\ phase' = "serving"
    /\ task' = [task EXCEPT !.status = IF @ = "none" THEN @ ELSE "CANCELLED"]
    /\ UNCHANGED <<batch, member, refused>>

\* recover_interrupted, in the lifespan of main.py.
BootService ==
    /\ phase = "down"
    /\ phase' = "serving"
    /\ task' = [task EXCEPT !.status =
                   IF @ \in {"PENDING", "RUNNING"} THEN "CANCELLED" ELSE @]
    /\ UNCHANGED <<batch, member, refused>>

-----------------------------------------------------------------------------
ScanOne(n) == BeginScan(n) \/ RecordResult(n) \/ ScanCancelled(n)

Run == RunBatch \/ Gathered \/ GatherRaised \/ GatherCancelled

BatchNext ==
    \/ StartBatch \/ Run
    \/ \E n \in Members : ScanOne(n)
    \/ StopService \/ EndService \/ BootService

BatchSpec == BatchInit /\ [][BatchNext]_batchVars

\* Coroutines that may run do, and a service that stops goes down and is
\* started again (Restart=on-failure, or the operator).
FairBatchSpec ==
    /\ BatchSpec
    /\ WF_batchVars(Run)
    /\ \A n \in Members : WF_batchVars(ScanOne(n))
    /\ WF_batchVars(phase = "stopping" /\ EndService)
    /\ WF_batchVars(BootService)

-----------------------------------------------------------------------------
\* Properties.

\* A batch that says SUCCEEDED has the result of every node, and its counts
\* agree with them, in whatever order the scans end (batch.py, _record_result
\* and the gather of _run).
SuccessAccountsForAll ==
    task.status = "SUCCEEDED" =>
        /\ task.items = Members
        /\ task.completed = Cardinality(Members)
        /\ task.succeeded + task.failed = task.completed

\* The end of a batch is final: neither members that go on after it, nor a stop
\* of the service, nor a restart change how it ended (batch.py, _run,
\* recover_interrupted).
FinalStays ==
    [][task.status \in Final => task'.status = task.status]_batchVars

\* While the database accepts what it is given, a batch that was started ends,
\* whether its scans end, are cancelled, or the service ends at any point.
BatchEnds ==
    task.status \in {"PENDING", "RUNNING"} ~> task.status \in Final \/ refused
=============================================================================

-------------------------- MODULE BatchScanProofs --------------------------
(***************************************************************************)
(* For batches of any size: a success accounts for each node of the batch, *)
(* and the end of a batch stays as it is.                                  *)
(*                                                                         *)
(* Each member records once, for it leaves its scan with the record; so    *)
(* the counts grow with the set of recorded nodes.  And the coroutine that *)
(* ends the batch is gone with the end it commits.                         *)
(***************************************************************************)
EXTENDS BatchScan, FiniteSetTheorems, TLAPS

\* The counts of a row agree with the nodes that it names.
Counted(row) ==
    /\ IsFiniteSet(row.items)
    /\ row.completed = Cardinality(row.items)
    /\ row.succeeded + row.failed = row.completed

\* Who has recorded a result, and who may still do so.
Recorded ==
    \A n \in Members : /\ member[n] \in {"fresh", "scan"} =>
                              n \notin task.items /\ task.status \notin {"none", "PENDING"}
                       /\ member[n] = "done" => n \in task.items

\* The coroutine of the batch lives only while the row has no end.
Gatherer ==
    /\ batch = "created" => task.status = "PENDING"
    /\ batch \in {"gather", "interrupted"} => task.status = "RUNNING"
    /\ task.status \in {"none", "PENDING"} => task.items = {}
    /\ phase = "down" => batch = "none"

BatchInv ==
    /\ BatchTypeOK
    /\ Counted(task)
    /\ Recorded
    /\ Gatherer
    /\ task.status = "SUCCEEDED" => task.items = Members

LEMMA EmptyRowCounted == NoTask \in Task /\ Counted(NoTask)
BY FS_EmptySet DEF NoTask, Task, Counted

\* A new status changes nothing of what the row counts.
LEMMA StatusOnly ==
    ASSUME NEW row \in Task, NEW status \in {"none", "PENDING", "RUNNING"} \cup Final
    PROVE  LET new == [row EXCEPT !.status = status]
           IN  /\ new \in Task /\ new.status = status /\ new.items = row.items
               /\ Counted(row) => Counted(new)
BY DEF Task, Counted

\* A result of a node that has none yet is counted once.
LEMMA ResultCounted ==
    ASSUME task \in Task, Counted(task), NEW n \in Members, n \notin task.items,
           NEW ok \in BOOLEAN
    PROVE  /\ Added(n, ok) \in Task /\ Counted(Added(n, ok))
           /\ Added(n, ok).items = task.items \cup {n}
           /\ Added(n, ok).status = task.status
<1>1. /\ task.completed \in Nat /\ task.succeeded \in Nat /\ task.failed \in Nat
      /\ task.items \subseteq Members
  BY DEF Task
<1>2. /\ IsFiniteSet(task.items \cup {n})
      /\ Cardinality(task.items \cup {n}) = task.completed + 1
  BY FS_AddElement DEF Counted
<1> DEFINE good == IF ok THEN 1 ELSE 0
           bad == IF ok THEN 0 ELSE 1
<1>3. good \in Nat /\ bad \in Nat /\ good + bad = 1
  OBVIOUS
<1>4. Added(n, ok) = [task EXCEPT !.items = task.items \cup {n},
                                  !.completed = task.completed + 1,
                                  !.succeeded = task.succeeded + good,
                                  !.failed = task.failed + bad]
  BY <1>2 DEF Added
<1> HIDE DEF good, bad
<1>5. /\ task.succeeded + good \in Nat /\ task.failed + bad \in Nat
      /\ (task.succeeded + good) + (task.failed + bad) = task.completed + 1
      /\ task.completed + 1 \in Nat /\ task.items \cup {n} \subseteq Members
  BY <1>1, <1>3 DEF Counted
<1>6. /\ Added(n, ok).items = task.items \cup {n} /\ Added(n, ok).status = task.status
      /\ Added(n, ok).completed = task.completed + 1
      /\ Added(n, ok).succeeded = task.succeeded + good
      /\ Added(n, ok).failed = task.failed + bad
  BY <1>4 DEF Task
<1>7. Added(n, ok) \in Task
  BY <1>4, <1>5 DEF Task
<1> QED
  BY <1>2, <1>5, <1>6, <1>7 DEF Counted

-----------------------------------------------------------------------------
\* The steps.

LEMMA BatchInitSound == BatchInit => BatchInv
<1>1. NoTask.status = "none" /\ NoTask.items = {}
  BY DEF NoTask
<1> QED
  BY <1>1, EmptyRowCounted
     DEF BatchInit, BatchInv, BatchTypeOK, Recorded, Gatherer, MemberPoints, Final

\* What each step does to an end that the batch has come to.
EndStays == task.status \in Final => task'.status = task.status

LEMMA RunSound ==
    ASSUME BatchInv, StartBatch \/ RunBatch
    PROVE  BatchInv' /\ EndStays
<1>1. CASE StartBatch
  <2>1. /\ task' \in Task /\ Counted(task') /\ task'.status = "PENDING" /\ task'.items = {}
    BY <1>1, EmptyRowCounted, StatusOnly DEF StartBatch, NoTask
  <2>2. \A n \in Members : member[n] # "done" \/ n \in task.items
    BY DEF BatchInv, Recorded
  <2>3. task.items = {}
    BY <1>1 DEF StartBatch, BatchInv, Gatherer
  <2> QED
    BY <1>1, <2>1, <2>2, <2>3
       DEF StartBatch, BatchInv, BatchTypeOK, Recorded, Gatherer, EndStays, Final, Counted
<1>2. CASE RunBatch
  <2>1. task.status = "PENDING" /\ task.items = {} /\ batch = "created" /\ phase' = phase
    BY <1>2 DEF RunBatch, BatchInv, Gatherer
  <2>2. CASE /\ Accepted([task EXCEPT !.status = "RUNNING"]) /\ batch' = "gather"
             /\ member' = [n \in Members |-> "fresh"]
    <3>1. /\ task' \in Task /\ Counted(task') /\ task'.status = "RUNNING"
          /\ task'.items = task.items
      BY <2>2, StatusOnly DEF Accepted, BatchInv, BatchTypeOK
    <3> QED
      BY <2>1, <2>2, <3>1
         DEF BatchInv, BatchTypeOK, Recorded, Gatherer, EndStays, Final, Counted, MemberPoints,
             Accepted
  <2>3. CASE Refused /\ batch' = "none" /\ UNCHANGED member
    BY <2>1, <2>3
       DEF BatchInv, BatchTypeOK, Recorded, Gatherer, EndStays, Counted, Refused
  <2> QED
    BY <1>2, <2>2, <2>3 DEF RunBatch
<1> QED
  BY <1>1, <1>2

LEMMA MemberSound ==
    ASSUME BatchInv, NEW n \in Members, ScanOne(n)
    PROVE  BatchInv' /\ EndStays
<1>1. CASE BeginScan(n) \/ ScanCancelled(n)
  BY <1>1
     DEF BeginScan, ScanCancelled, MoveMember, BatchInv, BatchTypeOK, Recorded, Gatherer,
         EndStays, Counted, MemberPoints
<1>2. CASE RecordResult(n)
  <2>1. PICK ok \in BOOLEAN :
            /\ member[n] \in {"fresh", "scan"}
            /\ \/ Accepted(Added(n, ok)) /\ MoveMember(n, "done")
               \/ Refused /\ MoveMember(n, "raised")
    BY <1>2 DEF RecordResult
  <2>2. n \notin task.items /\ UNCHANGED <<phase, batch>> /\ task.status # "SUCCEEDED"
    BY <1>2, <2>1 DEF BatchInv, Recorded, RecordResult
  <2>3. CASE Accepted(Added(n, ok)) /\ MoveMember(n, "done")
    <3>1. /\ task' \in Task /\ Counted(task') /\ task'.items = task.items \cup {n}
          /\ task'.status = task.status
      BY <2>2, <2>3, ResultCounted DEF Accepted, BatchInv, BatchTypeOK
    <3>2. task.status \notin {"none", "PENDING"}
      BY <2>1 DEF BatchInv, Recorded
    <3> QED
      BY <2>1, <2>2, <2>3, <3>1, <3>2
         DEF BatchInv, BatchTypeOK, Recorded, Gatherer, EndStays, Counted, MemberPoints,
             Accepted, MoveMember
  <2>4. CASE Refused /\ MoveMember(n, "raised")
    BY <2>2, <2>4
       DEF BatchInv, BatchTypeOK, Recorded, Gatherer, EndStays, Counted, MemberPoints,
           Refused, MoveMember
  <2> QED
    BY <2>1, <2>3, <2>4
<1> QED
  BY <1>1, <1>2 DEF ScanOne

LEMMA EndSound ==
    ASSUME BatchInv, Gathered \/ GatherRaised \/ GatherCancelled
    PROVE  BatchInv' /\ EndStays
<1>1. PICK status \in Final : /\ EndBatch(status)
                              /\ status = "SUCCEEDED" => Gathered
  BY DEF Gathered, GatherRaised, GatherCancelled, Final
<1>2. task.status = "RUNNING"
  BY DEF Gathered, GatherRaised, GatherCancelled, BatchInv, Gatherer
<1>3. status = "SUCCEEDED" => task.items = Members
  BY <1>1 DEF Gathered, AllDone, BatchInv, BatchTypeOK, Recorded, Task
<1>4. CASE Accepted([task EXCEPT !.status = status])
  <2>1. /\ task' \in Task /\ Counted(task') /\ task'.status = status
        /\ task'.items = task.items
    BY <1>4, StatusOnly DEF Accepted, BatchInv, BatchTypeOK
  <2> QED
    BY <1>1, <1>2, <1>3, <1>4, <2>1
       DEF BatchInv, BatchTypeOK, Recorded, Gatherer, EndStays, Counted, EndBatch, Accepted,
           Final
<1>5. CASE Refused
  BY <1>1, <1>2, <1>5
     DEF BatchInv, BatchTypeOK, Recorded, Gatherer, EndStays, Counted, EndBatch, Refused
<1> QED
  BY <1>1, <1>4, <1>5 DEF EndBatch

LEMMA ServiceSound ==
    ASSUME BatchInv, StopService \/ EndService \/ BootService
    PROVE  BatchInv' /\ EndStays
<1>1. CASE StopService
  <2>1. /\ batch' \in {"none", "gather", "interrupted", batch}
        /\ batch' \in {"gather", "interrupted"} => batch \in {"gather", "interrupted"}
        /\ batch' = "created" => batch = "created"
    BY <1>1 DEF StopService
  <2>2. /\ member' \in [Members -> MemberPoints]
        /\ \A n \in Members : /\ member'[n] \in {"fresh", "scan", "done"} =>
                                     member'[n] = member[n]
    BY <1>1 DEF StopService, BatchInv, BatchTypeOK, MemberPoints
  <2> QED
    BY <1>1, <2>1, <2>2
       DEF StopService, BatchInv, BatchTypeOK, Recorded, Gatherer, EndStays, Counted
<1>2. CASE EndService
  BY <1>2
     DEF EndService, BatchInv, BatchTypeOK, Recorded, Gatherer, EndStays, Counted, MemberPoints
<1>3. CASE BootService
  <2>1. PICK status \in {"none", "PENDING", "RUNNING"} \cup Final :
            /\ task' = [task EXCEPT !.status = status]
            /\ status = IF task.status \in {"PENDING", "RUNNING"} THEN "CANCELLED"
                        ELSE task.status
    BY <1>3 DEF BootService, BatchInv, BatchTypeOK, Task, Final
  <2>2. /\ task' \in Task /\ Counted(task') /\ task'.status = status
        /\ task'.items = task.items
    BY <2>1, StatusOnly DEF BatchInv, BatchTypeOK
  <2> QED
    BY <1>3, <2>1, <2>2
       DEF BootService, BatchInv, BatchTypeOK, Recorded, Gatherer, EndStays, Counted, Final
<1> QED
  BY <1>1, <1>2, <1>3

LEMMA BatchNextSound == ASSUME BatchInv, [BatchNext]_batchVars PROVE BatchInv' /\ EndStays
<1>1. CASE UNCHANGED batchVars
  BY <1>1 DEF batchVars, BatchInv, BatchTypeOK, Counted, Recorded, Gatherer, EndStays
<1>2. CASE StartBatch \/ RunBatch
  BY <1>2, RunSound
<1>3. CASE Gathered \/ GatherRaised \/ GatherCancelled
  BY <1>3, EndSound
<1>4. ASSUME NEW n \in Members, ScanOne(n) PROVE BatchInv' /\ EndStays
  BY <1>4, MemberSound
<1>5. CASE StopService \/ EndService \/ BootService
  BY <1>5, ServiceSound
<1> QED
  BY <1>1, <1>2, <1>3, <1>4, <1>5 DEF BatchNext, Run

LEMMA BatchInvariant == BatchSpec => []BatchInv
<1>1. BatchInv /\ [BatchNext]_batchVars => BatchInv'
  BY BatchNextSound
<1> QED
  BY BatchInitSound, <1>1, PTL DEF BatchSpec

-----------------------------------------------------------------------------
\* The theorems.

\* The row, the coroutine and its members keep their types.
THEOREM BatchTypeCorrect == BatchSpec => []BatchTypeOK
<1>1. BatchInv => BatchTypeOK
  BY DEF BatchInv
<1> QED
  BY BatchInvariant, <1>1, PTL

\* A batch of any size that says SUCCEEDED has recorded each of its nodes, once
\* (_record_result under the progress lock, and the end of _run).
THEOREM SuccessIsComplete == BatchSpec => []SuccessAccountsForAll
<1>1. BatchInv => SuccessAccountsForAll
  BY DEF BatchInv, Counted, SuccessAccountsForAll
<1> QED
  BY BatchInvariant, <1>1, PTL

\* What has ended stays ended as it did: no member that goes on, no stop of the
\* service and no recovery writes another status (_run, recover_interrupted).
THEOREM EndIsFinal == BatchSpec => FinalStays
<1> DEFINE Stays == task.status \in Final => task'.status = task.status
<1>1. BatchInv /\ [BatchNext]_batchVars => [Stays]_batchVars
  BY BatchNextSound DEF EndStays
<1> QED
  BY BatchInvariant, <1>1, PTL DEF BatchSpec, FinalStays
=============================================================================

----------------------- MODULE HelperProcessesProofs -----------------------
(***************************************************************************)
(* For any number of helpers, nodes and process ids: as long as no start   *)
(* runs beside another helper, no overlap of the others takes the kill     *)
(* switch from a process.                                                  *)
(*                                                                         *)
(* The invariant follows the code's own argument.  A helper that is about  *)
(* to take rules, a state file or a pid file away has seen that no process *)
(* lives, and only a start makes one; a start that is alone still has what *)
(* it saw of the kill switch when it spawns.                               *)
(*                                                                         *)
(* The second half is about a helper that runs alone: whatever of it fails,*)
(* a look for rules included, and wherever it is killed, it has done what  *)
(* RootHelper says in a step.                                              *)
(* The invariant there says place by place how far the machine is from the *)
(* one at the call.                                                        *)
(***************************************************************************)
EXTENDS HelperProcesses, TLAPS

-----------------------------------------------------------------------------
\* Types.

\* What TypeOK says of a helper beside its type.
Placed(r) ==
    /\ r.at \in PlacesOf[r.op]
    /\ r.op \in {"apply", "start"} => r.node \in Nodes

\* A helper that goes to another place of its operation, or that exits, keeps its type.
LEMMA MovesTyped ==
    ASSUME TypeOK, NEW h \in Helpers
    PROVE  /\ \A place \in PlacesOf[helper[h].op] : Goto(h, place) =>
                 /\ helper' \in [Helpers -> Helper]
                 /\ \A g \in Helpers : Placed(helper'[g])
                 /\ overlapped' \in BOOLEAN /\ startRaced' \in BOOLEAN
           /\ \A ok \in BOOLEAN : Exit(h, ok) =>
                 /\ helper' \in [Helpers -> Helper]
                 /\ \A g \in Helpers : Placed(helper'[g])
                 /\ overlapped' \in BOOLEAN /\ startRaced' \in BOOLEAN
<1>1. ASSUME NEW place \in PlacesOf[helper[h].op], Goto(h, place)
      PROVE  /\ helper' \in [Helpers -> Helper]
             /\ \A g \in Helpers : Placed(helper'[g])
             /\ overlapped' \in BOOLEAN /\ startRaced' \in BOOLEAN
  <2>1. helper[h] \in Helper /\ helper[h].op \in Operations \cup {"none"}
    BY DEF TypeOK, Helper
  <2>2. place \in UNION {PlacesOf[op] : op \in Operations \cup {"none"}}
    BY <1>1, <2>1
  <2>3. [helper[h] EXCEPT !.at = place] \in Helper
    BY <2>1, <2>2 DEF Helper
  <2>4. helper' = [helper EXCEPT ![h] = [helper[h] EXCEPT !.at = place]]
    BY <1>1 DEF Goto
  <2>5. [helper[h] EXCEPT !.at = place].op = helper[h].op
        /\ [helper[h] EXCEPT !.at = place].at = place
        /\ [helper[h] EXCEPT !.at = place].node = helper[h].node
    BY <2>1 DEF Helper
  <2> QED
    BY <1>1, <2>3, <2>4, <2>5 DEF Goto, TypeOK, Placed
<1>2. ASSUME NEW ok \in BOOLEAN, Exit(h, ok)
      PROVE  /\ helper' \in [Helpers -> Helper]
             /\ \A g \in Helpers : Placed(helper'[g])
             /\ overlapped' \in BOOLEAN /\ startRaced' \in BOOLEAN
  <2> DEFINE rest == [Idle EXCEPT !.ok = ok]
  <2>1. "idle" \in PlacesOf["none"]
    BY DEF PlacesOf
  <2>2. "idle" \in UNION {PlacesOf[op] : op \in Operations \cup {"none"}}
    BY <2>1
  <2>3. CleanRuntime \in Runtime
    BY DEF CleanRuntime, Runtime
  <2>4. rest \in Helper /\ rest.op = "none" /\ rest.at = "idle"
    BY <2>2, <2>3 DEF Idle, Helper
  <2>5. helper' = [helper EXCEPT ![h] = rest]
    BY <1>2 DEF Exit
  <2> HIDE DEF rest
  <2> QED
    BY <1>2, <2>1, <2>4, <2>5 DEF Exit, TypeOK, Placed
<1> QED
  BY <1>1, <1>2

\* Ending a process, taking the name away and a cleanup keep a machine a machine.
LEMMA MachinesTyped ==
    ASSUME TypeOK
    PROVE  /\ \A p \in Pids \cup {NoPid} : Killed(p) \in Machine
           /\ Unnamed \in Machine
           /\ \A c \in Cleaned : c \in Machine
<1>1. m \in Machine /\ Dead \in [node: Nodes \cup {NoNode}, home: BOOLEAN]
  BY DEF TypeOK, Dead
<1>2. \A p \in Pids \cup {NoPid} : Killed(p) \in Machine
  BY <1>1 DEF Killed, Machine
<1>3. [p \in Pids |-> [m.vpn[p] EXCEPT !.home = FALSE]]
        \in [Pids -> [node: Nodes \cup {NoNode}, home: BOOLEAN]]
  BY <1>1 DEF Machine
<1>4. Unnamed \in Machine
  BY <1>1, <1>3 DEF Unnamed, Machine
<1>5. \A r \in {{}, m.hostRules}, k \in {{}, m.nsRules} :
          [m EXCEPT !.hostRules = r, !.nsRules = k] \in Machine
  BY <1>1 DEF Machine
<1>6. \A c \in Cleaned : c \in Machine
  BY <1>5 DEF Cleaned
<1> QED
  BY <1>2, <1>4, <1>6

\* Where the steps of an operation lead stays within the operation.
LEMMA PlacesFollow ==
    ASSUME NEW op \in Operations \cup {"none"}
    PROVE  /\ "check" \in PlacesOf[op] => "clear" \in PlacesOf[op]
           /\ "clear" \in PlacesOf[op] => "forget" \in PlacesOf[op]
           /\ "write" \in PlacesOf[op] => "inside" \in PlacesOf[op]
           /\ "inside" \in PlacesOf[op] => "outside" \in PlacesOf[op]
           /\ "inside" \in PlacesOf[op] => "undo" \in PlacesOf[op]
           /\ "outside" \in PlacesOf[op] => "verify" \in PlacesOf[op]
           /\ "outside" \in PlacesOf[op] => "undo" \in PlacesOf[op]
           /\ "verify" \in PlacesOf[op] => "undo" \in PlacesOf[op]
           /\ "undo" \in PlacesOf[op] => "unwrite" \in PlacesOf[op]
           /\ "look" \in PlacesOf[op] => "clean" \in PlacesOf[op]
           /\ "clean" \in PlacesOf[op] => "forget" \in PlacesOf[op]
           /\ "drop" \in PlacesOf[op] => "forget" \in PlacesOf[op]
           /\ "guarded" \in PlacesOf[op] => "running" \in PlacesOf[op]
           /\ "running" \in PlacesOf[op] => "stage" \in PlacesOf[op]
           /\ "stage" \in PlacesOf[op] => "spawn" \in PlacesOf[op]
           /\ "find" \in PlacesOf[op] => "term" \in PlacesOf[op]
           /\ "term" \in PlacesOf[op] => "poll" \in PlacesOf[op]
           /\ "term" \in PlacesOf[op] => "unlink" \in PlacesOf[op]
           /\ "poll" \in PlacesOf[op] => "deadline" \in PlacesOf[op]
           /\ "deadline" \in PlacesOf[op] => "kill" \in PlacesOf[op]
           /\ "kill" \in PlacesOf[op] => "unlink" \in PlacesOf[op]
           /\ "clear" \in PlacesOf[op] => "write" \in PlacesOf[op]
           /\ "find" \in PlacesOf[op] /\ op # "stop" => "drop" \in PlacesOf[op]
           /\ "unlink" \in PlacesOf[op] /\ op # "stop" => "drop" \in PlacesOf[op]
           /\ "poll" \in PlacesOf[op] /\ op # "stop" => "drop" \in PlacesOf[op]
           /\ op = "apply" => "write" \in PlacesOf[op]
           /\ op = "purge" => "unname" \in PlacesOf[op]
           /\ "forget" \in PlacesOf[op] => op \in {"apply", "remove", "purge"}
           /\ "inside" \in PlacesOf[op] \/ "outside" \in PlacesOf[op] => op = "apply"
<1>1. CASE op = "none"
  BY <1>1 DEF PlacesOf
<1>2. CASE op = "add"
  BY <1>2 DEF PlacesOf
<1>3. CASE op = "delete"
  BY <1>3 DEF PlacesOf
<1>4. CASE op = "apply"
  BY <1>4 DEF PlacesOf
<1>5. CASE op = "remove"
  BY <1>5 DEF PlacesOf
<1>6. CASE op = "start"
  BY <1>6 DEF PlacesOf
<1>7. CASE op = "stop"
  BY <1>7 DEF PlacesOf
<1>8. CASE op = "purge"
  BY <1>8 DEF PlacesOf
<1> QED
  BY <1>1, <1>2, <1>3, <1>4, <1>5, <1>6, <1>7, <1>8 DEF Operations

\* Every step of a helper is a move within its operation, an exit, or the step
\* that takes the process to stop from the pid file.
LEMMA StepMoves ==
    ASSUME TypeOK, NEW h \in Helpers, Step(h)
    PROVE  \/ \E place \in PlacesOf[helper[h].op] : Goto(h, place)
           \/ \E ok \in BOOLEAN : Exit(h, ok)
           \/ At(h, "find") /\ Aim(h)
<1> DEFINE op == helper[h].op
<1>0. /\ op \in Operations \cup {"none"}
      /\ helper[h].at \in PlacesOf[op]
  BY DEF TypeOK, Helper
<1> HIDE DEF op
<1>1. CASE AddNamespace(h)
  BY <1>1 DEF AddNamespace, TypeOK, Machine
<1>2. CASE DeleteNamespace(h) \/ Abort(h) \/ Unwrite(h)
  BY <1>2 DEF DeleteNamespace, Abort, Unwrite
<1>3. CASE Check(h)
  BY <1>0, <1>3, PlacesFollow DEF Check, At, op
<1>4. CASE Write(h)
  BY <1>0, <1>4, PlacesFollow DEF Write, At, op
<1>5. CASE Verify(h)
  BY <1>0, <1>5, PlacesFollow DEF Verify, At, op
<1>6. CASE Look(h)
  BY <1>0, <1>6, PlacesFollow DEF Look, At, op
<1>7. CASE Inside(h)
  BY <1>0, <1>7, PlacesFollow DEF Inside, At, op
<1>8. CASE Outside(h)
  BY <1>0, <1>8, PlacesFollow DEF Outside, At, op
<1>9. CASE Clear(h)
  BY <1>0, <1>9, PlacesFollow DEF Clear, CleanThen, At, op
<1>10. CASE Undo(h)
  BY <1>0, <1>10, PlacesFollow DEF Undo, CleanThen, At, op
<1>11. CASE Clean(h)
  BY <1>0, <1>11, PlacesFollow DEF Clean, CleanThen, At, op
<1>12. CASE Drop(h)
  BY <1>0, <1>12, PlacesFollow DEF Drop, CleanThen, At, op
<1>13. CASE AskGuard(h)
  BY <1>0, <1>13, PlacesFollow DEF AskGuard, At, op
<1>14. CASE AskRunning(h)
  BY <1>0, <1>14, PlacesFollow DEF AskRunning, At, op
<1>15. CASE Stage(h)
  BY <1>0, <1>15, PlacesFollow DEF Stage, At, op
<1>16. CASE Spawn(h)
  BY <1>0, <1>16, PlacesFollow DEF Spawn, At, op
<1>17. CASE Term(h)
  BY <1>0, <1>17, PlacesFollow DEF Term, At, op
<1>18. CASE Deadline(h)
  BY <1>0, <1>18, PlacesFollow DEF Deadline, At, op
<1>19. CASE Kill(h)
  BY <1>0, <1>19, PlacesFollow DEF Kill, At, op
<1>20. CASE Forget(h)
  <2>1. op \in {"apply", "remove", "purge"}
    BY <1>0, <1>20, PlacesFollow DEF Forget, At, op
  <2> QED
    BY <1>0, <1>20, <2>1, PlacesFollow DEF Forget, op
<1>21. CASE Find(h)
  BY <1>0, <1>21, PlacesFollow DEF Find, Aim, Stopped, At, op
<1>22. CASE Poll(h)
  BY <1>0, <1>22, PlacesFollow DEF Poll, Stopped, At, op
<1>23. CASE Unlink(h)
  BY <1>0, <1>23, PlacesFollow DEF Unlink, Stopped, At, op
<1> QED
  BY <1>1, <1>2, <1>3, <1>4, <1>5, <1>6, <1>7, <1>8, <1>9, <1>10, <1>11, <1>12, <1>13, <1>14, <1>15, <1>16, <1>17, <1>18, <1>19, <1>20, <1>21, <1>22, <1>23 DEF Step

\* Every step of a helper leaves a machine.
LEMMA StepsTyped ==
    ASSUME TypeOK, NEW h \in Helpers, Step(h)
    PROVE  m' \in Machine
<1>0. m \in Machine /\ helper[h].node \in Nodes \cup {NoNode}
      /\ helper[h].op \in Operations \cup {"none"}
      /\ helper[h].at \in PlacesOf[helper[h].op]
  BY DEF TypeOK, Helper
<1>1. CASE AddNamespace(h) \/ DeleteNamespace(h)
  <2>1. [m EXCEPT !.ns = TRUE, !.nsRules = {}] \in Machine
    BY <1>0 DEF Machine
  <2> QED
    BY <1>0, <1>1, <2>1, MachinesTyped DEF AddNamespace, DeleteNamespace
<1>2. CASE Check(h) \/ Verify(h) \/ Look(h) \/ AskGuard(h) \/ AskRunning(h)
           \/ Deadline(h) \/ Abort(h)
  BY <1>0, <1>2 DEF Check, Verify, Look, AskGuard, AskRunning, Deadline, Abort
<1>3. CASE Clear(h) \/ Undo(h) \/ Clean(h) \/ Drop(h)
  BY <1>0, <1>3, MachinesTyped DEF Clear, Undo, Clean, Drop, CleanThen
<1>4. CASE Forget(h) \/ Unwrite(h) \/ Write(h) \/ Stage(h) \/ Unlink(h)
  BY <1>0, <1>4 DEF Forget, Unwrite, Write, Stage, Unlink, Machine
<1>5. CASE Inside(h) \/ Outside(h)
  <2>1. helper[h].op = "apply"
    BY <1>0, <1>5, PlacesFollow DEF Inside, Outside, At
  <2>2. helper[h].node \in Nodes
    BY <2>1 DEF TypeOK
  <2>3. \A c \in Machine : [c EXCEPT !.nsRules = @ \cup {helper[h].node}] \in Machine
    BY <2>2 DEF Machine
  <2>4. [m EXCEPT !.hostRules = @ \cup {helper[h].node}] \in Machine
    BY <1>0, <2>2 DEF Machine
  <2> QED
    BY <1>0, <1>5, <2>3, <2>4, MachinesTyped DEF Inside, Outside
<1>6. CASE Spawn(h)
  <2>1. ASSUME NEW p \in Pids, m.staged # NoNode
        PROVE  [m.vpn EXCEPT ![p] = [node |-> m.staged, home |-> TRUE]]
                 \in [Pids -> [node: Nodes \cup {NoNode}, home: BOOLEAN]]
    BY <1>0 DEF Machine
  <2>2. \A p \in Pids : m.staged # NoNode =>
          LET vpn == [m.vpn EXCEPT ![p] = [node |-> m.staged, home |-> TRUE]]
          IN  /\ [m EXCEPT !.pidFile = p, !.vpn = vpn] \in Machine
              /\ [[m EXCEPT !.pidFile = p, !.vpn = vpn] EXCEPT !.staged = NoNode] \in Machine
    BY <1>0, <2>1 DEF Machine
  <2>3. [m EXCEPT !.staged = NoNode] \in Machine
    BY <1>0 DEF Machine
  <2> QED
    BY <1>6, <2>2, <2>3 DEF Spawn
<1>7. CASE Find(h) \/ Poll(h)
  BY <1>0, <1>7 DEF Find, Aim, Poll, Machine
<1>8. CASE Term(h)
  BY <1>0, <1>8, MachinesTyped DEF Term, Live
<1>9. CASE Kill(h)
  BY <1>9, MachinesTyped DEF Kill, TypeOK, Helper
<1> QED
  BY <1>1, <1>2, <1>3, <1>4, <1>5, <1>6, <1>7, <1>8, <1>9 DEF Step

\* The types of the machine and of the helpers hold in every behaviour.
THEOREM HelpersWellTyped == Spec => []TypeOK
<1>1. Init => TypeOK
  <2> SUFFICES ASSUME Init PROVE TypeOK
    OBVIOUS
  <2>1. m \in Machine
    BY DEF Init, Machine, Dead
  <2>2. "idle" \in PlacesOf["none"]
    BY DEF PlacesOf
  <2>3. "idle" \in UNION {PlacesOf[op] : op \in Operations \cup {"none"}}
    BY <2>2
  <2>4. Idle \in Helper /\ Idle.op = "none" /\ Idle.at = "idle"
    BY <2>3 DEF Idle, Helper, CleanRuntime, Runtime
  <2> QED
    BY <2>1, <2>2, <2>4 DEF Init, TypeOK
<1>2. TypeOK /\ [Next]_vars => TypeOK'
  <2> SUFFICES ASSUME TypeOK, [Next]_vars PROVE TypeOK'
    OBVIOUS
  <2>0. m \in Machine /\ helper \in [Helpers -> Helper]
        /\ \A h \in Helpers : helper[h] \in Helper
                               /\ Placed(helper[h])
    BY DEF TypeOK, Placed
  <2>1. CASE UNCHANGED vars
    BY <2>1 DEF vars, TypeOK
  <2>2. CASE Die
    <3>1. m' \in Machine
      BY <2>2, MachinesTyped DEF Die, Live
    <3>2. \A r \in Runtime : WithoutVpn(r) \in Runtime
      BY DEF WithoutVpn, Settle, HasProcess, Runtime
    <3> DEFINE Aged(g) == [helper[g] EXCEPT !.before = WithoutVpn(@)]
    <3>3. \A g \in Helpers : /\ Aged(g) \in Helper
                              /\ Aged(g).at = helper[g].at /\ Aged(g).op = helper[g].op
                              /\ Aged(g).node = helper[g].node
      BY <2>0, <3>2 DEF Helper
    <3>4. helper' = [g \in Helpers |-> IF Busy(g) THEN Aged(g) ELSE helper[g]]
      BY <2>2 DEF Die
    <3>5. UNCHANGED <<overlapped, startRaced>>
      BY <2>2 DEF Die
    <3> HIDE DEF Aged
    <3> QED
      BY <2>0, <3>1, <3>3, <3>4, <3>5 DEF TypeOK, Placed
  <2>3. ASSUME NEW h \in Helpers, Begin(h) PROVE TypeOK'
    <3>1. Image \in Runtime /\ CleanRuntime \in Runtime
      <4>1. Managed = NoPid \/ (Managed \in Pids /\ m.vpn[Managed].node \in Nodes)
        BY <2>0 DEF Managed, Live, Machine
      <4>2. Managed # NoPid => m.vpn[Managed].home \in BOOLEAN
        BY <2>0, <4>1 DEF Machine
      <4>3. m.ns \in BOOLEAN /\ m.fw \in Nodes \cup {NoNode}
        BY <2>0 DEF Machine
      <4>4. (Managed # NoPid /\ ~m.vpn[Managed].home) \in BOOLEAN
        OBVIOUS
      <4>5. (IF Managed = NoPid THEN NoNode ELSE m.vpn[Managed].node) \in Nodes \cup {NoNode}
        BY <4>1
      <4>6. (m.hostRules # {}) \in BOOLEAN /\ (m.nsRules # {}) \in BOOLEAN
        OBVIOUS
      <4> QED
        BY <4>3, <4>4, <4>5, <4>6 DEF Image, Runtime, CleanRuntime
    <3>2. PICK op \in Operations, n \in Nodes :
             /\ helper' = [helper EXCEPT ![h] =
                   [Idle EXCEPT !.op = op, !.at = First[op],
                                !.node = IF op \in {"apply", "start"} THEN n ELSE NoNode,
                                !.before = IF overlapped THEN CleanRuntime ELSE Image]]
             /\ overlapped' \in BOOLEAN
             /\ startRaced' \in BOOLEAN
      BY <2>3 DEF Begin, TypeOK
    <3> DEFINE called ==
          [Idle EXCEPT !.op = op, !.at = First[op],
                       !.node = IF op \in {"apply", "start"} THEN n ELSE NoNode,
                       !.before = IF overlapped THEN CleanRuntime ELSE Image]
    <3>3. First[op] \in PlacesOf[op]
      BY DEF First, PlacesOf, Operations
    <3>4. First[op] \in UNION {PlacesOf[o] : o \in Operations \cup {"none"}}
      BY <3>3
    <3>5. /\ called \in Helper /\ called.op = op /\ called.at = First[op]
          /\ op \in {"apply", "start"} => called.node \in Nodes
      BY <3>1, <3>4 DEF Idle, Helper
    <3>6. UNCHANGED m /\ helper' = [helper EXCEPT ![h] = called]
      BY <2>3, <3>2 DEF Begin
    <3> HIDE DEF called
    <3> QED
      BY <2>0, <3>2, <3>3, <3>5, <3>6 DEF TypeOK, Placed
  <2>4. ASSUME NEW h \in Helpers, Step(h) PROVE TypeOK'
    <3>1. CASE \E place \in PlacesOf[helper[h].op] : Goto(h, place)
      BY <2>4, <3>1, MovesTyped, StepsTyped DEF TypeOK, Placed
    <3>2. CASE \E ok \in BOOLEAN : Exit(h, ok)
      BY <2>4, <3>2, MovesTyped, StepsTyped DEF TypeOK, Placed
    <3>3. CASE At(h, "find") /\ Aim(h)
      <4> DEFINE aimed == [helper[h] EXCEPT !.at = "term", !.pid = Managed]
      <4>1. helper[h].op \in {"stop", "purge"} /\ "term" \in PlacesOf[helper[h].op]
        BY <2>0, <3>3 DEF At, PlacesOf, Helper, Operations, Placed
      <4>2. "term" \in UNION {PlacesOf[op] : op \in Operations \cup {"none"}}
        BY <2>0, <4>1 DEF Helper
      <4>3. Managed \in Pids \cup {NoPid}
        BY <2>0 DEF Managed, Live, Machine
      <4>4. aimed \in Helper /\ aimed.at = "term" /\ aimed.op = helper[h].op
            /\ aimed.node = helper[h].node
        BY <2>0, <4>2, <4>3 DEF Helper
      <4>5. helper' = [helper EXCEPT ![h] = aimed]
        BY <3>3 DEF Aim
      <4> HIDE DEF aimed
      <4> QED
        BY <2>0, <2>4, <3>3, <4>1, <4>4, <4>5, StepsTyped DEF Aim, TypeOK, Placed
    <3> QED
      BY <2>4, <3>1, <3>2, <3>3, StepMoves
  <2> QED
    BY <2>1, <2>2, <2>3, <2>4 DEF Next
<1> QED
  BY <1>1, <1>2, PTL DEF Spec

-----------------------------------------------------------------------------
\* The invariant.

\* A helper gets to these places only after it has seen that nothing runs, or has
\* ended what ran.
AfterVpn ==
    {"clear", "forget", "write", "inside", "outside", "verify", "undo", "unwrite",
     "clean", "drop", "unname", "unlink", "stage", "spawn"}

\* At these it knows the one process that it is about to end.
Stopping == {"term", "poll", "deadline", "kill"}

\* At these a start has been told that the kill switch is there.
PastGuard == {"running", "stage", "spawn"}

StartsAlone ==
    \A h \in Helpers : helper[h].op = "start" =>
        \A g \in Helpers \ {h} : ~Busy(g)

NothingLeft == \A h \in Helpers : helper[h].at \in AfterVpn => Live = {}

OneTarget == \A h \in Helpers : helper[h].at \in Stopping => Live \subseteq {helper[h].pid}

StartGuarded ==
    \A h \in Helpers : helper[h].at \in PastGuard =>
        /\ Active /\ m.fw = helper[h].node
        /\ helper[h].at = "spawn" => m.staged = helper[h].node

HelperInv == ~startRaced => StartsAlone /\ NothingLeft /\ OneTarget /\ StartGuarded

-----------------------------------------------------------------------------
\* What a step does to the helpers.

\* A helper that takes a step is busy, keeps its operation and its node while it
\* goes on, and touches no other helper.
LEMMA StepIsOwn ==
    ASSUME TypeOK, NEW h \in Helpers, Step(h)
    PROVE  /\ Busy(h) /\ startRaced' = startRaced
           /\ \A g \in Helpers \ {h} : helper'[g] = helper[g]
           /\ \/ helper'[h].op = "none" /\ helper'[h].at = "idle"
              \/ helper'[h].op = helper[h].op /\ helper'[h].node = helper[h].node
<1>0. helper \in [Helpers -> Helper] /\ helper[h] \in Helper
  BY DEF TypeOK
<1>1. Busy(h)
  BY DEF Step, Busy, At, AddNamespace, DeleteNamespace, Check, Clear, Forget, Write,
         Inside, Outside, Verify, Undo, Unwrite, Look, Clean, AskGuard, AskRunning,
         Stage, Spawn, Find, Term, Poll, Deadline, Kill, Unlink, Drop, Abort
<1>2. CASE \E place \in PlacesOf[helper[h].op] : Goto(h, place)
  BY <1>0, <1>1, <1>2 DEF Goto, Helper
<1>3. CASE \E ok \in BOOLEAN : Exit(h, ok)
  BY <1>0, <1>1, <1>3 DEF Exit, Idle
<1>4. CASE Aim(h)
  BY <1>0, <1>1, <1>4 DEF Aim, Helper
<1> QED
  BY <1>2, <1>3, <1>4, StepMoves

\* A start that goes on runs alone, so a step of another helper finds none.
LEMMA NoOtherStart ==
    ASSUME TypeOK, StartsAlone, NEW h \in Helpers, Step(h), NEW g \in Helpers \ {h}
    PROVE  helper[g].op # "start"
BY StepIsOwn DEF StartsAlone

\* Where a helper gets to, and with which process in mind.
LEMMA Arrives ==
    ASSUME TypeOK, NEW h \in Helpers
    PROVE  /\ \A place : Goto(h, place) =>
                 /\ helper'[h].at = place /\ helper'[h].pid = helper[h].pid
                 /\ helper'[h].node = helper[h].node
           /\ \A ok : Exit(h, ok) => helper'[h].at = "idle"
           /\ Aim(h) => helper'[h].at = "term" /\ helper'[h].pid = Managed
<1>0. helper \in [Helpers -> Helper] /\ helper[h] \in Helper
  BY DEF TypeOK
<1>1. ASSUME NEW place, Goto(h, place)
      PROVE  /\ helper'[h].at = place /\ helper'[h].pid = helper[h].pid
             /\ helper'[h].node = helper[h].node
  <2>1. helper'[h] = [helper[h] EXCEPT !.at = place]
    BY <1>0, <1>1 DEF Goto
  <2> QED
    BY <1>0, <2>1 DEF Helper
<1>2. ASSUME NEW ok, Exit(h, ok) PROVE helper'[h].at = "idle"
  <2>1. helper'[h] = [Idle EXCEPT !.ok = ok]
    BY <1>0, <1>2 DEF Exit
  <2> QED
    BY <2>1 DEF Idle
<1>3. ASSUME Aim(h) PROVE helper'[h].at = "term" /\ helper'[h].pid = Managed
  BY <1>0, <1>3 DEF Aim, Helper
<1> QED
  BY <1>1, <1>2, <1>3

\* Who is past the guard is a start.
LEMMA PastGuardIsStart ==
    ASSUME TypeOK, NEW h \in Helpers, helper[h].at \in PastGuard
    PROVE  helper[h].op = "start"
<1> DEFINE op == helper[h].op
<1>1. op \in Operations \cup {"none"} /\ helper[h].at \in PlacesOf[op]
  BY DEF TypeOK, Helper
<1> HIDE DEF op
<1>2. op \in Operations \cup {"none"} /\ op # "start" => PlacesOf[op] \cap PastGuard = {}
  BY DEF Operations, PlacesOf, PastGuard
<1> QED
  BY <1>1, <1>2 DEF op

-----------------------------------------------------------------------------
\* What a step does to the machine.

\* A process goes on as it was, or ends, or loses the name of its namespace.
KeptOrEnded(p) ==
    m'.vpn[p] \in {m.vpn[p], Dead, [m.vpn[p] EXCEPT !.home = FALSE]}

\* A cleanup touches nothing but the tables.
LEMMA CleanedKeeps ==
    ASSUME TypeOK, NEW c \in Cleaned
    PROVE  /\ c \in Machine /\ c.vpn = m.vpn
           /\ c.ns = m.ns /\ c.fw = m.fw /\ c.pidFile = m.pidFile
<1>1. PICK r \in {{}, m.hostRules}, k \in {{}, m.nsRules} :
          c = [m EXCEPT !.hostRules = r, !.nsRules = k]
  BY DEF Cleaned
<1>2. /\ c.vpn = m.vpn /\ c.ns = m.ns
      /\ c.fw = m.fw /\ c.pidFile = m.pidFile
  BY <1>1 DEF TypeOK, Machine
<1> QED
  BY <1>2, MachinesTyped

\* Only a spawn makes a process.
LEMMA OnlySpawnStarts ==
    ASSUME TypeOK, NEW h \in Helpers, Step(h), ~Spawn(h), NEW p \in Pids
    PROVE  KeptOrEnded(p)
<1>0. m \in Machine /\ m.vpn \in [Pids -> [node: Nodes \cup {NoNode}, home: BOOLEAN]]
  BY DEF TypeOK, Machine
<1>1. CASE m' = m
  BY <1>1 DEF KeptOrEnded
<1>2. CASE \E q : m' = Killed(q)
  BY <1>0, <1>2 DEF KeptOrEnded, Killed, Machine
<1>3. CASE m' = Unnamed
  BY <1>0, <1>3 DEF KeptOrEnded, Unnamed, Machine
<1>4. CASE m' \in Cleaned
  BY <1>4, CleanedKeeps DEF KeptOrEnded
<1>5. CASE m'.vpn = m.vpn
  BY <1>5 DEF KeptOrEnded
<1>6. CASE AddNamespace(h) \/ Forget(h) \/ Write(h) \/ Unwrite(h) \/ Stage(h) \/ Unlink(h)
  BY <1>0, <1>5, <1>6
     DEF AddNamespace, Forget, Write, Unwrite, Stage, Unlink, Machine
<1>7. CASE DeleteNamespace(h)
  BY <1>3, <1>7 DEF DeleteNamespace
<1>8. CASE Check(h) \/ Verify(h) \/ Look(h) \/ AskGuard(h) \/ AskRunning(h)
           \/ Deadline(h) \/ Abort(h)
  BY <1>1, <1>8 DEF Check, Verify, Look, AskGuard, AskRunning, Deadline, Abort
<1>9. CASE Clear(h) \/ Undo(h) \/ Clean(h) \/ Drop(h)
  BY <1>1, <1>4, <1>9 DEF Clear, Undo, Clean, Drop, CleanThen
<1>10. CASE Inside(h) \/ Outside(h)
  <2>0. \A c \in Machine : [c EXCEPT !.nsRules = @ \cup {helper[h].node}].vpn = c.vpn
    BY DEF Machine
  <2>1. \A c \in Cleaned : c.vpn = m.vpn
                           /\ [c EXCEPT !.nsRules = @ \cup {helper[h].node}].vpn = m.vpn
    BY <2>0, CleanedKeeps
  <2>2. [m EXCEPT !.hostRules = @ \cup {helper[h].node}].vpn = m.vpn
    BY <1>0 DEF Machine
  <2> QED
    BY <1>1, <1>5, <1>10, <2>1, <2>2 DEF Inside, Outside
<1>11. CASE Find(h) \/ Poll(h)
  BY <1>0, <1>1, <1>5, <1>11 DEF Find, Aim, Poll, Machine
<1>12. CASE Term(h) \/ Kill(h)
  BY <1>1, <1>2, <1>12 DEF Term, Kill
<1> QED
  BY <1>6, <1>7, <1>8, <1>9, <1>10, <1>11, <1>12 DEF Step

\* So nothing lives after it that did not live before.
LEMMA LiveShrinks ==
    ASSUME TypeOK, NEW h \in Helpers, Step(h), ~Spawn(h)
    PROVE  /\ Live' \subseteq Live
           /\ \A p \in Live' : /\ m'.vpn[p].node = m.vpn[p].node
                               /\ m'.vpn[p].home => m.vpn[p].home
<1>1. SUFFICES ASSUME NEW p \in Pids, m'.vpn[p].node # NoNode
      PROVE  /\ m.vpn[p].node # NoNode
             /\ m'.vpn[p].node = m.vpn[p].node
             /\ m'.vpn[p].home => m.vpn[p].home
  BY DEF Live
<1>2. KeptOrEnded(p)
  BY OnlySpawnStarts
<1>3. m.vpn[p] \in [node: Nodes \cup {NoNode}, home: BOOLEAN]
  BY DEF TypeOK, Machine
<1> QED
  BY <1>1, <1>2, <1>3 DEF KeptOrEnded, Dead

\* What stands between a process and the network.
GuardOf(machine) == <<machine.fw, machine.hostRules, machine.pidFile>>

\* Beside a spawn, the steps of a helper that has not seen that nothing runs leave
\* the guard, and the rules in the namespace of a process that is at home.
LEMMA GuardIsKept ==
    ASSUME TypeOK, NEW h \in Helpers, Step(h), helper[h].at \notin AfterVpn
    PROVE  /\ GuardOf(m') = GuardOf(m)
           /\ \/ m'.ns = m.ns /\ m'.nsRules = m.nsRules
              \/ ~m.ns
              \/ m' = Unnamed
<1>0. m \in Machine
  BY DEF TypeOK
<1>1. CASE AddNamespace(h) \/ DeleteNamespace(h)
  BY <1>0, <1>1 DEF AddNamespace, DeleteNamespace, Unnamed, GuardOf, Machine
<1>2. CASE Check(h) \/ Look(h) \/ AskGuard(h) \/ AskRunning(h) \/ Deadline(h) \/ Abort(h)
  BY <1>2 DEF Check, Look, AskGuard, AskRunning, Deadline, Abort, GuardOf
<1>3. CASE Find(h) \/ Poll(h) \/ Term(h) \/ Kill(h)
  BY <1>0, <1>3 DEF Find, Aim, Poll, Term, Kill, Killed, GuardOf, Machine
<1> QED
  BY <1>1, <1>2, <1>3 DEF Step, At, AfterVpn, Clear, Forget, Write, Inside, Outside,
     Verify, Undo, Unwrite, Clean, Stage, Spawn, Unlink, Drop

-----------------------------------------------------------------------------
\* The invariant holds.

\* Of the state predicates only the helpers' own reads and the machine matter.
LEMMA InvariantInitially ==
    ASSUME Init
    PROVE  HelperInv /\ StartsAloneSuffice
<1>1. Live = {}
  BY DEF Init, Live, Dead
<1>2. \A h \in Helpers : helper[h].op = "none" /\ helper[h].at = "idle"
  BY DEF Init, Idle
<1> QED
  BY <1>1, <1>2 DEF HelperInv, StartsAlone, NothingLeft, OneTarget, StartGuarded,
                    AfterVpn, Stopping, PastGuard, StartsAloneSuffice

\* A call: nothing changes on the machine, and a start that is called beside
\* another helper has raced.
LEMMA BeginKeeps ==
    ASSUME TypeOK, HelperInv, StartsAloneSuffice, NEW h \in Helpers, Begin(h)
    PROVE  HelperInv' /\ StartsAloneSuffice'
<1>0. ~startRaced /\ ~Busy(h) /\ m' = m
  BY DEF Begin
<1>1. StartsAloneSuffice'
  BY <1>0 DEF StartsAloneSuffice, Live
<1>2. SUFFICES ASSUME ~startRaced' PROVE HelperInv'
  BY <1>1 DEF HelperInv
<1>3. PICK op \in Operations, n \in Nodes :
         /\ helper' = [helper EXCEPT ![h] =
               [Idle EXCEPT !.op = op, !.at = First[op],
                            !.node = IF op \in {"apply", "start"} THEN n ELSE NoNode,
                            !.before = IF overlapped THEN CleanRuntime ELSE Image]]
         /\ startRaced' = \E g \in Helpers :
                             Busy(g) /\ (op = "start" \/ helper[g].op = "start")
  BY DEF Begin
<1>4. /\ \A g \in Helpers \ {h} : helper'[g] = helper[g]
      /\ helper'[h].op = op /\ helper'[h].at = First[op]
  BY <1>3 DEF TypeOK, Idle
<1>5. First[op] \notin AfterVpn \cup Stopping \cup PastGuard
  BY DEF First, Operations, AfterVpn, Stopping, PastGuard
<1>6. Live' = Live /\ Active' = Active /\ UNCHANGED m
  BY <1>0 DEF Live, Active
<1>7. \A g \in Helpers : helper[g].op = "start" => Busy(g)
  <2>1. "idle" \notin PlacesOf["start"]
    BY DEF PlacesOf
  <2> QED
    BY <2>1 DEF TypeOK, Busy
<1>8. StartsAlone'
  <2>1. \A g \in Helpers : ~(Busy(g) /\ (op = "start" \/ helper[g].op = "start"))
    BY <1>2, <1>3
  <2> QED
    BY <1>4, <1>7, <2>1 DEF StartsAlone, Busy
<1>9. NothingLeft' /\ OneTarget' /\ StartGuarded'
  BY <1>0, <1>4, <1>5, <1>6 DEF HelperInv, NothingLeft, OneTarget, StartGuarded
<1> QED
  BY <1>8, <1>9 DEF HelperInv

\* The end of an OpenVPN leaves one process less.
LEMMA DieKeeps ==
    ASSUME TypeOK, HelperInv, StartsAloneSuffice, Die
    PROVE  HelperInv' /\ StartsAloneSuffice'
<1>1. PICK p \in Live : m' = Killed(p)
  BY DEF Die
<1>2. /\ Live' \subseteq Live /\ \A q \in Live' : m'.vpn[q] = m.vpn[q]
      /\ m'.fw = m.fw /\ m'.hostRules = m.hostRules /\ m'.nsRules = m.nsRules
      /\ m'.ns = m.ns /\ m'.pidFile = m.pidFile /\ m'.staged = m.staged
  BY <1>1 DEF Killed, Live, Dead, TypeOK, Machine
<1>3. Active' = Active
  BY <1>2 DEF Active
<1>4. \A h \in Helpers : /\ helper'[h].at = helper[h].at /\ helper'[h].op = helper[h].op
                         /\ helper'[h].pid = helper[h].pid /\ helper'[h].node = helper[h].node
  <2>1. \A h \in Helpers : helper'[h] \in
          {helper[h], [helper[h] EXCEPT !.before = WithoutVpn(@)]}
    BY DEF Die
  <2> QED
    BY <2>1 DEF TypeOK, Helper
<1>5. startRaced' = startRaced
  BY DEF Die
<1>6. HelperInv'
  BY <1>2, <1>3, <1>4, <1>5
     DEF HelperInv, StartsAlone, Busy, NothingLeft, OneTarget, StartGuarded
<1>7. StartsAloneSuffice'
  BY <1>2, <1>5 DEF StartsAloneSuffice
<1> QED
  BY <1>6, <1>7

\* What a helper at its new place has just seen or done.
LEMMA ArrivesKnowing ==
    ASSUME TypeOK, ~startRaced, HelperInv, StartsAloneSuffice,
           NEW h \in Helpers, Step(h), ~Spawn(h)
    PROVE  /\ helper'[h].at \in AfterVpn => Live' = {}
           /\ helper'[h].at \in Stopping => Live' \subseteq {helper'[h].pid}
<1>1. /\ \A place : Goto(h, place) => helper'[h].at = place /\ helper'[h].pid = helper[h].pid
      /\ \A ok : Exit(h, ok) => helper'[h].at = "idle"
      /\ Aim(h) => helper'[h].at = "term" /\ helper'[h].pid = Managed
  BY Arrives
<1>2. "idle" \notin AfterVpn \cup Stopping /\ "running" \notin AfterVpn \cup Stopping
  BY DEF AfterVpn, Stopping
<1>3. Managed = NoPid => Live = {}
  BY PidsAssumption DEF StartsAloneSuffice, Managed, Live
<1>4. Live' \subseteq Live
  BY LiveShrinks
<1>5. CASE helper[h].at \in AfterVpn
  <2>1. Live' = {}
    BY <1>4, <1>5 DEF HelperInv, NothingLeft
  <2> QED
    BY <2>1
<1>6. CASE helper[h].at \notin AfterVpn
  <2>1. CASE \E ok : Exit(h, ok)
    BY <1>1, <1>2, <2>1
  <2>2. CASE Check(h) \/ Look(h) \/ AskRunning(h)
    BY <1>1, <1>2, <1>3, <1>4, <2>2 DEF Check, Look, AskRunning, AfterVpn, Stopping
  <2>3. CASE AskGuard(h)
    BY <1>1, <1>2, <2>3 DEF AskGuard
  <2>4. CASE Find(h)
    <3>1. CASE Managed = NoPid
      <4>1. Live' = {}
        BY <1>3, <1>4, <3>1
      <4> QED
        BY <4>1
    <3>2. CASE Managed # NoPid
      <4>1. helper'[h].at = "term" /\ helper'[h].pid = Managed
        BY <1>1, <2>4, <3>2 DEF Find
      <4>2. Live \subseteq {Managed}
        BY <3>2 DEF StartsAloneSuffice, Managed
      <4> QED
        BY <1>4, <4>1, <4>2 DEF AfterVpn
    <3> QED
      BY <3>1, <3>2
  <2>5. CASE Term(h) \/ Poll(h) \/ Deadline(h) \/ Kill(h)
    <3>1. Live \subseteq {helper[h].pid}
      BY <2>5 DEF Term, Poll, Deadline, Kill, At, Stopping, HelperInv, OneTarget
    <3>2. CASE Term(h)
      BY <1>1, <1>4, <3>1, <3>2 DEF Term, AfterVpn, Stopping
    <3>3. CASE Poll(h)
      <4>1. CASE Managed = NoPid
        <5>1. Live' = {}
          BY <1>3, <1>4, <4>1
        <5> QED
          BY <5>1
      <4>2. CASE Managed # NoPid
        BY <1>1, <1>4, <3>1, <3>3, <4>2 DEF Poll, AfterVpn
      <4> QED
        BY <4>1, <4>2
    <3>4. CASE Deadline(h)
      <4>1. CASE Goto(h, "kill")
        BY <1>1, <1>4, <3>1, <4>1 DEF AfterVpn
      <4>2. CASE Exit(h, FALSE)
        BY <1>1, <1>2, <4>2
      <4> QED
        BY <3>4, <4>1, <4>2 DEF Deadline
    <3>5. CASE Kill(h)
      <4>1. Live' \subseteq Live \ {helper[h].pid}
        BY <1>4, <3>5 DEF Kill, Killed, Live, Dead, TypeOK, Machine
      <4> QED
        BY <3>1, <4>1
    <3> QED
      BY <2>5, <3>2, <3>3, <3>4, <3>5
  <2> QED
    BY <1>6, <2>1, <2>2, <2>3, <2>4, <2>5 DEF Step, At, AfterVpn, AddNamespace,
       DeleteNamespace, Abort, Clear, Forget, Write, Inside, Outside, Verify, Undo,
       Unwrite, Clean, Stage, Spawn, Unlink, Drop
<1> QED
  BY <1>5, <1>6

\* A step of a helper keeps the invariant.
LEMMA StepKeeps ==
    ASSUME TypeOK, TypeOK', ~startRaced, HelperInv, StartsAloneSuffice,
           NEW h \in Helpers, Step(h)
    PROVE  HelperInv' /\ StartsAloneSuffice'
<1>1. StartsAlone'
  <2>1. \A g \in Helpers : Busy(g)' => Busy(g)
    BY StepIsOwn DEF Busy
  <2>2. \A g \in Helpers : helper'[g].op = "start" => helper[g].op = "start"
    BY StepIsOwn
  <2> QED
    BY <2>1, <2>2 DEF HelperInv, StartsAlone
<1>2. CASE Spawn(h)
  <2>1. /\ helper[h].at = "spawn" /\ helper[h].op = "start"
        /\ Live = {} /\ Active /\ m.fw = helper[h].node /\ m.staged = m.fw
    BY <1>2, PastGuardIsStart
       DEF Spawn, At, HelperInv, NothingLeft, StartGuarded, AfterVpn, PastGuard
  <2>2. \A g \in Helpers : helper'[g].at = "idle"
    <3>1. helper'[h].at = "idle"
      BY <1>2, Arrives DEF Spawn
    <3>2. \A g \in Helpers \ {h} : helper'[g] = helper[g] /\ ~Busy(g)
      BY <2>1, StepIsOwn DEF HelperInv, StartsAlone
    <3> QED
      BY <3>1, <3>2 DEF Busy
  <2>3. NothingLeft' /\ OneTarget' /\ StartGuarded'
    BY <2>2 DEF NothingLeft, OneTarget, StartGuarded, AfterVpn, Stopping, PastGuard
  <2>4. /\ m'.fw = m.fw /\ m'.hostRules = m.hostRules /\ m'.nsRules = m.nsRules /\ m'.ns = m.ns
        /\ \A p \in Live' : p = m'.pidFile /\ m'.vpn[p].node = m.staged
    <3> DEFINE with(p) == [m.vpn EXCEPT ![p] = [node |-> m.staged, home |-> TRUE]]
    <3>1. m \in Machine
      BY DEF TypeOK
    <3>2. CASE m' = [m EXCEPT !.staged = NoNode]
      BY <2>1, <3>1, <3>2 DEF Machine, Live
    <3>3. ASSUME NEW p \in Pids,
                 m' = [m EXCEPT !.pidFile = p, !.vpn = with(p)]
                 \/ m' = [[m EXCEPT !.pidFile = p, !.vpn = with(p)] EXCEPT !.staged = NoNode]
          PROVE  /\ m'.fw = m.fw /\ m'.hostRules = m.hostRules /\ m'.nsRules = m.nsRules /\ m'.ns = m.ns
                 /\ \A q \in Live' : q = m'.pidFile /\ m'.vpn[q].node = m.staged
      <4>1. with(p) \in [Pids -> [node: Nodes \cup {NoNode}, home: BOOLEAN]]
        BY <2>1, <3>1 DEF Machine, Active
      <4>2. /\ m'.fw = m.fw /\ m'.hostRules = m.hostRules /\ m'.nsRules = m.nsRules
            /\ m'.ns = m.ns /\ m'.pidFile = p /\ m'.vpn = with(p)
        BY <3>1, <3>3 DEF Machine
      <4>3. \A q \in Pids \ {p} : with(p)[q] = m.vpn[q] /\ m.vpn[q].node = NoNode
        BY <2>1, <3>1 DEF Machine, Live
      <4>4. with(p)[p].node = m.staged
        BY <3>1 DEF Machine
      <4> HIDE DEF with
      <4> QED
        BY <4>2, <4>3, <4>4 DEF Live
    <3> QED
      BY <1>2, <3>2, <3>3 DEF Spawn
  <2>5. StartsAloneSuffice'
    BY <2>1, <2>4 DEF StartsAloneSuffice, Active
  <2> QED
    BY <1>1, <2>3, <2>5 DEF HelperInv
<1>3. CASE ~Spawn(h)
  <2>1. Live' \subseteq Live
    BY <1>3, LiveShrinks
  <2>2. NothingLeft' /\ OneTarget'
    BY <1>3, <2>1, StepIsOwn, ArrivesKnowing DEF HelperInv, NothingLeft, OneTarget
  <2>3. StartGuarded'
    <3>1. ASSUME NEW g \in Helpers \ {h}, helper'[g].at \in PastGuard PROVE FALSE
      <4>1. helper[g].at \in PastGuard
        BY <3>1, StepIsOwn
      <4>2. helper[g].op = "start"
        BY <4>1, PastGuardIsStart
      <4> QED
        BY <4>2, NoOtherStart DEF HelperInv
    <3>2. ASSUME helper'[h].at \in PastGuard
          PROVE  AskGuard(h) \/ AskRunning(h) \/ Stage(h)
      <4>1. helper'[h].at \notin {"idle", "term"} \cup (AfterVpn \ PastGuard)
        BY <3>2 DEF PastGuard, AfterVpn
      <4>2. ~Exit(h, TRUE) /\ ~Exit(h, FALSE) /\ ~Exit(h, ~m.ns)
        BY <4>1, Arrives
      <4>3. /\ ~Goto(h, "poll") /\ ~Goto(h, "deadline") /\ ~Goto(h, "kill")
            /\ ~Goto(h, "unlink") /\ ~Goto(h, "clear") /\ ~Goto(h, "forget")
            /\ ~Goto(h, "write") /\ ~Goto(h, "inside") /\ ~Goto(h, "outside")
            /\ ~Goto(h, "verify") /\ ~Goto(h, "undo") /\ ~Goto(h, "unwrite")
            /\ ~Goto(h, "clean") /\ ~Goto(h, "drop") /\ ~Goto(h, "unname")
        BY <3>2, Arrives DEF PastGuard
      <4>4. ~Aim(h)
        BY <4>1, Arrives
      <4>5. ~AddNamespace(h) /\ ~DeleteNamespace(h) /\ ~Abort(h) /\ ~Unwrite(h)
        BY <4>2 DEF AddNamespace, DeleteNamespace, Abort, Unwrite
      <4>6. ~Check(h) /\ ~Clear(h) /\ ~Write(h) /\ ~Inside(h) /\ ~Outside(h)
            /\ ~Verify(h) /\ ~Undo(h) /\ ~Look(h) /\ ~Clean(h) /\ ~Drop(h)
        BY <4>2, <4>3 DEF Check, Clear, Write, Inside, Outside, Verify, Undo, Look,
                          Clean, Drop, CleanThen
      <4>7. ~Find(h) /\ ~Term(h) /\ ~Poll(h) /\ ~Deadline(h) /\ ~Kill(h) /\ ~Unlink(h)
        BY <4>2, <4>3, <4>4 DEF Find, Stopped, Term, Poll, Deadline, Kill, Unlink
      <4>8. ~Forget(h)
        <5>1. Forget(h) => helper[h].op \in {"apply", "remove", "purge"}
          <6>1. /\ helper[h].op \in Operations \cup {"none"}
                /\ helper[h].at \in PlacesOf[helper[h].op]
            BY DEF TypeOK, Helper
          <6> QED
            BY <6>1, PlacesFollow DEF Forget, At
        <5> QED
          BY <4>2, <4>3, <5>1 DEF Forget
      <4> QED
        BY <1>3, <4>5, <4>6, <4>7, <4>8 DEF Step
    <3>3. ASSUME helper'[h].at \in PastGuard
          PROVE  /\ Active' /\ m'.fw = helper'[h].node
                 /\ helper'[h].at = "spawn" => m'.staged = helper'[h].node
      <4>0. ~Exit(h, TRUE) /\ ~Exit(h, FALSE)
        BY <3>3, Arrives DEF PastGuard
      <4>1. CASE AskGuard(h)
        <5>1. Active /\ m.fw = helper[h].node /\ Goto(h, "running") /\ m' = m
          BY <4>0, <4>1 DEF AskGuard
        <5> QED
          BY <5>1, Arrives DEF Active
      <4>2. CASE AskRunning(h)
        <5>1. Active /\ m.fw = helper[h].node
          BY <4>2 DEF AskRunning, At, HelperInv, StartGuarded, PastGuard
        <5>2. Goto(h, "stage") /\ m' = m
          BY <4>0, <4>2 DEF AskRunning
        <5> QED
          BY <5>1, <5>2, Arrives DEF Active
      <4>3. CASE Stage(h)
        <5>1. Active /\ m.fw = helper[h].node
          BY <4>3 DEF Stage, At, HelperInv, StartGuarded, PastGuard
        <5>2. /\ m'.fw = m.fw /\ m'.ns = m.ns /\ m'.hostRules = m.hostRules
              /\ m'.nsRules = m.nsRules /\ m'.staged = helper[h].node
          BY <4>3 DEF Stage, TypeOK, Machine
        <5>3. helper'[h].node = helper[h].node
          BY <4>3, Arrives DEF Stage
        <5> QED
          BY <5>1, <5>2, <5>3 DEF Active
      <4> QED
        BY <3>2, <3>3, <4>1, <4>2, <4>3
    <3> QED
      BY <3>1, <3>3 DEF StartGuarded
  <2>4. StartsAloneSuffice'
    <3>1. CASE helper[h].at \in AfterVpn
      BY <2>1, <3>1 DEF HelperInv, NothingLeft, StartsAloneSuffice
    <3>2. CASE helper[h].at \notin AfterVpn
      <4>1. SUFFICES ASSUME NEW p \in Live'
            PROVE  /\ p = m'.pidFile /\ m'.fw = m'.vpn[p].node /\ m'.hostRules # {}
                   /\ m'.vpn[p].home => m'.ns /\ m'.nsRules # {}
        BY DEF StartsAloneSuffice
      <4>2. /\ p = m.pidFile /\ m.fw = m.vpn[p].node /\ m.hostRules # {}
            /\ m.vpn[p].home => m.ns /\ m.nsRules # {}
        BY <2>1, <4>1 DEF StartsAloneSuffice
      <4>3. m'.vpn[p].node = m.vpn[p].node /\ (m'.vpn[p].home => m.vpn[p].home)
        BY <1>3, <4>1, LiveShrinks
      <4>4. ASSUME m' = Unnamed, m.ns PROVE ~m'.vpn[p].home
        BY <4>1, <4>4 DEF Unnamed, Live, TypeOK, Machine
      <4> QED
        BY <3>2, <4>2, <4>3, <4>4, GuardIsKept DEF GuardOf
    <3> QED
      BY <3>1, <3>2
  <2> QED
    BY <1>1, <2>2, <2>3, <2>4 DEF HelperInv
<1> QED
  BY <1>2, <1>3

\* The guard is kept by every step.
LEMMA HelpersKeepGuard ==
    ASSUME TypeOK, TypeOK', HelperInv, StartsAloneSuffice, [Next]_vars
    PROVE  HelperInv' /\ StartsAloneSuffice'
<1>1. CASE UNCHANGED vars
  BY <1>1 DEF vars, HelperInv, StartsAlone, Busy, NothingLeft, OneTarget,
              StartGuarded, StartsAloneSuffice, Live, Active
<1>2. CASE Die
  BY <1>2, DieKeeps
<1>3. ASSUME NEW h \in Helpers, Begin(h) PROVE HelperInv' /\ StartsAloneSuffice'
  BY <1>3, BeginKeeps
<1>4. ASSUME NEW h \in Helpers, Step(h) PROVE HelperInv' /\ StartsAloneSuffice'
  <2>1. CASE startRaced
    BY <1>4, <2>1, StepIsOwn DEF HelperInv, StartsAloneSuffice
  <2>2. CASE ~startRaced
    BY <1>4, <2>2, StepKeeps
  <2> QED
    BY <2>1, <2>2
<1> QED
  BY <1>1, <1>2, <1>3, <1>4 DEF Next

\* For any helpers: as long as no start has run beside another one, every OpenVPN
\* is the one that the pid file names and runs behind the kill switch for its node.
THEOREM StartsAloneAreSafe == Spec => []StartsAloneSuffice
<1>1. Init => HelperInv /\ StartsAloneSuffice
  BY InvariantInitially
<1>2. TypeOK /\ TypeOK' /\ HelperInv /\ StartsAloneSuffice /\ [Next]_vars
        => HelperInv' /\ StartsAloneSuffice'
  BY HelpersKeepGuard
<1> QED
  BY <1>1, <1>2, HelpersWellTyped, PTL DEF Spec

-----------------------------------------------------------------------------
\* A helper that runs alone: what the machine looks like between two of its steps.

\* The parts of a machine that the kill switch is not about.
SameElsewhere(i, r) ==
    i.ns = r.ns /\ i.vpn = r.vpn /\ i.socks = r.socks /\ i.orphaned = r.orphaned

\* Of what r is, i has all but the state file, which names k, and some of the rules.
LeftOf(r, k, i) ==
    /\ SameElsewhere(i, r) /\ i.ks = k
    /\ i.hostRules => r.hostRules
    /\ i.nsRules => r.nsRules

\* At these places a helper has changed nothing that RootHelper sees.
Untouched ==
    {"add", "delete", "check", "clear", "look", "clean", "guarded", "running", "stage",
     "spawn", "find"}

\* At these it puts a kill switch for its node up, or takes back what it has put up.
Installing == {"inside", "outside", "verify", "undo", "unwrite"}

\* The machine i that a helper of an operation for node n sees at a place, when it
\* was r at the call.
Halfway(op, at, n, r, i) ==
    /\ at # "idle"
    /\ at \in Untouched => i = r
    /\ at \in Stopping => i \in {r, WithoutVpn(r)}
    /\ at \in {"unlink", "drop"} => i = WithoutVpn(r)
    /\ at = "forget" =>
          /\ op = "purge" => LeftOf(WithoutVpn(r), r.ks, i)
          /\ op # "purge" => LeftOf(r, r.ks, i) /\ r.ks # NoNode
    /\ at = "write" => LeftOf(r, NoNode, i)
    /\ at \in Installing => SameElsewhere(i, r) /\ i.ks = n
    /\ at = "unname" => LeftOf(WithoutVpn(r), NoNode, i)
    /\ op = "apply" /\ at # "check" => r.ns

Midway(h) ==
    /\ ~helper[h].before.socks
    /\ Halfway(helper[h].op, helper[h].at, helper[h].node, helper[h].before, Image)

\* Rules in the namespace need a namespace.
RulesInside == m.nsRules # {} => m.ns

LoneHelper ==
    ~overlapped =>
        /\ ~startRaced
        /\ \A g, h \in Helpers : Busy(g) /\ Busy(h) => g = h
        /\ \A h \in Helpers : Busy(h) => Midway(h)

-----------------------------------------------------------------------------
\* Machines as RootHelper sees them.

LEMMA RuntimesEqual ==
    ASSUME NEW r \in Runtime, NEW s \in Runtime, SameElsewhere(s, r),
           s.ks = r.ks, s.hostRules = r.hostRules, s.nsRules = r.nsRules
    PROVE  s = r
<1>1. r = [ns |-> r.ns, ks |-> r.ks, hostRules |-> r.hostRules, nsRules |-> r.nsRules,
           vpn |-> r.vpn, socks |-> r.socks, orphaned |-> r.orphaned]
  BY DEF Runtime
<1>2. s = [ns |-> s.ns, ks |-> s.ks, hostRules |-> s.hostRules, nsRules |-> s.nsRules,
           vpn |-> s.vpn, socks |-> s.socks, orphaned |-> s.orphaned]
  BY DEF Runtime
<1> QED
  BY <1>1, <1>2 DEF SameElsewhere

\* Without a proxy, what is left without OpenVPN has no process at all.
LEMMA WithoutVpnFields ==
    ASSUME NEW r \in Runtime, ~r.socks
    PROVE  /\ WithoutVpn(r) \in Runtime
           /\ WithoutVpn(r).ns = r.ns /\ WithoutVpn(r).ks = r.ks
           /\ WithoutVpn(r).hostRules = r.hostRules /\ WithoutVpn(r).nsRules = r.nsRules
           /\ WithoutVpn(r).vpn = NoNode /\ ~WithoutVpn(r).socks /\ ~WithoutVpn(r).orphaned
BY DEF WithoutVpn, Settle, HasProcess, Runtime

LEMMA WithoutVpnTwice ==
    ASSUME NEW r \in Runtime, ~r.socks
    PROVE  WithoutVpn(WithoutVpn(r)) = WithoutVpn(r)
<1> DEFINE s == WithoutVpn(r)
<1>1. s \in Runtime /\ ~s.socks /\ s.vpn = NoNode /\ ~s.orphaned
  BY WithoutVpnFields
<1> HIDE DEF s
<1>2. WithoutVpn(s) \in Runtime /\ SameElsewhere(WithoutVpn(s), s)
      /\ WithoutVpn(s).ks = s.ks /\ WithoutVpn(s).hostRules = s.hostRules
      /\ WithoutVpn(s).nsRules = s.nsRules
  BY <1>1, WithoutVpnFields DEF SameElsewhere, Runtime
<1>3. WithoutVpn(s) = s
  BY <1>1, <1>2, RuntimesEqual
<1> QED
  BY <1>3 DEF s

\* A purge ends what OpenVPN leaves of the machine, with or without a proxy to stop.
LEMMA WithoutBoth ==
    ASSUME NEW r \in Runtime, ~r.socks
    PROVE  WithoutVpn(WithoutSocks(r)) = WithoutVpn(r)
<1> DEFINE s == WithoutSocks(r)
<1>1. /\ s \in Runtime /\ ~s.socks /\ s.ns = r.ns /\ s.ks = r.ks
      /\ s.hostRules = r.hostRules /\ s.nsRules = r.nsRules
  BY DEF WithoutSocks, Settle, HasProcess, Runtime
<1> HIDE DEF s
<1>2. SameElsewhere(WithoutVpn(s), WithoutVpn(r))
  BY <1>1, WithoutVpnFields DEF SameElsewhere, Runtime
<1>3. WithoutVpn(s) = WithoutVpn(r)
  BY <1>1, <1>2, WithoutVpnFields, RuntimesEqual
<1> QED
  BY <1>3 DEF s

\* The image has the types of RootHelper and shows the parts of the machine.
ImageShows ==
    /\ Image \in Runtime /\ ~Image.socks
    /\ Image.ns = m.ns /\ Image.ks = m.fw
    /\ Image.hostRules = (m.hostRules # {}) /\ Image.nsRules = (m.nsRules # {})
    /\ Managed = NoPid <=> m.pidFile \notin Live
    /\ Managed = NoPid => Image.vpn = NoNode /\ ~Image.orphaned
    /\ Managed # NoPid => /\ Managed = m.pidFile
                          /\ Image.vpn = m.vpn[m.pidFile].node
                          /\ Image.vpn # NoNode
                          /\ Image.orphaned = ~m.vpn[m.pidFile].home

LEMMA ImageFields == TypeOK => ImageShows
<1> SUFFICES ASSUME TypeOK PROVE ImageShows
  OBVIOUS
<1>0. m \in Machine
  BY DEF TypeOK
<1>1. Managed = NoPid <=> m.pidFile \notin Live
  BY PidsAssumption DEF Managed, Live
<1>2. Managed # NoPid => Managed = m.pidFile /\ m.pidFile \in Live
  BY DEF Managed
<1>3. Managed # NoPid => m.vpn[m.pidFile] \in [node: Nodes, home: BOOLEAN]
  BY <1>0, <1>2 DEF Live, Machine
<1>4. m.ns \in BOOLEAN /\ m.fw \in Nodes \cup {NoNode}
  BY <1>0 DEF Machine
<1>5. (Managed # NoPid /\ ~m.vpn[Managed].home) \in BOOLEAN
      /\ (m.hostRules # {}) \in BOOLEAN /\ (m.nsRules # {}) \in BOOLEAN
  OBVIOUS
<1>6. (IF Managed = NoPid THEN NoNode ELSE m.vpn[Managed].node) \in Nodes \cup {NoNode}
  BY <1>2, <1>3
<1>7. Image \in Runtime
  BY <1>4, <1>5, <1>6 DEF Image, Runtime
<1>8. /\ ~Image.socks /\ Image.ns = m.ns /\ Image.ks = m.fw
      /\ Image.hostRules = (m.hostRules # {}) /\ Image.nsRules = (m.nsRules # {})
      /\ Image.vpn = IF Managed = NoPid THEN NoNode ELSE m.vpn[Managed].node
      /\ Image.orphaned = (Managed # NoPid /\ ~m.vpn[Managed].home)
  BY DEF Image
<1>9. Managed # NoPid => Image.vpn = m.vpn[m.pidFile].node /\ Image.vpn # NoNode
                         /\ Image.orphaned = ~m.vpn[m.pidFile].home
  BY <1>2, <1>3, <1>8, NodesAssumption
<1> QED
  BY <1>1, <1>2, <1>7, <1>8, <1>9 DEF ImageShows

LEMMA ImageFieldsNext == TypeOK' => ImageShows'
BY ImageFields, PTL

\* Without a live process the image is that of a machine whose OpenVPN has ended.
LEMMA NothingLives ==
    ASSUME TypeOK, Live = {}
    PROVE  Image.vpn = NoNode /\ ~Image.orphaned /\ WithoutVpn(Image) = Image
<1>1. Image.vpn = NoNode /\ ~Image.orphaned /\ Image \in Runtime /\ ~Image.socks
  BY ImageFields DEF ImageShows
<1>2. SameElsewhere(Image, WithoutVpn(Image))
  BY <1>1, WithoutVpnFields DEF SameElsewhere, Runtime
<1> QED
  BY <1>1, <1>2, WithoutVpnFields, RuntimesEqual

\* A step that leaves the processes and the pid file, or has none before and after
\* it, changes the image only where it changes the machine.
LEMMA ImageFollows ==
    ASSUME TypeOK, TypeOK',
           (m'.vpn = m.vpn /\ m'.pidFile = m.pidFile) \/ (Live = {} /\ Live' = {})
    PROVE  /\ Image'.vpn = Image.vpn /\ Image'.socks = Image.socks
           /\ Image'.orphaned = Image.orphaned
           /\ m'.ns = m.ns => SameElsewhere(Image', Image)
           /\ (/\ m'.ns = m.ns /\ m'.fw = m.fw /\ m'.hostRules = m.hostRules
               /\ m'.nsRules = m.nsRules) => Image' = Image
<1>1. CASE m'.vpn = m.vpn /\ m'.pidFile = m.pidFile
  <2>1. Managed' = Managed
    BY <1>1 DEF Managed, Live
  <2>2. Image'.vpn = Image.vpn /\ Image'.socks = Image.socks
        /\ Image'.orphaned = Image.orphaned
    BY <1>1, <2>1 DEF Image
  <2> QED
    BY <2>2, ImageFields, ImageFieldsNext, RuntimesEqual DEF SameElsewhere, ImageShows
<1>2. CASE Live = {} /\ Live' = {}
  <2>1. Image'.vpn = Image.vpn /\ Image'.socks = Image.socks
        /\ Image'.orphaned = Image.orphaned
    BY <1>2, ImageFields, ImageFieldsNext DEF Runtime, ImageShows
  <2> QED
    BY <2>1, ImageFields, ImageFieldsNext, RuntimesEqual DEF SameElsewhere, ImageShows
<1> QED
  BY <1>1, <1>2

\* A step that leaves no process and the rest of the machine ends OpenVPN.
LEMMA ImageEnds ==
    ASSUME TypeOK, TypeOK', Live' = {},
           m'.ns = m.ns, m'.fw = m.fw, m'.hostRules = m.hostRules, m'.nsRules = m.nsRules
    PROVE  Image' = WithoutVpn(Image)
<1>1. Image' \in Runtime /\ Image'.vpn = NoNode /\ ~Image'.orphaned /\ ~Image'.socks
  BY ImageFieldsNext DEF ImageShows
<1>2. SameElsewhere(Image', WithoutVpn(Image))
  BY <1>1, ImageFields, ImageFieldsNext, WithoutVpnFields DEF SameElsewhere, Runtime, ImageShows
<1> QED
  BY <1>1, <1>2, ImageFields, ImageFieldsNext, WithoutVpnFields, RuntimesEqual DEF ImageShows
-----------------------------------------------------------------------------
\* The outcomes that RootHelper lists.

LEMMA PromisedIs ==
    ASSUME NEW h \in Helpers, NEW r, NEW n, r = helper[h].before, n = helper[h].node
    PROVE  /\ helper[h].op = "add"    => Promised(h) = NamespaceCreate(r)
           /\ helper[h].op = "delete" => Promised(h) = NamespaceDelete(r)
           /\ helper[h].op = "apply"  => Promised(h) = KillswitchApply(r, n)
           /\ helper[h].op = "remove" => Promised(h) = KillswitchRemove(r)
           /\ helper[h].op = "start"  => Promised(h) = OpenvpnStart(r, n)
           /\ helper[h].op = "stop"   => Promised(h) = OpenvpnStop(r)
           /\ helper[h].op = "purge"  => Promised(h) = Purge(r)
<1>1. helper[h].op = "add" => Promised(h) = NamespaceCreate(r)
  BY DEF Promised
<1>2. helper[h].op = "delete" => Promised(h) = NamespaceDelete(r)
  BY DEF Promised
<1>3. helper[h].op = "apply" => Promised(h) = KillswitchApply(r, n)
  BY DEF Promised
<1>4. helper[h].op = "remove" => Promised(h) = KillswitchRemove(r)
  BY DEF Promised
<1>5. helper[h].op = "start" => Promised(h) = OpenvpnStart(r, n)
  BY DEF Promised
<1>6. helper[h].op = "stop" => Promised(h) = OpenvpnStop(r)
  BY DEF Promised
<1>7. helper[h].op = "purge" => Promised(h) = Purge(r)
  BY DEF Promised
<1> QED
  BY <1>1, <1>2, <1>3, <1>4, <1>5, <1>6, <1>7

\* An answer that may be lost is one of two.
LEMMA LostOrNot ==
    ASSUME NEW s
    PROVE  Ok(s) \in Lossy({Ok(s)}) /\ Fail(s) \in Lossy({Ok(s)})
<1>1. Ok(s).rt = s
  BY DEF Ok
<1> QED
  BY <1>1 DEF Lossy

LEMMA AnyLostOrNot ==
    ASSUME NEW S, NEW s \in S
    PROVE  /\ Ok(s) \in Lossy({Ok(x) : x \in S})
           /\ Fail(s) \in Lossy({Ok(x) : x \in S})
<1>1. Ok(s).rt = s /\ Ok(s) \in {Ok(x) : x \in S}
  BY DEF Ok
<1> QED
  BY <1>1 DEF Lossy

\* What is left of the rules of r, beside the state file of a node.
Leftover(r, k, x, y) == [r EXCEPT !.ks = k, !.hostRules = x, !.nsRules = y]

LEMMA LeftoverOfRules ==
    ASSUME NEW r, NEW k, NEW H, NEW G, NEW x \in H, NEW y \in G
    PROVE  Leftover(r, k, x, y) \in {Leftover(r, k, h, g) : h \in H, g \in G}
OBVIOUS

LEMMA ResidueHas ==
    ASSUME NEW r \in Runtime, NEW s \in Runtime, SameElsewhere(s, r),
           s.hostRules => r.hostRules, s.nsRules => r.nsRules
    PROVE  s \in Residue(r, s.ks)
<1>1. PICK H, G : H = {FALSE, r.hostRules} /\ G = {FALSE, r.nsRules}
  OBVIOUS
<1>2. Residue(r, s.ks) = {Leftover(r, s.ks, h, g) : h \in H, g \in G}
  BY <1>1 DEF Residue, Leftover
<1>3. PICK x \in H, y \in G : x = s.hostRules /\ y = s.nsRules
  BY <1>1 DEF Runtime
<1>4. Leftover(r, s.ks, x, y) \in Residue(r, s.ks)
  BY <1>2, LeftoverOfRules
<1>5. s = Leftover(r, s.ks, x, y)
  BY <1>3, RuntimesEqual DEF Leftover, SameElsewhere, Runtime
<1> QED
  BY <1>4, <1>5

LEMMA LeftIsResidue ==
    ASSUME NEW r \in Runtime, NEW k, NEW i \in Runtime, LeftOf(r, k, i)
    PROVE  i \in Residue(r, k)
BY ResidueHas DEF LeftOf

LEMMA KillswitchApplyHas ==
    ASSUME NEW r \in Runtime, NEW n, r.ns, ~HasProcess(r)
    PROVE  /\ Fail(r) \in KillswitchApply(r, n)
           /\ \A s \in Residue(r, r.ks) \cup Residue(r, NoNode) :
                 Fail(s) \in KillswitchApply(r, n)
           /\ \A s \in Residue(WithKillswitch(r, n), n)
                        \cup Residue(WithKillswitch(r, n), NoNode) :
                 Fail(s) \in KillswitchApply(r, n)
           /\ Ok(WithKillswitch(r, n)) \in KillswitchApply(r, n)
<1>1. KillswitchApply(r, n) =
        {Fail(s) : s \in Residue(r, r.ks) \cup Residue(r, NoNode)
                          \cup Residue(WithKillswitch(r, n), n)
                          \cup Residue(WithKillswitch(r, n), NoNode)}
         \cup Lossy({Ok(WithKillswitch(r, n))})
  BY DEF KillswitchApply
<1>2. r \in Residue(r, r.ks)
  BY ResidueHas DEF SameElsewhere
<1> QED
  BY <1>1, <1>2, LostOrNot

LEMMA KillswitchRemoveHas ==
    ASSUME NEW r \in Runtime
    PROVE  /\ Fail(r) \in KillswitchRemove(r)
           /\ ~HasProcess(r) /\ r.ks = NoNode => Ok(r) \in KillswitchRemove(r)
           /\ ~HasProcess(r) /\ r.ks # NoNode =>
                 /\ \A s \in Residue(r, r.ks) : Fail(s) \in KillswitchRemove(r)
                 /\ \A s \in Residue(r, NoNode) : Ok(s) \in KillswitchRemove(r)
<1>1. CASE HasProcess(r)
  BY <1>1 DEF KillswitchRemove
<1>2. CASE ~HasProcess(r) /\ r.ks = NoNode
  BY <1>2 DEF KillswitchRemove
<1>3. CASE ~HasProcess(r) /\ r.ks # NoNode
  <2>1. KillswitchRemove(r) =
          {Fail(s) : s \in Residue(r, r.ks)} \cup Lossy({Ok(s) : s \in Residue(r, NoNode)})
    BY <1>3 DEF KillswitchRemove
  <2>2. r \in Residue(r, r.ks)
    BY ResidueHas DEF SameElsewhere
  <2> QED
    BY <1>3, <2>1, <2>2, AnyLostOrNot
<1> QED
  BY <1>1, <1>2, <1>3

LEMMA OpenvpnStartHas ==
    ASSUME NEW r \in Runtime, NEW n
    PROVE  /\ Fail(r) \in OpenvpnStart(r, n)
           /\ KillswitchActive(r) /\ r.ks = n =>
                 /\ r.vpn # NoNode => Ok(r) \in OpenvpnStart(r, n)
                 /\ r.vpn = NoNode =>
                       \A s : s = [r EXCEPT !.vpn = n] =>
                           Ok(s) \in OpenvpnStart(r, n) /\ Fail(s) \in OpenvpnStart(r, n)
<1>1. Fail(r) \in OpenvpnStart(r, n)
  BY DEF OpenvpnStart
<1>2. ASSUME KillswitchActive(r), r.ks = n PROVE OpenvpnSpawn(r, n) \subseteq OpenvpnStart(r, n)
  <2>1. Ok(r) \in OpenvpnAsk(r, n) /\ Ok(r).ok /\ Ok(r).rt = r
    BY <1>2 DEF OpenvpnAsk, Ok
  <2> QED
    BY <2>1 DEF OpenvpnStart
<1>3. CASE KillswitchActive(r) /\ r.ks = n /\ r.vpn # NoNode
  <2>1. Ok(r) \in OpenvpnSpawn(r, n)
    BY <1>3 DEF OpenvpnSpawn
  <2> QED
    BY <1>1, <1>2, <1>3, <2>1
<1>4. CASE KillswitchActive(r) /\ r.ks = n /\ r.vpn = NoNode
  <2>1. \A s : s = [r EXCEPT !.vpn = n] => OpenvpnSpawn(r, n) = {Fail(r)} \cup Lossy({Ok(s)})
    BY <1>4 DEF OpenvpnSpawn, KillswitchActive
  <2> QED
    BY <1>1, <1>2, <1>4, <2>1, LostOrNot
<1> QED
  BY <1>1, <1>3, <1>4

LEMMA OpenvpnStopHas ==
    ASSUME NEW r
    PROVE  /\ Fail(r) \in OpenvpnStop(r)
           /\ Ok(WithoutVpn(r)) \in OpenvpnStop(r) /\ Fail(WithoutVpn(r)) \in OpenvpnStop(r)
BY LostOrNot DEF OpenvpnStop

LEMMA PurgeHas ==
    ASSUME NEW r \in Runtime, ~r.socks
    PROVE  /\ Fail(r) \in Purge(r) /\ Fail(WithoutVpn(r)) \in Purge(r)
           /\ \A s \in Residue(WithoutVpn(r), r.ks) \cup Residue(WithoutVpn(r), NoNode) :
                 Fail(s) \in Purge(r)
           /\ \A s \in Residue(WithoutVpn(r), NoNode) : Ok(WithoutNamespace(s)) \in Purge(r)
<1>1. WithoutVpn(WithoutSocks(r)) = WithoutVpn(r) /\ WithoutVpn(r).ks = r.ks
  BY WithoutBoth, WithoutVpnFields
<1> DEFINE rest == Residue(WithoutVpn(r), NoNode)
           gone == {WithoutNamespace(s) : s \in rest}
<1>2. Purge(r) =
        {Fail(s) : s \in {r, WithoutSocks(r), WithoutVpn(r)}
                         \cup Residue(WithoutVpn(r), r.ks) \cup rest}
        \cup Lossy({Ok(WithoutNamespace(s)) : s \in rest})
  BY <1>1 DEF Purge
<1>3. {Ok(WithoutNamespace(s)) : s \in rest} = {Ok(x) : x \in gone}
  OBVIOUS
<1> QED
  BY <1>2, <1>3, AnyLostOrNot

LEMMA NamespacesHave ==
    ASSUME NEW r \in Runtime
    PROVE  /\ Fail(r) \in NamespaceCreate(r) /\ Fail(r) \in NamespaceDelete(r)
           /\ ~r.ns => \A s : s = [r EXCEPT !.ns = TRUE, !.nsRules = FALSE] =>
                           Ok(s) \in NamespaceCreate(r)
           /\ \A s : s = (IF r.ns THEN WithoutNamespace(r) ELSE r) =>
                           Ok(s) \in NamespaceDelete(r)
<1>1. Fail(r) \in NamespaceCreate(r) /\ Fail(r) \in NamespaceDelete(r)
  BY DEF NamespaceCreate, NamespaceDelete
<1>2. ASSUME ~r.ns, NEW s, s = [r EXCEPT !.ns = TRUE, !.nsRules = FALSE]
      PROVE  Ok(s) \in NamespaceCreate(r)
  <2>1. NamespaceCreate(r) = {Fail(r)} \cup Lossy({Ok(s)})
    BY <1>2 DEF NamespaceCreate
  <2> QED
    BY <2>1, LostOrNot
<1>3. ASSUME NEW s, s = (IF r.ns THEN WithoutNamespace(r) ELSE r)
      PROVE  Ok(s) \in NamespaceDelete(r)
  <2>1. NamespaceDelete(r) = {Fail(r)} \cup Lossy({Ok(s)})
    BY <1>3 DEF NamespaceDelete
  <2> QED
    BY <2>1, LostOrNot
<1> QED
  BY <1>1, <1>2, <1>3

-----------------------------------------------------------------------------
\* Wherever a lone helper ends without success, RootHelper lists what it leaves.

LEMMA ApplyFails ==
    ASSUME NEW r \in Runtime, NEW i \in Runtime, NEW n \in Nodes, ~r.socks,
           NEW at \in PlacesOf["apply"], Halfway("apply", at, n, r, i),
           at \in AfterVpn => i.vpn = NoNode
    PROVE  Fail(i) \in KillswitchApply(r, n)
<1>1. CASE at = "check"
  <2>1. i = r
    BY <1>1 DEF Halfway, Untouched
  <2>2. CASE ~r.ns \/ HasProcess(r)
    BY <2>1, <2>2 DEF KillswitchApply
  <2>3. CASE r.ns /\ ~HasProcess(r)
    BY <2>1, <2>3, KillswitchApplyHas
  <2> QED
    BY <2>2, <2>3
<1>2. CASE at # "check"
  <2>1. at \in {"clear", "forget", "write"} \cup Installing
    BY <1>2 DEF PlacesOf, Installing
  <2>2. r.ns /\ i.vpn = NoNode
    BY <1>2, <2>1 DEF Halfway, AfterVpn, Installing
  <2>3. i.vpn = r.vpn
    BY <2>1 DEF Halfway, Untouched, LeftOf, SameElsewhere
  <2>4. ~HasProcess(r)
    BY <2>2, <2>3 DEF HasProcess
  <2>5. CASE at = "clear"
    BY <2>2, <2>4, <2>5, KillswitchApplyHas DEF Halfway, Untouched
  <2>6. CASE at = "forget"
    <3>1. i \in Residue(r, r.ks)
      BY <2>6, LeftIsResidue DEF Halfway
    <3> QED
      BY <2>2, <2>4, <3>1, KillswitchApplyHas
  <2>7. CASE at = "write"
    <3>1. i \in Residue(r, NoNode)
      BY <2>7, LeftIsResidue DEF Halfway
    <3> QED
      BY <2>2, <2>4, <3>1, KillswitchApplyHas
  <2>8. CASE at \in Installing
    <3>1. SameElsewhere(i, r) /\ i.ks = n
      BY <2>8 DEF Halfway
    <3>2. /\ WithKillswitch(r, n) \in Runtime /\ SameElsewhere(i, WithKillswitch(r, n))
          /\ WithKillswitch(r, n).hostRules /\ WithKillswitch(r, n).nsRules
      BY <3>1 DEF WithKillswitch, SameElsewhere, Runtime
    <3>3. i \in Residue(WithKillswitch(r, n), n)
      BY <3>1, <3>2, ResidueHas
    <3> QED
      BY <2>2, <2>4, <3>3, KillswitchApplyHas
  <2> QED
    BY <2>1, <2>5, <2>6, <2>7, <2>8
<1> QED
  BY <1>1, <1>2

LEMMA RemoveFails ==
    ASSUME NEW r \in Runtime, NEW i \in Runtime, NEW n, ~r.socks,
           NEW at \in PlacesOf["remove"], Halfway("remove", at, n, r, i),
           at \in AfterVpn => i.vpn = NoNode
    PROVE  Fail(i) \in KillswitchRemove(r)
<1>1. at \in {"look", "clean", "forget"}
  BY DEF PlacesOf
<1>2. CASE at \in {"look", "clean"}
  BY <1>2, KillswitchRemoveHas DEF Halfway, Untouched
<1>3. CASE at = "forget"
  <2>1. LeftOf(r, r.ks, i) /\ r.ks # NoNode
    BY <1>3 DEF Halfway
  <2>2. ~HasProcess(r)
    BY <1>3, <2>1 DEF HasProcess, LeftOf, SameElsewhere, AfterVpn
  <2>3. i \in Residue(r, r.ks)
    BY <2>1, LeftIsResidue
  <2> QED
    BY <2>1, <2>2, <2>3, KillswitchRemoveHas
<1> QED
  BY <1>1, <1>2, <1>3

LEMMA StopFails ==
    ASSUME NEW r, NEW i, NEW n,
           NEW at \in PlacesOf["stop"], Halfway("stop", at, n, r, i)
    PROVE  Fail(i) \in OpenvpnStop(r)
<1>1. at \in {"find", "unlink"} \cup Stopping
  BY DEF PlacesOf, Stopping
<1>2. i \in {r, WithoutVpn(r)}
  BY <1>1 DEF Halfway, Untouched
<1> QED
  BY <1>2, OpenvpnStopHas

LEMMA PurgeFails ==
    ASSUME NEW r \in Runtime, NEW i \in Runtime, NEW n, ~r.socks,
           NEW at \in PlacesOf["purge"], Halfway("purge", at, n, r, i)
    PROVE  Fail(i) \in Purge(r)
<1>1. at \in {"find", "unlink", "drop", "forget", "unname"} \cup Stopping
  BY DEF PlacesOf, Stopping
<1>2. CASE at \in {"find", "unlink", "drop"} \cup Stopping
  <2>1. i \in {r, WithoutVpn(r)}
    BY <1>2 DEF Halfway, Untouched
  <2> QED
    BY <2>1, PurgeHas
<1>3. CASE at = "forget"
  <2>1. i \in Residue(WithoutVpn(r), r.ks)
    BY <1>3, LeftIsResidue, WithoutVpnFields DEF Halfway
  <2> QED
    BY <2>1, PurgeHas
<1>4. CASE at = "unname"
  <2>1. i \in Residue(WithoutVpn(r), NoNode)
    BY <1>4, LeftIsResidue, WithoutVpnFields DEF Halfway
  <2> QED
    BY <2>1, PurgeHas
<1> QED
  BY <1>1, <1>2, <1>3, <1>4

\* So a helper may fail at any place.
LEMMA MidwayFails ==
    ASSUME TypeOK, NEW h \in Helpers, Busy(h), NEW i \in Runtime, ~helper[h].before.socks,
           Halfway(helper[h].op, helper[h].at, helper[h].node, helper[h].before, i),
           helper[h].at \in AfterVpn => i.vpn = NoNode
    PROVE  Fail(i) \in Promised(h)
<1> DEFINE op == helper[h].op
           at == helper[h].at
           n == helper[h].node
           r == helper[h].before
<1>0. /\ op \in Operations \cup {"none"} /\ r \in Runtime /\ at \in PlacesOf[op]
      /\ op \in {"apply", "start"} => n \in Nodes
  BY DEF TypeOK, Helper
<1>1. at # "idle" /\ Halfway(op, at, n, r, i) /\ ~r.socks
      /\ (at \in AfterVpn => i.vpn = NoNode)
  BY DEF Busy
<1>2. /\ op = "add"    => Promised(h) = NamespaceCreate(r)
      /\ op = "delete" => Promised(h) = NamespaceDelete(r)
      /\ op = "apply"  => Promised(h) = KillswitchApply(r, n)
      /\ op = "remove" => Promised(h) = KillswitchRemove(r)
      /\ op = "start"  => Promised(h) = OpenvpnStart(r, n)
      /\ op = "stop"   => Promised(h) = OpenvpnStop(r)
      /\ op = "purge"  => Promised(h) = Purge(r)
  BY PromisedIs
<1> HIDE DEF op, at, n, r
<1>3. op # "none"
  BY <1>0, <1>1 DEF PlacesOf
<1>4. CASE op \in {"add", "delete", "start"}
  <2>1. at \in Untouched
    BY <1>0, <1>4 DEF PlacesOf, Untouched
  <2>2. i = r
    BY <1>1, <2>1 DEF Halfway
  <2> QED
    BY <1>0, <1>2, <1>4, <2>2, NamespacesHave, OpenvpnStartHas
<1>5. CASE op = "apply"
  BY <1>0, <1>1, <1>2, <1>5, ApplyFails
<1>6. CASE op = "remove"
  BY <1>0, <1>1, <1>2, <1>6, RemoveFails
<1>7. CASE op = "stop"
  BY <1>0, <1>1, <1>2, <1>7, StopFails
<1>8. CASE op = "purge"
  BY <1>0, <1>1, <1>2, <1>8, PurgeFails
<1> QED
  BY <1>0, <1>3, <1>4, <1>5, <1>6, <1>7, <1>8 DEF Operations

-----------------------------------------------------------------------------
\* The steps of a lone helper.

\* A helper in the middle of its operation, with what is known of the machine.
Lone(h) ==
    /\ ~startRaced /\ HelperInv /\ StartsAloneSuffice
    /\ RulesInside /\ Busy(h) /\ Midway(h)

\* It goes on to a place,
GoesOn(h, place) ==
    /\ Goto(h, place) \/ (Aim(h) /\ place = "term")
    /\ Halfway(helper[h].op, place, helper[h].node, helper[h].before, Image')

\* or it ends in an outcome that RootHelper lists.
EndsAsListed(h) ==
    \/ Exit(h, TRUE) /\ Ok(Image') \in Promised(h)
    \/ Exit(h, FALSE) /\ Fail(Image') \in Promised(h)

AsListed(h) == EndsAsListed(h) \/ \E place : GoesOn(h, place)

\* Whose the places are.
LEMMA PlaceOwners ==
    ASSUME NEW op \in Operations \cup {"none"}, NEW at \in PlacesOf[op]
    PROVE  /\ at = "add" => op = "add"
           /\ at = "delete" => op = "delete"
           /\ at \in {"check", "clear", "write"} \cup Installing => op = "apply"
           /\ at \in {"look", "clean"} => op = "remove"
           /\ at \in {"guarded"} \cup PastGuard => op = "start"
           /\ at \in {"find", "unlink"} \cup Stopping => op \in {"stop", "purge"}
           /\ at \in {"drop", "unname"} => op = "purge"
           /\ at = "forget" => op \in {"apply", "remove", "purge"}
<1>1. CASE op = "none"
  BY <1>1 DEF PlacesOf, Installing, PastGuard, Stopping
<1>2. CASE op = "add"
  BY <1>2 DEF PlacesOf, Installing, PastGuard, Stopping
<1>3. CASE op = "delete"
  BY <1>3 DEF PlacesOf, Installing, PastGuard, Stopping
<1>4. CASE op = "apply"
  BY <1>4 DEF PlacesOf, Installing, PastGuard, Stopping
<1>5. CASE op = "remove"
  BY <1>5 DEF PlacesOf, Installing, PastGuard, Stopping
<1>6. CASE op = "start"
  BY <1>6 DEF PlacesOf, Installing, PastGuard, Stopping
<1>7. CASE op = "stop"
  BY <1>7 DEF PlacesOf, Installing, PastGuard, Stopping
<1>8. CASE op = "purge"
  BY <1>8 DEF PlacesOf, Installing, PastGuard, Stopping
<1> QED
  BY <1>1, <1>2, <1>3, <1>4, <1>5, <1>6, <1>7, <1>8 DEF Operations

\* What a lone helper may rely on.
LEMMA LoneFacts ==
    ASSUME TypeOK, NEW h \in Helpers, Lone(h)
    PROVE  /\ helper[h].op \in Operations /\ helper[h].at \in PlacesOf[helper[h].op]
           /\ helper[h].before \in Runtime /\ ~helper[h].before.socks
           /\ Image \in Runtime /\ ~Image.socks
           /\ Halfway(helper[h].op, helper[h].at, helper[h].node, helper[h].before, Image)
           /\ helper[h].at \in AfterVpn => Live = {} /\ Image.vpn = NoNode
<1>1. /\ helper[h].op \in Operations \cup {"none"} /\ helper[h].at \in PlacesOf[helper[h].op]
      /\ helper[h].before \in Runtime /\ helper[h].at # "idle"
  BY DEF TypeOK, Helper, Lone, Busy
<1>2. helper[h].op # "none"
  BY <1>1 DEF PlacesOf
<1>3. helper[h].at \in AfterVpn => Live = {}
  BY DEF Lone, HelperInv, NothingLeft
<1> QED
  BY <1>1, <1>2, <1>3, ImageFields, NothingLives DEF ImageShows, Lone, Midway

\* A helper that is killed, or finds a reason to give up, before it does anything.
LEMMA LoneGivesUp ==
    ASSUME TypeOK, TypeOK', NEW h \in Helpers, Lone(h), m' = m
    PROVE  Image' = Image /\ Fail(Image') \in Promised(h)
<1>1. Image' = Image
  BY ImageFollows
<1>2. Fail(Image) \in Promised(h)
  BY LoneFacts, MidwayFails DEF Lone
<1> QED
  BY <1>1, <1>2

LEMMA LoneLooks ==
    ASSUME TypeOK, TypeOK', NEW h \in Helpers, Lone(h),
           Check(h) \/ Look(h) \/ AskGuard(h) \/ AskRunning(h) \/ Deadline(h) \/ Abort(h)
           \/ Verify(h)
    PROVE  AsListed(h)
<1> DEFINE op == helper[h].op
           at == helper[h].at
           n == helper[h].node
           r == helper[h].before
<1>0. m' = m
  BY DEF Check, Look, AskGuard, AskRunning, Deadline, Abort, Verify
<1>1. Image' = Image /\ Fail(Image') \in Promised(h)
  BY <1>0, LoneGivesUp
<1>2. SUFFICES ASSUME ~Exit(h, FALSE) PROVE AsListed(h)
  BY <1>1 DEF AsListed, EndsAsListed
<1>3. /\ op \in Operations /\ at \in PlacesOf[op] /\ Halfway(op, at, n, r, Image)
      /\ r \in Runtime /\ Image \in Runtime /\ ~Image.socks /\ ~r.socks
      /\ (at \in AfterVpn => Live = {} /\ Image.vpn = NoNode)
  BY LoneFacts
<1>4. /\ op = "apply" => Promised(h) = KillswitchApply(r, n)
      /\ op = "start" => Promised(h) = OpenvpnStart(r, n)
  BY PromisedIs
<1>5. ImageShows
  BY ImageFields
<1>6. \A place : Goto(h, place) /\ Halfway(op, place, n, r, Image) => AsListed(h)
  BY <1>1 DEF AsListed, GoesOn
<1>7. Exit(h, TRUE) /\ Ok(Image) \in Promised(h) => AsListed(h)
  BY <1>1 DEF AsListed, EndsAsListed
<1>8. At(h, at)
  BY DEF At
<1> HIDE DEF op, at, n, r
<1>9. CASE Check(h)
  <2>1. at = "check" /\ Goto(h, "clear") /\ m.ns
    BY <1>2, <1>9 DEF Check, At, at
  <2>2. op = "apply" /\ Image = r /\ r.ns
    BY <1>3, <1>5, <2>1, PlaceOwners DEF Halfway, Untouched, ImageShows
  <2>3. Halfway(op, "clear", n, r, Image)
    BY <2>2 DEF Halfway, Untouched, Stopping, Installing
  <2> QED
    BY <1>6, <2>1, <2>3
<1>10. CASE Look(h)
  <2>1. at = "look" /\ Goto(h, "clean")
    BY <1>2, <1>10 DEF Look, At, at
  <2>2. op = "remove" /\ Image = r
    BY <1>3, <2>1, PlaceOwners DEF Halfway, Untouched
  <2>3. Halfway(op, "clean", n, r, Image)
    BY <2>2 DEF Halfway, Untouched, Stopping, Installing
  <2> QED
    BY <1>6, <2>1, <2>3
<1>11. CASE AskGuard(h)
  <2>1. at = "guarded" /\ Goto(h, "running")
    BY <1>2, <1>11 DEF AskGuard, At, at
  <2>2. op = "start" /\ Image = r
    BY <1>3, <2>1, PlaceOwners DEF Halfway, Untouched
  <2>3. Halfway(op, "running", n, r, Image)
    BY <2>2 DEF Halfway, Untouched, Stopping, Installing
  <2> QED
    BY <1>6, <2>1, <2>3
<1>12. CASE AskRunning(h)
  <2>1. at = "running" /\ op = "start" /\ Image = r
    BY <1>3, <1>12, PlaceOwners DEF AskRunning, At, at, Halfway, Untouched, PastGuard
  <2>2. CASE Managed = NoPid
    <3>1. Goto(h, "stage")
      BY <1>12, <2>2 DEF AskRunning
    <3>2. Halfway(op, "stage", n, r, Image)
      BY <2>1 DEF Halfway, Untouched, Stopping, Installing
    <3> QED
      BY <1>6, <3>1, <3>2
  <2>3. CASE Managed # NoPid
    <3>1. Exit(h, TRUE)
      BY <1>12, <2>3 DEF AskRunning
    <3>2. Active /\ m.fw = n
      BY <2>1 DEF Lone, HelperInv, StartGuarded, PastGuard, at, n
    <3>3. KillswitchActive(r) /\ r.ks = n /\ r.vpn # NoNode
      BY <1>5, <2>1, <2>3, <3>2 DEF ImageShows, KillswitchActive, Active
    <3>4. Ok(Image) \in Promised(h)
      BY <1>3, <1>4, <2>1, <3>3, OpenvpnStartHas
    <3> QED
      BY <1>7, <3>1, <3>4
  <2> QED
    BY <2>2, <2>3
<1>13. CASE Deadline(h)
  <2>1. at = "deadline" /\ Goto(h, "kill")
    BY <1>2, <1>13 DEF Deadline, At, at
  <2>2. op \in {"stop", "purge"} /\ Image \in {r, WithoutVpn(r)}
    BY <1>3, <2>1, PlaceOwners DEF Halfway, Stopping
  <2>3. Halfway(op, "kill", n, r, Image)
    BY <2>2 DEF Halfway, Untouched, Stopping, Installing
  <2> QED
    BY <1>6, <2>1, <2>3
<1>14. CASE Verify(h)
  <2>1. at = "verify"
    BY <1>14 DEF Verify, At, at
  <2>2. op = "apply" /\ SameElsewhere(Image, r) /\ Image.ks = n /\ r.ns
    BY <1>3, <2>1, PlaceOwners DEF Halfway, Installing
  <2>3. CASE Active /\ Exit(h, TRUE)
    <3>1. Exit(h, TRUE)
      BY <2>3
    <3>2. Image.hostRules /\ Image.nsRules
      BY <1>5, <2>3 DEF Active, ImageShows
    <3>3. ~HasProcess(r)
      BY <1>3, <2>1, <2>2 DEF HasProcess, SameElsewhere, AfterVpn
    <3>4. n \in Nodes \cup {NoNode}
      BY <1>3, <2>2 DEF Runtime
    <3>5. /\ WithKillswitch(r, n) \in Runtime
          /\ SameElsewhere(Image, WithKillswitch(r, n)) /\ WithKillswitch(r, n).ks = n
          /\ WithKillswitch(r, n).hostRules /\ WithKillswitch(r, n).nsRules
      BY <1>3, <2>2, <3>4 DEF WithKillswitch, SameElsewhere, Runtime
    <3>6. Image.hostRules = WithKillswitch(r, n).hostRules
          /\ Image.nsRules = WithKillswitch(r, n).nsRules
      BY <1>3, <3>2, <3>5 DEF Runtime
    <3>7. Image = WithKillswitch(r, n)
      BY <1>3, <2>2, <3>5, <3>6, RuntimesEqual
    <3>8. Ok(Image) \in Promised(h)
      BY <1>3, <1>4, <2>2, <3>3, <3>7, KillswitchApplyHas
    <3> QED
      BY <1>7, <3>1, <3>8
  <2>4. CASE Goto(h, "undo")
    <3>1. Halfway(op, "undo", n, r, Image)
      BY <2>2 DEF Halfway, Untouched, Stopping, Installing
    <3> QED
      BY <1>6, <2>4, <3>1
  <2> QED
    BY <1>14, <2>3, <2>4 DEF Verify
<1>15. CASE Abort(h)
  BY <1>2, <1>15 DEF Abort
<1> QED
  BY <1>9, <1>10, <1>11, <1>12, <1>13, <1>14, <1>15

\* A cleanup takes rules away and nothing else.
LEMMA CleanedImage ==
    ASSUME TypeOK, TypeOK', m' \in Cleaned
    PROVE  /\ SameElsewhere(Image', Image) /\ Image'.ks = Image.ks
           /\ Image'.hostRules => Image.hostRules
           /\ Image'.nsRules => Image.nsRules
<1>1. PICK a \in {{}, m.hostRules}, b \in {{}, m.nsRules} :
          m' = [m EXCEPT !.hostRules = a, !.nsRules = b]
  BY DEF Cleaned
<1>2. /\ m'.vpn = m.vpn /\ m'.pidFile = m.pidFile /\ m'.ns = m.ns /\ m'.fw = m.fw
      /\ m'.hostRules = a /\ m'.nsRules = b
  BY <1>1 DEF TypeOK, Machine
<1>3. SameElsewhere(Image', Image)
  BY <1>2, ImageFollows
<1>4. ImageShows /\ ImageShows'
  BY ImageFields, ImageFieldsNext
<1> QED
  BY <1>1, <1>2, <1>3, <1>4 DEF ImageShows

LEMMA LoneCleans ==
    ASSUME TypeOK, TypeOK', NEW h \in Helpers, Lone(h),
           Clear(h) \/ Clean(h) \/ Drop(h) \/ Undo(h)
    PROVE  AsListed(h)
<1> DEFINE op == helper[h].op
           at == helper[h].at
           n == helper[h].node
           r == helper[h].before
<1>1. ImageShows /\ ImageShows'
  BY ImageFields, ImageFieldsNext
<1>3. /\ op \in Operations /\ at \in PlacesOf[op] /\ Halfway(op, at, n, r, Image)
      /\ r \in Runtime /\ Image \in Runtime /\ ~Image.socks /\ ~r.socks
      /\ (at \in AfterVpn => Live = {} /\ Image.vpn = NoNode)
  BY LoneFacts
<1>4. /\ op = "apply" => Promised(h) = KillswitchApply(r, n) /\ n \in Nodes
      /\ op = "remove" => Promised(h) = KillswitchRemove(r)
      /\ op = "purge" => Promised(h) = Purge(r)
  BY PromisedIs DEF TypeOK
<1>6. \A place : Goto(h, place) /\ Halfway(op, place, n, r, Image') => AsListed(h)
  BY DEF AsListed, GoesOn
<1>7. /\ Exit(h, TRUE) /\ Ok(Image') \in Promised(h) => AsListed(h)
      /\ Exit(h, FALSE) /\ Fail(Image') \in Promised(h) => AsListed(h)
  BY DEF AsListed, EndsAsListed
<1>8. Image' \in Runtime
  BY <1>1 DEF ImageShows
<1> HIDE DEF op, at, n, r
<1>9. CASE Clear(h)
  <2>1. at = "clear"
    BY <1>9 DEF Clear, At, at
  <2>2. op = "apply" /\ Image = r /\ r.ns /\ ~HasProcess(r)
    BY <1>3, <2>1, PlaceOwners DEF Halfway, Untouched, HasProcess, AfterVpn
  <2>3. CASE m.fw = NoNode
    <3>1. Goto(h, "write") /\ m' = m
      BY <1>9, <2>3 DEF Clear
    <3>2. Image' = r /\ r.ks = NoNode
      BY <1>1, <2>2, <2>3, <3>1, ImageFollows DEF ImageShows
    <3>3. Halfway(op, "write", n, r, Image')
      BY <2>2, <3>2 DEF Halfway, Untouched, Stopping, Installing, LeftOf, SameElsewhere
    <3> QED
      BY <1>6, <3>1, <3>3
  <2>4. CASE m.fw # NoNode
    <3>1. m' \in Cleaned /\ (Exit(h, FALSE) \/ Goto(h, "forget"))
      BY <1>9, <2>4 DEF Clear, CleanThen
    <3>2. LeftOf(r, r.ks, Image') /\ r.ks # NoNode
      BY <1>1, <2>2, <2>4, <3>1, CleanedImage DEF ImageShows, LeftOf
    <3>3. Fail(Image') \in Promised(h)
      <4>1. Image' \in Residue(r, r.ks)
        BY <1>3, <1>8, <3>2, LeftIsResidue
      <4> QED
        BY <1>3, <1>4, <2>2, <4>1, KillswitchApplyHas
    <3>4. Halfway(op, "forget", n, r, Image')
      BY <2>2, <3>2 DEF Halfway, Untouched, Stopping, Installing
    <3> QED
      BY <1>6, <1>7, <3>1, <3>3, <3>4
  <2> QED
    BY <2>3, <2>4
<1>10. CASE Clean(h)
  <2>1. at = "clean"
    BY <1>10 DEF Clean, At, at
  <2>2. op = "remove" /\ Image = r /\ ~HasProcess(r)
    BY <1>3, <2>1, PlaceOwners DEF Halfway, Untouched, HasProcess, AfterVpn
  <2>3. CASE m.fw = NoNode
    <3>1. Exit(h, TRUE) /\ m' = m
      BY <1>10, <2>3 DEF Clean
    <3>2. Image' = r /\ r.ks = NoNode
      BY <1>1, <2>2, <2>3, <3>1, ImageFollows DEF ImageShows
    <3>3. Ok(Image') \in Promised(h)
      BY <1>3, <1>4, <2>2, <3>2, KillswitchRemoveHas
    <3> QED
      BY <1>7, <3>1, <3>3
  <2>4. CASE m.fw # NoNode
    <3>1. m' \in Cleaned /\ (Exit(h, FALSE) \/ Goto(h, "forget"))
      BY <1>10, <2>4 DEF Clean, CleanThen
    <3>2. LeftOf(r, r.ks, Image') /\ r.ks # NoNode
      BY <1>1, <2>2, <2>4, <3>1, CleanedImage DEF ImageShows, LeftOf
    <3>3. Fail(Image') \in Promised(h)
      <4>1. Image' \in Residue(r, r.ks)
        BY <1>3, <1>8, <3>2, LeftIsResidue
      <4> QED
        BY <1>3, <1>4, <2>2, <3>2, <4>1, KillswitchRemoveHas
    <3>4. Halfway(op, "forget", n, r, Image')
      BY <2>2, <3>2 DEF Halfway, Untouched, Stopping, Installing
    <3> QED
      BY <1>6, <1>7, <3>1, <3>3, <3>4
  <2> QED
    BY <2>3, <2>4
<1>11. CASE Drop(h)
  <2>1. at = "drop"
    BY <1>11 DEF Drop, At, at
  <2>2. op = "purge" /\ Image = WithoutVpn(r)
    BY <1>3, <2>1, PlaceOwners DEF Halfway
  <2>3. WithoutVpn(r) \in Runtime /\ WithoutVpn(r).ks = r.ks
    BY <1>3, WithoutVpnFields
  <2>4. m' \in Cleaned /\ (Exit(h, FALSE) \/ Goto(h, "forget"))
    BY <1>11 DEF Drop, CleanThen
  <2>5. LeftOf(WithoutVpn(r), r.ks, Image')
    BY <2>2, <2>3, <2>4, CleanedImage DEF LeftOf
  <2>6. Fail(Image') \in Promised(h)
    <3>1. Image' \in Residue(WithoutVpn(r), r.ks)
      BY <1>8, <2>3, <2>5, LeftIsResidue
    <3> QED
      BY <1>3, <1>4, <2>2, <3>1, PurgeHas
  <2>7. Halfway(op, "forget", n, r, Image')
    BY <2>2, <2>5 DEF Halfway, Untouched, Stopping, Installing
  <2> QED
    BY <1>6, <1>7, <2>4, <2>6, <2>7
<1>12. CASE Undo(h)
  <2>1. at = "undo"
    BY <1>12 DEF Undo, At, at
  <2>2. op = "apply" /\ SameElsewhere(Image, r) /\ Image.ks = n /\ r.ns
    BY <1>3, <2>1, PlaceOwners DEF Halfway, Installing
  <2>3. m' \in Cleaned /\ (Exit(h, FALSE) \/ Goto(h, "unwrite"))
    BY <1>12 DEF Undo, CleanThen
  <2>4. /\ SameElsewhere(Image', r) /\ Image'.ks = n
        /\ Image'.vpn = Image.vpn
    BY <2>2, <2>3, CleanedImage DEF SameElsewhere
  <2>5. Halfway(op, at, n, r, Image')
    BY <2>1, <2>2, <2>4 DEF Halfway, Untouched, Stopping, Installing
  <2>6. Fail(Image') \in Promised(h)
    <3>1. at \in AfterVpn => Image'.vpn = NoNode
      BY <1>3, <2>4
    <3> QED
      BY <1>3, <1>8, <2>5, <3>1, MidwayFails DEF Lone, op, at, n, r
  <2>7. Halfway(op, "unwrite", n, r, Image')
    BY <2>2, <2>4 DEF Halfway, Untouched, Stopping, Installing
  <2> QED
    BY <1>6, <1>7, <2>3, <2>6, <2>7
<1> QED
  BY <1>9, <1>10, <1>11, <1>12

\* The state file of the kill switch, written, filled with rules, taken back.
LEMMA LoneWrites ==
    ASSUME TypeOK, TypeOK', NEW h \in Helpers, Lone(h),
           Forget(h) \/ Write(h) \/ Inside(h) \/ Outside(h) \/ Unwrite(h)
    PROVE  AsListed(h)
<1> DEFINE op == helper[h].op
           at == helper[h].at
           n == helper[h].node
           r == helper[h].before
<1>1. ImageShows /\ ImageShows'
  BY ImageFields, ImageFieldsNext
<1>3. /\ op \in Operations /\ at \in PlacesOf[op] /\ Halfway(op, at, n, r, Image)
      /\ r \in Runtime /\ Image \in Runtime /\ ~Image.socks /\ ~r.socks
      /\ (at \in AfterVpn => Live = {} /\ Image.vpn = NoNode)
  BY LoneFacts
<1>4. /\ op = "apply" => Promised(h) = KillswitchApply(r, n) /\ n \in Nodes
      /\ op = "remove" => Promised(h) = KillswitchRemove(r)
  BY PromisedIs DEF TypeOK
<1>6. \A place : Goto(h, place) /\ Halfway(op, place, n, r, Image') => AsListed(h)
  BY DEF AsListed, GoesOn
<1>7. /\ Exit(h, TRUE) /\ Ok(Image') \in Promised(h) => AsListed(h)
      /\ Exit(h, FALSE) /\ Fail(Image') \in Promised(h) => AsListed(h)
  BY DEF AsListed, EndsAsListed
<1>8. Image' \in Runtime
  BY <1>1 DEF ImageShows
<1>9. at \in AfterVpn
  BY DEF Forget, Write, Inside, Outside, Unwrite, At, AfterVpn, at
<1>10. m \in Machine /\ Image.vpn = NoNode /\ Live = {}
  BY <1>3, <1>9 DEF TypeOK
<1> HIDE DEF op, at, n, r
<1>11. CASE Forget(h)
  <2>1. at = "forget" /\ m' = [m EXCEPT !.fw = NoNode]
    BY <1>11 DEF Forget, At, at
  <2>2. /\ m'.ns = m.ns /\ m'.vpn = m.vpn /\ m'.pidFile = m.pidFile /\ m'.fw = NoNode
        /\ m'.hostRules = m.hostRules /\ m'.nsRules = m.nsRules
    BY <1>10, <2>1 DEF Machine
  <2>3. /\ SameElsewhere(Image', Image) /\ Image'.ks = NoNode
        /\ Image'.hostRules = Image.hostRules /\ Image'.nsRules = Image.nsRules
    BY <1>1, <2>2, ImageFollows DEF ImageShows
  <2>4. op \in {"apply", "remove", "purge"}
    BY <1>3, <2>1, PlaceOwners
  <2>5. CASE op \in {"apply", "remove"}
    <3>1. LeftOf(r, r.ks, Image) /\ r.ks # NoNode
      BY <1>3, <2>1, <2>5 DEF Halfway
    <3>2. LeftOf(r, NoNode, Image')
      BY <2>3, <3>1 DEF LeftOf, SameElsewhere
    <3>4. CASE op = "apply"
      <4>1. Goto(h, "write")
        BY <1>11, <3>4 DEF Forget, op
      <4>2. r.ns
        BY <1>3, <2>1, <3>4 DEF Halfway
      <4>3. Halfway(op, "write", n, r, Image')
        BY <3>2, <3>4, <4>2 DEF Halfway, Untouched, Stopping, Installing
      <4> QED
        BY <1>6, <4>1, <4>3
    <3>5. CASE op = "remove"
      <4>1. Exit(h, TRUE)
        BY <1>11, <3>5 DEF Forget, op
      <4>2. ~HasProcess(r)
        BY <1>3, <1>10, <3>1 DEF HasProcess, LeftOf, SameElsewhere
      <4>3. Image' \in Residue(r, NoNode)
        BY <1>3, <1>8, <3>2, LeftIsResidue
      <4>4. Ok(Image') \in Promised(h)
        BY <1>3, <1>4, <3>1, <3>5, <4>2, <4>3, KillswitchRemoveHas
      <4> QED
        BY <1>7, <4>1, <4>4
    <3> QED
      BY <2>5, <3>4, <3>5
  <2>6. CASE op = "purge"
    <3>1. LeftOf(WithoutVpn(r), r.ks, Image)
      BY <1>3, <2>1, <2>6 DEF Halfway
    <3>2. LeftOf(WithoutVpn(r), NoNode, Image')
      BY <2>3, <3>1 DEF LeftOf, SameElsewhere
    <3>4. Halfway(op, "unname", n, r, Image')
      BY <2>6, <3>2 DEF Halfway, Untouched, Stopping, Installing
    <3>5. Goto(h, "unname")
      BY <1>11, <2>6 DEF Forget, op
    <3> QED
      BY <1>6, <3>4, <3>5
  <2> QED
    BY <2>4, <2>5, <2>6
<1>12. CASE Write(h)
  <2>1. at = "write" /\ m' = [m EXCEPT !.fw = n] /\ Goto(h, "inside")
    BY <1>12 DEF Write, At, at, n
  <2>2. op = "apply" /\ r.ns /\ SameElsewhere(Image, r)
    BY <1>3, <2>1, PlaceOwners DEF Halfway, LeftOf, SameElsewhere
  <2>3. /\ m'.ns = m.ns /\ m'.vpn = m.vpn /\ m'.pidFile = m.pidFile /\ m'.fw = n
    BY <1>10, <2>1 DEF Machine
  <2>4. SameElsewhere(Image', r) /\ Image'.ks = n
    BY <1>1, <2>2, <2>3, ImageFollows DEF ImageShows, SameElsewhere
  <2>5. Halfway(op, "inside", n, r, Image')
    BY <2>2, <2>4 DEF Halfway, Untouched, Stopping, Installing
  <2> QED
    BY <1>6, <2>1, <2>5
<1>13. CASE Inside(h) \/ Outside(h)
  <2>1. at \in {"inside", "outside"}
    BY <1>13 DEF Inside, Outside, At, at
  <2>2. op = "apply" /\ r.ns /\ SameElsewhere(Image, r) /\ Image.ks = n
    BY <1>3, <2>1, PlaceOwners DEF Halfway, Installing
  <2>3. \E place \in {"outside", "verify", "undo"} : Goto(h, place)
    BY <1>13 DEF Inside, Outside
  <2>4. /\ m'.ns = m.ns /\ m'.vpn = m.vpn /\ m'.pidFile = m.pidFile /\ m'.fw = m.fw
    <3>1. CASE Inside(h)
      <4>1. PICK c \in Cleaned :
               m' = [c EXCEPT !.nsRules = @ \cup {helper[h].node}] \/ m' = c
        BY <3>1 DEF Inside
      <4>2. c \in Machine /\ c.vpn = m.vpn
            /\ c.ns = m.ns /\ c.fw = m.fw /\ c.pidFile = m.pidFile
        BY CleanedKeeps
      <4> QED
        BY <4>1, <4>2 DEF Machine
    <3>2. CASE Outside(h)
      BY <1>10, <3>2 DEF Outside, Machine
    <3> QED
      BY <1>13, <3>1, <3>2
  <2>5. SameElsewhere(Image', r) /\ Image'.ks = n
    BY <1>1, <2>2, <2>4, ImageFollows DEF ImageShows, SameElsewhere
  <2>6. \A place \in {"outside", "verify", "undo"} : Halfway(op, place, n, r, Image')
    BY <2>2, <2>5 DEF Halfway, Untouched, Stopping, Installing
  <2> QED
    BY <1>6, <2>3, <2>6
<1>14. CASE Unwrite(h)
  <2>1. at = "unwrite" /\ m' = [m EXCEPT !.fw = NoNode] /\ Exit(h, FALSE)
    BY <1>14 DEF Unwrite, At, at
  <2>2. op = "apply" /\ r.ns /\ SameElsewhere(Image, r)
    BY <1>3, <2>1, PlaceOwners DEF Halfway, Installing
  <2>3. /\ m'.ns = m.ns /\ m'.vpn = m.vpn /\ m'.pidFile = m.pidFile /\ m'.fw = NoNode
    BY <1>10, <2>1 DEF Machine
  <2>4. SameElsewhere(Image', Image) /\ Image'.ks = NoNode
    BY <1>1, <2>3, ImageFollows DEF ImageShows
  <2>5. n \in Nodes \cup {NoNode}
    BY <1>4, <2>2
  <2>6. /\ WithKillswitch(r, n) \in Runtime /\ LeftOf(WithKillswitch(r, n), NoNode, Image')
    BY <1>3, <2>2, <2>4, <2>5 DEF WithKillswitch, SameElsewhere, LeftOf, Runtime
  <2>7. Image' \in Residue(WithKillswitch(r, n), NoNode)
    BY <1>8, <2>6, LeftIsResidue
  <2>8. ~HasProcess(r)
    BY <1>3, <1>10, <2>2 DEF HasProcess, SameElsewhere
  <2>9. Fail(Image') \in Promised(h)
    BY <1>3, <1>4, <2>2, <2>7, <2>8, KillswitchApplyHas
  <2> QED
    BY <1>7, <2>1, <2>9
<1> QED
  BY <1>11, <1>12, <1>13, <1>14

\* The start of OpenVPN.
LEMMA LoneStarts ==
    ASSUME TypeOK, TypeOK', NEW h \in Helpers, Lone(h), Stage(h) \/ Spawn(h)
    PROVE  AsListed(h)
<1> DEFINE op == helper[h].op
           at == helper[h].at
           n == helper[h].node
           r == helper[h].before
<1>1. ImageShows /\ ImageShows'
  BY ImageFields, ImageFieldsNext
<1>3. /\ op \in Operations /\ at \in PlacesOf[op] /\ Halfway(op, at, n, r, Image)
      /\ r \in Runtime /\ Image \in Runtime /\ ~Image.socks /\ ~r.socks
      /\ (at \in AfterVpn => Live = {} /\ Image.vpn = NoNode)
  BY LoneFacts
<1>4. op = "start" => Promised(h) = OpenvpnStart(r, n) /\ n \in Nodes
  BY PromisedIs DEF TypeOK
<1>6. \A place : Goto(h, place) /\ Halfway(op, place, n, r, Image') => AsListed(h)
  BY DEF AsListed, GoesOn
<1>7. /\ Exit(h, TRUE) /\ Ok(Image') \in Promised(h) => AsListed(h)
      /\ Exit(h, FALSE) /\ Fail(Image') \in Promised(h) => AsListed(h)
  BY DEF AsListed, EndsAsListed
<1>8. Image' \in Runtime
  BY <1>1 DEF ImageShows
<1>9. at \in AfterVpn /\ at \in PastGuard
  BY DEF Stage, Spawn, At, AfterVpn, PastGuard, at
<1>10. m \in Machine /\ Image.vpn = NoNode /\ Live = {}
  BY <1>3, <1>9 DEF TypeOK
<1>11. Active /\ m.fw = n
  BY <1>9 DEF Lone, HelperInv, StartGuarded, at, n
<1>12. at = "spawn" => m.staged = n
  BY <1>9 DEF Lone, HelperInv, StartGuarded, at, n
<1> HIDE DEF op, at, n, r
<1>13. op = "start" /\ Image = r
  BY <1>3, <1>9, PlaceOwners DEF Halfway, Untouched, AfterVpn, PastGuard
<1>14. CASE Stage(h)
  <2>1. m' = [m EXCEPT !.staged = n] /\ Goto(h, "spawn")
    BY <1>14 DEF Stage, n
  <2>2. /\ m'.ns = m.ns /\ m'.vpn = m.vpn /\ m'.pidFile = m.pidFile /\ m'.fw = m.fw
        /\ m'.hostRules = m.hostRules /\ m'.nsRules = m.nsRules
    BY <1>10, <2>1 DEF Machine
  <2>3. Image' = r
    BY <1>13, <2>2, ImageFollows
  <2>4. Halfway(op, "spawn", n, r, Image')
    BY <1>13, <2>3 DEF Halfway, Untouched, Stopping, Installing
  <2> QED
    BY <1>6, <2>1, <2>4
<1>15. CASE Spawn(h)
  <2>1. m.staged = n
    BY <1>12, <1>15 DEF Spawn, At, at
  <2>2. CASE m' = [m EXCEPT !.staged = NoNode] /\ Exit(h, FALSE)
    <3>1. /\ m'.ns = m.ns /\ m'.vpn = m.vpn /\ m'.pidFile = m.pidFile /\ m'.fw = m.fw
          /\ m'.hostRules = m.hostRules /\ m'.nsRules = m.nsRules
      BY <1>10, <2>2 DEF Machine
    <3>2. Image' = r
      BY <1>13, <3>1, ImageFollows
    <3>3. Fail(Image') \in Promised(h)
      BY <1>3, <1>4, <1>13, <3>2, OpenvpnStartHas
    <3> QED
      BY <1>7, <2>2, <3>3
  <2>3. ASSUME NEW p \in Pids,
               LET started ==
                     [m EXCEPT !.pidFile = p,
                               !.vpn = [m.vpn EXCEPT ![p] =
                                           [node |-> m.staged, home |-> TRUE]]]
               IN  \/ m' = started /\ Exit(h, TRUE)
                   \/ m' = [started EXCEPT !.staged = NoNode] /\ Exit(h, FALSE)
        PROVE  AsListed(h)
    <3> DEFINE with == [m.vpn EXCEPT ![p] = [node |-> m.staged, home |-> TRUE]]
    <3>1. with[p].node = n /\ with[p].home
      BY <1>10, <2>1 DEF Machine
    <3>2. m' = [m EXCEPT !.pidFile = p, !.vpn = with]
          \/ m' = [[m EXCEPT !.pidFile = p, !.vpn = with] EXCEPT !.staged = NoNode]
      BY <2>3
    <3>3. Exit(h, TRUE) \/ Exit(h, FALSE)
      BY <2>3
    <3> HIDE DEF with
    <3>4. /\ m'.ns = m.ns /\ m'.vpn = with /\ m'.pidFile = p /\ m'.fw = m.fw
          /\ m'.hostRules = m.hostRules /\ m'.nsRules = m.nsRules
      BY <1>10, <3>2 DEF Machine
    <3>5. n \in Nodes /\ p \in Live'
      BY <1>4, <1>13, <3>1, <3>4, NodesAssumption DEF Live
    <3>6. Image'.vpn = n /\ ~Image'.orphaned
      BY <1>1, <3>1, <3>4, <3>5 DEF ImageShows
    <3>7. PICK s : s = [r EXCEPT !.vpn = n]
      OBVIOUS
    <3>8. s \in Runtime /\ SameElsewhere(Image', s) /\ Image'.ks = s.ks
          /\ Image'.hostRules = s.hostRules /\ Image'.nsRules = s.nsRules
      <4>1. ~Image.orphaned
        BY <1>10, NothingLives
      <4>2. s \in Runtime /\ s.ns = r.ns /\ s.vpn = n /\ s.socks = r.socks
            /\ s.orphaned = r.orphaned /\ s.ks = r.ks
            /\ s.hostRules = r.hostRules /\ s.nsRules = r.nsRules
        BY <1>3, <3>5, <3>7 DEF Runtime
      <4>3. /\ Image'.ns = r.ns /\ Image'.ks = r.ks /\ Image'.hostRules = r.hostRules
            /\ Image'.nsRules = r.nsRules /\ ~Image'.socks
        BY <1>1, <1>13, <3>4 DEF ImageShows
      <4> QED
        BY <1>3, <1>8, <1>13, <3>6, <4>1, <4>2, <4>3 DEF SameElsewhere, Runtime
    <3>9. Image' = s
      BY <1>8, <3>8, RuntimesEqual
    <3>10. KillswitchActive(r) /\ r.ks = n /\ r.vpn = NoNode
      BY <1>1, <1>10, <1>11, <1>13 DEF ImageShows, KillswitchActive, Active
    <3>11. Ok(Image') \in Promised(h) /\ Fail(Image') \in Promised(h)
      BY <1>3, <1>4, <1>13, <3>7, <3>9, <3>10, OpenvpnStartHas
    <3> QED
      BY <1>7, <3>3, <3>11
  <2> QED
    BY <1>15, <2>2, <2>3 DEF Spawn
<1> QED
  BY <1>14, <1>15

\* A stop that is done, alone or before the rest of a purge.
LEMMA LoneStopped ==
    ASSUME TypeOK, NEW h \in Helpers, Lone(h), helper[h].op \in {"stop", "purge"},
           Stopped(h), Image' = WithoutVpn(helper[h].before)
    PROVE  AsListed(h)
<1> DEFINE op == helper[h].op
           n == helper[h].node
           r == helper[h].before
<1>1. \A place : Goto(h, place) /\ Halfway(op, place, n, r, Image') => AsListed(h)
  BY DEF AsListed, GoesOn
<1>2. Exit(h, TRUE) /\ Ok(Image') \in Promised(h) => AsListed(h)
  BY DEF AsListed, EndsAsListed
<1>3. op = "stop" => Promised(h) = OpenvpnStop(r)
  BY PromisedIs
<1>4. IF op = "stop" THEN Exit(h, TRUE) ELSE Goto(h, "drop")
  BY DEF Stopped
<1>5. op \in {"stop", "purge"} /\ Image' = WithoutVpn(r)
  OBVIOUS
<1> HIDE DEF op, n, r
<1>6. CASE op = "stop"
  <2>1. Ok(Image') \in Promised(h)
    BY <1>3, <1>5, <1>6, OpenvpnStopHas
  <2> QED
    BY <1>2, <1>4, <1>6, <2>1
<1>7. CASE op = "purge"
  <2>1. Halfway(op, "drop", n, r, Image')
    BY <1>5, <1>7 DEF Halfway, Untouched, Stopping, Installing
  <2> QED
    BY <1>1, <1>4, <1>7, <2>1
<1> QED
  BY <1>5, <1>6, <1>7

LEMMA LoneStops ==
    ASSUME TypeOK, TypeOK', NEW h \in Helpers, Lone(h),
           Find(h) \/ Term(h) \/ Poll(h) \/ Kill(h) \/ Unlink(h)
    PROVE  AsListed(h)
<1> DEFINE op == helper[h].op
           at == helper[h].at
           n == helper[h].node
           r == helper[h].before
<1>1. ImageShows /\ ImageShows'
  BY ImageFields, ImageFieldsNext
<1>3. /\ op \in Operations /\ at \in PlacesOf[op] /\ Halfway(op, at, n, r, Image)
      /\ r \in Runtime /\ Image \in Runtime /\ ~Image.socks /\ ~r.socks
      /\ (at \in AfterVpn => Live = {} /\ Image.vpn = NoNode)
  BY LoneFacts
<1>6. \A place : Goto(h, place) /\ Halfway(op, place, n, r, Image') => AsListed(h)
  BY DEF AsListed, GoesOn
<1>7. /\ Exit(h, TRUE) /\ Ok(Image') \in Promised(h) => AsListed(h)
      /\ Exit(h, FALSE) /\ Fail(Image') \in Promised(h) => AsListed(h)
  BY DEF AsListed, EndsAsListed
<1>8. Image' \in Runtime
  BY <1>1 DEF ImageShows
<1>9. m \in Machine /\ (Managed = NoPid => Live = {}) /\ Live \subseteq {m.pidFile}
  BY PidsAssumption DEF Lone, StartsAloneSuffice, Managed, Live, TypeOK
<1>10. at \in Stopping => Live \subseteq {helper[h].pid}
  BY DEF Lone, HelperInv, OneTarget, at
<1>11. WithoutVpn(WithoutVpn(r)) = WithoutVpn(r) /\ WithoutVpn(r) \in Runtime
  BY <1>3, WithoutVpnTwice, WithoutVpnFields
<1>12. Live = {} => WithoutVpn(Image) = Image
  BY NothingLives
<1>13. Image' = WithoutVpn(r) /\ op \in {"stop", "purge"} /\ Stopped(h) => AsListed(h)
  BY LoneStopped DEF op, r
<1> HIDE DEF op, at, n, r
<1>14. op \in {"stop", "purge"} /\ (at \in {"find"} \cup Stopping => Image \in {r, WithoutVpn(r)})
       /\ (at = "find" => Image = r) /\ (at = "unlink" => Image = WithoutVpn(r))
  <2>1. at \in {"find", "unlink"} \cup Stopping
    BY DEF Find, Term, Poll, Kill, Unlink, At, Stopping, at
  <2> QED
    BY <1>3, <2>1, PlaceOwners DEF Halfway, Untouched
<1>15. at \in {"find"} \cup Stopping => WithoutVpn(Image) = WithoutVpn(r)
  BY <1>11, <1>14
<1>16. ASSUME m' = m \/ m' = [m EXCEPT !.staged = NoNode]
              \/ (m' = [m EXCEPT !.pidFile = NoPid, !.staged = NoNode] /\ Live = {})
       PROVE  Image' = Image
  <2>1. /\ m'.ns = m.ns /\ m'.vpn = m.vpn /\ m'.fw = m.fw
        /\ m'.hostRules = m.hostRules /\ m'.nsRules = m.nsRules
        /\ m'.pidFile = m.pidFile \/ Live = {}
    BY <1>9, <1>16 DEF Machine
  <2>2. Live' = Live
    BY <2>1 DEF Live
  <2> QED
    BY <2>1, <2>2, ImageFollows
<1>17. ASSUME m' = Killed(helper[h].pid), Live \subseteq {helper[h].pid}
       PROVE  Image' = WithoutVpn(Image)
  <2>1. /\ m'.ns = m.ns /\ m'.fw = m.fw
        /\ m'.hostRules = m.hostRules /\ m'.nsRules = m.nsRules
    BY <1>9, <1>17 DEF Killed, Machine
  <2>2. Live' = {}
    BY <1>9, <1>17 DEF Killed, Live, Dead, Machine
  <2> QED
    BY <2>1, <2>2, ImageEnds
<1>18. CASE Find(h)
  <2>1. at = "find"
    BY <1>18 DEF Find, At, at
  <2>2. CASE Managed = NoPid
    <3>1. m' = [m EXCEPT !.staged = NoNode] /\ Stopped(h)
      BY <1>18, <2>2 DEF Find
    <3>2. Image' = WithoutVpn(r)
      BY <1>9, <1>12, <1>14, <1>16, <2>1, <2>2, <3>1
    <3> QED
      BY <1>13, <1>14, <3>1, <3>2
  <2>3. CASE Managed # NoPid
    <3>1. Aim(h)
      BY <1>18, <2>3 DEF Find
    <3>2. Image' = r
      BY <1>14, <1>16, <2>1, <3>1 DEF Aim
    <3>3. Halfway(op, "term", n, r, Image')
      BY <1>14, <3>2 DEF Halfway, Untouched, Stopping, Installing
    <3> QED
      BY <3>1, <3>3 DEF AsListed, GoesOn, op, n, r
  <2> QED
    BY <2>2, <2>3
<1>19. CASE Term(h)
  <2>1. at \in Stopping
    BY <1>19 DEF Term, At, at, Stopping
  <2>2. CASE helper[h].pid \in Live
    <3>1. m' \in {m, Killed(helper[h].pid)} /\ Goto(h, "poll")
      BY <1>19, <2>2 DEF Term
    <3>2. Image' \in {Image, WithoutVpn(Image)}
      BY <1>10, <1>16, <1>17, <2>1, <3>1
    <3>3. Image' \in {r, WithoutVpn(r)}
      BY <1>14, <1>15, <2>1, <3>2
    <3>4. Halfway(op, "poll", n, r, Image')
      BY <1>14, <3>3 DEF Halfway, Untouched, Stopping, Installing
    <3> QED
      BY <1>6, <3>1, <3>4
  <2>3. CASE helper[h].pid \notin Live
    <3>1. m' = m /\ Goto(h, "unlink")
      BY <1>19, <2>3 DEF Term
    <3>2. Live = {}
      BY <1>10, <2>1, <2>3
    <3>3. Image' = WithoutVpn(r)
      BY <1>12, <1>15, <1>16, <2>1, <3>1, <3>2
    <3>4. Halfway(op, "unlink", n, r, Image')
      BY <1>14, <3>3 DEF Halfway, Untouched, Stopping, Installing
    <3> QED
      BY <1>6, <3>1, <3>4
  <2> QED
    BY <2>2, <2>3
<1>20. CASE Poll(h)
  <2>1. at \in Stopping
    BY <1>20 DEF Poll, At, at, Stopping
  <2>2. CASE Managed = NoPid
    <3>1. m' = [m EXCEPT !.staged = NoNode] /\ Stopped(h)
      BY <1>20, <2>2 DEF Poll
    <3>2. Image' = WithoutVpn(r)
      BY <1>9, <1>12, <1>15, <1>16, <2>1, <2>2, <3>1
    <3> QED
      BY <1>13, <1>14, <3>1, <3>2
  <2>3. CASE Managed # NoPid
    <3>1. m' = m /\ Goto(h, "deadline")
      BY <1>20, <2>3 DEF Poll
    <3>2. Image' \in {r, WithoutVpn(r)}
      BY <1>14, <1>16, <2>1, <3>1
    <3>3. Halfway(op, "deadline", n, r, Image')
      BY <1>14, <3>2 DEF Halfway, Untouched, Stopping, Installing
    <3> QED
      BY <1>6, <3>1, <3>3
  <2> QED
    BY <2>2, <2>3
<1>21. CASE Kill(h)
  <2>1. at \in Stopping
    BY <1>21 DEF Kill, At, at, Stopping
  <2>2. m' = Killed(helper[h].pid) /\ Goto(h, "unlink")
    BY <1>21 DEF Kill
  <2>3. Image' = WithoutVpn(r)
    BY <1>10, <1>15, <1>17, <2>1, <2>2
  <2>4. Halfway(op, "unlink", n, r, Image')
    BY <1>14, <2>3 DEF Halfway, Untouched, Stopping, Installing
  <2> QED
    BY <1>6, <2>2, <2>4
<1>22. CASE Unlink(h)
  <2>1. at = "unlink" /\ Live = {}
    BY <1>3, <1>22 DEF Unlink, At, at, AfterVpn
  <2>2. m' = [m EXCEPT !.pidFile = NoPid, !.staged = NoNode] /\ Stopped(h)
    BY <1>22 DEF Unlink
  <2>3. Image' = WithoutVpn(r)
    BY <1>14, <1>16, <2>1, <2>2
  <2> QED
    BY <1>13, <1>14, <2>2, <2>3
<1> QED
  BY <1>18, <1>19, <1>20, <1>21, <1>22

\* The name of the namespace comes and goes.
LEMMA LoneNames ==
    ASSUME TypeOK, TypeOK', NEW h \in Helpers, Lone(h), AddNamespace(h) \/ DeleteNamespace(h)
    PROVE  AsListed(h)
<1> DEFINE op == helper[h].op
           at == helper[h].at
           n == helper[h].node
           r == helper[h].before
<1>1. ImageShows /\ ImageShows'
  BY ImageFields, ImageFieldsNext
<1>3. /\ op \in Operations /\ at \in PlacesOf[op] /\ Halfway(op, at, n, r, Image)
      /\ r \in Runtime /\ Image \in Runtime /\ ~Image.socks /\ ~r.socks
      /\ (at \in AfterVpn => Live = {} /\ Image.vpn = NoNode)
  BY LoneFacts
<1>4. /\ op = "add" => Promised(h) = NamespaceCreate(r)
      /\ op = "delete" => Promised(h) = NamespaceDelete(r)
      /\ op = "purge" => Promised(h) = Purge(r)
  BY PromisedIs DEF TypeOK
<1>6. \A place : Goto(h, place) /\ Halfway(op, place, n, r, Image') => AsListed(h)
  BY DEF AsListed, GoesOn
<1>7. /\ Exit(h, TRUE) /\ Ok(Image') \in Promised(h) => AsListed(h)
      /\ Exit(h, FALSE) /\ Fail(Image') \in Promised(h) => AsListed(h)
  BY DEF AsListed, EndsAsListed
<1>8. Image' \in Runtime
  BY <1>1 DEF ImageShows
<1>9. m \in Machine /\ (m.nsRules # {} => m.ns)
  BY DEF TypeOK, Lone, RulesInside
<1> HIDE DEF op, at, n, r
<1>10. CASE AddNamespace(h)
  <2>1. op = "add" /\ Image = r
    BY <1>3, <1>10, PlaceOwners DEF AddNamespace, At, at, Halfway, Untouched
  <2>2. CASE m.ns
    <3>1. m' = m /\ Exit(h, ~m.ns)
      BY <1>10, <2>2 DEF AddNamespace
    <3>2. Exit(h, FALSE)
      <4>1. (~m.ns) = FALSE
        BY <2>2
      <4> QED
        BY <3>1, <4>1, Zenon
    <3>3. Fail(Image') \in Promised(h)
      BY <3>1, LoneGivesUp
    <3> QED
      BY <1>7, <3>2, <3>3
  <2>3. CASE ~m.ns
    <3>1. m' = [m EXCEPT !.ns = TRUE, !.nsRules = {}] /\ Exit(h, ~m.ns)
      BY <1>10, <2>3 DEF AddNamespace
    <3>2. Exit(h, TRUE)
      <4>1. (~m.ns) = TRUE
        BY <2>3
      <4> QED
        BY <3>1, <4>1, Zenon
    <3>3. /\ m'.ns /\ m'.vpn = m.vpn /\ m'.pidFile = m.pidFile /\ m'.fw = m.fw
          /\ m'.hostRules = m.hostRules /\ m'.nsRules = {}
      BY <1>9, <3>1 DEF Machine
    <3>4. PICK s : s = [r EXCEPT !.ns = TRUE, !.nsRules = FALSE]
      OBVIOUS
    <3>5. s \in Runtime /\ SameElsewhere(Image', s) /\ Image'.ks = s.ks
          /\ Image'.hostRules = s.hostRules /\ Image'.nsRules = s.nsRules
      <4>1. s \in Runtime /\ s.ns /\ s.vpn = r.vpn /\ s.socks = r.socks
            /\ s.orphaned = r.orphaned /\ s.ks = r.ks
            /\ s.hostRules = r.hostRules /\ ~s.nsRules
        BY <1>3, <3>4 DEF Runtime
      <4>2. /\ Image'.vpn = r.vpn /\ Image'.socks = r.socks /\ Image'.orphaned = r.orphaned
        BY <2>1, <3>3, ImageFollows
      <4>3. /\ Image'.ns /\ Image'.ks = r.ks /\ Image'.hostRules = r.hostRules
            /\ ~Image'.nsRules
        BY <1>1, <2>1, <3>3 DEF ImageShows
      <4> QED
        BY <1>8, <4>1, <4>2, <4>3 DEF SameElsewhere, Runtime
    <3>6. Image' = s
      BY <1>8, <3>5, RuntimesEqual
    <3>7. ~r.ns
      BY <1>1, <2>1, <2>3 DEF ImageShows
    <3>8. Ok(Image') \in Promised(h)
      BY <1>3, <1>4, <2>1, <3>4, <3>6, <3>7, NamespacesHave
    <3> QED
      BY <1>7, <3>2, <3>8
  <2> QED
    BY <2>2, <2>3
<1>11. CASE DeleteNamespace(h)
  <2>1. at \in {"delete", "unname"} /\ m' = Unnamed /\ Exit(h, TRUE)
    BY <1>11 DEF DeleteNamespace, At, at
  <2>2. /\ ~m'.ns /\ m'.nsRules = {} /\ m'.pidFile = m.pidFile /\ m'.fw = m.fw
        /\ m'.hostRules = m.hostRules
        /\ ~m.ns => m'.vpn = m.vpn
        /\ m.ns => \A p \in Pids : m'.vpn[p].node = m.vpn[p].node /\ ~m'.vpn[p].home
    BY <1>9, <2>1 DEF Unnamed, Machine
  <2>3. Live' = Live
    BY <2>2 DEF Live
  <2>4. /\ ~Image'.ns /\ ~Image'.nsRules /\ Image'.ks = Image.ks /\ ~Image'.socks
        /\ Image'.hostRules = Image.hostRules
        /\ Image'.vpn = Image.vpn
        /\ m.ns => Image'.orphaned = (Image.vpn # NoNode)
        /\ ~m.ns => Image'.orphaned = Image.orphaned
    <3>1. Image'.vpn = Image.vpn /\ (m.ns => Image'.orphaned = (Image.vpn # NoNode))
      <4>1. CASE Managed = NoPid
        <5>1. Managed' = NoPid
          BY <1>1, <2>2, <2>3, <4>1 DEF ImageShows
        <5> QED
          BY <1>1, <1>8, <4>1, <5>1 DEF ImageShows, Runtime
      <4>2. CASE Managed # NoPid
        <5>1. Managed' # NoPid /\ m.pidFile \in Pids
          BY <1>1, <2>2, <2>3, <4>2 DEF ImageShows, Live
        <5>2. /\ Image.vpn = m.vpn[m.pidFile].node /\ Image.vpn # NoNode
              /\ Image'.vpn = m'.vpn[m.pidFile].node
              /\ Image'.orphaned = ~m'.vpn[m.pidFile].home
          BY <1>1, <2>2, <4>2, <5>1 DEF ImageShows
        <5> QED
          BY <2>2, <5>1, <5>2
      <4> QED
        BY <4>1, <4>2
    <3>2. ~m.ns => Image'.orphaned = Image.orphaned
      BY <2>2, ImageFollows
    <3>3. /\ ~Image'.ns /\ ~Image'.nsRules /\ Image'.ks = Image.ks /\ ~Image'.socks
          /\ Image'.hostRules = Image.hostRules
      BY <1>1, <2>2 DEF ImageShows
    <3> QED
      BY <3>1, <3>2, <3>3
  <2>5. ASSUME NEW s, s \in Runtime, s.vpn = Image.vpn, ~s.socks, s.ks = Image.ks,
               s.hostRules = Image.hostRules, s.nsRules => s.ns, s.ns = Image.ns,
               s.orphaned = Image.orphaned, ~m.ns => ~s.nsRules
        PROVE  (IF s.ns THEN WithoutNamespace(s) ELSE s) = Image'
    <3>1. CASE s.ns
      <4>1. m.ns
        BY <1>1, <2>5, <3>1 DEF ImageShows
      <4>2. WithoutNamespace(s) \in Runtime
            /\ SameElsewhere(WithoutNamespace(s), Image')
            /\ WithoutNamespace(s).ks = Image'.ks
            /\ WithoutNamespace(s).hostRules = Image'.hostRules
            /\ WithoutNamespace(s).nsRules = Image'.nsRules
        BY <1>8, <2>4, <2>5, <4>1 DEF WithoutNamespace, HasProcess, SameElsewhere, Runtime
      <4> QED
        BY <1>8, <3>1, <4>2, RuntimesEqual
    <3>2. CASE ~s.ns
      <4>1. ~m.ns
        BY <1>1, <2>5, <3>2 DEF ImageShows
      <4>2. SameElsewhere(s, Image') /\ s.ks = Image'.ks
            /\ s.hostRules = Image'.hostRules /\ s.nsRules = Image'.nsRules
        BY <1>8, <2>4, <2>5, <3>2, <4>1 DEF SameElsewhere, Runtime
      <4> QED
        BY <1>8, <2>5, <3>2, <4>2, RuntimesEqual
    <3> QED
      BY <3>1, <3>2
  <2>6. CASE at = "delete"
    <3>1. op = "delete" /\ Image = r
      BY <1>3, <2>6, PlaceOwners DEF Halfway, Untouched
    <3>2. Image' = (IF r.ns THEN WithoutNamespace(r) ELSE r)
      BY <1>1, <1>3, <1>9, <2>5, <3>1 DEF ImageShows
    <3>3. Ok(Image') \in Promised(h)
      BY <1>3, <1>4, <3>1, <3>2, NamespacesHave
    <3> QED
      BY <1>7, <2>1, <3>3
  <2>7. CASE at = "unname"
    <3>1. op = "purge" /\ LeftOf(WithoutVpn(r), NoNode, Image)
      BY <1>3, <2>7, PlaceOwners DEF Halfway
    <3>2. WithoutVpn(r) \in Runtime /\ WithoutVpn(r).vpn = NoNode
          /\ ~WithoutVpn(r).socks /\ ~WithoutVpn(r).orphaned
      BY <1>3, WithoutVpnFields
    <3> DEFINE s == Image
    <3>3. s \in Residue(WithoutVpn(r), NoNode)
      BY <1>3, <3>1, <3>2, LeftIsResidue
    <3>4. s \in Runtime /\ s.vpn = NoNode /\ ~s.socks /\ ~s.orphaned
      BY <1>3, <3>1, <3>2 DEF LeftOf, SameElsewhere
    <3>5. /\ ~Image'.ns /\ ~Image'.nsRules /\ Image'.ks = s.ks /\ ~Image'.socks
          /\ Image'.hostRules = s.hostRules /\ Image'.vpn = s.vpn
          /\ ~Image'.orphaned
      BY <2>4, <3>4
    <3> HIDE DEF s
    <3>6. WithoutNamespace(s) \in Runtime /\ SameElsewhere(Image', WithoutNamespace(s))
          /\ Image'.ks = WithoutNamespace(s).ks
          /\ Image'.hostRules = WithoutNamespace(s).hostRules
          /\ Image'.nsRules = WithoutNamespace(s).nsRules
      BY <1>8, <3>4, <3>5 DEF WithoutNamespace, HasProcess, SameElsewhere, Runtime
    <3>7. Image' = WithoutNamespace(s)
      BY <1>8, <3>6, RuntimesEqual
    <3>8. Ok(Image') \in Promised(h)
      BY <1>3, <1>4, <3>1, <3>3, <3>7, PurgeHas
    <3> QED
      BY <1>7, <2>1, <3>8
  <2> QED
    BY <2>1, <2>6, <2>7
<1> QED
  BY <1>10, <1>11

\* Every step of a lone helper is as RootHelper lists it.
LEMMA LoneStep ==
    ASSUME TypeOK, TypeOK', NEW h \in Helpers, Lone(h), Step(h)
    PROVE  AsListed(h)
BY LoneLooks, LoneCleans, LoneWrites, LoneStarts, LoneStops, LoneNames DEF Step

-----------------------------------------------------------------------------
\* What is known of a lone helper holds in every behaviour.

\* A helper keeps what it was called for, and what it found then.
LEMMA CallIsKept ==
    ASSUME TypeOK, NEW h \in Helpers
    PROVE  /\ \A place : Goto(h, place) \/ (Aim(h) /\ place = "term") =>
                 /\ helper'[h].at = place /\ helper'[h].op = helper[h].op
                 /\ helper'[h].node = helper[h].node /\ helper'[h].before = helper[h].before
           /\ \A ok : Exit(h, ok) => helper'[h].at = "idle" /\ helper'[h].ok = ok
<1>0. helper \in [Helpers -> Helper] /\ helper[h] \in Helper
  BY DEF TypeOK
<1>1. ASSUME NEW place, Goto(h, place) \/ (Aim(h) /\ place = "term")
      PROVE  /\ helper'[h].at = place /\ helper'[h].op = helper[h].op
             /\ helper'[h].node = helper[h].node /\ helper'[h].before = helper[h].before
  <2>1. \/ helper'[h] = [helper[h] EXCEPT !.at = place]
        \/ helper'[h] = [helper[h] EXCEPT !.at = "term", !.pid = Managed] /\ place = "term"
    BY <1>0, <1>1 DEF Goto, Aim
  <2> QED
    BY <1>0, <2>1 DEF Helper
<1>2. ASSUME NEW ok, Exit(h, ok) PROVE helper'[h].at = "idle" /\ helper'[h].ok = ok
  <2>1. helper'[h] = [Idle EXCEPT !.ok = ok]
    BY <1>0, <1>2 DEF Exit
  <2> QED
    BY <2>1 DEF Idle
<1> QED
  BY <1>1, <1>2

\* Rules are loaded into a namespace that is there, and go with it.
LEMMA RulesStayInside ==
    ASSUME TypeOK, RulesInside, NEW h \in Helpers, Step(h)
    PROVE  RulesInside'
<1>0. m \in Machine /\ (m.nsRules # {} => m.ns)
  BY DEF TypeOK, RulesInside
<1>1. \A c \in Cleaned : c.ns = m.ns /\ c.nsRules \subseteq m.nsRules /\ c \in Machine
  <2>1. ASSUME NEW c \in Cleaned PROVE c.nsRules \subseteq m.nsRules
    <3>1. PICK a \in {{}, m.hostRules}, b \in {{}, m.nsRules} :
              c = [m EXCEPT !.hostRules = a, !.nsRules = b]
      BY DEF Cleaned
    <3>2. c.nsRules = b
      BY <1>0, <3>1 DEF Machine
    <3> QED
      BY <3>2
  <2> QED
    BY <2>1, CleanedKeeps
<1>2. CASE m'.ns = m.ns /\ m'.nsRules \subseteq m.nsRules
  BY <1>0, <1>2 DEF RulesInside
<1>3. CASE m' = m \/ m' \in Cleaned
  BY <1>1, <1>2, <1>3
<1>4. CASE AddNamespace(h) \/ DeleteNamespace(h)
  BY <1>0, <1>4 DEF AddNamespace, DeleteNamespace, Unnamed, RulesInside, Machine
<1>5. CASE Forget(h) \/ Write(h) \/ Unwrite(h) \/ Stage(h) \/ Unlink(h)
  BY <1>0, <1>2, <1>5 DEF Forget, Write, Unwrite, Stage, Unlink, Machine
<1>6. CASE Check(h) \/ Verify(h) \/ Look(h) \/ AskGuard(h) \/ AskRunning(h)
           \/ Deadline(h) \/ Abort(h)
  BY <1>3, <1>6 DEF Check, Verify, Look, AskGuard, AskRunning, Deadline, Abort
<1>7. CASE Clear(h) \/ Undo(h) \/ Clean(h) \/ Drop(h)
  BY <1>3, <1>7 DEF Clear, Undo, Clean, Drop, CleanThen
<1>8. CASE Inside(h)
  <2>1. PICK c \in Cleaned :
           (c.ns /\ m' = [c EXCEPT !.nsRules = @ \cup {helper[h].node}]) \/ m' = c
    BY <1>8 DEF Inside
  <2> QED
    BY <1>1, <1>3, <2>1 DEF RulesInside, Machine
<1>9. CASE Outside(h)
  BY <1>0, <1>2, <1>9 DEF Outside, Machine
<1>10. CASE Find(h) \/ Poll(h)
  BY <1>0, <1>2, <1>3, <1>10 DEF Find, Aim, Poll, Machine
<1>11. CASE Term(h) \/ Kill(h)
  BY <1>0, <1>2, <1>3, <1>11 DEF Term, Kill, Killed, Machine
<1>12. CASE Spawn(h)
  BY <1>0, <1>2, <1>12 DEF Spawn, Machine
<1> QED
  BY <1>4, <1>5, <1>6, <1>7, <1>8, <1>9, <1>10, <1>11, <1>12 DEF Step

\* A step of a lone helper leaves it in the middle of its operation, or done.
LEMMA LoneStepKeeps ==
    ASSUME TypeOK, TypeOK', HelperInv, StartsAloneSuffice, RulesInside, LoneHelper,
           NEW h \in Helpers, Step(h)
    PROVE  LoneHelper'
<1>1. SUFFICES ASSUME ~overlapped' PROVE LoneHelper'
  BY DEF LoneHelper
<1>2. ~overlapped /\ ~startRaced /\ ~startRaced'
  <2>1. overlapped' = overlapped
    <3>1. \A place : Goto(h, place) => overlapped' = overlapped
      BY DEF Goto
    <3>2. \A ok : Exit(h, ok) => overlapped' = overlapped
      BY DEF Exit
    <3> QED
      BY <3>1, <3>2, StepMoves DEF Aim
  <2> QED
    BY <1>1, <2>1, StepIsOwn DEF LoneHelper
<1>3. \A g \in Helpers : Busy(g)' => g = h
  BY <1>2, StepIsOwn DEF LoneHelper, Busy
<1>4. Lone(h)
  BY <1>2, StepIsOwn DEF LoneHelper, Lone
<1>5. AsListed(h)
  BY <1>4, LoneStep
<1>6. Busy(h)' => Midway(h)'
  <2>1. CASE EndsAsListed(h)
    BY <2>1, CallIsKept DEF EndsAsListed, Busy
  <2>2. ASSUME NEW place, GoesOn(h, place) PROVE Midway(h)'
    <3>1. /\ helper'[h].at = place /\ helper'[h].op = helper[h].op
          /\ helper'[h].node = helper[h].node /\ helper'[h].before = helper[h].before
      BY <2>2, CallIsKept DEF GoesOn
    <3> QED
      BY <1>4, <2>2, <3>1 DEF GoesOn, Lone, Midway
  <2> QED
    BY <1>5, <2>1, <2>2 DEF AsListed
<1> QED
  BY <1>2, <1>3, <1>6 DEF LoneHelper

\* A process that ends by itself ends for the helper before its operation.
LEMMA LoneDieKeeps ==
    ASSUME TypeOK, TypeOK', HelperInv, StartsAloneSuffice, LoneHelper, Die
    PROVE  LoneHelper'
<1>1. SUFFICES ASSUME ~overlapped' PROVE LoneHelper'
  BY DEF LoneHelper
<1>2. ~overlapped /\ ~startRaced /\ ~startRaced'
  BY <1>1 DEF Die, LoneHelper
<1>3. PICK p \in Live : m' = Killed(p)
  BY DEF Die
<1>4. m \in Machine /\ Live = {p}
  BY <1>2 DEF StartsAloneSuffice, TypeOK
<1>5. /\ m'.ns = m.ns /\ m'.fw = m.fw
      /\ m'.hostRules = m.hostRules /\ m'.nsRules = m.nsRules
  BY <1>3, <1>4 DEF Killed, Machine
<1>6. Live' = {}
  BY <1>3, <1>4 DEF Killed, Live, Dead, Machine
<1>7. Image' = WithoutVpn(Image)
  BY <1>5, <1>6, ImageEnds
<1>8. \A h \in Helpers : helper'[h] =
         IF Busy(h) THEN [helper[h] EXCEPT !.before = WithoutVpn(@)] ELSE helper[h]
  BY DEF Die
<1>9. \A h \in Helpers : Busy(h)' <=> Busy(h)
  BY <1>8 DEF TypeOK, Helper, Busy
<1>10. ASSUME NEW h \in Helpers, Busy(h) PROVE Midway(h)'
  <2> DEFINE op == helper[h].op
             at == helper[h].at
             n == helper[h].node
             r == helper[h].before
  <2>1. r \in Runtime /\ ~r.socks /\ Halfway(op, at, n, r, Image)
        /\ op \in Operations \cup {"none"} /\ at \in PlacesOf[op] /\ at # "idle"
    BY <1>2, <1>10 DEF TypeOK, Helper, LoneHelper, Midway, Busy
  <2>2. at \notin AfterVpn
    BY <1>2, <1>4 DEF HelperInv, NothingLeft
  <2>3. helper'[h].op = op /\ helper'[h].at = at /\ helper'[h].node = n
        /\ helper'[h].before = WithoutVpn(r)
    BY <1>8, <1>10 DEF TypeOK, Helper
  <2> HIDE DEF op, at, n, r
  <2>4. at \in {"add", "delete", "check", "look", "guarded", "running", "find"} \cup Stopping
    <3>1. CASE op \in {"none", "add", "delete", "remove", "stop", "purge"}
      BY <2>1, <2>2, <3>1 DEF PlacesOf, AfterVpn, Stopping
    <3>2. CASE op \in {"apply", "start"}
      BY <2>1, <2>2, <3>2 DEF PlacesOf, AfterVpn, Stopping
    <3> QED
      BY <2>1, <3>1, <3>2 DEF Operations
  <2>5. Image' = WithoutVpn(r)
    <3>1. Image \in {r, WithoutVpn(r)}
      BY <2>1, <2>4 DEF Halfway, Untouched
    <3> QED
      BY <1>7, <2>1, <3>1, WithoutVpnTwice
  <2>6. ~WithoutVpn(r).socks
    BY <2>1, WithoutVpnFields
  <2>7. op = "apply" => at = "check"
    BY <2>1, <2>2 DEF PlacesOf, AfterVpn
  <2>8. Halfway(op, at, n, WithoutVpn(r), Image')
    BY <2>4, <2>5, <2>7 DEF Halfway, Untouched, Stopping, Installing
  <2> QED
    BY <2>3, <2>6, <2>8 DEF Midway
<1> QED
  BY <1>2, <1>9, <1>10 DEF LoneHelper

\* A helper that is called alone has the machine as it is in mind.
LEMMA LoneBeginKeeps ==
    ASSUME TypeOK, TypeOK', LoneHelper, NEW h \in Helpers, Begin(h)
    PROVE  LoneHelper'
<1>1. SUFFICES ASSUME ~overlapped' PROVE LoneHelper'
  BY DEF LoneHelper
<1>2. PICK op \in Operations, n \in Nodes :
         /\ helper' = [helper EXCEPT ![h] =
               [Idle EXCEPT !.op = op, !.at = First[op],
                            !.node = IF op \in {"apply", "start"} THEN n ELSE NoNode,
                            !.before = IF overlapped THEN CleanRuntime ELSE Image]]
         /\ overlapped' = (overlapped \/ \E g \in Helpers : Busy(g))
         /\ startRaced' = \E g \in Helpers :
                             Busy(g) /\ (op = "start" \/ helper[g].op = "start")
  BY DEF Begin
<1>3. ~overlapped /\ ~startRaced' /\ \A g \in Helpers : ~Busy(g)
  BY <1>1, <1>2
<1>4. /\ \A g \in Helpers \ {h} : helper'[g] = helper[g]
      /\ helper'[h].op = op /\ helper'[h].at = First[op] /\ helper'[h].before = Image
  BY <1>2, <1>3 DEF TypeOK, Idle
<1>5. \A g \in Helpers : Busy(g)' => g = h
  BY <1>3, <1>4 DEF Busy
<1>6. Image' = Image
  BY ImageFollows DEF Begin
<1>7. Midway(h)'
  <2>1. First[op] \in {"add", "delete", "check", "look", "guarded", "find"}
        /\ (op = "apply" => First[op] = "check")
    BY DEF First, Operations
  <2>2. \A k : Halfway(op, First[op], k, Image, Image)
    BY <2>1 DEF Halfway, Untouched, Stopping, Installing
  <2>3. ~Image.socks
    BY ImageFields DEF ImageShows
  <2> QED
    BY <1>4, <1>6, <2>2, <2>3 DEF Midway
<1> QED
  BY <1>3, <1>5, <1>7 DEF LoneHelper

\* An outcome, taken apart.
Answer(ok, rt) == [ok |-> ok, rt |-> rt]

\* For any helpers: one that runs alone, whichever commands fail in it, the ones that
\* list the rules included, and wherever it is killed, leaves one of the outcomes that RootHelper lists for its operation.
THEOREM LoneHelpersAreAtomic == Spec => OneStepIsEnough
<1> DEFINE Known == TypeOK /\ HelperInv /\ StartsAloneSuffice /\ RulesInside /\ LoneHelper
<1>1. Init => HelperInv /\ StartsAloneSuffice /\ RulesInside /\ LoneHelper
  <2> SUFFICES ASSUME Init PROVE HelperInv /\ StartsAloneSuffice /\ RulesInside /\ LoneHelper
    OBVIOUS
  <2>1. RulesInside
    BY DEF Init, RulesInside
  <2>2. LoneHelper
    BY DEF Init, LoneHelper, Busy, Idle
  <2> QED
    BY <2>1, <2>2, InvariantInitially
<1>2. Known /\ TypeOK' /\ [Next]_vars
        => HelperInv' /\ StartsAloneSuffice' /\ RulesInside' /\ LoneHelper'
  <2> SUFFICES ASSUME Known, TypeOK', [Next]_vars
               PROVE  HelperInv' /\ StartsAloneSuffice' /\ RulesInside' /\ LoneHelper'
    OBVIOUS
  <2>1. HelperInv' /\ StartsAloneSuffice'
    BY HelpersKeepGuard
  <2>2. CASE UNCHANGED vars
    <3>1. RulesInside' /\ Image' = Image
      BY <2>2 DEF vars, RulesInside, Image, Managed, Live
    <3>2. LoneHelper'
      BY <2>2, <3>1 DEF vars, LoneHelper, Midway, Busy
    <3> QED
      BY <2>1, <3>1, <3>2
  <2>3. CASE Die
    <3>1. m'.nsRules = m.nsRules /\ m'.ns = m.ns
      BY <2>3 DEF Die, Killed, TypeOK, Machine
    <3> QED
      BY <2>1, <2>3, <3>1, LoneDieKeeps DEF RulesInside
  <2>4. ASSUME NEW h \in Helpers, Begin(h) PROVE RulesInside' /\ LoneHelper'
    BY <2>4, LoneBeginKeeps DEF Begin, RulesInside
  <2>5. ASSUME NEW h \in Helpers, Step(h) PROVE RulesInside' /\ LoneHelper'
    BY <2>5, LoneStepKeeps, RulesStayInside
  <2> QED
    BY <2>1, <2>2, <2>3, <2>4, <2>5 DEF Next
<1>3. Known /\ TypeOK' /\ [Next]_vars =>
        [\A h \in Helpers :
            Busy(h) /\ helper'[h].at = "idle" /\ ~overlapped =>
                [ok |-> helper'[h].ok, rt |-> Image'] \in Promised(h)]_vars
  <2> SUFFICES ASSUME Known, TypeOK', Next, NEW h \in Helpers,
                      Busy(h), helper'[h].at = "idle", ~overlapped
               PROVE  [ok |-> helper'[h].ok, rt |-> Image'] \in Promised(h)
    OBVIOUS
  <2>1. Step(h)
    <3>1. ~Die
      BY DEF Die, TypeOK, Helper, Busy
    <3>2. ASSUME NEW g \in Helpers, Begin(g) PROVE FALSE
      <4>1. g # h
        BY <3>2 DEF Begin
      <4>2. helper'[h] = helper[h]
        BY <3>2, <4>1 DEF Begin, TypeOK
      <4> QED
        BY <4>2 DEF Busy
    <3>3. ASSUME NEW g \in Helpers, Step(g) PROVE g = h
      BY <3>3, StepIsOwn DEF Busy
    <3> QED
      BY <3>1, <3>2, <3>3 DEF Next
  <2>2. Lone(h)
    BY DEF Lone, LoneHelper
  <2>3. AsListed(h)
    BY <2>1, <2>2, LoneStep
  <2>4. \A place : ~GoesOn(h, place)
    BY CallIsKept DEF GoesOn, Halfway
  <2>5. EndsAsListed(h)
    BY <2>3, <2>4 DEF AsListed
  <2>6. Answer(helper'[h].ok, Image') \in Promised(h)
    <3>1. Ok(Image') = Answer(TRUE, Image') /\ Fail(Image') = Answer(FALSE, Image')
      BY DEF Ok, Fail, Answer
    <3>2. CASE Exit(h, TRUE) /\ Ok(Image') \in Promised(h)
      <4>1. helper'[h].ok = TRUE
        BY <3>2, CallIsKept
      <4> QED
        BY <3>1, <3>2, <4>1, Zenon
    <3>3. CASE Exit(h, FALSE) /\ Fail(Image') \in Promised(h)
      <4>1. helper'[h].ok = FALSE
        BY <3>3, CallIsKept
      <4> QED
        BY <3>1, <3>3, <4>1, Zenon
    <3> QED
      BY <2>5, <3>2, <3>3 DEF EndsAsListed
  <2> QED
    BY <2>6 DEF Answer
<1> QED
  BY <1>1, <1>2, <1>3, HelpersWellTyped, PTL DEF Spec, OneStepIsEnough
=============================================================================

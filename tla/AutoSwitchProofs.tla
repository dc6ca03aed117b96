--------------------------- MODULE AutoSwitchProofs ---------------------------
(***************************************************************************)
(* First the service without its jobs (ConnectionLifecycle): for any       *)
(* number of request slots and of helpers that outlive their calls, any    *)
(* nodes and any set of processes that outlive the service, the state      *)
(* stays well-typed; and until a start or a recovery has run beside        *)
(* another helper (raced), the kill switch guards every process.  Every    *)
(* step is one of FailClosedTunnel, which promises nothing after that.     *)
(*                                                                         *)
(* Then the service with its jobs, for any number of them and any limits:  *)
(* the same beside switches, and the automatic switches of an hour are     *)
(* bounded.  Switches without requests, whose helpers end before their     *)
(* calls, never leave a proxy on an unverified tunnel; and where requests  *)
(* and jobs take turns as well, each stop is clean and each row that says  *)
(* RUNNING names the node of its tunnel.                                   *)
(*                                                                         *)
(* The invariant says two things of the helpers at work (Safe): if a start *)
(* is between its look and its spawn and not alone, that has been noted;   *)
(* and as long as nothing has been noted, what each start has seen is      *)
(* still there when it spawns.  A step is that of one helper, or leaves    *)
(* kill switch and namespace as they are (Steps).                          *)
(***************************************************************************)
EXTENDS AutoSwitch, RootHelperProofs

-----------------------------------------------------------------------------
\* The lifecycle alone.

\* The inductive invariant: the types, and what is safe while no helper has raced.

\* A row names a node.
RowOK ==
    /\ row \in Row
    /\ row.col.status \in Committed
    /\ row.exists => row.col.node \in Nodes

MachineOK == rt \in Runtime /\ Tidy(rt)

\* A session has the node of its row, and a status that may be committed by the
\* time it commits.
SessionOK(q) ==
    /\ q.pc # "idle" => q.mem.node \in Nodes
    /\ q.pc = "commit" => q.mem.status \in Committed

SessionsOK ==
    /\ req \in [Requests -> Request]
    /\ \A r \in Requests : SessionOK(req[r])

LateOK == late \in [Strays -> Call \cup {NoCall}]

Typed ==
    /\ up \in BOOLEAN /\ raced \in BOOLEAN
    /\ RowOK /\ MachineOK /\ SessionsOK /\ LateOK

\* Of the helpers at work: a race has been noted; and until there is one the
\* machine is guarded, and ready for every spawn that is under way.
Safe(running) ==
    /\ Race(running) => raced
    /\ ~raced => Guarded(rt) /\ \A x \in running : Ready(x[3], rt)

IInv == Typed /\ Safe(Running)

LEMMA TypedTypes == Typed => TypeOK
BY DEF Typed, RowOK, MachineOK, SessionsOK, LateOK, TypeOK

LEMMA IInvType == IInv => TypeOK /\ KillSwitchGuard
BY TypedTypes DEF IInv, Safe, KillSwitchGuard

LEMMA IdleOK ==
    IdleRequest \in Request /\ SessionOK(IdleRequest) /\ ~InCall(IdleRequest)
BY DEF IdleRequest, Request, SessionOK, NoColumns, Columns, Status, InCall, OperationAt

LEMMA RunningElements ==
    ASSUME NEW y
    PROVE  y \in Running <=>
              \/ \E r \in Requests : InCall(req[r]) /\ y = <<"request", r, CallOf(req[r])>>
              \/ \E k \in Strays : late[k] # NoCall /\ y = <<"late", k, late[k]>>
              \/ ~up /\ Interrupted
                 /\ y = <<"recovery", 0, [op |-> "purge", node |-> NoNode]>>
BY DEF Running

LEMMA RunningElementsNext ==
    ASSUME NEW y
    PROVE  y \in Running' <=>
              \/ \E r \in Requests :
                    InCall(req'[r]) /\ y = <<"request", r, CallOf(req'[r])>>
              \/ \E k \in Strays : late'[k] # NoCall /\ y = <<"late", k, late'[k]>>
              \/ ~up' /\ Interrupted'
                 /\ y = <<"recovery", 0, [op |-> "purge", node |-> NoNode]>>
BY DEF Running, InCall, CallOf

\* Where nobody waits and nothing is interrupted, no helper is at work.
LEMMA NothingRuns ==
    ASSUME up, \A r \in Requests : req[r] = IdleRequest,
           \A k \in Strays : late[k] = NoCall
    PROVE  Running = {}
BY IdleOK, RunningElements

LEMMA InitIInv == Init => IInv
<1> SUFFICES ASSUME Init PROVE IInv
  OBVIOUS
<1>1. NoColumns \in Columns
  BY DEF NoColumns, Columns, Status
<1>2. RowOK
  BY <1>1 DEF Init, RowOK, Row, NoRow, NoColumns, Committed
<1>3. MachineOK /\ Guarded(rt)
  BY DEF Init, MachineOK, CleanRuntime, Runtime, Guarded, HasProcess, Tidy
<1>4. SessionsOK
  BY IdleOK DEF Init, SessionsOK
<1>5. LateOK
  BY DEF Init, LateOK
<1>6. Running = {}
  BY NothingRuns DEF Init
<1>7. Safe(Running)
  BY <1>3, <1>6 DEF Safe, Race
<1> QED BY <1>2, <1>3, <1>4, <1>5, <1>7 DEF Init, IInv, Typed

-----------------------------------------------------------------------------
\* What one step may do to the machine and to the helpers at work.

\* It leaves kill switch and namespace alone, and nobody is about to spawn who was
\* not before.
Quietly(before, after) ==
    /\ SameFence(rt, rt') /\ Lawful(rt, rt')
    /\ \A y \in after : y[3].op \in Spawns => \E x \in before : x[3] = y[3]

\* It is the step of one helper, after which others may spawn, or this one if it
\* has looked.
Acts(before, after) ==
    \E x \in before : \E o \in Outcomes(x[3], rt) :
        /\ x[3] \in Call
        /\ rt' = o.rt
        /\ \A y \in after :
               y[3].op \in Spawns =>
                   \/ y \in before \ {x}
                   \/ /\ o.ok /\ x[3].op \in Asks
                      /\ y[3] = [x[3] EXCEPT !.op = SpawnAfter(x[3].op)]

Steps(before, after) == Quietly(before, after) \/ Acts(before, after)

\* What comes of it: the types of the machine, whatever races; and its guard until
\* something does.
LEMMA StepsTyped ==
    ASSUME MachineOK, NEW before, NEW after, Steps(before, after)
    PROVE  MachineOK'
<1>1. CASE Quietly(before, after)
  BY <1>1 DEF Quietly, Lawful, MachineOK, Tidy, HasProcess
<1>2. CASE Acts(before, after)
  <2>1. PICK x \in before : \E o \in Outcomes(x[3], rt) : x[3] \in Call /\ rt' = o.rt
    BY <1>2 DEF Acts
  <2>2. PICK o \in Outcomes(x[3], rt) : x[3] \in Call /\ rt' = o.rt
    BY <2>1
  <2>3. o \in Outcome /\ Tidy(o.rt)
    BY <2>2, OutcomesLawful DEF MachineOK
  <2>4. rt' \in Runtime /\ Tidy(rt')
    BY <2>2, <2>3 DEF Outcome
  <2> QED BY <2>4 DEF MachineOK, Tidy, HasProcess
<1> QED BY <1>1, <1>2 DEF Steps

LEMMA StepsSafe ==
    ASSUME rt \in Runtime, NEW before, NEW after, Safe(before), Steps(before, after),
           ~raced, ~Race(after)
    PROVE  Guarded(rt') /\ Kept(rt, rt') /\ \A y \in after : Ready(y[3], rt')
<1>1. /\ Guarded(rt) /\ ~Race(before)
      /\ \A x \in before : Ready(x[3], rt)
  BY DEF Safe
<1>2. \A y : y[3].op \notin Spawns => Ready(y[3], rt')
  BY DEF Ready, Spawns
<1>3. CASE Quietly(before, after)
  <2>1. SameFence(rt, rt') /\ Guarded(rt') /\ Kept(rt, rt')
    BY <1>1, <1>3 DEF Quietly, Lawful
  <2>2. ASSUME NEW y \in after, y[3].op \in Spawns
        PROVE  Ready(y[3], rt')
    <3>1. PICK x \in before : x[3] = y[3]
      BY <1>3, <2>2 DEF Quietly
    <3>2. Ready(y[3], rt)
      BY <1>1, <3>1
    <3> QED BY <2>1, <3>2, FenceKeepsReady
  <2> QED BY <1>2, <2>1, <2>2
<1>4. CASE Acts(before, after)
  <2>1. PICK x \in before : \E o \in Outcomes(x[3], rt) :
            /\ x[3] \in Call
            /\ rt' = o.rt
            /\ \A y \in after :
                   y[3].op \in Spawns =>
                       \/ y \in before \ {x}
                       \/ /\ o.ok /\ x[3].op \in Asks
                          /\ y[3] = [x[3] EXCEPT !.op = SpawnAfter(x[3].op)]
    BY <1>4 DEF Acts
  <2>2. PICK o \in Outcomes(x[3], rt) :
            /\ x[3] \in Call
            /\ rt' = o.rt
            /\ \A y \in after :
                   y[3].op \in Spawns =>
                       \/ y \in before \ {x}
                       \/ /\ o.ok /\ x[3].op \in Asks
                          /\ y[3] = [x[3] EXCEPT !.op = SpawnAfter(x[3].op)]
    BY <2>1
  <2>3. Lawful(rt, o.rt)
    BY <1>1, <2>2, OutcomesLawful
  <2>4. Guarded(rt') /\ Kept(rt, rt')
    BY <1>1, <2>2, <2>3 DEF Lawful
  <2>5. ASSUME NEW y \in after, y[3].op \in Spawns
        PROVE  Ready(y[3], rt')
    <3>1. y \notin before \ {x}
      BY <1>1, <2>5 DEF Race
    <3>2. o.ok /\ x[3].op \in Asks /\ y[3] = [x[3] EXCEPT !.op = SpawnAfter(x[3].op)]
      BY <2>2, <2>5, <3>1
    <3>3. o.rt = rt /\ Ready([x[3] EXCEPT !.op = SpawnAfter(x[3].op)], rt)
      BY <2>2, <3>2, AskMakesReady
    <3> QED BY <2>2, <3>2, <3>3
  <2> QED BY <1>2, <2>4, <2>5
<1> QED BY <1>3, <1>4 DEF Steps

\* The machine keeps its promise in this step, or there is a race.
MachineStep == raced' \/ (~raced /\ Guarded(rt) /\ Kept(rt, rt'))

LEMMA SafeNext ==
    ASSUME Typed, NEW before, NEW after, Safe(before), Steps(before, after),
           raced' = (raced \/ Race(after))
    PROVE  /\ raced' \in BOOLEAN /\ MachineOK' /\ MachineStep
           /\ Race(after) => raced'
           /\ ~raced' => Guarded(rt') /\ \A y \in after : Ready(y[3], rt')
<1>1. raced' \in BOOLEAN
  BY DEF Typed, Race
<1>2. MachineOK'
  BY StepsTyped DEF Typed
<1>3. ~raced' => ~raced /\ ~Race(after)
  OBVIOUS
<1>4. ~raced' => Guarded(rt') /\ Kept(rt, rt') /\ \A y \in after : Ready(y[3], rt')
  BY <1>3, StepsSafe DEF Typed, MachineOK
<1>5. ~raced => Guarded(rt)
  BY DEF Safe
<1> QED BY <1>1, <1>2, <1>3, <1>4, <1>5 DEF MachineStep

\* From a typed step of the helpers to the invariant.
LEMMA ToIInv ==
    ASSUME IInv, up' \in BOOLEAN, RowOK', SessionsOK', LateOK',
           Steps(Running, Running'), Note(Running)
    PROVE  IInv' /\ MachineStep
<1>1. raced' = (raced \/ Race(Running'))
  BY DEF Note, Race
<1>2. /\ raced' \in BOOLEAN /\ MachineOK' /\ MachineStep
      /\ Race(Running') => raced'
      /\ ~raced' => Guarded(rt') /\ \A y \in Running' : Ready(y[3], rt')
  BY <1>1, SafeNext DEF IInv
<1>3. Typed'
  BY <1>2 DEF Typed
<1>4. Safe(Running)'
  BY <1>2 DEF Safe, Race, Ready, Guarded, HasProcess, KillswitchActive
<1> QED BY <1>2, <1>3, <1>4 DEF IInv

-----------------------------------------------------------------------------
\* How a request steps.

SpawnPoints == {"spawnOpenvpn", "spawnSocks"}

\* A session that is well-typed and waits for no spawn.
Plain(q) == q \in Request /\ SessionOK(q) /\ q.pc \notin SpawnPoints

\* The session of a start whose helper has looked, and will spawn.
Spawning(p, q) ==
    /\ q \in Request /\ SessionOK(q)
    /\ CallOf(p).op \in Asks
    /\ CallOf(q) = [CallOf(p) EXCEPT !.op = SpawnAfter(CallOf(p).op)]

Goes(r, q) == req' = [req EXCEPT ![r] = q]
GoesOn(r) == \E q : Plain(q) /\ Goes(r, q)
GoesToSpawn(r) == \E q : Spawning(req[r], q) /\ Goes(r, q)

\* It looks, or its helper answers, or the executor gives up on the helper.
RequestLooks(r) == GoesOn(r) /\ UNCHANGED <<up, rt, late>>

RequestCalls(r) ==
    /\ InCall(req[r])
    /\ \E o \in Outcomes(CallOf(req[r]), rt) :
           /\ rt' = o.rt
           /\ UNCHANGED <<up, row, late>>
           /\ GoesOn(r) \/ (o.ok /\ GoesToSpawn(r))

RequestGivesUp(r) ==
    /\ InCall(req[r])
    /\ GiveUp(CallOf(req[r]))
    /\ UNCHANGED <<up, row>>
    /\ GoesOn(r)

RequestSteps(r) == RequestLooks(r) \/ RequestCalls(r) \/ RequestGivesUp(r)

\* The elements of some sets that SMT and Zenon need.
LEMMA OperationFields ==
    ASSUME NEW q \in Request, InCall(q)
    PROVE  /\ CallOf(q) \in Call /\ CallOf(q).op = OperationAt[q.pc]
           /\ CallOf(q).node = q.mem.node
           /\ (CallOf(q).op \in Spawns <=> q.pc \in SpawnPoints)
           /\ (CallOf(q).op \in Asks <=> q.pc \in {"startOpenvpn", "startSocks"})
           /\ q.pc # "idle"
<1>1. q.mem.node \in Nodes \cup {NoNode}
  BY DEF Request, Columns
<1>2. OperationAt[q.pc] \in HelperSteps
  BY DEF InCall, OperationAt, HelperSteps
<1>3. (OperationAt[q.pc] \in Spawns <=> q.pc \in SpawnPoints)
      /\ (OperationAt[q.pc] \in Asks <=> q.pc \in {"startOpenvpn", "startSocks"})
      /\ q.pc # "idle"
  BY DEF InCall, OperationAt, Spawns, Asks, SpawnPoints
<1> QED BY <1>1, <1>2, <1>3 DEF CallOf, Call

\* The helpers at work after a request has gone on.
LEMMA RunningAfter ==
    ASSUME req \in [Requests -> Request], NEW r \in Requests, NEW q, Goes(r, q),
           up, UNCHANGED up, NEW y \in Running'
    PROVE  \/ InCall(q) /\ y = <<"request", r, CallOf(q)>>
           \/ y \in Running /\ y # <<"request", r, CallOf(req[r])>>
           \/ \E k \in Strays : /\ late'[k] # NoCall /\ late'[k] # late[k]
                                /\ y = <<"late", k, late'[k]>>
<1>1. CASE \E s \in Requests : InCall(req'[s]) /\ y = <<"request", s, CallOf(req'[s])>>
  <2>1. PICK s \in Requests : InCall(req'[s]) /\ y = <<"request", s, CallOf(req'[s])>>
    BY <1>1
  <2>2. CASE s = r
    BY <2>1, <2>2 DEF Goes
  <2>3. CASE s # r
    <3>1. req'[s] = req[s]
      BY <2>3 DEF Goes
    <3>2. y = <<"request", s, CallOf(req[s])>> /\ InCall(req[s])
      BY <2>1, <3>1
    <3>3. y \in Running
      BY <3>2, RunningElements
    <3>4. y # <<"request", r, CallOf(req[r])>>
      BY <2>3, <3>2
    <3> QED BY <3>3, <3>4
  <2> QED BY <2>2, <2>3
<1>2. CASE \E k \in Strays : late'[k] # NoCall /\ y = <<"late", k, late'[k]>>
  <2>1. PICK k \in Strays : late'[k] # NoCall /\ y = <<"late", k, late'[k]>>
    BY <1>2
  <2>2. CASE late'[k] = late[k]
    <3>1. y = <<"late", k, late[k]>> /\ late[k] # NoCall
      BY <2>1, <2>2
    <3>2. y \in Running
      BY <3>1, RunningElements
    <3>3. y # <<"request", r, CallOf(req[r])>>
      BY <3>1
    <3> QED BY <3>2, <3>3
  <2> QED BY <2>1, <2>2
<1> QED BY <1>1, <1>2, RunningElementsNext

LEMMA PlainRuns ==
    ASSUME NEW q, Plain(q), InCall(q)
    PROVE  CallOf(q).op \notin Spawns
BY OperationFields DEF Plain

\* What an element of the helpers at work is for its request.
LEMMA RequestRuns ==
    ASSUME SessionsOK, NEW r \in Requests, InCall(req[r])
    PROVE  /\ <<"request", r, CallOf(req[r])>> \in Running
           /\ CallOf(req[r]) \in Call
BY RunningElements, OperationFields DEF SessionsOK

LEMMA LooksStep ==
    ASSUME Typed, up, NEW r \in Requests, RequestLooks(r)
    PROVE  Quietly(Running, Running')
<1>1. PICK q : Plain(q) /\ Goes(r, q)
  BY DEF RequestLooks, GoesOn
<1>2. UNCHANGED <<up, rt, late>>
  BY DEF RequestLooks
<1>3. ASSUME NEW y \in Running', y[3].op \in Spawns
      PROVE  \E x \in Running : x[3] = y[3]
  <2>1. \/ InCall(q) /\ y = <<"request", r, CallOf(q)>>
        \/ y \in Running
    BY <1>1, <1>2, <1>3, RunningAfter DEF Typed, SessionsOK
  <2>2. ~(InCall(q) /\ y = <<"request", r, CallOf(q)>>)
    BY <1>1, <1>3, PlainRuns
  <2> QED BY <2>1, <2>2
<1>4. SameFence(rt, rt') /\ Lawful(rt, rt')
  BY <1>2, SameLawful DEF SameFence, Typed, MachineOK
<1> QED BY <1>3, <1>4 DEF Quietly

LEMMA GivesUpStep ==
    ASSUME Typed, up, NEW r \in Requests, RequestGivesUp(r)
    PROVE  Quietly(Running, Running') /\ LateOK'
<1>1. PICK q : Plain(q) /\ Goes(r, q)
  BY DEF RequestGivesUp, GoesOn
<1> DEFINE c == CallOf(req[r])
<1>2. UNCHANGED <<up, rt>> /\ InCall(req[r])
  BY DEF RequestGivesUp, GiveUp
<1>3. PICK k \in Strays : late[k] = NoCall /\ late' = [late EXCEPT ![k] = c]
  BY DEF RequestGivesUp, GiveUp
<1>4. <<"request", r, c>> \in Running /\ c \in Call
  BY <1>2, RequestRuns DEF Typed
<1>5. LateOK'
  BY <1>3, <1>4 DEF Typed, LateOK
<1>6. \A l \in Strays : late'[l] # late[l] => late'[l] = c
  BY <1>3 DEF Typed, LateOK
<1>7. ASSUME NEW y \in Running', y[3].op \in Spawns
      PROVE  \E x \in Running : x[3] = y[3]
  <2>1. \/ InCall(q) /\ y = <<"request", r, CallOf(q)>>
        \/ y \in Running
        \/ \E l \in Strays : late'[l] # late[l] /\ y = <<"late", l, late'[l]>>
    BY <1>1, <1>2, <1>7, RunningAfter DEF Typed, SessionsOK
  <2>2. ~(InCall(q) /\ y = <<"request", r, CallOf(q)>>)
    BY <1>1, <1>7, PlainRuns
  <2>3. CASE \E l \in Strays : late'[l] # late[l] /\ y = <<"late", l, late'[l]>>
    <3>1. y[3] = c
      BY <1>6, <2>3
    <3>2. <<"request", r, c>>[3] = c
      OBVIOUS
    <3> QED BY <1>4, <3>1, <3>2
  <2> QED BY <2>1, <2>2, <2>3
<1>8. SameFence(rt, rt') /\ Lawful(rt, rt')
  BY <1>2, SameLawful DEF SameFence, Typed, MachineOK
<1> QED BY <1>5, <1>7, <1>8 DEF Quietly

LEMMA CallsStep ==
    ASSUME Typed, up, NEW r \in Requests, RequestCalls(r)
    PROVE  Acts(Running, Running')
<1> DEFINE c == CallOf(req[r])
           x == <<"request", r, c>>
<1>1. InCall(req[r])
  BY DEF RequestCalls
<1>2. PICK o \in Outcomes(c, rt) :
          /\ rt' = o.rt
          /\ UNCHANGED <<up, row, late>>
          /\ GoesOn(r) \/ (o.ok /\ GoesToSpawn(r))
  BY DEF RequestCalls
<1>3. x \in Running /\ c \in Call /\ x[3] = c
  BY <1>1, RequestRuns DEF Typed
<1>4. ASSUME NEW y \in Running', y[3].op \in Spawns, y \notin Running \ {x}
      PROVE  o.ok /\ c.op \in Asks /\ y[3] = [c EXCEPT !.op = SpawnAfter(c.op)]
  <2>1. ASSUME NEW q, Goes(r, q)
        PROVE  InCall(q) /\ y = <<"request", r, CallOf(q)>>
    <3>1. \/ InCall(q) /\ y = <<"request", r, CallOf(q)>>
          \/ y \in Running /\ y # x
      BY <1>2, <1>4, <2>1, RunningAfter DEF Typed, SessionsOK
    <3> QED BY <1>4, <3>1
  <2>2. CASE GoesOn(r)
    <3>1. PICK q : Plain(q) /\ Goes(r, q)
      BY <2>2 DEF GoesOn
    <3> QED BY <1>4, <2>1, <3>1, PlainRuns
  <2>3. CASE o.ok /\ GoesToSpawn(r)
    <3>1. PICK q : Spawning(req[r], q) /\ Goes(r, q)
      BY <2>3 DEF GoesToSpawn
    <3>2. y[3] = CallOf(q)
      BY <2>1, <3>1
    <3> QED BY <2>3, <3>1, <3>2 DEF Spawning
  <2> QED BY <1>2, <2>2, <2>3
<1> HIDE DEF x
<1>5. \A y \in Running' :
          y[3].op \in Spawns =>
              \/ y \in Running \ {x}
              \/ o.ok /\ x[3].op \in Asks /\ y[3] = [x[3] EXCEPT !.op = SpawnAfter(x[3].op)]
  BY <1>3, <1>4
<1> QED BY <1>2, <1>3, <1>5 DEF Acts

\* The session of another request stays as it is.
LEMMA GoesOK ==
    ASSUME SessionsOK, NEW r \in Requests, NEW q \in Request, SessionOK(q), Goes(r, q)
    PROVE  SessionsOK'
BY DEF SessionsOK, SessionOK, Goes

LEMMA RequestStepsOK ==
    ASSUME Typed, up, NEW r \in Requests, RequestSteps(r)
    PROVE  /\ up' \in BOOLEAN /\ SessionsOK' /\ LateOK'
           /\ Steps(Running, Running')
<1>1. GoesOn(r) \/ GoesToSpawn(r)
  BY DEF RequestSteps, RequestLooks, RequestCalls, RequestGivesUp
<1>2. SessionsOK'
  BY <1>1, GoesOK DEF GoesOn, GoesToSpawn, Plain, Spawning, Typed
<1>3. up' \in BOOLEAN
  BY DEF RequestSteps, RequestLooks, RequestCalls, RequestGivesUp, Typed
<1>4. LateOK'
  BY GivesUpStep DEF RequestSteps, RequestLooks, RequestCalls, Typed, LateOK
<1>5. Steps(Running, Running')
  BY LooksStep, CallsStep, GivesUpStep DEF RequestSteps, Steps
<1> QED BY <1>2, <1>3, <1>4, <1>5

-----------------------------------------------------------------------------
\* The requests.

\* What a request holds while it is under way.
LEMMA WaitingSession ==
    ASSUME SessionsOK, NEW r \in Requests, req[r].pc # "idle"
    PROVE  /\ req[r] \in Request /\ req[r].mem \in Columns /\ req[r].seen \in Columns
           /\ req[r].mem.node \in Nodes /\ req[r].endpoint \in BOOLEAN
           /\ req[r].op \in {"none", "start", "stop", "restart", "delete"}
BY DEF SessionsOK, SessionOK, Request

\* A session that goes on with its columns mem.
LEMMA ContinueGoes ==
    ASSUME SessionsOK, NEW r \in Requests, req[r].pc # "idle",
           NEW p \in Points \ SpawnPoints, NEW mem \in Columns, mem.node \in Nodes,
           p = "commit" => mem.status \in Committed,
           Continue(r, p, mem)
    PROVE  GoesOn(r)
<1> DEFINE q == [req[r] EXCEPT !.pc = p, !.mem = mem]
<1>1. q \in Request /\ q.pc = p /\ q.mem = mem
  BY WaitingSession DEF Request
<1>2. Plain(q)
  BY <1>1 DEF Plain, SessionOK
<1>3. Goes(r, q)
  BY DEF Continue, Goes, SessionsOK
<1> QED BY <1>2, <1>3 DEF GoesOn

LEMMA StaysAt ==
    ASSUME SessionsOK, NEW r \in Requests, req[r].pc # "idle",
           NEW p \in Points \ (SpawnPoints \cup {"commit"})
    PROVE  Continue(r, p, req[r].mem) => GoesOn(r)
BY ContinueGoes, WaitingSession

LEMMA StartEnds ==
    ASSUME SessionsOK, NEW r \in Requests, req[r].pc # "idle"
    PROVE  /\ StartFailed(r) => GoesOn(r)
           /\ StartSucceeded(r) => GoesOn(r)
<1>1. "commit" \in Points \ SpawnPoints
  BY DEF Points, SpawnPoints
<1>2. ASSUME NEW mem \in Columns, mem.node \in Nodes, mem.status \in Committed,
             Continue(r, "commit", mem)
      PROVE  GoesOn(r)
  BY <1>1, <1>2, ContinueGoes
<1> DEFINE f == [req[r].mem EXCEPT !.status = "FAILED", !.active = FALSE]
           s == [req[r].mem EXCEPT !.status = "RUNNING", !.active = req[r].endpoint,
                                   !.failures = 0]
<1>3. f \in Columns /\ f.node \in Nodes /\ f.status \in Committed
  BY WaitingSession DEF Columns, Status, Committed
<1>4. s \in Columns /\ s.node \in Nodes /\ s.status \in Committed
  BY WaitingSession DEF Columns, Status, Committed
<1>5. StartFailed(r) => Continue(r, "commit", f)
  BY DEF StartFailed
<1>6. StartSucceeded(r) => Continue(r, "commit", s)
  BY DEF StartSucceeded
<1> HIDE DEF f, s
<1> QED BY <1>2, <1>3, <1>4, <1>5, <1>6

LEMMA StopEnds ==
    ASSUME SessionsOK, NEW r \in Requests, req[r].pc # "idle"
    PROVE  /\ StopFailed(r) => GoesOn(r)
           /\ StopSucceeded(r) => GoesOn(r)
<1>1. /\ "commit" \in Points \ SpawnPoints
      /\ "createNamespace" \in Points \ SpawnPoints
  BY DEF Points, StartPoints, SpawnPoints
<1> DEFINE f == [req[r].mem EXCEPT !.status = "FAILED"]
           a == [req[r].mem EXCEPT !.status = "STARTING", !.active = FALSE]
           s == [req[r].mem EXCEPT !.status = "STOPPED", !.active = FALSE]
<1>2. f \in Columns /\ f.node \in Nodes /\ f.status \in Committed
  BY WaitingSession DEF Columns, Status, Committed
<1>3. a \in Columns /\ a.node \in Nodes
  BY WaitingSession DEF Columns, Status
<1>4. s \in Columns /\ s.node \in Nodes /\ s.status \in Committed
  BY WaitingSession DEF Columns, Status, Committed
<1>5. StopFailed(r) => Continue(r, "commit", f)
  BY DEF StopFailed
<1>6. StopSucceeded(r) => Continue(r, "createNamespace", a) \/ Continue(r, "commit", s)
  BY DEF StopSucceeded
<1> HIDE DEF f, a, s
<1> QED BY <1>1, <1>2, <1>3, <1>4, <1>5, <1>6, ContinueGoes

\* The helper of a start has looked, and its request waits for the spawn.
LEMMA SpawnNext ==
    ASSUME SessionsOK, NEW r \in Requests,
           NEW p, NEW p1,
           \/ p = "startOpenvpn" /\ p1 = "spawnOpenvpn"
           \/ p = "startSocks" /\ p1 = "spawnSocks",
           req[r].pc = p, Continue(r, p1, req[r].mem)
    PROVE  GoesToSpawn(r)
<1> DEFINE q == [req[r] EXCEPT !.pc = p1, !.mem = req[r].mem]
<1>1. /\ req[r] \in Request /\ req[r].pc # "idle"
      /\ req[r].mem \in Columns /\ req[r].mem.node \in Nodes
  BY WaitingSession
<1>2. q \in Request /\ q.pc = p1 /\ q.mem = req[r].mem
  <2>1. p1 \in Points
    BY DEF Points, StartPoints
  <2> QED BY <1>1, <2>1 DEF Request
<1>3. SessionOK(q)
  BY <1>1, <1>2 DEF SessionOK
<1>4. Goes(r, q)
  BY DEF Continue, Goes, SessionsOK
<1> HIDE DEF q
<1>5. /\ CallOf(req[r]) = [op |-> OperationAt[p], node |-> req[r].mem.node]
      /\ CallOf(q) = [op |-> OperationAt[p1], node |-> req[r].mem.node]
  BY <1>2 DEF CallOf
<1>6. OperationAt[p] \in Asks /\ OperationAt[p1] = SpawnAfter(OperationAt[p])
  BY DEF OperationAt, Asks, SpawnAfter
<1>7. CallOf(req[r]).op \in Asks
      /\ CallOf(q) = [CallOf(req[r]) EXCEPT !.op = SpawnAfter(CallOf(req[r]).op)]
  BY <1>5, <1>6
<1> QED BY <1>2, <1>3, <1>4, <1>7 DEF Spawning, GoesToSpawn

LEMMA AtCall ==
    ASSUME SessionsOK, NEW r \in Requests, NEW p \in Points, At(r, p)
    PROVE  /\ up /\ req[r].pc = p /\ req[r].pc # "idle"
           /\ p \notin {"awaitTunnel", "probeExit", "awaitSocks", "commit", "delete"}
                 => InCall(req[r])
BY DEF At, Points, StartPoints, UndoPoints, StopPoints, InCall, OperationAt

LEMMA AwaitSteps ==
    ASSUME NEW r \in Requests, InCall(req[r]),
           Await(r, GoesOn(r), GoesOn(r)) \/ Await(r, GoesToSpawn(r), GoesOn(r))
    PROVE  RequestSteps(r) /\ UNCHANGED <<up, row>>
<1>1. UNCHANGED <<up, row>>
  BY DEF Await, AwaitCall
<1>2. CASE \E o \in Outcomes(CallOf(req[r]), rt) :
              rt' = o.rt /\ UNCHANGED late /\ (GoesOn(r) \/ (o.ok /\ GoesToSpawn(r)))
  BY <1>1, <1>2 DEF RequestSteps, RequestCalls
<1>3. CASE GiveUp(CallOf(req[r])) /\ GoesOn(r)
  BY <1>1, <1>3 DEF RequestSteps, RequestGivesUp
<1>4. \/ \E o \in Outcomes(CallOf(req[r]), rt) :
              rt' = o.rt /\ UNCHANGED late /\ (GoesOn(r) \/ (o.ok /\ GoesToSpawn(r)))
      \/ GiveUp(CallOf(req[r])) /\ GoesOn(r)
  BY Zenon DEF Await, AwaitCall
<1> QED BY <1>1, <1>2, <1>3, <1>4

LEMMA LookSteps ==
    ASSUME NEW r \in Requests, NEW found \in BOOLEAN, Look(found, GoesOn(r), GoesOn(r))
    PROVE  RequestSteps(r) /\ UNCHANGED <<up, row>>
BY DEF Look, RequestSteps, RequestLooks

LEMMA PointsElements ==
    /\ {"createNamespace", "applyKillswitch", "startOpenvpn", "awaitTunnel",
        "probeExit", "startSocks", "awaitSocks", "undoSocks", "undoOpenvpn",
        "undoKillswitch", "undoApply", "undoNamespace", "stopSocks", "stopOpenvpn",
        "removeKillswitch", "deleteNamespace", "delete"}
          \subseteq Points \ (SpawnPoints \cup {"commit"})
    /\ SpawnPoints \subseteq Points /\ "commit" \in Points
BY DEF Points, StartPoints, UndoPoints, StopPoints, SpawnPoints

StepsOn(r) == up /\ RequestSteps(r) /\ UNCHANGED <<up, row>>

LEMMA AwaitThenSteps ==
    ASSUME SessionsOK, NEW r \in Requests,
           NEW p \in Points \ {"awaitTunnel", "probeExit", "awaitSocks", "commit", "delete"},
           NEW p1 \in Points \ (SpawnPoints \cup {"commit"}),
           NEW p2 \in Points \ (SpawnPoints \cup {"commit"}),
           At(r, p), AwaitThen(r, p1, p2)
    PROVE  StepsOn(r)
<1>1. up /\ InCall(req[r]) /\ req[r].pc # "idle"
  BY AtCall
<1>2. /\ Continue(r, p1, req[r].mem) => GoesOn(r)
      /\ Continue(r, p2, req[r].mem) => GoesOn(r)
  BY <1>1, StaysAt
<1>3. Await(r, GoesOn(r), GoesOn(r))
  BY <1>2, Zenon DEF AwaitThen, Await, AwaitCall
<1> QED BY <1>1, <1>3, AwaitSteps DEF StepsOn

LEMMA AwaitSpawnSteps ==
    ASSUME SessionsOK, NEW r \in Requests, NEW p, NEW p1,
           \/ p = "startOpenvpn" /\ p1 = "spawnOpenvpn"
           \/ p = "startSocks" /\ p1 = "spawnSocks",
           NEW p2 \in Points \ (SpawnPoints \cup {"commit"}),
           At(r, p), AwaitThen(r, p1, p2)
    PROVE  StepsOn(r)
<1>1. up /\ InCall(req[r]) /\ req[r].pc # "idle" /\ req[r].pc = p
  BY DEF At, InCall, OperationAt
<1>2. /\ Continue(r, p1, req[r].mem) => GoesToSpawn(r)
      /\ Continue(r, p2, req[r].mem) => GoesOn(r)
  BY <1>1, StaysAt, SpawnNext
<1>3. Await(r, GoesToSpawn(r), GoesOn(r))
  BY <1>2, Zenon DEF AwaitThen, Await, AwaitCall
<1> QED BY <1>1, <1>3, AwaitSteps DEF StepsOn

LEMMA AwaitEndSteps ==
    ASSUME SessionsOK, NEW r \in Requests,
           NEW p \in Points \ {"awaitTunnel", "probeExit", "awaitSocks", "commit", "delete"},
           At(r, p), Await(r, GoesOn(r), GoesOn(r))
    PROVE  StepsOn(r)
BY AtCall, AwaitSteps DEF StepsOn

LEMMA StartSteps ==
    ASSUME SessionsOK, NEW r \in Requests,
           \/ CreateNamespace(r) \/ ApplyKillswitch(r)
           \/ StartOpenvpn(r) \/ SpawnOpenvpn(r) \/ AwaitTunnel(r) \/ ProbeExit(r)
           \/ StartSocks(r) \/ SpawnSocks(r) \/ AwaitSocks(r)
    PROVE  StepsOn(r)
<1>1. CASE CreateNamespace(r)
  BY <1>1, PointsElements, AwaitThenSteps DEF CreateNamespace
<1>2. CASE ApplyKillswitch(r)
  BY <1>2, PointsElements, AwaitThenSteps DEF ApplyKillswitch
<1>3. CASE StartOpenvpn(r)
  BY <1>3, PointsElements, AwaitSpawnSteps DEF StartOpenvpn
<1>4. CASE SpawnOpenvpn(r)
  BY <1>4, PointsElements, AwaitThenSteps DEF SpawnOpenvpn, SpawnPoints
<1>5. CASE AwaitTunnel(r)
  <2>1. up /\ req[r].pc # "idle"
    BY <1>5 DEF AwaitTunnel, At
  <2>2. /\ Continue(r, "probeExit", req[r].mem) => GoesOn(r)
        /\ Continue(r, "undoOpenvpn", req[r].mem) => GoesOn(r)
    BY <2>1, PointsElements, StaysAt
  <2>3. Look(TunReady(rt), GoesOn(r), GoesOn(r)) /\ TunReady(rt) \in BOOLEAN
    BY <1>5, <2>2 DEF AwaitTunnel, Look, TunReady
  <2> QED BY <2>1, <2>3, LookSteps DEF StepsOn
<1>6. CASE ProbeExit(r)
  <2>1. up /\ req[r].pc # "idle"
    BY <1>6 DEF ProbeExit, At
  <2>2. /\ Continue(r, "startSocks", req[r].mem) => GoesOn(r)
        /\ Continue(r, "undoOpenvpn", req[r].mem) => GoesOn(r)
        /\ StartSucceeded(r) => GoesOn(r)
    BY <2>1, PointsElements, StaysAt, StartEnds
  <2>3. GoesOn(r) /\ UNCHANGED <<up, row, rt, late>>
    BY <1>6, <2>2 DEF ProbeExit, Look
  <2> QED BY <2>1, <2>3 DEF StepsOn, RequestSteps, RequestLooks
<1>7. CASE StartSocks(r)
  <2>1. CASE AwaitThen(r, "spawnSocks", "undoSocks")
    BY <1>7, <2>1, PointsElements, AwaitSpawnSteps DEF StartSocks
  <2>2. CASE Look(FALSE, FALSE, Continue(r, "undoOpenvpn", req[r].mem))
    <3>1. up /\ req[r].pc # "idle"
      BY <1>7 DEF StartSocks, At
    <3>2. GoesOn(r) /\ UNCHANGED <<up, row, rt, late>>
      BY <2>2, <3>1, PointsElements, StaysAt DEF Look
    <3> QED BY <3>1, <3>2 DEF StepsOn, RequestSteps, RequestLooks
  <2> QED BY <1>7, <2>1, <2>2 DEF StartSocks
<1>8. CASE SpawnSocks(r)
  BY <1>8, PointsElements, AwaitThenSteps DEF SpawnSocks, SpawnPoints
<1>9. CASE AwaitSocks(r)
  <2>1. up /\ req[r].pc # "idle"
    BY <1>9 DEF AwaitSocks, At
  <2>2. /\ Continue(r, "undoSocks", req[r].mem) => GoesOn(r)
        /\ Continue(r, "undoOpenvpn", req[r].mem) => GoesOn(r)
        /\ StartSucceeded(r) => GoesOn(r)
    BY <2>1, PointsElements, StaysAt, StartEnds
  <2>3. GoesOn(r) /\ UNCHANGED <<up, row, rt, late>>
    BY <1>9, <2>2 DEF AwaitSocks, Look
  <2> QED BY <2>1, <2>3 DEF StepsOn, RequestSteps, RequestLooks
<1> QED BY <1>1, <1>2, <1>3, <1>4, <1>5, <1>6, <1>7, <1>8, <1>9

LEMMA UndoSteps ==
    ASSUME SessionsOK, NEW r \in Requests,
           \/ UndoSocks(r) \/ UndoOpenvpn(r) \/ UndoKillswitch(r) \/ UndoApply(r)
           \/ UndoNamespace(r)
    PROVE  StepsOn(r)
<1>1. CASE UndoSocks(r)
  BY <1>1, PointsElements, AwaitThenSteps DEF UndoSocks
<1>2. CASE UndoOpenvpn(r)
  <2>1. req[r].pc # "idle"
    BY <1>2 DEF UndoOpenvpn, At
  <2>2. /\ Continue(r, "undoKillswitch", req[r].mem) => GoesOn(r)
        /\ StartFailed(r) => GoesOn(r)
    BY <2>1, PointsElements, StaysAt, StartEnds
  <2>3. Await(r, GoesOn(r), GoesOn(r)) /\ At(r, "undoOpenvpn")
    BY <1>2, <2>2, Zenon DEF UndoOpenvpn, Await, AwaitCall
  <2> QED BY <2>3, PointsElements, AwaitEndSteps
<1>3. CASE UndoKillswitch(r)
  <2>1. req[r].pc # "idle"
    BY <1>3 DEF UndoKillswitch, At
  <2>2. /\ Continue(r, "undoNamespace", req[r].mem) => GoesOn(r)
        /\ StartFailed(r) => GoesOn(r)
    BY <2>1, PointsElements, StaysAt, StartEnds
  <2>3. Await(r, GoesOn(r), GoesOn(r)) /\ At(r, "undoKillswitch")
    BY <1>3, <2>2, Zenon DEF UndoKillswitch, Await, AwaitCall
  <2> QED BY <2>3, PointsElements, AwaitEndSteps
<1>4. CASE UndoApply(r)
  BY <1>4, PointsElements, AwaitThenSteps DEF UndoApply
<1>5. CASE UndoNamespace(r)
  <2>1. req[r].pc # "idle"
    BY <1>5 DEF UndoNamespace, At
  <2>2. StartFailed(r) => GoesOn(r)
    BY <2>1, StartEnds
  <2>3. Await(r, GoesOn(r), GoesOn(r)) /\ At(r, "undoNamespace")
    BY <1>5, <2>2, Zenon DEF UndoNamespace, Await, AwaitCall
  <2> QED BY <2>3, PointsElements, AwaitEndSteps
<1> QED BY <1>1, <1>2, <1>3, <1>4, <1>5

LEMMA StopSteps ==
    ASSUME SessionsOK, NEW r \in Requests,
           \/ StopSocks(r) \/ StopOpenvpn(r) \/ RemoveKillswitch(r) \/ DeleteNamespace(r)
    PROVE  StepsOn(r)
<1>1. CASE StopSocks(r)
  <2>1. req[r].pc # "idle"
    BY <1>1 DEF StopSocks, At
  <2> DEFINE m == [req[r].mem EXCEPT !.active = FALSE]
  <2>2. m \in Columns /\ m.node \in Nodes
    BY <2>1, WaitingSession DEF Columns
  <2> HIDE DEF m
  <2>3. /\ Continue(r, "stopOpenvpn", m) => GoesOn(r)
        /\ StopFailed(r) => GoesOn(r)
    BY <2>1, <2>2, PointsElements, ContinueGoes, StopEnds
  <2>4. Await(r, GoesOn(r), GoesOn(r)) /\ At(r, "stopSocks")
    BY <1>1, <2>3, Zenon DEF StopSocks, Await, AwaitCall, m
  <2> QED BY <2>4, PointsElements, AwaitEndSteps
<1>2. CASE StopOpenvpn(r)
  <2>1. req[r].pc # "idle"
    BY <1>2 DEF StopOpenvpn, At
  <2>2. /\ Continue(r, "removeKillswitch", req[r].mem) => GoesOn(r)
        /\ StopFailed(r) => GoesOn(r)
    BY <2>1, PointsElements, StaysAt, StopEnds
  <2>3. Await(r, GoesOn(r), GoesOn(r)) /\ At(r, "stopOpenvpn")
    BY <1>2, <2>2, Zenon DEF StopOpenvpn, Await, AwaitCall
  <2> QED BY <2>3, PointsElements, AwaitEndSteps
<1>3. CASE RemoveKillswitch(r)
  <2>1. req[r].pc # "idle"
    BY <1>3 DEF RemoveKillswitch, At
  <2>2. /\ Continue(r, "deleteNamespace", req[r].mem) => GoesOn(r)
        /\ StopFailed(r) => GoesOn(r)
    BY <2>1, PointsElements, StaysAt, StopEnds
  <2>3. Await(r, GoesOn(r), GoesOn(r)) /\ At(r, "removeKillswitch")
    BY <1>3, <2>2, Zenon DEF RemoveKillswitch, Await, AwaitCall
  <2> QED BY <2>3, PointsElements, AwaitEndSteps
<1>4. CASE DeleteNamespace(r)
  <2>1. req[r].pc # "idle"
    BY <1>4 DEF DeleteNamespace, At
  <2>2. (StopSucceeded(r) => GoesOn(r)) /\ (StopFailed(r) => GoesOn(r))
    BY <2>1, StopEnds
  <2>3. Await(r, GoesOn(r), GoesOn(r)) /\ At(r, "deleteNamespace")
    BY <1>4, <2>2, Zenon DEF DeleteNamespace, Await, AwaitCall
  <2> QED BY <2>3, PointsElements, AwaitEndSteps
<1> QED BY <1>1, <1>2, <1>3, <1>4

\* What a step of the lifecycle leaves well-typed, and does to the helpers at work.
StepsWell ==
    /\ up' \in BOOLEAN /\ RowOK' /\ SessionsOK' /\ LateOK'
    /\ Steps(Running, Running')

\* The session of a request that is over.
LEMMA IdleGoes ==
    ASSUME NEW r, req' = [req EXCEPT ![r] = IdleRequest]
    PROVE  GoesOn(r)
BY IdleOK DEF GoesOn, Goes, Plain, IdleRequest, SpawnPoints

\* A commit writes what may be committed, and names a node.
LEMMA WrittenOK ==
    ASSUME RowOK, NEW seen \in Columns, NEW mem \in Columns, mem.node \in Nodes,
           mem.status \in Committed,
           row' = IF row.exists
                  THEN [row EXCEPT !.col = Written(@, seen, mem)] ELSE row
    PROVE  RowOK'
<1> DEFINE c == Written(row.col, seen, mem)
<1>1. row.col \in Columns
  BY DEF RowOK, Row
<1>2. c \in Columns /\ c.status \in Committed /\ (row.exists => c.node \in Nodes)
  BY <1>1 DEF Written, Columns, RowOK
<1>3. row' = IF row.exists THEN [row EXCEPT !.col = c] ELSE row
  OBVIOUS
<1> HIDE DEF c
<1> QED BY <1>2, <1>3 DEF RowOK, Row

LEMMA NoRowOK ==
    ASSUME row' = NoRow
    PROVE  RowOK'
<1>1. NoColumns \in Columns /\ NoColumns.status \in Committed
  BY DEF NoColumns, Columns, Status, Committed
<1> QED BY <1>1 DEF NoRow, RowOK, Row

LEMMA LocalStep ==
    ASSUME Typed, up, NEW r \in Requests, GoesOn(r), UNCHANGED <<up, rt, late>>, RowOK'
    PROVE  StepsWell
BY RequestStepsOK DEF RequestSteps, RequestLooks, StepsWell

LEMMA EndSteps ==
    ASSUME Typed, NEW r \in Requests, Commit(r) \/ DeleteRow(r) \/ CommitRefused(r)
    PROVE  StepsWell
<1>1. up /\ UNCHANGED <<up, rt, late>> /\ GoesOn(r)
  BY IdleGoes DEF Commit, DeleteRow, CommitRefused, At
<1>2. CASE Commit(r)
  <2>1. req[r].pc = "commit"
    BY <1>2 DEF Commit, At
  <2>2. /\ req[r].mem \in Columns /\ req[r].seen \in Columns
        /\ req[r].mem.node \in Nodes /\ req[r].mem.status \in Committed
    BY <2>1, WaitingSession DEF Typed, SessionsOK, SessionOK
  <2>3. RowOK'
    BY <1>2, <2>2, WrittenOK DEF Commit, Typed
  <2> QED BY <1>1, <2>3, LocalStep
<1>3. CASE DeleteRow(r)
  BY <1>1, <1>3, NoRowOK, LocalStep DEF DeleteRow
<1>4. CASE CommitRefused(r)
  <2>1. RowOK'
    BY <1>4 DEF CommitRefused, Typed, RowOK
  <2> QED BY <1>1, <2>1, LocalStep
<1> QED BY <1>2, <1>3, <1>4

LEMMA ProgressSteps ==
    ASSUME Typed, NEW r \in Requests, Progress(r)
    PROVE  StepsWell
<1>1. CASE StepsOn(r)
  <2>1. RowOK'
    BY <1>1 DEF StepsOn, Typed, RowOK
  <2> QED BY <1>1, <2>1, RequestStepsOK DEF StepsOn, StepsWell
<1>2. StepsOn(r) \/ Commit(r) \/ DeleteRow(r)
  BY StartSteps, UndoSteps, StopSteps DEF Progress, Typed
<1> QED BY <1>1, <1>2, EndSteps

LEMMA AcceptSteps ==
    ASSUME Typed, NEW r \in Requests,
           NEW op \in {"start", "stop", "restart", "delete"},
           NEW status \in Status, NEW point \in Points \ (SpawnPoints \cup {"commit"}),
           Accept(r, op, status, point)
    PROVE  StepsWell
<1> DEFINE q == [op |-> op, pc |-> point, endpoint |-> row.endpoint,
                 seen |-> row.col, mem |-> [row.col EXCEPT !.status = status]]
<1>1. req' = [req EXCEPT ![r] = q] /\ UNCHANGED <<up, row, rt, late>> /\ row.exists /\ up
  BY DEF Accept
<1>2. row.col \in Columns /\ row.endpoint \in BOOLEAN /\ row.col.node \in Nodes
  BY <1>1 DEF Typed, RowOK, Row
<1>3. q \in Request
  BY <1>2 DEF Request, Columns
<1>4. SessionOK(q) /\ q.pc \notin SpawnPoints
  BY <1>2 DEF SessionOK, Columns
<1> HIDE DEF q
<1>5. GoesOn(r)
  BY <1>1, <1>3, <1>4 DEF GoesOn, Goes, Plain
<1>6. RowOK'
  BY <1>1 DEF Typed, RowOK
<1> QED BY <1>1, <1>5, <1>6, LocalStep

LEMMA ArriveSteps ==
    ASSUME Typed, NEW r \in Requests, Arrive(r)
    PROVE  StepsWell
<1>1. {"createNamespace", "stopSocks", "stopOpenvpn", "delete"}
          \subseteq Points \ (SpawnPoints \cup {"commit"})
  BY PointsElements
<1>2. {"STARTING", "STOPPING", "STOPPED"} \subseteq Status
  BY DEF Status
<1>3. FirstStopPoint \in Points \ (SpawnPoints \cup {"commit"})
  BY <1>1 DEF FirstStopPoint
<1>4. CASE AcceptStart(r)
  BY <1>1, <1>2, <1>4, AcceptSteps DEF AcceptStart
<1>5. CASE AcceptStop(r)
  BY <1>2, <1>3, <1>5, AcceptSteps DEF AcceptStop
<1>6. CASE AcceptRestart(r)
  BY <1>1, <1>2, <1>3, <1>6, AcceptSteps DEF AcceptRestart
<1>7. CASE AcceptDelete(r)
  BY <1>1, <1>2, <1>7, AcceptSteps DEF AcceptDelete
<1> QED BY <1>4, <1>5, <1>6, <1>7 DEF Arrive

-----------------------------------------------------------------------------
\* The machine and the service.

\* Where neither requests nor stray helpers move, nobody new is about to spawn.
LEMMA NobodyMoves ==
    ASSUME UNCHANGED <<req, late>>, NEW y \in Running', y[3].op \in Spawns
    PROVE  /\ y \in Running
           /\ y # <<"recovery", 0, [op |-> "purge", node |-> NoNode]>>
<1>1. y # <<"recovery", 0, [op |-> "purge", node |-> NoNode]>>
  BY DEF Spawns
<1> QED BY <1>1, RunningElements, RunningElementsNext

LEMMA SameStep ==
    ASSUME Typed, UNCHANGED <<req, late>>, up' \in BOOLEAN, RowOK',
           SameFence(rt, rt'), Lawful(rt, rt')
    PROVE  StepsWell
<1>1. SessionsOK' /\ LateOK'
  BY DEF Typed, SessionsOK, SessionOK, LateOK
<1>2. \A y \in Running' : y[3].op \in Spawns => \E x \in Running : x[3] = y[3]
  BY NobodyMoves
<1> QED BY <1>1, <1>2 DEF StepsWell, Steps, Quietly

LEMMA CreateConnectionSteps ==
    ASSUME Typed, CreateConnection
    PROVE  StepsWell
<1>1. RowOK'
  <2>1. PICK n \in Nodes, e \in BOOLEAN :
            row' = [exists |-> TRUE, endpoint |-> e,
                    col |-> [NoColumns EXCEPT !.node = n]]
    BY DEF CreateConnection
  <2> QED BY <2>1 DEF RowOK, Row, NoColumns, Columns, Status, Committed
<1>2. UNCHANGED <<up, rt, req, late>>
  BY DEF CreateConnection
<1>3. SameFence(rt, rt') /\ Lawful(rt, rt') /\ up' \in BOOLEAN
  BY <1>2, SameLawful DEF SameFence, Typed, MachineOK
<1> QED BY <1>1, <1>2, <1>3, SameStep

LEMMA ExitSteps ==
    ASSUME Typed, OpenvpnExits \/ SocksExits
    PROVE  StepsWell
<1>1. UNCHANGED <<up, row, req, late>> /\ (rt' = WithoutVpn(rt) \/ rt' = WithoutSocks(rt))
  BY DEF OpenvpnExits, SocksExits
<1>2. SameFence(rt, rt') /\ Lawful(rt, rt')
  BY <1>1, WithoutVpnLawful, WithoutSocksLawful DEF Typed, MachineOK
<1>3. RowOK' /\ up' \in BOOLEAN
  BY <1>1 DEF Typed, RowOK
<1> QED BY <1>1, <1>2, <1>3, SameStep

\* A crash takes away any of the processes, every session, and perhaps the helpers.
LEMMA CrashSteps ==
    ASSUME Typed, Crash
    PROVE  StepsWell
<1>1. PICK alive \in SUBSET Survivors :
          /\ LET s == IF "vpn" \in alive THEN rt ELSE WithoutVpn(rt)
             IN  rt' = IF "socks" \in alive THEN s ELSE WithoutSocks(s)
          /\ late' = IF "helper" \in alive THEN late ELSE [k \in Strays |-> NoCall]
  BY DEF Crash
<1>2. req' = [r \in Requests |-> IdleRequest] /\ up' = FALSE /\ row' = row
  BY DEF Crash
<1> DEFINE s == IF "vpn" \in alive THEN rt ELSE WithoutVpn(rt)
<1>3. /\ s \in Runtime /\ Lawful(rt, s) /\ SameFence(rt, s)
      /\ s.vpn \in {rt.vpn, NoNode} /\ s.socks = rt.socks
  BY SameLawful, WithoutVpnLawful DEF Typed, MachineOK, Lawful, SameFence
<1>4. rt' = IF "socks" \in alive THEN s ELSE WithoutSocks(s)
  BY <1>1
<1> HIDE DEF s
<1>5. /\ Lawful(s, rt') /\ SameFence(s, rt') /\ rt'.vpn = s.vpn
      /\ rt'.socks = s.socks \/ ~rt'.socks
  BY <1>3, <1>4, SameLawful, WithoutSocksLawful DEF SameFence
<1>6. SameFence(rt, rt')
  BY <1>3, <1>5 DEF SameFence
<1>7. Lawful(rt, rt')
  <2>1. rt' \in Runtime /\ (Tidy(rt) => Tidy(rt')) /\ (Guarded(rt) => Guarded(rt'))
    BY <1>3, <1>5 DEF Lawful
  <2>2. rt'.socks \in {rt.socks, FALSE} /\ rt'.vpn \in {rt.vpn, NoNode}
    BY <1>3, <1>5, <2>1 DEF Runtime
  <2>3. Kept(rt, rt')
    BY <1>6, <2>2 DEF Kept, CloseStep, GuardOf, SameFence
  <2> QED BY <2>1, <2>3 DEF Lawful
<1>8. SessionsOK'
  BY <1>2, IdleOK DEF SessionsOK, SessionOK
<1>9. LateOK'
  BY <1>1 DEF Typed, LateOK
<1>10. RowOK'
  BY <1>2 DEF Typed, RowOK
<1>11. ASSUME NEW y \in Running', y[3].op \in Spawns
       PROVE  \E x \in Running : x[3] = y[3]
  <2>1. \E k \in Strays : late'[k] # NoCall /\ y = <<"late", k, late'[k]>>
    <3>1. y # <<"recovery", 0, [op |-> "purge", node |-> NoNode]>>
      BY <1>11 DEF Spawns
    <3>2. \A r \in Requests : ~InCall(req'[r])
      BY <1>2, IdleOK
    <3> QED BY <1>11, <3>1, <3>2, RunningElementsNext
  <2>2. PICK k \in Strays : late'[k] # NoCall /\ y = <<"late", k, late'[k]>>
    BY <2>1
  <2>3. late'[k] = late[k]
    BY <1>1, <2>2
  <2>4. y \in Running
    BY <2>2, <2>3, RunningElements
  <2> QED BY <2>4
<1>12. Quietly(Running, Running')
  BY <1>6, <1>7, <1>11 DEF Quietly
<1> QED BY <1>2, <1>8, <1>9, <1>10, <1>12 DEF StepsWell, Steps

\* The purge of a recovery is the step of one helper.
LEMMA RecoverSteps ==
    ASSUME Typed, Recover
    PROVE  StepsWell
<1> DEFINE c == [op |-> "purge", node |-> NoNode]
           x == <<"recovery", 0, c>>
<1>1. ~up /\ UNCHANGED <<req, late>>
  BY DEF Recover
<1>2. CASE Interrupted
  <2>1. PICK o \in Purge(rt) :
            rt' = o.rt /\ up' = o.ok /\ row' = IF o.ok THEN ClosedRow ELSE row
    BY <1>2 DEF Recover
  <2>2. o \in Outcomes(c, rt) /\ c \in Call
    BY DEF Outcomes, Call, HelperSteps
  <2>3. o \in Outcome
    BY PurgeLeaves DEF Typed, MachineOK
  <2>4. RowOK' /\ up' \in BOOLEAN
    BY <2>1, <2>3 DEF ClosedRow, Typed, RowOK, Row, Columns, Status, Committed, Outcome
  <2>5. SessionsOK' /\ LateOK'
    BY <1>1 DEF Typed, SessionsOK, SessionOK, LateOK
  <2>6. x \in Running
    BY <1>1, <1>2, RunningElements
  <2>7. ASSUME NEW y \in Running', y[3].op \in Spawns
        PROVE  y \in Running \ {x}
    BY <1>1, <2>7, NobodyMoves
  <2> HIDE DEF c
  <2>8. x[3] = c
    OBVIOUS
  <2> HIDE DEF x
  <2>9. Acts(Running, Running')
    BY <2>1, <2>2, <2>6, <2>7, <2>8 DEF Acts
  <2> QED BY <2>4, <2>5, <2>9 DEF StepsWell, Steps
<1>3. CASE ~Interrupted
  <2>1. UNCHANGED <<row, rt>> /\ up' = TRUE
    BY <1>3 DEF Recover
  <2>2. SameFence(rt, rt') /\ Lawful(rt, rt') /\ RowOK'
    BY <2>1, SameLawful DEF SameFence, Typed, MachineOK, RowOK
  <2> QED BY <1>1, <2>1, <2>2, SameStep
<1> QED BY <1>2, <1>3

\* A helper that nobody waits for.
LEMMA LateSteps ==
    ASSUME Typed, NEW k \in Strays, LateStep(k)
    PROVE  StepsWell
<1> DEFINE c == late[k]
           x == <<"late", k, c>>
<1>1. c # NoCall /\ UNCHANGED <<up, row, req>>
  BY DEF LateStep
<1>2. PICK o \in Outcomes(c, rt) :
          /\ rt' = o.rt
          /\ late' = [late EXCEPT ![k] = IF o.ok /\ c.op \in Asks
                                         THEN [c EXCEPT !.op = SpawnAfter(c.op)]
                                         ELSE NoCall]
  BY DEF LateStep
<1>3. c \in Call /\ x \in Running /\ x[3] = c
  BY <1>1, RunningElements DEF Typed, LateOK
<1> DEFINE d == [c EXCEPT !.op = SpawnAfter(c.op)]
<1>4. late'[k] = NoCall \/ (o.ok /\ c.op \in Asks /\ late'[k] = d)
  <2> DEFINE v == IF o.ok /\ c.op \in Asks THEN d ELSE NoCall
  <2>1. late' = [late EXCEPT ![k] = v]
    BY <1>2
  <2> HIDE DEF v, d, c
  <2>2. late'[k] = v
    BY <2>1 DEF Typed, LateOK
  <2> QED BY <2>2 DEF v
<1>5. d \in Call
  BY <1>3 DEF Call, SpawnAfter, HelperSteps
<1>6. \A l \in Strays : l # k => late'[l] = late[l]
  BY <1>2 DEF Typed, LateOK
<1>7. LateOK'
  <2>1. late' = [late EXCEPT ![k] = late'[k]]
    BY <1>2 DEF Typed, LateOK
  <2> HIDE DEF d
  <2>2. late'[k] \in Call \cup {NoCall}
    BY <1>4, <1>5
  <2> QED BY <2>1, <2>2 DEF Typed, LateOK
<1>8. SessionsOK' /\ RowOK' /\ up' \in BOOLEAN
  BY <1>1 DEF Typed, SessionsOK, SessionOK, RowOK
<1> HIDE DEF d
<1>9. ASSUME NEW y \in Running', y[3].op \in Spawns
      PROVE  y \in Running \ {x} \/ (o.ok /\ c.op \in Asks /\ y[3] = d)
  <2>1. CASE \E r \in Requests : InCall(req'[r]) /\ y = <<"request", r, CallOf(req'[r])>>
    <3>1. PICK r \in Requests : InCall(req'[r]) /\ y = <<"request", r, CallOf(req'[r])>>
      BY <2>1
    <3>2. y = <<"request", r, CallOf(req[r])>> /\ InCall(req[r])
      BY <1>1, <3>1
    <3>3. y \in Running /\ y # x
      BY <3>2, RunningElements
    <3> QED BY <3>3
  <2>2. CASE \E l \in Strays : late'[l] # NoCall /\ y = <<"late", l, late'[l]>>
    <3>1. PICK l \in Strays : late'[l] # NoCall /\ y = <<"late", l, late'[l]>>
      BY <2>2
    <3>2. CASE l = k
      BY <1>4, <3>1, <3>2
    <3>3. CASE l # k
      <4>1. y = <<"late", l, late[l]>> /\ late[l] # NoCall
        BY <1>6, <3>1, <3>3
      <4>2. y \in Running /\ y # x
        BY <3>3, <4>1, RunningElements
      <4> QED BY <4>2
    <3> QED BY <3>2, <3>3
  <2>3. y # <<"recovery", 0, [op |-> "purge", node |-> NoNode]>>
    BY <1>9 DEF Spawns
  <2> QED BY <1>9, <2>1, <2>2, <2>3, RunningElementsNext
<1> HIDE DEF x
<1>10. \A y \in Running' :
           y[3].op \in Spawns =>
               \/ y \in Running \ {x}
               \/ o.ok /\ x[3].op \in Asks /\ y[3] = [x[3] EXCEPT !.op = SpawnAfter(x[3].op)]
  BY <1>3, <1>9 DEF d
<1>11. Acts(Running, Running')
  BY <1>2, <1>3, <1>10 DEF Acts
<1> QED BY <1>7, <1>8, <1>11 DEF StepsWell, Steps

LEMMA LifecycleSteps ==
    ASSUME Typed, Serving \/ Mishap \/ Crash \/ Recover
    PROVE  StepsWell
<1>1. ASSUME NEW r \in Requests, Arrive(r) \/ Progress(r) \/ CommitRefused(r)
      PROVE  StepsWell
  BY <1>1, ArriveSteps, ProgressSteps, EndSteps
<1>2. CASE Serving
  BY <1>1, <1>2, CreateConnectionSteps, ExitSteps DEF Serving
<1>3. CASE Mishap
  BY <1>1, <1>3, LateSteps DEF Mishap
<1> QED BY <1>2, <1>3, CrashSteps, RecoverSteps

\* A stutter.
LEMMA NothingChanges ==
    ASSUME IInv, UNCHANGED <<vars, raced>>
    PROVE  IInv'
<1>1. UNCHANGED <<up, row, rt, req, late, raced>>
  BY DEF vars
<1>2. Typed'
  BY <1>1 DEF IInv, Typed, RowOK, MachineOK, SessionsOK, SessionOK, LateOK, Tidy, HasProcess
<1>3. Running' = Running
  BY <1>1 DEF Running, InCall, CallOf, Interrupted
<1>4. Safe(Running)'
  <2>1. Safe(Running)
    BY DEF IInv
  <2>2. Race(Running') <=> Race(Running)
    BY <1>3
  <2>3. Guarded(rt') <=> Guarded(rt)
    BY <1>1
  <2>4. \A x \in Running' : Ready(x[3], rt') <=> Ready(x[3], rt)
    BY <1>1
  <2> QED BY <1>1, <1>3, <2>1, <2>2, <2>3, <2>4 DEF Safe, Race, Ready, Guarded, HasProcess,
                                                    KillswitchActive
<1> QED BY <1>1, <1>2, <1>4 DEF IInv

LEMMA NextSound ==
    ASSUME IInv, [Next]_<<vars, raced>>
    PROVE  IInv' /\ (MachineStep \/ UNCHANGED <<rt, raced>>)
<1>1. CASE Next
  <2>1. StepsWell /\ Note(Running)
    BY <1>1, LifecycleSteps DEF Next, IInv
  <2> QED BY <2>1, ToIInv DEF StepsWell
<1>2. CASE UNCHANGED <<vars, raced>>
  BY <1>2, NothingChanges DEF vars
<1> QED BY <1>1, <1>2

-----------------------------------------------------------------------------
\* The theorems.

THEOREM Invariance == Spec => []IInv
<1>1. Init => IInv
  BY InitIInv
<1>2. IInv /\ [Next]_<<vars, raced>> => IInv'
  BY NextSound
<1> QED BY <1>1, <1>2, PTL DEF Spec

\* The state stays well-typed, and no transitional status is ever committed.
THEOREM TypeCorrect == Spec => []TypeOK
BY Invariance, IInvType, PTL

\* Whatever requests interleave, fail, are cut off by a crash or leave a helper at
\* work behind them: until a start looks for the kill switch and spawns, or a
\* recovery purges, while another helper of the connection is at work, no managed
\* process runs without the kill switch (root_helper.py: execute).
THEOREM KillSwitchHolds == Spec => []KillSwitchGuard
BY Invariance, IInvType, PTL

\* Only a recovery brings the service up.
LEMMA UpByRecovery ==
    ASSUME Typed, Next, ~up, up'
    PROVE  Recover
<1>1. ~CreateConnection /\ ~OpenvpnExits /\ ~SocksExits
  BY DEF CreateConnection, OpenvpnExits, SocksExits
<1>2. ASSUME NEW r \in Requests PROVE ~Arrive(r) /\ ~CommitRefused(r) /\ ~Progress(r)
  <2>1. ~Arrive(r) /\ ~CommitRefused(r) /\ ~Commit(r) /\ ~DeleteRow(r)
    BY DEF Arrive, AcceptStart, AcceptStop, AcceptRestart, AcceptDelete, Accept,
           CommitRefused, Commit, DeleteRow, At
  <2>2. Progress(r) => Commit(r) \/ DeleteRow(r) \/ StepsOn(r)
    BY StartSteps, UndoSteps, StopSteps DEF Progress, Typed
  <2> QED BY <2>1, <2>2 DEF StepsOn
<1>3. ASSUME NEW k \in Strays PROVE ~LateStep(k)
  BY DEF LateStep
<1> QED BY <1>1, <1>2, <1>3 DEF Next, Serving, Mishap, Crash

\* A service that comes up presents no connection as running; and unless another
\* helper was at work beside it, it has removed the processes, the state file and
\* the namespace of every connection whose row was active.  Rules that the purge
\* could not list may be left (recovery.py, root_helper.py: _purge_connection).
THEOREM RecoveryIsClosed == Spec => RecoveryFailsClosed
<1> DEFINE A == ~up /\ up' =>
                   /\ row'.exists => row'.col.status = "STOPPED" /\ ~row'.col.active
                   /\ Interrupted /\ ~raced => NothingButRules(rt')
<1>1. ASSUME IInv, [Next]_<<vars, raced>>
      PROVE  [A]_vars
  <2>1. SUFFICES ASSUME Next, ~up, up' PROVE A
    BY <1>1
  <2>2. Recover
    BY <1>1, <2>1, UpByRecovery DEF IInv
  <2>3. CASE Interrupted
    <3>1. PICK o \in Purge(rt) :
              /\ rt' = o.rt
              /\ up' = o.ok
              /\ row' = IF o.ok THEN ClosedRow ELSE row
      BY <2>2, <2>3 DEF Recover
    <3>2. NothingButRules(rt')
      BY <1>1, <2>1, <3>1, PurgeLeaves DEF IInv, Typed, MachineOK
    <3>3. row'.col.status = "STOPPED" /\ ~row'.col.active
      BY <1>1, <2>1, <3>1 DEF ClosedRow, IInv, Typed, RowOK, Row, Columns
    <3> QED BY <3>2, <3>3
  <2>4. CASE ~Interrupted
    <3>1. row' = row
      BY <2>2, <2>4 DEF Recover
    <3> QED BY <2>4, <3>1 DEF Interrupted
  <2> QED BY <2>3, <2>4
<1>2. QED BY <1>1, Invariance, PTL DEF Spec, RecoveryFailsClosed

\* A machine step is a step of the fail-closed tunnel; a race makes it void.
LEMMA KeptIsPromised ==
    ASSUME rt \in Runtime, rt' \in Runtime, raced' \in BOOLEAN, MachineStep
    PROVE  Promise!Next
<1>1. CASE raced'
  BY <1>1 DEF Promise!Next, Promise!Void, Runtime
<1>2. CASE ~raced' /\ ~raced /\ Kept(rt, rt')
  <2>1. CASE ReguardStep(rt, rt')
    BY <1>2, <2>1
    DEF ReguardStep, HasProcess, Runtime, Promise!Next, Promise!Orderly, Promise!Reguard
  <2>2. CASE OpenStep(rt, rt')
    BY <1>2, <2>2 DEF OpenStep, GuardOf, Runtime, Promise!Next, Promise!Orderly,
                      Promise!OpenTunnel, Promise!OpenProxy
  <2>3. CASE CloseStep(rt, rt')
    BY <1>2, <2>3 DEF CloseStep, GuardOf, HasProcess, Runtime, Promise!Next,
                      Promise!Orderly, Promise!Close, Promise!TearDown
  <2> QED BY <1>2, <2>1, <2>2, <2>3 DEF Kept
<1> QED BY <1>1, <1>2 DEF MachineStep

\* Whichever helpers overlap, every step of the service is a step of the fail-closed
\* tunnel, or none; once a start or a recovery has raced with another helper,
\* nothing is promised any more.
THEOREM Refinement == Spec => KeepsPromise
<1>1. Init => Promise!Init
  BY DEF Init, Promise!Init, CleanRuntime
<1>2. ASSUME IInv, IInv', [Next]_<<vars, raced>>
      PROVE  [Promise!Next]_(Promise!vars)
  <2>1. rt \in Runtime /\ rt' \in Runtime /\ raced' \in BOOLEAN
    BY <1>2 DEF IInv, Typed, MachineOK
  <2>2. MachineStep \/ UNCHANGED <<rt, raced>>
    BY <1>2, NextSound
  <2>3. CASE MachineStep
    BY <2>1, <2>3, KeptIsPromised
  <2>4. CASE UNCHANGED <<rt, raced>>
    BY <2>4 DEF Promise!vars
  <2> QED BY <2>2, <2>3, <2>4
<1> QED BY <1>1, <1>2, Invariance, PTL DEF Spec, KeepsPromise, Promise!Spec

\* What the promise is worth: until there is a race, whoever keeps it has no tunnel
\* to a node that the kill switch does not name, and no proxy without a kill switch.
THEOREM PromiseFailsClosed == Promise!Spec => []Promise!FailClosed
<1>1. Promise!Init => Promise!FailClosed
  BY DEF Promise!Init, Promise!FailClosed
<1>2. Promise!FailClosed /\ [Promise!Next]_(Promise!vars) => Promise!FailClosed'
  BY DEF Promise!FailClosed, Promise!Next, Promise!Orderly, Promise!Void, Promise!Reguard,
         Promise!OpenTunnel, Promise!OpenProxy, Promise!Close, Promise!TearDown, Promise!vars
<1> QED BY <1>1, <1>2, PTL DEF Promise!Spec

-----------------------------------------------------------------------------
\* The automatic switch.

\* A job that runs has loaded a row, and one that switches has a candidate.
JobOK(x) ==
    /\ x.pc # "idle" => x.mem.node \in Nodes /\ x.mem.status \in Committed
    /\ x.pc \in SwitchPoints => x.candidate \in Nodes

JobsOK ==
    /\ job \in [Jobs -> Job]
    /\ \A j \in Jobs : JobOK(job[j])

\* The job that switches holds the lock, so there is one; and if it is a health
\* check, there is still room for its event.
LineOK ==
    /\ lock \in Seq(Jobs)
    /\ recent \in 0..MaxSwitches
    /\ \A j \in Jobs :
           job[j].pc \in SwitchPoints =>
               /\ lock # <<>> /\ Head(lock) = j
               /\ job[j].kind = "health" => recent < MaxSwitches

\* The invariant, for the helpers of requests and jobs together.
SWell == Typed /\ JobsOK /\ LineOK
SInv == SWell /\ Safe(AllRunning)

JobSpawnPoints == {"spawnDial", "spawnResume"}

LEMMA SwitchPointsElements ==
    /\ SwitchPoints = {"haltSocks", "verifyGuard", "haltOpenvpn", "reguard",
           "undoReguard", "restore", "undoRestore", "dial", "spawnDial", "awaitDial",
           "verifyExit", "resumeSocks", "spawnResume", "awaitResume", "undoResume",
           "undoDial", "settle"}
    /\ SwitchPoints \cap {"idle", "observe", "probe", "judge", "queued"} = {}
    /\ JobSpawnPoints \subseteq SwitchPoints
BY DEF SwitchPoints, JobSpawnPoints

LEMMA IdleJobOK ==
    /\ IdleJob \in Job /\ JobOK(IdleJob) /\ IdleJob.pc \notin SwitchPoints
    /\ ~JobInCall(IdleJob)
BY SwitchPointsElements
DEF IdleJob, Job, JobOK, NoColumns, Columns, Status, JobInCall, JobOperationAt

LEMMA AllElements ==
    ASSUME NEW y
    PROVE  y \in AllRunning <=>
              \/ y \in Running
              \/ \E j \in Jobs : JobInCall(job[j]) /\ y = <<"job", j, JobCallOf(job[j])>>
BY DEF AllRunning

LEMMA AllElementsNext ==
    ASSUME NEW y
    PROVE  y \in AllRunning' <=>
              \/ y \in Running'
              \/ \E j \in Jobs : JobInCall(job'[j]) /\ y = <<"job", j, JobCallOf(job'[j])>>
BY DEF AllRunning, JobInCall, JobCallOf

LEMMA RunningTags ==
    ASSUME NEW y \in Running
    PROVE  y[1] # "job"
BY RunningElements

LEMMA InitSInv == SwitchInit => SInv
<1> SUFFICES ASSUME SwitchInit PROVE SInv
  OBVIOUS
<1>1. JobsOK
  BY IdleJobOK DEF SwitchInit, JobsOK
<1>2. recent \in 0..MaxSwitches
  BY SwitchAssumption DEF SwitchInit
<1>3. LineOK
  BY <1>2, IdleJobOK DEF SwitchInit, LineOK
<1>4. IInv
  BY InitIInv DEF SwitchInit
<1>5. AllRunning = {}
  <2>1. Running = {}
    BY NothingRuns DEF SwitchInit, Init
  <2>2. \A j \in Jobs : ~JobInCall(job[j])
    BY IdleJobOK DEF SwitchInit
  <2> QED BY <2>1, <2>2, AllElements
<1>6. Safe(AllRunning)
  BY <1>4, <1>5 DEF IInv, Safe, Race, SwitchInit, Init
<1> QED BY <1>1, <1>3, <1>4, <1>6 DEF IInv, SWell, SInv

\* A step of the lifecycle does the same to all helpers, if jobs only end in it.
LEMMA Widen ==
    ASSUME Steps(Running, Running'),
           \A y \in AllRunning' : y \in Running' \/ (y \in AllRunning /\ y[1] = "job")
    PROVE  Steps(AllRunning, AllRunning')
<1>1. \A y \in Running : y \in AllRunning /\ y[1] # "job"
  BY AllElements, RunningTags
<1>2. CASE Quietly(Running, Running')
  <2>1. ASSUME NEW y \in AllRunning', y[3].op \in Spawns
        PROVE  \E x \in AllRunning : x[3] = y[3]
    BY <1>1, <1>2, <2>1 DEF Quietly
  <2> QED BY <1>2, <2>1 DEF Quietly, Steps
<1>3. CASE Acts(Running, Running')
  <2>1. PICK x \in Running : \E o \in Outcomes(x[3], rt) :
            /\ x[3] \in Call
            /\ rt' = o.rt
            /\ \A y \in Running' :
                   y[3].op \in Spawns =>
                       \/ y \in Running \ {x}
                       \/ /\ o.ok /\ x[3].op \in Asks
                          /\ y[3] = [x[3] EXCEPT !.op = SpawnAfter(x[3].op)]
    BY <1>3 DEF Acts
  <2>2. PICK o \in Outcomes(x[3], rt) :
            /\ x[3] \in Call
            /\ rt' = o.rt
            /\ \A y \in Running' :
                   y[3].op \in Spawns =>
                       \/ y \in Running \ {x}
                       \/ /\ o.ok /\ x[3].op \in Asks
                          /\ y[3] = [x[3] EXCEPT !.op = SpawnAfter(x[3].op)]
    BY <2>1
  <2>3. ASSUME NEW y \in AllRunning', y[3].op \in Spawns
        PROVE  \/ y \in AllRunning \ {x}
               \/ /\ o.ok /\ x[3].op \in Asks
                  /\ y[3] = [x[3] EXCEPT !.op = SpawnAfter(x[3].op)]
    <3>1. CASE y \in Running'
      BY <1>1, <2>2, <2>3, <3>1
    <3>2. CASE y \in AllRunning /\ y[1] = "job"
      BY <1>1, <3>2
    <3> QED BY <2>3, <3>1, <3>2
  <2>4. x \in AllRunning
    BY <1>1
  <2>5. Acts(AllRunning, AllRunning')
    BY <2>2, <2>3, <2>4 DEF Acts
  <2> QED BY <2>5 DEF Steps
<1> QED BY <1>2, <1>3 DEF Steps

\* What a step of the service with its jobs leaves, and does.
AllWell ==
    /\ up' \in BOOLEAN /\ RowOK' /\ SessionsOK' /\ LateOK' /\ JobsOK' /\ LineOK'
    /\ Steps(AllRunning, AllRunning')

LEMMA ToSInv ==
    ASSUME SInv, AllWell, Note(AllRunning)
    PROVE  SInv' /\ MachineStep
<1>1. raced' = (raced \/ Race(AllRunning'))
  BY DEF Note, Race
<1>2. /\ raced' \in BOOLEAN /\ MachineOK' /\ MachineStep
      /\ Race(AllRunning') => raced'
      /\ ~raced' => Guarded(rt') /\ \A y \in AllRunning' : Ready(y[3], rt')
  BY <1>1, SafeNext DEF SInv, SWell, AllWell
<1>3. SWell'
  BY <1>2 DEF Typed, SWell, AllWell
<1>4. Safe(AllRunning)'
  BY <1>2 DEF Safe, Race, Ready, Guarded, HasProcess, KillswitchActive
<1> QED BY <1>2, <1>3, <1>4 DEF SInv

\* Job j becomes a sound job x.
Becomes(j, x) == x \in Job /\ JobOK(x) /\ job' = [job EXCEPT ![j] = x]

\* It does so without a new switch.
Advances(j, x) ==
    /\ Becomes(j, x)
    /\ x.pc \in SwitchPoints =>
           job[j].pc \in SwitchPoints /\ x.kind = job[j].kind

LEMMA BecomesOK ==
    ASSUME JobsOK, NEW j \in Jobs, NEW x, Becomes(j, x)
    PROVE  JobsOK' /\ job'[j] = x /\ \A k \in Jobs \ {j} : job'[k] = job[k]
<1>1. job' \in [Jobs -> Job]
  BY DEF JobsOK, Becomes
<1>2. ASSUME NEW k \in Jobs PROVE JobOK(job'[k])
  BY DEF JobsOK, Becomes
<1> QED BY <1>1, <1>2 DEF JobsOK, JobOK, Becomes

LEMMA AdvancesLine ==
    ASSUME JobsOK, LineOK, NEW j \in Jobs, NEW x, Advances(j, x),
           lock' = lock \/ (lock # <<>> /\ \E k \in Jobs : lock' = Append(lock, k)),
           UNCHANGED recent
    PROVE  LineOK'
<1>1. \A k \in Jobs : job'[k].pc \in SwitchPoints =>
          job[k].pc \in SwitchPoints /\ job'[k].kind = job[k].kind
  BY BecomesOK DEF Advances
<1>2. lock' \in Seq(Jobs)
      /\ (lock # <<>> => lock' # <<>> /\ Head(lock') = Head(lock))
  <2>1. CASE lock' = lock
    BY <2>1 DEF LineOK
  <2>2. ASSUME lock # <<>>, NEW k \in Jobs, lock' = Append(lock, k)
        PROVE  <1>2!1
    BY <2>2 DEF LineOK
  <2> QED BY <2>1, <2>2
<1> QED BY <1>1, <1>2 DEF LineOK

LEMMA JobFields ==
    ASSUME JobsOK, NEW j \in Jobs
    PROVE  /\ job[j] \in Job /\ job[j].mem \in Columns /\ JobOK(job[j])
           /\ job[j].resume \in BOOLEAN /\ job[j].mem.failures \in Nat
           /\ job[j].seen \in Columns
BY DEF JobsOK, Job, Columns

\* It goes on, and waits for no spawn; or the helper has looked, and it waits for
\* the spawn.
JobGoesOn(j) == \E x : Advances(j, x) /\ x.pc \notin JobSpawnPoints
JobGoesToSpawn(j) ==
    \E x : /\ Advances(j, x)
           /\ JobCallOf(job[j]).op \in Asks
           /\ JobCallOf(x) = [JobCallOf(job[j]) EXCEPT !.op = SpawnAfter(JobCallOf(job[j]).op)]

\* The ways a job goes on.
LEMMA MoveAdvances ==
    ASSUME JobsOK, NEW j \in Jobs, job[j].pc # "idle",
           NEW p \in (SwitchPoints \ JobSpawnPoints) \cup {"probe"},
           p \in SwitchPoints => job[j].pc \in SwitchPoints,
           Move(j, p)
    PROVE  JobGoesOn(j)
<1> DEFINE x == [job[j] EXCEPT !.pc = p]
<1>1. job' = [job EXCEPT ![j] = x]
  BY DEF Move, JobsOK
<1>2. x \in Job /\ x.pc = p /\ x.kind = job[j].kind
  BY JobFields DEF Job
<1>3. JobOK(x)
  BY JobFields DEF Job, JobOK
<1> HIDE DEF x
<1>4. x.pc \notin JobSpawnPoints
  BY <1>2, SwitchPointsElements DEF JobSpawnPoints
<1> QED BY <1>1, <1>2, <1>3, <1>4 DEF Becomes, Advances, JobGoesOn

\* The end of a switch, or of a check, with a sound session.
LEMMA SessionAdvances ==
    ASSUME JobsOK, NEW j \in Jobs, NEW m \in Columns,
           m.node \in Nodes, m.status \in Committed,
           NEW p \in {"settle", "judge"},
           p \in SwitchPoints => job[j].pc \in SwitchPoints,
           job' = [job EXCEPT ![j].pc = p, ![j].mem = m]
    PROVE  JobGoesOn(j)
<1> DEFINE x == [job[j] EXCEPT !.pc = p, !.mem = m]
<1>1. job' = [job EXCEPT ![j] = x]
  BY DEF JobsOK
<1>2. /\ x \in Job /\ x.pc = p /\ x.mem = m
      /\ x.candidate = job[j].candidate /\ x.kind = job[j].kind
  BY JobFields, SwitchPointsElements DEF Job
<1> HIDE DEF x
<1>3. JobOK(x)
  BY <1>2, JobFields DEF JobOK
<1>4. x.pc \notin JobSpawnPoints
  BY <1>2, SwitchPointsElements DEF JobSpawnPoints
<1> QED BY <1>1, <1>2, <1>3, <1>4 DEF Becomes, Advances, JobGoesOn

LEMMA EndAdvances ==
    ASSUME JobsOK, NEW j \in Jobs, job[j].pc \in SwitchPoints,
           SwitchFailed(j) \/ SwitchSucceeded(j)
    PROVE  JobGoesOn(j)
<1>1. /\ job[j].mem.node \in Nodes /\ job[j].candidate \in Nodes
      /\ job[j].mem.failures + 1 \in Nat
  BY JobFields, SwitchPointsElements DEF JobOK
<1>2. CASE SwitchFailed(j)
  <2> DEFINE n == job[j].mem.failures + 1
             m == [job[j].mem EXCEPT !.status = "FAILED", !.active = FALSE,
                                     !.failures = n]
  <2>1. job' = [job EXCEPT ![j].pc = "settle", ![j].mem = m]
    BY <1>2 DEF SwitchFailed, SwitchEnds
  <2>2. n \in Nat
    BY <1>1
  <2> HIDE DEF n
  <2>3. m \in Columns /\ m.node \in Nodes /\ m.status \in Committed
    BY <1>1, <2>2, JobFields DEF Columns, Status, Committed
  <2> HIDE DEF m
  <2> QED BY <2>1, <2>3, SessionAdvances
<1>3. CASE SwitchSucceeded(j)
  <2> DEFINE m == [job[j].mem EXCEPT !.status = "RUNNING", !.failures = 0,
                                     !.active = job[j].resume,
                                     !.node = job[j].candidate]
  <2>1. m \in Columns /\ m.node \in Nodes /\ m.status \in Committed
    BY <1>1, JobFields DEF Columns, Status, Committed
  <2>2. job' = [job EXCEPT ![j].pc = "settle", ![j].mem = m]
    BY <1>3 DEF SwitchSucceeded, SwitchEnds
  <2> HIDE DEF m
  <2> QED BY <2>1, <2>2, SessionAdvances
<1> QED BY <1>2, <1>3

LEMMA CheckedAdvances ==
    ASSUME JobsOK, NEW j \in Jobs, job[j].pc # "idle", Healthy(j) \/ Unhealthy(j)
    PROVE  JobGoesOn(j)
<1>1. PICK n \in Nat : Checked(j, n)
  BY JobFields DEF Healthy, Unhealthy
<1> DEFINE m == [job[j].mem EXCEPT !.failures = n]
<1>2. m \in Columns /\ m.node \in Nodes /\ m.status \in Committed
  BY JobFields DEF JobOK, Columns
<1>3. job' = [job EXCEPT ![j].pc = "judge", ![j].mem = m]
  BY <1>1 DEF Checked
<1> HIDE DEF m
<1> QED BY <1>2, <1>3, SessionAdvances, SwitchPointsElements

-----------------------------------------------------------------------------
\* A step of a job.

LEMMA SpawnAdvances ==
    ASSUME JobsOK, NEW j \in Jobs, NEW p, NEW p1,
           \/ p = "dial" /\ p1 = "spawnDial"
           \/ p = "resumeSocks" /\ p1 = "spawnResume",
           job[j].pc = p, Move(j, p1)
    PROVE  JobGoesToSpawn(j)
<1> DEFINE x == [job[j] EXCEPT !.pc = p1]
<1>1. job' = [job EXCEPT ![j] = x]
  BY DEF Move, JobsOK
<1>0. p1 \in SwitchPoints /\ p \in SwitchPoints
  BY SwitchPointsElements
<1>2. x \in Job /\ x.pc = p1 /\ x.kind = job[j].kind /\ x.candidate = job[j].candidate
  BY <1>0, JobFields DEF Job
<1>3. JobOK(x)
  BY <1>0, JobFields, SwitchPointsElements DEF Job, JobOK
<1> HIDE DEF x
<1>4. Advances(j, x)
  BY <1>0, <1>1, <1>2, <1>3 DEF Becomes, Advances
<1>5. /\ JobCallOf(job[j]) = [op |-> JobOperationAt[p], node |-> job[j].candidate]
      /\ JobCallOf(x) = [op |-> JobOperationAt[p1], node |-> job[j].candidate]
  BY <1>2 DEF JobCallOf
<1>6. JobOperationAt[p] \in Asks /\ JobOperationAt[p1] = SpawnAfter(JobOperationAt[p])
  BY DEF JobOperationAt, Asks, SpawnAfter
<1>7. JobCallOf(job[j]).op \in Asks
      /\ JobCallOf(x) = [JobCallOf(job[j]) EXCEPT !.op = SpawnAfter(JobCallOf(job[j]).op)]
  BY <1>5, <1>6
<1> QED BY <1>4, <1>7 DEF JobGoesToSpawn

-----------------------------------------------------------------------------
\* A step of a job.

LEMMA JobCallFields ==
    ASSUME NEW x \in Job, JobInCall(x)
    PROVE  /\ JobCallOf(x) \in Call
           /\ (JobCallOf(x).op \in Spawns <=> x.pc \in JobSpawnPoints)
           /\ x.pc \in SwitchPoints
<1>1. x.mem.node \in Nodes \cup {NoNode} /\ x.candidate \in Nodes \cup {NoNode}
  BY DEF Job, Columns
<1>2. JobOperationAt[x.pc] \in HelperSteps
  BY DEF JobInCall, JobOperationAt, HelperSteps
<1>3. /\ (JobOperationAt[x.pc] \in Spawns <=> x.pc \in JobSpawnPoints)
      /\ x.pc \in SwitchPoints
  BY DEF JobInCall, JobOperationAt, Spawns, JobSpawnPoints, SwitchPoints
<1> QED BY <1>1, <1>2, <1>3 DEF JobCallOf, Call

\* The helpers at work after a job has gone on.
LEMMA AllAfter ==
    ASSUME JobsOK, NEW j \in Jobs, NEW x, job' = [job EXCEPT ![j] = x],
           up, UNCHANGED <<up, req>>, NEW y \in AllRunning'
    PROVE  \/ JobInCall(x) /\ y = <<"job", j, JobCallOf(x)>>
           \/ y \in AllRunning /\ y # <<"job", j, JobCallOf(job[j])>>
           \/ \E k \in Strays : /\ late'[k] # NoCall /\ late'[k] # late[k]
                                /\ y = <<"late", k, late'[k]>>
<1>1. CASE \E i \in Jobs : JobInCall(job'[i]) /\ y = <<"job", i, JobCallOf(job'[i])>>
  <2>1. PICK i \in Jobs : JobInCall(job'[i]) /\ y = <<"job", i, JobCallOf(job'[i])>>
    BY <1>1
  <2>2. CASE i = j
    BY <2>1, <2>2 DEF JobsOK
  <2>3. CASE i # j
    <3>1. job'[i] = job[i]
      BY <2>3 DEF JobsOK
    <3>2. y = <<"job", i, JobCallOf(job[i])>> /\ JobInCall(job[i])
      BY <2>1, <3>1
    <3>3. y \in AllRunning
      BY <3>2, AllElements
    <3>4. y # <<"job", j, JobCallOf(job[j])>>
      BY <2>3, <3>2
    <3> QED BY <3>3, <3>4
  <2> QED BY <2>2, <2>3
<1>2. CASE \E r \in Requests : InCall(req'[r]) /\ y = <<"request", r, CallOf(req'[r])>>
  <2>1. PICK r \in Requests : InCall(req'[r]) /\ y = <<"request", r, CallOf(req'[r])>>
    BY <1>2
  <2>2. y = <<"request", r, CallOf(req[r])>> /\ InCall(req[r])
    BY <2>1
  <2>3. y \in Running /\ y[1] # "job"
    BY <2>2, RunningElements
  <2>4. y # <<"job", j, JobCallOf(job[j])>>
    BY <2>3
  <2> QED BY <2>3, <2>4, AllElements
<1>3. CASE \E k \in Strays : late'[k] # NoCall /\ y = <<"late", k, late'[k]>>
  <2>1. PICK k \in Strays : late'[k] # NoCall /\ y = <<"late", k, late'[k]>>
    BY <1>3
  <2>2. CASE late'[k] = late[k]
    <3>1. y = <<"late", k, late[k]>> /\ late[k] # NoCall
      BY <2>1, <2>2
    <3>2. y \in Running /\ y # <<"job", j, JobCallOf(job[j])>>
      BY <3>1, RunningElements
    <3> QED BY <3>2, AllElements
  <2> QED BY <2>1, <2>2
<1>4. up'
  OBVIOUS
<1> QED BY <1>1, <1>2, <1>3, <1>4, AllElementsNext, RunningElementsNext

\* A job that goes on without a call.
LEMMA JobQuietly ==
    ASSUME SWell, NEW j \in Jobs, NEW x \in Job, x.pc \notin JobSpawnPoints,
           job' = [job EXCEPT ![j] = x], up, UNCHANGED <<up, rt, req, late>>
    PROVE  Quietly(AllRunning, AllRunning')
<1>1. ASSUME NEW y \in AllRunning', y[3].op \in Spawns
      PROVE  \E z \in AllRunning : z[3] = y[3]
  <2>1. \/ JobInCall(x) /\ y = <<"job", j, JobCallOf(x)>>
        \/ y \in AllRunning
    BY <1>1, AllAfter DEF SWell
  <2>2. ~(JobInCall(x) /\ y = <<"job", j, JobCallOf(x)>>)
    BY <1>1, JobCallFields
  <2> QED BY <2>1, <2>2
<1>2. SameFence(rt, rt') /\ Lawful(rt, rt')
  BY SameLawful DEF SameFence, SWell, Typed, MachineOK
<1> QED BY <1>1, <1>2 DEF Quietly

\* It looks, or its helper answers, or the executor gives up on the helper.
JobLooks(j) == UNCHANGED <<rt, late>> /\ JobGoesOn(j)

JobCalls(j) ==
    /\ JobInCall(job[j])
    /\ \E o \in Outcomes(JobCallOf(job[j]), rt) :
           /\ rt' = o.rt
           /\ UNCHANGED late
           /\ JobGoesOn(j) \/ (o.ok /\ JobGoesToSpawn(j))

JobGivesUp(j) ==
    JobInCall(job[j]) /\ GiveUp(JobCallOf(job[j])) /\ JobGoesOn(j)

JobSteps(j) ==
    /\ up /\ UNCHANGED <<up, row, req, lock, recent>>
    /\ JobLooks(j) \/ JobCalls(j) \/ JobGivesUp(j)

LEMMA JobGivesUpStep ==
    ASSUME SWell, NEW j \in Jobs, up, UNCHANGED <<up, req>>, JobGivesUp(j)
    PROVE  Quietly(AllRunning, AllRunning') /\ LateOK'
<1>1. PICK x : Advances(j, x) /\ x.pc \notin JobSpawnPoints
  BY DEF JobGivesUp, JobGoesOn
<1>2. x \in Job /\ job' = [job EXCEPT ![j] = x]
  BY <1>1 DEF Advances, Becomes
<1> DEFINE c == JobCallOf(job[j])
<1>3. UNCHANGED rt /\ JobInCall(job[j]) /\ job[j] \in Job
  BY JobFields DEF JobGivesUp, GiveUp, SWell
<1>4. PICK k \in Strays : late[k] = NoCall /\ late' = [late EXCEPT ![k] = c]
  BY DEF JobGivesUp, GiveUp
<1>5. <<"job", j, c>> \in AllRunning /\ c \in Call
  BY <1>3, AllElements, JobCallFields
<1>6. LateOK'
  BY <1>4, <1>5 DEF SWell, Typed, LateOK
<1>7. \A l \in Strays : late'[l] # late[l] => late'[l] = c
  BY <1>4 DEF SWell, Typed, LateOK
<1>8. ASSUME NEW y \in AllRunning', y[3].op \in Spawns
      PROVE  \E z \in AllRunning : z[3] = y[3]
  <2>1. \/ JobInCall(x) /\ y = <<"job", j, JobCallOf(x)>>
        \/ y \in AllRunning
        \/ \E l \in Strays : late'[l] # late[l] /\ y = <<"late", l, late'[l]>>
    BY <1>2, <1>8, AllAfter DEF SWell
  <2>2. ~(JobInCall(x) /\ y = <<"job", j, JobCallOf(x)>>)
    BY <1>1, <1>2, <1>8, JobCallFields
  <2>3. CASE \E l \in Strays : late'[l] # late[l] /\ y = <<"late", l, late'[l]>>
    <3>1. y[3] = c
      BY <1>7, <2>3
    <3>2. <<"job", j, c>>[3] = c
      OBVIOUS
    <3> QED BY <1>5, <3>1, <3>2
  <2> QED BY <2>1, <2>2, <2>3
<1>9. SameFence(rt, rt') /\ Lawful(rt, rt')
  BY <1>3, SameLawful DEF SameFence, SWell, Typed, MachineOK
<1> QED BY <1>6, <1>8, <1>9 DEF Quietly

LEMMA JobCallsStep ==
    ASSUME SWell, NEW j \in Jobs, up, UNCHANGED <<up, req>>, JobCalls(j)
    PROVE  Acts(AllRunning, AllRunning')
<1> DEFINE c == JobCallOf(job[j])
           x == <<"job", j, c>>
<1>1. JobInCall(job[j]) /\ job[j] \in Job
  BY JobFields DEF JobCalls, SWell
<1>2. PICK o \in Outcomes(c, rt) :
          /\ rt' = o.rt
          /\ UNCHANGED late
          /\ JobGoesOn(j) \/ (o.ok /\ JobGoesToSpawn(j))
  BY DEF JobCalls
<1>3. x \in AllRunning /\ c \in Call /\ x[3] = c
  BY <1>1, AllElements, JobCallFields
<1>4. ASSUME NEW y \in AllRunning', y[3].op \in Spawns, y \notin AllRunning \ {x}
      PROVE  o.ok /\ c.op \in Asks /\ y[3] = [c EXCEPT !.op = SpawnAfter(c.op)]
  <2>1. ASSUME NEW q, Advances(j, q)
        PROVE  JobInCall(q) /\ y = <<"job", j, JobCallOf(q)>> /\ q \in Job
    <3>1. job' = [job EXCEPT ![j] = q] /\ q \in Job
      BY <2>1 DEF Advances, Becomes
    <3>2. \/ JobInCall(q) /\ y = <<"job", j, JobCallOf(q)>>
          \/ y \in AllRunning /\ y # x
      BY <1>2, <1>4, <3>1, AllAfter DEF SWell
    <3> QED BY <1>4, <3>1, <3>2
  <2>2. CASE JobGoesOn(j)
    <3>1. PICK q : Advances(j, q) /\ q.pc \notin JobSpawnPoints
      BY <2>2 DEF JobGoesOn
    <3> QED BY <1>4, <2>1, <3>1, JobCallFields
  <2>3. CASE o.ok /\ JobGoesToSpawn(j)
    <3>1. PICK q : /\ Advances(j, q) /\ c.op \in Asks
                   /\ JobCallOf(q) = [c EXCEPT !.op = SpawnAfter(c.op)]
      BY <2>3 DEF JobGoesToSpawn
    <3>2. y[3] = JobCallOf(q)
      BY <2>1, <3>1
    <3> QED BY <2>3, <3>1, <3>2
  <2> QED BY <1>2, <2>2, <2>3
<1> HIDE DEF x
<1>5. \A y \in AllRunning' :
          y[3].op \in Spawns =>
              \/ y \in AllRunning \ {x}
              \/ o.ok /\ x[3].op \in Asks /\ y[3] = [x[3] EXCEPT !.op = SpawnAfter(x[3].op)]
  BY <1>3, <1>4
<1> QED BY <1>2, <1>3, <1>5 DEF Acts

LEMMA JobStepsWell ==
    ASSUME SWell, NEW j \in Jobs, JobSteps(j)
    PROVE  AllWell
<1>1. PICK x : Advances(j, x)
  BY DEF JobSteps, JobLooks, JobCalls, JobGivesUp, JobGoesOn, JobGoesToSpawn
<1>2. JobsOK' /\ LineOK'
  BY <1>1, BecomesOK, AdvancesLine DEF Advances, SWell, JobSteps
<1>3. up' \in BOOLEAN /\ RowOK' /\ SessionsOK'
  BY DEF JobSteps, SWell, Typed, RowOK, SessionsOK, SessionOK
<1>4. LateOK'
  BY JobGivesUpStep DEF JobSteps, JobLooks, JobCalls, SWell, Typed, LateOK
<1>5. CASE JobLooks(j)
  <2>1. PICK z : Advances(j, z) /\ z.pc \notin JobSpawnPoints
    BY <1>5 DEF JobLooks, JobGoesOn
  <2>2. z \in Job /\ job' = [job EXCEPT ![j] = z]
    BY <2>1 DEF Advances, Becomes
  <2>3. Quietly(AllRunning, AllRunning')
    BY <1>5, <2>1, <2>2, JobQuietly DEF JobLooks, JobSteps
  <2> QED BY <1>2, <1>3, <1>4, <2>3 DEF AllWell, Steps
<1>6. CASE JobCalls(j)
  BY <1>2, <1>3, <1>4, <1>6, JobCallsStep DEF AllWell, Steps, JobSteps
<1>7. CASE JobGivesUp(j)
  BY <1>2, <1>3, <1>4, <1>7, JobGivesUpStep DEF AllWell, Steps, JobSteps
<1> QED BY <1>5, <1>6, <1>7 DEF JobSteps

\* The job's part of an action of a switch.
LEMMA JobAwaitSteps ==
    ASSUME NEW j \in Jobs, up, JobInCall(job[j]),
           \/ JobAwait(j, JobGoesOn(j), JobGoesOn(j))
           \/ JobAwait(j, JobGoesToSpawn(j), JobGoesOn(j))
    PROVE  JobSteps(j)
<1>1. UNCHANGED <<up, row, req, lock, recent>>
  BY DEF JobAwait, AwaitCall
<1>2. \/ \E o \in Outcomes(JobCallOf(job[j]), rt) :
              rt' = o.rt /\ UNCHANGED late /\ (JobGoesOn(j) \/ (o.ok /\ JobGoesToSpawn(j)))
      \/ GiveUp(JobCallOf(job[j])) /\ JobGoesOn(j)
  BY Zenon DEF JobAwait, AwaitCall
<1> QED BY <1>1, <1>2 DEF JobSteps, JobCalls, JobGivesUp

LEMMA JobLookSteps ==
    ASSUME NEW j \in Jobs, up, JobGoesOn(j), UNCHANGED <<up, row, rt, late, req, lock, recent>>
    PROVE  JobSteps(j)
BY DEF JobSteps, JobLooks

LEMMA JobAtPoint ==
    ASSUME NEW j, NEW point, JobAt(j, point)
    PROVE  up /\ job[j].pc = point
BY DEF JobAt

\* The ways that a job of a switch goes on.
LEMMA SwitchGoesOn ==
    ASSUME JobsOK, NEW j \in Jobs, job[j].pc \in SwitchPoints
    PROVE  /\ job[j].pc # "idle"
           /\ \A p \in SwitchPoints \ JobSpawnPoints : Move(j, p) => JobGoesOn(j)
           /\ SwitchFailed(j) \/ SwitchSucceeded(j) => JobGoesOn(j)
<1>1. job[j].pc # "idle"
  BY SwitchPointsElements
<1> QED BY <1>1, MoveAdvances, EndAdvances

\* The old tunnel, the kill switch, the new tunnel and the proxy.
LEMMA SwitchStepWell ==
    ASSUME SWell, NEW j \in Jobs,
           \/ HaltSocks(j) \/ VerifyGuard(j) \/ HaltOpenvpn(j) \/ Reguard(j)
           \/ UndoReguard(j) \/ Restore(j) \/ UndoRestore(j)
           \/ Dial(j) \/ SpawnDial(j) \/ AwaitDial(j) \/ VerifyExit(j) \/ ResumeSocks(j)
           \/ SpawnResume(j) \/ AwaitResume(j) \/ UndoResume(j) \/ UndoDial(j)
    PROVE  AllWell
<1>0. JobsOK
  BY DEF SWell
<1>1. CASE HaltSocks(j)
  <2>1. up /\ job[j].pc \in SwitchPoints /\ JobInCall(job[j])
    BY <1>1, JobAtPoint, SwitchPointsElements DEF HaltSocks, JobInCall, JobOperationAt
  <2>2. (Move(j, "verifyGuard") => JobGoesOn(j))
        /\ (SwitchFailed(j) => JobGoesOn(j))
    BY <1>0, <2>1, SwitchGoesOn, SwitchPointsElements DEF JobSpawnPoints
  <2>3. JobAwait(j, JobGoesOn(j), JobGoesOn(j))
    BY <1>1, <2>2, Zenon DEF HaltSocks, JobAwait, AwaitCall
  <2> QED BY <2>1, <2>3, JobAwaitSteps, JobStepsWell
<1>2. CASE HaltOpenvpn(j)
  <2>1. up /\ job[j].pc \in SwitchPoints /\ JobInCall(job[j])
    BY <1>2, JobAtPoint, SwitchPointsElements DEF HaltOpenvpn, JobInCall, JobOperationAt
  <2>2. (Move(j, "reguard") => JobGoesOn(j))
        /\ (SwitchFailed(j) => JobGoesOn(j))
    BY <1>0, <2>1, SwitchGoesOn, SwitchPointsElements DEF JobSpawnPoints
  <2>3. JobAwait(j, JobGoesOn(j), JobGoesOn(j))
    BY <1>2, <2>2, Zenon DEF HaltOpenvpn, JobAwait, AwaitCall
  <2> QED BY <2>1, <2>3, JobAwaitSteps, JobStepsWell
<1>3. CASE Reguard(j)
  <2>1. up /\ job[j].pc \in SwitchPoints /\ JobInCall(job[j])
    BY <1>3, JobAtPoint, SwitchPointsElements DEF Reguard, JobInCall, JobOperationAt
  <2>2. (Move(j, "dial") => JobGoesOn(j))
        /\ (Move(j, "undoReguard") => JobGoesOn(j))
    BY <1>0, <2>1, SwitchGoesOn, SwitchPointsElements DEF JobSpawnPoints
  <2>3. JobAwait(j, JobGoesOn(j), JobGoesOn(j))
    BY <1>3, <2>2, Zenon DEF Reguard, JobAwait, AwaitCall
  <2> QED BY <2>1, <2>3, JobAwaitSteps, JobStepsWell
<1>4. CASE UndoReguard(j)
  <2>1. up /\ job[j].pc \in SwitchPoints /\ JobInCall(job[j])
    BY <1>4, JobAtPoint, SwitchPointsElements DEF UndoReguard, JobInCall, JobOperationAt
  <2>2. (Move(j, "restore") => JobGoesOn(j))
    BY <1>0, <2>1, SwitchGoesOn, SwitchPointsElements DEF JobSpawnPoints
  <2>3. JobAwait(j, JobGoesOn(j), JobGoesOn(j))
    BY <1>4, <2>2, Zenon DEF UndoReguard, JobAwait, AwaitCall
  <2> QED BY <2>1, <2>3, JobAwaitSteps, JobStepsWell
<1>5. CASE Restore(j)
  <2>1. up /\ job[j].pc \in SwitchPoints /\ JobInCall(job[j])
    BY <1>5, JobAtPoint, SwitchPointsElements DEF Restore, JobInCall, JobOperationAt
  <2>2. (Move(j, "undoRestore") => JobGoesOn(j))
        /\ (SwitchFailed(j) => JobGoesOn(j))
    BY <1>0, <2>1, SwitchGoesOn, SwitchPointsElements DEF JobSpawnPoints
  <2>3. JobAwait(j, JobGoesOn(j), JobGoesOn(j))
    BY <1>5, <2>2, Zenon DEF Restore, JobAwait, AwaitCall
  <2> QED BY <2>1, <2>3, JobAwaitSteps, JobStepsWell
<1>6. CASE UndoRestore(j)
  <2>1. up /\ job[j].pc \in SwitchPoints /\ JobInCall(job[j])
    BY <1>6, JobAtPoint, SwitchPointsElements DEF UndoRestore, JobInCall, JobOperationAt
  <2>2. (SwitchFailed(j) => JobGoesOn(j))
    BY <1>0, <2>1, SwitchGoesOn, SwitchPointsElements DEF JobSpawnPoints
  <2>3. JobAwait(j, JobGoesOn(j), JobGoesOn(j))
    BY <1>6, <2>2, Zenon DEF UndoRestore, JobAwait, AwaitCall
  <2> QED BY <2>1, <2>3, JobAwaitSteps, JobStepsWell
<1>7. CASE SpawnDial(j)
  <2>1. up /\ job[j].pc \in SwitchPoints /\ JobInCall(job[j])
    BY <1>7, JobAtPoint, SwitchPointsElements DEF SpawnDial, JobInCall, JobOperationAt
  <2>2. (Move(j, "awaitDial") => JobGoesOn(j))
        /\ (Move(j, "undoDial") => JobGoesOn(j))
    BY <1>0, <2>1, SwitchGoesOn, SwitchPointsElements DEF JobSpawnPoints
  <2>3. JobAwait(j, JobGoesOn(j), JobGoesOn(j))
    BY <1>7, <2>2, Zenon DEF SpawnDial, JobAwait, AwaitCall
  <2> QED BY <2>1, <2>3, JobAwaitSteps, JobStepsWell
<1>8. CASE SpawnResume(j)
  <2>1. up /\ job[j].pc \in SwitchPoints /\ JobInCall(job[j])
    BY <1>8, JobAtPoint, SwitchPointsElements DEF SpawnResume, JobInCall, JobOperationAt
  <2>2. (Move(j, "awaitResume") => JobGoesOn(j))
        /\ (Move(j, "undoResume") => JobGoesOn(j))
    BY <1>0, <2>1, SwitchGoesOn, SwitchPointsElements DEF JobSpawnPoints
  <2>3. JobAwait(j, JobGoesOn(j), JobGoesOn(j))
    BY <1>8, <2>2, Zenon DEF SpawnResume, JobAwait, AwaitCall
  <2> QED BY <2>1, <2>3, JobAwaitSteps, JobStepsWell
<1>9. CASE UndoResume(j)
  <2>1. up /\ job[j].pc \in SwitchPoints /\ JobInCall(job[j])
    BY <1>9, JobAtPoint, SwitchPointsElements DEF UndoResume, JobInCall, JobOperationAt
  <2>2. (Move(j, "undoDial") => JobGoesOn(j))
    BY <1>0, <2>1, SwitchGoesOn, SwitchPointsElements DEF JobSpawnPoints
  <2>3. JobAwait(j, JobGoesOn(j), JobGoesOn(j))
    BY <1>9, <2>2, Zenon DEF UndoResume, JobAwait, AwaitCall
  <2> QED BY <2>1, <2>3, JobAwaitSteps, JobStepsWell
<1>10. CASE UndoDial(j)
  <2>1. up /\ job[j].pc \in SwitchPoints /\ JobInCall(job[j])
    BY <1>10, JobAtPoint, SwitchPointsElements DEF UndoDial, JobInCall, JobOperationAt
  <2>2. (SwitchFailed(j) => JobGoesOn(j))
    BY <1>0, <2>1, SwitchGoesOn, SwitchPointsElements DEF JobSpawnPoints
  <2>3. JobAwait(j, JobGoesOn(j), JobGoesOn(j))
    BY <1>10, <2>2, Zenon DEF UndoDial, JobAwait, AwaitCall
  <2> QED BY <2>1, <2>3, JobAwaitSteps, JobStepsWell
<1>11. CASE Dial(j)
  <2>1. up /\ job[j].pc = "dial" /\ job[j].pc \in SwitchPoints /\ JobInCall(job[j])
    BY <1>11, JobAtPoint, SwitchPointsElements DEF Dial, JobInCall, JobOperationAt
  <2>2. /\ Move(j, "spawnDial") => JobGoesToSpawn(j)
        /\ Move(j, "undoDial") => JobGoesOn(j)
        /\ Move(j, "undoDial") => JobGoesOn(j)
    BY <1>0, <2>1, SpawnAdvances, SwitchGoesOn, SwitchPointsElements DEF JobSpawnPoints
  <2>3. JobAwait(j, JobGoesToSpawn(j), JobGoesOn(j))
    BY <1>11, <2>2, Zenon DEF Dial, JobAwait, AwaitCall
  <2> QED BY <2>1, <2>3, JobAwaitSteps, JobStepsWell
<1>12. CASE ResumeSocks(j)
  <2>1. up /\ job[j].pc = "resumeSocks" /\ job[j].pc \in SwitchPoints /\ JobInCall(job[j])
    BY <1>12, JobAtPoint, SwitchPointsElements DEF ResumeSocks, JobInCall, JobOperationAt
  <2>2. /\ Move(j, "spawnResume") => JobGoesToSpawn(j)
        /\ Move(j, "undoResume") => JobGoesOn(j)
        /\ Move(j, "undoDial") => JobGoesOn(j)
    BY <1>0, <2>1, SpawnAdvances, SwitchGoesOn, SwitchPointsElements DEF JobSpawnPoints
  <2>3. CASE JobAwait(j, Move(j, "spawnResume"), Move(j, "undoResume"))
    <3>1. JobAwait(j, JobGoesToSpawn(j), JobGoesOn(j))
      BY <2>2, <2>3, Zenon DEF JobAwait, AwaitCall
    <3> QED BY <2>1, <3>1, JobAwaitSteps, JobStepsWell
  <2>4. CASE JobLook(FALSE, FALSE, Move(j, "undoDial"))
    <3>1. JobGoesOn(j) /\ UNCHANGED <<up, row, rt, late, req, lock, recent>>
      BY <2>2, <2>4 DEF JobLook, Look
    <3> QED BY <2>1, <3>1, JobLookSteps, JobStepsWell
  <2> QED BY <1>12, <2>3, <2>4 DEF ResumeSocks
<1>13. CASE VerifyGuard(j)
  <2>1. up /\ job[j].pc \in SwitchPoints
    BY <1>13, JobAtPoint, SwitchPointsElements DEF VerifyGuard
  <2>2. /\ Move(j, "haltOpenvpn") => JobGoesOn(j)
        /\ SwitchFailed(j) \/ SwitchSucceeded(j) => JobGoesOn(j)
    BY <1>0, <2>1, SwitchGoesOn, SwitchPointsElements DEF JobSpawnPoints
  <2>3. JobGoesOn(j) /\ UNCHANGED <<up, row, rt, late, req, lock, recent>>
    BY <1>13, <2>2 DEF VerifyGuard, JobLook, Look
  <2> QED BY <2>1, <2>3, JobLookSteps, JobStepsWell
<1>14. CASE AwaitDial(j)
  <2>1. up /\ job[j].pc \in SwitchPoints
    BY <1>14, JobAtPoint, SwitchPointsElements DEF AwaitDial
  <2>2. /\ Move(j, "verifyExit") => JobGoesOn(j)
        /\ Move(j, "undoDial") => JobGoesOn(j)
    BY <1>0, <2>1, SwitchGoesOn, SwitchPointsElements DEF JobSpawnPoints
  <2>3. JobGoesOn(j) /\ UNCHANGED <<up, row, rt, late, req, lock, recent>>
    BY <1>14, <2>2 DEF AwaitDial, JobLook, Look
  <2> QED BY <2>1, <2>3, JobLookSteps, JobStepsWell
<1>15. CASE VerifyExit(j)
  <2>1. up /\ job[j].pc \in SwitchPoints
    BY <1>15, JobAtPoint, SwitchPointsElements DEF VerifyExit
  <2>2. /\ Move(j, "resumeSocks") => JobGoesOn(j)
        /\ Move(j, "undoDial") => JobGoesOn(j)
        /\ SwitchFailed(j) \/ SwitchSucceeded(j) => JobGoesOn(j)
    BY <1>0, <2>1, SwitchGoesOn, SwitchPointsElements DEF JobSpawnPoints
  <2>3. JobGoesOn(j) /\ UNCHANGED <<up, row, rt, late, req, lock, recent>>
    BY <1>15, <2>2 DEF VerifyExit, JobLook, Look
  <2> QED BY <2>1, <2>3, JobLookSteps, JobStepsWell
<1>16. CASE AwaitResume(j)
  <2>1. up /\ job[j].pc \in SwitchPoints
    BY <1>16, JobAtPoint, SwitchPointsElements DEF AwaitResume
  <2>2. /\ Move(j, "undoResume") => JobGoesOn(j)
        /\ Move(j, "undoDial") => JobGoesOn(j)
        /\ SwitchFailed(j) \/ SwitchSucceeded(j) => JobGoesOn(j)
    BY <1>0, <2>1, SwitchGoesOn, SwitchPointsElements DEF JobSpawnPoints
  <2>3. JobGoesOn(j) /\ UNCHANGED <<up, row, rt, late, req, lock, recent>>
    BY <1>16, <2>2 DEF AwaitResume, JobLook, Look
  <2> QED BY <2>1, <2>3, JobLookSteps, JobStepsWell
<1> QED BY <1>1, <1>2, <1>3, <1>4, <1>5, <1>6, <1>7, <1>8, <1>9, <1>10, <1>11, <1>12, <1>13, <1>14, <1>15, <1>16

-----------------------------------------------------------------------------
\* The lock and the limit.

\* The session of job s is sound, and so is the row when it is saved.
LEMMA SaveOK ==
    ASSUME RowOK, NEW s, s.mem \in Columns, s.seen \in Columns,
           s.mem.node \in Nodes, s.mem.status \in Committed, Save(s)
    PROVE  RowOK'
BY WrittenOK DEF Save

\* A step that leaves requests, service and machine alone, and calls no spawn.
LEMMA QuietWell ==
    ASSUME SWell, up, UNCHANGED <<up, rt, req, late>>, UNCHANGED row \/ RowOK',
           NEW j \in Jobs, NEW x, Becomes(j, x), x.pc \notin JobSpawnPoints, LineOK'
    PROVE  AllWell
<1>1. RowOK' /\ SessionsOK' /\ LateOK' /\ up' \in BOOLEAN
  BY DEF SWell, Typed, RowOK, SessionsOK, SessionOK, LateOK
<1>2. JobsOK'
  BY BecomesOK DEF SWell
<1>3. Quietly(AllRunning, AllRunning')
  BY JobQuietly DEF Becomes
<1> QED BY <1>1, <1>2, <1>3 DEF AllWell, Steps

\* A job that may take its turn.
Runnable(s) ==
    /\ s \in Job /\ JobOK(s)
    /\ s.mem.node \in Nodes /\ s.mem.status \in Committed

\* Nobody switches when the first of the line gets its turn.
LEMMA TurnWell ==
    ASSUME SWell, up, NEW j \in Jobs, NEW s, Runnable(s),
           NEW line \in Seq(Jobs), line # <<>>, Head(line) = j,
           \A k \in Jobs : job[k].pc \notin SwitchPoints,
           Turn(j, s, line), UNCHANGED <<up, rt, req, late, recent>>
    PROVE  AllWell
<1>1. s.mem \in Columns /\ s.seen \in Columns
  BY DEF Runnable, Job
<1>2. CASE Refuse(j, s, line)
  <2>1. Becomes(j, IdleJob)
    BY <1>2, IdleJobOK DEF Refuse, Becomes
  <2>2. RowOK' \/ UNCHANGED row
    BY <1>1, <1>2, SaveOK DEF Refuse, Runnable, SWell, Typed
  <2>3. lock' \in Seq(Jobs)
    BY <1>2 DEF Refuse
  <2>4. \A k \in Jobs : job'[k].pc \notin SwitchPoints
    BY <2>1, BecomesOK, IdleJobOK DEF SWell
  <2>5. LineOK'
    BY <2>3, <2>4 DEF LineOK, SWell
  <2>6. IdleJob.pc \notin JobSpawnPoints
    BY IdleJobOK, SwitchPointsElements
  <2> QED BY <2>1, <2>2, <2>5, <2>6, QuietWell
<1>3. CASE ~Refuse(j, s, line)
  <2>1. PICK n \in Nodes, p \in {"haltSocks", "verifyGuard"} :
            job' = [job EXCEPT ![j] =
                       [s EXCEPT !.candidate = n, !.resume = row.col.active,
                                 !.seen.active = row.col.active,
                                 !.mem.active = row.col.active, !.pc = p]]
    BY <1>3 DEF Turn
  <2> DEFINE x == [s EXCEPT !.candidate = n, !.resume = row.col.active,
                            !.seen.active = row.col.active,
                            !.mem.active = row.col.active, !.pc = p]
  <2>2. row.col.active \in BOOLEAN
    BY DEF SWell, Typed, RowOK, Row, Columns
  <2>3. x \in Job /\ x.pc = p /\ x.candidate = n /\ x.kind = s.kind
        /\ x.mem.node = s.mem.node /\ x.mem.status = s.mem.status
    BY <1>1, <2>2, SwitchPointsElements DEF Runnable, Job, Columns
  <2>4. job' = [job EXCEPT ![j] = x]
    BY <2>1
  <2> HIDE DEF x
  <2>5. JobOK(x)
    BY <2>3 DEF JobOK, Runnable
  <2>6. Becomes(j, x)
    BY <2>3, <2>4, <2>5 DEF Becomes
  <2>7. lock' = line /\ UNCHANGED row /\ (s.kind = "health" => recent < MaxSwitches)
    BY <1>3 DEF Turn
  <2>8. \A k \in Jobs : job'[k].pc \in SwitchPoints => k = j
    BY <2>6, BecomesOK DEF SWell
  <2>9. job'[j].kind = s.kind
    BY <2>3, <2>6, BecomesOK DEF SWell
  <2>10. LineOK'
    BY <2>7, <2>8, <2>9 DEF LineOK, SWell
  <2> QED BY <2>3, <2>6, <2>7, <2>10, QuietWell DEF JobSpawnPoints
<1> QED BY <1>2, <1>3

LEMMA EnterWell ==
    ASSUME SWell, up, NEW j \in Jobs, NEW s, Runnable(s),
           Enter(j, s), UNCHANGED <<up, rt, req, late, recent>>
    PROVE  AllWell
<1>1. CASE lock = <<>>
  <2>1. <<j>> \in Seq(Jobs) /\ <<j>> # <<>> /\ Head(<<j>>) = j
    OBVIOUS
  <2>2. \A k \in Jobs : job[k].pc \notin SwitchPoints
    BY <1>1 DEF SWell, LineOK
  <2>3. Turn(j, s, <<j>>)
    BY <1>1 DEF Enter
  <2> QED BY <2>1, <2>2, <2>3, TurnWell
<1>2. CASE lock # <<>>
  <2> DEFINE x == [s EXCEPT !.pc = "queued"]
  <2>1. job' = [job EXCEPT ![j] = x] /\ lock' = Append(lock, j) /\ UNCHANGED row
    BY <1>2 DEF Enter
  <2>2. x \in Job /\ x.pc = "queued" /\ x.mem = s.mem
    BY DEF Runnable, Job
  <2> HIDE DEF x
  <2>3. Advances(j, x)
    BY <2>1, <2>2, SwitchPointsElements DEF Advances, Becomes, JobOK, Runnable
  <2>4. LineOK'
    BY <1>2, <2>1, <2>3, AdvancesLine DEF SWell
  <2> QED BY <2>1, <2>2, <2>3, <2>4, QuietWell DEF Advances, JobSpawnPoints
<1> QED BY <1>1, <1>2

LEMMA LoadedRunnable ==
    ASSUME SWell, row.exists, NEW kind \in {"manual", "health"},
           NEW point \in {"queued", "observe"}
    PROVE  Runnable(Loaded(kind, point))
BY SwitchPointsElements
DEF SWell, Typed, RowOK, Row, Loaded, IdleJob, Runnable, Job, JobOK

LEMMA WaitingRunnable ==
    ASSUME SWell, NEW j \in Jobs, job[j].pc # "idle"
    PROVE  Runnable(job[j])
BY JobFields DEF SWell, Runnable, JobOK

LEMMA ArriveJobWell ==
    ASSUME SWell, NEW j \in Jobs, ArriveJob(j)
    PROVE  AllWell
<1>1. up /\ row.exists /\ UNCHANGED <<up, rt, req, late, recent>>
  BY DEF ArriveJob, AcceptSwitch, AcceptCheck, Idle
<1>2. CASE AcceptSwitch(j)
  <2>1. Enter(j, Loaded("manual", "queued"))
    BY <1>2 DEF AcceptSwitch
  <2> QED BY <1>1, <2>1, LoadedRunnable, EnterWell
<1>3. CASE AcceptCheck(j)
  <2> DEFINE x == Loaded("health", "observe")
  <2>1. job' = [job EXCEPT ![j] = x] /\ UNCHANGED <<row, lock>>
    BY <1>3 DEF AcceptCheck
  <2>2. Runnable(x) /\ x.pc = "observe"
    BY <1>1, LoadedRunnable DEF Loaded, IdleJob
  <2> HIDE DEF x
  <2>3. Advances(j, x)
    BY <2>1, <2>2, SwitchPointsElements DEF Advances, Becomes, Runnable
  <2>4. LineOK'
    BY <1>1, <2>1, <2>3, AdvancesLine DEF SWell
  <2> QED BY <1>1, <2>1, <2>2, <2>3, <2>4, QuietWell DEF Advances, JobSpawnPoints
<1> QED BY <1>2, <1>3 DEF ArriveJob

LEMMA CheckStepWell ==
    ASSUME SWell, NEW j \in Jobs, Observe(j) \/ Probe(j)
    PROVE  AllWell
<1>1. /\ up /\ job[j].pc \in {"observe", "probe"}
      /\ UNCHANGED <<up, row, rt, late, req, lock, recent>>
  BY JobAtPoint DEF Observe, Probe, JobLook, Look
<1>2. Healthy(j) \/ Unhealthy(j) \/ Move(j, "probe")
  BY DEF Observe, Probe, JobLook, Look
<1>3. JobGoesOn(j)
  BY <1>1, <1>2, CheckedAdvances, MoveAdvances, SwitchPointsElements DEF SWell
<1> QED BY <1>1, <1>3, JobLookSteps, JobStepsWell

LEMMA JudgeWell ==
    ASSUME SWell, NEW j \in Jobs, Judge(j)
    PROVE  AllWell
<1>1. up /\ Runnable(job[j]) /\ UNCHANGED <<up, rt, req, late, recent>>
  BY JobAtPoint, WaitingRunnable DEF Judge
<1>2. CASE job[j].mem.failures >= Threshold
  BY <1>1, <1>2, EnterWell DEF Judge
<1>3. CASE ~(job[j].mem.failures >= Threshold)
  <2>1. Save(job[j]) /\ job' = [job EXCEPT ![j] = IdleJob] /\ UNCHANGED lock
    BY <1>3 DEF Judge
  <2>2. Advances(j, IdleJob)
    BY <2>1, IdleJobOK DEF Advances, Becomes
  <2>3. RowOK'
    BY <1>1, <2>1, SaveOK DEF Runnable, Job, SWell, Typed
  <2>4. LineOK'
    BY <1>1, <2>1, <2>2, AdvancesLine DEF SWell
  <2>5. IdleJob.pc \notin JobSpawnPoints
    BY IdleJobOK, SwitchPointsElements
  <2> QED BY <1>1, <2>1, <2>2, <2>3, <2>4, <2>5, QuietWell DEF Advances
<1> QED BY <1>2, <1>3

LEMMA WakeUpWell ==
    ASSUME SWell, NEW j \in Jobs, WakeUp(j)
    PROVE  AllWell
<1>1. /\ up /\ job[j].pc = "queued" /\ lock # <<>> /\ Head(lock) = j
      /\ Turn(j, job[j], lock) /\ UNCHANGED <<up, rt, req, late, recent>>
  BY JobAtPoint DEF WakeUp
<1>2. \A k \in Jobs : job[k].pc \notin SwitchPoints
  BY <1>1, SwitchPointsElements DEF SWell, LineOK
<1>3. Runnable(job[j]) /\ lock \in Seq(Jobs)
  BY <1>1, WaitingRunnable DEF SWell, LineOK
<1> QED BY <1>1, <1>2, <1>3, TurnWell

\* The event of an automatic switch is the one there was room for.
LEMMA SettledWell ==
    ASSUME SWell, NEW j \in Jobs, Settled(j)
    PROVE  AllWell
<1>1. /\ up /\ job[j].pc = "settle" /\ Save(job[j]) /\ lock' = Tail(lock)
      /\ job' = [job EXCEPT ![j] = IdleJob] /\ UNCHANGED <<up, rt, req, late>>
  BY JobAtPoint DEF Settled
<1>2. /\ lock \in Seq(Jobs) /\ lock # <<>> /\ Head(lock) = j
      /\ job[j].kind = "health" => recent < MaxSwitches
      /\ \A k \in Jobs \ {j} : job[k].pc \notin SwitchPoints
  BY <1>1, SwitchPointsElements DEF SWell, LineOK
<1>3. Becomes(j, IdleJob)
  BY <1>1, IdleJobOK DEF Becomes
<1>4. \A k \in Jobs : job'[k].pc \notin SwitchPoints
  BY <1>2, <1>3, BecomesOK, IdleJobOK DEF SWell
<1>5. recent' \in 0..MaxSwitches
  <2>1. recent \in 0..MaxSwitches /\ MaxSwitches \in Nat
    BY SwitchAssumption DEF SWell, LineOK
  <2>2. recent' = recent \/ (recent' = recent + 1 /\ recent < MaxSwitches)
    BY <1>2 DEF Settled
  <2> QED BY <2>1, <2>2
<1>6. lock' \in Seq(Jobs)
  BY <1>1, <1>2
<1>7. LineOK'
  BY <1>4, <1>5, <1>6 DEF LineOK
<1>8. RowOK'
  BY <1>1, WaitingRunnable, SaveOK DEF Runnable, Job, SWell, Typed
<1>9. IdleJob.pc \notin JobSpawnPoints
  BY IdleJobOK, SwitchPointsElements
<1> QED BY <1>1, <1>3, <1>7, <1>8, <1>9, QuietWell

LEMMA ProgressJobWell ==
    ASSUME SWell, NEW j \in Jobs, ProgressJob(j)
    PROVE  AllWell
BY CheckStepWell, JudgeWell, WakeUpWell, SwitchStepWell, SettledWell DEF ProgressJob

-----------------------------------------------------------------------------
\* The requests, the service and time.

\* A step that leaves the jobs alone.
LEMMA JobsStay ==
    ASSUME UNCHANGED job, NEW y \in AllRunning'
    PROVE  y \in Running' \/ (y \in AllRunning /\ y[1] = "job")
BY AllElements, AllElementsNext

LEMMA LifecycleWell ==
    ASSUME SWell, Lifecycle(Serving \/ Mishap \/ Recover)
    PROVE  AllWell
<1>1. /\ Serving \/ Mishap \/ Recover
      /\ recent' = IF row.exists /\ ~row'.exists THEN 0 ELSE recent
      /\ UNCHANGED <<lock, job>>
  BY DEF Lifecycle
<1>2. StepsWell
  BY <1>1, LifecycleSteps DEF SWell
<1>3. JobsOK'
  BY <1>1 DEF SWell, JobsOK, JobOK
<1>4. recent' \in 0..MaxSwitches /\ recent' <= recent
  BY <1>1, SwitchAssumption DEF SWell, LineOK
<1>5. LineOK'
  BY <1>1, <1>4, SwitchAssumption DEF SWell, LineOK
<1>6. Steps(AllRunning, AllRunning')
  BY <1>1, <1>2, JobsStay, Widen DEF StepsWell
<1> QED BY <1>2, <1>3, <1>5, <1>6 DEF StepsWell, AllWell

LEMMA CrashAllWell ==
    ASSUME SWell, CrashAll
    PROVE  AllWell
<1>1. /\ Crash /\ job' = [j \in Jobs |-> IdleJob] /\ lock' = <<>> /\ recent' = recent
  BY DEF CrashAll
<1>2. StepsWell
  BY <1>1, LifecycleSteps DEF SWell
<1>3. JobsOK'
  BY <1>1, IdleJobOK DEF JobsOK
<1>4. LineOK'
  BY <1>1, IdleJobOK DEF LineOK, SWell
<1>5. \A y \in AllRunning' : y \in Running'
  BY <1>1, IdleJobOK, AllElementsNext
<1>6. Steps(AllRunning, AllRunning')
  BY <1>2, <1>5, Widen DEF StepsWell
<1> QED BY <1>2, <1>3, <1>4, <1>6 DEF StepsWell, AllWell

LEMMA AgeWell ==
    ASSUME SWell, Age
    PROVE  AllWell
<1>1. UNCHANGED <<up, row, rt, req, late, lock, job>>
  BY DEF Age, vars
<1>2. recent' \in 0..MaxSwitches /\ recent' <= recent
  BY SwitchAssumption DEF Age, SWell, LineOK
<1>3. JobsOK'
  BY <1>1 DEF SWell, JobsOK, JobOK
<1>4. LineOK'
  BY <1>1, <1>2, SwitchAssumption DEF SWell, LineOK
<1>5. SameFence(rt, rt') /\ Lawful(rt, rt') /\ RowOK' /\ up' \in BOOLEAN
  BY <1>1, SameLawful DEF SameFence, SWell, Typed, MachineOK, RowOK
<1>6. StepsWell
  BY <1>1, <1>5, SameStep DEF SWell
<1>7. Steps(AllRunning, AllRunning')
  BY <1>1, <1>6, JobsStay, Widen DEF StepsWell
<1> QED BY <1>3, <1>4, <1>6, <1>7 DEF StepsWell, AllWell

LEMMA AllUnchanged ==
    ASSUME SInv, UNCHANGED <<allVars, raced>>
    PROVE  SInv'
<1>1. UNCHANGED <<up, row, rt, req, late, raced, lock, job, recent>>
  BY DEF allVars, vars
<1>2. SWell'
  BY <1>1 DEF SInv, SWell, Typed, RowOK, MachineOK, SessionsOK, SessionOK, LateOK, Tidy,
              HasProcess, JobsOK, JobOK, LineOK
<1>3. AllRunning' = AllRunning
  BY <1>1 DEF AllRunning, Running, InCall, CallOf, Interrupted, JobInCall, JobCallOf
<1>4. Safe(AllRunning)'
  <2>1. Safe(AllRunning)
    BY DEF SInv
  <2>2. Race(AllRunning') <=> Race(AllRunning)
    BY <1>3
  <2>3. Guarded(rt') <=> Guarded(rt)
    BY <1>1
  <2>4. \A x \in AllRunning' : Ready(x[3], rt') <=> Ready(x[3], rt)
    BY <1>1
  <2> QED BY <1>1, <1>3, <2>1, <2>2, <2>3, <2>4 DEF Safe, Race, Ready, Guarded, HasProcess,
                                                    KillswitchActive
<1> QED BY <1>2, <1>4 DEF SInv

LEMMA SwitchNextWell ==
    ASSUME SWell, SwitchNext
    PROVE  AllWell /\ Note(AllRunning)
<1>1. Note(AllRunning)
  BY DEF SwitchNext
<1>2. CASE Switching
  BY <1>1, <1>2, ArriveJobWell, ProgressJobWell DEF Switching
<1> QED BY <1>1, <1>2, LifecycleWell, CrashAllWell, AgeWell DEF SwitchNext

LEMMA SwitchNextSound ==
    ASSUME SInv, [SwitchNext]_<<allVars, raced>>
    PROVE  SInv' /\ (MachineStep \/ UNCHANGED <<rt, raced>>)
<1>1. CASE SwitchNext
  BY <1>1, SwitchNextWell, ToSInv DEF SInv
<1>2. CASE UNCHANGED <<allVars, raced>>
  BY <1>2, AllUnchanged DEF allVars, vars
<1> QED BY <1>1, <1>2

-----------------------------------------------------------------------------
\* The theorems.

THEOREM SwitchInvariance == SwitchSpec => []SInv
<1>1. SwitchInit => SInv
  BY InitSInv
<1>2. SInv /\ [SwitchNext]_<<allVars, raced>> => SInv'
  BY SwitchNextSound
<1> QED BY <1>1, <1>2, PTL DEF SwitchSpec

\* The state of requests and switches together stays well-typed.
THEOREM SwitchTypeCorrect == SwitchSpec => []SwitchTypeOK
<1>1. SInv => SwitchTypeOK
  BY TypedTypes DEF SInv, SWell, JobsOK, LineOK, SwitchTypeOK
<1> QED BY <1>1, SwitchInvariance, PTL

\* Switches and health checks beside lifecycle requests, however many there are and
\* however late their helpers take effect, let no process run without the kill
\* switch, until a start looks for it and spawns, or a recovery purges, while
\* another helper of the connection is at work (real_driver.py: switch).
THEOREM KillSwitchHoldsInSwitches == SwitchSpec => []KillSwitchGuard
<1>1. SInv => KillSwitchGuard
  BY DEF SInv, Safe, KillSwitchGuard
<1> QED BY <1>1, SwitchInvariance, PTL

\* The count and the event of an automatic switch are far apart, but the lock
\* keeps all others out in between: the hourly limit is never exceeded
\* (auto_switch/service.py: switch).
THEOREM RateIsLimited == SwitchSpec => []RateLimit
<1>1. SInv => RateLimit
  BY SwitchAssumption DEF SInv, SWell, LineOK, RateLimit
<1> QED BY <1>1, SwitchInvariance, PTL

\* Every step of the service, its switches included, is a step of the fail-closed
\* tunnel, or none; nothing is promised after a race.
THEOREM SwitchRefinement == SwitchSpec => KeepsPromise
<1>1. SwitchInit => Promise!Init
  BY DEF SwitchInit, Init, Promise!Init, CleanRuntime
<1>2. ASSUME SInv, SInv', [SwitchNext]_<<allVars, raced>>
      PROVE  [Promise!Next]_(Promise!vars)
  <2>1. rt \in Runtime /\ rt' \in Runtime /\ raced' \in BOOLEAN
    BY <1>2 DEF SInv, SWell, Typed, MachineOK
  <2>2. MachineStep \/ UNCHANGED <<rt, raced>>
    BY <1>2, SwitchNextSound
  <2>3. CASE MachineStep
    BY <2>1, <2>3, KeptIsPromised
  <2>4. CASE UNCHANGED <<rt, raced>>
    BY <2>4 DEF Promise!vars
  <2> QED BY <2>2, <2>3, <2>4
<1> QED BY <1>1, <1>2, SwitchInvariance, PTL DEF SwitchSpec, KeepsPromise, Promise!Spec

\* A connection that runs is as sound as one that does not exist.
LEMMA InitRunning == RunningInit => SInv
<1> SUFFICES ASSUME RunningInit PROVE SInv
  OBVIOUS
<1>1. PICK n \in Nodes :
          /\ row = [exists |-> TRUE, endpoint |-> TRUE,
                    col |-> [status |-> "RUNNING", active |-> TRUE,
                             node |-> n, failures |-> 0]]
          /\ rt = [ns |-> TRUE, ks |-> n, hostRules |-> TRUE, nsRules |-> TRUE,
                   vpn |-> n, socks |-> TRUE, orphaned |-> FALSE]
  BY DEF RunningInit
<1>2. RowOK
  BY <1>1 DEF RowOK, Row, Columns, Status, Committed
<1>3. MachineOK /\ Guarded(rt)
  BY <1>1, NodesAssumption DEF MachineOK, Runtime, Guarded, HasProcess, Tidy
<1>4. SessionsOK
  BY IdleOK DEF RunningInit, SessionsOK
<1>5. JobsOK
  BY IdleJobOK DEF RunningInit, JobsOK
<1>6. recent \in 0..MaxSwitches
  BY SwitchAssumption DEF RunningInit
<1>7. LineOK
  BY <1>6, IdleJobOK DEF RunningInit, LineOK
<1>8. LateOK
  BY DEF RunningInit, LateOK
<1>9. AllRunning = {}
  <2>1. Running = {}
    BY NothingRuns DEF RunningInit
  <2>2. \A j \in Jobs : ~JobInCall(job[j])
    BY IdleJobOK DEF RunningInit
  <2> QED BY <2>1, <2>2, AllElements
<1>10. Safe(AllRunning)
  BY <1>3, <1>9 DEF Safe, Race
<1>11. up \in BOOLEAN /\ raced \in BOOLEAN
  BY DEF RunningInit
<1> QED BY <1>2, <1>3, <1>4, <1>5, <1>7, <1>8, <1>10, <1>11 DEF SInv, SWell, Typed

-----------------------------------------------------------------------------
\* Switches without lifecycle requests, whose helpers end before their calls: who
\* dials has seen every proxy stop.

Dialling == {"dial", "spawnDial", "awaitDial", "verifyExit"}

\* A step in which no proxy comes up and nobody starts to dial.
LEMMA DiallingKept ==
    ASSUME NoProxyBeforeVerified, rt'.socks => rt.socks,
           \A j \in Jobs : job'[j].pc \in Dialling => job[j].pc \in Dialling
    PROVE  NoProxyBeforeVerified'
BY DEF NoProxyBeforeVerified, Dialling

\* Where a job stands after a step, and where the others stand.
LEMMA JobGoes ==
    ASSUME JobsOK, NEW j \in Jobs, NEW p
    PROVE  /\ Move(j, p) => /\ job'[j].pc = p
                            /\ \A k \in Jobs \ {j} : job'[k] = job[k]
           /\ SwitchFailed(j) \/ SwitchSucceeded(j) =>
                  /\ job'[j].pc = "settle"
                  /\ \A k \in Jobs \ {j} : job'[k] = job[k]
<1>1. job[j] \in Job /\ job \in [Jobs -> Job]
  BY DEF JobsOK
<1>2. ASSUME Move(j, p)
      PROVE  job'[j].pc = p /\ \A k \in Jobs \ {j} : job'[k] = job[k]
  BY <1>1, <1>2 DEF Move, Job
<1>3. ASSUME NEW m, SwitchEnds(j, m)
      PROVE  job'[j].pc = "settle" /\ \A k \in Jobs \ {j} : job'[k] = job[k]
  BY <1>1, <1>3 DEF SwitchEnds, Job
<1> QED BY <1>2, <1>3 DEF SwitchFailed, SwitchSucceeded

\* No operation but the spawn of the proxy brings one up, and a kill switch is
\* installed only where none runs.
LEMMA ProxyStays ==
    ASSUME NEW r \in Runtime, NEW c \in Call, NEW o \in Outcomes(c, r)
    PROVE  /\ c.op # "spawnSocks" => (o.rt.socks => r.socks)
           /\ c.op = "applyKillswitch" /\ o.ok => ~o.rt.socks
<1>0. c.node \in Nodes \cup {NoNode} /\ c.op \in HelperSteps
  BY DEF Call

<1>1. CASE c.op = "createNamespace"
  <2>1. o \in NamespaceCreate(r)
    BY <1>1 DEF Outcomes
  <2> QED BY <1>0, <1>1, <2>1, NamespaceCreateLeaves DEF SameProcesses

<1>2. CASE c.op = "deleteNamespace"
  <2>1. o \in NamespaceDelete(r)
    BY <1>2 DEF Outcomes
  <2> QED BY <1>0, <1>2, <2>1, NamespaceDeleteLeaves DEF SameProcesses

<1>3. CASE c.op = "applyKillswitch"
  <2>1. o \in KillswitchApply(r, c.node)
    BY <1>3 DEF Outcomes
  <2> QED BY <1>0, <1>3, <2>1, KillswitchApplyLeaves DEF SameProcesses, HasProcess

<1>4. CASE c.op = "removeKillswitch"
  <2>1. o \in KillswitchRemove(r)
    BY <1>4 DEF Outcomes
  <2> QED BY <1>0, <1>4, <2>1, KillswitchRemoveLeaves DEF SameProcesses

<1>5. CASE c.op = "askOpenvpn"
  <2>1. o \in OpenvpnAsk(r, c.node)
    BY <1>5 DEF Outcomes
  <2> QED BY <1>0, <1>5, <2>1, AskLeaves

<1>6. CASE c.op = "spawnOpenvpn"
  <2>1. o \in OpenvpnSpawn(r, c.node)
    BY <1>6 DEF Outcomes
  <2> QED BY <1>0, <1>6, <2>1, OpenvpnSpawnLeaves

<1>7. CASE c.op = "stopOpenvpn"
  <2>1. o \in OpenvpnStop(r)
    BY <1>7 DEF Outcomes
  <2> QED BY <1>0, <1>7, <2>1, OpenvpnStopLeaves

<1>8. CASE c.op = "askSocks"
  <2>1. o \in SocksAsk(r)
    BY <1>8 DEF Outcomes
  <2> QED BY <1>0, <1>8, <2>1, AskLeaves

<1>9. CASE c.op = "stopSocks"
  <2>1. o \in SocksStop(r)
    BY <1>9 DEF Outcomes
  <2> QED BY <1>0, <1>9, <2>1, SocksStopLeaves

<1>10. CASE c.op = "purge"
  <2>1. o \in Purge(r)
    BY <1>10 DEF Outcomes
  <2> QED BY <1>0, <1>10, <2>1, PurgeLeaves

<1>11. CASE c.op = "spawnSocks"
  BY <1>11
<1> QED BY <1>0, <1>1, <1>2, <1>3, <1>4, <1>5, <1>6, <1>7, <1>8, <1>9, <1>10, <1>11 DEF HelperSteps

\* While every helper ends before its call, the executor gives up on none.
LEMMA NoGiveUp ==
    ASSUME LateOK, NoneLate', NEW c \in Call
    PROVE  ~GiveUp(c)
BY DEF LateOK, NoneLate, GiveUp, NoCall, Call, HelperSteps

\* A helper that a job has waited for has answered.
JobAnswers(j, o) ==
    o \in Outcomes(JobCallOf(job[j]), rt) /\ rt' = o.rt

\* The steps of a switch: only the new kill switch lets it dial, and the proxy
\* starts after the dial, while the lock keeps every other job out.
LEMMA SwitchStepProxy ==
    ASSUME SWell, NoneLate', NoProxyBeforeVerified, NEW j \in Jobs,
           \/ HaltSocks(j) \/ VerifyGuard(j) \/ HaltOpenvpn(j) \/ Reguard(j)
           \/ UndoReguard(j) \/ Restore(j) \/ UndoRestore(j)
           \/ Dial(j) \/ SpawnDial(j) \/ AwaitDial(j) \/ VerifyExit(j) \/ ResumeSocks(j)
           \/ SpawnResume(j) \/ AwaitResume(j) \/ UndoResume(j) \/ UndoDial(j)
    PROVE  NoProxyBeforeVerified'
<1>1. JobsOK /\ LateOK /\ rt \in Runtime /\ job[j] \in Job
  BY DEF SWell, JobsOK, Typed, MachineOK
<1>2. ASSUME rt'.socks => rt.socks, NEW p,
             Move(j, p) \/ SwitchFailed(j) \/ SwitchSucceeded(j),
             p \in Dialling => job[j].pc \in Dialling
      PROVE  NoProxyBeforeVerified'
  <2>1. \A k \in Jobs : job'[k].pc \in Dialling => job[k].pc \in Dialling
    BY <1>1, <1>2, JobGoes DEF Dialling
  <2> QED BY <1>2, <2>1, DiallingKept
<1>3. ASSUME job[j].pc \in SwitchPoints, NEW p, p \notin Dialling,
             Move(j, p) \/ SwitchFailed(j) \/ SwitchSucceeded(j)
      PROVE  NoProxyBeforeVerified'
  <2>1. \A k \in Jobs \ {j} : job[k].pc \notin SwitchPoints
    BY <1>3 DEF SWell, LineOK
  <2>2. \A k \in Jobs : job'[k].pc \notin Dialling
    BY <1>1, <1>3, <2>1, JobGoes, SwitchPointsElements DEF Dialling
  <2> QED BY <2>2 DEF NoProxyBeforeVerified, Dialling
<1>4. ASSUME JobInCall(job[j])
      PROVE  ~GiveUp(JobCallOf(job[j]))
  BY <1>1, <1>4, JobCallFields, NoGiveUp
<1>5. ASSUME NEW o, JobAnswers(j, o), JobInCall(job[j])
      PROVE  /\ job[j].pc # "spawnResume" => (rt'.socks => rt.socks)
             /\ job[j].pc = "reguard" /\ o.ok => ~rt'.socks
  <2>1. JobCallOf(job[j]) \in Call
    BY <1>1, <1>5, JobCallFields
  <2>2. /\ JobCallOf(job[j]).op # "spawnSocks" => (rt'.socks => rt.socks)
        /\ JobCallOf(job[j]).op = "applyKillswitch" /\ o.ok => ~rt'.socks
    BY <1>1, <1>5, <2>1, ProxyStays DEF JobAnswers
  <2>3. /\ job[j].pc # "spawnResume" => JobCallOf(job[j]).op # "spawnSocks"
        /\ job[j].pc = "reguard" => JobCallOf(job[j]).op = "applyKillswitch"
    BY <1>5 DEF JobCallOf, JobInCall, JobOperationAt
  <2> QED BY <2>2, <2>3

<1>6. CASE HaltSocks(j)
  <2>1. job[j].pc = "haltSocks" /\ JobInCall(job[j]) /\ job[j].pc \in SwitchPoints
    BY <1>6, JobAtPoint, SwitchPointsElements DEF HaltSocks, JobInCall, JobOperationAt
  <2>2. PICK o : JobAnswers(j, o) /\ (Move(j, "verifyGuard") \/ SwitchFailed(j))
    BY <1>6, <1>4, <2>1, Zenon DEF HaltSocks, JobAwait, AwaitCall, JobAnswers
  <2> QED BY <1>2, <1>5, <2>1, <2>2 DEF Dialling
<1>7. CASE HaltOpenvpn(j)
  <2>1. job[j].pc = "haltOpenvpn" /\ JobInCall(job[j]) /\ job[j].pc \in SwitchPoints
    BY <1>7, JobAtPoint, SwitchPointsElements DEF HaltOpenvpn, JobInCall, JobOperationAt
  <2>2. PICK o : JobAnswers(j, o) /\ (Move(j, "reguard") \/ SwitchFailed(j))
    BY <1>7, <1>4, <2>1, Zenon DEF HaltOpenvpn, JobAwait, AwaitCall, JobAnswers
  <2> QED BY <1>2, <1>5, <2>1, <2>2 DEF Dialling
<1>8. CASE Reguard(j)
  <2>1. job[j].pc = "reguard" /\ JobInCall(job[j]) /\ job[j].pc \in SwitchPoints
    BY <1>8, JobAtPoint, SwitchPointsElements DEF Reguard, JobInCall, JobOperationAt
  <2>2. PICK o : JobAnswers(j, o) /\ ((o.ok /\ Move(j, "dial")) \/ Move(j, "undoReguard"))
    BY <1>8, <1>4, <2>1, Zenon DEF Reguard, JobAwait, AwaitCall, JobAnswers
  <2>3. CASE o.ok
    <3>1. ~rt'.socks
      BY <1>5, <2>1, <2>2, <2>3
    <3> QED BY <3>1 DEF NoProxyBeforeVerified
  <2>4. CASE ~o.ok
    BY <1>2, <1>5, <2>1, <2>2, <2>4 DEF Dialling
  <2> QED BY <2>3, <2>4
<1>9. CASE UndoReguard(j)
  <2>1. job[j].pc = "undoReguard" /\ JobInCall(job[j]) /\ job[j].pc \in SwitchPoints
    BY <1>9, JobAtPoint, SwitchPointsElements DEF UndoReguard, JobInCall, JobOperationAt
  <2>2. PICK o : JobAnswers(j, o) /\ (Move(j, "restore"))
    BY <1>9, <1>4, <2>1, Zenon DEF UndoReguard, JobAwait, AwaitCall, JobAnswers
  <2> QED BY <1>2, <1>5, <2>1, <2>2 DEF Dialling
<1>10. CASE Restore(j)
  <2>1. job[j].pc = "restore" /\ JobInCall(job[j]) /\ job[j].pc \in SwitchPoints
    BY <1>10, JobAtPoint, SwitchPointsElements DEF Restore, JobInCall, JobOperationAt
  <2>2. PICK o : JobAnswers(j, o) /\ (SwitchFailed(j) \/ Move(j, "undoRestore"))
    BY <1>10, <1>4, <2>1, Zenon DEF Restore, JobAwait, AwaitCall, JobAnswers
  <2> QED BY <1>2, <1>5, <2>1, <2>2 DEF Dialling
<1>11. CASE UndoRestore(j)
  <2>1. job[j].pc = "undoRestore" /\ JobInCall(job[j]) /\ job[j].pc \in SwitchPoints
    BY <1>11, JobAtPoint, SwitchPointsElements DEF UndoRestore, JobInCall, JobOperationAt
  <2>2. PICK o : JobAnswers(j, o) /\ (SwitchFailed(j))
    BY <1>11, <1>4, <2>1, Zenon DEF UndoRestore, JobAwait, AwaitCall, JobAnswers
  <2> QED BY <1>2, <1>5, <2>1, <2>2 DEF Dialling
<1>12. CASE Dial(j)
  <2>1. job[j].pc = "dial" /\ JobInCall(job[j]) /\ job[j].pc \in SwitchPoints
    BY <1>12, JobAtPoint, SwitchPointsElements DEF Dial, JobInCall, JobOperationAt
  <2>2. PICK o : JobAnswers(j, o) /\ (Move(j, "spawnDial") \/ Move(j, "undoDial"))
    BY <1>12, <1>4, <2>1, Zenon DEF Dial, JobAwait, AwaitCall, JobAnswers
  <2> QED BY <1>2, <1>5, <2>1, <2>2 DEF Dialling
<1>13. CASE SpawnDial(j)
  <2>1. job[j].pc = "spawnDial" /\ JobInCall(job[j]) /\ job[j].pc \in SwitchPoints
    BY <1>13, JobAtPoint, SwitchPointsElements DEF SpawnDial, JobInCall, JobOperationAt
  <2>2. PICK o : JobAnswers(j, o) /\ (Move(j, "awaitDial") \/ Move(j, "undoDial"))
    BY <1>13, <1>4, <2>1, Zenon DEF SpawnDial, JobAwait, AwaitCall, JobAnswers
  <2> QED BY <1>2, <1>5, <2>1, <2>2 DEF Dialling
<1>14. CASE SpawnResume(j)
  <2>1. job[j].pc = "spawnResume" /\ JobInCall(job[j]) /\ job[j].pc \in SwitchPoints
    BY <1>14, JobAtPoint, SwitchPointsElements DEF SpawnResume, JobInCall, JobOperationAt
  <2>2. PICK o : JobAnswers(j, o) /\ (Move(j, "awaitResume") \/ Move(j, "undoResume"))
    BY <1>14, <1>4, <2>1, Zenon DEF SpawnResume, JobAwait, AwaitCall, JobAnswers
  <2> QED BY <1>3, <2>1, <2>2 DEF Dialling
<1>15. CASE UndoResume(j)
  <2>1. job[j].pc = "undoResume" /\ JobInCall(job[j]) /\ job[j].pc \in SwitchPoints
    BY <1>15, JobAtPoint, SwitchPointsElements DEF UndoResume, JobInCall, JobOperationAt
  <2>2. PICK o : JobAnswers(j, o) /\ (Move(j, "undoDial"))
    BY <1>15, <1>4, <2>1, Zenon DEF UndoResume, JobAwait, AwaitCall, JobAnswers
  <2> QED BY <1>2, <1>5, <2>1, <2>2 DEF Dialling
<1>16. CASE UndoDial(j)
  <2>1. job[j].pc = "undoDial" /\ JobInCall(job[j]) /\ job[j].pc \in SwitchPoints
    BY <1>16, JobAtPoint, SwitchPointsElements DEF UndoDial, JobInCall, JobOperationAt
  <2>2. PICK o : JobAnswers(j, o) /\ (SwitchFailed(j))
    BY <1>16, <1>4, <2>1, Zenon DEF UndoDial, JobAwait, AwaitCall, JobAnswers
  <2> QED BY <1>2, <1>5, <2>1, <2>2 DEF Dialling
<1>17. CASE VerifyGuard(j)
  <2>1. job[j].pc = "verifyGuard" /\ UNCHANGED rt /\ (Move(j, "haltOpenvpn") \/ SwitchFailed(j))
    BY <1>17, JobAtPoint DEF VerifyGuard, JobLook, Look
  <2> QED BY <1>2, <2>1 DEF Dialling
<1>18. CASE AwaitDial(j)
  <2>1. job[j].pc = "awaitDial" /\ UNCHANGED rt /\ (Move(j, "verifyExit") \/ Move(j, "undoDial"))
    BY <1>18, JobAtPoint DEF AwaitDial, JobLook, Look
  <2> QED BY <1>2, <2>1 DEF Dialling
<1>19. CASE VerifyExit(j)
  <2>1. job[j].pc = "verifyExit" /\ UNCHANGED rt /\ (Move(j, "resumeSocks") \/ SwitchSucceeded(j) \/ Move(j, "undoDial"))
    BY <1>19, JobAtPoint DEF VerifyExit, JobLook, Look
  <2> QED BY <1>2, <2>1 DEF Dialling
<1>20. CASE AwaitResume(j)
  <2>1. job[j].pc = "awaitResume" /\ UNCHANGED rt /\ (SwitchSucceeded(j) \/ Move(j, "undoResume") \/ Move(j, "undoDial"))
    BY <1>20, JobAtPoint DEF AwaitResume, JobLook, Look
  <2> QED BY <1>2, <2>1 DEF Dialling
<1>21. CASE ResumeSocks(j)
  <2>1. job[j].pc = "resumeSocks" /\ job[j].pc \in SwitchPoints
    BY <1>21, JobAtPoint, SwitchPointsElements DEF ResumeSocks
  <2>2. Move(j, "spawnResume") \/ Move(j, "undoResume") \/ Move(j, "undoDial")
    BY <1>21, Zenon DEF ResumeSocks, JobAwait, AwaitCall, JobLook, Look
  <2> QED BY <1>3, <2>1, <2>2 DEF Dialling
<1> QED BY <1>6, <1>7, <1>8, <1>9, <1>10, <1>11, <1>12, <1>13, <1>14, <1>15, <1>16, <1>17, <1>18, <1>19, <1>20, <1>21

\* A job that arrives, waits, checks or ends does not dial.
LEMMA OtherStepProxy ==
    ASSUME SWell, NoProxyBeforeVerified, NEW j \in Jobs,
           \/ ArriveJob(j) \/ Observe(j) \/ Probe(j) \/ Judge(j) \/ WakeUp(j)
           \/ Settled(j)
    PROVE  NoProxyBeforeVerified'
<1>1. JobsOK /\ job \in [Jobs -> Job] /\ UNCHANGED rt
  BY DEF SWell, JobsOK, ArriveJob, AcceptSwitch, AcceptCheck, Observe, Probe,
         Judge, WakeUp, Settled, JobLook, Look
<1>2. ASSUME NEW x, x.pc \notin Dialling, job' = [job EXCEPT ![j] = x]
      PROVE  NoProxyBeforeVerified'
  BY <1>1, <1>2, DiallingKept
<1>3. ASSUME NEW s \in Job, NEW line, Turn(j, s, line)
      PROVE  NoProxyBeforeVerified'
  <2>1. CASE job' = [job EXCEPT ![j] = IdleJob]
    BY <1>2, <2>1 DEF IdleJob, Dialling
  <2>2. CASE \E n \in Nodes \ {s.mem.node} :
                 job' = [job EXCEPT ![j] =
                            [s EXCEPT !.candidate = n, !.resume = row.col.active,
                                      !.seen.active = row.col.active,
                                      !.mem.active = row.col.active,
                                      !.pc = IF row.col.active THEN "haltSocks"
                                             ELSE "verifyGuard"]]
    <3>1. PICK n \in Nodes :
              job' = [job EXCEPT ![j] =
                         [s EXCEPT !.candidate = n, !.resume = row.col.active,
                                   !.seen.active = row.col.active,
                                   !.mem.active = row.col.active,
                                   !.pc = IF row.col.active THEN "haltSocks"
                                          ELSE "verifyGuard"]]
      BY <2>2
    <3> DEFINE x == [s EXCEPT !.candidate = n, !.resume = row.col.active,
                              !.seen.active = row.col.active,
                              !.mem.active = row.col.active,
                              !.pc = IF row.col.active THEN "haltSocks"
                                     ELSE "verifyGuard"]
    <3>2. x.pc \notin Dialling
      BY DEF Job, Dialling
    <3>3. job' = [job EXCEPT ![j] = x]
      BY <3>1
    <3> HIDE DEF x
    <3> QED BY <1>2, <3>2, <3>3
  <2> QED BY <1>3, <2>1, <2>2 DEF Turn, Refuse
<1>4. ASSUME NEW s \in Job, Enter(j, s) PROVE NoProxyBeforeVerified'
  <2>1. CASE lock = <<>>
    BY <1>3, <1>4, <2>1 DEF Enter
  <2>2. CASE lock # <<>>
    <3> DEFINE x == [s EXCEPT !.pc = "queued"]
    <3>1. x.pc \notin Dialling /\ job' = [job EXCEPT ![j] = x]
      BY <1>4, <2>2 DEF Enter, Job, Dialling
    <3> HIDE DEF x
    <3> QED BY <1>2, <3>1
  <2> QED BY <2>1, <2>2
<1>5. CASE AcceptSwitch(j)
  BY <1>4, <1>5, LoadedRunnable DEF AcceptSwitch, Idle, Runnable
<1>6. CASE AcceptCheck(j)
  <2>1. Loaded("health", "observe").pc = "observe"
    BY DEF Loaded, IdleJob
  <2> QED BY <1>2, <1>6, <2>1 DEF AcceptCheck, Dialling
<1>7. CASE Observe(j) \/ Probe(j)
  <2>1. CASE Move(j, "probe")
    <3>1. \A k \in Jobs : job'[k].pc \in Dialling => job[k].pc \in Dialling
      BY <1>1, <2>1, JobGoes DEF Dialling
    <3> QED BY <1>1, <3>1, DiallingKept
  <2>2. ASSUME NEW f, Checked(j, f) PROVE NoProxyBeforeVerified'
    <3>1. \A k \in Jobs : job'[k].pc \in Dialling => job[k].pc \in Dialling
      BY <1>1, <2>2 DEF Checked, Job, Dialling
    <3> QED BY <1>1, <3>1, DiallingKept
  <2> QED BY <1>7, <2>1, <2>2 DEF Observe, Probe, JobLook, Look, Healthy, Unhealthy
<1>8. CASE Judge(j)
  BY <1>1, <1>2, <1>4, <1>8 DEF Judge, IdleJob, Dialling
<1>9. CASE WakeUp(j)
  BY <1>1, <1>3, <1>9 DEF WakeUp
<1>10. CASE Settled(j)
  BY <1>2, <1>10 DEF Settled, IdleJob, Dialling
<1> QED BY <1>5, <1>6, <1>7, <1>8, <1>9, <1>10 DEF ArriveJob

LEMMA NextProxy ==
    ASSUME Requests = {}, SInv, NoneLate, NoProxyBeforeVerified,
           [SwitchNext /\ NoneLate']_<<allVars, raced>>
    PROVE  NoProxyBeforeVerified'
<1>0. SWell /\ rt \in Runtime
  BY DEF SInv, SWell, Typed, MachineOK
<1>1. CASE Lifecycle(Serving \/ Mishap \/ Recover)
  <2>1. UNCHANGED job /\ (Serving \/ Mishap \/ Recover)
    BY <1>1 DEF Lifecycle
  <2>2. rt'.socks => rt.socks
    <3>1. CASE CreateConnection
      BY <3>1 DEF CreateConnection
    <3>2. CASE OpenvpnExits
      BY <1>0, <3>2, WithoutVpnLawful DEF OpenvpnExits
    <3>3. CASE SocksExits
      BY <3>3 DEF SocksExits
    <3>4. CASE Recover
      BY <1>0, <3>4, PurgeLeaves DEF Recover
    <3>5. ~Mishap
      BY DEF Mishap, LateStep, NoneLate
    <3> QED BY <2>1, <3>1, <3>2, <3>3, <3>4, <3>5 DEF Serving
  <2> QED BY <2>1, <2>2, DiallingKept
<1>2. CASE CrashAll
  BY <1>2 DEF CrashAll, NoProxyBeforeVerified, IdleJob
<1>3. CASE Switching /\ NoneLate'
  BY <1>0, <1>3, SwitchStepProxy, OtherStepProxy DEF Switching, ProgressJob
<1>4. CASE Age \/ UNCHANGED <<allVars, raced>>
  BY <1>4, DiallingKept DEF Age, allVars, vars
<1> QED BY <1>1, <1>2, <1>3, <1>4 DEF SwitchNext

\* Switches and checks without lifecycle requests, however many, on a connection
\* that runs, as long as every helper ends before its call: no client gets through
\* a tunnel that is not verified yet (real_driver.py, switch; root_helper.py,
\* _apply_killswitch).
THEOREM NoProxyWhileDialling ==
    ASSUME Requests = {}
    PROVE  RunningSpec => []NoProxyBeforeVerified
<1> DEFINE Inv == SInv /\ NoneLate /\ NoProxyBeforeVerified
<1>1. RunningInit => Inv
  <2>1. RunningInit => NoProxyBeforeVerified /\ NoneLate
    BY DEF RunningInit, NoProxyBeforeVerified, IdleJob, NoneLate
  <2> QED BY <2>1, InitRunning
<1>2. Inv /\ [SwitchNext /\ NoneLate']_<<allVars, raced>> => Inv'
  <2>1. ASSUME Inv, [SwitchNext /\ NoneLate']_<<allVars, raced>> PROVE Inv'
    <3>1. SInv' /\ NoProxyBeforeVerified'
      BY <2>1, SwitchNextSound, NextProxy
    <3>2. NoneLate'
      BY <2>1 DEF allVars, vars, NoneLate
    <3> QED BY <3>1, <3>2
  <2> QED BY <2>1
<1>3. Inv => NoProxyBeforeVerified
  OBVIOUS
<1> HIDE DEF Inv
<1> QED BY <1>1, <1>2, <1>3, PTL DEF RunningSpec

-----------------------------------------------------------------------------
\* One request or one job at a time: what the one that runs knows of the row,
\* which nobody else writes meanwhile, and of the machine.

MayRun(m, n) == m.vpn \in {NoNode, n}
Bare(m) == ~HasProcess(m) /\ m.ks = NoNode

NoJob == \A j \in Jobs : job[j].pc = "idle"

AfterGuard ==
    {"startOpenvpn", "spawnOpenvpn", "awaitTunnel", "probeExit", "startSocks",
     "spawnSocks", "awaitSocks"}

RequestAlone(q, m) ==
    /\ row.exists /\ q.seen = row.col /\ q.mem.node = row.col.node
    /\ q.pc \in AfterGuard => MayRun(m, q.mem.node)
    /\ q.pc = "deleteNamespace" => Bare(m)
    /\ q.pc = "delete" => NothingButRules(m)
    /\ q.pc = "commit" => /\ q.mem.status = "STOPPED" => NothingButRules(m)
                          /\ q.mem.status = "RUNNING" => MayRun(m, q.mem.node)

BeforeHalt ==
    {"observe", "probe", "judge", "queued", "haltSocks", "verifyGuard", "haltOpenvpn"}

AfterReguard == Dialling \cup {"resumeSocks", "spawnResume", "awaitResume"}

JobAlone(x, m) ==
    /\ row.exists /\ x.seen = row.col /\ row.col.status \in {"RUNNING", "FAILED"}
    /\ x.pc # "settle" =>
           x.mem.node = row.col.node /\ x.mem.status = row.col.status
    /\ x.pc \in BeforeHalt /\ row.col.status = "RUNNING" => MayRun(m, row.col.node)
    /\ x.pc \in AfterReguard => MayRun(m, x.candidate)
    /\ x.pc = "settle" => /\ x.mem.status \in {"RUNNING", "FAILED"}
                          /\ x.mem.status = "RUNNING" => MayRun(m, x.mem.node)

SerialInv ==
    /\ up /\ OneAtATime /\ NoneLate
    /\ \A r \in Requests : req[r].pc # "idle" => RequestAlone(req[r], rt)
    /\ \A j \in Jobs : job[j].pc # "idle" => JobAlone(job[j], rt)
    /\ StoppedIsClean
    /\ NoJob /\ row.exists /\ row.col.status = "RUNNING" => MayRun(rt, row.col.node)

LEMMA SerialProperties == SerialInv => StoppedIsClean /\ RowNamesTunnel
BY DEF SerialInv, RowNamesTunnel, NoJob, MayRun

LEMMA NothingIsBare ==
    ASSUME NEW m \in Runtime, NothingButRules(m)
    PROVE  ~HasProcess(m) /\ m.vpn = NoNode
<1>1. /\ CleanRuntime \in Runtime
      /\ CleanRuntime.vpn = NoNode /\ CleanRuntime.socks = FALSE
  BY DEF CleanRuntime, Runtime
<1>2. m = [CleanRuntime EXCEPT !.hostRules = m.hostRules]
  BY DEF NothingButRules
<1>3. m.vpn = CleanRuntime.vpn /\ m.socks = CleanRuntime.socks
  BY <1>1, <1>2 DEF Runtime
<1> QED BY <1>1, <1>3 DEF HasProcess

\* What becomes of the tunnel, and what a success has left.
LEMMA TunnelStays ==
    ASSUME NEW r \in Runtime, NEW c \in Call, NEW o \in Outcomes(c, r), Tidy(r)
    PROVE  /\ o.rt \in Runtime /\ o.rt.vpn \in {r.vpn, NoNode, c.node}
           /\ c.op # "spawnOpenvpn" => o.rt.vpn \in {r.vpn, NoNode}
           /\ c.op = "stopSocks" => o.rt.vpn = r.vpn
           /\ c.op = "applyKillswitch" /\ o.ok => o.rt.vpn = NoNode
           /\ c.op = "removeKillswitch" /\ o.ok => Bare(o.rt)
           /\ c.op = "deleteNamespace" /\ o.ok /\ Bare(r) => NothingButRules(o.rt)
<1>0. c.node \in Nodes \cup {NoNode} /\ c.op \in HelperSteps
  BY DEF Call
<1>a. o.rt \in Runtime
  BY OutcomesLawful DEF Outcome

<1>1. CASE c.op = "createNamespace"
  <2>1. o \in NamespaceCreate(r)
    BY <1>1 DEF Outcomes
  <2> QED BY <1>0, <1>a, <1>1, <2>1, NamespaceCreateLeaves DEF SameProcesses
<1>2. CASE c.op = "deleteNamespace"
  <2>1. o \in NamespaceDelete(r)
    BY <1>2 DEF Outcomes
  <2> QED BY <1>0, <1>a, <1>2, <2>1, NamespaceDeleteLeaves DEF SameProcesses, Bare
<1>3. CASE c.op = "applyKillswitch"
  <2>1. o \in KillswitchApply(r, c.node)
    BY <1>3 DEF Outcomes
  <2> QED BY <1>0, <1>a, <1>3, <2>1, KillswitchApplyLeaves DEF SameProcesses, HasProcess
<1>4. CASE c.op = "removeKillswitch"
  <2>1. o \in KillswitchRemove(r)
    BY <1>4 DEF Outcomes
  <2> QED BY <1>0, <1>a, <1>4, <2>1, KillswitchRemoveLeaves DEF SameProcesses, Bare
<1>5. CASE c.op = "askOpenvpn"
  <2>1. o \in OpenvpnAsk(r, c.node)
    BY <1>5 DEF Outcomes
  <2> QED BY <1>0, <1>a, <1>5, <2>1, AskLeaves
<1>6. CASE c.op = "spawnOpenvpn"
  <2>1. o \in OpenvpnSpawn(r, c.node)
    BY <1>6 DEF Outcomes
  <2> QED BY <1>0, <1>a, <1>6, <2>1, OpenvpnSpawnLeaves
<1>7. CASE c.op = "stopOpenvpn"
  <2>1. o \in OpenvpnStop(r)
    BY <1>7 DEF Outcomes
  <2> QED BY <1>0, <1>a, <1>7, <2>1, OpenvpnStopLeaves
<1>8. CASE c.op = "askSocks"
  <2>1. o \in SocksAsk(r)
    BY <1>8 DEF Outcomes
  <2> QED BY <1>0, <1>a, <1>8, <2>1, AskLeaves
<1>9. CASE c.op = "spawnSocks"
  <2>1. o \in SocksSpawn(r)
    BY <1>9 DEF Outcomes
  <2> QED BY <1>0, <1>a, <1>9, <2>1, SocksSpawnLeaves
<1>10. CASE c.op = "stopSocks"
  <2>1. o \in SocksStop(r)
    BY <1>10 DEF Outcomes
  <2> QED BY <1>0, <1>a, <1>10, <2>1, SocksStopLeaves
<1>11. CASE c.op = "purge"
  <2>1. o \in Purge(r)
    BY <1>11 DEF Outcomes
  <2> QED BY <1>0, <1>a, <1>11, <2>1, PurgeLeaves
<1> QED BY <1>0, <1>1, <1>2, <1>3, <1>4, <1>5, <1>6, <1>7, <1>8, <1>9, <1>10, <1>11 DEF HelperSteps

\* The request goes on.
LEMMA RequestStep ==
    ASSUME SInv, SerialInv, NoneLate', NEW r \in Requests, \A q \in Requests : q = r,
           req[r].pc # "idle", UNCHANGED <<up, row, job>>,
           rt'.vpn \in {rt.vpn, NoNode, row.col.node},
           req'[r].pc # "idle", RequestAlone(req'[r], rt')
    PROVE  SerialInv'
<1>1. NoJob /\ NoJob'
  BY DEF SerialInv, OneAtATime, Quiet, NoJob
<1>2. OneAtATime' /\ StoppedIsClean'
  BY <1>1 DEF OneAtATime, StoppedIsClean, Quiet, NoJob
<1>3. \A q \in Requests : RequestAlone(req[q], rt)'
  <2>1. RequestAlone(req[r], rt)'
    BY DEF RequestAlone, MayRun, Bare, HasProcess, NothingButRules
  <2> QED BY <2>1
<1>4. row.exists /\ row.col.status = "RUNNING" => MayRun(rt', row.col.node)
  BY <1>1 DEF SerialInv, MayRun
<1> QED BY <1>1, <1>2, <1>3, <1>4 DEF SerialInv, NoJob, MayRun

LEMMA PointGoes ==
    ASSUME SessionsOK, NEW r \in Requests, NEW point, NEW m, Continue(r, point, m)
    PROVE  req'[r].pc = point /\ req'[r].mem = m /\ req'[r].seen = req[r].seen
BY DEF Continue, SessionsOK, Request

\* It goes on with the node of its session, and knows at its next point what
\* that point needs.
LEMMA RequestContinues ==
    ASSUME SInv, SerialInv, NoneLate', NEW r \in Requests, \A q \in Requests : q = r,
           req[r].pc # "idle", UNCHANGED <<up, row, job>>,
           rt'.vpn \in {rt.vpn, NoNode, row.col.node},
           NEW point, NEW m, Continue(r, point, m), m.node = req[r].mem.node,
           point \notin {"idle", "delete"},
           point \in AfterGuard => MayRun(rt', m.node),
           point = "deleteNamespace" => Bare(rt'),
           point = "commit" => /\ m.status = "STOPPED" => NothingButRules(rt')
                               /\ m.status = "RUNNING" => MayRun(rt', m.node)
    PROVE  SerialInv'
<1>1. req'[r].pc = point /\ req'[r].mem = m /\ req'[r].seen = req[r].seen
  BY PointGoes DEF SInv, SWell, Typed
<1>2. RequestAlone(req'[r], rt')
  BY <1>1 DEF SerialInv, RequestAlone
<1> QED BY <1>1, <1>2, RequestStep

\* How a session ends.
LEMMA SessionEnds ==
    ASSUME SInv, NEW r \in Requests, req[r].pc # "idle"
    PROVE  LET m == req[r].mem IN
           /\ StartFailed(r) => \E e : /\ Continue(r, "commit", e)
                                       /\ e.node = m.node /\ e.status = "FAILED"
           /\ StopFailed(r) => \E e : /\ Continue(r, "commit", e)
                                      /\ e.node = m.node /\ e.status = "FAILED"
           /\ StartSucceeded(r) => \E e : /\ Continue(r, "commit", e)
                                          /\ e.node = m.node /\ e.status = "RUNNING"
           /\ StopSucceeded(r) => \E e : /\ \/ Continue(r, "commit", e)
                                            \/ Continue(r, "createNamespace", e)
                                         /\ e.node = m.node
<1> DEFINE m == req[r].mem
           failed  == [m EXCEPT !.status = "FAILED", !.active = FALSE]
           running == [m EXCEPT !.status = "RUNNING",
                                !.active = req[r].endpoint, !.failures = 0]
           again   == [m EXCEPT !.status = "STARTING", !.active = FALSE]
           stopped == [m EXCEPT !.status = "STOPPED", !.active = FALSE]
<1>1. m \in Columns
  BY WaitingSession DEF SInv, SWell, Typed
<1>2. failed.node = m.node /\ failed.status = "FAILED"
  BY <1>1 DEF Columns
<1>3. running.node = m.node /\ running.status = "RUNNING"
  BY <1>1 DEF Columns
<1>4. again.node = m.node /\ stopped.node = m.node
  BY <1>1 DEF Columns
<1>5. StopFailed(r) => \E e : /\ Continue(r, "commit", e)
                              /\ e.node = m.node /\ e.status = "FAILED"
  BY <1>1 DEF StopFailed, Columns
<1>6. /\ StartFailed(r) => Continue(r, "commit", failed)
      /\ StartSucceeded(r) => Continue(r, "commit", running)
      /\ StopSucceeded(r) => \/ Continue(r, "commit", stopped)
                             \/ Continue(r, "createNamespace", again)
  BY DEF StartFailed, StartSucceeded, StopSucceeded
<1> HIDE DEF failed, running, again, stopped
<1> QED BY <1>2, <1>3, <1>4, <1>5, <1>6

\* A helper that a request has waited for has answered.
Answers(r, o) == o \in Outcomes(CallOf(req[r]), rt) /\ rt' = o.rt

LEMMA AnswerFacts ==
    ASSUME SInv, SerialInv, NEW r \in Requests, InCall(req[r])
    PROVE  /\ req[r].pc # "idle" /\ req[r].mem.node = row.col.node /\ row.exists
           /\ \A o : Answers(r, o) =>
                 LET n == req[r].mem.node IN
                 /\ rt'.vpn \in {rt.vpn, NoNode, n}
                 /\ MayRun(rt, n) => MayRun(rt', n)
                 /\ o.ok /\ req[r].pc = "applyKillswitch" => MayRun(rt', n)
                 /\ o.ok /\ req[r].pc = "removeKillswitch" => Bare(rt')
                 /\ o.ok /\ req[r].pc = "deleteNamespace" => NothingButRules(rt')
<1>1. /\ req[r] \in Request /\ rt \in Runtime /\ Tidy(rt)
      /\ CallOf(req[r]) \in Call /\ CallOf(req[r]).op = OperationAt[req[r].pc]
      /\ CallOf(req[r]).node = req[r].mem.node /\ req[r].pc # "idle"
  BY OperationFields DEF SInv, SWell, Typed, MachineOK, SessionsOK
<1>2. RequestAlone(req[r], rt)
  BY <1>1 DEF SerialInv
<1>3. ASSUME NEW o, Answers(r, o)
      PROVE  LET n == req[r].mem.node IN
             /\ rt'.vpn \in {rt.vpn, NoNode, n}
             /\ MayRun(rt, n) => MayRun(rt', n)
             /\ o.ok /\ req[r].pc = "applyKillswitch" => MayRun(rt', n)
             /\ o.ok /\ req[r].pc = "removeKillswitch" => Bare(rt')
             /\ o.ok /\ req[r].pc = "deleteNamespace" => NothingButRules(rt')
  <2> DEFINE c == CallOf(req[r])
             n == req[r].mem.node
  <2>1. o \in Outcomes(c, rt) /\ rt' = o.rt
    BY <1>3 DEF Answers
  <2>2. /\ o.rt.vpn \in {rt.vpn, NoNode, c.node}
        /\ c.op = "applyKillswitch" /\ o.ok => o.rt.vpn = NoNode
        /\ c.op = "removeKillswitch" /\ o.ok => Bare(o.rt)
        /\ c.op = "deleteNamespace" /\ o.ok /\ Bare(rt) => NothingButRules(o.rt)
    BY <1>1, <2>1, TunnelStays
  <2>3. /\ req[r].pc = "applyKillswitch" => c.op = "applyKillswitch"
        /\ req[r].pc = "removeKillswitch" => c.op = "removeKillswitch"
        /\ req[r].pc = "deleteNamespace" => c.op = "deleteNamespace" /\ Bare(rt)
    BY <1>1, <1>2 DEF OperationAt, RequestAlone
  <2> HIDE DEF c
  <2>4. c.node = n
    BY <1>1 DEF c
  <2> QED BY <2>1, <2>2, <2>3, <2>4 DEF MayRun
<1> QED BY <1>1, <1>2, <1>3 DEF RequestAlone

LEMMA RequestGivesUpNot ==
    ASSUME SInv, NoneLate', NEW r \in Requests, InCall(req[r])
    PROVE  ~GiveUp(CallOf(req[r]))
BY OperationFields, NoGiveUp DEF SInv, SWell, Typed, SessionsOK

\* It awaits an answer and goes on.
LEMMA AwaitGoes ==
    ASSUME SInv, SerialInv, NoneLate', NEW r \in Requests, \A q \in Requests : q = r,
           InCall(req[r]), UNCHANGED job,
           NEW okPoint, NEW failPoint, AwaitThen(r, okPoint, failPoint),
           okPoint \notin {"idle", "delete", "commit", "deleteNamespace"},
           failPoint \notin {"idle", "delete", "commit", "deleteNamespace"},
           okPoint \in AfterGuard => req[r].pc \in AfterGuard \cup {"applyKillswitch"},
           failPoint \notin AfterGuard
    PROVE  SerialInv'
<1>1. ~GiveUp(CallOf(req[r]))
  BY RequestGivesUpNot
<1>2. PICK o : /\ Answers(r, o) /\ UNCHANGED <<up, row>>
               /\ \/ o.ok /\ Continue(r, okPoint, req[r].mem)
                  \/ Continue(r, failPoint, req[r].mem)
  BY <1>1, Zenon DEF AwaitThen, Await, AwaitCall, Answers
<1>3. /\ req[r].pc # "idle" /\ req[r].mem.node = row.col.node
      /\ rt'.vpn \in {rt.vpn, NoNode, row.col.node}
      /\ MayRun(rt, req[r].mem.node) => MayRun(rt', req[r].mem.node)
      /\ o.ok /\ req[r].pc = "applyKillswitch" => MayRun(rt', req[r].mem.node)
  BY <1>2, AnswerFacts
<1>4. req[r].pc \in AfterGuard => MayRun(rt, req[r].mem.node)
  BY <1>3 DEF SerialInv, RequestAlone
<1>5. CASE o.ok /\ Continue(r, okPoint, req[r].mem)
  BY <1>2, <1>3, <1>4, <1>5, RequestContinues
<1>6. CASE Continue(r, failPoint, req[r].mem)
  BY <1>2, <1>3, <1>6, RequestContinues
<1> QED BY <1>2, <1>5, <1>6

\* It is about to commit what it has found out, or a restart starts.
LEMMA SessionEndGoes ==
    ASSUME SInv, SerialInv, NoneLate', NEW r \in Requests, \A q \in Requests : q = r,
           req[r].pc # "idle", UNCHANGED <<up, row, job>>,
           rt' \in Runtime, rt'.vpn \in {rt.vpn, NoNode, row.col.node},
           \/ StartFailed(r) \/ StopFailed(r)
           \/ StartSucceeded(r) /\ MayRun(rt', req[r].mem.node)
           \/ StopSucceeded(r) /\ NothingButRules(rt')
    PROVE  SerialInv'
<1> DEFINE n == req[r].mem.node
<1>2. ASSUME NEW e, Continue(r, "commit", e), e.node = n,
             e.status = "STOPPED" => NothingButRules(rt'),
             e.status = "RUNNING" => MayRun(rt', n)
      PROVE  SerialInv'
  BY <1>2, RequestContinues DEF AfterGuard
<1>3. ASSUME NEW e, Continue(r, "createNamespace", e), e.node = n
      PROVE  SerialInv'
  BY <1>3, RequestContinues DEF AfterGuard
<1>4. NothingButRules(rt') => MayRun(rt', n)
  BY NothingIsBare DEF MayRun
<1>5. CASE StartFailed(r) \/ StopFailed(r)
  BY <1>2, <1>5, SessionEnds
<1>6. CASE StartSucceeded(r) /\ MayRun(rt', n)
  BY <1>2, <1>6, SessionEnds
<1>7. CASE StopSucceeded(r) /\ NothingButRules(rt')
  BY <1>2, <1>3, <1>4, <1>7, SessionEnds
<1> QED BY <1>5, <1>6, <1>7

\* A request that looks, with nothing moved.
LEMMA LookGoes ==
    ASSUME SInv, SerialInv, NoneLate', NEW r \in Requests, \A q \in Requests : q = r,
           UNCHANGED job, req[r].pc \in AfterGuard, UNCHANGED <<up, row, rt>>,
           \/ \E p \in AfterGuard \cup {"undoOpenvpn", "undoSocks"} :
                 Continue(r, p, req[r].mem)
           \/ StartSucceeded(r)
    PROVE  SerialInv'
<1>1. /\ req[r].pc # "idle" /\ MayRun(rt', req[r].mem.node)
      /\ rt'.vpn \in {rt.vpn, NoNode, row.col.node} /\ rt' \in Runtime
  BY DEF SerialInv, RequestAlone, AfterGuard, SInv, SWell, Typed, MachineOK, MayRun
<1>2. CASE StartSucceeded(r)
  BY <1>1, <1>2, SessionEndGoes
<1>3. ASSUME NEW p \in AfterGuard \cup {"undoOpenvpn", "undoSocks"},
             Continue(r, p, req[r].mem)
      PROVE  SerialInv'
  <2>1. p \notin {"idle", "delete", "deleteNamespace", "commit"}
    BY DEF AfterGuard
  <2> QED BY <1>1, <1>3, <2>1, RequestContinues
<1> QED BY <1>2, <1>3

LEMMA StartStepSerial ==
    ASSUME SInv, SerialInv, NoneLate', NEW r \in Requests, \A q \in Requests : q = r,
           UNCHANGED job,
           \/ CreateNamespace(r) \/ ApplyKillswitch(r) \/ StartOpenvpn(r)
           \/ SpawnOpenvpn(r) \/ AwaitTunnel(r) \/ ProbeExit(r) \/ StartSocks(r)
           \/ SpawnSocks(r) \/ AwaitSocks(r) \/ UndoSocks(r) \/ UndoApply(r)
    PROVE  SerialInv'

<1>1. CASE CreateNamespace(r)
  <2>1. req[r].pc = "createNamespace" /\ AwaitThen(r, "applyKillswitch", "undoNamespace")
    BY <1>1 DEF CreateNamespace, At
  <2> QED BY <2>1, AwaitGoes DEF AfterGuard, InCall, OperationAt
<1>2. CASE ApplyKillswitch(r)
  <2>1. req[r].pc = "applyKillswitch" /\ AwaitThen(r, "startOpenvpn", "undoApply")
    BY <1>2 DEF ApplyKillswitch, At
  <2> QED BY <2>1, AwaitGoes DEF AfterGuard, InCall, OperationAt
<1>3. CASE StartOpenvpn(r)
  <2>1. req[r].pc = "startOpenvpn" /\ AwaitThen(r, "spawnOpenvpn", "undoOpenvpn")
    BY <1>3 DEF StartOpenvpn, At
  <2> QED BY <2>1, AwaitGoes DEF AfterGuard, InCall, OperationAt
<1>4. CASE SpawnOpenvpn(r)
  <2>1. req[r].pc = "spawnOpenvpn" /\ AwaitThen(r, "awaitTunnel", "undoOpenvpn")
    BY <1>4 DEF SpawnOpenvpn, At
  <2> QED BY <2>1, AwaitGoes DEF AfterGuard, InCall, OperationAt
<1>5. CASE SpawnSocks(r)
  <2>1. req[r].pc = "spawnSocks" /\ AwaitThen(r, "awaitSocks", "undoSocks")
    BY <1>5 DEF SpawnSocks, At
  <2> QED BY <2>1, AwaitGoes DEF AfterGuard, InCall, OperationAt
<1>6. CASE UndoSocks(r)
  <2>1. req[r].pc = "undoSocks" /\ AwaitThen(r, "undoOpenvpn", "undoOpenvpn")
    BY <1>6 DEF UndoSocks, At
  <2> QED BY <2>1, AwaitGoes DEF AfterGuard, InCall, OperationAt
<1>7. CASE UndoApply(r)
  <2>1. req[r].pc = "undoApply" /\ AwaitThen(r, "undoNamespace", "undoNamespace")
    BY <1>7 DEF UndoApply, At
  <2> QED BY <2>1, AwaitGoes DEF AfterGuard, InCall, OperationAt
<1>8. CASE AwaitTunnel(r)
  <2>1. req[r].pc = "awaitTunnel" /\ UNCHANGED <<up, row, rt>>
        /\ (Continue(r, "probeExit", req[r].mem) \/ Continue(r, "undoOpenvpn", req[r].mem))
    BY <1>8 DEF AwaitTunnel, At, Look
  <2> QED BY <2>1, LookGoes DEF AfterGuard
<1>9. CASE ProbeExit(r)
  <2>1. req[r].pc = "probeExit" /\ UNCHANGED <<up, row, rt>>
        /\ (Continue(r, "startSocks", req[r].mem) \/ Continue(r, "undoOpenvpn", req[r].mem) \/ StartSucceeded(r))
    BY <1>9 DEF ProbeExit, At, Look
  <2> QED BY <2>1, LookGoes DEF AfterGuard
<1>10. CASE AwaitSocks(r)
  <2>1. req[r].pc = "awaitSocks" /\ UNCHANGED <<up, row, rt>>
        /\ (Continue(r, "undoSocks", req[r].mem) \/ Continue(r, "undoOpenvpn", req[r].mem) \/ StartSucceeded(r))
    BY <1>10 DEF AwaitSocks, At, Look
  <2> QED BY <2>1, LookGoes DEF AfterGuard
<1>11. CASE StartSocks(r)
  <2>1. req[r].pc = "startSocks"
    BY <1>11 DEF StartSocks, At
  <2>2. CASE AwaitThen(r, "spawnSocks", "undoSocks")
    BY <2>1, <2>2, AwaitGoes DEF AfterGuard, InCall, OperationAt
  <2>3. CASE UNCHANGED <<up, row, rt>> /\ Continue(r, "undoOpenvpn", req[r].mem)
    BY <2>1, <2>3, LookGoes DEF AfterGuard
  <2> QED BY <1>11, <2>2, <2>3 DEF StartSocks, Look
<1> QED BY <1>1, <1>2, <1>3, <1>4, <1>5, <1>6, <1>7, <1>8, <1>9, <1>10, <1>11

\* The end of a rollback, and a stop: the rules go only without a process, and the
\* namespace after the rules, so a stop that succeeds leaves no process.
LEMMA EndStepSerial ==
    ASSUME SInv, SerialInv, NoneLate', NEW r \in Requests, \A q \in Requests : q = r,
           UNCHANGED job,
           \/ UndoOpenvpn(r) \/ UndoKillswitch(r) \/ UndoNamespace(r)
           \/ StopSocks(r) \/ StopOpenvpn(r) \/ RemoveKillswitch(r)
           \/ DeleteNamespace(r)
    PROVE  SerialInv'
<1> DEFINE m == req[r].mem
           unmarked == [m EXCEPT !.active = FALSE]
<1>1. InCall(req[r]) /\ req[r].pc # "idle"
  BY DEF UndoOpenvpn, UndoKillswitch, UndoNamespace, StopSocks, StopOpenvpn,
         RemoveKillswitch, DeleteNamespace, At, InCall, OperationAt
<1>2. rt \in Runtime /\ m \in Columns
  BY <1>1, WaitingSession DEF SInv, SWell, Typed, MachineOK
<1>3. unmarked.node = m.node
  BY <1>2 DEF Columns
<1>4. ~GiveUp(CallOf(req[r]))
  BY <1>1, RequestGivesUpNot
<1> HIDE DEF unmarked
<1>5. ASSUME NEW o, Answers(r, o), UNCHANGED <<up, row>>,
             \/ StartFailed(r) \/ StopFailed(r)
             \/ StopSucceeded(r) /\ NothingButRules(rt')
      PROVE  SerialInv'
  <2>1. rt'.vpn \in {rt.vpn, NoNode, row.col.node}
    BY <1>1, <1>5, AnswerFacts
  <2>2. rt' \in Runtime
    BY <1>1, <1>5, OperationFields, OutcomesLawful
    DEF Answers, Outcome, SInv, SWell, Typed, MachineOK, SessionsOK
  <2> QED BY <1>1, <1>5, <2>1, <2>2, SessionEndGoes
<1>6. ASSUME NEW o, Answers(r, o), UNCHANGED <<up, row>>,
             NEW p \in {"undoKillswitch", "undoNamespace", "stopOpenvpn",
                        "removeKillswitch", "deleteNamespace"},
             NEW e, Continue(r, p, e), e.node = m.node,
             p = "deleteNamespace" => Bare(rt')
      PROVE  SerialInv'
  <2>1. rt'.vpn \in {rt.vpn, NoNode, row.col.node}
    BY <1>1, <1>6, AnswerFacts
  <2> QED BY <1>1, <1>6, <2>1, RequestContinues DEF AfterGuard

<1>7. CASE UndoOpenvpn(r)
  <2>1. PICK o : Answers(r, o) /\ UNCHANGED <<up, row>> /\ (Continue(r, "undoKillswitch", m) \/ StartFailed(r))
    BY <1>4, <1>7, Zenon DEF UndoOpenvpn, Await, AwaitCall, Answers
  <2> QED BY <1>5, <1>6, <2>1
<1>8. CASE UndoKillswitch(r)
  <2>1. PICK o : Answers(r, o) /\ UNCHANGED <<up, row>> /\ (Continue(r, "undoNamespace", m) \/ StartFailed(r))
    BY <1>4, <1>8, Zenon DEF UndoKillswitch, Await, AwaitCall, Answers
  <2> QED BY <1>5, <1>6, <2>1
<1>9. CASE UndoNamespace(r)
  <2>1. PICK o : Answers(r, o) /\ UNCHANGED <<up, row>> /\ StartFailed(r)
    BY <1>4, <1>9, Zenon DEF UndoNamespace, Await, AwaitCall, Answers
  <2> QED BY <1>5, <1>6, <2>1
<1>10. CASE StopOpenvpn(r)
  <2>1. PICK o : Answers(r, o) /\ UNCHANGED <<up, row>> /\ (Continue(r, "removeKillswitch", m) \/ StopFailed(r))
    BY <1>4, <1>10, Zenon DEF StopOpenvpn, Await, AwaitCall, Answers
  <2> QED BY <1>5, <1>6, <2>1
<1>11. CASE StopSocks(r)
  <2>1. PICK o : /\ Answers(r, o) /\ UNCHANGED <<up, row>>
                 /\ Continue(r, "stopOpenvpn", unmarked) \/ StopFailed(r)
    BY <1>4, <1>11, Zenon DEF StopSocks, Await, AwaitCall, Answers, unmarked
  <2> QED BY <1>3, <1>5, <1>6, <2>1
<1>12. CASE RemoveKillswitch(r)
  <2>1. PICK o : /\ Answers(r, o) /\ UNCHANGED <<up, row>>
                 /\ (o.ok /\ Continue(r, "deleteNamespace", m)) \/ StopFailed(r)
    BY <1>4, <1>12, Zenon DEF RemoveKillswitch, Await, AwaitCall, Answers
  <2>2. o.ok => Bare(rt')
    BY <1>1, <1>12, <2>1, AnswerFacts DEF RemoveKillswitch, At
  <2> QED BY <1>5, <1>6, <2>1, <2>2
<1>13. CASE DeleteNamespace(r)
  <2>1. PICK o : /\ Answers(r, o) /\ UNCHANGED <<up, row>>
                 /\ (o.ok /\ StopSucceeded(r)) \/ StopFailed(r)
    BY <1>4, <1>13, Zenon DEF DeleteNamespace, Await, AwaitCall, Answers
  <2>2. o.ok => NothingButRules(rt')
    BY <1>1, <1>13, <2>1, AnswerFacts DEF DeleteNamespace, At
  <2> QED BY <1>5, <2>1, <2>2
<1> QED BY <1>7, <1>8, <1>9, <1>10, <1>11, <1>12, <1>13

\* Nobody has written the row since the session loaded it.
LEMMA CommitSerial ==
    ASSUME SInv, SerialInv, NoneLate', NEW r \in Requests, \A q \in Requests : q = r,
           UNCHANGED job, Commit(r) \/ DeleteRow(r)
    PROVE  SerialInv'
<1>1. req[r].pc # "idle" /\ up' = up /\ rt' = rt
  BY DEF Commit, DeleteRow, At
<1>2. NoJob /\ NoJob'
  BY <1>1 DEF SerialInv, OneAtATime, Quiet, NoJob
<1>3. req' = [req EXCEPT ![r] = IdleRequest] /\ req \in [Requests -> Request] /\ RowOK
  BY DEF Commit, DeleteRow, SInv, SWell, Typed, SessionsOK
<1>4. \A q \in Requests : req'[q].pc = "idle"
  BY <1>3 DEF IdleRequest
<1>5. StoppedIsClean' /\ (row'.exists /\ row'.col.status = "RUNNING"
                                     => MayRun(rt', row'.col.node))
  <2>1. RequestAlone(req[r], rt)
    BY <1>1 DEF SerialInv
  <2>2. CASE Commit(r)
    <3>1. row'.col = Written(row.col, row.col, req[r].mem)
      <4>1. row' = [row EXCEPT !.col = Written(row.col, req[r].seen, req[r].mem)]
        BY <2>1, <2>2 DEF Commit, RequestAlone
      <4> QED BY <1>3, <2>1, <4>1 DEF RowOK, Row, RequestAlone
    <3>2. row'.exists = row.exists
      BY <1>3, <2>2 DEF Commit, RowOK, Row
    <3>3. row'.col.status = req[r].mem.status /\ row'.col.node = req[r].mem.node
      BY <3>1 DEF Written
    <3>4. req[r].pc = "commit"
      BY <2>2 DEF Commit, At
    <3>5. NothingButRules(rt) => NothingButRules(rt)'
      BY <1>1 DEF NothingButRules
    <3> QED BY <1>1, <2>1, <3>2, <3>3, <3>4, <3>5
        DEF StoppedIsClean, SaysStopped, RequestAlone
  <2>3. CASE DeleteRow(r)
    <3>1. row' = NoRow /\ NothingButRules(rt)
      BY <2>1, <2>3 DEF DeleteRow, At, RequestAlone
    <3> QED BY <1>1, <3>1 DEF StoppedIsClean, NoRow, NothingButRules
  <2> QED BY <2>2, <2>3
<1>6. OneAtATime' /\ up'
  BY <1>1, <1>4 DEF OneAtATime, Quiet, SerialInv
<1>7. (NoJob /\ row.exists /\ row.col.status = "RUNNING"
           => MayRun(rt, row.col.node))'
  BY <1>5 DEF MayRun
<1> QED BY <1>2, <1>4, <1>5, <1>6, <1>7 DEF SerialInv, NoJob

LEMMA ProgressSerial ==
    ASSUME SInv, SerialInv, NoneLate', NEW r \in Requests, \A q \in Requests : q = r,
           UNCHANGED job, Progress(r)
    PROVE  SerialInv'
BY StartStepSerial, EndStepSerial, CommitSerial DEF Progress

\* A request is accepted on a machine as the last one has left it.
LEMMA AcceptSerial ==
    ASSUME SInv, SerialInv, OneAtATime', NoneLate', NEW r \in Requests,
           \A q \in Requests : q = r, UNCHANGED job,
           NEW op, NEW status,
           NEW point \in {"createNamespace", "stopSocks", "stopOpenvpn", "delete"},
           point = "delete" => row.col.status = "STOPPED",
           Accept(r, op, status, point)
    PROVE  SerialInv'
<1> DEFINE x == [op |-> op, pc |-> point, endpoint |-> row.endpoint,
                 seen |-> row.col, mem |-> [row.col EXCEPT !.status = status]]
<1>1. /\ row.exists /\ up /\ req[r].pc = "idle" /\ UNCHANGED <<up, row, rt>>
      /\ req' = [req EXCEPT ![r] = x] /\ req \in [Requests -> Request]
      /\ row.col \in Columns
  BY DEF Accept, SInv, SWell, Typed, SessionsOK, RowOK, Row
<1>2. req'[r] = x
  BY <1>1
<1>3. x.pc = point /\ x.seen = row.col /\ x.mem.node = row.col.node
  BY <1>1 DEF Columns
<1> HIDE DEF x
<1>4. ~Quiet' /\ NoJob /\ NoJob'
  BY <1>2, <1>3 DEF Quiet, NoJob, OneAtATime
<1>5. point = "delete" => NothingButRules(rt)
  BY <1>1 DEF SerialInv, StoppedIsClean, SaysStopped, Quiet
<1>6. (\A z \in Requests : req[z].pc # "idle" => RequestAlone(req[z], rt))'
  <2>1. /\ x.pc \notin AfterGuard \cup {"deleteNamespace", "commit"}
        /\ x.pc = "delete" => NothingButRules(rt')
    BY <1>1, <1>3, <1>5 DEF AfterGuard
  <2>2. /\ req'[r].pc \notin AfterGuard \cup {"deleteNamespace", "commit"}
        /\ req'[r].pc = "delete" => NothingButRules(rt')
        /\ row'.exists /\ req'[r].seen = row'.col
        /\ req'[r].mem.node = row'.col.node
    BY <1>1, <1>2, <1>3, <2>1
  <2>3. RequestAlone(req[r], rt)'
    BY <2>2 DEF RequestAlone, NothingButRules
  <2> QED BY <2>3
<1>7. StoppedIsClean' /\ up'
  BY <1>1, <1>4 DEF StoppedIsClean, SerialInv
<1>8. (NoJob /\ row.exists /\ row.col.status = "RUNNING"
           => MayRun(rt, row.col.node))'
  BY <1>1, <1>4 DEF SerialInv, MayRun
<1> QED BY <1>4, <1>6, <1>7, <1>8 DEF SerialInv, NoJob

LEMMA ArriveSerial ==
    ASSUME SInv, SerialInv, OneAtATime', NoneLate', NEW r \in Requests,
           \A q \in Requests : q = r, UNCHANGED job, Arrive(r)
    PROVE  SerialInv'
<1>1. FirstStopPoint \in {"stopSocks", "stopOpenvpn"}
  BY DEF FirstStopPoint
<1>2. CASE AcceptStart(r)
  BY <1>2, AcceptSerial DEF AcceptStart
<1>3. CASE AcceptStop(r)
  BY <1>1, <1>3, AcceptSerial DEF AcceptStop
<1>4. CASE AcceptRestart(r)
  BY <1>1, <1>4, AcceptSerial DEF AcceptRestart
<1>5. CASE AcceptDelete(r)
  BY <1>5, AcceptSerial DEF AcceptDelete
<1> QED BY <1>2, <1>3, <1>4, <1>5 DEF Arrive

\* An id comes back only after its last connection has left no process.
LEMMA CreateSerial ==
    ASSUME SInv, SerialInv, NoneLate', UNCHANGED job, CreateConnection
    PROVE  SerialInv'
<1>1. /\ ~row.exists /\ UNCHANGED <<up, rt, req>>
      /\ row'.exists /\ row'.col.status = "STOPPED"
  BY DEF CreateConnection, NoColumns
<1>2. Quiet /\ NoJob
  BY <1>1 DEF SerialInv, RequestAlone, JobAlone, Quiet, NoJob
<1>3. Quiet' /\ NoJob' /\ OneAtATime'
  BY <1>1, <1>2 DEF Quiet, NoJob, OneAtATime
<1>4. NothingButRules(rt)
  BY <1>1, <1>2 DEF SerialInv, StoppedIsClean, SaysStopped
<1>5. NothingButRules(rt)'
  BY <1>1, <1>4 DEF NothingButRules
<1> QED BY <1>1, <1>2, <1>3, <1>5
    DEF SerialInv, StoppedIsClean, Quiet, NoJob

\* A process that ends takes nothing away that somebody counts on.
LEMMA ExitSerial ==
    ASSUME SInv, SerialInv, NoneLate', UNCHANGED job, OpenvpnExits \/ SocksExits
    PROVE  SerialInv'
<1>1. rt \in Runtime /\ UNCHANGED <<up, row, req>> /\ HasProcess(rt)
  BY DEF SInv, SWell, Typed, MachineOK, OpenvpnExits, SocksExits, HasProcess
<1>2. rt'.vpn \in {rt.vpn, NoNode}
  BY <1>1, WithoutVpnLawful, WithoutSocksLawful DEF OpenvpnExits, SocksExits
<1>3. ~NothingButRules(rt) /\ ~Bare(rt)
  BY <1>1, NothingIsBare DEF Bare
<1>4. \A n : MayRun(rt, n) => MayRun(rt', n)
  BY <1>2 DEF MayRun
<1>5. (\A r \in Requests : req[r].pc # "idle" => RequestAlone(req[r], rt))'
  <2> SUFFICES ASSUME NEW r \in Requests, req'[r].pc # "idle"
      PROVE  RequestAlone(req[r], rt)'
    OBVIOUS
  <2>1. req'[r] = req[r] /\ RequestAlone(req[r], rt)
    BY <1>1 DEF SerialInv
  <2>2. RequestAlone(req[r], rt')
    BY <1>3, <1>4, <2>1 DEF RequestAlone
  <2>3. req'[r].pc \notin {"deleteNamespace", "delete"}
    BY <1>3, <2>1 DEF RequestAlone
  <2>4. req'[r].pc = "commit" => req'[r].mem.status # "STOPPED"
    BY <1>3, <2>1 DEF RequestAlone
  <2> QED BY <1>1, <2>1, <2>2, <2>3, <2>4 DEF RequestAlone, MayRun
<1>6. (\A j \in Jobs : job[j].pc # "idle" => JobAlone(job[j], rt))'
  <2> SUFFICES ASSUME NEW j \in Jobs, job'[j].pc # "idle"
      PROVE  JobAlone(job[j], rt)'
    OBVIOUS
  <2>1. job'[j] = job[j] /\ JobAlone(job[j], rt)
    BY DEF SerialInv
  <2>2. JobAlone(job[j], rt')
    BY <1>4, <2>1 DEF JobAlone
  <2> QED BY <1>1, <2>1, <2>2 DEF JobAlone, MayRun
<1>7. StoppedIsClean'
  BY <1>1, <1>3 DEF SerialInv, StoppedIsClean, SaysStopped, Quiet
<1>8. (NoJob /\ row.exists /\ row.col.status = "RUNNING"
           => MayRun(rt, row.col.node))'
  <2>1. (NoJob' <=> NoJob) /\ UNCHANGED row
    BY <1>1 DEF NoJob
  <2>2. NoJob /\ row.exists /\ row.col.status = "RUNNING" => MayRun(rt', row.col.node)
    BY <1>4 DEF SerialInv
  <2> QED BY <2>1, <2>2 DEF MayRun
<1>9. OneAtATime' /\ up'
  BY <1>1 DEF SerialInv, OneAtATime, Quiet, NoJob
<1> QED BY <1>5, <1>6, <1>7, <1>8, <1>9 DEF SerialInv

LEMMA LifecycleSerial ==
    ASSUME SInv, SerialInv, OneAtATime', NoneLate', \A q, r \in Requests : q = r,
           Lifecycle(Serving)
    PROVE  SerialInv'
<1>1. UNCHANGED job /\ Serving
  BY DEF Lifecycle
<1>2. ASSUME NEW r \in Requests, Arrive(r) \/ Progress(r)
      PROVE  SerialInv'
  BY <1>1, <1>2, ArriveSerial, ProgressSerial
<1> QED BY <1>1, <1>2, CreateSerial, ExitSerial DEF Serving

-----------------------------------------------------------------------------
\* A job goes on.
LEMMA JobStep ==
    ASSUME SInv, SerialInv, Quiet, NEW j \in Jobs, \A i \in Jobs : i = j,
           UNCHANGED <<up, row, req>>, NoneLate',
           job'[j].pc # "idle", JobAlone(job'[j], rt')
    PROVE  SerialInv'
<1>1. Quiet'
  BY DEF Quiet
<1>2. (\A i \in Jobs : job[i].pc # "idle" => JobAlone(job[i], rt))'
  <2>1. JobAlone(job[j], rt)'
    BY DEF JobAlone, MayRun
  <2> QED BY <2>1
<1>3. ~SaysStopped' /\ ~NoJob'
  BY DEF JobAlone, SaysStopped, NoJob
<1>4. up'
  BY DEF SerialInv
<1> QED BY <1>1, <1>2, <1>3, <1>4 DEF SerialInv, OneAtATime, StoppedIsClean, Quiet

\* It ends, and has found out what the row says.
LEMMA JobOver ==
    ASSUME SInv, SerialInv, Quiet, NEW j \in Jobs, \A i \in Jobs : i = j,
           UNCHANGED <<up, rt, req>>, NoneLate', job'[j].pc = "idle",
           row'.exists, row'.col.status \in {"RUNNING", "FAILED"},
           row'.col.status = "RUNNING" => MayRun(rt, row'.col.node)
    PROVE  SerialInv'
<1>1. Quiet' /\ ~SaysStopped' /\ NoJob'
  BY DEF Quiet, SaysStopped, NoJob
<1>2. up'
  BY DEF SerialInv
<1>3. (NoJob /\ row.exists /\ row.col.status = "RUNNING"
           => MayRun(rt, row.col.node))'
  BY DEF MayRun
<1> QED BY <1>1, <1>2, <1>3 DEF SerialInv, OneAtATime, StoppedIsClean, Quiet, NoJob

LEMMA JobIsAlone ==
    ASSUME SInv, SerialInv, NEW j \in Jobs, job[j].pc # "idle"
    PROVE  Quiet /\ JobAlone(job[j], rt) /\ job[j] \in Job
BY JobFields DEF SerialInv, OneAtATime, SInv, SWell

LEMMA MoveGoes ==
    ASSUME SInv, SerialInv, NEW j \in Jobs, \A i \in Jobs : i = j,
           job[j].pc \notin {"idle", "settle"}, UNCHANGED <<up, row, req>>, NoneLate',
           NEW p, p \notin {"idle", "settle"}, Move(j, p),
           p \in BeforeHalt => job[j].pc \in BeforeHalt /\ rt'.vpn \in {rt.vpn, NoNode},
           p \in AfterReguard => MayRun(rt', job[j].candidate)
    PROVE  SerialInv'
<1>1. Quiet /\ JobAlone(job[j], rt) /\ job[j] \in Job
  BY JobIsAlone
<1>2. /\ job'[j].pc = p /\ job'[j].seen = job[j].seen /\ job'[j].mem = job[j].mem
      /\ job'[j].candidate = job[j].candidate
  BY <1>1 DEF Move, SInv, SWell, JobsOK, Job
<1>3. JobAlone(job'[j], rt')
  BY <1>1, <1>2 DEF JobAlone, MayRun
<1> QED BY <1>1, <1>2, <1>3, JobStep

\* The row goes back to FAILED, or to RUNNING on the candidate.
LEMMA SwitchOverGoes ==
    ASSUME SInv, SerialInv, NEW j \in Jobs, \A i \in Jobs : i = j,
           job[j].pc # "idle", UNCHANGED <<up, row, req>>, NoneLate',
           \/ SwitchFailed(j)
           \/ SwitchSucceeded(j) /\ MayRun(rt', job[j].candidate)
    PROVE  SerialInv'
<1> DEFINE failures == job[j].mem.failures + 1
           failed == [job[j].mem EXCEPT !.status = "FAILED", !.active = FALSE,
                                        !.failures = failures]
           running == [job[j].mem EXCEPT !.status = "RUNNING", !.failures = 0,
                                         !.active = job[j].resume,
                                         !.node = job[j].candidate]
<1>1. Quiet /\ JobAlone(job[j], rt) /\ job[j] \in Job /\ job[j].mem \in Columns
  BY JobIsAlone DEF Job
<1>2. ASSUME NEW m, SwitchEnds(j, m)
      PROVE  job'[j].pc = "settle" /\ job'[j].seen = job[j].seen /\ job'[j].mem = m
  BY <1>1, <1>2 DEF SwitchEnds, SInv, SWell, JobsOK, Job
<1>3. ASSUME NEW m, SwitchEnds(j, m), m.status \in {"RUNNING", "FAILED"},
             m.status = "RUNNING" => MayRun(rt', m.node)
      PROVE  SerialInv'
  <2>1. JobAlone(job'[j], rt')
    BY <1>1, <1>2, <1>3 DEF JobAlone, BeforeHalt, AfterReguard, Dialling
  <2> QED BY <1>1, <1>2, <1>3, <2>1, JobStep
<1>4. CASE SwitchFailed(j)
  <2> HIDE DEF failures
  <2>1. failed.status = "FAILED"
    BY <1>1 DEF Columns
  <2>2. SwitchEnds(j, failed)
    BY <1>4 DEF SwitchFailed, failures
  <2> HIDE DEF failed
  <2> QED BY <1>3, <2>1, <2>2
<1>5. CASE SwitchSucceeded(j) /\ MayRun(rt', job[j].candidate)
  <2>1. running.status = "RUNNING" /\ running.node = job[j].candidate
    BY <1>1 DEF Columns
  <2>2. SwitchEnds(j, running)
    BY <1>5 DEF SwitchSucceeded
  <2> HIDE DEF running
  <2> QED BY <1>3, <1>5, <2>1, <2>2
<1> QED BY <1>4, <1>5

\* A session that loaded the row commits over what it loaded.
LEMMA SaveWrites ==
    ASSUME RowOK, row.exists, NEW s, s.seen = row.col, Save(s)
    PROVE  /\ row'.exists
           /\ row'.col.status = s.mem.status /\ row'.col.node = s.mem.node
<1>1. row' = [row EXCEPT !.col = Written(row.col, row.col, s.mem)]
  BY DEF Save
<1>2. row'.col = Written(row.col, row.col, s.mem) /\ row'.exists
  BY <1>1 DEF RowOK, Row
<1> QED BY <1>2 DEF Written

LEMMA TurnGoes ==
    ASSUME SInv, SerialInv, Quiet, NEW j \in Jobs, \A i \in Jobs : i = j,
           NEW s \in Job, s.pc \in BeforeHalt, JobAlone(s, rt),
           NEW line, Turn(j, s, line), UNCHANGED <<up, rt, req>>, NoneLate'
    PROVE  SerialInv'
<1>1. s.mem.node = row.col.node /\ s.mem.status = row.col.status /\ row.exists
      /\ s.seen = row.col /\ row.col.status \in {"RUNNING", "FAILED"}
      /\ (row.col.status = "RUNNING" => MayRun(rt, row.col.node))
  BY DEF JobAlone, BeforeHalt
<1>2. job \in [Jobs -> Job] /\ RowOK
  BY DEF SInv, SWell, Typed, JobsOK
<1>3. CASE Refuse(j, s, line)
  <2>1. job'[j].pc = "idle"
    BY <1>2, <1>3 DEF Refuse, IdleJob
  <2>2. row' = row \/ Save(s)
    BY <1>3 DEF Refuse
  <2>3. /\ row'.exists /\ row'.col.status = row.col.status
        /\ row'.col.node = row.col.node
    BY <1>1, <1>2, <2>2, SaveWrites
  <2> QED BY <1>1, <2>1, <2>3, JobOver
<1>4. CASE ~Refuse(j, s, line)
  <2>1. PICK n \in Nodes :
            job' = [job EXCEPT ![j] =
                       [s EXCEPT !.candidate = n, !.resume = row.col.active,
                                 !.seen.active = row.col.active,
                                 !.mem.active = row.col.active,
                                 !.pc = IF row.col.active THEN "haltSocks"
                                        ELSE "verifyGuard"]]
    BY <1>4 DEF Turn
  <2>2. UNCHANGED row
    BY <1>4 DEF Turn
  <2>3. s.seen \in Columns /\ s.mem \in Columns
    BY DEF Job
  <2>4. /\ job'[j].pc \in {"haltSocks", "verifyGuard"}
        /\ job'[j].seen = [s.seen EXCEPT !.active = row.col.active]
        /\ job'[j].mem = [s.mem EXCEPT !.active = row.col.active]
    BY <1>2, <2>1 DEF Job
  <2>5. job'[j].seen = row.col
    BY <1>1, <2>3, <2>4 DEF Columns
  <2>6. job'[j].mem.node = row.col.node /\ job'[j].mem.status = row.col.status
    BY <1>1, <2>3, <2>4 DEF Columns
  <2>7. JobAlone(job'[j], rt')
    BY <1>1, <2>4, <2>5, <2>6 DEF JobAlone, AfterReguard, Dialling
  <2> QED BY <1>2, <2>2, <2>4, <2>7, JobStep
<1> QED BY <1>3, <1>4

LEMMA EnterGoes ==
    ASSUME SInv, SerialInv, Quiet, NEW j \in Jobs, \A i \in Jobs : i = j,
           NEW s \in Job, s.pc \in BeforeHalt, JobAlone(s, rt),
           Enter(j, s), UNCHANGED <<up, rt, req>>, NoneLate'
    PROVE  SerialInv'
<1>1. CASE lock = <<>>
  BY <1>1, TurnGoes DEF Enter
<1>2. CASE lock # <<>>
  <2>1. UNCHANGED row /\ job' = [job EXCEPT ![j] = [s EXCEPT !.pc = "queued"]]
    BY <1>2 DEF Enter
  <2>2. /\ job'[j].pc = "queued" /\ job'[j].seen = s.seen /\ job'[j].mem = s.mem
    BY <2>1 DEF SInv, SWell, JobsOK, Job
  <2>3. JobAlone(job'[j], rt')
    BY <2>2 DEF JobAlone, BeforeHalt, AfterReguard, Dialling, MayRun
  <2> QED BY <2>1, <2>2, <2>3, JobStep
<1> QED BY <1>1, <1>2

LEMMA LoadedAlone ==
    ASSUME SInv, SerialInv, NEW j \in Jobs, Idle(j), \A i \in Jobs : i = j,
           row.col.status \in {"RUNNING", "FAILED"},
           NEW kind \in {"manual", "health"}, NEW point \in {"queued", "observe"}
    PROVE  LET x == Loaded(kind, point) IN
           x \in Job /\ x.pc = point /\ x.kind = kind /\ JobAlone(x, rt)
<1> DEFINE x == Loaded(kind, point)
<1>1. row.col \in Columns
  BY DEF SInv, SWell, Typed, RowOK, Row
<1>2. IdleJob \in Job
  BY IdleJobOK
<1>3. /\ x \in Job /\ x.pc = point /\ x.kind = kind
      /\ x.seen = row.col /\ x.mem = row.col
  BY <1>1, <1>2 DEF Loaded, Job
<1> HIDE DEF x
<1>4. row.exists /\ (row.col.status = "RUNNING" => MayRun(rt, row.col.node))
  BY DEF Idle, SerialInv, NoJob
<1>5. JobAlone(x, rt)
  BY <1>3, <1>4 DEF JobAlone, AfterReguard, Dialling
<1> QED BY <1>3, <1>5 DEF x

\* While a request runs, a switch can only be refused at once.
LEMMA ArriveJobSerial ==
    ASSUME SInv, SerialInv, OneAtATime', NoneLate', NEW j \in Jobs, \A i \in Jobs : i = j,
           ArriveJob(j)
    PROVE  SerialInv'
<1>1. Idle(j) /\ UNCHANGED <<up, rt, req>> /\ NoJob
  BY DEF ArriveJob, AcceptSwitch, AcceptCheck, Idle, NoJob
<1>2. job \in [Jobs -> Job]
  BY DEF SInv, SWell, JobsOK
<1>3. CASE AcceptCheck(j)
  <2> DEFINE x == Loaded("health", "observe")
  <2>1. x.pc = "observe" /\ JobAlone(x, rt)
    BY <1>1, <1>3, LoadedAlone DEF AcceptCheck
  <2>2. job'[j] = x /\ UNCHANGED row
    BY <1>2, <1>3 DEF AcceptCheck
  <2> HIDE DEF x
  <2>3. Quiet
    BY <1>1, <2>1, <2>2 DEF OneAtATime, Quiet
  <2> QED BY <1>1, <1>2, <2>1, <2>2, <2>3, JobStep
<1>4. CASE AcceptSwitch(j) /\ Quiet
  <2>1. LET x == Loaded("manual", "queued") IN
        x \in Job /\ x.pc = "queued" /\ JobAlone(x, rt) /\ Enter(j, x)
    BY <1>1, <1>4, LoadedAlone DEF AcceptSwitch
  <2> QED BY <1>1, <1>4, <2>1, EnterGoes DEF BeforeHalt
<1>5. CASE AcceptSwitch(j) /\ ~Quiet
  <2> DEFINE x == Loaded("manual", "queued")
  <2>1. x \in Job /\ x.pc = "queued" /\ x.kind = "manual" /\ Enter(j, x)
    BY <1>1, <1>5, LoadedAlone DEF AcceptSwitch
  <2> HIDE DEF x
  <2>2. job'[j].pc = "idle"
    BY <1>1, <1>5 DEF OneAtATime, Quiet
  <2>3. Refuse(j, x, <<j>>)
    <3>1. \A y \in Job : job' = [job EXCEPT ![j] = y] => job'[j] = y
      BY <1>2
    <3>2. [x EXCEPT !.pc = "queued"].pc = "queued" /\ [x EXCEPT !.pc = "queued"] \in Job
      BY <2>1 DEF Job
    <3>3. Turn(j, x, <<j>>)
      BY <2>1, <2>2, <3>1, <3>2 DEF Enter
    <3>4. ASSUME NEW n \in Nodes, NEW y,
                 y = [x EXCEPT !.candidate = n, !.resume = row.col.active,
                               !.seen.active = row.col.active,
                               !.mem.active = row.col.active,
                               !.pc = IF row.col.active THEN "haltSocks"
                                      ELSE "verifyGuard"],
                 job' = [job EXCEPT ![j] = y]
          PROVE  FALSE
      <4>1. y.pc \in {"haltSocks", "verifyGuard"}
        BY <2>1, <3>4 DEF Job
      <4> QED BY <1>2, <2>2, <3>4, <4>1
    <3> QED BY <3>3, <3>4 DEF Turn
  <2>4. UNCHANGED row
    BY <2>1, <2>3 DEF Refuse
  <2>5. (\A r \in Requests : req[r].pc # "idle" => RequestAlone(req[r], rt))'
    BY <1>1, <2>4 DEF SerialInv, RequestAlone, MayRun, Bare, HasProcess, NothingButRules
  <2>6. StoppedIsClean'
    BY <1>1, <2>4 DEF SerialInv, StoppedIsClean, SaysStopped, Quiet, NothingButRules
  <2>7. (NoJob /\ row.exists /\ row.col.status = "RUNNING"
             => MayRun(rt, row.col.node))'
    BY <1>1, <2>4 DEF SerialInv, MayRun
  <2> QED BY <1>1, <1>2, <2>2, <2>5, <2>6, <2>7 DEF SerialInv
<1> QED BY <1>3, <1>4, <1>5 DEF ArriveJob

\* The health check.
LEMMA CheckStepSerial ==
    ASSUME SInv, SerialInv, NoneLate', NEW j \in Jobs, \A i \in Jobs : i = j,
           Observe(j) \/ Probe(j) \/ Judge(j) \/ WakeUp(j) \/ Settled(j)
    PROVE  SerialInv'
<1>1. /\ job[j].pc \in {"observe", "probe", "judge", "queued", "settle"}
      /\ UNCHANGED <<up, rt, req>>
  BY DEF Observe, Probe, Judge, WakeUp, Settled, JobAt, JobLook, Look
<1>2. Quiet /\ JobAlone(job[j], rt) /\ job[j] \in Job /\ RowOK
      /\ job \in [Jobs -> Job]
  BY <1>1, JobIsAlone DEF SInv, SWell, Typed, JobsOK
<1>3. /\ row.exists /\ job[j].seen = row.col
      /\ row.col.status \in {"RUNNING", "FAILED"}
      /\ job[j].pc # "settle" => /\ job[j].mem.node = row.col.node
                                 /\ job[j].mem.status = row.col.status
                                 /\ row.col.status = "RUNNING" =>
                                        MayRun(rt, row.col.node)
      /\ job[j].pc = "settle" =>
             /\ job[j].mem.status \in {"RUNNING", "FAILED"}
             /\ job[j].mem.status = "RUNNING" => MayRun(rt, job[j].mem.node)
  BY <1>1, <1>2 DEF JobAlone, BeforeHalt
<1>4. ASSUME UNCHANGED row, job[j].pc # "settle", Healthy(j) \/ Unhealthy(j)
      PROVE  SerialInv'
  <2>1. PICK n : Checked(j, n)
    BY <1>4 DEF Healthy, Unhealthy
  <2>2. /\ job'[j].pc = "judge" /\ job'[j].seen = job[j].seen
        /\ job'[j].mem = [job[j].mem EXCEPT !.failures = n]
    BY <1>2, <2>1 DEF Checked, Job
  <2>3. /\ job'[j].mem.node = job[j].mem.node
        /\ job'[j].mem.status = job[j].mem.status
    BY <1>2, <2>2 DEF Job, Columns
  <2>4. JobAlone(job'[j], rt')
    BY <1>1, <1>3, <1>4, <2>2, <2>3
    DEF JobAlone, AfterReguard, Dialling, MayRun
  <2> QED BY <1>1, <1>2, <1>4, <2>2, <2>4, JobStep
<1>5. CASE Observe(j) \/ Probe(j)
  <2>1. /\ UNCHANGED row /\ job[j].pc \in {"observe", "probe"}
        /\ Move(j, "probe") \/ Healthy(j) \/ Unhealthy(j)
    BY <1>5 DEF Observe, Probe, JobAt, JobLook, Look
  <2> QED BY <1>1, <1>2, <1>4, <2>1, MoveGoes
      DEF BeforeHalt, AfterReguard, Dialling
<1>6. CASE Judge(j)
  <2>1. job[j].pc = "judge"
    BY <1>6 DEF Judge, JobAt
  <2>2. CASE Enter(j, job[j])
    BY <1>1, <1>2, <2>1, <2>2, EnterGoes DEF BeforeHalt
  <2>3. CASE Save(job[j]) /\ job' = [job EXCEPT ![j] = IdleJob]
    <3>1. job'[j].pc = "idle"
      BY <1>2, <2>3 DEF IdleJob
    <3> QED BY <1>1, <1>2, <1>3, <2>1, <2>3, <3>1, SaveWrites, JobOver
  <2> QED BY <1>6, <2>2, <2>3 DEF Judge
<1>7. CASE WakeUp(j)
  BY <1>1, <1>2, <1>7, TurnGoes DEF WakeUp, JobAt, BeforeHalt
<1>8. CASE Settled(j)
  <2>1. job[j].pc = "settle" /\ Save(job[j]) /\ job' = [job EXCEPT ![j] = IdleJob]
    BY <1>8 DEF Settled, JobAt
  <2>2. job'[j].pc = "idle"
    BY <1>2, <2>1 DEF IdleJob
  <2> QED BY <1>1, <1>2, <1>3, <2>1, <2>2, SaveWrites, JobOver
<1> QED BY <1>5, <1>6, <1>7, <1>8

\* A job that runs alone has its answer.
LEMMA JobAnswerFacts ==
    ASSUME SInv, SerialInv, NoneLate', NEW j \in Jobs, JobInCall(job[j])
    PROVE  /\ ~GiveUp(JobCallOf(job[j]))
           /\ \A o : JobAnswers(j, o) =>
                 LET n == job[j].candidate IN
                 /\ job[j].pc \in BeforeHalt => rt'.vpn \in {rt.vpn, NoNode}
                 /\ job[j].pc \in AfterReguard => (MayRun(rt, n) => MayRun(rt', n))
                 /\ o.ok /\ job[j].pc = "reguard" => MayRun(rt', n)
<1>1. /\ job[j] \in Job /\ LateOK /\ rt \in Runtime /\ Tidy(rt)
      /\ JobCallOf(job[j]) \in Call
  BY JobFields, JobCallFields DEF SInv, SWell, Typed, MachineOK
<1>2. ~GiveUp(JobCallOf(job[j]))
  BY <1>1, NoGiveUp
<1>3. ASSUME NEW o, JobAnswers(j, o)
      PROVE  LET n == job[j].candidate IN
             /\ job[j].pc \in BeforeHalt => rt'.vpn \in {rt.vpn, NoNode}
             /\ job[j].pc \in AfterReguard => (MayRun(rt, n) => MayRun(rt', n))
             /\ o.ok /\ job[j].pc = "reguard" => MayRun(rt', n)
  <2> DEFINE c == JobCallOf(job[j])
             n == job[j].candidate
  <2>1. /\ rt'.vpn \in {rt.vpn, NoNode, c.node}
        /\ c.op # "spawnOpenvpn" => rt'.vpn \in {rt.vpn, NoNode}
        /\ c.op = "applyKillswitch" /\ o.ok => rt'.vpn = NoNode
    BY <1>1, <1>3, TunnelStays DEF JobAnswers
  <2>2. /\ job[j].pc \in BeforeHalt => c.op # "spawnOpenvpn"
        /\ job[j].pc = "reguard" => c.op = "applyKillswitch"
        /\ job[j].pc \in AfterReguard => c.node = n
    BY DEF JobInCall, JobCallOf, JobOperationAt, BeforeHalt, AfterReguard, Dialling
  <2> HIDE DEF c
  <2> QED BY <2>1, <2>2 DEF MayRun
<1> QED BY <1>2, <1>3

\* The switch: it dials where the kill switch has found no process.
LEMMA SwitchStepSerial ==
    ASSUME SInv, SerialInv, NoneLate', NEW j \in Jobs, \A i \in Jobs : i = j,
           \/ HaltSocks(j) \/ VerifyGuard(j) \/ HaltOpenvpn(j) \/ Reguard(j)
           \/ UndoReguard(j) \/ Restore(j) \/ UndoRestore(j)
           \/ Dial(j) \/ SpawnDial(j) \/ AwaitDial(j) \/ VerifyExit(j) \/ ResumeSocks(j)
           \/ SpawnResume(j) \/ AwaitResume(j) \/ UndoResume(j) \/ UndoDial(j)
    PROVE  SerialInv'
<1> DEFINE n == job[j].candidate
<1>1. job[j].pc \in {"haltSocks", "verifyGuard", "haltOpenvpn", "reguard", "undoReguard",
                     "restore", "undoRestore", "dial", "spawnDial", "awaitDial",
                     "verifyExit", "resumeSocks", "spawnResume", "awaitResume",
                     "undoResume", "undoDial"}
  BY DEF HaltSocks, VerifyGuard, HaltOpenvpn, Reguard, UndoReguard, Restore,
         UndoRestore, Dial, SpawnDial, AwaitDial, VerifyExit, ResumeSocks, SpawnResume,
         AwaitResume, UndoResume, UndoDial, JobAt
<1>2. job[j].pc \notin {"idle", "settle"}
  BY <1>1
<1>5. UNCHANGED <<up, row, req>>
  BY DEF HaltSocks, VerifyGuard, HaltOpenvpn, Reguard, UndoReguard, Restore,
         UndoRestore, Dial, SpawnDial, AwaitDial, VerifyExit, ResumeSocks, SpawnResume,
         AwaitResume, UndoResume, UndoDial, JobAwait, AwaitCall, JobLook, Look
<1>6. job[j].pc \in AfterReguard => MayRun(rt, n)
  BY <1>2, JobIsAlone DEF JobAlone
<1>7. ASSUME \/ SwitchFailed(j)
             \/ SwitchSucceeded(j) /\ MayRun(rt', n)
             \/ Move(j, "reguard") \/ Move(j, "undoReguard") \/ Move(j, "restore")
             \/ Move(j, "undoRestore") \/ Move(j, "undoDial") \/ Move(j, "undoResume")
      PROVE  SerialInv'
  <2>1. CASE SwitchFailed(j) \/ (SwitchSucceeded(j) /\ MayRun(rt', n))
    BY <1>2, <1>5, <2>1, SwitchOverGoes
  <2>2. ASSUME NEW p \in {"reguard", "undoReguard", "restore", "undoRestore",
                          "undoDial", "undoResume"}, Move(j, p)
        PROVE  SerialInv'
    <3>1. p \notin BeforeHalt \cup AfterReguard \cup {"idle", "settle"}
      BY DEF BeforeHalt, AfterReguard, Dialling
    <3> QED BY <1>2, <1>5, <2>2, <3>1, MoveGoes
  <2> QED BY <1>7, <2>1, <2>2
<1>8. ASSUME NEW p \in AfterReguard, Move(j, p), MayRun(rt', n) PROVE SerialInv'
  <2>1. p \notin BeforeHalt \cup {"idle", "settle"}
    BY DEF BeforeHalt, AfterReguard, Dialling
  <2> QED BY <1>2, <1>5, <1>8, <2>1, MoveGoes
<1>9. ASSUME NEW p \in {"verifyGuard", "haltOpenvpn"}, Move(j, p),
             job[j].pc \in BeforeHalt, rt'.vpn \in {rt.vpn, NoNode}
      PROVE  SerialInv'
  <2>1. p \notin AfterReguard \cup {"idle", "settle"}
    BY DEF AfterReguard, Dialling
  <2> QED BY <1>2, <1>5, <1>9, <2>1, MoveGoes

<1>10. CASE HaltSocks(j)
  <2>1. job[j].pc = "haltSocks" /\ JobInCall(job[j])
    BY <1>10, JobAtPoint DEF HaltSocks, JobInCall, JobOperationAt
  <2>2. ~GiveUp(JobCallOf(job[j]))
    BY <2>1, JobAnswerFacts
  <2>3. PICK o : JobAnswers(j, o) /\ (Move(j, "verifyGuard") \/ SwitchFailed(j))
    BY <1>10, <2>2, Zenon DEF HaltSocks, JobAwait, AwaitCall, JobAnswers
  <2>4. job[j].pc \in BeforeHalt /\ rt'.vpn \in {rt.vpn, NoNode}
    BY <2>1, <2>3, JobAnswerFacts DEF BeforeHalt
  <2> QED BY <1>7, <1>9, <2>3, <2>4
<1>11. CASE VerifyGuard(j)
  <2>1. job[j].pc = "verifyGuard" /\ UNCHANGED rt
        /\ (Move(j, "haltOpenvpn") \/ SwitchFailed(j))
    BY <1>11, JobAtPoint DEF VerifyGuard, JobLook, Look
  <2> QED BY <1>7, <1>9, <2>1 DEF BeforeHalt
<1>12. CASE HaltOpenvpn(j)
  <2>1. job[j].pc = "haltOpenvpn" /\ JobInCall(job[j])
    BY <1>12, JobAtPoint DEF HaltOpenvpn, JobInCall, JobOperationAt
  <2>2. ~GiveUp(JobCallOf(job[j]))
    BY <2>1, JobAnswerFacts
  <2>3. PICK o : JobAnswers(j, o) /\ (Move(j, "reguard") \/ SwitchFailed(j))
    BY <1>12, <2>2, Zenon DEF HaltOpenvpn, JobAwait, AwaitCall, JobAnswers
  <2> QED BY <1>7, <2>3
<1>13. CASE UndoReguard(j)
  <2>1. job[j].pc = "undoReguard" /\ JobInCall(job[j])
    BY <1>13, JobAtPoint DEF UndoReguard, JobInCall, JobOperationAt
  <2>2. ~GiveUp(JobCallOf(job[j]))
    BY <2>1, JobAnswerFacts
  <2>3. PICK o : JobAnswers(j, o) /\ (Move(j, "restore"))
    BY <1>13, <2>2, Zenon DEF UndoReguard, JobAwait, AwaitCall, JobAnswers
  <2> QED BY <1>7, <2>3
<1>14. CASE Restore(j)
  <2>1. job[j].pc = "restore" /\ JobInCall(job[j])
    BY <1>14, JobAtPoint DEF Restore, JobInCall, JobOperationAt
  <2>2. ~GiveUp(JobCallOf(job[j]))
    BY <2>1, JobAnswerFacts
  <2>3. PICK o : JobAnswers(j, o) /\ (SwitchFailed(j) \/ Move(j, "undoRestore"))
    BY <1>14, <2>2, Zenon DEF Restore, JobAwait, AwaitCall, JobAnswers
  <2> QED BY <1>7, <2>3
<1>15. CASE UndoRestore(j)
  <2>1. job[j].pc = "undoRestore" /\ JobInCall(job[j])
    BY <1>15, JobAtPoint DEF UndoRestore, JobInCall, JobOperationAt
  <2>2. ~GiveUp(JobCallOf(job[j]))
    BY <2>1, JobAnswerFacts
  <2>3. PICK o : JobAnswers(j, o) /\ (SwitchFailed(j))
    BY <1>15, <2>2, Zenon DEF UndoRestore, JobAwait, AwaitCall, JobAnswers
  <2> QED BY <1>7, <2>3
<1>16. CASE UndoResume(j)
  <2>1. job[j].pc = "undoResume" /\ JobInCall(job[j])
    BY <1>16, JobAtPoint DEF UndoResume, JobInCall, JobOperationAt
  <2>2. ~GiveUp(JobCallOf(job[j]))
    BY <2>1, JobAnswerFacts
  <2>3. PICK o : JobAnswers(j, o) /\ (Move(j, "undoDial"))
    BY <1>16, <2>2, Zenon DEF UndoResume, JobAwait, AwaitCall, JobAnswers
  <2> QED BY <1>7, <2>3
<1>17. CASE UndoDial(j)
  <2>1. job[j].pc = "undoDial" /\ JobInCall(job[j])
    BY <1>17, JobAtPoint DEF UndoDial, JobInCall, JobOperationAt
  <2>2. ~GiveUp(JobCallOf(job[j]))
    BY <2>1, JobAnswerFacts
  <2>3. PICK o : JobAnswers(j, o) /\ (SwitchFailed(j))
    BY <1>17, <2>2, Zenon DEF UndoDial, JobAwait, AwaitCall, JobAnswers
  <2> QED BY <1>7, <2>3
<1>18. CASE Reguard(j)
  <2>1. job[j].pc = "reguard" /\ JobInCall(job[j])
    BY <1>18, JobAtPoint DEF Reguard, JobInCall, JobOperationAt
  <2>2. ~GiveUp(JobCallOf(job[j]))
    BY <2>1, JobAnswerFacts
  <2>3. PICK o : JobAnswers(j, o) /\ ((o.ok /\ Move(j, "dial")) \/ Move(j, "undoReguard"))
    BY <1>18, <2>2, Zenon DEF Reguard, JobAwait, AwaitCall, JobAnswers
  <2>4. o.ok => MayRun(rt', n)
    BY <2>1, <2>3, JobAnswerFacts
  <2> QED BY <1>7, <1>8, <2>3, <2>4 DEF AfterReguard, Dialling
<1>19. CASE Dial(j)
  <2>1. job[j].pc = "dial" /\ JobInCall(job[j])
    BY <1>19, JobAtPoint DEF Dial, JobInCall, JobOperationAt
  <2>2. ~GiveUp(JobCallOf(job[j]))
    BY <2>1, JobAnswerFacts
  <2>3. PICK o : JobAnswers(j, o) /\ (Move(j, "spawnDial") \/ Move(j, "undoDial"))
    BY <1>19, <2>2, Zenon DEF Dial, JobAwait, AwaitCall, JobAnswers
  <2>4. job[j].pc \in AfterReguard
    BY <2>1 DEF AfterReguard, Dialling
  <2>5. MayRun(rt', n)
    BY <1>6, <2>1, <2>3, <2>4, JobAnswerFacts
  <2> QED BY <1>7, <1>8, <2>3, <2>5 DEF AfterReguard, Dialling
<1>20. CASE SpawnDial(j)
  <2>1. job[j].pc = "spawnDial" /\ JobInCall(job[j])
    BY <1>20, JobAtPoint DEF SpawnDial, JobInCall, JobOperationAt
  <2>2. ~GiveUp(JobCallOf(job[j]))
    BY <2>1, JobAnswerFacts
  <2>3. PICK o : JobAnswers(j, o) /\ (Move(j, "awaitDial") \/ Move(j, "undoDial"))
    BY <1>20, <2>2, Zenon DEF SpawnDial, JobAwait, AwaitCall, JobAnswers
  <2>4. job[j].pc \in AfterReguard
    BY <2>1 DEF AfterReguard, Dialling
  <2>5. MayRun(rt', n)
    BY <1>6, <2>1, <2>3, <2>4, JobAnswerFacts
  <2> QED BY <1>7, <1>8, <2>3, <2>5 DEF AfterReguard, Dialling
<1>21. CASE SpawnResume(j)
  <2>1. job[j].pc = "spawnResume" /\ JobInCall(job[j])
    BY <1>21, JobAtPoint DEF SpawnResume, JobInCall, JobOperationAt
  <2>2. ~GiveUp(JobCallOf(job[j]))
    BY <2>1, JobAnswerFacts
  <2>3. PICK o : JobAnswers(j, o) /\ (Move(j, "awaitResume") \/ Move(j, "undoResume"))
    BY <1>21, <2>2, Zenon DEF SpawnResume, JobAwait, AwaitCall, JobAnswers
  <2>4. job[j].pc \in AfterReguard
    BY <2>1 DEF AfterReguard, Dialling
  <2>5. MayRun(rt', n)
    BY <1>6, <2>1, <2>3, <2>4, JobAnswerFacts
  <2> QED BY <1>7, <1>8, <2>3, <2>5 DEF AfterReguard, Dialling
<1>22. CASE AwaitDial(j)
  <2>1. job[j].pc = "awaitDial" /\ UNCHANGED rt /\ (Move(j, "verifyExit") \/ Move(j, "undoDial"))
    BY <1>22, JobAtPoint DEF AwaitDial, JobLook, Look
  <2>2. job[j].pc \in AfterReguard
    BY <2>1 DEF AfterReguard, Dialling
  <2>3. MayRun(rt', n)
    BY <1>6, <2>1, <2>2 DEF MayRun
  <2> QED BY <1>7, <1>8, <2>1, <2>3 DEF AfterReguard, Dialling
<1>23. CASE VerifyExit(j)
  <2>1. job[j].pc = "verifyExit" /\ UNCHANGED rt /\ (Move(j, "resumeSocks") \/ SwitchSucceeded(j) \/ Move(j, "undoDial"))
    BY <1>23, JobAtPoint DEF VerifyExit, JobLook, Look
  <2>2. job[j].pc \in AfterReguard
    BY <2>1 DEF AfterReguard, Dialling
  <2>3. MayRun(rt', n)
    BY <1>6, <2>1, <2>2 DEF MayRun
  <2> QED BY <1>7, <1>8, <2>1, <2>3 DEF AfterReguard, Dialling
<1>24. CASE AwaitResume(j)
  <2>1. job[j].pc = "awaitResume" /\ UNCHANGED rt /\ (SwitchSucceeded(j) \/ Move(j, "undoResume") \/ Move(j, "undoDial"))
    BY <1>24, JobAtPoint DEF AwaitResume, JobLook, Look
  <2>2. job[j].pc \in AfterReguard
    BY <2>1 DEF AfterReguard, Dialling
  <2>3. MayRun(rt', n)
    BY <1>6, <2>1, <2>2 DEF MayRun
  <2> QED BY <1>7, <1>8, <2>1, <2>3 DEF AfterReguard, Dialling
<1>25. CASE ResumeSocks(j)
  <2>1. job[j].pc = "resumeSocks" /\ JobInCall(job[j])
    BY <1>25, JobAtPoint DEF ResumeSocks, JobInCall, JobOperationAt
  <2>2. MayRun(rt, n) /\ job[j].pc \in AfterReguard
    BY <1>6, <2>1 DEF AfterReguard
  <2>3. CASE JobAwait(j, Move(j, "spawnResume"), Move(j, "undoResume"))
    <3>1. ~GiveUp(JobCallOf(job[j]))
      BY <2>1, JobAnswerFacts
    <3>2. PICK o : JobAnswers(j, o) /\ (Move(j, "spawnResume") \/ Move(j, "undoResume"))
      BY <2>3, <3>1, Zenon DEF JobAwait, AwaitCall, JobAnswers
    <3>3. MayRun(rt', n)
      BY <2>1, <2>2, <3>2, JobAnswerFacts
    <3> QED BY <1>7, <1>8, <3>2, <3>3 DEF AfterReguard
  <2>4. CASE Move(j, "undoDial")
    BY <1>7, <2>4
  <2> QED BY <1>25, <2>3, <2>4 DEF ResumeSocks, JobLook, Look
<1> QED BY <1>10, <1>11, <1>12, <1>13, <1>14, <1>15, <1>16, <1>17, <1>18, <1>19, <1>20, <1>21, <1>22, <1>23, <1>24, <1>25

LEMMA SerialKept ==
    ASSUME SInv, SerialInv, [SerialNext]_<<allVars, raced>>,
           \A q, r \in Requests : q = r, \A i, j \in Jobs : i = j
    PROVE  SerialInv'
<1>1. CASE Lifecycle(Serving) /\ OneAtATime' /\ NoneLate'
  BY <1>1, LifecycleSerial
<1>2. CASE Switching /\ OneAtATime' /\ NoneLate'
  <2>1. PICK j \in Jobs : ArriveJob(j) \/ ProgressJob(j)
    BY <1>2 DEF Switching
  <2> QED BY <1>2, <2>1, ArriveJobSerial, CheckStepSerial, SwitchStepSerial DEF ProgressJob
<1>3. CASE UNCHANGED <<up, row, rt, req, job, late>>
  <2>1. OneAtATime' /\ up' /\ NoneLate' /\ StoppedIsClean'
    BY <1>3 DEF SerialInv, OneAtATime, StoppedIsClean, Quiet, SaysStopped, NoneLate,
                NothingButRules
  <2>2. (\A r \in Requests : req[r].pc # "idle" => RequestAlone(req[r], rt))'
    BY <1>3 DEF SerialInv, RequestAlone, MayRun, Bare, HasProcess, NothingButRules
  <2>3. (\A j \in Jobs : job[j].pc # "idle" => JobAlone(job[j], rt))'
    BY <1>3 DEF SerialInv, JobAlone, MayRun
  <2>4. (NoJob /\ row.exists /\ row.col.status = "RUNNING"
             => MayRun(rt, row.col.node))'
    BY <1>3 DEF SerialInv, NoJob, MayRun
  <2> QED BY <2>1, <2>2, <2>3, <2>4 DEF SerialInv
<1> QED BY <1>1, <1>2, <1>3 DEF SerialNext, Age, allVars, vars

LEMMA SerialInit ==
    ASSUME SwitchInit
    PROVE  SerialInv
<1>1. Quiet /\ NoJob /\ up /\ NoneLate /\ rt = CleanRuntime /\ ~row.exists
  BY DEF SwitchInit, Init, Quiet, NoJob, IdleRequest, IdleJob, NoRow, NoneLate
<1>2. NothingButRules(rt)
  <2>1. /\ CleanRuntime \in Runtime /\ CleanRuntime.ns = FALSE
        /\ CleanRuntime.ks = NoNode /\ CleanRuntime.nsRules = FALSE
        /\ CleanRuntime.vpn = NoNode /\ CleanRuntime.socks = FALSE
        /\ CleanRuntime.orphaned = FALSE
    BY DEF CleanRuntime, Runtime
  <2> QED BY <1>1, <2>1, NothingLeft
<1> QED BY <1>1, <1>2 DEF SerialInv, OneAtATime, StoppedIsClean, Quiet, NoJob

\* One request and one job at a time, in any order, while the service keeps
\* running and every helper ends before its call: what the row says of the machine
\* is true whenever nobody works on it (ConnectionLifecycleService.stop,
\* delete_connection, ConnectionSwitchService.switch).
LEMMA SerialInvariance ==
    ASSUME \A q, r \in Requests : q = r, \A i, j \in Jobs : i = j
    PROVE  SerialSpec => []SerialInv
<1>1. SwitchInit => SInv /\ SerialInv
  BY InitSInv, SerialInit
<1>2. SInv /\ SerialInv /\ [SerialNext]_<<allVars, raced>> => SInv' /\ SerialInv'
  <2> SUFFICES ASSUME SInv, SerialInv, [SerialNext]_<<allVars, raced>>
      PROVE  SInv' /\ SerialInv'
    OBVIOUS
  <2>1. [SwitchNext]_<<allVars, raced>>
    BY DEF SerialNext, SwitchNext, Lifecycle
  <2> QED BY <2>1, SwitchNextSound, SerialKept
<1>3. SerialSpec => SwitchInit /\ [][SerialNext]_<<allVars, raced>>
  BY PTL DEF SerialSpec
<1> QED BY <1>1, <1>2, <1>3, PTL

\* A row that says STOPPED, or no row, means that no process, no state file and no
\* namespace is on the machine, whichever helpers failed before; what the helper
\* could not list, the host rules, may still be there (delete_connection counts
\* on it).
THEOREM StoppedLeavesNothing ==
    ASSUME \A q, r \in Requests : q = r, \A i, j \in Jobs : i = j
    PROVE  SerialSpec => []StoppedIsClean
BY SerialInvariance, SerialProperties, PTL

\* A row that says RUNNING names the node of the tunnel, if there is one,
\* although a switch commits a row that it has loaded before its first await.
THEOREM RowIsTrue ==
    ASSUME \A q, r \in Requests : q = r, \A i, j \in Jobs : i = j
    PROVE  SerialSpec => []RowNamesTunnel
BY SerialInvariance, SerialProperties, PTL
=============================================================================

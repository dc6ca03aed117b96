-------------------------- MODULE HelperProcesses --------------------------
(***************************************************************************)
(* Root helpers of one connection that overlap.  RootHelper takes each     *)
(* operation as one step; here it is what it is, a short-lived process     *)
(* that looks, decides and acts command by command, beside other helpers   *)
(* of the same connection: requests take no lock, and the executor kills   *)
(* sudo at its timeout, not the helper, which goes on while the service    *)
(* already calls the next one.                                             *)
(*                                                                         *)
(* The connection has no SOCKS endpoint, and the firewall is nftables.     *)
(***************************************************************************)
EXTENDS RootHelper

CONSTANTS
    Helpers,   \* the helper processes that may run at once
    Pids,      \* process ids of OpenVPN
    NoPid      \* no pid file, no process

ASSUME PidsAssumption == NoPid \notin Pids

VARIABLES
    m,           \* the machine: files, rules, processes
    helper,      \* per helper: operation, place in it, what it has read
    overlapped,  \* two helpers have run at once
    startRaced   \* a start has run beside another helper

vars == <<m, helper, overlapped, startRaced>>

Dead == [node |-> NoNode, home |-> FALSE]

\* fw and staged: the node in the firewall state file and in the staged
\* configuration; hostRules, nsRules: the nodes whose servers the tables let
\* through, empty without a table; pidFile: the process that the pid file names.
\* A process is home while the namespace it runs in still has its name.
Machine ==
    [ns: BOOLEAN, fw: Nodes \cup {NoNode}, staged: Nodes \cup {NoNode},
     hostRules: SUBSET Nodes, nsRules: SUBSET Nodes, pidFile: Pids \cup {NoPid},
     vpn: [Pids -> [node: Nodes \cup {NoNode}, home: BOOLEAN]]]

Operations == {"add", "delete", "apply", "remove", "start", "stop", "purge"}

\* Where a helper of an operation may be; "idle" for one that does not run.
PlacesOf ==
    [none   |-> {"idle"},
     add    |-> {"add"},
     delete |-> {"delete"},
     apply  |-> {"check", "clear", "forget", "write", "inside", "outside",
                 "verify", "undo", "unwrite"},
     remove |-> {"look", "clean", "forget"},
     start  |-> {"guarded", "running", "stage", "spawn"},
     stop   |-> {"find", "term", "poll", "deadline", "kill", "unlink"},
     purge  |-> {"find", "term", "poll", "deadline", "kill", "unlink",
                 "drop", "forget", "unname"}]

Helper ==
    [op: Operations \cup {"none"}, node: Nodes \cup {NoNode},
     at: UNION {PlacesOf[op] : op \in Operations \cup {"none"}},
     pid: Pids \cup {NoPid}, before: Runtime, ok: BOOLEAN]

Idle ==
    [op |-> "none", node |-> NoNode, at |-> "idle", pid |-> NoPid,
     before |-> CleanRuntime, ok |-> TRUE]

Live == {p \in Pids : m.vpn[p].node # NoNode}

\* _managed_openvpn_pid: the process that the pid file names, if it lives.
Managed == IF m.pidFile \in Live THEN m.pidFile ELSE NoPid

\* _killswitch_active for nftables: both tables are listed, whatever they hold.
Active == m.fw # NoNode /\ m.ns /\ m.hostRules # {} /\ m.nsRules # {}

\* The machine as RootHelper sees it.
Image ==
    [ns |-> m.ns, ks |-> m.fw, hostRules |-> m.hostRules # {},
     nsRules |-> m.nsRules # {},
     vpn |-> IF Managed = NoPid THEN NoNode ELSE m.vpn[Managed].node,
     socks |-> FALSE, orphaned |-> Managed # NoPid /\ ~m.vpn[Managed].home]

Busy(g) == helper[g].at # "idle"

Init ==
    /\ m = [ns |-> FALSE, fw |-> NoNode, staged |-> NoNode, hostRules |-> {},
            nsRules |-> {}, pidFile |-> NoPid, vpn |-> [p \in Pids |-> Dead]]
    /\ helper = [h \in Helpers |-> Idle]
    /\ overlapped = FALSE
    /\ startRaced = FALSE

-----------------------------------------------------------------------------
\* How a helper moves.

First ==
    [add |-> "add", delete |-> "delete", apply |-> "check", remove |-> "look",
     start |-> "guarded", stop |-> "find", purge |-> "find"]

\* A helper is called.  TLC follows a behaviour no further once a start has
\* raced, since no property speaks of what comes after.
Begin(h) ==
    /\ ~Busy(h)
    /\ ~startRaced
    /\ \E op \in Operations, n \in Nodes :
          /\ helper' = [helper EXCEPT ![h] =
                [Idle EXCEPT !.op = op, !.at = First[op],
                             !.node = IF op \in {"apply", "start"} THEN n ELSE NoNode,
                             !.before = IF overlapped THEN CleanRuntime ELSE Image]]
          /\ overlapped' = (overlapped \/ \E g \in Helpers : Busy(g))
          /\ startRaced' = \E g \in Helpers :
                              Busy(g) /\ (op = "start" \/ helper[g].op = "start")
    /\ UNCHANGED m

At(h, place) == helper[h].at = place

Goto(h, place) ==
    /\ helper' = [helper EXCEPT ![h] = [@ EXCEPT !.at = place]]
    /\ UNCHANGED <<overlapped, startRaced>>

\* The helper exits; its exit code is all that is left of it.
Exit(h, ok) ==
    /\ helper' = [helper EXCEPT ![h] = [Idle EXCEPT !.ok = ok]]
    /\ UNCHANGED <<overlapped, startRaced>>

\* Any command may fail, any file may be refused, and a helper may be killed
\* between two commands.
Abort(h) == Busy(h) /\ Exit(h, FALSE) /\ UNCHANGED m

-----------------------------------------------------------------------------
\* NAMESPACE_ADD and NAMESPACE_DELETE: one ip command each.

AddNamespace(h) ==
    /\ At(h, "add")
    /\ m' = IF m.ns THEN m ELSE [m EXCEPT !.ns = TRUE, !.nsRules = {}]
    /\ Exit(h, ~m.ns)

\* The processes inside go on in a namespace that has no name any more.
Unnamed ==
    [m EXCEPT !.ns = FALSE, !.nsRules = {},
              !.vpn = IF m.ns THEN [p \in Pids |-> [m.vpn[p] EXCEPT !.home = FALSE]]
                      ELSE m.vpn]

DeleteNamespace(h) ==
    /\ At(h, "delete") \/ At(h, "unname")
    /\ m' = Unnamed
    /\ Exit(h, TRUE)

-----------------------------------------------------------------------------
\* _apply_killswitch, _remove_killswitch and the rules of a purge.

\* _cleanup_nft_rules: both tables are deleted, either command may fail.
Cleaned ==
    {[m EXCEPT !.hostRules = r, !.nsRules = s] :
        r \in {{}, m.hostRules}, s \in {{}, m.nsRules}}

\* What _nft_rules_present may answer: a table is there if its list command says
\* so, and a command that fails or times out says that it is not.
RulesPresent(machine) ==
    {FALSE, machine.hostRules # {}, machine.nsRules # {}}

\* A cleanup, and the look at what is left; residue that is seen ends the helper.
CleanThen(h, place) ==
    \E c \in Cleaned : \E residue \in RulesPresent(c) :
        /\ m' = c
        /\ IF residue THEN Exit(h, FALSE) ELSE Goto(h, place)

Check(h) ==
    /\ At(h, "check")
    /\ IF m.ns /\ Managed = NoPid THEN Goto(h, "clear") ELSE Exit(h, FALSE)
    /\ UNCHANGED m

Clear(h) ==
    /\ At(h, "clear")
    /\ IF m.fw = NoNode
       THEN Goto(h, "write") /\ UNCHANGED m
       ELSE CleanThen(h, "forget")

\* _delete_firewall_state, then what comes after it in each operation.
Forget(h) ==
    /\ At(h, "forget")
    /\ m' = [m EXCEPT !.fw = NoNode]
    /\ CASE helper[h].op = "apply"  -> Goto(h, "write")
         [] helper[h].op = "remove" -> Exit(h, TRUE)
         [] helper[h].op = "purge"  -> Goto(h, "unname")

Write(h) ==
    /\ At(h, "write")
    /\ m' = [m EXCEPT !.fw = helper[h].node]
    /\ Goto(h, "inside")

\* _apply_nft_rules cleans up without a check and loads the script of the
\* namespace, then the one of the host.  Loading adds to a table that exists.
Inside(h) ==
    /\ At(h, "inside")
    /\ \E c \in Cleaned :
          \/ /\ c.ns
             /\ m' = [c EXCEPT !.nsRules = @ \cup {helper[h].node}]
             /\ Goto(h, "outside")
          \/ m' = c /\ Goto(h, "undo")

Outside(h) ==
    /\ At(h, "outside")
    /\ \/ /\ m' = [m EXCEPT !.hostRules = @ \cup {helper[h].node}]
          /\ Goto(h, "verify")
       \/ m' = m /\ Goto(h, "undo")

\* The list commands may fail here, too.
Verify(h) ==
    /\ At(h, "verify")
    /\ (Active /\ Exit(h, TRUE)) \/ Goto(h, "undo")
    /\ UNCHANGED m

Undo(h) == At(h, "undo") /\ CleanThen(h, "unwrite")

Unwrite(h) ==
    /\ At(h, "unwrite")
    /\ m' = [m EXCEPT !.fw = NoNode]
    /\ Exit(h, FALSE)

\* A removal that does not look for a managed process (for the mutants).
LookNowhere(h) == At(h, "look") /\ Goto(h, "clean") /\ UNCHANGED m

\* _remove_killswitch looks for managed processes, then reads the state file.
Look(h) ==
    /\ At(h, "look")
    /\ IF Managed = NoPid THEN Goto(h, "clean") ELSE Exit(h, FALSE)
    /\ UNCHANGED m

Clean(h) ==
    /\ At(h, "clean")
    /\ IF m.fw = NoNode
       THEN Exit(h, TRUE) /\ UNCHANGED m
       ELSE CleanThen(h, "forget")

-----------------------------------------------------------------------------
\* OPENVPN_START: execute asks for the kill switch of the node, _start_openvpn
\* for a running process; then the configuration is staged and OpenVPN started.

\* A start that takes the kill switch of any node (for the mutants).
GuardedByAny(h) ==
    /\ At(h, "guarded")
    /\ IF Active THEN Goto(h, "running") ELSE Exit(h, FALSE)
    /\ UNCHANGED m

AskGuard(h) ==
    /\ At(h, "guarded")
    /\ IF Active /\ m.fw = helper[h].node THEN Goto(h, "running") ELSE Exit(h, FALSE)
    /\ UNCHANGED m

AskRunning(h) ==
    /\ At(h, "running")
    /\ IF Managed = NoPid THEN Goto(h, "stage") ELSE Exit(h, TRUE)
    /\ UNCHANGED m

Stage(h) ==
    /\ At(h, "stage")
    /\ m' = [m EXCEPT !.staged = helper[h].node]
    /\ Goto(h, "spawn")

\* OpenVPN reads the staged file when it starts, daemonises and writes its pid.
\* The command may fail without one, or its timeout may hide that it started.
Spawn(h) ==
    /\ At(h, "spawn")
    /\ \/ /\ m.ns /\ m.staged # NoNode
          /\ \E p \in Pids \ (Live \cup {m.pidFile}) :
                LET started ==
                      [m EXCEPT !.pidFile = p,
                                !.vpn = [m.vpn EXCEPT ![p] =
                                            [node |-> m.staged, home |-> TRUE]]]
                IN  \/ m' = started /\ Exit(h, TRUE)
                    \/ m' = [started EXCEPT !.staged = NoNode] /\ Exit(h, FALSE)
       \/ m' = [m EXCEPT !.staged = NoNode] /\ Exit(h, FALSE)

-----------------------------------------------------------------------------
\* _stop_openvpn, alone or as the first part of _purge_connection: SIGTERM, up to
\* a deadline a look every 100 ms, then SIGKILL if the pid file has not changed.

\* A stop that does not return where a purge goes on (for the mutants).
StoppedGoesOn(h) == Goto(h, "drop")

Stopped(h) == IF helper[h].op = "stop" THEN Exit(h, TRUE) ELSE Goto(h, "drop")

\* The process to stop, read from the pid file once.
Aim(h) ==
    /\ helper' = [helper EXCEPT ![h] = [@ EXCEPT !.at = "term", !.pid = Managed]]
    /\ UNCHANGED <<m, overlapped, startRaced>>

Find(h) ==
    /\ At(h, "find")
    /\ IF Managed = NoPid
       THEN m' = [m EXCEPT !.staged = NoNode] /\ Stopped(h)
       ELSE Aim(h)

Killed(p) == [m EXCEPT !.vpn = [m.vpn EXCEPT ![p] = Dead]]

\* The process may be gone by now (ProcessLookupError), obey, or not.
Term(h) ==
    /\ At(h, "term")
    /\ IF helper[h].pid \in Live
       THEN m' \in {m, Killed(helper[h].pid)} /\ Goto(h, "poll")
       ELSE m' = m /\ Goto(h, "unlink")

Poll(h) ==
    /\ At(h, "poll")
    /\ \/ /\ Managed = NoPid
          /\ m' = [m EXCEPT !.staged = NoNode]
          /\ Stopped(h)
       \/ Managed # NoPid /\ Goto(h, "deadline") /\ UNCHANGED m

Deadline(h) ==
    /\ At(h, "deadline")
    /\ IF Managed = helper[h].pid THEN Goto(h, "kill") ELSE Exit(h, FALSE)
    /\ UNCHANGED m

Kill(h) ==
    /\ At(h, "kill")
    /\ m' = Killed(helper[h].pid)
    /\ Goto(h, "unlink")

Unlink(h) ==
    /\ At(h, "unlink")
    /\ m' = [m EXCEPT !.pidFile = NoPid, !.staged = NoNode]
    /\ Stopped(h)

\* A purge removes rules that no state file stands for, too.
Drop(h) == At(h, "drop") /\ CleanThen(h, "forget")

-----------------------------------------------------------------------------
\* An OpenVPN ends by itself, which a helper may see as having happened before it.
Die ==
    /\ \E p \in Live : m' = Killed(p)
    /\ helper' = [h \in Helpers |->
                    IF Busy(h) THEN [helper[h] EXCEPT !.before = WithoutVpn(@)]
                    ELSE helper[h]]
    /\ UNCHANGED <<overlapped, startRaced>>

Step(h) ==
    \/ AddNamespace(h) \/ DeleteNamespace(h)
    \/ Check(h) \/ Clear(h) \/ Forget(h) \/ Write(h) \/ Inside(h) \/ Outside(h)
    \/ Verify(h) \/ Undo(h) \/ Unwrite(h) \/ Look(h) \/ Clean(h)
    \/ AskGuard(h) \/ AskRunning(h) \/ Stage(h) \/ Spawn(h)
    \/ Find(h) \/ Term(h) \/ Poll(h) \/ Deadline(h) \/ Kill(h) \/ Unlink(h)
    \/ Drop(h) \/ Abort(h)

Next == Die \/ \E h \in Helpers : Begin(h) \/ Step(h)

Spec == Init /\ [][Next]_vars

-----------------------------------------------------------------------------
\* The types of the machine and of the helpers, each at a place of its operation.
TypeOK ==
    /\ m \in Machine
    /\ helper \in [Helpers -> Helper]
    /\ \A h \in Helpers :
          /\ helper[h].at \in PlacesOf[helper[h].op]
          /\ helper[h].op \in {"apply", "start"} => helper[h].node \in Nodes
    /\ overlapped \in BOOLEAN /\ startRaced \in BOOLEAN

\* As long as no start has run beside another helper, every OpenVPN that lives is
\* the one that the pid file names; the state file names its node, and there are
\* rules on the host and, while the namespace has its name, inside.  That holds
\* whatever else has overlapped: installations, removals, purges, stops and
\* namespace commands in any order of their parts.
StartsAloneSuffice ==
    ~startRaced =>
        \A p \in Live :
            /\ p = m.pidFile
            /\ m.fw = m.vpn[p].node
            /\ m.hostRules # {}
            /\ m.vpn[p].home => m.ns /\ m.nsRules # {}

\* What RootHelper says of an operation.
Promised(h) ==
    LET r == helper[h].before
        n == helper[h].node
    IN  CASE helper[h].op = "add"    -> NamespaceCreate(r)
          [] helper[h].op = "delete" -> NamespaceDelete(r)
          [] helper[h].op = "apply"  -> KillswitchApply(r, n)
          [] helper[h].op = "remove" -> KillswitchRemove(r)
          [] helper[h].op = "start"  -> OpenvpnStart(r, n)
          [] helper[h].op = "stop"   -> OpenvpnStop(r)
          [] helper[h].op = "purge"  -> Purge(r)

\* A helper that runs alone, whichever commands fail in it, the ones included that
\* list the rules, and wherever it is killed, leaves one of the outcomes that
\* RootHelper lists for its operation (root_helper.py, the operations of execute).
OneStepIsEnough ==
    [][\A h \in Helpers :
          Busy(h) /\ helper'[h].at = "idle" /\ ~overlapped =>
              [ok |-> helper'[h].ok, rt |-> Image'] \in Promised(h)]_vars
=============================================================================

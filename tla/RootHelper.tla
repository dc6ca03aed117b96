---------------------------- MODULE RootHelper ----------------------------
(***************************************************************************)
(* The root-owned helper of the manager (backend/app/root_helper.py), seen *)
(* from one connection id.  Every resource the helper touches is keyed by  *)
(* that id, so the helper's world for one connection is one record:        *)
(*                                                                         *)
(*   ns         the name lxvpn-<id> exists (ip netns list)                 *)
(*   ks         the node in the firewall state file, NoNode without a file *)
(*   hostRules  the project's own table or chains exist on the host        *)
(*   nsRules    they exist inside the namespace that has the name          *)
(*   vpn        the node of the running managed OpenVPN, NoNode if none    *)
(*   socks      a managed 3proxy runs                                      *)
(*   orphaned   the processes run in a namespace whose name was deleted    *)
(*                                                                         *)
(* A helper operation maps a record to the set of its outcomes: the answer *)
(* the caller sees and the record left behind.  A start is two of them, a  *)
(* look at the kill switch and the spawn of a process, since other helpers *)
(* may run in between; every other operation is one.  HelperProcesses      *)
(* takes them all apart, command by command.                               *)
(***************************************************************************)
EXTENDS Naturals

CONSTANTS
    Nodes,    \* the VPN Gate nodes a connection may use
    NoNode    \* "no node": no state file, no OpenVPN process

ASSUME NodesAssumption == Nodes # {} /\ NoNode \notin Nodes

Runtime ==
    [ns: BOOLEAN, ks: Nodes \cup {NoNode}, hostRules: BOOLEAN,
     nsRules: BOOLEAN, vpn: Nodes \cup {NoNode}, socks: BOOLEAN,
     orphaned: BOOLEAN]

\* Nothing of the connection is on the machine.
CleanRuntime ==
    [ns |-> FALSE, ks |-> NoNode, hostRules |-> FALSE, nsRules |-> FALSE,
     vpn |-> NoNode, socks |-> FALSE, orphaned |-> FALSE]

Outcome == [ok: BOOLEAN, rt: Runtime]

Ok(r) == [ok |-> TRUE, rt |-> r]
Fail(r) == [ok |-> FALSE, rt |-> r]

\* A helper that fails, or whose answer is lost, after all of its work: the
\* caller sees a failure of an operation that has taken effect.
Lossy(outcomes) == outcomes \cup {Fail(o.rt) : o \in outcomes}

-----------------------------------------------------------------------------
\* What the helper asks before it acts.

\* _managed_openvpn_pid or _managed_socks_pid finds a live process.
HasProcess(r) == r.vpn # NoNode \/ r.socks

\* _killswitch_active: a state file, and the rules listed on the host and in
\* the namespace that has the name.
KillswitchActive(r) == r.ks # NoNode /\ r.hostRules /\ r.ns /\ r.nsRules

\* _tun_ready looks into the namespace by name: tun0 and the default route
\* exist there only while an OpenVPN runs in it.
TunReady(r) == r.vpn # NoNode /\ r.ns /\ ~r.orphaned

\* A namespace object lives as long as a process in it: once the last managed
\* process is gone there is nothing orphaned.
Settle(r) == [r EXCEPT !.orphaned = r.orphaned /\ HasProcess(r)]

WithoutVpn(r) == Settle([r EXCEPT !.vpn = NoNode])
WithoutSocks(r) == Settle([r EXCEPT !.socks = FALSE])

\* ip netns delete takes the name away at once; processes inside keep running.
WithoutNamespace(r) ==
    [r EXCEPT !.ns = FALSE, !.nsRules = FALSE, !.orphaned = HasProcess(r)]

WithKillswitch(r, n) ==
    [r EXCEPT !.ks = n, !.hostRules = TRUE, !.nsRules = TRUE]

\* What a cleanup may leave: a state file for node n, and some of the rules that
\* r has.
Residue(r, n) ==
    {[r EXCEPT !.ks = n, !.hostRules = h, !.nsRules = g] :
        h \in {FALSE, r.hostRules}, g \in {FALSE, r.nsRules}}

\* No process, no state file and no namespace.  Rules on the host may be left:
\* where the command fails that should list them, _nft_rules_present and
\* _iptables_rules_present read it as "there are none".
NothingButRules(r) == r = [CleanRuntime EXCEPT !.hostRules = r.hostRules]

\* What every operation keeps, if it runs alone: an OpenVPN runs only with a state
\* file for its node, a process only behind host rules and a state file, and a
\* process in the namespace that has the name only with the rules in it.
Guarded(r) ==
    /\ r.vpn # NoNode => r.ks = r.vpn
    /\ HasProcess(r) => r.ks # NoNode /\ r.hostRules
    /\ HasProcess(r) /\ ~r.orphaned => r.ns /\ r.nsRules

-----------------------------------------------------------------------------
\* The operations.

\* The ten commands of creation_commands, NAMESPACE_ADD first: adding a name
\* that exists fails, and any later command may fail with the name there.
NamespaceCreate(r) ==
    IF r.ns
    THEN {Fail(r)}
    ELSE {Fail(r)} \cup Lossy({Ok([r EXCEPT !.ns = TRUE, !.nsRules = FALSE])})

\* cleanup_commands: every command is tried, the report says whether one failed.
NamespaceDelete(r) ==
    {Fail(r)} \cup Lossy({Ok(IF r.ns THEN WithoutNamespace(r) ELSE r)})

\* An installation that does not look for managed processes (for the mutants).
KillswitchApplyUnchecked(r, n) ==
    IF ~r.ns THEN {Fail(r)} ELSE {Fail(r), Ok(WithKillswitch(r, n))}

\* _apply_killswitch for node n.  It refuses while a managed process runs;
\* otherwise it removes what a state file stands for, writes the new state file,
\* installs the rules and verifies them.  Each part may fail, and a cleanup that
\* cannot list the rules takes them for gone and deletes the state file.
KillswitchApply(r, n) ==
    IF ~r.ns \/ HasProcess(r)
    THEN {Fail(r)}
    ELSE {Fail(s) : s \in Residue(r, r.ks) \cup Residue(r, NoNode)
                          \cup Residue(WithKillswitch(r, n), n)
                          \cup Residue(WithKillswitch(r, n), NoNode)}
         \cup Lossy({Ok(WithKillswitch(r, n))})

\* A removal that does not look for managed processes first (for the mutants).
KillswitchRemoveUnchecked(r) ==
    {Fail(s) : s \in Residue(r, r.ks)} \cup Lossy({Ok(s) : s \in Residue(r, NoNode)})

\* _remove_killswitch: refuses while a managed process runs, does nothing
\* without a state file, and keeps the file when it sees a rule set listed.
KillswitchRemove(r) ==
    CASE HasProcess(r) -> {Fail(r)}
      [] ~HasProcess(r) /\ r.ks = NoNode -> {Ok(r), Fail(r)}
      [] OTHER -> {Fail(s) : s \in Residue(r, r.ks)}
                  \cup Lossy({Ok(s) : s \in Residue(r, NoNode)})

\* A look that takes any node's kill switch for its own (for the mutants).
OpenvpnAskAnyNode(r, n) == {Fail(r)} \cup {o \in {Ok(r)} : KillswitchActive(r)}

\* OPENVPN_START, first part: execute demands an active kill switch for the node.
\* The step is the moment at which it reads the state file; what it lists after
\* that is what there was then, if no other helper is at work.
OpenvpnAsk(r, n) ==
    {Fail(r)} \cup {o \in {Ok(r)} : KillswitchActive(r) /\ r.ks = n}

\* The second part, _start_openvpn: a running process is as good as a new one;
\* the namespace is asked for by its name.
OpenvpnSpawn(r, n) ==
    CASE r.vpn # NoNode -> {Ok(r), Fail(r)}
      [] r.vpn = NoNode /\ ~r.ns -> {Fail(r)}
      [] OTHER -> {Fail(r)} \cup Lossy({Ok([r EXCEPT !.vpn = n])})

\* Both parts, where no other helper can come between them.
OpenvpnStart(r, n) ==
    {Fail(r)} \cup UNION {OpenvpnSpawn(o.rt, n) : o \in {a \in OpenvpnAsk(r, n) : a.ok}}

\* _stop_openvpn: SIGTERM, then SIGKILL; a pid file that names a foreign
\* process makes it fail.
OpenvpnStop(r) == {Fail(r)} \cup Lossy({Ok(WithoutVpn(r))})

\* SOCKS5_START, first part: execute demands an active kill switch, _start_socks a
\* ready tun0 and the kill switch again, for the endpoint's port.
SocksAsk(r) ==
    {Fail(r)} \cup {o \in {Ok(r)} : KillswitchActive(r) /\ TunReady(r)}

\* The second part: the 3proxy is started, unless one runs.
SocksSpawn(r) ==
    CASE r.socks -> {Ok(r), Fail(r)}
      [] ~r.socks /\ ~r.ns -> {Fail(r)}
      [] OTHER -> {Fail(r)} \cup Lossy({Ok([r EXCEPT !.socks = TRUE])})

SocksStop(r) == {Fail(r)} \cup Lossy({Ok(WithoutSocks(r))})

\* _purge_connection: SOCKS, OpenVPN, rules and state file, then the namespace;
\* the first part that fails ends it.
Purge(r) ==
    LET noSocks == WithoutSocks(r)
        noVpn   == WithoutVpn(noSocks)
        noFile  == Residue(noVpn, NoNode)
    IN  {Fail(s) : s \in {r, noSocks, noVpn} \cup Residue(noVpn, noVpn.ks) \cup noFile}
        \cup Lossy({Ok(WithoutNamespace(s)) : s \in noFile})

-----------------------------------------------------------------------------
\* The operations by name, as the service calls them, the starts in their two parts.

HelperSteps ==
    {"createNamespace", "deleteNamespace", "applyKillswitch", "removeKillswitch",
     "askOpenvpn", "spawnOpenvpn", "stopOpenvpn",
     "askSocks", "spawnSocks", "stopSocks", "purge"}

\* The looks, and the spawn that each of them permits.
Asks == {"askOpenvpn", "askSocks"}
Spawns == {"spawnOpenvpn", "spawnSocks"}
SpawnAfter(op) == IF op = "askOpenvpn" THEN "spawnOpenvpn" ELSE "spawnSocks"

\* An operation that a helper is at, and the node it is for.
Call == [op: HelperSteps, node: Nodes \cup {NoNode}]

Outcomes(c, r) ==
    CASE c.op = "createNamespace"  -> NamespaceCreate(r)
      [] c.op = "deleteNamespace"  -> NamespaceDelete(r)
      [] c.op = "applyKillswitch"  -> KillswitchApply(r, c.node)
      [] c.op = "removeKillswitch" -> KillswitchRemove(r)
      [] c.op = "askOpenvpn"       -> OpenvpnAsk(r, c.node)
      [] c.op = "spawnOpenvpn"     -> OpenvpnSpawn(r, c.node)
      [] c.op = "stopOpenvpn"      -> OpenvpnStop(r)
      [] c.op = "askSocks"         -> SocksAsk(r)
      [] c.op = "spawnSocks"       -> SocksSpawn(r)
      [] c.op = "stopSocks"        -> SocksStop(r)
      [] c.op = "purge"            -> Purge(r)
=============================================================================

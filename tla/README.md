# VPNGate Multi-Exit Manager: TLA+ specifications

These modules describe the backend of the VPNGate manager (`src/backend/app`): how it brings
OpenVPN tunnels and SOCKS proxies up and down inside network namespaces, behind a kill switch, while
requests interleave, privileged helper calls fail or lose their answer, processes die and the service
restarts; what root helpers do to each other when they overlap; how node scans share their slots; how the
rows of the node catalogue are kept; what the firewall rules do to packets; which configurations get through
the sanitiser; and how accounts and logins are kept. TLC checks them on small instances; TLAPS proves the core
for every instance.

Run from this directory:

    tlc -workers 4 -config conn_two.cfg MCConnection
    tlapm KillSwitchRulesProofs.tla

## 1. The system

One `uvicorn` process serves a FastAPI application. `async def` routes share one event loop and
interleave only where they await; every privileged operation is awaited in a worker thread
(`asyncio.to_thread`) and runs `sudo vpngate-manager-helper <operation> ...`, one short-lived root
process per operation. Plain `def` routes (create, delete, users, login) run in worker threads. State
lives in a SQLite database, in the kernel (namespaces, nftables/iptables rules, processes) and in the
files of the helper (`/run/vpngate-manager`), and nothing ties these together but the order of the
calls.

| Component | State it keeps | Operations | Talks to |
|---|---|---|---|
| Root helper (`root_helper.py`) | namespace `lxvpn-<id>`, firewall state file and rules, OpenVPN and 3proxy with their pid files | namespace commands, kill switch apply/remove/status, OpenVPN and SOCKS start/stop/status, probes, purge | the kernel |
| Kill switch rules (`firewall_rules.py`) | the chains of each connection, on the host and in its namespace | install, replace, remove | the kernel's packet filter |
| Network managers (`services/network`) | none | the sequences of helper operations with their rollbacks and polls | root helper, through the executor with its timeout |
| Connection lifecycle (`services/connections`, `api/routes/connections.py`) | rows `vpn_connections`, `socks_endpoints` | create, start, stop, restart, delete, rotate password, routing | managers, database |
| Startup recovery (`recovery.py`, lifespan of `main.py`) | none | purge every connection whose row is not stopped | root helper, database |
| Automatic switch (`services/auto_switch`) | per-connection `asyncio.Lock`, failure count, switch events | health check (route and monitor), manual and automatic switch, choice of a candidate | managers, database |
| Node scans (`services/scanning`) | semaphore, queue of reserved slots, `node_scan_results` | fast and full scan | managers, database |
| Batch scans (`batch.py`) | `scheduled_tasks`, progress lock | start, progress, stop, recovery | node scans |
| Node catalogue (`services/vpngate`) | `vpngate_nodes` | download, parse, sanitise, import | HTTP, database |
| IP intelligence (`services/ip_intelligence`) | columns of `vpngate_nodes` | enrich a node with what its exit is | HTTP, database |
| Users and login (`users.py`, `auth.py`, `cli.py`) | `users`, `user_sessions`, `login_attempts` | login with lockout, sessions, user administration | database |
| Unlock checks, administration, dashboard, frontend, scripts | their own rows or none | | |

What is hard here, and what makes each part correct:

* **No lock between requests.** Start, stop, restart and delete of one connection take no lock at all;
  only switches do. The committed status never shows `STARTING` or `STOPPING`, because the session
  writes nothing before its final commit. Correct means: no OpenVPN runs without the kill switch for its own
  node, and no proxy without a kill switch. The code does not keep that in every case: a start looks for the
  kill switch and spawns a moment later, and nothing keeps another helper out in between (section 5). The models
  have that case, call it a race, and say what holds until there is one.
* **Every call may fail, and its rollback too.** A timeout of the executor says "failed" of an operation
  that may have happened, or that is still to happen: the helper goes on. Correct means: rules go only after
  the processes; a row that says STOPPED describes a machine on which nothing runs; every request ends.
* **Crashes and restarts.** The service restarts with processes and helpers alive that it does not know. Correct
  means: it comes up only with everything closed and purged.
* **A question that fails.** The helper checks its own cleanup by listing the rules, and takes a list command
  that fails for "no rules" (`root_helper.py:850-878`, `989-1019`). What is right after a success has to be said with
  that in mind: rules may be left on the host, with nothing that finds them again; processes, state files and
  namespaces may not.
* **Long critical sections over stale data.** A switch counts events, chooses a node and loads the
  endpoint long before it acts and commits. Correct means: the hourly limit holds, the row names the
  tunnel, no client gets through an unverified tunnel, the lock is always given back.
* **Shared pools.** Scans share slots, and slots share the id space with connections. Correct means: one
  worker per slot, no slot lost, whatever a scan leaves stays guarded.
* **Helpers that overlap.** The executor kills `sudo` at its timeout, not the helper, and requests take no
  lock: two root processes may work on one namespace, each looking first and acting later. Correct means: what
  one of them sees stays true for what it does, wherever the guard depends on it.
* **Rows that are loaded early and written late.** A scan, a check or a switch loads a node's row, awaits
  the network for a minute, and writes the columns that then differ. Correct means: the row agrees with the
  records, whatever was imported, scanned or cancelled in between.
* **Two rule sets and a stateful filter.** Correct means: with either firewall nothing leaves a namespace
  around its tunnel, not even on flows that are older than the rules, and the two sets do the same.
* **Counting and then acting** in the user administration and the login. Correct means: there is a super
  administrator, open sessions are entitled, guessing is bounded.

`PROJECT.json` lists the hazards one by one, each at its line, with the properties that cover it.

## 2. The modules

| Module | Models |
|---|---|
| `RootHelper` | the machine as the helper sees it for one connection id, and each helper operation as a function from a machine to its possible outcomes |
| `FailClosedTunnel` | the abstract promise: guard, tunnel, proxy, and the race that ends it |
| `HelperProcesses` | overlapping helpers of a connection, command by command; alone, each does what `RootHelper` says |
| `ConnectionLifecycle` | start, stop, restart, delete, crash and recovery of a connection; implements `FailClosedTunnel` |
| `AutoSwitch` | health checks and switches, extending `ConnectionLifecycle` with the lock, the jobs and the events |
| `NodeScan` | the coordinator of node scans and the whole full scan; one `RootHelper` machine per slot |
| `BatchScan` | one batch of scans: start, progress, end, cancellation, recovery |
| `KillSwitchRules` | the nftables and iptables rule sets as a packet filter |
| `NodeCatalogue` | the rows of the nodes: import, scans with their records, classification, checks and switches |
| `OpenVPNConfig` | the sanitiser of configurations and the second validation before a start, as operators |
| `CandidateSelection` | the choice of the node a switch goes to, and what it is meant to choose |
| `Accounts` | users, sessions, login with lockout, user administration, command line |
| `MCConnection`, `MCSwitch`, `MCHelpers`, `MCScan`, `MCRules`, `MCCatalogue`, `MCAccounts` | the instances for TLC (symmetry, inputs) |
| `RootHelperProofs`, `HelperProcessesProofs`, `AutoSwitchProofs`, `NodeScanProofs`, `KillSwitchRulesProofs`, `BatchScanProofs`, `NodeCatalogueProofs`, `AccountsProofs` | the theorems |

`ConnectionLifecycle` and `NodeScan` use the operations of `RootHelper`, `AutoSwitch` extends
`ConnectionLifecycle`, and both lifecycle and switches implement `FailClosedTunnel`. `KillSwitchRules` says
what the rules do that the other modules only install. `HelperProcesses` extends `RootHelper`, whose operations it
takes apart. `NodeCatalogue` has the scans, checks and switches of the other modules as sessions that load a
row and write it, with what they found out as a choice. `BatchScan` and `Accounts` stand for themselves.

### RootHelper

A record `rt` of seven fields stands for everything that is keyed by the connection id. `ns` is the
name of the namespace, `ks` the node in the firewall state file, `hostRules`/`nsRules` the two rule
sets, `vpn` the node of the running OpenVPN, `socks` the proxy, and `orphaned` says that the processes
run in a namespace whose name was deleted: `ip netns delete` only takes the name away, the processes
keep running in a namespace that nobody can look into any more. The veth pair and
`/etc/netns/<name>` live and die with the name and are part of it.

An operation returns the set of its outcomes, each an answer and a machine. Partial failures are
outcomes of their own. `Residue` is what a cleanup may leave: a state file or none, with some of the rules; since
the check for left rules reads a failing list command as "none", a removal, an installation and a purge may also delete the
state file, and report success, with rules standing. `Lossy` adds for each success the outcome "it happened, but
the caller is told that it failed". The guards are the helper's: OpenVPN starts only behind an active kill switch
for its own node, the kill switch is replaced or removed only when no managed process is found, the
proxy starts only on a ready tun0.

A start is two operations: the look at the kill switch (`OpenvpnAsk`, `SocksAsk`; the step is the moment at which the
helper reads the state file) and the spawn (`OpenvpnSpawn`, `SocksSpawn`), between which other helpers of the
connection may do anything. Every other operation is one step even if others are at work, because their looks are
right for as long as no start spawns in between; command by command this is `HelperProcesses`, where
`StartsAloneSuffice` shows the guard for overlaps that are as fine as the code's.

### HelperProcesses

A helper reads the state file, the rules and the pid files, decides, and runs one command after the other;
`helper[h].at` is the command it stands before (`PlacesOf` lists them for each operation), and each command may fail, or the
helper may be killed before it. The machine is finer than `RootHelper`'s: the servers that each of the two
rule sets lets through, the pid file, and each process with its node and whether its namespace still has a
name. `Image` maps it to the seven fields. `RulesPresent` is the check after a cleanup, whose list commands may fail
like any other and then say that there is nothing. The connection has no SOCKS endpoint and the firewall is nftables.

### ConnectionLifecycle

One connection is enough: rows, namespaces, rules, ports and processes of different connections have
different keys. `row` is what is committed; each of the `Requests` slots holds a request, the await at
which it stands (`pc`, named after the driver's steps), the columns its session loaded (`seen`) and
changed (`mem`). One action is one await: the code between two awaits runs alone on the event loop.
`Written` is the UPDATE of SQLAlchemy, which names only changed columns; a deleted row makes the commit
fail, and any commit may be refused. A `Crash` (any end of the service, SIGKILL included) forgets all sessions, and each
kind of process in `Survivors` may live on, helpers among them; `Recover` is the lifespan, which keeps the service down
until the purge succeeds.

Helpers overlap in two ways. Each waiting request has one of its own, and a call may end in `GiveUp`: the request goes on as
if it had failed, and the helper moves to `late`, from where it takes effect at any later time (`LateStep`), beside the
rollback of its caller, other requests, or the recovery. A helper that outlives a crash is one that was
given up just before it. `Running` is the set of all helpers at work, and `raced` remembers whether a start between its look and its
spawn, or a recovery, has ever been among others (`Race`, `Note`). The properties that promise a guard do so until then.

### AutoSwitch

A job is a manual switch, a health check of the route or one of the monitor. `lock` is the
`asyncio.Lock` with its FIFO line of waiters. `Enter` takes a free lock without an await; a job that
has to wait keeps the session it has (`seen`, `mem`) and does not load the row again, as in the code. The helpers of jobs
are among those at work (`AllRunning`), and may be given up like those of requests.
`recent` counts the automatic switch events of the last hour, `Age` lets one leave the window. The
candidate is any node other than the one in the session, or none (`Refuse`): which of them it is,
`CandidateSelection` says. Jobs arrive
only while the failure count is below `FailureBound`, which bounds the counter for TLC.

### NodeScan

A scan has two halves that live on their own: the coroutine of the request (`scan`) and the worker
thread that the full scan runs in (`thread`). The coroutine takes a permit of the semaphore and then the
first slot of the queue (`free`), shields the operation and waits for it with a timeout; when the time
is up, or the request is cancelled, it goes on waiting until the operation has ended, and gives the slot back at the end
of the queue. `BuiltinTimeout` says whether `asyncio.wait_for` raises the builtin `TimeoutError` (Python
3.11 and later) or a class of its own (3.10), which `_wait_safely` does not catch. The thread makes the
namespace, installs the rules, dials, waits for tun0, probes and cleans up, each a `RootHelper` operation on
the machine of its slot, with the rollbacks of the managers. `Shutdown`, `Exit`, `Kill` and `Boot` are the
ends and the beginning of the service: a shutdown cancels the scans and waits for the threads, a kill
waits for nothing and may leave an OpenVPN alive (`VpnSurvives`).

A scan of a single node by HTTP is cancelled like one of a batch. The fast scan is one step
(`Transport`) and uses no slot's resources. What a scan writes into its record and the node's row is in `NodeCatalogue`.

### BatchScan

A batch with its row (`task`), the `gather` that runs its scans, and a service that stops and starts. A
scan is an await that ends in any result. `gather` ends with the first exception while the other scans
go on and record what they find; a cancelled gather cancels them all. Each commit may be refused by the
database, which `refused` remembers. One batch is enough: batches share nothing but the permits of the coordinator.

### KillSwitchRules

Rules are records: which values of which fields a rule matches (a set of pairs, put together by `\cup`), and its verdict; a chain is a sequence, in
which the first match decides. `NftRules`, `IptablesInside` and `IptablesHost` are the rule sets of
`firewall_rules.py`, rule by rule, the comparison of texts left out. The kernel's part is external and
modelled as the rules need it: which hooks a packet passes, routing (OpenVPN keeps a route to its server
outside the tunnel, and the rest follows tun0 while it is up), connection tracking (a flow is `new` until an answer was
seen), and address translation (the first packet of a flow decides, the others follow). Two connections' rules stand on
one host, with all of their interactions. `SentInside` is every packet a process of a namespace may
send, `SentOutside` every packet of the internet to the host, answers included; each may be tracked, up to `MaxFlows` at each place.
Rules are replaced while the flows of the earlier node are still tracked.

Packets are of either family. The code sets up IPv4 alone, but the tables of nftables are of family `inet`, whose
chains in the namespace drop IPv6 too, while the fallback calls `iptables` only: under it IPv6 is not filtered at all
(`Outcome`). A namespace has no IPv6 address but the link-local ones of its veth pair, so this traffic reaches the host and
nothing else, or the tunnel while it is up. The port of a VPN server (`RemotePort`) is any, a SOCKS port of this host
included: then the rule of `firewall_rules.py:108` maps the packets of an OpenVPN to the proxy (`Captured`).

Left out: `related` flows (ICMP errors), clients whose address lies in the private networks of the namespaces and
networks of an allowlist that cover those, and packets with a source address that no interface has.

### NodeCatalogue

`sessions` are the coroutines with a database session, in the order in which they load their row: fast and
full scans, the classification of an exit, health checks and starts (both `check`), and switches. `seen` is
the row as loaded, `wanted` as changed; a session is `measuring` its tunnel, `enriching` (looking its exit
up) or `verifying` what is left, and ends with a commit, a refused commit, a cancellation or a crash. `Column` is
the flush of SQLAlchemy: a column that is as it was loaded is not written, so of two sessions of a node one
may undo the other's verdict, and exit and country may come from different sessions. `overlapped` remembers
of which nodes two sessions were ever open at once. A scan's `record` is committed RUNNING first. The row
has the columns that sessions decide on, and of what a lookup writes `country` (with the name and the city of the
country), `asn` (for the organisation and the isp too) and `ptr`: they are chosen by different rules (`Enriched`). The
country is kept only from the same exit or, if the exit is the server, from the feed; the columns of the network are kept from the
row in both cases, whatever exit it described. An answer may lack any of them (`Answers`), and a fast scan that succeeds
writes the name of the server (`WithName`). `listed` remembers which countries feeds have named for a node.

`OpenVPNConfig` reads a configuration as a sequence of lines: each is a word with a value, an opening or a
closing tag, text or blank, plain or with space around it, of a size. `Sanitize` is the fold of the lines as
in `sanitize_openvpn_config`, with its limits; `Stored` the validation of the stored text, which sanitises
it again and compares. `CandidateSelection` has `select_candidate_node`'s filter and sort key (`Candidate`)
and, said without a key, which nodes are best (`Chosen`).

### Accounts

Routes of users and logins are plain functions in threads, each with a session of the database. A
request reads step by step and writes at the end: SQLite lets one transaction write, from its first
write to its commit, so all writes are one step. A request sees its own rows as it first read them
(the identity map), which `me` and `target` are. `Beside` bounds what runs at once: requests of these kinds
may begin at any time, the others only while nothing is under way and nothing has overlapped yet. Counts of failed attempts are
per user, one address. `AgeFailure` and `Expire` are the passing of time, the two `Cli` actions the
command line, which may run at any moment. The history of overlaps matters to `SuperAdminRemains` and
`SessionsFollowAccounts`, which are claimed as long as no two requests have overlapped.
Passwords are model values; the rehash of a password at login is left out, since its parameters never
change. CSRF tokens and user names that change are left out.

## 3. The runs

| Run | Question | Instance |
|---|---|---|
| `conn_two` | Do two unsynchronised requests, with failures, late helpers, crashes and survivors, keep the guard and the abstract promise until there is a race, and the recovery always? | 2 requests, 2 nodes, 1 late helper, every kind survives; 1.7 M states |
| `conn_restart` | Does the recovery purge what a first start left? (no: section 5) | 1 request |
| `switch_two` | Do two jobs keep the hourly limit and the proxy off unverified tunnels, and does each get the lock and end? | 2 jobs, 2 nodes, threshold 2, crashes; 260 k states |
| `switch_serial` | One request or job after the other: does STOPPED mean that nothing runs or is left but rules that could not be listed, does a RUNNING row name its tunnel, does each request end? | 1 request and 1 job that take turns, 3 nodes, threshold 2, 2 switches an hour, no crash; 132 k states |
| `helpers` | Do two helpers that overlap keep the guard, unless a start overlaps? Alone, is a helper's operation the one step of `RootHelper`? | 2 helpers, 2 nodes, 2 process ids; 3.1 M states |
| `scan_slot` | Does each scan leave a slot that the next one can use, alone and behind a kill switch, and does it end? | 3 scans, 1 permit, 1 node, Python 3.11, OpenVPN may survive; 34 k states |
| `scan_return` | Is a slot idle when it goes back, on Python 3.10? (no: section 5) | 2 scans |
| `scan_preserve` | Does a namespace stay that a scan kept for its OpenVPN? (no: section 5) | 2 scans |
| `batch` | Does a batch count each node once, keep its end, and end? | 4 members, refused commits |
| `rules` | Is there a way around a tunnel, or into a namespace, and is every way open that must be? | 2 connections, 1 client with and 1 without a place on the list, a TCP and a UDP node on SOCKS ports of the host, IPv4 and IPv6, 1 flow at each place; 44 k states |
| `catalogue` | Do rows agree with the records and describe the exit they name, and is every RUNNING record explained? Does a sanitised configuration stay accepted, and is the candidate the best? | 3 sessions; a TCP node of which everything is asked, a UDP node, an IPv6 node; 2 exits; 1.2 M states, of which 27 k are inputs |
| `accounts` | How many passwords are tried, is there always a super administrator, are open sessions entitled? | 2 users, 2 requests of which one is a login, 2 passwords, limit 1; 329 k states |

Why the bounds are enough: the guards of the code compare nodes only for equality, so two nodes show
"own node" and "another node", a third one "a candidate that neither job has seen". Two requests give
every pair of actions that may overlap; the guard and the promise are proved for any number of
requests. `conn_two` stops at a race (`Followed` in `MCConnection`), after which its properties promise nothing of the machine,
and follows a helper that outlives its call beside one request only: beside a second one there would be three actors, which
the proofs cover. One permit makes each scan meet what the one before it left, and the third finds a queue that went round; several permits
add nothing to a machine, since machines are apart (`OneWorkerPerSlot` is proved for any number). Four
members let a batch fail by one scan while one has ended, one runs and one waits. Two connections show what rules
of another connection do; a third would be another "other". The failure threshold 2 makes a check that must not switch and one that must; one switch an
hour puts every second switch over the limit. `switch_serial` is about requests and jobs that follow each other:
with two jobs in line the row can name a node while the status is the one of another job (see
PROJECT.json, hazard at `auto_switch/service.py:149`). It starts from nothing, `switch_two` from a connection that a
start has brought up (`RunningInit`), so that its depth goes into the switches. That the kill switch holds and the
promise is kept while jobs and requests interleave is not run again, but proved (`KillSwitchHoldsInSwitches`,
`SwitchRefinement`).

Two helpers are every pair of operations that may overlap, and either may begin anew as often as it likes; two process ids let a
second start replace a process. Three sessions let one load the row, another commit, and a
third act on both; a fourth would only repeat what a third one does, and the theorems hold for any number. The feed
names another country than the provider does, so that a country that is borrowed shows. Both servers of `rules` listen on
SOCKS ports, the one that speaks TCP, which the proxies' rules can take, and the one that speaks UDP, which they cannot.

The inputs of `catalogue` are a configuration or a table of nodes; a behaviour of the run is either one of the catalogue
or an input and nothing more. The configurations are all that differ from an accepted one in a line that is
put in, replaced or left out, and those with a second line of a tag or a remote put in after that; the limits on sizes are so small that one
line too many reaches each of them (26 bytes, 3 for a line, 7 for a block). The tables have the node in use and two others that differ in
everything the key or the filter looks at, each value known or unknown. For other texts and tables there are the
theorems `SanitisedIsHarmless` and `TheBestIsTaken`.

Each property of a passing run has a mutant in `PROJECT.json`: a definition of the model changed as a
plausible bug would change it, under which TLC finds the property violated. The mutated forms stand
before the definitions they replace and are marked "(for the mutants)".

### Fairness

`RequestsEnd`, `JobsEnd`, `ScansEnd` and `BatchEnds` assume weak fairness of the steps of each accepted
request, job, scan or worker thread (`Progress`, `ProgressJob`, `Coroutine`, `Worker`, `RunBatch` and the steps of one
scan), and nothing of arrivals, cancellations, deaths of processes or of any particular outcome. The code justifies it:
every helper call runs under a timeout of the executor (`executor.py`), polls have their own limits
(`openvpn_manager.py`, `socks5.py`), and the event loop resumes a task whose thread has finished. An
`asyncio.Lock` and an `asyncio.Semaphore` wake their waiters in order, which the lines of the models are.
A service that stops does come to its end. `BatchEnds` also assumes that a service that has ended is
started again -- by systemd after a failure (`Restart=on-failure`), else by whoever stopped it -- because only the next start
ends a batch that the end of the service has cut off. `RequestsEnd` is about requests in a service that is not
killed; `RequestsEnd` and `JobsEnd` let any call fail, which to the caller is what a timeout is.

## 4. What is proved

`RootHelperProofs` shows of each helper operation, for any machine that is `Guarded`, that each outcome
is `Guarded` again and is one step of the fail-closed tunnel or none (`Kept`) -- of a spawn only if the machine is `Ready`
for it, which is what its look has seen -- and what each outcome may leave (the `*Leaves` lemmas): a `Tidy` machine (no rules in a
namespace without a name), the same processes, and after a purge that reports success `NothingButRules`.

`HelperProcessesProofs` proves, for any number of helpers, nodes and process ids:

* `HelpersWellTyped`: `Spec => []TypeOK`.
* `StartsAloneAreSafe`: `Spec => []StartsAloneSuffice`: as long as no start runs beside another helper, each OpenVPN is
  behind its kill switch. The invariant follows the code: whoever takes rules or files away has seen
  that no process lives, and only a start makes one.
* `LoneHelpersAreAtomic`: `Spec => []OneStepIsEnough`: a helper that runs alone, whichever of its commands fail, the ones
  included that list the rules, and wherever it is killed, ends in an outcome that `RootHelper` lists for the machine it was called on. The invariant `LoneHelper` says
  place by place (`Halfway`) what the operation has made of that machine so far; it needs the guard of the theorem
  above, which rules out a process at the places behind a look, and `RulesInside`: no rules in a namespace without one.

`AutoSwitchProofs` proves first of `ConnectionLifecycle`, for any set of requests, late helpers and nodes and any survivors:

* `TypeCorrect`: `Spec => []TypeOK`. `TypeOK` contains that only STOPPED, RUNNING and FAILED are ever
  committed.
* `KillSwitchHolds`: `Spec => []KillSwitchGuard`: until there is a race the guard holds, whatever overlaps.
* `RecoveryIsClosed`: `Spec => RecoveryFailsClosed`: nothing is presented as running and, unless a helper was at work beside
  the recovery, nothing but rules is left of what was active.
* `Refinement`: `Spec => KeepsPromise`, that is `FailClosedTunnel!Spec` under the mapping
  guard = `ks` while the host rules stand, tunnel = `vpn`, proxy = `socks`. The abstract tunnel promises nothing once `raced`
  is true (`Void`); `raced` is the history variable of the code's model, set by `Note` and by nothing else.
* `PromiseFailsClosed`: what keeps the promise is `FailClosed`, until there is a race.

The only assumptions are those of the modules: `NoNode` is not a node, there is a node, survivors are
kinds of process.

The argument: `IInv` is `Typed`, the types of row, machine and late helpers and for each request that it has a node and
at `commit` a status that may be committed; and `Safe`, which says of the helpers at work that, if one of them races, this has
been noted, and that, as long as nothing has been noted, the machine is guarded and `Ready` for every spawn under way. The last
part is why the guard alone is not inductive: a spawn is right only if what its look has seen is still there. Each action is the
step of one helper, whose lemma gives the machine's part and the step of the promise, or leaves kill switch and namespace alone
(`Steps`). A helper that changes them while a spawn is pending is not alone with it, so a race has been noted.

It goes on with `AutoSwitch`, for any set of jobs, requests, late helpers and nodes and any limits, with crashes:

* `SwitchTypeCorrect`: `SwitchSpec => []SwitchTypeOK`.
* `KillSwitchHoldsInSwitches`: `SwitchSpec => []KillSwitchGuard`, until there is a race of helpers of requests, of jobs or of
  nobody.
* `RateIsLimited`: `SwitchSpec => []RateLimit`, the hourly limit of automatic switches.
* `SwitchRefinement`: `SwitchSpec => KeepsPromise`.

The invariant `SInv` adds to `IInv` what a job's session holds (`JobsOK`) and the line of the lock
(`LineOK`): who is past the lock stands at its head, nobody stands in it twice, and an automatic switch past its
check of the limit has found the count below it. Only the head of the line adds an event, so the count that it has checked
cannot have grown since; that is why the limit needs the line.

Three more theorems speak of less than every interleaving, and say so:

* `NoProxyWhileDialling`: with `Requests = {}`, as in the run `switch_two`, `RunningSpec => []NoProxyBeforeVerified`; every
  helper ends before its call (a proxy that is started late is a counterexample). The argument is the guard again: before a job dials it has replaced the
  kill switch, which the helper does only if no proxy runs (`KillswitchApply`), and until it resumes nobody else
  starts one. With lifecycle requests beside it the property does not hold (a stop or a start takes no lock).
* `StoppedLeavesNothing` and `RowIsTrue`: with at most one request slot and one job slot,
  `SerialSpec => []StoppedIsClean` and `SerialSpec => []RowNamesTunnel`; the slots serve any sequence of requests and jobs.
  `SerialInv` says what the one that runs knows: a request's loaded row is still the row and from the first step after the
  kill switch on the tunnel, if any, is the session's node (`RequestAlone`); a job's too, with its candidate's node in the middle
  (`JobAlone`); `Bare` before the namespace is deleted, `NothingButRules` at the commit of STOPPED. `StoppedIsClean` needs it
  because the success of a cleanup is known to the session alone between the helper's answer and the commit.
  Where requests overlap, are cut off, are refused their commit or leave a helper behind, both fail (section 5).

`NodeScanProofs` proves, for any number of scans, permits and nodes:

* `SlotsAreGuarded`: `ScanSpec => []SlotsGuarded`, from `GuardInv` (each machine guarded, each thread at a point
  that fits its slot).
* `SlotsKeepPromise`: `ScanSpec => SlotPromise(s)!Spec` for each slot `s`: under the mapping of `Refinement` each step in a
  slot is one of the fail-closed tunnel or none. A scan's worker runs the helper operations of a connection, so the `Kept` of
  `RootHelperProofs` is all it needs: it does not depend on who else uses the slot, and holds on Python 3.10 too.
* `WorkersAreApart`: with `BuiltinTimeout`, `ScanSpec => []OneWorkerPerSlot`. `ExclusiveInv` adds that no
  slot is twice in the queue or both there and with a scan, and that each worker belongs to a scan that still holds its
  slot. The last part is what Python 3.10 breaks.
* `ScanTypeCorrect`: `ScanSpec => []ScanTypeOK`. `WaitersOK` adds that who waits for a permit stands in the line, once,
  and nobody else does: else the scan that is woken might be one that has left.
* `PoolIsComplete`: `ScanSpec => []SlotForEachPermit`, on every version of Python. `PoolInv` says where the slots are: each
  in the queue or with one scan, none twice, and a scan that waits or is idle has none. The theorem counts: the
  permits taken and the slots in the queue together are the slots (`PoolCounts`, by `FiniteSetTheorems`).
* `SuccessLeavesNothing`: with `BuiltinTimeout`, `ScanSpec => []SuccessIsClean`: no process, no state file, no namespace, and
  host rules only where the helper could not list them. `CleanInv` adds that each slot is `Tidy`, that a
  slot with a scan is no other worker's (`HeldAlone`), and what the cleanup knows after each step that succeeded (`StagesOK`). A
  scan that finds the slot of a failed one occupied fails itself, so success says something of the scans before it too.

`BatchScanProofs` proves, for batches of any size:

* `BatchTypeCorrect`: `BatchSpec => []BatchTypeOK`.
* `SuccessIsComplete`: `BatchSpec => []SuccessAccountsForAll`. `BatchInv` adds that a member that may still record has not
  recorded yet, so that each record counts once, and that the row's counts are the size of the set of recorded nodes.
* `EndIsFinal`: `BatchSpec => FinalStays`: the coroutine lives only while its row has no end.

`NodeCatalogueProofs` proves, for any nodes, addresses, feeds and number of sessions:

* `CatalogueTypeCorrect`: `Spec => []CatalogueTypeOK`.
* `AvailableMeansReached`, `VerdictsHaveRecords`, `RunningIsExplained`: `AvailableWasReached`, `VerdictWithRecord` and
  `RunningHasScan`, however sessions overlap. They rest on what a session carries: until it judges, the verdict in `wanted`
  is the one in `seen`, so the flush writes only a verdict of its own.
* `RowsFollowRecords`, `ExitsAreDescribed`: `RowFollowsRecords` and `RowDescribesExit` for nodes without
  overlapping sessions; the second with the exception that the code makes of the columns of the network. `CInv` adds that sessions begin in order, that the open session of such a
  node is its last one (`LastIsOpen`), and that what it loaded is still in the row (`Alone`); the failures of the row are
  the size of the set of failed scans since the last success, which a commit empties or enlarges by one.

These theorems are about `Spec`; the run checks `MCSpec`, which implies it (`RunIsCatalogue`).

* `TheBestIsTaken`: `Candidate` is `Chosen` for any table whose rows have ids of their own and integers or nothing in the
  columns that are compared, and for any connection, policy, entries and request. `CandidatesAreBest` is its instance for the tables
  of the run: `MCSpec => []CandidateIsBest`. The keys of two rows differ in the id at least, and they compare as `Better` does
  (`KeyIsOrder`): for that a measured ping must be below the number that stands for none, 2147483647
  (`candidates.py:84`). That is also the number at which a scan caps what it has measured (`scanning/service.py:142`); a ping of
  exactly that size counts as not measured, and SQLite would store larger ones. A table that could not be sorted, or that had no last row, would have a least number of rows
  (`SomeOrder`, `SomeRowIsLast`): the well-founded order of the naturals stands in for induction. It is assumed that `Unknown` is no number.
* `SanitisedIsHarmless`: what `Sanitize` keeps of a configuration of any lines and any length is `Harmless`, and `Stored`
  accepts it, unless the added newline has made it too long. `SanitisedStaysStable` is its instance for the texts
  of the run: `MCSpec => []SanitisedIsStable`. Each fold takes its step line by line (`FoldOfAppend`), so what holds of no line
  and of one line more holds of all (`EveryText`, again by a least number). What holds is `ReadWell`: the text that has been kept, read
  a second time, comes to the same text, directives and block, with at most as many bytes counted in the block (`Mirrors`);
  the search for the remote finds the node's address, and that alone; no more bytes are kept than were read;
  and the kept lines have the `Shape` that makes a complete text harmless. That the second reading may count
  less is needed because a line that is not plain is longer than its canonical form.

`AccountsProofs` proves, for any number of users and requests:

* `AccountsTypeCorrect`: `AccountsSpec => []AccountsTypeOK`.
* `FailuresAreBounded`: `AccountsSpec => []AttemptsBounded`. `BoundInv` says, for each user, that the failures counted and the
  logins past their check together exceed the limit by at most the number of requests minus one; a login
  may pass the check only while the count alone is below the limit.
* `SuperAdminStays`, `SessionsAreFollowed`: `AccountsSpec => []SuperAdminRemains` and `[]SessionsFollowAccounts`; the
  properties speak of histories without overlapping requests. `AloneInv` says, as long as nothing has overlapped,
  what the one request knows: the row that an update has loaded is still the row, one that takes a super administrator
  away has seen another, a login that writes has shown the password that is still valid, and the session of a request is closed
  or its sender's. Without the second part an update between its count and its write could not be shown to leave one.

`KillSwitchRulesProofs` proves, for any number of connections, clients, servers and tracked flows:

* `FirewallsAgree`: `RulesSpec => []BackendsAgree`: IPv4 packets and IPv6 through the tunnel are treated alike, and for other IPv6 it
  says what each backend does. A lemma on each chain says what it decides (`MayLeave`, `MayEnter`, `Maps`,
  `ToNode`, `MayPass`); the chains that drop by policy (nftables) and those that end in a rule that drops (iptables) decide
  the same. This needs nothing of the flows.
* `FlowsAreKnown`: `RulesSpec => []FlowInv`, the invariant of the others. Whichever kill switches come, go and are replaced, a
  flow on the host is an OpenVPN's with a server, masked, or one of a host of the internet with a proxy, mapped, or one of an OpenVPN
  with the proxy that has its server's port (`Calls`); a flow in a namespace is the inner side of one of these; one of a proxy, and one that a server has answered, is known to the host too.
  The last part is why an `established` packet that the output chain lets pass is translated as its flow was, and not sent on
  with whatever address it has. Each packet that may be sent has one of four shapes
  then (`InsideLeaves`, `OutsideEnters`), and each keeps the invariant.
* `NobodyGoesAround`, `NobodyElseEnters`, `NothingIsClosed`: `NoWayAround`, `OnlyAllowedEnter` and `LetsThrough`. The first and the
  second name IPv6 to the host under the fallback as what passes; the third says that OpenVPN reaches its server if and only if no
  proxy has captured its flow.

They assume `DistinctAssumption`: the private networks of the namespaces, the address of the host, those of the internet and the
IPv6 ones are apart, and so is the source port that the kernel picks for a flow from the ports of servers and proxies. Addresses and names are
apart because the code takes them from ranges of their own. Nothing is assumed of the ports of servers and proxies: one may be the
other.

Only model-checked, and why:

* all liveness (`RequestsEnd`, `JobsEnd`, `ScansEnd`, `BatchEnds`): TLAPS 1.4.5 does not reason about ENABLED, hence not about
  fairness.

## 5. Where code and documentation differ

By runs that find a counterexample:

* `conn_restart`: a service that ends in the middle of a first start leaves `STOPPED` in the row, and
  the recovery does not purge what the start left.
* `scan_return`: on Python 3.10, which `pyproject.toml:10` allows, a scan that times out gives its slot
  back while its worker still uses it (`README.md:35` says the slot waits for the cleanup).
* `scan_preserve`: the namespace that a scan keeps for an OpenVPN it could not stop (`README.md:35`)
  is deleted by the rollback of the next scan on the slot, since creating a namespace that exists fails.

Seen with the same modules while they were written, and not among the runs:

* A connection can be deleted while its first start runs, since `STARTING` is never committed; the start goes
  on and leaves a namespace, rules and processes without a row (`ACCEPTANCE.md:33`).
* A readiness check of the proxy that raises (`socks5.py:499`) leaves the start without stopping the proxy; the
  endpoint is marked inactive, later stops skip it, and the kill switch refuses to go (`README.md:37`).
* A switch that waited for the lock may choose the node in use, and one that could not stop the proxy ends
  FAILED with the proxy running (`README.md:15`).
* A start that overlaps another helper of its connection can lose its guard: the helper checks the kill switch
  (`root_helper.py:2689-2704`) before it spawns OpenVPN, and a removal that saw no process (`root_helper.py:1630-1633`) may take
  the rules in between. The other helper may belong to another request, or be one that the executor has given up on
  (`executor.py:111`). This is why `StartsAloneSuffice` speaks of starts that are alone and `KillSwitchGuard` and `KeepsPromise` of a
  connection until there was a race.
* A removal, a replacement or a purge whose list command fails deletes the state file and reports success with rules
  standing (`root_helper.py:859`, `1020`); no later removal or recovery finds them. `NothingButRules` is what can be said of such a
  success.
* A helper that is given up on may still create a namespace, install rules or start a process after its caller has rolled
  back and committed STOPPED or FAILED; so may a request whose commit is refused leave a machine its row does not know of.
* With the iptables fallback IPv6 is not filtered: a process of a namespace reaches the host over the link-local
  addresses of the veth pair, and IPv6 clients reach whatever of the host listens on a SOCKS port. nftables drops both.
* An OpenVPN whose server listens on TCP at a port that is a SOCKS port of a connection without an allowlist is mapped to that
  proxy and never reaches its server (`firewall_rules.py:104-109`); `LetsThrough` says exactly when.
* A row whose exit is the server itself may show the ASN, the organisation, the ISP and the name of an earlier exit
  (`ip_intelligence/service.py:52-55`), where `README.md:11` speaks of the ASN of the actual exit; the country is never
  borrowed in this way.
* With two jobs in line a queued switch writes only the columns that differ from what it had loaded, so the row can name a node
  while the status is the one of another job (`auto_switch/service.py:149`); `RowNamesTunnel` is checked one job at a time.
* A login that has verified a password opens its session after a reset or a deactivation has revoked the user's sessions
  (`auth.py:127`); `SessionsFollowAccounts` is claimed while requests do not overlap.
* Of two sessions that overlap on one node, one undoes the other's verdict (`scanning/service.py:148`), and the row may end with the exit
  of one and the country of the other: `RowFollowsRecords` and `RowDescribesExit` fail without their condition.
* A record of a scan stays RUNNING for good after a crash, a refused commit, an IPv6 address or a
  cancellation while the exit is looked up: `RunningHasScan` names these four cases and shows that there is no fifth.
* A configuration of the greatest size without a newline at its end is stored with one, and is then too large for
  the second validation (`openvpn.py:283`); the node can never be started.
* A switch of a connection with a fixed node is always refused, since the node in use is no candidate.
* Two updates at once can take the role from the last two super administrators: each counts two
  (`users.py:52`).

## 6. Limits

* For the service's modules a start is two steps, any other helper operation one. `OneStepIsEnough`, which is proved, justifies this for
  a helper that runs alone. For helpers that overlap without a start, what `KillSwitchGuard` says of the guard is shown
  command by command in `HelperProcesses`, which is not composed with the service: there any operation
  may begin at any time. Helpers of the proxy and of the iptables rules are not taken apart. What becomes of a connection after a
  race is not followed.
* The switches' commits are never refused, the lifecycle's may be; in `NodeScan` a helper ends before the executor's timeout.
  `RequestsEnd` does not speak of refused commits, after which a request has ended too.
* The abstracted columns (`pid`, `exit_ip`, `connected_at`, texts) follow the status and decide nothing.
* `PENDING`, which no code sets, is left out.
* The enable switches are assumed on: the real drivers are modelled, not the mock ones.
* Ids: the model has one connection whose id may be used again after a deletion. The upper end of the
  id range, shared with the scan slots, is not modelled.

* Between a kill switch that is taken away and one that is applied anew no process runs in the namespace; in
  `KillSwitchRules` this is one step.
* Scans of batches and single scans share permits; `BatchScan` does not model the wait for one.
* A scan of `NodeCatalogue` is one measurement; its steps are in `NodeScan`. Favourites and blocks, single-row writes, are
  left out, and so is the cleaning of CSV columns (an integer too large for the database makes an import fail,
  `parser.py:49`).

## 7. Plan

Done: `RootHelper`, `FailClosedTunnel`, `ConnectionLifecycle`, `AutoSwitch`, `NodeScan`, `BatchScan`,
`KillSwitchRules`, `Accounts`, `HelperProcesses`, `NodeCatalogue`, `OpenVPNConfig`, `CandidateSelection`, with the
proofs of section 4. To come, in this order:

1. `Provisioning`: creating, routing and deleting connections at once: unique SOCKS ports, ids that are used
   again, the overlap of connection ids and scan slots.
2. `Monitor`: the loop of the monitor (on Python 3.10 it ends after its first interval).

Not modelled, and not planned: the classification of addresses and HTTP answers and the unlock checks (stateless functions whose
result a check sees as a choice), administration, dashboard and diagnostics (reads and writes of single
rows), the frontend, and the installation and release tools.

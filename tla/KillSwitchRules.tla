--------------------------- MODULE KillSwitchRules ---------------------------
(***************************************************************************)
(* What the rules of a kill switch (services/network/firewall_rules.py) do *)
(* to packets.  Every connection has a namespace, joined to the host by a  *)
(* veth pair, with its own table or chains inside and on the host; the     *)
(* rules are written twice, for nftables and for iptables.                 *)
(*                                                                         *)
(* RootHelper says when the rules are installed; here they are, and the    *)
(* processes of the namespaces send what they like.  The kernel's part --  *)
(* hooks, routes, connection tracking, address translation -- is modelled  *)
(* from how the rules use it.  Of a rule set only what it matches and its  *)
(* verdict is kept; a command line and an nft line with the same content   *)
(* are the same rule.                                                      *)
(*                                                                         *)
(* The tables of nftables are of family inet and see IPv6 too; the         *)
(* fallback calls iptables only, which does not.                           *)
(***************************************************************************)
EXTENDS Naturals, Sequences, FiniteSets

CONSTANTS
    Connections,   \* a connection also names its veth pair and its SOCKS port
    Clients,       \* addresses of clients of the proxies
    Remotes,       \* addresses of VPN servers
    TcpRemotes,    \* those of them that speak TCP
    Elsewhere,     \* any other address on the internet
    HostAddress,   \* the public address of the host
    RemotePort,    \* per VPN server: its port, which may be a SOCKS port here
    NoSpec,
    MaxFlows       \* flows tracked on the host (for TLC); a namespace may track
                   \* one more

ASSUME RulesAssumption == TcpRemotes \subseteq Remotes /\ MaxFlows \in Nat

VARIABLES
    backend,    \* the firewall of this machine
    forwards,   \* the host forwards what no rule speaks of
    spec,       \* per connection: the specification of its rules
    tunnel,     \* per connection: tun0 is up
    flows       \* the flows the kernel tracks, on the host and per namespace

rulesVars == <<backend, forwards, spec, tunnel, flows>>

Backends == {"nftables", "iptables"}
Protocols == {"tcp", "udp"}

\* FirewallRuleSpec; allow is client_ip_allowlist.  A node has one endpoint, and
\* a connection without a proxy has no list.
Spec ==
    {s \in [remote: Remotes, proto: Protocols, socks: BOOLEAN,
             allow: SUBSET Clients] :
        /\ s.proto = IF s.remote \in TcpRemotes THEN "tcp" ELSE "udp"
        /\ ~s.socks => s.allow = {}}

\* The two addresses of the connection's /30 network, and that of its tun0.
Gateway(c) == <<"gateway", c>>
Inside(c) == <<"inside", c>>
TunAddress(c) == <<"tun0", c>>

\* By IPv6 the two ends of the veth pair have their link-local addresses only.
Gateway6(c) == <<"gateway6", c>>
Inside6(c) == <<"inside6", c>>
HostAddress6 == <<"host6", HostAddress>>
Elsewhere6 == <<"elsewhere6", Elsewhere>>
Addresses6 == {HostAddress6, Elsewhere6}
              \cup UNION {{Gateway6(c), Inside6(c)} : c \in Connections}

\* The source port of the flow that x opens to d; the kernel keeps them apart.
Own(x, d) == <<"own", x, d>>

Outside == Clients \cup Remotes \cup {Elsewhere}
Ports == Connections \cup {RemotePort[n] : n \in Remotes}

\* The other names of interfaces, of hooks and of what becomes of a packet.
Reserved == {"lo", "veth", "tun0", "eth0", "none", "local", "host", "outside",
             "stopped", "dropped"}

\* What the kernel is given apart: names, the private networks of the namespaces
\* and public addresses, the ports of servers, of proxies and of clients.
ASSUME DistinctAssumption ==
    /\ Connections \cap Reserved = {}
    /\ \A c \in Connections : \A a \in Outside \cup {HostAddress} :
           a \notin {Gateway(c), Inside(c), TunAddress(c)}
    /\ HostAddress \notin Outside
    /\ (Outside \cup {HostAddress}) \cap Addresses6 = {}
    /\ \A x \in Connections \cup Outside :
           \A d \in Outside \cup {HostAddress} \cup {Gateway(c) : c \in Connections} :
               Own(x, d) \notin Ports

Invert(p) ==
    [family |-> p.family, src |-> p.dst, dst |-> p.src, proto |-> p.proto,
     sport |-> p.dport, dport |-> p.sport]

-----------------------------------------------------------------------------
\* The rules.

\* A packet, where a chain sees it.
Frame(p, iif, oif, ct) ==
    [family |-> p.family, src |-> p.src, dst |-> p.dst, proto |-> p.proto,
     sport |-> p.sport, dport |-> p.dport, iif |-> iif, oif |-> oif, ct |-> ct]

\* A rule matches by some fields, each with the values it allows.
Rule(match, verdict) == [match |-> match, verdict |-> verdict]
Anything == {}
Has(field, value) == {<<field, {value}>>}

Matches(rule, frame) ==
    \A m \in rule.match : frame[m[1]] \in m[2]

\* The first rule that matches decides.
Verdict(chain, frame, policy) ==
    LET hits == {i \in DOMAIN chain : Matches(chain[i], frame)}
    IN  IF hits = {} THEN policy
        ELSE chain[CHOOSE i \in hits : \A j \in hits : i <= j].verdict

ToRemote(s) ==
    Has("dst", s.remote) \cup Has("proto", s.proto) \cup Has("dport", RemotePort[s.remote])
FromRemote(s) ==
    Has("src", s.remote) \cup Has("proto", s.proto) \cup Has("sport", RemotePort[s.remote])
ToSocks(c) == Has("proto", "tcp") \cup Has("dport", c)
Known == Has("ct", "established")
NewOrKnown == {<<"ct", {"new", "established"}>>}

Ip4 == Has("family", "ip4")

\* Mutant: the list of the connection is forgotten.
FromAnyone(s) == Ip4

\* One rule per address of the allowlist, or one without a source; both translate
\* to an IPv4 address, and neither names an interface or a destination.
FromAllowed(s) == IF s.allow = {} THEN Ip4 ELSE Ip4 \cup {<<"src", s.allow>>}

IfSocks(s, rules) == IF s.socks THEN rules ELSE <<>>

\* nft_rule_set: the chains of the namespace, which drop by policy, and those of
\* the host, which leave to others what they do not match.
NftRules(c, s, hook) ==
    CASE hook = "output" ->
            <<Rule(Has("oif", "lo"), "accept"),
              Rule(Known, "accept"),
              Rule(Has("oif", "veth") \cup ToRemote(s), "accept"),
              Rule(Has("oif", "tun0"), "accept")>>
      [] hook = "input" ->
            <<Rule(Has("iif", "lo"), "accept"),
              Rule(Known, "accept")>>
            \o IfSocks(s,
                 <<Rule(Has("iif", "veth") \cup Has("src", Gateway(c)) \cup ToSocks(c),
                        "accept")>>)
      [] hook = "prerouting" ->
            IfSocks(s, <<Rule(FromAllowed(s) \cup ToSocks(c), "dnat")>>)
      [] hook = "hostInput" ->
            IfSocks(s, <<Rule(ToSocks(c), "drop")>>)
      [] hook = "postrouting" ->
            <<Rule(Has("src", Inside(c)) \cup ToRemote(s), "masquerade")>>
            \o IfSocks(s, <<Rule(Has("dst", Inside(c)) \cup ToSocks(c), "snat")>>)
      [] hook = "forward" ->
            <<Rule(Has("iif", c) \cup Has("src", Inside(c)) \cup ToRemote(s)
                   \cup NewOrKnown, "accept"),
              Rule(Has("oif", c) \cup Has("dst", Inside(c)) \cup FromRemote(s)
                   \cup Known, "accept")>>
            \o IfSocks(s,
                 <<Rule(Has("oif", c) \cup Has("dst", Inside(c)) \cup ToSocks(c)
                        \cup NewOrKnown, "accept"),
                   Rule(Has("iif", c) \cup Has("src", Inside(c)) \cup Known, "accept")>>)

\* iptables_rule_set, namespace: chains that end in a rule that drops.
IptablesInside(c, s, hook) ==
    CASE hook = "output" ->
            <<Rule(Has("oif", "lo"), "accept"),
              Rule(Known, "accept"),
              Rule(Has("oif", "veth") \cup ToRemote(s), "accept"),
              Rule(Has("oif", "tun0"), "accept"),
              Rule(Anything, "drop")>>
      [] hook = "input" ->
            <<Rule(Has("iif", "lo"), "accept"),
              Rule(Known, "accept")>>
            \o IfSocks(s,
                 <<Rule(Has("iif", "veth") \cup Has("src", Gateway(c)) \cup ToSocks(c),
                        "accept")>>)
            \o <<Rule(Anything, "drop")>>

\* iptables_rule_set, host: chains that return what they do not match.
IptablesHost(c, s, hook) ==
    CASE hook = "prerouting" ->
            IfSocks(s, <<Rule(FromAllowed(s) \cup ToSocks(c), "dnat")>>)
      [] hook = "hostInput" ->
            IfSocks(s, <<Rule(ToSocks(c), "drop")>>)
      [] hook = "postrouting" ->
            <<Rule(Has("src", Inside(c)) \cup ToRemote(s), "masquerade")>>
            \o IfSocks(s, <<Rule(Has("dst", Inside(c)) \cup ToSocks(c), "snat")>>)
      [] hook = "forward" ->
            <<Rule(Has("iif", c) \cup Has("src", Inside(c)) \cup ToRemote(s)
                   \cup NewOrKnown, "accept"),
              Rule(Has("oif", c) \cup Has("dst", Inside(c)) \cup FromRemote(s)
                   \cup Known, "accept")>>
            \o IfSocks(s,
                 <<Rule(Has("oif", c) \cup Has("dst", Inside(c)) \cup ToSocks(c)
                        \cup NewOrKnown, "accept"),
                   Rule(Has("iif", c) \cup Has("src", Inside(c)) \cup Known, "accept")>>)

\* The chain of connection c at a hook.
RuleSets(b, c, hook) ==
    IF b = "nftables" THEN NftRules(c, spec[c], hook)
    ELSE IF hook \in {"output", "input"} THEN IptablesInside(c, spec[c], hook)
    ELSE IptablesHost(c, spec[c], hook)

\* Mutant: the output chain of iptables does not end in a rule that drops.
RulesUnended(b, c, hook) ==
    IF hook = "output" THEN SubSeq(RuleSets(b, c, hook), 1, 4) ELSE RuleSets(b, c, hook)

\* Mutant: the rules of iptables that accept the proxy's packets are missing.
RulesWithoutProxy(b, c, hook) ==
    IF b = "iptables" /\ hook = "forward" THEN SubSeq(RuleSets(b, c, hook), 1, 2)
    ELSE RuleSets(b, c, hook)

\* The chain under firewall b, and what the namespace's chains do to the rest.
Rules(b, c, hook) == RuleSets(b, c, hook)

\* What the chain makes of a frame.  That of iptables does not see IPv6, which
\* nothing else filters.
Outcome(b, c, hook, frame, policy) ==
    IF b = "iptables" /\ frame.family = "ip6" THEN policy
    ELSE Verdict(Rules(b, c, hook), frame, policy)

\* Mutant: the chains of nftables in the namespace accept by policy.
InsidePolicyOpen(b) == "accept"

InsidePolicy(b) == IF b = "nftables" THEN "drop" ELSE "accept"

-----------------------------------------------------------------------------
\* The kernel.

Installed == {c \in Connections : spec[c] # NoSpec}

\* A flow is established once an answer was seen.
State(place, p) ==
    IF \E f \in flows[place] : f.reply = p \/ (f.orig = p /\ f.answered)
    THEN "established" ELSE "new"

\* The flows of a place that packet p belongs to.
FlowsOf(place, p) == {f \in flows[place] : p \in {f.orig, f.reply}}

\* The flows of a place after packet p, whose answer is to be the packet reply.
Tracked(entries, p, reply) ==
    IF \E f \in entries : f.reply = p
    THEN {IF f.reply = p THEN [f EXCEPT !.answered = TRUE] ELSE f : f \in entries}
    ELSE IF \E f \in entries : f.orig = p
    THEN entries
    ELSE entries \cup {[orig |-> p, reply |-> reply, answered |-> FALSE]}

\* Where a namespace sends a packet: OpenVPN keeps a route to its server, the
\* rest goes through tun0 while it is up, and else to the gateway.
RouteInside(c, dst) ==
    IF tunnel[c] /\ dst \notin {Gateway(c), Gateway6(c), spec[c].remote}
    THEN "tun0" ELSE "veth"

RouteOnHost(dst) ==
    CASE dst \in {HostAddress, HostAddress6}
                \cup UNION {{Gateway(c), Gateway6(c)} : c \in Connections} -> "local"
      [] dst \in {Inside(c) : c \in Installed} ->
             CHOOSE c \in Installed : dst = Inside(c)
      [] OTHER -> "eth0"

\* The connections whose rules for a hook of the host give this verdict.
Deciding(b, hook, frame, verdict) ==
    {c \in Installed : Outcome(b, c, hook, frame, "none") = verdict}

\* The destination and the source that the rules give the first packet of a flow.
DestinationIn(b, frame) ==
    LET inward == Deciding(b, "prerouting", frame, "dnat")
    IN  IF inward = {} THEN frame.dst ELSE Inside(CHOOSE c \in inward : TRUE)

SourceOut(b, frame) ==
    LET snat == Deciding(b, "postrouting", frame, "snat")
    IN  IF Deciding(b, "postrouting", frame, "masquerade") # {} THEN HostAddress
        ELSE IF snat # {} THEN Gateway(CHOOSE c \in snat : TRUE) ELSE frame.src

WithSource(b, p) ==
    [p EXCEPT !.src = SourceOut(b, Frame(p, "none", RouteOnHost(p.dst), "new"))]

\* The packet as it leaves the host: the first packet of a flow is translated by
\* the rules, the others like the first.
Translated(b, p, iif) ==
    IF FlowsOf("host", p) # {}
    THEN LET f == CHOOSE f \in FlowsOf("host", p) : TRUE
         IN  Invert(IF p = f.orig THEN f.reply ELSE f.orig)
    ELSE WithSource(b, [p EXCEPT !.dst = DestinationIn(b, Frame(p, iif, "none", "new"))])

\* An iptables chain that accepts a packet overrules the policy of the host; what
\* an nft table accepts the chains after it may still drop.
HostForwards(b, frame) ==
    forwards \/ (b = "iptables" /\ Deciding(b, "forward", frame, "accept") # {})

\* The interface that takes packet p to its end, once it is translated to final.
Passed(b, p, iif, final) ==
    LET routed == [p EXCEPT !.dst = final.dst]
        oif == RouteOnHost(final.dst)
        ct == State("host", p)
    IN  IF oif = "local"
        THEN IF Deciding(b, "hostInput", Frame(routed, iif, "none", ct), "drop") = {}
             THEN "host" ELSE "dropped"
        ELSE IF ~HostForwards(b, Frame(routed, iif, oif, ct)) THEN "dropped"
        ELSE IF oif \in Connections
                /\ Outcome(b, oif, "input",
                           Frame(final, "veth", "none", State(oif, final)),
                           InsidePolicy(b)) # "accept"
        THEN "dropped"
        ELSE oif

Delivered(b, p, iif, final) == [at |-> Passed(b, p, iif, final), packet |-> final]

\* Where a packet that reaches the host ends, and how it looks there.
OnHost(b, p, iif) == Delivered(b, p, iif, Translated(b, p, iif))

\* Where a packet ends that a process in the namespace of c sends.
FromInside(b, c, p) ==
    LET oif == RouteInside(c, p.dst)
        out == Outcome(b, c, "output", Frame(p, "none", oif, State(c, p)), InsidePolicy(b))
    IN  IF out # "accept" THEN [at |-> "stopped", packet |-> p]
        ELSE IF oif = "tun0" THEN [at |-> "tun0", packet |-> p]
        ELSE OnHost(b, p, c)

\* What the processes of a namespace may send: to open a flow, with the address
\* of the interface it leaves by, or to answer one that came in.  By IPv6 the
\* namespace has no route but its link to the host, and the tunnel while it is up.
SentInside(c) ==
    {[family |-> "ip4",
      src |-> IF RouteInside(c, d) = "tun0" THEN TunAddress(c) ELSE Inside(c),
      dst |-> d, proto |-> t, sport |-> Own(c, d), dport |-> port] :
        d \in Outside \cup {HostAddress, Gateway(c)} \cup {Inside(e) : e \in Connections \ {c}},
        t \in Protocols, port \in Ports}
    \cup {[family |-> "ip6",
           src |-> IF RouteInside(c, d) = "tun0" THEN TunAddress(c) ELSE Inside6(c),
           dst |-> d, proto |-> t, sport |-> Own(c, d), dport |-> port] :
             d \in {Gateway6(c)} \cup (IF tunnel[c] THEN {Elsewhere6} ELSE {}),
             t \in Protocols, port \in Ports}
    \cup {f.reply : f \in {g \in flows[c] : g.orig.dst = Inside(c)}}

\* What the internet may send to the host, answers included.
SentOutside ==
    {[family |-> "ip4", src |-> a, dst |-> HostAddress, proto |-> t,
      sport |-> Own(a, HostAddress), dport |-> port] :
        a \in Outside, t \in Protocols, port \in Ports}
    \cup {[family |-> "ip6", src |-> Elsewhere6, dst |-> HostAddress6, proto |-> t,
           sport |-> Own(Elsewhere6, HostAddress6), dport |-> port] :
             t \in Protocols, port \in Ports}
    \cup {f.reply : f \in {g \in flows["host"] : g.reply.dst = HostAddress}}

-----------------------------------------------------------------------------
RulesInit ==
    /\ backend \in Backends
    /\ forwards \in BOOLEAN
    /\ spec = [c \in Connections |-> NoSpec]
    /\ tunnel = [c \in Connections |-> FALSE]
    /\ flows = [place \in Connections \cup {"host"} |-> {}]

\* A kill switch is installed, or replaced for another node, while no process
\* runs in the namespace; the kernel keeps its flows.
Install(c) ==
    /\ ~tunnel[c]
    /\ \E s \in Spec : spec' = [spec EXCEPT ![c] = s]
    /\ UNCHANGED <<backend, forwards, tunnel, flows>>

\* It goes together with the namespace; rules that go and come back while the
\* namespace stays are an Install.
Uninstall(c) ==
    /\ spec[c] # NoSpec /\ ~tunnel[c]
    /\ spec' = [spec EXCEPT ![c] = NoSpec]
    /\ flows' = [flows EXCEPT ![c] = {}]
    /\ UNCHANGED <<backend, forwards, tunnel>>

TunnelUp(c) ==
    /\ spec[c] # NoSpec
    /\ tunnel' = [tunnel EXCEPT ![c] = TRUE]
    /\ UNCHANGED <<backend, forwards, spec, flows>>

TunnelDown(c) ==
    /\ tunnel[c]
    /\ tunnel' = [tunnel EXCEPT ![c] = FALSE]
    /\ UNCHANGED <<backend, forwards, spec, flows>>

\* The places that see packet p on its way to the end e: the namespace it leaves,
\* the host, and the namespace it enters, which may be the one it left.  Flows
\* through tun0 and flows with the host itself decide nothing later.
SeenFrom(entries, p, e) ==
    IF e.at \in {"stopped", "tun0", "host"} THEN entries ELSE Tracked(entries, p, Invert(p))

Track(from, p, e) ==
    /\ flows' = [place \in DOMAIN flows |->
           LET left == IF place = from THEN SeenFrom(flows[place], p, e) ELSE flows[place]
           IN  CASE place = "host" /\ e.at \in Connections \cup {"eth0"} ->
                        Tracked(left, p, Invert(e.packet))
                 [] place \in Connections /\ place = e.at ->
                        Tracked(left, e.packet, Invert(e.packet))
                 [] OTHER -> left]
    /\ \A place \in DOMAIN flows :
           Cardinality(flows'[place]) <= IF place = "host" THEN MaxFlows ELSE MaxFlows + 1
    /\ UNCHANGED <<backend, forwards, spec, tunnel>>

SendInside(c) ==
    /\ spec[c] # NoSpec
    /\ \E p \in SentInside(c) :
           \E e \in {FromInside(backend, c, p)} : Track(c, p, e)

SendOutside ==
    \E p \in SentOutside :
        \E e \in {OnHost(backend, p, "eth0")} : Track("outside", p, e)

RulesNext ==
    \/ \E c \in Connections :
           \/ Install(c) \/ Uninstall(c) \/ TunnelUp(c) \/ TunnelDown(c)
           \/ SendInside(c)
    \/ SendOutside

RulesSpec == RulesInit /\ [][RulesNext]_rulesVars

-----------------------------------------------------------------------------
\* Properties.

\* Whatever a process of a namespace sends, and whatever flows are left from
\* another node or a tunnel that is gone: outside the tunnel it goes to the
\* endpoint of a VPN server, by a new flow only to that of the connection's node,
\* or it is an answer to whoever called its proxy.  What is sent to a server ends
\* there, or at the proxy whose port the server's is.  By IPv6 it reaches the host
\* and nothing else, and that only with iptables (firewall_rules.py, README.md:
\* no way around the tunnel).
NoWayAround ==
    \A c \in Installed : \A p \in SentInside(c) :
        \A e \in {FromInside(backend, c, p)} :
            e.at \notin {"stopped", "dropped", "tun0"} =>
                \/ /\ p.dst \in Remotes /\ p.dport = RemotePort[p.dst]
                   /\ State(c, p) = "new" => p.dst = spec[c].remote /\ p.proto = spec[c].proto
                   /\ \/ e.at = "eth0" /\ e.packet.dst = p.dst
                      \/ e.at \in {"eth0", p.dport} /\ e.packet.dst = Inside(p.dport)
                \/ /\ p.sport = c /\ State(c, p) = "established"
                   /\ \/ e.at = "eth0" /\ e.packet.dst \in Outside
                      \/ \E d \in Connections :
                             e.at \in {"eth0", d} /\ e.packet.dst = Inside(d)
                \/ p.family = "ip6" /\ e.at = "host" /\ backend = "iptables"

\* Only those open a flow into a namespace whom the list of its connection allows,
\* and only by the port of its proxy: from the internet, and from a namespace only
\* if there is no list.  Nobody reaches a process of the host by that port, but by
\* IPv6 with iptables (firewall_rules.py, README.md: the port is mapped by the
\* allowlist).
OnlyAllowedEnter ==
    /\ \A p \in SentOutside :
           \A e \in {OnHost(backend, p, "eth0")} :
               /\ e.at \in Connections /\ FlowsOf("host", p) = {} =>
                      /\ p.proto = "tcp" /\ p.dport = e.at /\ spec[e.at].socks
                      /\ spec[e.at].allow = {} \/ p.src \in spec[e.at].allow
               /\ e.at = "host" /\ p.proto = "tcp" /\ p.dport \in Installed =>
                      ~spec[p.dport].socks \/ (p.family = "ip6" /\ backend = "iptables")
    /\ \A c \in Installed : \A p \in SentInside(c) :
           \A e \in {FromInside(backend, c, p)} :
               e.at \in Connections /\ FlowsOf("host", p) = {} =>
                   /\ p.proto = "tcp" /\ p.dport = e.at
                   /\ spec[e.at].socks /\ spec[e.at].allow = {}

\* OpenVPN to its server, and a client to the proxy.
ToServer(c) ==
    [family |-> "ip4", src |-> Inside(c), dst |-> spec[c].remote, proto |-> spec[c].proto,
     sport |-> Own(c, spec[c].remote), dport |-> RemotePort[spec[c].remote]]
ToProxy(k, c) ==
    [family |-> "ip4", src |-> k, dst |-> HostAddress, proto |-> "tcp",
     sport |-> Own(k, HostAddress), dport |-> c]

\* The port of the server is that of a proxy without a list, which takes the flow
\* of OpenVPN from its first packet on.
Captured(c) ==
    LET p == ToServer(c)
    IN  IF FlowsOf("host", p) = {}
        THEN \E e \in Installed :
                 p.proto = "tcp" /\ p.dport = e /\ spec[e].socks /\ spec[e].allow = {}
        ELSE \E f \in FlowsOf("host", p) : f.reply.src # spec[c].remote

\* The rules close nothing that has to be open, whatever other connections have
\* installed, but for one case: OpenVPN reaches its server unless its flow is
\* captured, an allowed client reaches the proxy, and the proxy's answer the
\* client -- with nftables only on a host that forwards, with iptables on any
\* (firewall_rules.py).
LetsThrough ==
    backend = "iptables" \/ forwards => \A c \in Installed :
        /\ \A e \in {FromInside(backend, c, ToServer(c))} :
               (e.at = "eth0" /\ e.packet.dst = spec[c].remote /\ e.packet.src = HostAddress)
                   <=> ~Captured(c)
        /\ spec[c].socks => \A k \in Outside :
               /\ spec[c].allow = {} \/ k \in spec[c].allow =>
                      OnHost(backend, ToProxy(k, c), "eth0").at = c
               /\ \A f \in {g \in flows[c] : /\ g.orig.dst = Inside(c)
                                             /\ g.orig.sport = Own(k, HostAddress)} :
                      FromInside(backend, c, f.reply)
                          = [at |-> "eth0", packet |-> Invert(ToProxy(k, c))]

\* A machine that falls back to iptables treats every IPv4 packet as nftables does
\* (nft_rule_set and iptables_rule_set are written apart), and IPv6 through the
\* tunnel.  It lets IPv6 pass from a namespace to the host, and to a process of
\* the host that has the port of a proxy; nftables drops both.  Neither decides a
\* later packet, so both reach the same states until they differ elsewhere: those
\* of nftables are enough to look at.
BackendsAgree ==
    backend = "nftables" /\ forwards =>
        /\ \A c \in Installed : \A p \in SentInside(c) :
               IF p.family = "ip6" /\ RouteInside(c, p.dst) # "tun0"
               THEN /\ FromInside("nftables", c, p).at = "stopped"
                    /\ FromInside("iptables", c, p).at = "host"
               ELSE FromInside("nftables", c, p) = FromInside("iptables", c, p)
        /\ \A p \in SentOutside :
               IF /\ p.family = "ip6" /\ p.proto = "tcp"
                  /\ p.dport \in Installed /\ spec[p.dport].socks
               THEN /\ OnHost("nftables", p, "eth0").at = "dropped"
                    /\ OnHost("iptables", p, "eth0").at = "host"
               ELSE OnHost("nftables", p, "eth0") = OnHost("iptables", p, "eth0")
=============================================================================

\* Two connections with a client on either side of the allowlists, and two nodes,
\* one of each protocol.
CONSTANTS
    Connections = {c1, c2}
    Clients = {k1}
    Remotes = {n1, n2}
    TcpRemotes = {n1}
    Elsewhere = Elsewhere
    HostAddress = HostAddress
    RemotePort <- MCPorts
    c1 = c1
    n1 = n1
    n2 = n2
    c2 = c2
    NoSpec = NoSpec
    MaxFlows = 1
SPECIFICATION RulesSpec
INVARIANT NoWayAround
INVARIANT OnlyAllowedEnter
INVARIANT LetsThrough
INVARIANT BackendsAgree

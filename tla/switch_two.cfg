\* Two jobs on a running connection, no lifecycle request, crashes.
CONSTANTS
    Nodes = {n1, n2}
    NoNode = NoNode
    Requests = {}
    Strays = {}
    Survivors = {"vpn", "socks"}
    Jobs = {j1, j2}
    Threshold = 2
    MaxSwitches = 1
    FailureBound = 2
SPECIFICATION FairSwitchSpec
INVARIANT SwitchTypeOK
INVARIANT RateLimit
INVARIANT NoProxyBeforeVerified
PROPERTY JobsEnd

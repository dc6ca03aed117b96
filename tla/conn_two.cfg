\* Two requests at once, one helper that outlives its call, crashes.
CONSTANTS
    Nodes = {n1, n2}
    NoNode = NoNode
    Requests = {r1, r2}
    Strays = {k1}
    Survivors = {"vpn", "socks", "helper"}
SPECIFICATION Spec
SYMMETRY Symmetry
CONSTRAINT Followed
INVARIANT TypeOK
INVARIANT KillSwitchGuard
PROPERTY RecoveryFailsClosed
PROPERTY KeepsPromise

\* Python 3.10.
CONSTANTS
    Nodes = {n1}
    NoNode = NoNode
    Scans = {c1, c2}
    Concurrency = 1
    BuiltinTimeout = FALSE
    VpnSurvives = FALSE
SPECIFICATION ScanSpec
INVARIANT SlotReturnedIdle

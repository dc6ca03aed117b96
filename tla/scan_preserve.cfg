\* One slot, used again after a scan that could not stop its OpenVPN.
CONSTANTS
    Nodes = {n1}
    NoNode = NoNode
    Scans = {c1, c2}
    Concurrency = 1
    BuiltinTimeout = TRUE
    VpnSurvives = FALSE
SPECIFICATION ScanSpec
PROPERTY PreservedNamespaceStays

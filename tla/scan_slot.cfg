\* Three scans for one permit, whose slot keeps what earlier scans left.
CONSTANTS
    Nodes = {n1}
    NoNode = NoNode
    Scans = {c1, c2, c3}
    Concurrency = 1
    BuiltinTimeout = TRUE
    VpnSurvives = TRUE
SPECIFICATION FairScanSpec
INVARIANT ScanTypeOK
INVARIANT SlotsGuarded
INVARIANT SuccessIsClean
INVARIANT OneWorkerPerSlot
INVARIANT SlotForEachPermit
PROPERTY ScansEnd

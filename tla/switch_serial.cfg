\* A request or a job at a time, and no crash.
CONSTANTS
    Nodes = {n1, n2, n3}
    NoNode = NoNode
    Requests = {r1}
    Strays = {}
    Survivors = {}
    Jobs = {j1}
    Threshold = 2
    MaxSwitches = 2
    FailureBound = 4
SPECIFICATION SerialSpec
INVARIANTS StoppedIsClean RowNamesTunnel
PROPERTY RequestsEnd

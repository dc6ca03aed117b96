SPECIFICATION Spec
CONSTANTS
    Nodes = {n1, n2}
    NoNode = NoNode
    Helpers = {h1, h2}
    Pids = {p1, p2}
    NoPid = NoPid
INVARIANTS TypeOK StartsAloneSuffice
PROPERTY OneStepIsEnough
SYMMETRY Interchangeable
CHECK_DEADLOCK FALSE

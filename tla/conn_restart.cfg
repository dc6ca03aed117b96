CONSTANTS
    Nodes = {n1}
    NoNode = NoNode
    Requests = {r1}
    Strays = {}
    Survivors = {}
SPECIFICATION Spec
PROPERTY RestartPurges

CONSTANTS
    Node = {n1, n2, n3}
    NoNode = NoNode
    NoReq = NoReq
    Null = Null
    Budgets <- SyncAndMove
SYMMETRY Nodes
SPECIFICATION Spec
INVARIANT OnePrimary
CHECK_DEADLOCK FALSE

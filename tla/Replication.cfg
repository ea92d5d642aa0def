CONSTANTS
    Node = {n1, n2, n3}
    NoNode = NoNode
    NoReq = NoReq
    Null = Null
    Budgets <- MCBudgets
SYMMETRY Nodes
SPECIFICATION Spec
INVARIANTS TypeOK AppsAgree CommittedSurvives OnePrimary NoCheckFails
PROPERTY Monotonic
CHECK_DEADLOCK FALSE

SPECIFICATION FairSpec
CONSTANTS
    Node = {n1, n2}
    Null = Null
    Budgets <- MCBudgets
INVARIANTS TypeOK ChildCounted ChildComplete ChildGroupWhole ServedOnce NoCheckFails
PROPERTIES SplitEnds ParentServes ChildServes
CHECK_DEADLOCK FALSE

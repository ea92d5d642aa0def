SPECIFICATION FairSpec
CONSTANTS
    Node = {n1, n2}
    Null = Null
    Budgets <- WaitBudgets
PROPERTY WaitEnds
CHECK_DEADLOCK FALSE

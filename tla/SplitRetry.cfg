SPECIFICATION Spec
CONSTANTS
    Node = {n1, n2}
    Null = Null
    Budgets <- RetryBudgets
INVARIANT RetryFindsInactive
CHECK_DEADLOCK FALSE

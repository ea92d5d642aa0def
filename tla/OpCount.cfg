\* An atomic write is refused.
SPECIFICATION Spec
CONSTANTS
    Row = {r1, r2}
    Null = Null
    MaxConcurrentOp = 3
    MaxBatch = 2
    MaxRequests = 4
    Budgets <- RefusedBudgets
INVARIANT OpCountIsRunning
CHECK_DEADLOCK FALSE

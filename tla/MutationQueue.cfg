\* Refused atomic writes, a lost and regained role, another primary's mutation;
\* or one term with a lock table of one entry and an empty write.
SPECIFICATION Spec
CONSTANTS
    Row = {r1, r2}
    Null = Null
    MaxConcurrentOp = 3
    MaxBatch = 2
    MaxRequests = 4
    Budgets <- MCBudgets
INVARIANT TypeOK
INVARIANT AtomicAlone
INVARIANT AtomicReadsOwnWrites
INVARIANT AtomicReadsApplied
PROPERTY QueueDrains
CHECK_DEADLOCK FALSE

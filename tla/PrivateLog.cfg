SPECIFICATION Spec
CONSTANTS
    Null = Null
    MaxFileSize = 3
    MinFileSize = 2
    Budgets <- MCBudgets
INVARIANTS TypeOK AckedRecoverable LearnStateComplete UnconfirmedKept
CHECK_DEADLOCK FALSE

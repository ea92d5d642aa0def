SPECIFICATION FairSpec
CONSTANTS
  Nodes = {A, B}
  Null = Null
  MaxDecree = 2
  MaxBallot = 3
  Capacity = 3
  InitCommitted = 1
  Budgets <- MCBudgets
INVARIANTS TypeOK AppsAgree NoCheckFails MemberComplete
PROPERTY LearningEnds
CHECK_DEADLOCK FALSE

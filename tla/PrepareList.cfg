CONSTANTS
    MaxCount    = 3
    Staleness   = 2
    MCMaxDecree = 5
    MCMaxBallot = 2
    Null        = Null
    Decree      <- MCDecree
    Mutation    <- MCMutation
SPECIFICATION PLSpec
INVARIANTS PLTypeOK PopLoopEnds PrepareNeverRefused
PROPERTY UncommittedKept

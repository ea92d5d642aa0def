CONSTANTS
    MaxCount    = 3
    MCMaxDecree = 7
    MCMaxBallot = 2
    Null        = Null
    Decree      <- MCDecree
    Mutation    <- MCMutation
SPECIFICATION Spec
INVARIANTS TypeOK SlotInv
PROPERTY WindowSpec

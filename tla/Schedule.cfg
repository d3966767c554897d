CONSTANTS
    main = main
    side = side
    env = env
    x = x
    MaxCells = 4
    CellIds = {1, 2, 3, 4, 5}
    Chains = {main, side}
    Isolated = Isolated
    Environments = {env}
    Codes = {x}
    Nonces = {}
    NoNonce = NoNonce
    NoKey = NoKey
    NoCell = NoCell
    Plans <- AllPlans
    MaxConcurrent = 2
SPECIFICATION FairSpec
CHECK_DEADLOCK FALSE
INVARIANTS
    ReadyIsExact
    FailureBlocksOwnSuffix
PROPERTIES
    DocumentOrder
    Finishes

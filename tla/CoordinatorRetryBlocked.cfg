CONSTANTS
    a = a
    b = b
    c = c
    d = d
    main = main
    side = side
    env = env
    env2 = env2
    x = x
    y = y
    z = z
    nonce1 = nonce1
    nonce2 = nonce2
    CellIds = {a, b, c, d}
    Chains = {main, side}
    Isolated = Isolated
    Environments = {env, env2}
    Codes = {x, y, z}
    Nonces = {nonce1, nonce2}
    NoNonce = NoNonce
    NoKey = NoKey
    NoCell = NoCell
    NoAttempt = NoAttempt
    Dead = Dead
    Dirty = Dirty
    Plans <- ChainPlans
    MaxConcurrent = 1
    WithStore = FALSE
    Failures = {"Failed"}
    Faults = {}
    MaxEdits = 1
    MaxRetries = 1
    MaxFaults = 0
    MaxEvents = 0
SPECIFICATION Spec
CHECK_DEADLOCK FALSE
INVARIANTS
    FailureBlocksSuffix

SPECIFICATION Spec
CONSTANTS
    u1 = u1
    u2 = u2
    n1 = n1
    a1 = a1
    a2 = a2
    h1 = h1
    h2 = h2
    c1 = c1
    c2 = c2
    p = p
    q = q
    None = None
    Users = {u1, u2}
    Names = {a1, a2}
    AliasHashes = {h1, h2}
    ChatIds = {c1, c2}
    FirstBalance = 2
    Fee = 1
    MaintenanceFee = 1
    MaintenanceInterval = 2
    DefaultToll = 1
    Faucet = 2
    Amounts = {1}
    Tolls = {2}
    Holdings <- MCHoldings
    Mixes <- MCDistributeMix
    MaxCodes = 2
    MaxMinted = 6
    MaxStep = 1
    MaxTime = 3
    Nodes = {n1}
    StakeLevels = {1, 2}
    RewardInterval = 1
    RewardAmount = 1
    Lag = 1
    Paths = {p, q}
    Cycles <- MCCycles
    Keep = 2
    MaxAge = 3
    Delay = 1
    MaxChanges = 4
    MaxCycle = 3
SYMMETRY MCSymmetry
INVARIANTS
    TokensConserved
CHECK_DEADLOCK FALSE

SPECIFICATION Spec
CONSTANTS
    u1 = u1
    u2 = u2
    n1 = n1
    n2 = n2
    None = None
    Users = {u1}
    Nodes = {n1}
    InitialBalance = 2
    Deposits = {2}
    MinStake = 2
    TxFee = 0
    PenaltyPercent = 50
    Slashed = {"LeftNetworkEarly", "NodeRefuted"}
    Rate = 1
    CertLife = 2
    JoinMargin = 1
    Cooldown = 1
    MaxCerts = 1
    MaxPending = 2
    MaxQueue = 2
    MaxTime = 5
INVARIANTS
    BooksBalance
    NoUnearnedReward
CHECK_DEADLOCK FALSE

SPECIFICATION Spec
CONSTANTS
    u1 = u1
    u2 = u2
    n1 = n1
    n2 = n2
    None = None
    Users <- MCUsers
    Nodes <- MCNodes
    InitialBalance = 4
    Deposits <- MCDeposits
    MinStake = 2
    TxFee = 0
    PenaltyPercent = 50
    Slashed = {"SyncingTooLong"}
    Rate = 0
    CertLife = 2
    JoinMargin = 1
    Cooldown = 1
    MaxCerts = 1
    MaxPending = 1
    MaxQueue = 0
    MaxTime = 5
SYMMETRY MCSymmetry
INVARIANTS
    TypeOK
    StakeIsPaired
    LiveCertificateIsBacked
CHECK_DEADLOCK FALSE

SPECIFICATION JoinSpec
CONSTANTS
    u1 = u1
    n1 = n1
    None = None
    NoCert = NoCert
    Users <- MCOneUser
    Nodes <- MCNodes
    InitialBalance = 6
    Deposits = {2}
    MinStake = 2
    TxFee = 1
    PenaltyPercent = 50
    Slashed = {"SyncingTooLong"}
    Rate = 0
    CertLife = 7
    JoinMargin = 2
    Cooldown = 1
    MaxCerts = 3
    MaxPending = 2
    MaxQueue = 0
    MaxTime = 11
    MaxFaults = 2
INVARIANTS
    JoinTypeOK
    BooksBalance
    ReadyMayJoin
    HeldStakeIsAccounted
    GetsReady
    RenewalsAreFree
CHECK_DEADLOCK FALSE

SPECIFICATION Spec
CONSTANTS
    u1 = u1
    u2 = u2
    n1 = n1
    n2 = n2
    None = None
    Users = {u1}
    Nodes = {n1}
    InitialBalance = 4
    Deposits = {2}
    MinStake = 2
    TxFee = 0
    PenaltyPercent = 50
    Slashed = {"SyncingTooLong"}
    Rate = 0
    CertLife = 3
    JoinMargin = 1
    Cooldown = 1
    MaxCerts = 2
    MaxPending = 2
    MaxQueue = 0
    MaxTime = 7
PROPERTY WithdrawnCertificateExpired
CHECK_DEADLOCK FALSE

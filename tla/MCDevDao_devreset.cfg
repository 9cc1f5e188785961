SPECIFICATION DaoSpec
CONSTANTS
    u1 = u1
    low = low
    high = high
    wild = wild
    NoParams = NoParams
    Users <- MCUsers
    Params <- MCLow
    Permitted <- MCLow
    InitialParams = low
    ProposalFee <- MCProposalFee
    TransactionFee <- MCTransactionFee
    DevProposalFee <- MCProposalFee
    InitialBalance = 1
    VoteAmounts = {}
    WindowLen = 2
    CycleLen = 2
    ApplyDelay = 1
    MaxLate = 0
    Attended = FALSE
    MaxProposals = 1
    MaxIssue = 2
    MaxDevProposals = 1
    MaxDevIssue = 2
    MaxTime = 46
PROPERTY DevWindowsMoveForward
CHECK_DEADLOCK FALSE

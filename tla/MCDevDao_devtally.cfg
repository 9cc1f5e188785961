SPECIFICATION DaoSpec
CONSTANTS
    u1 = u1
    low = low
    high = high
    wild = wild
    NoParams = NoParams
    Users <- MCUsers
    Params <- MCLow
    Permitted <- MCLow
    InitialParams = low
    ProposalFee <- MCProposalFee
    TransactionFee <- MCTransactionFee
    DevProposalFee <- MCProposalFee
    InitialBalance = 1
    VoteAmounts = {}
    WindowLen = 5
    CycleLen = 2
    ApplyDelay = 1
    MaxLate = 0
    Attended = TRUE
    MaxProposals = 1
    MaxIssue = 1
    MaxDevProposals = 1
    MaxDevIssue = 1
    MaxTime = 26
INVARIANT DevClosedIssueHasSuccessor
CHECK_DEADLOCK FALSE

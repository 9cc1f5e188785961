SPECIFICATION Spec
CONSTANTS
    u1 = u1
    low = low
    high = high
    wild = wild
    NoParams = NoParams
    Users <- MCOneUser
    Params <- MCParams
    Permitted <- MCPermitted
    InitialParams = low
    ProposalFee <- MCProposalFee
    TransactionFee <- MCTransactionFee
    InitialBalance = 3
    VoteAmounts = {1}
    WindowLen = 5
    CycleLen = 2
    ApplyDelay = 1
    MaxLate = 0
    Attended = FALSE
    MaxProposals = 2
    MaxIssue = 1
    MaxTime = 26
INVARIANT ClosedIssueHasSuccessor
CHECK_DEADLOCK FALSE

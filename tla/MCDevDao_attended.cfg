SPECIFICATION FairDaoSpec
CONSTANTS
    u1 = u1
    low = low
    high = high
    wild = wild
    NoParams = NoParams
    Users <- MCUsers
    Params <- MCParams
    Permitted <- MCPermitted
    InitialParams = low
    ProposalFee <- MCProposalFee
    TransactionFee <- MCTransactionFee
    InitialBalance = 5
    VoteAmounts = {1}
    WindowLen = 5
    CycleLen = 2
    ApplyDelay = 1
    MaxLate = 0
    Attended = TRUE
    MaxProposals = 3
    MaxIssue = 2
    MaxTime = 50
    DevProposalFee <- MCProposalFee
    MaxDevProposals = 1
    MaxDevIssue = 2
INVARIANTS
    TypeOK
    ClosedIssueHasSuccessor
    WindowsKeepUp
    DevKeepsUpWithoutProposals
PROPERTIES
    TallyFollowsTheRule
    RoundsComplete
    DevRoundsComplete
CHECK_DEADLOCK FALSE

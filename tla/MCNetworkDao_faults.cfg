SPECIFICATION Spec
CONSTANTS
    u1 = u1
    low = low
    high = high
    wild = wild
    NoParams = NoParams
    Users <- MCOneUser
    Params <- MCParams
    Permitted <- MCPermitted
    InitialParams = low
    ProposalFee <- MCProposalFee
    TransactionFee <- MCTransactionFee
    InitialBalance = 3
    VoteAmounts = {1}
    WindowLen = 2
    CycleLen = 2
    ApplyDelay = 1
    MaxLate = 1
    Attended = FALSE
    MaxProposals = 2
    MaxIssue = 2
    MaxTime = 46
INVARIANT
    CurrentWasChosen
PROPERTIES
    ImplementsRounds
    WedgeIsForever
CHECK_DEADLOCK FALSE

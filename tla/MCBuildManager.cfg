SPECIFICATION FairSpec
CONSTANTS
    p1 = p1
    p2 = p2
    s1 = s1
    s2 = s2
    s3 = s3
    c1 = c1
    c2 = c2
    NoEntry = NoEntry
    Projects <- MCProjects
    Steps <- MCSteps
    Configs <- MCConfigs
    ProjectOf <- MCProjectOf
    Requests <- MCRequests
    MaxSteps = 4
    MaxEvents = 4
CHECK_DEADLOCK FALSE
INVARIANTS
    TypeOK
    AccountsRight
    OneWorker
    FinishedIsCurrent
    CancelIsCurrent
    CancelMessageLast
    ProgressAlive
PROPERTIES
    ImplementsService
    StepEnds
    CancelReturns

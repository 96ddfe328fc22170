SPECIFICATION FairSpec
CONSTANTS
    l1 = l1
    l2 = l2
    Locations = {l1, l2}
    Unresolved = {l2}
    Multiple = {}
    Unreadable = {}
    Refused = {"condition"}
    External = TRUE
    LocalsQueries = 1
    StackQueries = 0
    ViewQueries = 0
    OtherQueries = 0
    FollowUps = 0
    Conditions = {1}
    IgnoreCounts = {}
    Careless = {}
    MaxToken = 3
INVARIANTS
    DebuggerTypeOK
    RowsRight
    NoOrphans
    RunningIsRunning
PROPERTIES
    RunAfterInsert
    StartupFinishes
CHECK_DEADLOCK FALSE

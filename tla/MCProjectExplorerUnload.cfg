SPECIFICATION ExplorerSpec
CONSTANTS
    p1 = p1
    p2 = p2
    s1 = s1
    s2 = s2
    s3 = s3
    c1 = c1
    r1 = r1
    r2 = r2
    NoEntry = NoEntry
    None = None
    Projects <- MCProjects
    Steps <- MCSteps
    Configs <- MCConfigs
    ProjectOf <- MCProjectOf
    BuildSteps <- MCBuildSteps
    CleanSteps <- MCCleanSteps
    ProjectOrder <- MCProjectOrder
    Requests = {}
    Applications = {p1}
    Controls = {r1, r2}
    MaxSteps = 3
    MaxEvents = 5
INVARIANTS
    StepsAlive

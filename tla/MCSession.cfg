SPECIFICATION Spec
CONSTANTS
    a = a
    b = b
    c = c
    s = s
    t = t
    None = None
    Default = Default
    Files = {a, b}
    Applications = {a, b}
    Names = {Default, s, t}
    Failures = {"write", "editor", "remove"}
INVARIANTS
    TypeOK
    StartupProjectOpen
PROPERTIES
    DeletedStaysDeleted
    SwitchKeepsContents

SPECIFICATION Spec
CONSTANTS
    a = a
    b = b
    c = c
    s = s
    t = t
    None = None
    Default = Default
    Files = {a, b}
    Applications = {a, b}
    Names = {Default}
    Failures = {"open"}
INVARIANTS
    DependenciesOrderReturns

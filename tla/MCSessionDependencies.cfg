SPECIFICATION SpecWithoutEditors
CONSTANTS
    a = a
    b = b
    c = c
    s = s
    t = t
    None = None
    Default = Default
    Files = {a, b, c}
    Applications = {a}
    Names = {Default, s}
    Failures = {"read"}
INVARIANTS
    DependenciesAcyclic
    DependenciesOrderReturns


SPECIFICATION Spec
CONSTANTS
    Files = {f, g}
    Builders = {a}
    Server = s
    AutoIndex = FALSE
    Reverts = FALSE
    MaxContent = 3
    MaxTime = 1
    MaxRuns = 3
    MaxStops = 0
INVARIANTS
    FreshWhenServed
CHECK_DEADLOCK FALSE
SYMMETRY Symmetric

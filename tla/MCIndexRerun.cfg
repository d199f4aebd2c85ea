SPECIFICATION Spec
CONSTANTS
    Files = {f, g}
    Builders = {a}
    Server = s
    AutoIndex = TRUE
    Reverts = FALSE
    MaxContent = 3
    MaxTime = 0
    MaxRuns = 2
    MaxStops = 1
INVARIANTS
    TypeOK
    RerunRepairs
    CacheTellsTruth
CHECK_DEADLOCK FALSE
SYMMETRY Symmetric

SPECIFICATION Spec
CONSTANTS
    Sources = {a, b}
    Others = {t}
    Changes = {"create", "edit", "delete", "rename", "moveIn", "moveOut"}
    Early = TRUE
    Capacity = 2
    MaxChanges = 3
    MaxFaults = 2
INVARIANTS
    SettledBetweenUpdates
PROPERTIES
    FollowsProtocol
CHECK_DEADLOCK FALSE
SYMMETRY SymmetricSources

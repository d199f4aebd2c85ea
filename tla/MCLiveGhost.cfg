SPECIFICATION Spec
CONSTANTS
    Sources = {a, b}
    Others = {}
    Changes = {"create", "edit", "delete"}
    Early = FALSE
    Capacity = 1
    MaxChanges = 4
    MaxFaults = 0
INVARIANTS
    InSyncWhenQuiet
CHECK_DEADLOCK FALSE

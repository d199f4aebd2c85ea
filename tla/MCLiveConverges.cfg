SPECIFICATION FairSpec
CONSTANTS
    Sources = {a, b, c}
    Others = {}
    Changes = {"create", "edit", "delete"}
    Early = FALSE
    Capacity = 2
    MaxChanges = 3
    MaxFaults = 1
INVARIANTS
    TypeOK
    ConvergesWhenQuiet
PROPERTIES
    ChangesReachTheGraph
    UpdatesAreHandedOver
    DirtyIsRetried
CHECK_DEADLOCK FALSE

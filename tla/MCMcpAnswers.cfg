SPECIFICATION FairSpec
CONSTANTS
    Workers = {v, w}
    Ids = {x, y}
    Kinds = {"call"}
    UniqueIds = TRUE
    GraphFails = TRUE
    OutputFails = FALSE
    MaxRequests = 3
    MaxNotes = 1
INVARIANTS
    CancellationReaches
PROPERTIES
    EveryRequestAnswered
    ReturnsAfterInput
CHECK_DEADLOCK FALSE

SPECIFICATION Spec
CONSTANTS
    Workers = {v, w}
    Ids = {x, y}
    Kinds = {"call", "invalid", "other"}
    UniqueIds = FALSE
    GraphFails = TRUE
    OutputFails = TRUE
    MaxRequests = 3
    MaxNotes = 0
INVARIANTS
    TypeOK
    OneResponseEach
    RegistryIsClean
PROPERTIES
    AnswersInOrder
CHECK_DEADLOCK FALSE
SYMMETRY Symmetric

SPECIFICATION Spec
CONSTANTS
    Paths <- MCPaths
    Contents <- MCContents
    MaxBatch = 2
INVARIANTS
    TypeOK
    NodesMatchClean
    ConsumersIndexed
    CallReportMatchesClean
    ImportsMatchClean
PROPERTY MentionsStayRight
CHECK_DEADLOCK FALSE

SPECIFICATION Spec
CONSTANTS
    Paths <- MCPaths
    Contents <- MCContents
    MaxBatch = 1
INVARIANT IncrementalEqualsClean
CHECK_DEADLOCK FALSE

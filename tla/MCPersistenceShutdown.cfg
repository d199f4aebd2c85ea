SPECIFICATION FairSpec
CONSTANTS
    MaxGen = 2
    MaxSaves = 1
PROPERTIES
    GracefulShutdownCleansUp
CHECK_DEADLOCK FALSE

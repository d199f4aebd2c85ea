SPECIFICATION FairSpec
CONSTANTS
    MaxGen = 4
    MaxSaves = 4
INVARIANTS
    TypeOK
    GenerationsOrdered
    NewestNeverDropped
    NoSleepOverWork
    CleanShutdownIsDurable
PROPERTIES
    DiskNeverGoesBack
    HandedOverIsSaved
    ImplementsRegister
CHECK_DEADLOCK FALSE

SPECIFICATION Spec
CONSTANTS
    None = None
    Place <- MCPlace
    MaxLength = 3
    MaxCycles = 6
    MaxRounds = 4
    TestPath <- MCTestPath
    TestName <- MCTestName
    TestishPath <- MCTestPath
    MethodMain <- MCMethodMain
    SegmentMatches <- MCSegmentMatches
    Analyses <- MCAnalyses
    Asked <- MCAsked
    Earlier <- MCEarlier
    Layers <- MCLayers
    Histories <- MCHistories
    Terms <- MCTerms
    Words <- MCWords
    Depths <- MCDepths
    Sizes <- MCSizes
    Stops <- MCStops
    Budgets <- MCBudgets
    Unreadables <- MCUnreadables
INVARIANTS
    TypeOK
    ComponentsAreStrong
    CyclesAreComplete
    QueriesAreExact
    CandidatesAreClosest
    BundleFitsAndKeeps
    FlowsAreSimplePaths
    DiffAccountsForAll
CHECK_DEADLOCK FALSE

SPECIFICATION StorageSpec
CONSTANTS
    MaxOrder = 4
    Span <- PowersOfTwo
    Reserved = 9
    narrow = narrow
    wide = wide
    Blocks = {b1, b2, b3}
    Classes <- TwoClasses
    Total <- Objects
    Zeroed = 2
    MaxAttempts = 3
    OcrTries = 2
    MaxRetries = 3
    SectorBytes = 4
    ArgumentSpace = 64
    MaxBlocks = 2
    Rcas = {7}
    Requests <- SmallReads
    FaultBudget = 3
INVARIANTS
    PageFramesExact
    FullyCoalesced
    ExhaustionExact
    SlabsExact
    KmallocServes
    DriverAgrees
    ReadAnswersTruly
PROPERTIES
    NoDoubleVend
    AllocatorCallsReturn
    CleanResetFailsOnlyStale
    DriverReturns
CHECK_DEADLOCK FALSE

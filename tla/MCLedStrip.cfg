SPECIFICATION FairSpec
CONSTANTS
    NumPixels = 3
    LedsVisitedPerFrame = 1
    CounterSize = 4
    BootTimeout = 1
    Post <- MCPost
    MaxTodo = 1
INVARIANTS
    TimeoutIsKept
    ModesDoNotMix
    CounterShowsItsValue
PROPERTIES
    StripReturnsToManual
    ScanSweeps

SPECIFICATION Spec
CONSTANTS
    Builds <- MCBuilds
    ChipPaths = 1
    MatrixPins <- MCMatrixPins
    StripPins <- MCStripPins
    MotionPin = 17
    Requests <- MCRequests
    MaxWorkers = 2
    DefaultWorkers = 2
    MaxRequests = 2
    SentForms <- MCSentForms
    Bodies <- MCBodies
    UintMax = 65535
    LoadTokens <- MCLoadTokens
    LoadLines <- MCLoadLines
    MemFiles <- MCMemFiles
    Texts <- MCTexts
    MaxMembers = 3
INVARIANTS
    TypeOK
    DevicesAreOwned
    WorkersFindWhatTheyUse
    RequestsAreCounted
    StopNeverKills
    NothingIsLeft
    FormsArriveAsSent
    StatusIsTrueAndReadable
PROPERTIES
    StopEndsTheProgram

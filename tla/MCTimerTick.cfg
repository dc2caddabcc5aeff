SPECIFICATION FairSpec
CONSTANTS
    fast = fast
    oneShot = oneShot
    mail = mail
    Service <- MCService
    Interval <- MCInterval
    Periodic <- MCPeriodic
    Kind <- MCKind
    HasCond <- MCHasCond
    MaxCookie = 4
    MaxMsgs = 2
INVARIANTS
    RegistryIsSound
    FiresOnTime
    WaiterWillBeWoken
PROPERTIES
    WaitReturnsEventually

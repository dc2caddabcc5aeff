SPECIFICATION FairSpec
CONSTANTS
    MaxInt = 2
    Post <- MCOnePost
    BootTimeout = 1
    Span = 1
    SecPerMin = 1
    MinPerHour = 1
    MaxHour = 1
    IdleMin = 0
    MaxTodo = 1
    Reading = {1, 9}
    MaxLightValuesSize = 2
    LowWaterMark = 3
    HighWaterMark = 7
    CheckCountMax = 3
    MaxGlitches = 1
    AnimationsAfterOff = 1
    BackgroundCount = 1
    Background <- MCNoBackground
    Step = {"1sec"}
    Ticker = {0, 1}
    MaxCalls = 0
    MaxPosts = 0
PROPERTIES
    NoFlicker
    ChipsFollowTheLight
    DisplayFollowsTheRoom

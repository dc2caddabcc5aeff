SPECIFICATION Spec
CONSTANTS
    MaxInt = 3
    Post <- MCPost
    BootTimeout = 2
    Span = 2
    SecPerMin = 2
    MinPerHour = 2
    MaxHour = 2
    IdleMin = 0
    MaxTodo = 1
    Reading = {5}
    MaxLightValuesSize = 1
    LowWaterMark = 3
    HighWaterMark = 7
    CheckCountMax = 2
    MaxGlitches = 0
    AnimationsAfterOff = 1
    BackgroundCount = 1
    Background <- MCNoBackground
    Step = {"1sec"}
    Ticker = {0, 1}
    MaxCalls = 0
    MaxPosts = 0
INVARIANT
    TimeoutIsMaximum

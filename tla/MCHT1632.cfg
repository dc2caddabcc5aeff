SPECIFICATION Spec
CONSTANTS
    NumActiveChips = 2
    ChipWords = 2
    NumColors = 2
    Bits <- MCBits
    Brightness <- MCBrightness
    Noise <- MCNoise
    MaxCalls = 6
    ComSize = 16
    OutSize = 128
    MinHeight = 4
    MaxHeight = 16
    Char <- MCChar
    MaxLen = 3
    FontWidth <- MCFontWidth
    MaxGutter = 1
CHECK_DEADLOCK FALSE
INVARIANTS
    NoOldPixelStays
    ChipsAreSelectedAlone
    ChipsKeepTheBrightness
    ScreenShowsWhatIsDrawn

SPECIFICATION Spec
CONSTANTS
    DisplayTopic <- MCDisplayTopic
    Values <- MCValues
    MaxTicks = 1
    MaxNews = 1
INVARIANTS
    NoTopicIsStale
    TicksDoNotPileUp
PROPERTIES
    ClientReconnects
    MotionIsReportedAgain

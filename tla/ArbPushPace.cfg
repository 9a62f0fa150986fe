SPECIFICATION MCSpec
CONSTANTS
    Byte = 10
    ActiveThreshold = 10
    Totals = {200}
    Speeds = {0, 60, 180}
    ReallocationSettle = 2
    OvershootSettle = 2
    MaxPenaltyPercent = 4
    FailingApps = {}
PROPERTIES
    PenaltyPushIsPaced

SPECIFICATION MCSpec
CONSTANTS
    Byte = 20
    ActiveThreshold = 10
    Totals = {200, 400}
    Speeds = {0, 160, 210}
    ReallocationSettle = 1
    OvershootSettle = 0
    MaxPenaltyPercent = 3
    FailingApps = {"sab"}
INVARIANTS
    ArbTypeOK
    RecommendedWithinScale
    FairShareOnScale
PROPERTIES
    AllowedSplitFitsBudget
    NoBudgetIsStranded
    EveryPenaltyIsEarned
    SabPushesArePaced
    RebaselineIsEven

SPECIFICATION Spec
CONSTANTS
    Byte = 2
    ActiveThreshold = 10
    Total = 400
    Speeds <- MCSpeeds
    Demands <- MCDemands
    Rounds = 9
INVARIANTS
    SharesPartitionBudget
    ConvergesToFair
PROPERTIES
    FirstSplitIsEven
    OnlySlackOrLargerYields
    ShrinkLeavesHeadroom

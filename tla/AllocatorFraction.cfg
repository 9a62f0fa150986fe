SPECIFICATION Spec
CONSTANTS
    Byte = 16
    ActiveThreshold = 10
    Total = 200
    Speeds <- MCCoarseSpeeds
    Demands = {}
    Rounds = 0
PROPERTIES
    FirstSplitIsEven

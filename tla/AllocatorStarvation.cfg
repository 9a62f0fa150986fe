SPECIFICATION Spec
CONSTANTS
    Byte = 2
    ActiveThreshold = 10
    Total = 400
    Speeds <- MCSpeeds
    Demands = {240}
    Rounds = 9
INVARIANTS
    MaxMinFair

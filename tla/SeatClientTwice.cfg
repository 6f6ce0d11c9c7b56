SPECIFICATION Spec
CONSTANTS
    PolicyMode = "rule"
    MaxHands = 1
    MaxTurns = 2
    MaxFaults = 0
INVARIANT
    PaidOncePerTurn
CHECK_DEADLOCK FALSE

CONSTANTS
    Seat = {0, 1, 2, 3}
    MaxMoney = 100000000
    MaxPut = 3
    Ranks = {1, 2, 3}
    RakeBps = {1500}
SPECIFICATION Spec
INVARIANTS PlanConserves SharesAreFair WinsUpToItsClaim EqualHandsWinEqually
CHECK_DEADLOCK FALSE

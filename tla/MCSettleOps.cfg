CONSTANTS
    PayoutSeats <- TwoSeats
    Modes = {"direct", "batch", "offchain"}
    MaxHands = 1
    MaxTx = 2
    MaxOps = 1
SPECIFICATION FairSpec
INVARIANTS OverrideStands RecordsAreTrue
 
CHECK_DEADLOCK FALSE

CONSTANTS
    PayoutSeats <- TwoSeats
    Modes = {"direct", "batch"}
    MaxHands = 2
    MaxTx = 2
    MaxOps = 0
SPECIFICATION Spec
INVARIANTS CompletedIsPaid BatchPaysOnce OnlyShowdownsPaid
CHECK_DEADLOCK FALSE

CONSTANTS
    Seat = {0, 1}
    NoSeat = NoSeat
    MaxChips = 100
    MaxSeq = 9
    MaxHands = 2
    Amounts = {4}
    Tx = {t1}
    StepTimeout = 2
    ReminderInterval = 1
    QueueCapacity = 2
    ActLimit = 2
SPECIFICATION GuestSpec
INVARIANTS ClosedExactlyWhenOver AnnouncedSeatIsToAct AbortedForItsOwnTx 
PROPERTIES NoEarlyFold PaidActionInItsTurn RefinesLifecycle
CHECK_DEADLOCK FALSE

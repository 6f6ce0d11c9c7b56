CONSTANTS
    Seat = {0, 1}
    NoSeat = NoSeat
    MaxChips = 100
    MaxSeq = 9
    MaxHands = 1
    Amounts = {}
    Tx = {t1, t2}
    StepTimeout = 2
    ReminderInterval = 1
    QueueCapacity = 2
    ActLimit = 2
SPECIFICATION FairPlaySpec
INVARIANT PaidActionIsConfirmed
PROPERTIES HandEnds PaidActionIsResolved
CHECK_DEADLOCK FALSE

SPECIFICATION FairSpec
CONSTANTS
    PolicyMode = "codex_cli"
    MaxHands = 2
    MaxTurns = 3
    MaxFaults = 1
INVARIANTS
    PaidAgainForCause
    PaysWhatTheTurnAsks
    PaysSeeingItsCards
PROPERTIES
    TurnIsAttempted
    CardsAreSynced
CHECK_DEADLOCK FALSE

CONSTANTS
    Seat = {0, 1, 2}
    NoSeat = NoSeat
    MaxChips = 12
    MaxSeq = 2
    MaxHands = 2
    Amounts = {3, 4}
SPECIFICATION Spec
INVARIANTS TypeOK BetsCovered MatchedAtShowdown AskedOncePerRound LegalMatchesApply
PROPERTIES ChipsEnterByActingSeat RefinesLifecycle
CHECK_DEADLOCK FALSE

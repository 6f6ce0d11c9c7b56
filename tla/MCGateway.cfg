SPECIFICATION Spec
CONSTANTS
    Conn = {c1}
    Seat = {1}
    Msg <- MCMsg
    MaxCalls = 2
    MaxConcurrent = 2
    MaxPerWindow = 3
    Window = 2
    Skew = 1
    QueueCapacity = 2
    MaxTime = 2
INVARIANTS
    PermitsAreCalls
    ReachesRoomOnce
    NoCommandIgnored
    RateIsBounded

SPECIFICATION WatchSpec
CONSTANTS
    Task = {w1, w2}
    Clients = {"json_rpc", "scripted"}
    MaxAttempts = 2
    MinConfirmations = 2
    MaxBlock = 4
    MaxRpcFaults = 1
INVARIANTS
    VerdictIsTrue
CHECK_DEADLOCK FALSE

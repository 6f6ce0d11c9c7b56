SPECIFICATION FairSpec
CONSTANTS
    Sub = {"table"}
    Topic <- MCTopic
    BufferCapacity = 1
    BatchLimit = 2
    MaxHands = 1
    MaxEvents = 6
    MaxTasks = 2
    MaxFaults = 1
    MaxRestarts = 1
INVARIANTS
    DeliveredWasPublished
    NoGapWhileLive
PROPERTIES
    PendingIsDelivered
CHECK_DEADLOCK FALSE

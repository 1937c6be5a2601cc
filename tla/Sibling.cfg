SPECIFICATION FairSpec
CONSTANTS
    p1 = p1
    p2 = p2
    Producers = {p1, p2}
    max_queue_size = 2
    MaxMessages = 3
    MaxConnections = 2
INVARIANTS NoLostWakeup OrderedPerConnection
PROPERTIES IsLossyLink  DestructorReturns
CHECK_DEADLOCK FALSE

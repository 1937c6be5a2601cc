SPECIFICATION FairSpec
CONSTANTS
    h1 = h1
    h2 = h2
    k1 = k1
    w1 = w1
    w2 = w2
    SyncHosts <- MCSyncHosts
    DumpOrder <- MCDumpOrder
    Workers = {w1, w2}
    max_sibling_queue_size = 2
    MaxAdds = 2
INVARIANT TransferIsComplete
PROPERTY WarmsUp
CHECK_DEADLOCK FALSE

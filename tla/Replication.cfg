SPECIFICATION FairSpec
CONSTANTS
    a = a
    b = b
    c = c
    f = f
    g = g
    t1 = t1
    t2 = t2
    k1 = k1
    k2 = k2
    NoKey = NoKey
    Keys = {k1, k2}
    Servers <- MCServers
    Forwarders <- MCForwarders
    InitialPeers <- MCPeers
    d_key <- MCKey
    OpTypes = {"sdb", "bl"}
    Admins = {t1}
    Plans <- MCPlans
    max_sibling_queue_size = 1
    MaxOps = 2
    MaxChanges = 2
INVARIANT AppliedOnce
PROPERTY ReachesEveryone
CHECK_DEADLOCK FALSE

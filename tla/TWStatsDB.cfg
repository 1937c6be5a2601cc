SPECIFICATION FairSpec
CONSTANTS
    k1 = k1
    k2 = k2
    k3 = k3
    f1 = f1
    v0 = v0
    v1 = v1
    d1 = d1
    Free = Free
    Keys <- MCKeys
    Fields = {f1}
    Values = {v0}
    Empty = v0
    num_shards = 2
    getShardIndex <- MCShardOf
    Sizes = {2}
    Dumpers = {d1}
INVARIANTS TypeOK TrackerMatchesDB EvictsLeastRecentlyModified DumpsAreComplete
PROPERTY ShrinksAgain
CHECK_DEADLOCK FALSE

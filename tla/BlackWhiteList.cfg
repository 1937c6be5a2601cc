SPECIFICATION FairSpec
CONSTANTS
    A = A
    B = B
    ra = ra
    rb = rb
    host = host
    net24 = net24
    login = login
    ja3 = ja3
    addr = addr
    Nodes = {A, B}
    Keys = {host, net24, login, ja3}
    Type <- MCType
    Addresses = {addr}
    Covers <- MCNested
    Redises = {ra, rb}
    RedisOf <- MCOwnRedis
    TTLs = {1, 2}
    MaxDelay = 1
    Configs <- MCConfigs
    MaxTime = 3
    MaxOps = 3
INVARIANTS ReplicasAddNothing NetmaskMatchesList  CoveredIsFound
PROPERTY ExpiredArePurged
CHECK_DEADLOCK FALSE

SPECIFICATION Spec
CONSTANTS
    A = A
    B = B
    ra = ra
    rb = rb
    host = host
    net24 = net24
    login = login
    ja3 = ja3
    addr = addr
    Nodes = {A, B}
    Keys = {host, net24, login, ja3}
    Type <- MCType
    Addresses = {addr}
    Covers <- MCNested
    Redises = {ra, rb}
    RedisOf <- MCOwnRedis
    TTLs = {1, 2}
    MaxDelay = 1
    Configs <- MCOneServer
    MaxTime = 2
    MaxOps = 2
INVARIANT AllEntriesAreRead
CHECK_DEADLOCK FALSE

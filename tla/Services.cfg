SPECIFICATION MCSpec
CONSTANTS
    c1 = c1
    c2 = c2
    t1 = t1
    t2 = t2
    h1 = h1
    h2 = h2
    custom = custom
    Callers = {c1, c2}
    Threads = {t1, t2}
    WebHookSet = {h1, h2}
    CustomSet = {custom}
    HookId <- MCHookId
    Invalid = {h2}
    max_queue_size = 2
    num_conns = 2
    MaxEvents = 3
    LookupThreads = {t1, t2}
    NumContexts = {0, 2}
    RequestTimeouts = {1, 2}
    NUM_GETDNS_CONTEXTS = 2
    DNS_REQUEST_TIMEOUT = 1
    RetryCounts = {1}
    SizeT = 4
    MaxResolvers = 2
    MaxLookups = 3
    GeoReaders = {c1, c2}
    KindSets = {{"country"}, {"city"}, {"isp"}}
    MaxVersion = 2
    MaxHandles = 4
INVARIANTS CountsAddUp LookupsAreBounded GeoIPStaysUsable
PROPERTIES EventsArePosted 
CHECK_DEADLOCK FALSE

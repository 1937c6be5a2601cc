--------------------------- MODULE BlackWhiteList ---------------------------
(***************************************************************************)
(* BlackWhiteListDB (wforce/blackwhitelist.cc): the black- or whitelist of *)
(* each server, its copy in Redis, its replication to the siblings, the    *)
(* purge thread, crash and restart, and the lookups of an address.         *)
(*                                                                         *)
(* A key stands for an entry's key in one of the five lists, and Type says *)
(* which.  An addition or a deletion holds the write lock from beginning   *)
(* to end and is one step; its outcomes differ in how Redis answered.      *)
(* Messages to siblings may be lost, duplicated and reordered.             *)
(***************************************************************************)
EXTENDS Integers, FiniteSets, Sequences

CONSTANTS
    Nodes,               \* the wforce servers
    Keys,
    Type,                \* Type[k]: the list k belongs to
    Addresses,           \* addresses that are looked up
    Covers,              \* Covers[a]: the ip keys covering a, most specific first
    Redises, RedisOf,    \* the Redis of a server, its own or shared
    TTLs,
    MaxDelay,            \* longest time a message is underway
    Configs,             \* the installations considered
    MaxTime, MaxOps      \* bounds of the model

BLWLTypes == {"ip", "login", "ip_login", "ja3", "ip_ja3"}

\* nodes: the servers there are; keys, addresses: what requests are about;
\* persist_replicated: are replicated entries stored in Redis as well; faults:
\* may Redis refuse, be unreachable or fail to set up; ops: bound on the requests.
Installation == [nodes : SUBSET Nodes, keys : SUBSET Keys, addresses : SUBSET Addresses,
                 persist_replicated : BOOLEAN, faults : BOOLEAN, ops : 0 .. MaxOps]

ASSUME BlackWhiteListAssumption ==
    /\ Type \in [Keys -> BLWLTypes]
    /\ RedisOf \in [Nodes -> Redises]
    /\ Covers \in [Addresses -> Seq(Keys)]
    /\ Configs \subseteq Installation
    /\ TTLs \subseteq Nat /\ {MaxDelay, MaxTime, MaxOps} \subseteq Nat

VARIABLES
    config,    \* the installation, which never changes
    now,
    up,        \* which servers are running
    list,      \* per server, the keys of its lists with their expiration
    iplist_netmask, \* per server, the masks of the tree addresses are looked up in
    redis,     \* per Redis, its keys with the expiration stored as their value
    net,       \* replication messages underway
    lookup,    \* per server, the getEntry call in progress or just finished
    ops,       \* number of requests so far
    hooked,    \* history: webhook events generated for each request
    horizon,   \* history: latest expiration ever requested for a key
    startup,   \* history: how the last start of a server ended
    unstored   \* history: servers that failed to store a change since they started

vars == <<config, now, up, list, iplist_netmask, redis, net, lookup, ops, hooked, horizon, startup,
          unstored>>

IsExpirationMap(map) == DOMAIN map \subseteq Keys /\ \A k \in DOMAIN map : map[k] \in Nat

Message == [id : 1 .. MaxOps, op : {"add", "delete"}, key : Keys, ttl : Nat, to : Nodes, at : Nat]

NoMask == "none"

ASSUME MaskAssumption ==
    NoMask \notin Keys /\ \A a \in Addresses : \A i \in DOMAIN Covers[a] : Type[Covers[a][i]] = "ip"

NoLookup == [state |-> "idle", mask |-> NoMask, address |-> NoMask, throughout |-> {}]

TypeOK ==
    /\ config \in Configs
    /\ now \in 0 .. MaxTime
    /\ up \in [Nodes -> BOOLEAN]
    /\ DOMAIN list = Nodes /\ \A n \in Nodes : IsExpirationMap(list[n])
    /\ iplist_netmask \in [Nodes -> SUBSET Keys]
    /\ DOMAIN redis = Redises /\ \A r \in Redises : IsExpirationMap(redis[r])
    /\ net \subseteq Message
    /\ lookup \in [Nodes -> [state : {"idle", "matched", "found", "missing"},
                             mask : Keys \union {NoMask},
                             address : Addresses \union {NoMask},
                             throughout : SUBSET Keys]]
    /\ ops \in 0 .. MaxOps
    /\ hooked \in [1 .. MaxOps -> Nat]
    /\ horizon \in [Keys -> Nat]
    /\ startup \in {"ok", "exit", "unreachable"}
    /\ unstored \subseteq Nodes

Init ==
    /\ config \in Configs
    /\ now = 0
    /\ up = [n \in Nodes |-> n \in config.nodes]
    /\ list = [n \in Nodes |-> <<>>]
    /\ iplist_netmask = [n \in Nodes |-> {}]
    /\ redis = [r \in Redises |-> <<>>]
    /\ net = {}
    /\ lookup = [n \in Nodes |-> NoLookup]
    /\ ops = 0
    /\ hooked = [i \in 1 .. MaxOps |-> 0]
    /\ horizon = [k \in Keys |-> 0]
    /\ startup = "ok"
    /\ unstored = {}

-----------------------------------------------------------------------------
\* map with k set to t, and map without the keys of ks.
With(map, k, t) == [j \in DOMAIN map \union {k} |-> IF j = k THEN t ELSE map[j]]

Without(map, ks) == [j \in DOMAIN map \ ks |-> map[j]]

Unexpired(map) == [j \in {k \in DOMAIN map : map[k] > now} |-> map[j]]

Latest(a, b) == IF a >= b THEN a ELSE b

\* _addEntry, and addMask for an ip entry.
AddToList(n, k, ttl) ==
    /\ list' = [list EXCEPT ![n] = With(@, k, now + ttl)]
    /\ iplist_netmask' = [iplist_netmask EXCEPT ![n] = @ \union ({k} \cap {j \in Keys : Type[j] = "ip"})]

\* mutant: the mask of an ip entry stays in the tree
DeleteFromListOnly(n, ks) ==
    /\ list' = [list EXCEPT ![n] = Without(@, ks)]
    /\ UNCHANGED iplist_netmask

\* _deleteEntry, and deleteMask.
DeleteFromList(n, ks) ==
    /\ list' = [list EXCEPT ![n] = Without(@, ks)]
    /\ iplist_netmask' = [iplist_netmask EXCEPT ![n] = @ \ ks]

\* The entries a lookup in progress could have found all along.
Watch ==
    lookup' = [n \in Nodes |->
                 IF lookup[n].state # "matched" THEN NoLookup
                 ELSE [lookup[n] EXCEPT !.throughout = @ \cap DOMAIN list'[n]]]

\* Redis answers SET ... EX 0 with an error, so the key keeps its old value.
addPersistEntry(n, k, ttl) ==
    redis' = IF ttl = 0 THEN redis
             ELSE [redis EXCEPT ![RedisOf[n]] = With(@, k, now + ttl)]

\* mutant: the deletion does not reach Redis
deletePersistNothing(n, k) == UNCHANGED redis

deletePersistEntry(n, k) == redis' = [redis EXCEPT ![RedisOf[n]] = Without(@, {k})]

\* The outcome of a call to Redis whose result the callers ignore.
Persisted(n, store) ==
    \/ store /\ UNCHANGED unstored
    \/ config.faults /\ unstored' = unstored \union {n} /\ UNCHANGED redis

\* mutant: the expiration is sent instead of the time to live
ReplicateExpiration(n, op, k, ttl) ==
    net' = net \union {[id |-> ops + 1, op |-> op, key |-> k, ttl |-> now + ttl, to |-> m, at |-> now] :
                         m \in config.nodes \ {n}}

\* replicateOperation: the operation goes to every sibling.
Replicate(n, op, k, ttl) ==
    net' = net \union {[id |-> ops + 1, op |-> op, key |-> k, ttl |-> ttl, to |-> m, at |-> now] :
                         m \in config.nodes \ {n}}

-----------------------------------------------------------------------------
(***************************************************************************)
(* Requests to a server, over HTTP or from Lua.                            *)
(***************************************************************************)

Request(n) == up[n] /\ ops < config.ops /\ ops' = ops + 1

\* addEntryInternal with replicate = true.
addEntry(n, k, ttl) ==
    /\ Request(n)
    /\ AddToList(n, k, ttl)
    /\ Persisted(n, addPersistEntry(n, k, ttl))
    /\ Replicate(n, "add", k, ttl)
    /\ hooked' = [hooked EXCEPT ![ops + 1] = @ + 1]
    /\ horizon' = [horizon EXCEPT ![k] = Latest(@, now + ttl)]
    /\ Watch
    /\ UNCHANGED <<config, now, up, startup>>

\* checkSetupContext throws: the entry is in memory, and nowhere else.
addEntryThrows(n, k, ttl) ==
    /\ config.faults
    /\ Request(n)
    /\ AddToList(n, k, ttl)
    /\ horizon' = [horizon EXCEPT ![k] = Latest(@, now + ttl)]
    /\ Watch
    /\ unstored' = unstored \union {n}
    /\ UNCHANGED <<config, now, up, redis, net, hooked, startup>>

\* deleteEntryInternal with replicate = true.
deleteEntry(n, k) ==
    /\ Request(n)
    /\ DeleteFromList(n, {k})
    /\ Persisted(n, deletePersistEntry(n, k))
    /\ Replicate(n, "delete", k, 0)
    /\ hooked' = [hooked EXCEPT ![ops + 1] = @ + 1]
    /\ Watch
    /\ UNCHANGED <<config, now, up, horizon, startup>>

deleteEntryThrows(n, k) ==
    /\ config.faults
    /\ Request(n)
    /\ DeleteFromList(n, {k})
    /\ Watch
    /\ unstored' = unstored \union {n}
    /\ UNCHANGED <<config, now, up, redis, net, hooked, horizon, startup>>

-----------------------------------------------------------------------------
(***************************************************************************)
(* Operations received from a sibling.  UDP may deliver twice, so the      *)
(* message may stay.                                                       *)
(***************************************************************************)

Received(m) == up[m.to] /\ now - m.at <= MaxDelay

Consumed(m) == net' = net \ {m} \/ net' = net

\* BLReplicationOperation::applyOperation, addEntryInternal with replicate = false.
applyAdd(m) ==
    /\ Received(m) /\ m.op = "add"
    /\ AddToList(m.to, m.key, m.ttl)
    /\ IF config.persist_replicated THEN Persisted(m.to, addPersistEntry(m.to, m.key, m.ttl)) ELSE UNCHANGED <<redis, unstored>>
    /\ Consumed(m)
    /\ Watch
    /\ UNCHANGED <<config, now, up, ops, hooked, horizon, startup>>

applyDelete(m) ==
    /\ Received(m) /\ m.op = "delete"
    /\ DeleteFromList(m.to, {m.key})
    /\ IF config.persist_replicated THEN Persisted(m.to, deletePersistEntry(m.to, m.key)) ELSE UNCHANGED <<redis, unstored>>
    /\ Consumed(m)
    /\ Watch
    /\ UNCHANGED <<config, now, up, ops, hooked, horizon, startup>>

Lose(m) ==
    /\ net' = net \ {m}
    /\ UNCHANGED <<config, now, up, list, iplist_netmask, redis, lookup, ops, hooked, horizon, startup, unstored>>

-----------------------------------------------------------------------------
\* The loop over the time index stops at the first entry that has not expired.
Expired(n, type) == {k \in DOMAIN list[n] : Type[k] = type /\ list[n][k] <= now}

\* mutant: the lists that were added last are forgotten
PurgedWithoutJA3 == {"ip", "login", "ip_login"}

\* purgeEntries: the lists one after the other, each under the lock.
Purged == BLWLTypes

_purgeEntries(n, type) ==
    /\ up[n]
    /\ Expired(n, type) # {}
    /\ DeleteFromList(n, Expired(n, type))
    /\ Watch
    /\ UNCHANGED <<config, now, up, redis, net, ops, hooked, horizon, startup, unstored>>

purgeEntries(n) == \E type \in Purged : _purgeEntries(n, type)

-----------------------------------------------------------------------------
(***************************************************************************)
(* Crash, and the start of main(): loadPersistEntries holds the lock of    *)
(* the list throughout, and of the other threads only purge runs already.  *)
(***************************************************************************)

Stop(n) ==
    /\ up' = [up EXCEPT ![n] = FALSE]
    /\ list' = [list EXCEPT ![n] = <<>>]
    /\ iplist_netmask' = [iplist_netmask EXCEPT ![n] = {}]
    /\ lookup' = [lookup EXCEPT ![n] = NoLookup]

Crash(n) ==
    /\ up[n]
    /\ Stop(n)
    /\ UNCHANGED <<config, now, redis, net, ops, hooked, horizon, startup, unstored>>

\* checkSetupContext throws in a replication worker, where nothing catches it.
applyThrows(m) ==
    /\ config.faults /\ config.persist_replicated
    /\ Received(m)
    /\ Stop(m.to)
    /\ net' = net \ {m}
    /\ UNCHANGED <<config, now, redis, ops, hooked, horizon, startup, unstored>>

\* The lists that the switch of loadPersistEntries knows.
Loadable == {"ip", "login", "ip_login"}

\* The value in Redis is the time at which the entry expires.
Loaded(n) == redis[RedisOf[n]]

loadPersistEntries(n) ==
    /\ n \in config.nodes /\ ~up[n]
    /\ IF \A k \in DOMAIN Loaded(n) : Type[k] \in Loadable
       THEN /\ list' = [list EXCEPT ![n] = Loaded(n)]
            /\ iplist_netmask' = [iplist_netmask EXCEPT ![n] = {k \in DOMAIN Loaded(n) : Type[k] = "ip"}]
            /\ up' = [up EXCEPT ![n] = TRUE]
            /\ startup' = "ok"
            /\ unstored' = unstored \ {n}
       ELSE startup' = "exit" /\ UNCHANGED <<up, list, iplist_netmask, unstored>>
    /\ UNCHANGED <<config, now, redis, net, lookup, ops, hooked, horizon>>

\* Redis cannot be reached, or a SCAN or GET fails: the server exits.
loadPersistFails(n) ==
    /\ n \in config.nodes /\ ~up[n] /\ config.faults
    /\ startup' = "unreachable"
    /\ UNCHANGED <<config, now, up, list, iplist_netmask, redis, net, lookup, ops, hooked, horizon, unstored>>

-----------------------------------------------------------------------------
(***************************************************************************)
(* getEntry of an address: the best mask under one read lock, its entry    *)
(* under another.                                                          *)
(***************************************************************************)

\* The longest of some masks that covers an address.
BestOf(a, masks) ==
    LET hits == {i \in DOMAIN Covers[a] : Covers[a][i] \in masks}
        first == {i \in hits : \A j \in hits : i <= j}
    IN  IF first = {} THEN NoMask ELSE Covers[a][CHOOSE i \in first : TRUE]

\* mutant: only the mask with most bits is looked for
BestMaskExact(n, a) == BestOf(a, iplist_netmask[n] \intersect {Covers[a][1]})

BestMask(n, a) == BestOf(a, iplist_netmask[n])

getEntry(n, a) ==
    /\ up[n] /\ lookup[n].state # "matched"
    /\ lookup' = [lookup EXCEPT ![n] =
                    [state |-> "matched", address |-> a, mask |-> BestMask(n, a),
                     throughout |-> {Covers[a][i] : i \in DOMAIN Covers[a]} \cap DOMAIN list[n]]]
    /\ UNCHANGED <<config, now, up, list, iplist_netmask, redis, net, ops, hooked, horizon, startup, unstored>>

_getEntry(n) ==
    /\ up[n] /\ lookup[n].state = "matched"
    /\ lookup' = [lookup EXCEPT ![n].state =
                    IF lookup[n].mask \in DOMAIN list[n] THEN "found" ELSE "missing"]
    /\ UNCHANGED <<config, now, up, list, iplist_netmask, redis, net, ops, hooked, horizon, startup, unstored>>

\* Time passes, and Redis drops the keys whose EX has run out.
Tick ==
    /\ now < MaxTime
    /\ now' = now + 1
    /\ redis' = [r \in Redises |-> Without(redis[r], {k \in DOMAIN redis[r] : redis[r][k] <= now'})]
    /\ UNCHANGED <<config, up, list, iplist_netmask, net, lookup, ops, hooked, horizon, startup, unstored>>

-----------------------------------------------------------------------------
Next ==
    \/ \E n \in Nodes :
        \/ \E k \in config.keys :
            \/ \E ttl \in TTLs : addEntry(n, k, ttl) \/ addEntryThrows(n, k, ttl)
            \/ deleteEntry(n, k)
            \/ deleteEntryThrows(n, k)
        \/ purgeEntries(n)
        \/ Crash(n)
        \/ loadPersistEntries(n)
        \/ loadPersistFails(n)
        \/ \E a \in config.addresses : getEntry(n, a)
        \/ _getEntry(n)
    \/ \E m \in net : applyAdd(m) \/ applyDelete(m) \/ applyThrows(m) \/ Lose(m)
    \/ Tick

Spec == Init /\ [][Next]_vars

\* The purge thread never stops, and every list has its turn each second.
FairSpec == Spec /\ \A n \in Nodes : WF_vars(purgeEntries(n))

-----------------------------------------------------------------------------
\* The tree that addresses are looked up in has exactly the masks of the ip
\* list, although every caller updates the two separately.
NetmaskMatchesList ==
    \A n \in Nodes : iplist_netmask[n] = {k \in DOMAIN list[n] : Type[k] = "ip"}

\* With a Redis of its own and persist_replicated, a server that has stored
\* every change since it started has in Redis exactly its entries that have
\* not expired: a restart at any moment neither loses an entry nor brings one
\* back. A restart also makes up for what could not be stored before.
RestartChangesNothing ==
    \A n \in Nodes : up[n] /\ n \notin unstored => Unexpired(list[n]) = Unexpired(redis[RedisOf[n]])

\* However often an operation is duplicated, delayed or loaded from Redis, no
\* server keeps an entry longer than asked for, but for the time the message
\* was underway, and the request raises one event: "only generate webhook for
\* this event for the first add, not for replicas".
ReplicasAddNothing ==
    /\ TypeOK
    /\ \A n \in Nodes : \A k \in DOMAIN list[n] : list[n][k] <= horizon[k] + MaxDelay
    /\ \A i \in 1 .. MaxOps : hooked[i] <= 1

\* An address is found if a mask that covers it is listed throughout the call,
\* and under no shorter mask than the longest of those. Only when the mask that
\* was best at first is deleted during the call is the address not found although
\* a shorter one still covers it.
CoveredIsFound ==
    \A n \in Nodes :
        LET longest == BestOf(lookup[n].address, lookup[n].throughout) IN
        /\ lookup[n].state = "missing" => longest = NoMask \/ lookup[n].mask \notin lookup[n].throughout \union {NoMask}
        /\ lookup[n].state = "found" /\ longest # NoMask => BestOf(lookup[n].address, {longest, lookup[n].mask}) = lookup[n].mask

\* Every expired entry, of whatever list, is eventually gone or renewed: no key
\* stays in a list for ever with its time over.
ExpiredArePurged ==
    \A n \in Nodes, k \in Keys : []<>(k \in DOMAIN list[n] => list[n][k] > now)

\* A server whose Redis answers reads all its entries when it starts.
AllEntriesAreRead == startup # "exit"
=============================================================================

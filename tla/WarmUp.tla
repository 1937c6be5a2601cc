------------------------------- MODULE WarmUp -------------------------------
(***************************************************************************)
(* How a server that starts fills its stats DBs: checkSyncHosts,           *)
(* syncDBThread and dumpDBToNetwork of wforce/wforce.cc, and the syncDBs,  *)
(* syncDone and ping commands of wforce/wforce-web.cc.                     *)
(*                                                                         *)
(* The starting server asks its sync hosts in turn; the one that accepts   *)
(* dumps its DBs, entry by entry, to the replication port of the asker and *)
(* calls its syncDone command at the end. Meanwhile the hosts go on        *)
(* counting and replicate what they count. An entry is abstracted to a     *)
(* count: add adds one to it and SyncKey overwrites it.                    *)
(***************************************************************************)
EXTENDS Integers, Sequences, FiniteSets

CONSTANTS
    SyncHosts,   \* sequence of hosts, in the order of addSyncHost
    DumpOrder,   \* sequence of the keys, in the order of the shards
    Workers,     \* replication workers of the starting server
    max_sibling_queue_size,
    MaxAdds      \* bound: additions while the server starts

Keys == {DumpOrder[i] : i \in DOMAIN DumpOrder}

Hosts == {SyncHosts[i] : i \in DOMAIN SyncHosts}

ASSUME WarmUpAssumption ==
    /\ SyncHosts \in Seq(Hosts) /\ Cardinality(Hosts) = Len(SyncHosts)
    /\ DumpOrder \in Seq(Keys) /\ Cardinality(Keys) = Len(DumpOrder)
    /\ max_sibling_queue_size \in Nat /\ MaxAdds \in Nat

VARIABLES
    asking,     \* the next sync host to ask, or Exhausted, or Found
    g_ping_up,
    host,       \* per host, where its syncDBThread is
    dumped,     \* per host, the number of entries it has dumped
    stream,     \* per host, what it has dumped and the server has not read
    live,       \* additions underway from the hosts, in any order
    queue,      \* d_sibling_queue of the starting server
    working,    \* per worker, the operation it has taken, or none
    db,         \* per host, its counts
    local,      \* the counts of the starting server
    adds,
    failed,     \* history: hosts whose dump failed, or of which an entry was dropped
    unnotified, \* history: a callback did not arrive
    disturbed,  \* history: per host, keys added to while their entry was underway
    restored    \* history: per host, keys whose entry was put into the local DB

vars == <<asking, g_ping_up, host, dumped, stream, live, queue, working, db, local, adds,
          failed, unnotified, disturbed, restored>>

None == <<>>

\* The loop over the sync hosts is over: none was found, or one was.
Exhausted == Len(SyncHosts) + 1

Found == Len(SyncHosts) + 2

Operation == [op : {"sync"}, from : Hosts, key : Keys, count : Nat]
             \union [op : {"add"}, from : Hosts, key : Keys]

TypeOK ==
    /\ asking \in 1 .. Found
    /\ g_ping_up \in BOOLEAN
    /\ host \in [Hosts -> {"idle", "dumping", "callback", "done"}]
    /\ dumped \in [Hosts -> 0 .. Len(DumpOrder)]
    /\ stream \in [Hosts -> Seq(Operation)]
    /\ live \subseteq [from : Hosts, key : Keys, n : 1 .. MaxAdds]
    /\ queue \in Seq(Operation) /\ Len(queue) <= max_sibling_queue_size
    /\ working \in [Workers -> Operation \union {None}]
    /\ db \in [Hosts -> [Keys -> Nat]]
    /\ local \in [Keys -> Nat]
    /\ adds \in 0 .. MaxAdds
    /\ failed \subseteq Hosts
    /\ unnotified \in BOOLEAN
    /\ disturbed \in [Hosts -> SUBSET Keys] /\ restored \in [Hosts -> SUBSET Keys]

Init ==
    /\ asking = 1
    /\ g_ping_up = FALSE
    /\ host = [h \in Hosts |-> "idle"]
    /\ dumped = [h \in Hosts |-> 0]
    /\ stream = [h \in Hosts |-> <<>>]
    /\ live = {}
    /\ queue = <<>>
    /\ working = [w \in Workers |-> None]
    /\ db = [h \in Hosts |-> [k \in Keys |-> 1]]
    /\ local = [k \in Keys |-> 0]
    /\ adds = 0
    /\ failed = {}
    /\ unnotified = FALSE
    /\ disturbed = [h \in Hosts |-> {}]
    /\ restored = [h \in Hosts |-> {}]

-----------------------------------------------------------------------------
(***************************************************************************)
(* The starting server asks: checkSyncHosts.                               *)
(***************************************************************************)

Asked == SyncHosts[asking]

\* mutant: nothing happens at the end of the loop
NotFoundNothing(next) == UNCHANGED g_ping_up

\* The end of the loop without a host: "we can't warm up".
NotFound(next) == g_ping_up' = (g_ping_up \/ next = Exhausted)

\* No answer, an uptime that is too short, or no status ok: on to the next.
checkHostFails ==
    /\ asking < Exhausted
    /\ asking' = asking + 1
    /\ NotFound(asking + 1)
    /\ UNCHANGED <<host, dumped, stream, live, queue, working, db, local, adds, failed, unnotified,
                   disturbed, restored>>

\* parseSyncCmd at the host: a thread of its own dumps the DBs.
parseSyncCmd(h) ==
    /\ host' = [host EXCEPT ![h] = "dumping"]
    /\ disturbed' = [disturbed EXCEPT ![h] = {m.key : m \in live}
                       \union {queue[i].key : i \in {j \in DOMAIN queue : queue[j].op = "add"}}
                       \union {working[w].key : w \in {v \in Workers : working[v] # None}}]

\* The host accepts, and the answer says so.
checkHostAccepts ==
    /\ asking < Exhausted /\ host[Asked] = "idle"
    /\ asking' = Found
    /\ parseSyncCmd(Asked)
    /\ UNCHANGED <<g_ping_up, dumped, stream, live, queue, working, db, local, adds, failed,
                   unnotified, restored>>

\* The host accepts, but the answer does not arrive: the next one is asked too.
checkHostUnheard ==
    /\ asking < Exhausted /\ host[Asked] = "idle"
    /\ asking' = asking + 1
    /\ NotFound(asking + 1)
    /\ parseSyncCmd(Asked)
    /\ UNCHANGED <<dumped, stream, live, queue, working, db, local, adds, failed, unnotified,
                   restored>>

-----------------------------------------------------------------------------
(***************************************************************************)
(* The host: syncDBThread.                                                 *)
(***************************************************************************)

Dumped(h) == dumped[h] = Len(DumpOrder)

\* dumpDBToNetwork writes the next entry.
DumpEntry(h) ==
    LET k == DumpOrder[dumped[h] + 1]
    IN  /\ host[h] = "dumping" /\ dumped[h] < Len(DumpOrder)
        /\ dumped' = [dumped EXCEPT ![h] = @ + 1]
        /\ stream' = [stream EXCEPT ![h] =
                        Append(@, [op |-> "sync", from |-> h, key |-> k, count |-> db[h][k]])]
        /\ UNCHANGED <<asking, g_ping_up, host, live, queue, working, db, local, adds, failed,
                       unnotified, disturbed, restored>>

DumpEnds(h) ==
    /\ host[h] = "dumping" /\ Dumped(h)
    /\ host' = [host EXCEPT ![h] = "callback"]
    /\ UNCHANGED <<asking, g_ping_up, dumped, stream, live, queue, working, db, local, adds, failed,
                   unnotified, disturbed, restored>>

\* Connecting or writing throws. The callback is called all the same, and what
\* the server has not read may be lost with the connection.
DumpFails(h) ==
    /\ host[h] = "dumping"
    /\ host' = [host EXCEPT ![h] = "callback"]
    /\ \E n \in 0 .. Len(stream[h]) : stream' = [stream EXCEPT ![h] = SubSeq(@, 1, n)]
    /\ failed' = failed \union {h}
    /\ UNCHANGED <<asking, g_ping_up, dumped, live, queue, working, db, local, adds, unnotified,
                   disturbed, restored>>

\* The callback arrives: parseSyncDoneCmd.
parseSyncDoneCmd(h) ==
    /\ host[h] = "callback"
    /\ host' = [host EXCEPT ![h] = "done"]
    /\ g_ping_up' = TRUE
    /\ UNCHANGED <<asking, dumped, stream, live, queue, working, db, local, adds, failed, unnotified,
                   disturbed, restored>>

\* The callback is lost. It is not tried again.
CallbackFails(h) ==
    /\ host[h] = "callback"
    /\ host' = [host EXCEPT ![h] = "done"]
    /\ unnotified' = TRUE
    /\ UNCHANGED <<asking, g_ping_up, dumped, stream, live, queue, working, db, local, adds, failed,
                   disturbed, restored>>

\* A host counts something, and replicates it to the starting server.
Add(h, k) ==
    /\ adds < MaxAdds
    /\ adds' = adds + 1
    /\ db' = [db EXCEPT ![h][k] = @ + 1]
    /\ live' = live \union {[from |-> h, key |-> k, n |-> adds + 1]}
    /\ disturbed' = [i \in Hosts |-> IF host[i] = "idle" THEN disturbed[i] ELSE disturbed[i] \union {k}]
    /\ UNCHANGED <<asking, g_ping_up, host, dumped, stream, queue, working, local, failed, unnotified,
                   restored>>

-----------------------------------------------------------------------------
(***************************************************************************)
(* The starting server receives: one queue for both kinds of operations.   *)
(***************************************************************************)

Full == Len(queue) >= max_sibling_queue_size

ReadEntry(h) ==
    /\ stream[h] # <<>>
    /\ stream' = [stream EXCEPT ![h] = Tail(@)]
    /\ queue' = IF Full THEN queue ELSE Append(queue, Head(stream[h]))
    /\ failed' = IF Full THEN failed \union {h} ELSE failed
    /\ UNCHANGED <<asking, g_ping_up, host, dumped, live, working, db, local, adds, unnotified, disturbed,
                   restored>>

\* The host has written everything, but the server does not take the connection
\* (the host is not a sibling) or stops reading it.
ReadFails(h) ==
    /\ stream[h] # <<>> /\ host[h] # "dumping"
    /\ stream' = [stream EXCEPT ![h] = <<>>]
    /\ failed' = failed \union {h}
    /\ UNCHANGED <<asking, g_ping_up, host, dumped, live, queue, working, db, local, adds, unnotified,
                   disturbed, restored>>

ReadAdd(m) ==
    /\ live' = live \ {m}
    /\ queue' = IF Full THEN queue ELSE Append(queue, [op |-> "add", from |-> m.from, key |-> m.key])
    /\ UNCHANGED <<asking, g_ping_up, host, dumped, stream, working, db, local, adds, failed, unnotified,
                   disturbed, restored>>

Take(w) ==
    /\ working[w] = None /\ queue # <<>>
    /\ working' = [working EXCEPT ![w] = Head(queue)]
    /\ queue' = Tail(queue)
    /\ UNCHANGED <<asking, g_ping_up, host, dumped, stream, live, db, local, adds, failed, unnotified,
                   disturbed, restored>>

\* mutant: entries of a sync are added up
ApplyAddsUp(w) ==
    /\ working[w] # None
    /\ working' = [working EXCEPT ![w] = None]
    /\ local' = [local EXCEPT ![working[w].key] =
                   @ + (IF working[w].op = "add" THEN 1 ELSE working[w].count)]
    /\ restored' = [h \in Hosts |-> IF working[w].op = "sync" /\ working[w].from = h
                                     THEN restored[h] \union {working[w].key} ELSE restored[h]]
    /\ UNCHANGED <<asking, g_ping_up, host, dumped, stream, live, queue, db, adds, failed, unnotified,
                   disturbed>>

\* SDBReplicationOperation::applyOperation: add, or overwrite (SyncKey).
Apply(w) ==
    /\ working[w] # None
    /\ working' = [working EXCEPT ![w] = None]
    /\ local' = [local EXCEPT ![working[w].key] =
                   IF working[w].op = "add" THEN @ + 1 ELSE working[w].count]
    /\ restored' = [h \in Hosts |-> IF working[w].op = "sync" /\ working[w].from = h
                                     THEN restored[h] \union {working[w].key} ELSE restored[h]]
    /\ UNCHANGED <<asking, g_ping_up, host, dumped, stream, live, queue, db, adds, failed, unnotified,
                   disturbed>>

-----------------------------------------------------------------------------
Asking == checkHostFails \/ checkHostAccepts \/ checkHostUnheard

HostThread(h) ==
    \/ DumpEntry(h) \/ DumpEnds(h) \/ DumpFails(h) \/ parseSyncDoneCmd(h) \/ CallbackFails(h)

Worker(w) == Take(w) \/ Apply(w)

Next ==
    \/ Asking
    \/ \E h \in Hosts : HostThread(h) \/ ReadEntry(h) \/ ReadFails(h) \/ \E k \in Keys : Add(h, k)
    \/ \E m \in live : ReadAdd(m)
    \/ \E w \in Workers : Worker(w)

Spec == Init /\ [][Next]_vars

\* Threads go on, and every call over the network ends in one way or another.
FairSpec ==
    /\ Spec
    /\ WF_vars(Asking)
    /\ \A h \in Hosts : WF_vars(HostThread(h)) /\ WF_vars(ReadEntry(h))
    /\ \A w \in Workers : WF_vars(Worker(w))

-----------------------------------------------------------------------------
\* The entry of k that h has dumped is still on its way into the local DB.
OnItsWay(h, k) ==
    LET isEntry(o) == o # None /\ o.op = "sync" /\ o.from = h /\ o.key = k
    IN  \/ \E i \in DOMAIN stream[h] : isEntry(stream[h][i])
        \/ \E i \in DOMAIN queue : isEntry(queue[i])
        \/ \E w \in Workers : isEntry(working[w])

\* When ping answers ok although a sync host was found, one has called back. If
\* its dump was not cut short and nothing of it was dropped, every entry of
\* that host is in the local DB or on its way into it. A key that nobody adds to
\* from the time the sync begins, and of which no addition is underway then, has
\* the same count on both sides in the end, if a single host syncs. (Additions
\* that overlap with the transfer of their entry may be counted twice, or not at
\* all.)
TransferIsComplete ==
    /\ TypeOK
    /\ g_ping_up =>
        \/ asking = Exhausted
        \/ \E h \in Hosts : /\ host[h] = "done"
                            /\ h \in failed \/ \A k \in Keys : OnItsWay(h, k) \/ k \in restored[h]
    /\ \A h \in Hosts, k \in Keys :
        /\ host[h] \in {"callback", "done"} /\ h \notin failed
        /\ k \notin disturbed[h] /\ ~OnItsWay(h, k)
        /\ \A i \in Hosts \ {h} : host[i] = "idle"
        => local[k] = db[h][k]

\* The server answers pings with ok some day, unless a callback got lost.
WarmsUp == <>(g_ping_up \/ unnotified)
=============================================================================

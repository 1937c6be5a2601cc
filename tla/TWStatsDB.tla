----------------------------- MODULE TWStatsDB -----------------------------
(***************************************************************************)
(* A stats DB: class TWStatsDB of common/twmap.hh, once per shard, and the *)
(* parts of TWStringStatsDBWrapper (wforce/twmap-wrapper.cc) that go over  *)
(* the shards.                                                             *)
(*                                                                         *)
(* A shard is a map from keys to the entries of their fields and a list of *)
(* its keys, least recently modified first. One mutex guards both. The     *)
(* threads are: the web and replication workers, which write, reset and    *)
(* restore; one expiry thread per shard; and the threads that dump the DB  *)
(* to a socket, which keep a shard's mutex for as long as they write that  *)
(* shard. What an entry holds (module TWStatsEntry) is abstracted to a     *)
(* value: Empty when new or reset.                                         *)
(***************************************************************************)
EXTENDS Integers, Sequences, FiniteSets

CONSTANTS
    Keys,
    Fields,        \* the names in field_map
    Values,        \* what an entry may hold
    Empty,         \* the value of a new entry
    num_shards,
    getShardIndex, \* the shard of each key
    Sizes,         \* arguments of set_size_soft
    Dumpers,       \* threads that run dumpDBToNetwork or dumpEntriesToNetwork
    Free           \* the mutex is not held across a step

ASSUME ShardAssumption ==
    /\ num_shards \in Nat \ {0}
    /\ getShardIndex \in [Keys -> 1 .. num_shards]
    /\ Sizes \subseteq Nat
    /\ IsFiniteSet(Keys)
    /\ Empty \in Values
    /\ Free \notin Dumpers

VARIABLES
    key_tracker,   \* per shard, its keys, least recently modified first
    stats_db,      \* per shard, the map from its keys to their fields
    map_size_soft, \* per shard
    mutx,          \* per shard, the dumper that holds the mutex, or Free
    dump,          \* per dumper, how far it has got
    restoring,     \* the restoreEntry call in progress
    resizing,      \* the set_size_soft call in progress
    earlier,       \* history: pairs of keys, the first of which was modified before the second
    stayed,        \* history: per dumper, keys present ever since it began
    evicted        \* history: what the step just taken expired

vars == <<key_tracker, stats_db, map_size_soft, mutx, dump, restoring, resizing,
          earlier, stayed, evicted>>

Shards == 1 .. num_shards

FieldMap == UNION {[fs -> Values] : fs \in SUBSET Fields}

ShardMap == UNION {[ks -> FieldMap] : ks \in SUBSET Keys}

Size(s) == Cardinality(DOMAIN stats_db[s])

Members(seq) == {seq[i] : i \in DOMAIN seq}

NoEviction == [keys |-> {}, shard |-> 1]

-----------------------------------------------------------------------------
TypeOK ==
    /\ key_tracker \in [Shards -> Seq(Keys)]
    /\ stats_db \in [Shards -> ShardMap]
    /\ map_size_soft \in [Shards -> Nat]
    /\ mutx \in [Shards -> Dumpers \union {Free}]
    /\ dump \in [Dumpers -> [shard : 0 .. num_shards + 1, pos : Nat, sent : Seq(Keys)]]
    /\ restoring \in {{}} \union {{r} : r \in [key : Keys, entry : FieldMap, todo : SUBSET Fields]}
    /\ resizing \in [size : Nat, next : 1 .. num_shards + 1]
    /\ earlier \subseteq Keys \X Keys
    /\ stayed \in [Dumpers -> SUBSET Keys]
    /\ evicted \in [keys : SUBSET Keys, shard : Shards]

Idle == [shard |-> 0, pos |-> 0, sent |-> <<>>]

Init ==
    /\ key_tracker = [s \in Shards |-> <<>>]
    /\ stats_db = [s \in Shards |-> <<>>]
    /\ \E size \in Sizes :
        /\ map_size_soft = [s \in Shards |-> size]
        /\ resizing = [size |-> size * num_shards, next |-> num_shards + 1]
    /\ mutx = [s \in Shards |-> Free]
    /\ dump = [d \in Dumpers |-> Idle]
    /\ restoring = {}
    /\ earlier = {}
    /\ stayed = [d \in Dumpers |-> {}]
    /\ evicted = NoEviction

-----------------------------------------------------------------------------
(***************************************************************************)
(* The workers: each call holds the mutex of the key's shard.              *)
(***************************************************************************)

\* mutant: a key that exists is inserted once more
InsertedAgain(key, seq) == Append(seq, key)

\* list::insert at the end, for a key the shard does not have.
Inserted(key, seq) == IF key \in Members(seq) THEN seq ELSE Append(seq, key)

\* mutant: the list is left in the order of creation
SplicedNowhere(key, seq) == seq

\* update_write_timestamp: list::splice moves the key to the end.
Spliced(key, seq) ==
    LET i == CHOOSE i \in DOMAIN seq : seq[i] = key
    IN  [j \in DOMAIN seq |->
           IF j < i THEN seq[j] ELSE IF j < Len(seq) THEN seq[j + 1] ELSE key]

\* The map with value v in the given field of the key, both created if need be.
WithField(map, key, field, v) ==
    LET fm == IF key \in DOMAIN map THEN map[key] ELSE <<>>
        newfm == [f \in DOMAIN fm \union {field} |-> IF f = field THEN v ELSE fm[f]]
    IN  [k \in DOMAIN map \union {key} |-> IF k = key THEN newfm ELSE map[k]]

\* The history of modifications: key comes after all others.
Modify(key) == earlier' = {p \in earlier : p[1] # key} \union {<<k, key>> : k \in Keys \ {key}}

\* find_create_key_field with a function that writes the entry, as add, sub and
\* restoreEntry do: create what is missing, write, move the key to the end.
WriteEntry(key, field, v) ==
    LET s == getShardIndex[key]
    IN  /\ mutx[s] = Free
        /\ stats_db' = [stats_db EXCEPT ![s] = WithField(@, key, field, v)]
        /\ key_tracker' = [key_tracker EXCEPT ![s] = Spliced(key, Inserted(key, @))]
        /\ Modify(key)
        /\ evicted' = NoEviction

Add(key, field) ==
    /\ \E v \in Values : WriteEntry(key, field, v)
    /\ UNCHANGED <<map_size_soft, mutx, dump, restoring, resizing, stayed>>

\* add or sub whose member throws: key and field exist from now on, but
\* nothing is written and a key that existed before is not moved.
AddThrows(key, field) ==
    LET s == getShardIndex[key]
        map == stats_db[s]
        held == key \in DOMAIN map /\ field \in DOMAIN map[key]
    IN  /\ mutx[s] = Free
        /\ stats_db' = IF held THEN stats_db
                       ELSE [stats_db EXCEPT ![s] = WithField(@, key, field, Empty)]
        /\ key_tracker' = [key_tracker EXCEPT ![s] = Inserted(key, @)]
        /\ IF key \in DOMAIN map THEN UNCHANGED earlier ELSE Modify(key)
        /\ evicted' = NoEviction
        /\ UNCHANGED <<map_size_soft, mutx, dump, restoring, resizing, stayed>>

\* reset and reset_field empty the entries of a key and leave its place alone.
Reset(key, fields) ==
    LET s == getShardIndex[key]
    IN  /\ mutx[s] = Free
        /\ key \in DOMAIN stats_db[s]
        /\ stats_db' = [stats_db EXCEPT ![s][key] =
                          [f \in DOMAIN @ |-> IF f \in fields THEN Empty ELSE @[f]]]
        /\ evicted' = NoEviction
        /\ UNCHANGED <<key_tracker, map_size_soft, mutx, dump, restoring, resizing,
                       earlier, stayed>>

\* restoreEntry takes the mutex anew for each field of the entry it was sent.
RestoreBegin(key, entry) ==
    /\ restoring = {}
    /\ restoring' = {[key |-> key, entry |-> entry, todo |-> DOMAIN entry]}
    /\ evicted' = NoEviction
    /\ UNCHANGED <<key_tracker, stats_db, map_size_soft, mutx, dump, resizing, earlier, stayed>>

RestoreField ==
    \E r \in restoring : \E f \in r.todo :
        /\ WriteEntry(r.key, f, r.entry[f])
        /\ restoring' = {[r EXCEPT !.todo = @ \ {f}]}
        /\ UNCHANGED <<map_size_soft, mutx, dump, resizing, stayed>>

RestoreEnd ==
    \E r \in restoring :
        /\ r.todo = {}
        /\ restoring' = {}
        /\ evicted' = NoEviction
        /\ UNCHANGED <<key_tracker, stats_db, map_size_soft, mutx, dump, resizing, earlier, stayed>>

\* mutant: the shards are numbered from zero
SetSizeBeginAtZero(size) ==
    /\ resizing.next > num_shards
    /\ resizing' = [size |-> size, next |-> 0]
    /\ evicted' = NoEviction
    /\ UNCHANGED <<key_tracker, stats_db, map_size_soft, mutx, dump, restoring, earlier, stayed>>

\* set_size_soft of the wrapper divides the size among the shards, one by one.
SetSizeBegin(size) ==
    /\ resizing.next > num_shards
    /\ resizing' = [size |-> size, next |-> 1]
    /\ evicted' = NoEviction
    /\ UNCHANGED <<key_tracker, stats_db, map_size_soft, mutx, dump, restoring, earlier, stayed>>

SetSizeShard ==
    LET s == resizing.next
    IN  /\ s <= num_shards
        /\ mutx[s] = Free
        /\ map_size_soft' = [map_size_soft EXCEPT ![s] = resizing.size \div num_shards]
        /\ resizing' = [resizing EXCEPT !.next = s + 1]
        /\ evicted' = NoEviction
        /\ UNCHANGED <<key_tracker, stats_db, mutx, dump, restoring, earlier, stayed>>

-----------------------------------------------------------------------------
(***************************************************************************)
(* The expiry thread of a shard.                                           *)
(***************************************************************************)

\* The n keys at the front of the list.
Victims(s, n) == {key_tracker[s][i] : i \in 1 .. n}

\* expireEntries, one turn of its loop.
Expire(s) ==
    LET num_expire == Size(s) - map_size_soft[s]
    IN  /\ mutx[s] = Free
        /\ num_expire > 0
        /\ stats_db' = [stats_db EXCEPT ![s] =
                          [k \in DOMAIN @ \ Victims(s, num_expire) |-> @[k]]]
        /\ key_tracker' = [key_tracker EXCEPT ![s] =
                             SubSeq(@, num_expire + 1, Len(@))]
        /\ stayed' = [d \in Dumpers |-> stayed[d] \ Victims(s, num_expire)]
        /\ evicted' = [keys |-> Victims(s, num_expire), shard |-> s]
        /\ UNCHANGED <<map_size_soft, mutx, dump, restoring, resizing, earlier>>

-----------------------------------------------------------------------------
(***************************************************************************)
(* Dumping: the loops over shards and keys that dumpDBToNetwork and        *)
(* dumpEntriesToNetwork share.                                             *)
(***************************************************************************)

DumpBegin(d) ==
    /\ dump[d].shard = 0
    /\ dump' = [dump EXCEPT ![d] = [shard |-> 1, pos |-> 0, sent |-> <<>>]]
    /\ stayed' = [stayed EXCEPT ![d] = UNION {DOMAIN stats_db[s] : s \in Shards}]
    /\ evicted' = NoEviction
    /\ UNCHANGED <<key_tracker, stats_db, map_size_soft, mutx, restoring, resizing, earlier>>

\* startDBDump locks the shard and keeps it locked.
startDBDump(d) ==
    LET s == dump[d].shard
    IN  /\ s \in Shards /\ dump[d].pos = 0
        /\ mutx[s] = Free
        /\ mutx' = [mutx EXCEPT ![s] = d]
        /\ dump' = [dump EXCEPT ![d].pos = 1]
        /\ evicted' = NoEviction
        /\ UNCHANGED <<key_tracker, stats_db, map_size_soft, restoring, resizing, earlier, stayed>>

\* DBDumpEntry or DBGetEntry at the iterator, written to the socket.
DumpEntry(d) ==
    LET s == dump[d].shard
        i == dump[d].pos
    IN  /\ s \in Shards /\ i > 0 /\ i <= Len(key_tracker[s])
        /\ dump' = [dump EXCEPT
                      ![d].sent = IF key_tracker[s][i] \in DOMAIN stats_db[s]
                                  THEN Append(@, key_tracker[s][i]) ELSE @,
                      ![d].pos = i + 1]
        /\ evicted' = NoEviction
        /\ UNCHANGED <<key_tracker, stats_db, map_size_soft, mutx, restoring, resizing, earlier, stayed>>

\* mutant: the key at the end of the list is left out
EndDBDumpEarly(d) ==
    LET s == dump[d].shard
    IN  /\ s \in Shards /\ dump[d].pos > 0 /\ dump[d].pos >= Len(key_tracker[s])
        /\ mutx' = [mutx EXCEPT ![s] = Free]
        /\ dump' = [dump EXCEPT ![d].shard = s + 1, ![d].pos = 0]
        /\ evicted' = NoEviction
        /\ UNCHANGED <<key_tracker, stats_db, map_size_soft, restoring, resizing, earlier, stayed>>

\* endDBDump after the last key, and on to the next shard.
EndDBDump(d) ==
    LET s == dump[d].shard
    IN  /\ s \in Shards /\ dump[d].pos > Len(key_tracker[s])
        /\ mutx' = [mutx EXCEPT ![s] = Free]
        /\ dump' = [dump EXCEPT ![d].shard = s + 1, ![d].pos = 0]
        /\ evicted' = NoEviction
        /\ UNCHANGED <<key_tracker, stats_db, map_size_soft, restoring, resizing, earlier, stayed>>

\* mutant: the handler of the exception does not unlock
DumpFailsLocked(d) ==
    LET s == dump[d].shard
    IN  /\ s \in Shards /\ dump[d].pos > 0 /\ dump[d].pos <= Len(key_tracker[s])
        /\ dump' = [dump EXCEPT ![d] = Idle]
        /\ evicted' = NoEviction
        /\ UNCHANGED <<key_tracker, stats_db, map_size_soft, mutx, restoring, resizing, earlier, stayed>>

\* Writing an entry throws: the handler unlocks and the dump is given up.
DumpFails(d) ==
    LET s == dump[d].shard
    IN  /\ s \in Shards /\ dump[d].pos > 0 /\ dump[d].pos <= Len(key_tracker[s])
        /\ mutx' = [mutx EXCEPT ![s] = Free]
        /\ dump' = [dump EXCEPT ![d] = Idle]
        /\ evicted' = NoEviction
        /\ UNCHANGED <<key_tracker, stats_db, map_size_soft, restoring, resizing, earlier, stayed>>

DumpReturns(d) ==
    /\ dump[d].shard = num_shards + 1
    /\ dump' = [dump EXCEPT ![d] = Idle]
    /\ evicted' = NoEviction
    /\ UNCHANGED <<key_tracker, stats_db, map_size_soft, mutx, restoring, resizing, earlier, stayed>>

-----------------------------------------------------------------------------
Worker ==
    \/ \E key \in Keys :
        \/ \E field \in Fields : Add(key, field) \/ AddThrows(key, field) \/ Reset(key, {field})
        \/ Reset(key, Fields)
        \/ \E entry \in FieldMap : RestoreBegin(key, entry)
    \/ RestoreField
    \/ RestoreEnd
    \/ \E size \in Sizes : SetSizeBegin(size)
    \/ SetSizeShard

Dumping(d) == startDBDump(d) \/ DumpEntry(d) \/ EndDBDump(d) \/ DumpFails(d) \/ DumpReturns(d)

Next ==
    \/ Worker
    \/ \E s \in Shards : Expire(s)
    \/ \E d \in Dumpers : DumpBegin(d) \/ Dumping(d)

Spec == Init /\ [][Next]_vars

\* The expiry thread gets the mutex if it is free again and again, and the
\* peer of a dump reads what it is sent or the connection breaks.
Fairness ==
    /\ \A s \in Shards : SF_vars(Expire(s))
    /\ \A d \in Dumpers : WF_vars(Dumping(d))

FairSpec == Spec /\ Fairness

-----------------------------------------------------------------------------
Distinct(seq) == \A i, j \in DOMAIN seq : seq[i] = seq[j] => i = j

\* The list of keys that expiry and dumps walk has every key of the shard's map
\* exactly once and no other, so expiry always finds the key at the front.
TrackerMatchesDB ==
    \A s \in Shards : Distinct(key_tracker[s]) /\ Members(key_tracker[s]) = DOMAIN stats_db[s]

\* Expiry removes the least recently modified keys of the shard, and just as
\* many as needed: "always contains the Least Recently Modified keys".
EvictsLeastRecentlyModified ==
    LET s == evicted.shard
    IN  evicted.keys # {} =>
          /\ Size(s) = map_size_soft[s]
          /\ \A v \in evicted.keys : \A k \in DOMAIN stats_db[s] : <<v, k>> \in earlier

\* A dump that returns has written every key that was there all the time, and
\* none twice, whatever workers and expiry did to the shards it did not hold.
DumpsAreComplete ==
    \A d \in Dumpers :
        /\ Distinct(dump[d].sent)
        /\ dump[d].shard = num_shards + 1 => stayed[d] \subseteq Members(dump[d].sent)

\* A shard that grew beyond its size comes back to it.
ShrinksAgain == \A s \in Shards : Size(s) > map_size_soft[s] ~> Size(s) <= map_size_soft[s]
=============================================================================

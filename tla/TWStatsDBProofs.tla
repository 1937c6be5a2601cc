-------------------------- MODULE TWStatsDBProofs --------------------------
(***************************************************************************)
(* For any keys, shards, sizes and dumpers: the list of keys of a shard    *)
(* and its map never drift apart, and a dump sends each key that stays     *)
(* once.                                                                   *)
(***************************************************************************)
EXTENDS TWStatsDB, FiniteSetTheorems, TLAPS

\* The list of a shard holds the keys of its map, each once.
Tracks(seq, map) == Distinct(seq) /\ Members(seq) = DOMAIN map

\* What the proof needs to know of the other variables.
Others ==
    /\ \A r \in restoring : r.key \in Keys
    /\ map_size_soft \in [Shards -> Nat]
    /\ resizing \in [size : Nat, next : Int]

\* TrackerMatchesDB with the types its proof needs.
IInv ==
    /\ key_tracker \in [Shards -> Seq(Keys)]
    /\ stats_db = [s \in Shards |-> stats_db[s]]
    /\ Others
    /\ TrackerMatchesDB

\* list::insert: one more member, at the end.
LEMMA InsertedFacts ==
    ASSUME NEW seq \in Seq(Keys), NEW key \in Keys, Distinct(seq)
    PROVE  /\ Inserted(key, seq) \in Seq(Keys)
           /\ Distinct(Inserted(key, seq))
           /\ Members(Inserted(key, seq)) = Members(seq) \union {key}
<1>1. CASE key \in Members(seq)
  BY <1>1, Zenon DEF Inserted
<1>2. CASE key \notin Members(seq)
  <2>1. Inserted(key, seq) = Append(seq, key)
    BY <1>2, Zenon DEF Inserted
  <2>2. /\ Append(seq, key) \in Seq(Keys)
        /\ DOMAIN Append(seq, key) = DOMAIN seq \union {Len(seq) + 1}
        /\ Append(seq, key)[Len(seq) + 1] = key
        /\ \A i \in DOMAIN seq : Append(seq, key)[i] = seq[i]
    OBVIOUS
  <2>3. Distinct(Append(seq, key))
    BY <1>2, <2>2, Zenon DEF Distinct, Members
  <2>4. Members(Append(seq, key)) = Members(seq) \union {key}
    BY <2>2, Zenon DEF Members
  <2> QED BY <2>1, <2>2, <2>3, <2>4, Zenon
<1> QED BY <1>1, <1>2, Zenon

\* list::splice: the same members, each still once.
LEMMA SplicedFacts ==
    ASSUME NEW seq \in Seq(Keys), NEW key \in Members(seq), Distinct(seq)
    PROVE  /\ Spliced(key, seq) \in Seq(Keys)
           /\ Distinct(Spliced(key, seq))
           /\ Members(Spliced(key, seq)) = Members(seq)
<1> DEFINE i == CHOOSE i \in DOMAIN seq : seq[i] = key
           new == [j \in DOMAIN seq |->
                     IF j < i THEN seq[j] ELSE IF j < Len(seq) THEN seq[j + 1] ELSE key]
<1>1. i \in DOMAIN seq /\ seq[i] = key
  BY Zenon DEF Members
<1>2. Spliced(key, seq) = new
  BY Zenon DEF Spliced
<1>3. DOMAIN seq = 1 .. Len(seq) /\ Len(seq) \in Nat
  OBVIOUS
<1> HIDE DEF i
<1>4. new \in Seq(Keys) /\ DOMAIN new = DOMAIN seq
  BY <1>1, <1>3
<1>5. /\ \A j \in DOMAIN seq : j < i => new[j] = seq[j]
      /\ \A j \in DOMAIN seq : j >= i /\ j < Len(seq) => new[j] = seq[j + 1]
      /\ new[Len(seq)] = seq[i]
  BY <1>1, <1>3
<1> HIDE DEF new
<1>6. Distinct(new)
  <2> DEFINE from(j) == IF j < i THEN j ELSE IF j < Len(seq) THEN j + 1 ELSE i
  <2>1. ASSUME NEW j \in DOMAIN seq PROVE from(j) \in DOMAIN seq /\ new[j] = seq[from(j)]
    BY <1>1, <1>3, <1>5
  <2>2. ASSUME NEW j \in DOMAIN seq, NEW k \in DOMAIN seq, from(j) = from(k) PROVE j = k
    BY <1>1, <1>3, <2>2
  <2> HIDE DEF from
  <2> QED BY <1>4, <2>1, <2>2, Zenon DEF Distinct
<1>7. Members(new) \subseteq Members(seq)
  BY <1>1, <1>3, <1>4, <1>5 DEF Members
<1>8. ASSUME NEW j \in DOMAIN seq PROVE seq[j] \in Members(new)
  <2>1. CASE j < i
    BY <1>4, <1>5, <2>1, Zenon DEF Members
  <2>2. CASE j = i
    BY <1>1, <1>3, <1>4, <1>5, <2>2 DEF Members
  <2>3. CASE j > i
    <3>1. j - 1 \in DOMAIN seq /\ new[j - 1] = seq[j]
      BY <1>1, <1>3, <1>5, <2>3
    <3> QED BY <1>4, <3>1, Zenon DEF Members
  <2> QED BY <1>1, <1>3, <2>1, <2>2, <2>3
<1>9. Members(seq) \subseteq Members(new)
  BY <1>8, Zenon DEF Members
<1> QED BY <1>2, <1>4, <1>6, <1>7, <1>9, Zenon

\* pop_front, n times: what goes is exactly what Victims names.
LEMMA DroppedFacts ==
    ASSUME NEW seq \in Seq(Keys), NEW n \in Int, n > 0, Distinct(seq)
    PROVE  /\ SubSeq(seq, n + 1, Len(seq)) \in Seq(Keys)
           /\ Distinct(SubSeq(seq, n + 1, Len(seq)))
           /\ Members(SubSeq(seq, n + 1, Len(seq))) = Members(seq) \ {seq[j] : j \in 1 .. n}
<1> DEFINE new == SubSeq(seq, n + 1, Len(seq))
<1>1. DOMAIN seq = 1 .. Len(seq) /\ Len(seq) \in Nat
  OBVIOUS
<1>2. CASE n >= Len(seq)
  <2>1. new = <<>>
    BY <1>1, <1>2
  <2>2. Members(new) = {} /\ Distinct(new) /\ new \in Seq(Keys)
    BY <2>1 DEF Members, Distinct
  <2>3. Members(seq) \subseteq {seq[j] : j \in 1 .. n}
    BY <1>1, <1>2 DEF Members
  <2> QED BY <2>2, <2>3, Zenon
<1>3. CASE n < Len(seq)
  <2>1. /\ new \in Seq(Keys)
        /\ DOMAIN new = 1 .. Len(seq) - n
        /\ \A j \in 1 .. Len(seq) - n : new[j] = seq[j + n]
    <3>1. \A i \in n + 1 .. Len(seq) : seq[i] \in Keys
      BY <1>1
    <3>2. n + 1 \in Int /\ Len(seq) \in Int
      BY <1>1
    <3>3. /\ new \in Seq(Keys)
          /\ Len(new) = IF n + 1 <= Len(seq) THEN Len(seq) - (n + 1) + 1 ELSE 0
          /\ \A i \in 1 .. Len(seq) - (n + 1) + 1 : new[i] = seq[n + 1 + i - 1]
      BY <1>1, <3>1, <3>2
    <3> HIDE DEF new
    <3>a. Len(new) = IF n + 1 <= Len(seq) THEN Len(seq) - (n + 1) + 1 ELSE 0
      BY <3>3, Zenon
    <3>b. n + 1 <= Len(seq) /\ Len(seq) - (n + 1) + 1 = Len(seq) - n
      BY <1>1, <1>3
    <3>4. Len(new) = Len(seq) - n /\ Len(seq) - (n + 1) + 1 = Len(seq) - n
      BY <3>a, <3>b, Zenon
    <3>5. \A i \in Int : n + 1 + i - 1 = i + n
      OBVIOUS
    <3>6. DOMAIN new = 1 .. Len(new)
      BY <3>3
    <3> QED BY <3>3, <3>4, <3>5, <3>6
  <2> HIDE DEF new
  <2>a. ASSUME NEW j \in DOMAIN new
        PROVE  j \in Int /\ j + n \in DOMAIN seq /\ j + n > n /\ new[j] = seq[j + n]
    BY <1>1, <1>3, <2>1
  <2>2. ASSUME NEW j \in DOMAIN new, NEW k \in DOMAIN new, new[j] = new[k] PROVE j = k
    <3>1. j + n = k + n
      BY <2>a, <2>2, Zenon DEF Distinct
    <3> QED BY <2>a, <3>1
  <2>3. ASSUME NEW j \in DOMAIN new PROVE new[j] \in Members(seq) \ {seq[k] : k \in 1 .. n}
    <3>1. ASSUME NEW k \in 1 .. n PROVE seq[k] # new[j]
      <4>1. k \in DOMAIN seq /\ k # j + n
        BY <1>1, <1>3, <2>a
      <4> QED BY <2>a, <4>1, Zenon DEF Distinct
    <3> QED BY <2>a, <3>1, Zenon DEF Members
  <2>4. ASSUME NEW j \in DOMAIN seq, j > n PROVE seq[j] \in Members(new)
    <3>1. j - n \in DOMAIN new /\ new[j - n] = seq[j]
      BY <1>1, <1>3, <2>1, <2>4
    <3> QED BY <3>1, Zenon DEF Members
  <2>5. Members(new) = Members(seq) \ {seq[k] : k \in 1 .. n}
    BY <1>1, <2>3, <2>4 DEF Members
  <2> QED BY <2>1, <2>2, <2>5, Zenon DEF new, Distinct
<1> QED BY <1>1, <1>2, <1>3

\* Replacing list and map of one shard by a pair that matches keeps the invariant.
LEMMA ShardUpdate ==
    ASSUME IInv, NEW s \in Shards, NEW seq \in Seq(Keys), NEW map, Tracks(seq, map),
           key_tracker' = [key_tracker EXCEPT ![s] = seq],
           stats_db' = [stats_db EXCEPT ![s] = map],
           Others'
    PROVE  IInv'
<1>1. key_tracker' \in [Shards -> Seq(Keys)] /\ stats_db' = [t \in Shards |-> stats_db'[t]]
  BY Zenon DEF IInv
<1>2. ASSUME NEW t \in Shards PROVE Tracks(key_tracker'[t], stats_db'[t])
  <2>1. CASE t = s
    BY <2>1, Zenon DEF IInv
  <2>2. CASE t # s
    <3>1. key_tracker'[t] = key_tracker[t] /\ stats_db'[t] = stats_db[t]
      BY <2>2, Zenon DEF IInv
    <3> QED BY <3>1, Zenon DEF IInv, TrackerMatchesDB, Tracks
  <2> QED BY <2>1, <2>2, Zenon
<1> QED BY <1>1, <1>2, Zenon DEF IInv, TrackerMatchesDB, Tracks

\* A new field leaves the keys of the map as they were, but for the key itself.
LEMMA WithFieldDomain ==
    ASSUME NEW map, NEW key, NEW field, NEW v
    PROVE  DOMAIN WithField(map, key, field, v) = DOMAIN map \union {key}
BY Zenon DEF WithField

\* A write creates or finds the key, and moves it to the end of the list.
LEMMA WriteKeepsInv ==
    ASSUME IInv, NEW key \in Keys, NEW field, NEW v, WriteEntry(key, field, v), Others'
    PROVE  IInv'
<1> DEFINE s == getShardIndex[key]
           ins == Inserted(key, key_tracker[s])
           seq == Spliced(key, ins)
           map == WithField(stats_db[s], key, field, v)
<1>1. s \in Shards
  BY ShardAssumption, Zenon DEF Shards
<1>2. key_tracker[s] \in Seq(Keys) /\ Tracks(key_tracker[s], stats_db[s])
  BY <1>1, Zenon DEF IInv, TrackerMatchesDB, Tracks
<1>3. ins \in Seq(Keys) /\ Distinct(ins) /\ Members(ins) = DOMAIN stats_db[s] \union {key}
  BY <1>2, InsertedFacts, Zenon DEF Tracks
<1>4. seq \in Seq(Keys) /\ Distinct(seq) /\ Members(seq) = Members(ins)
  <2> HIDE DEF ins
  <2> QED BY <1>3, SplicedFacts, Zenon
<1>5. Tracks(seq, map)
  <2>1. DOMAIN map = DOMAIN stats_db[s] \union {key}
    BY WithFieldDomain
  <2> HIDE DEF ins, seq, map
  <2> QED BY <1>3, <1>4, <2>1, Zenon DEF Tracks
<1>6. /\ key_tracker' = [key_tracker EXCEPT ![s] = seq]
      /\ stats_db' = [stats_db EXCEPT ![s] = map]
  BY Zenon DEF WriteEntry
<1> HIDE DEF s, ins, seq, map
<1> QED BY <1>1, <1>4, <1>5, <1>6, ShardUpdate, Zenon

\* An add that throws has created the key in both places or in none.
LEMMA AddThrowsKeepsInv ==
    ASSUME IInv, NEW key \in Keys, NEW field, AddThrows(key, field)
    PROVE  IInv'
<1> DEFINE s == getShardIndex[key]
           seq == Inserted(key, key_tracker[s])
           held == key \in DOMAIN stats_db[s] /\ field \in DOMAIN stats_db[s][key]
           map == IF held THEN stats_db[s] ELSE WithField(stats_db[s], key, field, Empty)
<1>1. s \in Shards
  BY ShardAssumption, Zenon DEF Shards
<1>2. key_tracker[s] \in Seq(Keys) /\ Tracks(key_tracker[s], stats_db[s])
  BY <1>1, Zenon DEF IInv, TrackerMatchesDB, Tracks
<1>3. seq \in Seq(Keys) /\ Distinct(seq) /\ Members(seq) = DOMAIN stats_db[s] \union {key}
  BY <1>2, InsertedFacts, Zenon DEF Tracks
<1>4. DOMAIN map = DOMAIN stats_db[s] \union {key}
  BY WithFieldDomain
<1>5. /\ key_tracker' = [key_tracker EXCEPT ![s] = seq]
      /\ UNCHANGED <<restoring, map_size_soft, resizing>>
  BY Zenon DEF AddThrows
<1>6. stats_db' = [stats_db EXCEPT ![s] = map]
  <2>1. CASE held
    <3>1. stats_db' = stats_db
      BY <2>1, Zenon DEF AddThrows
    <3> QED BY <1>1, <2>1, <3>1, Zenon DEF IInv
  <2>2. CASE ~held
    BY <2>2, Zenon DEF AddThrows
  <2> QED BY <2>1, <2>2, Zenon
<1>7. Tracks(seq, map) /\ Others'
  BY <1>3, <1>4, <1>5, Zenon DEF Tracks, IInv, Others
<1> HIDE DEF s, seq, map
<1> QED BY <1>1, <1>3, <1>5, <1>6, <1>7, ShardUpdate, Zenon

\* A reset leaves the keys alone.
LEMMA ResetKeepsInv ==
    ASSUME IInv, NEW key \in Keys, NEW fields, Reset(key, fields)
    PROVE  IInv'
<1> DEFINE s == getShardIndex[key]
           map == stats_db'[s]
<1>1. s \in Shards
  BY ShardAssumption, Zenon DEF Shards
<1>2. /\ key_tracker' = [key_tracker EXCEPT ![s] = key_tracker[s]]
      /\ UNCHANGED <<restoring, map_size_soft, resizing>>
      /\ key_tracker[s] \in Seq(Keys)
  BY <1>1, Zenon DEF Reset, IInv
<1>3. stats_db' = [stats_db EXCEPT ![s] = map] /\ DOMAIN map = DOMAIN stats_db[s]
  BY <1>1, Zenon DEF Reset, IInv
<1>4. Tracks(key_tracker[s], map) /\ Others'
  BY <1>1, <1>2, <1>3, Zenon DEF IInv, TrackerMatchesDB, Tracks, Others
<1> HIDE DEF s, map
<1> QED BY <1>1, <1>2, <1>3, <1>4, ShardUpdate, Zenon

\* Expiry takes the same keys out of the list and out of the map.
LEMMA ExpireKeepsInv ==
    ASSUME IInv, NEW s \in Shards, Expire(s)
    PROVE  IInv'
<1> DEFINE n == Size(s) - map_size_soft[s]
           seq == SubSeq(key_tracker[s], n + 1, Len(key_tracker[s]))
           map == [k \in DOMAIN stats_db[s] \ Victims(s, n) |-> stats_db[s][k]]
<1>1. key_tracker[s] \in Seq(Keys) /\ Tracks(key_tracker[s], stats_db[s])
  BY Zenon DEF IInv, TrackerMatchesDB, Tracks
<1>2. n > 0 /\ n \in Int
  <2>1. DOMAIN stats_db[s] \subseteq Keys
    BY <1>1 DEF Tracks, Members
  <2>2. Size(s) \in Nat
    BY <2>1, FS_Subset, FS_CardinalityType, ShardAssumption, Zenon DEF Size
  <2> QED BY <2>2 DEF Expire, IInv, Others
<1>3. /\ key_tracker' = [key_tracker EXCEPT ![s] = seq]
      /\ stats_db' = [stats_db EXCEPT ![s] = map]
      /\ UNCHANGED <<restoring, map_size_soft, resizing>>
  BY Zenon DEF Expire
<1>4. DOMAIN map = DOMAIN stats_db[s] \ {key_tracker[s][j] : j \in 1 .. n}
  BY Zenon DEF Victims
<1> HIDE DEF n, map
<1>5. seq \in Seq(Keys) /\ Tracks(seq, map)
  BY <1>1, <1>2, <1>4, DroppedFacts, Zenon DEF Tracks
<1>6. Others'
  BY <1>3, Zenon DEF IInv, Others
<1> HIDE DEF seq
<1> QED BY <1>3, <1>5, <1>6, ShardUpdate, Zenon

\* The steps that touch neither list nor map.
LEMMA LocalKeepsInv ==
    ASSUME IInv, UNCHANGED <<key_tracker, stats_db>>, Others'
    PROVE  IInv'
BY Zenon DEF IInv, TrackerMatchesDB

\* Initially every list and every map is empty.
LEMMA InitInv == Init => IInv
<1> SUFFICES ASSUME Init PROVE IInv
  BY Zenon
<1>1. /\ key_tracker \in [Shards -> Seq(Keys)]
      /\ stats_db = [s \in Shards |-> stats_db[s]]
      /\ \A s \in Shards : key_tracker[s] = <<>> /\ stats_db[s] = <<>>
  BY DEF Init
<1>2. Others
  BY ShardAssumption DEF Init, Others
<1>3. TrackerMatchesDB
  BY <1>1 DEF TrackerMatchesDB, Distinct, Members
<1> QED BY <1>1, <1>2, <1>3, Zenon DEF IInv

\* Every step of a worker, of an expiry thread or of a dumper keeps the invariant.
LEMMA NextKeepsInv == IInv /\ [Next]_vars => IInv'
<1> SUFFICES ASSUME IInv, [Next]_vars PROVE IInv'
  BY Zenon
<1>0. Others
  BY Zenon DEF IInv
<1>1. ASSUME NEW key \in Keys, NEW field \in Fields, Add(key, field) PROVE IInv'
  <2>1. Others'
    BY <1>0, <1>1, Zenon DEF Add, Others
  <2>2. PICK v \in Values : WriteEntry(key, field, v)
    BY <1>1, Zenon DEF Add
  <2> QED BY <2>1, <2>2, WriteKeepsInv, Zenon
<1>2. ASSUME NEW key \in Keys, NEW entry \in FieldMap, RestoreBegin(key, entry) PROVE IInv'
  <2>1. Others'
    BY <1>0, <1>2 DEF RestoreBegin, Others
  <2> QED BY <1>2, <2>1, LocalKeepsInv, Zenon DEF RestoreBegin
<1>3. CASE RestoreField
  <2>0. PICK r \in restoring : \E f \in r.todo :
          /\ WriteEntry(r.key, f, r.entry[f])
          /\ restoring' = {[r EXCEPT !.todo = @ \ {f}]}
          /\ UNCHANGED <<map_size_soft, resizing>>
    BY <1>3, Zenon DEF RestoreField
  <2>1. PICK f \in r.todo :
          /\ WriteEntry(r.key, f, r.entry[f])
          /\ restoring' = {[r EXCEPT !.todo = @ \ {f}]}
          /\ UNCHANGED <<map_size_soft, resizing>>
    BY <2>0, Zenon
  <2>2. r.key \in Keys
    BY <1>0, Zenon DEF Others
  <2>3. [r EXCEPT !.todo = @ \ {f}].key = r.key
    OBVIOUS
  <2>4. Others'
    BY <1>0, <2>1, <2>2, <2>3, Zenon DEF Others
  <2> QED BY <2>1, <2>2, <2>4, WriteKeepsInv, Zenon
<1>4. CASE RestoreEnd
  <2>1. Others'
    BY <1>0, <1>4, Zenon DEF RestoreEnd, Others
  <2> QED BY <1>4, <2>1, LocalKeepsInv, Zenon DEF RestoreEnd
<1>5. ASSUME NEW size \in Sizes, SetSizeBegin(size) PROVE IInv'
  <2>1. Others'
    BY <1>0, <1>5, ShardAssumption DEF SetSizeBegin, Others
  <2> QED BY <1>5, <2>1, LocalKeepsInv, Zenon DEF SetSizeBegin
<1>6. CASE SetSizeShard
  <2>1. resizing.size \div num_shards \in Nat
    BY <1>0, ShardAssumption DEF Others
  <2>2. /\ restoring' = restoring
        /\ map_size_soft' = [map_size_soft EXCEPT ![resizing.next] = resizing.size \div num_shards]
        /\ resizing' = [resizing EXCEPT !.next = resizing.next + 1]
    BY <1>6, Zenon DEF SetSizeShard
  <2> DEFINE n == resizing.size \div num_shards
  <2>3. n \in Nat
    BY <2>1, Zenon
  <2>4. map_size_soft' = [map_size_soft EXCEPT ![resizing.next] = n]
    BY <2>2, Zenon
  <2> HIDE DEF n
  <2>a. resizing' \in [size : Nat, next : Int]
    BY <1>0, <2>2 DEF Others
  <2>b. map_size_soft' \in [Shards -> Nat]
    BY <1>0, <2>3, <2>4, Zenon DEF Others
  <2>5. Others'
    BY <1>0, <2>2, <2>a, <2>b, Zenon DEF Others
  <2> QED BY <1>6, <2>5, LocalKeepsInv, Zenon DEF SetSizeShard
<1>7. CASE \E d \in Dumpers : DumpBegin(d) \/ Dumping(d)
  <2>1. UNCHANGED <<key_tracker, stats_db, restoring, map_size_soft, resizing>>
    BY <1>7, Zenon DEF DumpBegin, Dumping, startDBDump, DumpEntry, EndDBDump, DumpFails, DumpReturns
  <2>2. Others'
    BY <1>0, <2>1, Zenon DEF Others
  <2> QED BY <2>1, <2>2, LocalKeepsInv, Zenon
<1>8. CASE UNCHANGED vars
  <2>1. UNCHANGED <<key_tracker, stats_db>> /\ Others'
    BY <1>0, <1>8, Zenon DEF vars, Others
  <2> QED BY <2>1, LocalKeepsInv, Zenon
<1>9. CASE Worker
  BY <1>1, <1>2, <1>3, <1>4, <1>5, <1>6, <1>9, AddThrowsKeepsInv, ResetKeepsInv, Zenon DEF Worker
<1> QED BY <1>7, <1>8, <1>9, ExpireKeepsInv, Zenon DEF Next

\* In every reachable state of the database, for any number of keys, shards and
\* dumpers, each shard's list of keys is a duplicate-free list of the keys of
\* its map: what expireEntries and the dumps rely on when they walk the list.
THEOREM DBTrackerMatches == Spec => []TrackerMatchesDB
<1>1. IInv => TrackerMatchesDB
  BY Zenon DEF IInv
<1> QED BY <1>1, InitInv, NextKeepsInv, PTL DEF Spec
-----------------------------------------------------------------------------
(***************************************************************************)
(* Dumps.                                                                  *)
(***************************************************************************)

\* Every key is in the shard that getShardIndex names.
Homes(db) == \A s \in Shards : \A k \in DOMAIN db[s] : k \in Keys /\ getShardIndex[k] = s

\* Dump D of thread d, with mutexes m, lists kt, maps db and the keys st that were
\* there since it began: it holds the shard it walks; it has sent the keys of the
\* shards behind it that stayed, and of the shard it walks exactly those before its
\* position, each once.
DumpSound(d, D, m, kt, db, st) ==
    /\ D \in [shard : 0 .. num_shards + 1, pos : Nat, sent : Seq(Keys)]
    /\ Distinct(D.sent)
    /\ D.pos > 0 => D.shard \in Shards /\ m[D.shard] = d
    /\ \A k \in Members(D.sent) :
          \/ getShardIndex[k] < D.shard
          \/ D.pos > 0 /\ \E i \in DOMAIN kt[D.shard] : i < D.pos /\ kt[D.shard][i] = k
    /\ D.pos > 0 => \A i \in DOMAIN kt[D.shard] : i < D.pos => kt[D.shard][i] \in Members(D.sent)
    /\ D.shard # 0 =>
          \A k \in st : /\ k \in Keys /\ k \in DOMAIN db[getShardIndex[k]]
                        /\ getShardIndex[k] < D.shard => k \in Members(D.sent)

\* Every dump is sound.
DumpInv ==
    /\ dump = [d \in Dumpers |-> dump[d]]
    /\ mutx = [s \in Shards |-> mutx[s]]
    /\ stayed = [d \in Dumpers |-> stayed[d]]
    /\ Homes(stats_db)
    /\ \A d \in Dumpers : DumpSound(d, dump[d], mutx, key_tracker, stats_db, stayed[d])

\* A step that leaves the dumps and the mutexes alone, changes no list whose mutex
\* is held, and takes a key out of the map only if it takes it out of what stayed.
LEMMA TablesKeepDumps ==
    ASSUME DumpInv, IInv,
           UNCHANGED <<dump, mutx>>,
           stayed' = [d \in Dumpers |-> stayed'[d]],
           Homes(stats_db'),
           \A s \in Shards : mutx[s] # Free => key_tracker'[s] = key_tracker[s],
           \A d \in Dumpers : stayed'[d] \subseteq stayed[d],
           \A s \in Shards : \A k \in DOMAIN stats_db[s] :
              k \in DOMAIN stats_db'[s] \/ \A d \in Dumpers : k \notin stayed'[d]
    PROVE  DumpInv'
<1>1. ASSUME NEW d \in Dumpers
      PROVE  DumpSound(d, dump[d], mutx, key_tracker', stats_db', stayed'[d])
  <2> DEFINE D == dump[d]
  <2>1. DumpSound(d, D, mutx, key_tracker, stats_db, stayed[d])
    BY Zenon DEF DumpInv
  <2> HIDE DEF D
  <2>2. D.pos > 0 => key_tracker'[D.shard] = key_tracker[D.shard]
    BY <2>1, ShardAssumption DEF DumpSound
  <2>3. ASSUME D.shard # 0, NEW k \in stayed'[d]
        PROVE  /\ k \in Keys /\ k \in DOMAIN stats_db'[getShardIndex[k]]
               /\ getShardIndex[k] < D.shard => k \in Members(D.sent)
    <3>1. /\ k \in Keys /\ k \in DOMAIN stats_db[getShardIndex[k]]
          /\ getShardIndex[k] < D.shard => k \in Members(D.sent)
      BY <2>1, <2>3, Zenon DEF DumpSound
    <3>2. getShardIndex[k] \in Shards
      BY <3>1, ShardAssumption, Zenon DEF Shards
    <3> QED BY <3>1, <3>2, Zenon
  <2>4. DumpSound(d, D, mutx, key_tracker', stats_db', stayed'[d])
    <3>1. ASSUME NEW k \in Members(D.sent)
          PROVE  \/ getShardIndex[k] < D.shard
                 \/ D.pos > 0 /\ \E i \in DOMAIN key_tracker'[D.shard] :
                                    i < D.pos /\ key_tracker'[D.shard][i] = k
      BY <2>1, <2>2 DEF DumpSound
    <3>2. D.pos > 0 => \A i \in DOMAIN key_tracker'[D.shard] :
                          i < D.pos => key_tracker'[D.shard][i] \in Members(D.sent)
      BY <2>1, <2>2, Zenon DEF DumpSound
    <3>3. /\ D \in [shard : 0 .. num_shards + 1, pos : Nat, sent : Seq(Keys)]
          /\ Distinct(D.sent)
          /\ D.pos > 0 => D.shard \in Shards /\ mutx[D.shard] = d
      BY <2>1, Zenon DEF DumpSound
    <3> QED BY <2>3, <3>1, <3>2, <3>3, Zenon DEF DumpSound
  <2> QED BY <2>4, Zenon DEF D
<1>2. \A d \in Dumpers : DumpSound(d, dump'[d], mutx', key_tracker', stats_db', stayed'[d])
  BY <1>1, Zenon
<1>3. dump' = [d \in Dumpers |-> dump'[d]] /\ mutx' = [s \in Shards |-> mutx'[s]]
  BY Zenon DEF DumpInv
<1> QED BY <1>2, <1>3, Zenon DEF DumpInv

\* A step of dumper d, which leaves lists and maps alone, takes no mutex from
\* another dumper and leaves d's own dump sound.
LEMMA OwnStepKeepsDumps ==
    ASSUME DumpInv, UNCHANGED <<key_tracker, stats_db>>,
           NEW d \in Dumpers, NEW D, NEW st,
           dump' = [dump EXCEPT ![d] = D],
           stayed' = [stayed EXCEPT ![d] = st],
           mutx' = [s \in Shards |-> mutx'[s]],
           \A s \in Shards : \A e \in Dumpers \ {d} : mutx[s] = e => mutx'[s] = e,
           DumpSound(d, D, mutx', key_tracker, stats_db, st)
    PROVE  DumpInv'
<1>1. /\ dump' = [e \in Dumpers |-> dump'[e]] /\ stayed' = [e \in Dumpers |-> stayed'[e]]
      /\ dump'[d] = D /\ stayed'[d] = st
      /\ \A e \in Dumpers \ {d} : dump'[e] = dump[e] /\ stayed'[e] = stayed[e]
  BY Zenon DEF DumpInv
<1>2. ASSUME NEW e \in Dumpers \ {d}
      PROVE  DumpSound(e, dump[e], mutx', key_tracker, stats_db, stayed[e])
  <2> DEFINE E == dump[e]
  <2>1. DumpSound(e, E, mutx, key_tracker, stats_db, stayed[e])
    BY Zenon DEF DumpInv
  <2> HIDE DEF E
  <2>2. E.pos > 0 => E.shard \in Shards /\ mutx'[E.shard] = e
    BY <2>1, Zenon DEF DumpSound
  <2>3. DumpSound(e, E, mutx', key_tracker, stats_db, stayed[e])
    BY <2>1, <2>2, Zenon DEF DumpSound
  <2> QED BY <2>3, Zenon DEF E
<1>3. \A e \in Dumpers : DumpSound(e, dump'[e], mutx', key_tracker', stats_db', stayed'[e])
  BY <1>1, <1>2, Zenon
<1>4. Homes(stats_db')
  BY Zenon DEF DumpInv
<1> QED BY <1>1, <1>3, <1>4, Zenon DEF DumpInv

\* The call begins: nothing is sent and what is there has stayed.
LEMMA BeginKeepsDumps ==
    ASSUME DumpInv, NEW d \in Dumpers, DumpBegin(d)
    PROVE  DumpInv'
<1> DEFINE D == [shard |-> 1, pos |-> 0, sent |-> <<>>]
           st == UNION {DOMAIN stats_db[s] : s \in Shards}
<1>1. /\ dump' = [dump EXCEPT ![d] = D] /\ stayed' = [stayed EXCEPT ![d] = st]
      /\ UNCHANGED <<key_tracker, stats_db, mutx>>
  BY Zenon DEF DumpBegin
<1>2. /\ D.shard = 1 /\ D.pos = 0 /\ D.sent = <<>>
      /\ D \in [shard : 0 .. num_shards + 1, pos : Nat, sent : Seq(Keys)]
  BY ShardAssumption
<1>3. \A k \in st : k \in Keys /\ k \in DOMAIN stats_db[getShardIndex[k]]
                    /\ getShardIndex[k] \in 1 .. num_shards
  BY ShardAssumption DEF DumpInv, Homes
<1> HIDE DEF D, st
<1>4. Members(D.sent) = {} /\ Distinct(D.sent) /\ D.sent \in Seq(Keys)
  BY <1>2 DEF Members, Distinct
<1>5. DumpSound(d, D, mutx, key_tracker, stats_db, st)
  BY <1>2, <1>3, <1>4, ShardAssumption DEF DumpSound
<1> QED BY <1>1, <1>5, OwnStepKeepsDumps, Zenon DEF DumpInv

\* The dump is given up or has returned.
LEMMA IdleKeepsDumps ==
    ASSUME DumpInv, NEW d \in Dumpers, DumpFails(d) \/ DumpReturns(d)
    PROVE  DumpInv'
<1>1. /\ Idle.shard = 0 /\ Idle.pos = 0 /\ Idle.sent = <<>>
      /\ Idle \in [shard : 0 .. num_shards + 1, pos : Nat, sent : Seq(Keys)]
  BY ShardAssumption DEF Idle
<1>2. Members(Idle.sent) = {} /\ Distinct(Idle.sent) /\ Idle.sent \in Seq(Keys)
  BY <1>1 DEF Members, Distinct
<1>3. DumpSound(d, Idle, mutx', key_tracker, stats_db, stayed[d])
  BY <1>1, <1>2, ShardAssumption DEF DumpSound
<1>4. /\ dump' = [dump EXCEPT ![d] = Idle]
      /\ UNCHANGED <<key_tracker, stats_db, stayed>>
  BY Zenon DEF DumpFails, DumpReturns
<1>5. /\ mutx' = [s \in Shards |-> mutx'[s]]
      /\ \A s \in Shards : \A e \in Dumpers \ {d} : mutx[s] = e => mutx'[s] = e
  <2>1. CASE DumpReturns(d)
    BY <2>1, Zenon DEF DumpReturns, DumpInv
  <2>2. CASE DumpFails(d)
    <3>1. dump[d].pos > 0 /\ mutx' = [mutx EXCEPT ![dump[d].shard] = Free]
      BY <2>2, Zenon DEF DumpFails
    <3>2. mutx[dump[d].shard] = d
      BY <3>1, Zenon DEF DumpInv, DumpSound
    <3> QED BY <3>1, <3>2, Zenon DEF DumpInv
  <2> QED BY <2>1, <2>2, Zenon
<1>6. stayed' = [stayed EXCEPT ![d] = stayed[d]]
  BY <1>4, Zenon DEF DumpInv
<1> QED BY <1>3, <1>4, <1>5, <1>6, OwnStepKeepsDumps, Zenon

\* The shard is locked and nothing of it sent yet.
LEMMA StartKeepsDumps ==
    ASSUME IInv, DumpInv, NEW d \in Dumpers, startDBDump(d)
    PROVE  DumpInv'
<1> DEFINE D == [dump[d] EXCEPT !.pos = 1]
           s == dump[d].shard
<1>1. DumpSound(d, dump[d], mutx, key_tracker, stats_db, stayed[d])
  BY Zenon DEF DumpInv
<1>2. /\ dump' = [dump EXCEPT ![d] = D] /\ stayed' = [stayed EXCEPT ![d] = stayed[d]]
      /\ UNCHANGED <<key_tracker, stats_db>>
      /\ s \in Shards /\ dump[d].pos = 0 /\ mutx[s] = Free
      /\ mutx' = [mutx EXCEPT ![s] = d]
  BY Zenon DEF startDBDump, DumpInv
<1>3. /\ D \in [shard : 0 .. num_shards + 1, pos : Nat, sent : Seq(Keys)]
      /\ D.shard = s /\ D.pos = 1 /\ D.sent = dump[d].sent
  BY <1>1, Zenon DEF DumpSound
<1>4. mutx' = [t \in Shards |-> mutx'[t]] /\ mutx'[s] = d
  BY <1>2, Zenon DEF DumpInv
<1>5. \A t \in Shards : \A e \in Dumpers \ {d} : mutx[t] = e => mutx'[t] = e
  BY <1>2, ShardAssumption, Zenon DEF DumpInv
<1> HIDE DEF D
<1>6. DumpSound(d, D, mutx', key_tracker, stats_db, stayed[d])
  <2>1. ASSUME NEW k \in Members(D.sent) PROVE getShardIndex[k] < D.shard
    BY <1>1, <1>2, <1>3 DEF DumpSound
  <2>2. ASSUME NEW i \in DOMAIN key_tracker[D.shard] PROVE ~(i < D.pos)
    <3>1. i \in Nat \ {0}
      BY <1>2, <1>3 DEF IInv
    <3> QED BY <1>3, <3>1
  <2>3. D.shard # 0 =>
          \A k \in stayed[d] : /\ k \in Keys /\ k \in DOMAIN stats_db[getShardIndex[k]]
                               /\ getShardIndex[k] < D.shard => k \in Members(D.sent)
    BY <1>1, <1>3, Zenon DEF DumpSound
  <2>4. Distinct(D.sent)
    BY <1>1, <1>3, Zenon DEF DumpSound
  <2> QED BY <1>2, <1>3, <1>4, <2>1, <2>2, <2>3, <2>4, Zenon DEF DumpSound
<1> QED BY <1>2, <1>4, <1>5, <1>6, OwnStepKeepsDumps, Zenon

\* One more key of the shard is sent: it is none of the keys before it in the list,
\* and none of the keys of other shards.
LEMMA EntryKeepsDumps ==
    ASSUME IInv, DumpInv, NEW d \in Dumpers, DumpEntry(d)
    PROVE  DumpInv'
<1> DEFINE s == dump[d].shard
           i == dump[d].pos
           seq == key_tracker[s]
           old == dump[d].sent
           D == [dump[d] EXCEPT !.sent = Append(old, seq[i]), !.pos = i + 1]
<1>1. DumpSound(d, dump[d], mutx, key_tracker, stats_db, stayed[d])
  BY Zenon DEF DumpInv
<1>2. /\ s \in Shards /\ i \in Nat /\ i > 0 /\ seq \in Seq(Keys) /\ i \in DOMAIN seq
      /\ Distinct(seq) /\ Members(seq) = DOMAIN stats_db[s]
      /\ old \in Seq(Keys) /\ Distinct(old) /\ mutx[s] = d
  <2>1. s \in Shards /\ i > 0 /\ i <= Len(seq)
    BY Zenon DEF DumpEntry
  <2>2. seq \in Seq(Keys) /\ Distinct(seq) /\ Members(seq) = DOMAIN stats_db[s]
    BY <2>1, Zenon DEF IInv, TrackerMatchesDB
  <2>3. i \in Nat /\ old \in Seq(Keys) /\ Distinct(old) /\ mutx[s] = d
    BY <1>1, <2>1, Zenon DEF DumpSound
  <2> QED BY <2>1, <2>2, <2>3
<1>3. seq[i] \in Keys /\ seq[i] \in DOMAIN stats_db[s] /\ getShardIndex[seq[i]] = s
  BY <1>2 DEF Members, DumpInv, Homes
<1>4. /\ dump' = [dump EXCEPT ![d] = D] /\ stayed' = [stayed EXCEPT ![d] = stayed[d]]
      /\ UNCHANGED <<key_tracker, stats_db, mutx>>
  <2>1. dump' = [dump EXCEPT ![d].sent = Append(@, seq[i]), ![d].pos = i + 1]
    BY <1>3, Zenon DEF DumpEntry
  <2> QED BY <2>1, Zenon DEF DumpEntry, DumpInv
<1>5. /\ dump[d] \in [shard : 0 .. num_shards + 1, pos : Nat, sent : Seq(Keys)]
      /\ \A k \in Members(old) : getShardIndex[k] < s
                                 \/ \E j \in DOMAIN seq : j < i /\ seq[j] = k
      /\ i > 0 => \A j \in DOMAIN seq : j < i => seq[j] \in Members(old)
      /\ s # 0 => \A k \in stayed[d] : /\ k \in Keys /\ k \in DOMAIN stats_db[getShardIndex[k]]
                                       /\ getShardIndex[k] < s => k \in Members(old)
  BY <1>1, Zenon DEF DumpSound
<1>6. s = dump[d].shard /\ i = dump[d].pos /\ seq = key_tracker[s] /\ old = dump[d].sent
  BY Zenon
<1>7. s # 0 /\ s \in Int /\ DOMAIN seq \subseteq Nat
  BY <1>2 DEF Shards
<1> HIDE DEF s, i, seq, old
<1>8. seq[i] \notin Members(old)
  <2> SUFFICES ASSUME seq[i] \in Members(old) PROVE FALSE
    BY Zenon
  <2>1. ~(getShardIndex[seq[i]] < s)
    BY <1>3, <1>7
  <2>2. PICK j \in DOMAIN seq : j < i /\ seq[j] = seq[i]
    BY <1>5, <2>1, Zenon
  <2>3. j = i
    BY <1>2, <2>2, Zenon DEF Distinct
  <2> QED BY <1>2, <2>2, <2>3
<1> DEFINE new == Append(old, seq[i])
<1>9. new \in Seq(Keys) /\ Members(new) = Members(old) \union {seq[i]} /\ Distinct(new)
  <2>1. Inserted(seq[i], old) = new
    BY <1>8, Zenon DEF Inserted
  <2> HIDE DEF new
  <2> QED BY <1>2, <1>3, <2>1, InsertedFacts, Zenon
<1> HIDE DEF new
<1>10. /\ D \in [shard : 0 .. num_shards + 1, pos : Nat, sent : Seq(Keys)]
       /\ D.shard = s /\ D.pos = i + 1 /\ D.sent = new
  <2>1. D = [dump[d] EXCEPT !.sent = new, !.pos = i + 1] /\ i + 1 \in Nat
    BY <1>2 DEF new
  <2> HIDE DEF D
  <2> QED BY <1>5, <1>6, <1>9, <2>1, Zenon
<1> HIDE DEF D
<1>11. DumpSound(d, D, mutx, key_tracker, stats_db, stayed[d])
  <2>1. \A j \in DOMAIN seq : j < i + 1 <=> j < i \/ j = i
    BY <1>2, <1>7
  <2>2. \A k \in Members(new) : getShardIndex[k] < s
                                \/ \E j \in DOMAIN seq : j < i + 1 /\ seq[j] = k
    BY <1>2, <1>5, <1>9, <2>1, Zenon
  <2>3. \A j \in DOMAIN seq : j < i + 1 => seq[j] \in Members(new)
    BY <1>2, <1>5, <1>9, <2>1, Zenon
  <2>4. \A k \in stayed[d] : /\ k \in Keys /\ k \in DOMAIN stats_db[getShardIndex[k]]
                             /\ getShardIndex[k] < s => k \in Members(new)
    BY <1>5, <1>7, <1>9, Zenon
  <2>5. i + 1 > 0
    BY <1>2
  <2>6. key_tracker[D.shard] = seq
    BY <1>6, <1>10, Zenon
  <2>7. \A k \in Members(D.sent) :
          \/ getShardIndex[k] < D.shard
          \/ D.pos > 0 /\ \E j \in DOMAIN key_tracker[D.shard] :
                             j < D.pos /\ key_tracker[D.shard][j] = k
    BY <1>10, <2>2, <2>5, <2>6, Zenon
  <2>8. \A j \in DOMAIN key_tracker[D.shard] :
          j < D.pos => key_tracker[D.shard][j] \in Members(D.sent)
    BY <1>10, <2>3, <2>6, Zenon
  <2>9. \A k \in stayed[d] : /\ k \in Keys /\ k \in DOMAIN stats_db[getShardIndex[k]]
                             /\ getShardIndex[k] < D.shard => k \in Members(D.sent)
    BY <1>10, <2>4, Zenon
  <2>10. Distinct(D.sent) /\ D.shard \in Shards /\ mutx[D.shard] = d
    BY <1>2, <1>9, <1>10, Zenon
  <2> QED BY <1>10, <2>7, <2>8, <2>9, <2>10, Zenon DEF DumpSound
<1>12. mutx' = [t \in Shards |-> mutx'[t]]
  BY <1>4, Zenon DEF DumpInv
<1> QED BY <1>4, <1>11, <1>12, OwnStepKeepsDumps, Zenon

\* The shard is left: all its keys have been sent.
LEMMA EndKeepsDumps ==
    ASSUME IInv, DumpInv, NEW d \in Dumpers, EndDBDump(d)
    PROVE  DumpInv'
<1> DEFINE s == dump[d].shard
           i == dump[d].pos
           seq == key_tracker[s]
           D == [dump[d] EXCEPT !.shard = s + 1, !.pos = 0]
<1>1. DumpSound(d, dump[d], mutx, key_tracker, stats_db, stayed[d])
  BY Zenon DEF DumpInv
<1>2. /\ s \in Shards /\ i > Len(seq)
      /\ mutx' = [mutx EXCEPT ![s] = Free]
      /\ dump' = [dump EXCEPT ![d] = D] /\ stayed' = [stayed EXCEPT ![d] = stayed[d]]
      /\ UNCHANGED <<key_tracker, stats_db>>
  BY Zenon DEF EndDBDump, DumpInv
<1>3. /\ i \in Nat /\ i > 0 /\ mutx[s] = d
      /\ seq \in Seq(Keys) /\ Members(seq) = DOMAIN stats_db[s]
      /\ \A j \in DOMAIN seq : j < i
  <2>1. seq \in Seq(Keys) /\ Members(seq) = DOMAIN stats_db[s]
    BY <1>2, Zenon DEF IInv, TrackerMatchesDB
  <2>2. i \in Nat
    BY <1>1, Zenon DEF DumpSound
  <2>3. i > 0 /\ \A j \in DOMAIN seq : j < i
    BY <1>2, <2>1, <2>2
  <2> QED BY <1>1, <2>1, <2>2, <2>3, Zenon DEF DumpSound
<1>4. /\ D \in [shard : 0 .. num_shards + 1, pos : Nat, sent : Seq(Keys)]
      /\ D.shard = s + 1 /\ D.pos = 0 /\ D.sent = dump[d].sent
  <2>1. dump[d] \in [shard : 0 .. num_shards + 1, pos : Nat, sent : Seq(Keys)]
    BY <1>1, Zenon DEF DumpSound
  <2>2. s + 1 \in 0 .. num_shards + 1
    BY <1>2, ShardAssumption DEF Shards
  <2> QED BY <2>1, <2>2, Zenon
<1>5. /\ mutx' = [t \in Shards |-> mutx'[t]]
      /\ \A t \in Shards : \A e \in Dumpers \ {d} : mutx[t] = e => mutx'[t] = e
  BY <1>2, <1>3, Zenon DEF DumpInv
<1>6. ASSUME NEW k \in Members(dump[d].sent) PROVE getShardIndex[k] < s + 1
  <2>1. CASE getShardIndex[k] < s
    <3>1. dump[d].sent \in Seq(Keys)
      BY <1>1, Zenon DEF DumpSound
    <3>2. k \in Keys
      BY <3>1 DEF Members
    <3>3. getShardIndex[k] \in Int /\ s \in Int
      BY <1>2, <3>2, ShardAssumption DEF Shards
    <3> QED BY <2>1, <3>3
  <2>2. CASE \E j \in DOMAIN seq : seq[j] = k
    <3>1. getShardIndex[k] = s
      BY <1>2, <1>3, <2>2 DEF Members, DumpInv, Homes
    <3> QED BY <1>2, <3>1 DEF Shards
  <2> QED BY <1>1, <2>1, <2>2, Zenon DEF DumpSound
<1>7. ASSUME NEW k \in stayed[d]
      PROVE  /\ k \in Keys /\ k \in DOMAIN stats_db[getShardIndex[k]]
             /\ getShardIndex[k] < s + 1 => k \in Members(dump[d].sent)
  <2>1. /\ k \in Keys /\ k \in DOMAIN stats_db[getShardIndex[k]]
        /\ getShardIndex[k] < s => k \in Members(dump[d].sent)
    BY <1>1, <1>2 DEF DumpSound, Shards
  <2>2. CASE getShardIndex[k] = s
    <3>1. k \in Members(seq)
      BY <1>3, <2>1, <2>2, Zenon
    <3>2. PICK j \in DOMAIN seq : seq[j] = k
      BY <3>1, Zenon DEF Members
    <3> QED BY <1>1, <1>3, <2>1, <3>2, Zenon DEF DumpSound
  <2>3. CASE getShardIndex[k] # s
    <3>1. getShardIndex[k] < s + 1 => getShardIndex[k] < s
      BY <1>2, <2>1, <2>3, ShardAssumption DEF Shards
    <3> QED BY <2>1, <3>1, Zenon
  <2> QED BY <2>2, <2>3, Zenon
<1>8. DumpSound(d, D, mutx', key_tracker, stats_db, stayed[d])
  <2>1. Distinct(D.sent)
    BY <1>1, <1>4, Zenon DEF DumpSound
  <2> HIDE DEF D, s
  <2> QED BY <1>4, <1>6, <1>7, <2>1 DEF DumpSound
<1> HIDE DEF D
<1> QED BY <1>2, <1>5, <1>8, OwnStepKeepsDumps, Zenon

\* A worker writes or creates keys of one shard, and only while its mutex is free.
LEMMA ShardWriteKeepsDumps ==
    ASSUME IInv, DumpInv, NEW key \in Keys, NEW seq, NEW map,
           mutx[getShardIndex[key]] = Free,
           key_tracker' = [key_tracker EXCEPT ![getShardIndex[key]] = seq],
           stats_db' = [stats_db EXCEPT ![getShardIndex[key]] = map],
           DOMAIN stats_db[getShardIndex[key]] \subseteq DOMAIN map,
           DOMAIN map \subseteq DOMAIN stats_db[getShardIndex[key]] \union {key},
           UNCHANGED <<dump, mutx, stayed>>
    PROVE  DumpInv'
<1> DEFINE s == getShardIndex[key]
<1>1. s \in Shards
  BY ShardAssumption, Zenon DEF Shards
<1>2. /\ stats_db'[s] = map /\ \A t \in Shards \ {s} : stats_db'[t] = stats_db[t]
      /\ \A t \in Shards \ {s} : key_tracker'[t] = key_tracker[t]
  BY <1>1, Zenon DEF IInv
<1>3. Homes(stats_db')
  BY <1>2 DEF DumpInv, Homes
<1>4. \A t \in Shards : mutx[t] # Free => key_tracker'[t] = key_tracker[t]
  BY <1>2, Zenon
<1>5. \A t \in Shards : DOMAIN stats_db[t] \subseteq DOMAIN stats_db'[t]
  BY <1>2, Zenon
<1>6. stayed' = [d \in Dumpers |-> stayed'[d]] /\ \A d \in Dumpers : stayed'[d] \subseteq stayed[d]
  BY Zenon DEF DumpInv
<1> QED BY <1>3, <1>4, <1>5, <1>6, TablesKeepDumps, Zenon

\* Expiry takes what it removes out of what stayed.
LEMMA ExpireKeepsDumps ==
    ASSUME IInv, DumpInv, NEW s \in Shards, Expire(s)
    PROVE  DumpInv'
<1> DEFINE gone == Victims(s, Size(s) - map_size_soft[s])
           map == [k \in DOMAIN stats_db[s] \ gone |-> stats_db[s][k]]
           seq == SubSeq(key_tracker[s], Size(s) - map_size_soft[s] + 1, Len(key_tracker[s]))
<1>1. /\ mutx[s] = Free /\ UNCHANGED <<dump, mutx>>
      /\ stats_db' = [stats_db EXCEPT ![s] = map]
      /\ key_tracker' = [key_tracker EXCEPT ![s] = seq]
      /\ stayed' = [d \in Dumpers |-> stayed[d] \ gone]
  BY Zenon DEF Expire
<1>2. DOMAIN map = DOMAIN stats_db[s] \ gone
  BY Zenon
<1> HIDE DEF gone, map, seq
<1>3. /\ stats_db'[s] = map /\ \A t \in Shards \ {s} : stats_db'[t] = stats_db[t]
      /\ \A t \in Shards \ {s} : key_tracker'[t] = key_tracker[t]
  BY <1>1, Zenon DEF IInv
<1>4. Homes(stats_db')
  BY <1>2, <1>3 DEF DumpInv, Homes
<1>5. \A t \in Shards : mutx[t] # Free => key_tracker'[t] = key_tracker[t]
  BY <1>1, <1>3, Zenon
<1>6. \A d \in Dumpers : stayed'[d] = stayed[d] \ gone
  BY <1>1, Zenon
<1>7. \A t \in Shards : \A k \in DOMAIN stats_db[t] :
        k \in DOMAIN stats_db'[t] \/ \A d \in Dumpers : k \notin stayed'[d]
  BY <1>2, <1>3, <1>6, Zenon
<1>8. stayed' = [d \in Dumpers |-> stayed'[d]] /\ \A d \in Dumpers : stayed'[d] \subseteq stayed[d]
  BY <1>1, <1>6, Zenon
<1> QED BY <1>1, <1>4, <1>5, <1>7, <1>8, TablesKeepDumps, Zenon

\* The worker's operations on entries, each a write of one shard.
LEMMA EntriesKeepDumps ==
    ASSUME IInv, DumpInv, NEW key \in Keys, UNCHANGED <<dump, mutx, stayed>>,
           \/ \E field : \E v : WriteEntry(key, field, v)
           \/ \E field : AddThrows(key, field)
           \/ \E fields : Reset(key, fields)
    PROVE  DumpInv'
<1> DEFINE s == getShardIndex[key]
<1>0. s \in Shards
  BY ShardAssumption, Zenon DEF Shards
<1>1. ASSUME NEW field, NEW v, WriteEntry(key, field, v) PROVE DumpInv'
  <2> DEFINE map == WithField(stats_db[s], key, field, v)
             seq == Spliced(key, Inserted(key, key_tracker[s]))
  <2>1. /\ mutx[s] = Free /\ stats_db' = [stats_db EXCEPT ![s] = map]
        /\ key_tracker' = [key_tracker EXCEPT ![s] = seq]
    BY <1>1, Zenon DEF WriteEntry
  <2>2. DOMAIN map = DOMAIN stats_db[s] \union {key}
    BY WithFieldDomain
  <2> HIDE DEF map, seq
  <2> QED BY <2>1, <2>2, ShardWriteKeepsDumps, Zenon
<1>2. ASSUME NEW field, AddThrows(key, field) PROVE DumpInv'
  <2> DEFINE held == key \in DOMAIN stats_db[s] /\ field \in DOMAIN stats_db[s][key]
             map == IF held THEN stats_db[s] ELSE WithField(stats_db[s], key, field, Empty)
             seq == Inserted(key, key_tracker[s])
  <2>1. mutx[s] = Free /\ key_tracker' = [key_tracker EXCEPT ![s] = seq]
    BY <1>2, Zenon DEF AddThrows
  <2>2. stats_db' = [stats_db EXCEPT ![s] = map]
    <3>1. CASE held
      <4>1. stats_db' = stats_db
        BY <1>2, <3>1, Zenon DEF AddThrows
      <4> QED BY <1>0, <3>1, <4>1, Zenon DEF IInv
    <3>2. CASE ~held
      BY <1>2, <3>2, Zenon DEF AddThrows
    <3> QED BY <3>1, <3>2, Zenon
  <2>3. DOMAIN map = DOMAIN stats_db[s] \union {key}
    BY WithFieldDomain
  <2> HIDE DEF map, seq
  <2> QED BY <2>1, <2>2, <2>3, ShardWriteKeepsDumps, Zenon
<1>3. ASSUME NEW fields, Reset(key, fields) PROVE DumpInv'
  <2> DEFINE map == stats_db'[s]
             seq == key_tracker[s]
  <2>1. mutx[s] = Free /\ key_tracker' = [key_tracker EXCEPT ![s] = seq]
    BY <1>0, <1>3, Zenon DEF Reset, IInv
  <2>2. stats_db' = [stats_db EXCEPT ![s] = map] /\ DOMAIN map = DOMAIN stats_db[s]
    BY <1>0, <1>3, Zenon DEF Reset, IInv
  <2> HIDE DEF map, seq
  <2> QED BY <2>1, <2>2, ShardWriteKeepsDumps, Zenon
<1> QED BY <1>1, <1>2, <1>3, Zenon

\* Steps that touch nothing the dumps depend on.
LEMMA LocalKeepsDumps ==
    ASSUME DumpInv, UNCHANGED <<dump, mutx, stayed, key_tracker, stats_db>>
    PROVE  DumpInv'
BY Zenon DEF DumpInv

\* Every step keeps every dump sound.
LEMMA NextKeepsDumps == IInv /\ DumpInv /\ [Next]_vars => DumpInv'
<1> SUFFICES ASSUME IInv, DumpInv, [Next]_vars PROVE DumpInv'
  BY Zenon
<1>1. ASSUME NEW key \in Keys, NEW field \in Fields,
             Add(key, field) \/ AddThrows(key, field) \/ Reset(key, {field}) \/ Reset(key, Fields)
      PROVE  DumpInv'
  <2>1. UNCHANGED <<dump, mutx, stayed>>
    BY <1>1, Zenon DEF Add, AddThrows, Reset
  <2>2. Add(key, field) => \E v : WriteEntry(key, field, v)
    BY Zenon DEF Add
  <2> QED BY <1>1, <2>1, <2>2, EntriesKeepDumps, Zenon
<1>2. ASSUME NEW key \in Keys, Reset(key, Fields) PROVE DumpInv'
  <2>1. UNCHANGED <<dump, mutx, stayed>>
    BY <1>2, Zenon DEF Reset
  <2> QED BY <1>2, <2>1, EntriesKeepDumps, Zenon
<1>3. CASE RestoreField
  <2>1. PICK r \in restoring : \E f \in r.todo : WriteEntry(r.key, f, r.entry[f])
    BY <1>3, Zenon DEF RestoreField
  <2>2. r.key \in Keys
    BY Zenon DEF IInv, Others
  <2>3. UNCHANGED <<dump, mutx, stayed>>
    BY <1>3, Zenon DEF RestoreField
  <2> QED BY <2>1, <2>2, <2>3, EntriesKeepDumps, Zenon
<1>4. ASSUME \/ \E key \in Keys : \E entry \in FieldMap : RestoreBegin(key, entry)
             \/ RestoreEnd
             \/ \E size \in Sizes : SetSizeBegin(size)
             \/ SetSizeShard
             \/ UNCHANGED vars
      PROVE  DumpInv'
  <2>1. UNCHANGED <<dump, mutx, stayed, key_tracker, stats_db>>
    BY <1>4, Zenon DEF RestoreBegin, RestoreEnd, SetSizeBegin, SetSizeShard, vars
  <2> QED BY <2>1, LocalKeepsDumps, Zenon
<1>5. CASE Worker
  BY <1>1, <1>2, <1>3, <1>4, <1>5, Zenon DEF Worker
<1>6. ASSUME NEW d \in Dumpers, DumpBegin(d) \/ Dumping(d) PROVE DumpInv'
  BY <1>6, BeginKeepsDumps, StartKeepsDumps, EntryKeepsDumps, EndKeepsDumps, IdleKeepsDumps
     DEF Dumping
<1> QED BY <1>4, <1>5, <1>6, ExpireKeepsDumps, Zenon DEF Next

\* At first no dump is under way.
LEMMA InitDumps == Init => DumpInv
<1> SUFFICES ASSUME Init PROVE DumpInv
  BY Zenon
<1>1. /\ Idle.shard = 0 /\ Idle.pos = 0 /\ Idle.sent = <<>>
      /\ Idle \in [shard : 0 .. num_shards + 1, pos : Nat, sent : Seq(Keys)]
  BY ShardAssumption DEF Idle
<1>2. Members(Idle.sent) = {} /\ Distinct(Idle.sent)
  BY <1>1 DEF Members, Distinct
<1>3. \A d \in Dumpers : DumpSound(d, Idle, mutx, key_tracker, stats_db, stayed[d])
  BY <1>1, <1>2 DEF DumpSound
<1>4. \A d \in Dumpers : dump[d] = Idle
  BY Zenon DEF Init
<1>5. \A s \in Shards : DOMAIN stats_db[s] = {}
  BY DEF Init
<1>6. Homes(stats_db)
  BY <1>5, Zenon DEF Homes
<1> QED BY <1>3, <1>4, <1>6, Zenon DEF Init, DumpInv

\* For any keys, shards and number of concurrent dumps: a dump that goes through
\* dumpDBToNetwork's loop to the end has sent every key that was in the database
\* from its beginning on, and none twice, although the other shards change while
\* one is locked and written out.
THEOREM DBDumpsComplete == Spec => []DumpsAreComplete
<1>1. DumpInv => DumpsAreComplete
  <2> SUFFICES ASSUME DumpInv, NEW d \in Dumpers
               PROVE  /\ Distinct(dump[d].sent)
                      /\ dump[d].shard = num_shards + 1 => stayed[d] \subseteq Members(dump[d].sent)
    BY Zenon DEF DumpsAreComplete
  <2>1. DumpSound(d, dump[d], mutx, key_tracker, stats_db, stayed[d])
    BY Zenon DEF DumpInv
  <2>2. ASSUME dump[d].shard = num_shards + 1, NEW k \in stayed[d]
        PROVE  k \in Members(dump[d].sent)
    <3>1. num_shards + 1 # 0
      BY ShardAssumption
    <3>2. k \in Keys /\ (getShardIndex[k] < num_shards + 1 => k \in Members(dump[d].sent))
      BY <2>1, <2>2, <3>1, Zenon DEF DumpSound
    <3> QED BY <3>2, ShardAssumption
  <2> QED BY <2>1, <2>2, Zenon DEF DumpSound
<1> QED BY <1>1, InitInv, NextKeepsInv, InitDumps, NextKeepsDumps, PTL DEF Spec
-----------------------------------------------------------------------------
(***************************************************************************)
(* Expiry.                                                                 *)
(***************************************************************************)

\* The keys of a list are in the order of their modification, as told by E.
Ordered(seq, E) == \A i, j \in DOMAIN seq : i < j => <<seq[i], seq[j]>> \in E

\* The order once key has been modified.
Later(E, key) == {p \in E : p[1] # key} \union {<<k, key>> : k \in Keys \ {key}}

\* The lists are in order, and the step just taken has kept to it.
OrderInv == (\A s \in Shards : Ordered(key_tracker[s], earlier)) /\ EvictsLeastRecentlyModified

LEMMA LaterFacts ==
    ASSUME NEW E, NEW key \in Keys
    PROVE  /\ \A j, k : <<j, k>> \in E /\ j # key => <<j, k>> \in Later(E, key)
           /\ \A k \in Keys : k # key => <<k, key>> \in Later(E, key)
<1>1. ASSUME NEW j, NEW k, <<j, k>> \in E, j # key PROVE <<j, k>> \in Later(E, key)
  <2>1. <<j, k>>[1] = j
    BY Zenon
  <2> QED BY <1>1, <2>1, Zenon DEF Later
<1>2. ASSUME NEW k \in Keys, k # key PROVE <<k, key>> \in Later(E, key)
  <2>1. k \in Keys \ {key}
    BY <1>2, Zenon
  <2> QED BY <2>1, Zenon DEF Later
<1> QED BY <1>1, <1>2, Zenon

\* A list the key is not on stays in order.
LEMMA OtherListOrdered ==
    ASSUME NEW seq \in Seq(Keys), NEW key \in Keys, NEW E, Ordered(seq, E), key \notin Members(seq)
    PROVE  Ordered(seq, Later(E, key))
<1> SUFFICES ASSUME NEW i \in DOMAIN seq, NEW j \in DOMAIN seq, i < j
             PROVE  <<seq[i], seq[j]>> \in Later(E, key)
  BY Zenon DEF Ordered
<1>1. <<seq[i], seq[j]>> \in E /\ seq[i] # key
  BY Zenon DEF Ordered, Members
<1> QED BY <1>1, LaterFacts, Zenon

\* list::insert at the end keeps the order, if the key is modified by it.
LEMMA InsertedOrdered ==
    ASSUME NEW seq \in Seq(Keys), NEW key \in Keys, NEW E, Ordered(seq, E), key \notin Members(seq)
    PROVE  Ordered(Inserted(key, seq), Later(E, key))
<1> DEFINE new == Append(seq, key)
<1>1. Inserted(key, seq) = new
  BY Zenon DEF Inserted
<1>2. /\ DOMAIN new = 1 .. Len(seq) + 1 /\ DOMAIN seq = 1 .. Len(seq) /\ Len(seq) \in Nat
      /\ new[Len(seq) + 1] = key /\ \A i \in DOMAIN seq : new[i] = seq[i] /\ seq[i] \in Keys
  OBVIOUS
<1> HIDE DEF new
<1>3. Ordered(seq, Later(E, key))
  BY OtherListOrdered, Zenon
<1>4. ASSUME NEW i \in DOMAIN new, NEW j \in DOMAIN new, i < j
      PROVE  <<new[i], new[j]>> \in Later(E, key)
  <2>1. i \in DOMAIN seq /\ new[i] = seq[i] /\ seq[i] \in Keys /\ seq[i] # key
    BY <1>2, <1>4 DEF Members
  <2>2. CASE j = Len(seq) + 1
    BY <1>2, <2>1, <2>2, LaterFacts, Zenon
  <2>3. CASE j # Len(seq) + 1
    <3>1. j \in DOMAIN seq
      BY <1>2, <2>3
    <3> QED BY <1>2, <1>3, <1>4, <2>1, <3>1, Zenon DEF Ordered
  <2> QED BY <2>2, <2>3, Zenon
<1> QED BY <1>1, <1>4, Zenon DEF Ordered

\* list::splice of a key to the end keeps the order, if the key is modified by it.
LEMMA SplicedOrdered ==
    ASSUME NEW seq \in Seq(Keys), NEW key \in Members(seq), Distinct(seq), NEW E,
           \A i, j \in DOMAIN seq : i < j /\ seq[i] # key /\ seq[j] # key => <<seq[i], seq[j]>> \in E
    PROVE  Ordered(Spliced(key, seq), Later(E, key))
<1> DEFINE i == CHOOSE i \in DOMAIN seq : seq[i] = key
           new == [j \in DOMAIN seq |->
                     IF j < i THEN seq[j] ELSE IF j < Len(seq) THEN seq[j + 1] ELSE key]
           from(j) == IF j < i THEN j ELSE j + 1
<1>1. i \in DOMAIN seq /\ seq[i] = key /\ key \in Keys
  BY DEF Members
<1>2. Spliced(key, seq) = new
  BY Zenon DEF Spliced
<1>3. DOMAIN seq = 1 .. Len(seq) /\ Len(seq) \in Nat
  OBVIOUS
<1> HIDE DEF i
<1>4. DOMAIN new = DOMAIN seq /\ new[Len(seq)] = key
  BY <1>1, <1>3
<1>5. ASSUME NEW j \in DOMAIN seq, j # Len(seq)
      PROVE  from(j) \in DOMAIN seq /\ from(j) # i /\ new[j] = seq[from(j)]
  BY <1>1, <1>3, <1>5
<1>6. ASSUME NEW j \in DOMAIN seq, j # Len(seq) PROVE new[j] \in Keys /\ new[j] # key
  <2> HIDE DEF new, from
  <2> QED BY <1>1, <1>5, <1>6 DEF Distinct
<1>7. \A j, k \in DOMAIN seq : j < k => from(j) < from(k)
  BY <1>1, <1>3
<1> HIDE DEF new, from
<1>8. ASSUME NEW j \in DOMAIN new, NEW k \in DOMAIN new, j < k PROVE <<new[j], new[k]>> \in Later(E, key)
  <2>1. j \in DOMAIN seq /\ k \in DOMAIN seq /\ j # Len(seq)
    BY <1>3, <1>4, <1>8
  <2>2. CASE k = Len(seq)
    BY <1>1, <1>4, <1>6, <2>1, <2>2, LaterFacts, Zenon
  <2>3. CASE k # Len(seq)
    <3>1. <<new[j], new[k]>> \in E
      BY <1>5, <1>6, <1>7, <1>8, <2>1, <2>3, Zenon
    <3> QED BY <1>1, <1>6, <2>1, <3>1, LaterFacts, Zenon
  <2> QED BY <2>2, <2>3, Zenon
<1> QED BY <1>2, <1>8, Zenon DEF Ordered

\* A list without repetition is as long as it has members.
LEMMA DistinctSize ==
    ASSUME NEW seq \in Seq(Keys), Distinct(seq)
    PROVE  Cardinality(Members(seq)) = Len(seq)
<1>1. DOMAIN seq = 1 .. Len(seq) /\ Len(seq) \in Nat
  OBVIOUS
<1>2. seq \in [1 .. Len(seq) -> Members(seq)]
  BY <1>1 DEF Members
<1>3. ExistsBijection(1 .. Len(seq), Members(seq))
  <2>1. \A i, j \in 1 .. Len(seq) : seq[i] = seq[j] => i = j
    BY <1>1, Zenon DEF Distinct
  <2>2. \A k \in Members(seq) : \E i \in 1 .. Len(seq) : seq[i] = k
    BY <1>1, Zenon DEF Members
  <2> QED BY <1>2, <2>1, <2>2, Zenon DEF ExistsBijection, Bijection, Injection, Surjection, IsInjective
<1> QED BY <1>1, <1>3, FS_CountingElements, Zenon

\* A write moves its key to the end of its list, and leaves the others alone.
LEMMA WriteKeepsOrder ==
    ASSUME IInv, Homes(stats_db), OrderInv, NEW key \in Keys, NEW field, NEW v, WriteEntry(key, field, v)
    PROVE  OrderInv'
<1> DEFINE s == getShardIndex[key]
           ins == Inserted(key, key_tracker[s])
<1>1. s \in Shards
  BY ShardAssumption, Zenon DEF Shards
<1>2. ASSUME NEW t \in Shards
      PROVE  key_tracker[t] \in Seq(Keys) /\ Tracks(key_tracker[t], stats_db[t]) /\ Ordered(key_tracker[t], earlier)
  BY Zenon DEF IInv, TrackerMatchesDB, Tracks, OrderInv
<1>3. earlier' = Later(earlier, key) /\ evicted'.keys = {}
      /\ key_tracker' = [key_tracker EXCEPT ![s] = Spliced(key, ins)]
  BY Zenon DEF WriteEntry, Modify, Later, NoEviction
<1>4. Ordered(Spliced(key, ins), Later(earlier, key))
  <2>1. ins \in Seq(Keys) /\ Distinct(ins) /\ key \in Members(ins)
    BY <1>1, <1>2, InsertedFacts, Zenon DEF Tracks
  <2>2. \A i, j \in DOMAIN ins : i < j /\ ins[i] # key /\ ins[j] # key => <<ins[i], ins[j]>> \in earlier
    <3>1. CASE key \in Members(key_tracker[s])
      BY <1>1, <1>2, <3>1, Zenon DEF Inserted, Ordered
    <3>2. CASE key \notin Members(key_tracker[s])
      <4>1. ins = Append(key_tracker[s], key)
        BY <3>2, Zenon DEF Inserted
      <4> QED BY <1>1, <1>2, <4>1 DEF Ordered
    <3> QED BY <3>1, <3>2, Zenon
  <2> HIDE DEF ins
  <2> QED BY <2>1, <2>2, SplicedOrdered, Zenon
<1>5. ASSUME NEW t \in Shards PROVE Ordered(key_tracker'[t], earlier')
  <2>1. CASE t = s
    <3> HIDE DEF ins
    <3> QED BY <1>3, <1>4, <2>1, Zenon DEF IInv
  <2>2. CASE t # s
    <3>1. key_tracker'[t] = key_tracker[t]
      BY <1>3, <2>2, Zenon DEF IInv
    <3>2. key \notin Members(key_tracker[t])
      BY <1>2, <2>2, Zenon DEF Homes, Tracks
    <3> QED BY <1>2, <1>3, <3>1, <3>2, OtherListOrdered, Zenon
  <2> QED BY <2>1, <2>2, Zenon
<1>6. EvictsLeastRecentlyModified'
  BY <1>3, Zenon DEF EvictsLeastRecentlyModified
<1> QED BY <1>5, <1>6, Zenon DEF OrderInv

\* An add that throws has modified the key if it has created it.
LEMMA AddThrowsKeepsOrder ==
    ASSUME IInv, Homes(stats_db), OrderInv, NEW key \in Keys, NEW field, AddThrows(key, field)
    PROVE  OrderInv'
<1> DEFINE s == getShardIndex[key]
<1>1. s \in Shards
  BY ShardAssumption, Zenon DEF Shards
<1>2. ASSUME NEW t \in Shards
      PROVE  key_tracker[t] \in Seq(Keys) /\ Tracks(key_tracker[t], stats_db[t]) /\ Ordered(key_tracker[t], earlier)
  BY Zenon DEF IInv, TrackerMatchesDB, Tracks, OrderInv
<1>3. key_tracker' = [key_tracker EXCEPT ![s] = Inserted(key, key_tracker[s])] /\ evicted'.keys = {}
  BY Zenon DEF AddThrows, NoEviction
<1>4. CASE key \in DOMAIN stats_db[s]
  <2>1. earlier' = earlier
    BY <1>4, Zenon DEF AddThrows
  <2>2. key_tracker' = key_tracker
    BY <1>1, <1>2, <1>3, <1>4, Zenon DEF Inserted, Tracks, IInv
  <2> QED BY <1>2, <1>3, <2>1, <2>2, Zenon DEF OrderInv, EvictsLeastRecentlyModified
<1>5. CASE key \notin DOMAIN stats_db[s]
  <2>1. earlier' = Later(earlier, key)
    BY <1>5, Zenon DEF AddThrows, Modify, Later
  <2>2. ASSUME NEW t \in Shards PROVE Ordered(key_tracker'[t], earlier')
    <3>1. key \notin Members(key_tracker[t])
      BY <1>2, <1>5 DEF Homes, Tracks
    <3>2. CASE t = s
      BY <1>2, <1>3, <2>1, <3>1, <3>2, InsertedOrdered, Zenon DEF IInv
    <3>3. CASE t # s
      <4>1. key_tracker'[t] = key_tracker[t]
        BY <1>3, <3>3, Zenon DEF IInv
      <4> QED BY <1>2, <2>1, <3>1, <4>1, OtherListOrdered, Zenon
    <3> QED BY <3>2, <3>3, Zenon
  <2> QED BY <1>3, <2>2, Zenon DEF OrderInv, EvictsLeastRecentlyModified
<1> QED BY <1>4, <1>5, Zenon

\* Expiry takes the front of the list, and as much of it as is too much.
LEMMA ExpireKeepsOrder ==
    ASSUME IInv, OrderInv, NEW s \in Shards, Expire(s)
    PROVE  OrderInv'
<1> DEFINE seq == key_tracker[s]
           n == Size(s) - map_size_soft[s]
           new == SubSeq(seq, n + 1, Len(seq))
           map == [k \in DOMAIN stats_db[s] \ Victims(s, n) |-> stats_db[s][k]]
<1>1. seq \in Seq(Keys) /\ Tracks(seq, stats_db[s]) /\ Ordered(seq, earlier) /\ map_size_soft[s] \in Nat
  BY Zenon DEF IInv, Others, TrackerMatchesDB, Tracks, OrderInv
<1>2. Size(s) = Len(seq) /\ Len(seq) \in Nat
  BY <1>1, DistinctSize DEF Size, Tracks
<1>3. n \in 1 .. Len(seq)
  BY <1>1, <1>2 DEF Expire
<1>4. /\ key_tracker' = [key_tracker EXCEPT ![s] = new] /\ stats_db' = [stats_db EXCEPT ![s] = map]
      /\ evicted' = [keys |-> Victims(s, n), shard |-> s] /\ UNCHANGED <<earlier, map_size_soft>>
  BY Zenon DEF Expire
<1>5. IInv'
  BY ExpireKeepsInv, Zenon
<1>6. Victims(s, n) = {seq[i] : i \in 1 .. n}
  BY Zenon DEF Victims
<1> HIDE DEF n
<1>7. /\ DOMAIN new = 1 .. Len(seq) - n /\ Len(new) = Len(seq) - n /\ new \in Seq(Keys)
      /\ \A i \in 1 .. Len(seq) - n : i + n \in DOMAIN seq /\ i + n > n /\ new[i] = seq[i + n]
  BY <1>1, <1>2, <1>3
<1> HIDE DEF new, seq, map
<1>8. key_tracker'[s] = new /\ \A t \in Shards : t # s => key_tracker'[t] = key_tracker[t]
  BY <1>4, Zenon DEF IInv
<1>9. Tracks(new, stats_db'[s])
  BY <1>5, <1>8, Zenon DEF IInv, TrackerMatchesDB, Tracks
<1>10. Ordered(new, earlier)
  <2>1. ASSUME NEW i \in DOMAIN new, NEW j \in DOMAIN new, i < j PROVE <<new[i], new[j]>> \in earlier
    <3>1. i + n \in DOMAIN seq /\ j + n \in DOMAIN seq /\ i + n < j + n /\ new[i] = seq[i + n] /\ new[j] = seq[j + n]
      BY <1>2, <1>3, <1>7, <2>1
    <3> QED BY <1>1, <3>1, Zenon DEF Ordered
  <2> QED BY <2>1, Zenon DEF Ordered
<1>11. Size(s)' = map_size_soft'[s]
  <2>1. Cardinality(Members(new)) = Len(seq) - n
    BY <1>7, <1>9, DistinctSize, Zenon DEF Tracks
  <2>2. Size(s)' = Len(seq) - n
    BY <1>9, <2>1, Zenon DEF Size, Tracks
  <2> QED BY <1>1, <1>2, <1>4, <2>2 DEF n
<1>12. ASSUME NEW v \in Victims(s, n), NEW k \in DOMAIN stats_db'[s] PROVE <<v, k>> \in earlier
  <2>1. PICK i \in 1 .. n : v = seq[i]
    BY <1>6, Zenon
  <2>2. PICK j \in DOMAIN new : k = new[j]
    BY <1>9, Zenon DEF Tracks, Members
  <2>3. i \in DOMAIN seq /\ j + n \in DOMAIN seq /\ i < j + n /\ k = seq[j + n]
    BY <1>1, <1>2, <1>3, <1>7, <2>2
  <2> QED BY <1>1, <2>1, <2>3, Zenon DEF Ordered
<1>13. EvictsLeastRecentlyModified'
  <2>1. evicted'.keys = Victims(s, n) /\ evicted'.shard = s
    BY <1>4, Zenon
  <2> QED BY <1>4, <1>11, <1>12, <2>1, Zenon DEF EvictsLeastRecentlyModified
<1>14. \A t \in Shards : Ordered(key_tracker'[t], earlier')
  BY <1>4, <1>8, <1>10, Zenon DEF OrderInv
<1> QED BY <1>13, <1>14, Zenon DEF OrderInv

\* Steps that modify no key and evict none.
LEMMA LocalKeepsOrder ==
    ASSUME OrderInv, UNCHANGED <<key_tracker, earlier>>, evicted' = NoEviction
    PROVE  OrderInv'
<1>1. evicted'.keys = {}
  BY Zenon DEF NoEviction
<1> QED BY <1>1, Zenon DEF OrderInv, EvictsLeastRecentlyModified

LEMMA NextKeepsOrder == IInv /\ DumpInv /\ OrderInv /\ [Next]_vars => OrderInv'
<1> SUFFICES ASSUME IInv, DumpInv, OrderInv, [Next]_vars PROVE OrderInv'
  BY Zenon
<1>0. Homes(stats_db)
  BY Zenon DEF DumpInv
<1>1. ASSUME NEW key \in Keys, NEW field \in Fields, Add(key, field) PROVE OrderInv'
  BY <1>0, <1>1, WriteKeepsOrder, Zenon DEF Add
<1>2. CASE RestoreField
  <2>1. PICK r \in restoring : \E f \in r.todo : WriteEntry(r.key, f, r.entry[f])
    BY <1>2, Zenon DEF RestoreField
  <2>2. r.key \in Keys
    BY Zenon DEF IInv, Others
  <2> QED BY <1>0, <2>1, <2>2, WriteKeepsOrder, Zenon
<1>3. ASSUME \/ \E key \in Keys : \E fields : Reset(key, fields)
             \/ \E key \in Keys : \E entry \in FieldMap : RestoreBegin(key, entry)
             \/ RestoreEnd
             \/ \E size \in Sizes : SetSizeBegin(size)
             \/ SetSizeShard
      PROVE  OrderInv'
  <2>1. UNCHANGED <<key_tracker, earlier>> /\ evicted' = NoEviction
    BY <1>3, Zenon DEF Reset, RestoreBegin, RestoreEnd, SetSizeBegin, SetSizeShard
  <2> QED BY <2>1, LocalKeepsOrder, Zenon
<1>4. CASE Worker
  BY <1>0, <1>1, <1>2, <1>3, <1>4, AddThrowsKeepsOrder, Zenon DEF Worker
<1>5. ASSUME NEW d \in Dumpers, DumpBegin(d) \/ Dumping(d) PROVE OrderInv'
  <2>1. UNCHANGED <<key_tracker, earlier>> /\ evicted' = NoEviction
    BY <1>5, Zenon DEF DumpBegin, Dumping, startDBDump, DumpEntry, EndDBDump, DumpFails, DumpReturns
  <2> QED BY <2>1, LocalKeepsOrder, Zenon
<1>6. CASE UNCHANGED vars
  BY <1>6, Zenon DEF vars, OrderInv, EvictsLeastRecentlyModified, Size
<1> QED BY <1>4, <1>5, <1>6, ExpireKeepsOrder, Zenon DEF Next

\* For any keys, shards, sizes and number of workers: what expireEntries removes
\* was modified before everything it leaves, and it leaves as many keys as
\* set_size_soft allows.
THEOREM DBEvictsOldest == Spec => []EvictsLeastRecentlyModified
<1>1. Init => OrderInv
  <2>1. Init => evicted.keys = {} /\ \A s \in Shards : key_tracker[s] = <<>>
    BY DEF Init, NoEviction
  <2> QED BY <2>1 DEF OrderInv, Ordered, EvictsLeastRecentlyModified
<1>2. OrderInv => EvictsLeastRecentlyModified
  BY Zenon DEF OrderInv
<1> QED BY <1>1, <1>2, InitInv, NextKeepsInv, InitDumps, NextKeepsDumps, NextKeepsOrder, PTL DEF Spec
-----------------------------------------------------------------------------
(***************************************************************************)
(* Types.                                                                  *)
(***************************************************************************)

\* A call of restoreEntry.
Restore == [key : Keys, entry : FieldMap, todo : SUBSET Fields]

\* What TypeOK says of the variables that the other invariants leave open.
TypeInv ==
    /\ stats_db \in [Shards -> ShardMap]
    /\ mutx \in [Shards -> Dumpers \union {Free}]
    /\ \A r \in restoring : r \in Restore /\ restoring = {r} /\ r.todo \subseteq DOMAIN r.entry
    /\ resizing \in [size : Nat, next : 1 .. num_shards + 1]
    /\ earlier \subseteq Keys \X Keys
    /\ stayed \in [Dumpers -> SUBSET Keys]
    /\ evicted \in [keys : SUBSET Keys, shard : Shards]

\* Maps of fields and of keys, by their domains and values.
LEMMA MapFacts ==
    /\ \A fs \in SUBSET Fields : [fs -> Values] \subseteq FieldMap
    /\ \A fm \in FieldMap : fm \in [DOMAIN fm -> Values] /\ DOMAIN fm \subseteq Fields
    /\ \A ks \in SUBSET Keys : [ks -> FieldMap] \subseteq ShardMap
    /\ \A map \in ShardMap : map \in [DOMAIN map -> FieldMap] /\ DOMAIN map \subseteq Keys
<1>1. /\ \A fs \in SUBSET Fields : [fs -> Values] \subseteq FieldMap
      /\ \A fm \in FieldMap : fm \in [DOMAIN fm -> Values] /\ DOMAIN fm \subseteq Fields
  BY Zenon DEF FieldMap
<1>2. /\ \A ks \in SUBSET Keys : [ks -> FieldMap] \subseteq ShardMap
      /\ \A map \in ShardMap : map \in [DOMAIN map -> FieldMap] /\ DOMAIN map \subseteq Keys
  BY Zenon DEF ShardMap
<1> QED BY <1>1, <1>2, Zenon

LEMMA WithFieldType ==
    ASSUME NEW map \in ShardMap, NEW key \in Keys, NEW field \in Fields, NEW v \in Values
    PROVE  WithField(map, key, field, v) \in ShardMap
<1> DEFINE fm == IF key \in DOMAIN map THEN map[key] ELSE <<>>
           newfm == [f \in DOMAIN fm \union {field} |-> IF f = field THEN v ELSE fm[f]]
           new == [k \in DOMAIN map \union {key} |-> IF k = key THEN newfm ELSE map[k]]
<1>1. WithField(map, key, field, v) = new
  BY Zenon DEF WithField
<1>2. /\ \A k \in DOMAIN map : map[k] \in FieldMap
      /\ DOMAIN map \subseteq Keys
  BY MapFacts, Zenon
<1>3. DOMAIN fm \subseteq Fields /\ \A f \in DOMAIN fm : fm[f] \in Values
  <2>1. CASE key \in DOMAIN map
    <3>1. fm = map[key] /\ map[key] \in FieldMap
      BY <1>2, <2>1, Zenon
    <3> HIDE DEF fm
    <3>2. fm \in [DOMAIN fm -> Values] /\ DOMAIN fm \subseteq Fields
      BY <3>1, MapFacts, Zenon
    <3> QED BY <3>2, Zenon
  <2>2. CASE key \notin DOMAIN map
    BY <2>2
  <2> QED BY <2>1, <2>2, Zenon
<1> HIDE DEF fm
<1>4. newfm \in [DOMAIN fm \union {field} -> Values]
  BY <1>3, Zenon
<1>5. newfm \in FieldMap
  <2> HIDE DEF newfm
  <2>1. DOMAIN fm \union {field} \in SUBSET Fields
    BY <1>3, Zenon
  <2> QED BY <1>4, <2>1, MapFacts, Zenon
<1> HIDE DEF newfm
<1>6. new \in [DOMAIN map \union {key} -> FieldMap]
  BY <1>2, <1>5, Zenon
<1> HIDE DEF new
<1>7. DOMAIN map \union {key} \in SUBSET Keys
  BY <1>2, Zenon
<1> QED BY <1>1, <1>6, <1>7, MapFacts, Zenon

\* What no step of an entry touches keeps its type.
LEMMA EntriesKeepTypes ==
    ASSUME TypeInv, NEW key \in Keys, NEW map \in ShardMap,
           stats_db' = [stats_db EXCEPT ![getShardIndex[key]] = map],
           evicted' = NoEviction, earlier' = earlier \/ Modify(key)
    PROVE  /\ stats_db' \in [Shards -> ShardMap] /\ earlier' \subseteq Keys \X Keys
           /\ evicted' \in [keys : SUBSET Keys, shard : Shards]
<1>1. stats_db' \in [Shards -> ShardMap]
  BY Zenon DEF TypeInv
<1>2. earlier' \subseteq Keys \X Keys
  BY DEF TypeInv, Modify
<1>3. NoEviction \in [keys : SUBSET Keys, shard : Shards]
  BY ShardAssumption DEF NoEviction, Shards
<1> QED BY <1>1, <1>2, <1>3, Zenon

LEMMA WriteKeepsTypes ==
    ASSUME TypeInv, NEW key \in Keys, NEW field \in Fields, NEW v \in Values, WriteEntry(key, field, v)
    PROVE  /\ stats_db' \in [Shards -> ShardMap] /\ earlier' \subseteq Keys \X Keys
           /\ evicted' \in [keys : SUBSET Keys, shard : Shards]
<1> DEFINE s == getShardIndex[key]
           map == WithField(stats_db[s], key, field, v)
<1>1. stats_db[s] \in ShardMap
  BY ShardAssumption, Zenon DEF TypeInv, Shards
<1>2. map \in ShardMap
  BY <1>1, WithFieldType, Zenon
<1>3. stats_db' = [stats_db EXCEPT ![s] = map] /\ evicted' = NoEviction /\ Modify(key)
  BY Zenon DEF WriteEntry
<1> HIDE DEF map
<1> QED BY <1>2, <1>3, EntriesKeepTypes, Zenon

LEMMA EntryStepsKeepTypes ==
    ASSUME TypeInv, NEW key \in Keys,
           \/ \E field \in Fields : Add(key, field) \/ AddThrows(key, field)
           \/ \E fields : Reset(key, fields)
    PROVE  TypeInv'
<1> DEFINE s == getShardIndex[key]
<1>0. s \in Shards /\ stats_db[s] \in ShardMap
  BY ShardAssumption, Zenon DEF TypeInv, Shards
<1>1. ASSUME UNCHANGED <<mutx, restoring, resizing, stayed>>, stats_db' \in [Shards -> ShardMap],
             earlier' \subseteq Keys \X Keys, evicted' \in [keys : SUBSET Keys, shard : Shards]
      PROVE  TypeInv'
  BY <1>1, Zenon DEF TypeInv
<1>2. ASSUME NEW field \in Fields, Add(key, field) PROVE TypeInv'
  <2>1. PICK v \in Values : WriteEntry(key, field, v)
    BY <1>2, Zenon DEF Add
  <2>2. UNCHANGED <<mutx, restoring, resizing, stayed>>
    BY <1>2, Zenon DEF Add
  <2> QED BY <1>1, <2>1, <2>2, WriteKeepsTypes, Zenon
<1>3. ASSUME NEW field \in Fields, AddThrows(key, field) PROVE TypeInv'
  <2> DEFINE held == key \in DOMAIN stats_db[s] /\ field \in DOMAIN stats_db[s][key]
             map == IF held THEN stats_db[s] ELSE WithField(stats_db[s], key, field, Empty)
  <2>1. map \in ShardMap
    BY <1>0, ShardAssumption, WithFieldType, Zenon
  <2>2. stats_db' = [stats_db EXCEPT ![s] = map]
    <3>1. CASE held
      BY <1>0, <1>3, <3>1, Zenon DEF AddThrows, TypeInv
    <3>2. CASE ~held
      BY <1>3, <3>2, Zenon DEF AddThrows
    <3> QED BY <3>1, <3>2, Zenon
  <2>3. evicted' = NoEviction /\ (earlier' = earlier \/ Modify(key)) /\ UNCHANGED <<mutx, restoring, resizing, stayed>>
    BY <1>3, Zenon DEF AddThrows
  <2> HIDE DEF map
  <2> QED BY <1>1, <2>1, <2>2, <2>3, EntriesKeepTypes, Zenon
<1>4. ASSUME NEW fields, Reset(key, fields) PROVE TypeInv'
  <2> DEFINE old == stats_db[s][key]
             fm == [f \in DOMAIN old |-> IF f \in fields THEN Empty ELSE old[f]]
             map == [stats_db[s] EXCEPT ![key] = fm]
  <2>1. old \in FieldMap /\ key \in DOMAIN stats_db[s]
    BY <1>0, <1>4, MapFacts, Zenon DEF Reset
  <2>2. fm \in [DOMAIN old -> Values] /\ DOMAIN old \subseteq Fields
    <3>1. old \in [DOMAIN old -> Values] /\ DOMAIN old \subseteq Fields
      BY <2>1, MapFacts, Zenon
    <3> HIDE DEF old
    <3> QED BY <3>1, ShardAssumption, Zenon
  <2>3. fm \in FieldMap
    <3> HIDE DEF fm, old
    <3> QED BY <2>2, MapFacts, Zenon
  <2>4. stats_db' = [stats_db EXCEPT ![s] = map]
    BY <1>0, <1>4, Zenon DEF Reset, TypeInv
  <2> HIDE DEF fm
  <2>5. map \in ShardMap
    <3>1. map \in [DOMAIN stats_db[s] -> FieldMap] /\ DOMAIN stats_db[s] \subseteq Keys
      BY <1>0, <2>1, <2>3, MapFacts, Zenon
    <3> HIDE DEF map
    <3> QED BY <3>1, MapFacts, Zenon
  <2>6. evicted' = NoEviction /\ earlier' = earlier /\ UNCHANGED <<mutx, restoring, resizing, stayed>>
    BY <1>4, Zenon DEF Reset
  <2> HIDE DEF map
  <2> QED BY <1>1, <2>4, <2>5, <2>6, EntriesKeepTypes, Zenon
<1> QED BY <1>2, <1>3, <1>4, Zenon

\* The other steps.
LEMMA NextKeepsTypes == IInv /\ DumpInv /\ TypeInv /\ [Next]_vars => TypeInv'
<1> SUFFICES ASSUME IInv, DumpInv, TypeInv, [Next]_vars PROVE TypeInv'
  BY Zenon
<1>0. NoEviction \in [keys : SUBSET Keys, shard : Shards] /\ num_shards \in Nat \ {0} /\ Shards = 1 .. num_shards
  BY ShardAssumption DEF NoEviction, Shards
<1>1. CASE RestoreField
  <2>1. PICK r \in restoring : \E f \in r.todo :
          /\ WriteEntry(r.key, f, r.entry[f])
          /\ restoring' = {[r EXCEPT !.todo = @ \ {f}]}
          /\ UNCHANGED <<mutx, resizing, stayed>>
    BY <1>1, Zenon DEF RestoreField
  <2>2. PICK f \in r.todo :
          /\ WriteEntry(r.key, f, r.entry[f])
          /\ restoring' = {[r EXCEPT !.todo = @ \ {f}]}
          /\ UNCHANGED <<mutx, resizing, stayed>>
    BY <2>1, Zenon
  <2>3. r \in Restore /\ r.todo \subseteq DOMAIN r.entry
    BY Zenon DEF TypeInv
  <2>4. r.key \in Keys /\ r.entry \in FieldMap /\ r.todo \subseteq Fields
    BY <2>3, Zenon DEF Restore
  <2>5. f \in Fields /\ r.entry[f] \in Values
    BY <2>3, <2>4, MapFacts, Zenon
  <2> DEFINE q == [r EXCEPT !.todo = @ \ {f}]
  <2>6. q \in Restore /\ q.todo \subseteq DOMAIN q.entry
    BY <2>3, <2>4, Zenon DEF Restore
  <2>7. restoring' = {q}
    BY <2>2, Zenon
  <2> HIDE DEF q
  <2>8. \A r2 \in restoring' : r2 \in Restore /\ restoring' = {r2} /\ r2.todo \subseteq DOMAIN r2.entry
    BY <2>6, <2>7, Zenon
  <2>9. /\ stats_db' \in [Shards -> ShardMap] /\ earlier' \subseteq Keys \X Keys
        /\ evicted' \in [keys : SUBSET Keys, shard : Shards]
    BY <2>2, <2>4, <2>5, WriteKeepsTypes, Zenon
  <2> QED BY <2>2, <2>8, <2>9, Zenon DEF TypeInv
<1>2. ASSUME NEW key \in Keys, NEW entry \in FieldMap, RestoreBegin(key, entry) PROVE TypeInv'
  <2> DEFINE q == [key |-> key, entry |-> entry, todo |-> DOMAIN entry]
  <2>1. restoring' = {q} /\ evicted' = NoEviction /\ UNCHANGED <<stats_db, mutx, resizing, earlier, stayed>>
    BY <1>2, Zenon DEF RestoreBegin
  <2>2. q \in Restore /\ q.todo \subseteq DOMAIN q.entry
    BY MapFacts, Zenon DEF Restore
  <2> HIDE DEF q
  <2> QED BY <1>0, <2>1, <2>2, Zenon DEF TypeInv
<1>3. CASE RestoreEnd
  <2>1. restoring' = {} /\ evicted' = NoEviction /\ UNCHANGED <<stats_db, mutx, resizing, earlier, stayed>>
    BY <1>3, Zenon DEF RestoreEnd
  <2> QED BY <1>0, <2>1, Zenon DEF TypeInv
<1>4. ASSUME (\E size \in Sizes : SetSizeBegin(size)) \/ SetSizeShard PROVE TypeInv'
  <2>1. evicted' = NoEviction /\ UNCHANGED <<stats_db, mutx, restoring, earlier, stayed>>
    BY <1>4, Zenon DEF SetSizeBegin, SetSizeShard
  <2>2. resizing' \in [size : Nat, next : 1 .. num_shards + 1]
    BY <1>0, <1>4, ShardAssumption DEF SetSizeBegin, SetSizeShard, TypeInv
  <2> QED BY <1>0, <2>1, <2>2, Zenon DEF TypeInv
<1>5. ASSUME NEW s \in Shards, Expire(s) PROVE TypeInv'
  <2> DEFINE n == Size(s) - map_size_soft[s]
             map == [k \in DOMAIN stats_db[s] \ Victims(s, n) |-> stats_db[s][k]]
  <2>1. /\ stats_db' = [stats_db EXCEPT ![s] = map] /\ UNCHANGED <<mutx, restoring, resizing, earlier>>
        /\ stayed' = [d \in Dumpers |-> stayed[d] \ Victims(s, n)]
        /\ evicted' = [keys |-> Victims(s, n), shard |-> s]
    BY <1>5, Zenon DEF Expire
  <2>2. stats_db[s] \in ShardMap
    BY Zenon DEF TypeInv
  <2>3. map \in ShardMap
    <3> DEFINE ks == DOMAIN stats_db[s] \ Victims(s, n)
    <3>1. ks \in SUBSET Keys /\ map \in [ks -> FieldMap]
      BY <2>2, MapFacts, Zenon
    <3> HIDE DEF map, ks
    <3> QED BY <3>1, MapFacts, Zenon
  <2>4. Victims(s, n) \subseteq Keys
    <3>1. key_tracker[s] \in Seq(Keys) /\ Tracks(key_tracker[s], stats_db[s]) /\ map_size_soft[s] \in Nat
      BY Zenon DEF IInv, Others, TrackerMatchesDB, Tracks
    <3>2. Size(s) = Len(key_tracker[s])
      BY <3>1, DistinctSize, Zenon DEF Size, Tracks
    <3> QED BY <3>1, <3>2 DEF Victims
  <2> HIDE DEF map, n
  <2> QED BY <2>1, <2>3, <2>4, Zenon DEF TypeInv
<1>6. ASSUME NEW d \in Dumpers, DumpBegin(d) PROVE TypeInv'
  <2> DEFINE all == UNION {DOMAIN stats_db[s] : s \in Shards}
  <2>1. stayed' = [stayed EXCEPT ![d] = all] /\ evicted' = NoEviction /\ UNCHANGED <<stats_db, mutx, restoring, resizing, earlier>>
    BY <1>6, Zenon DEF DumpBegin
  <2>2. all \subseteq Keys
    BY MapFacts DEF TypeInv
  <2> HIDE DEF all
  <2> QED BY <1>0, <2>1, <2>2, Zenon DEF TypeInv
<1>7. ASSUME NEW d \in Dumpers, Dumping(d) PROVE TypeInv'
  <2>1. evicted' = NoEviction /\ UNCHANGED <<stats_db, restoring, resizing, earlier, stayed>>
    BY <1>7, Zenon DEF Dumping, startDBDump, DumpEntry, EndDBDump, DumpFails, DumpReturns
  <2>2. mutx' = mutx \/ \E s \in Shards, m \in {d, Free} : mutx' = [mutx EXCEPT ![s] = m]
    BY <1>7, Zenon DEF Dumping, startDBDump, DumpEntry, EndDBDump, DumpFails, DumpReturns
  <2>3. mutx' \in [Shards -> Dumpers \union {Free}]
    BY <2>2 DEF TypeInv
  <2> QED BY <1>0, <2>1, <2>3, Zenon DEF TypeInv
<1>8. CASE UNCHANGED vars
  BY <1>8, Zenon DEF vars, TypeInv
<1>9. CASE Worker
  BY <1>1, <1>2, <1>3, <1>4, <1>9, EntryStepsKeepTypes, Zenon DEF Worker
<1> QED BY <1>5, <1>6, <1>7, <1>8, <1>9, Zenon DEF Next

\* For any keys, shards, sizes and dumpers, the state of the database has its
\* type: a resize goes over the shards there are, and a key that is restored,
\* dumped or evicted is one of the database.
THEOREM DBTypeOK == Spec => []TypeOK
<1>1. Init => TypeInv
  <2> SUFFICES ASSUME Init PROVE TypeInv
    BY Zenon
  <2>1. num_shards \in Nat \ {0} /\ Shards = 1 .. num_shards /\ Sizes \subseteq Nat
    BY ShardAssumption, Zenon DEF Shards
  <2>2. <<>> \in ShardMap
    <3>1. <<>> \in [{} -> FieldMap] /\ {} \in SUBSET Keys
      OBVIOUS
    <3> QED BY <3>1, MapFacts, Zenon
  <2>3. stats_db \in [Shards -> ShardMap] /\ mutx \in [Shards -> Dumpers \union {Free}]
    BY <2>2, Zenon DEF Init
  <2>4. resizing \in [size : Nat, next : 1 .. num_shards + 1]
    BY <2>1 DEF Init
  <2>5. evicted \in [keys : SUBSET Keys, shard : Shards]
    BY <2>1 DEF Init, NoEviction
  <2> QED BY <2>3, <2>4, <2>5, Zenon DEF Init, TypeInv
<1>2. IInv /\ DumpInv /\ TypeInv => TypeOK
  <2> SUFFICES ASSUME IInv, DumpInv, TypeInv PROVE TypeOK
    BY Zenon
  <2>1. key_tracker \in [Shards -> Seq(Keys)] /\ map_size_soft \in [Shards -> Nat]
    BY Zenon DEF IInv, Others
  <2>2. dump \in [Dumpers -> [shard : 0 .. num_shards + 1, pos : Nat, sent : Seq(Keys)]]
    BY Zenon DEF DumpInv, DumpSound
  <2>3. restoring \in {{}} \union {{r} : r \in Restore}
    BY Zenon DEF TypeInv
  <2> QED BY <2>1, <2>2, <2>3, Zenon DEF TypeOK, TypeInv, Restore
<1> QED BY <1>1, <1>2, InitInv, NextKeepsInv, InitDumps, NextKeepsDumps, NextKeepsTypes, PTL DEF Spec
=============================================================================

---------------------------- MODULE StartProofs -----------------------------
(***************************************************************************)
(* Proofs about a daemon that starts: it reads its configuration file and  *)
(* starts what the file asks for, and it is filled by its sync hosts.      *)
(***************************************************************************)
EXTENDS WarmUp, Setup, Functions, TLAPS

-----------------------------------------------------------------------------
(***************************************************************************)
(* The warm-up of a starting server for any number of sync hosts, keys and *)
(* workers and any size of the queue: when a host has called back, all it  *)
(* has dumped has arrived or is on its way, unless its transfer failed.    *)
(***************************************************************************)

Sent(h) == Range(stream[h])
Queued == Range(queue)
Taken == Range(working) \ {None}

\* The operations that come from h, or may.
From(h) == Sent(h) \union Queued \union Taken

IsEntry(o, h, k) == o.op = "sync" /\ o.from = h /\ o.key = k

\* What was dumped is on its way, or arrived, or its transfer failed.
WayInv ==
    \A h \in Hosts : \A i \in 1 .. dumped[h] :
        h \in failed \/ DumpOrder[i] \in restored[h] \/ \E o \in From(h) : IsEntry(o, h, DumpOrder[i])

\* An entry underway has the count that its key still has at the host, unless
\* the key was added to.
EntryInv ==
    /\ \A h \in Hosts : \A o \in Sent(h) : o.op = "sync" /\ o.from = h
    /\ \A h \in Hosts : \A o \in From(h) :
        o.op = "sync" => /\ host[o.from] # "idle"
                         /\ o.key \in disturbed[o.from] \/ o.count = db[o.from][o.key]

\* Additions underway since the sync began are known.
AddInv ==
    \A h \in Hosts : host[h] # "idle" =>
        /\ \A m \in live : m.key \in disturbed[h]
        /\ \A o \in Queued \union Taken : o.op = "add" => o.key \in disturbed[h]

HostInv ==
    /\ \A h \in Hosts :
        /\ host[h] = "idle" => dumped[h] = 0 /\ restored[h] = {}
        /\ host[h] \in {"callback", "done"} => h \in failed \/ dumped[h] = Len(DumpOrder)
    /\ g_ping_up => asking = Exhausted \/ \E h \in Hosts : host[h] = "done"

\* Where only one host syncs, what it restored stays as it is at that host.
LocalInv ==
    \A h \in Hosts : (\A i \in Hosts \ {h} : host[i] = "idle") =>
        \A k \in restored[h] : k \in disturbed[h] \/ local[k] = db[h][k]

IInv == TypeOK /\ WayInv /\ EntryInv /\ AddInv /\ HostInv /\ LocalInv

-----------------------------------------------------------------------------
LEMMA Sizes ==
    /\ SyncHosts \in Seq(Hosts) /\ Len(SyncHosts) \in Nat /\ DumpOrder \in Seq(Keys) /\ Len(DumpOrder) \in Nat
    /\ max_sibling_queue_size \in Nat /\ MaxAdds \in Nat
    /\ Exhausted \in Nat /\ Found = Exhausted + 1 /\ Exhausted = Len(SyncHosts) + 1
  BY WarmUpAssumption DEF Exhausted, Found

LEMMA OperationFacts ==
    ASSUME NEW o \in Operation
    PROVE  /\ o # None /\ o.op \in {"sync", "add"} /\ o.from \in Hosts /\ o.key \in Keys
           /\ o.op = "sync" => o.count \in Nat
<1>1. CASE o \in [op : {"sync"}, from : Hosts, key : Keys, count : Nat]
  <2>1. DOMAIN o = {"op", "from", "key", "count"} /\ DOMAIN None = {}
    BY <1>1 DEF None
  <2>2. "op" \in DOMAIN o
    BY <2>1, Zenon
  <2> QED BY <1>1, <2>1, <2>2, Zenon
<1>2. CASE o \in [op : {"add"}, from : Hosts, key : Keys]
  <2>1. DOMAIN o = {"op", "from", "key"} /\ DOMAIN None = {}
    BY <1>2 DEF None
  <2>2. "op" \in DOMAIN o
    BY <2>1, Zenon
  <2> QED BY <1>2, <2>1, <2>2, Zenon
<1> QED BY <1>1, <1>2, Zenon DEF Operation

LEMMA RangeAppend ==
    ASSUME NEW S, NEW s \in Seq(S), NEW x \in S
    PROVE  Range(Append(s, x)) = Range(s) \union {x}
<1>1. Len(Append(s, x)) = Len(s) + 1 /\ Append(s, x)[Len(s) + 1] = x
      /\ \A i \in 1 .. Len(s) : Append(s, x)[i] = s[i]
  OBVIOUS
<1>2. DOMAIN Append(s, x) = 1 .. Len(s) + 1 /\ DOMAIN s = 1 .. Len(s) /\ Len(s) \in Nat
  BY <1>1
<1>3. ASSUME NEW y \in Range(Append(s, x)) PROVE y \in Range(s) \union {x}
  <2>1. PICK i \in 1 .. Len(s) + 1 : y = Append(s, x)[i]
    BY <1>2, Zenon DEF Range
  <2>2. i = Len(s) + 1 \/ i \in 1 .. Len(s)
    BY <1>2
  <2> QED BY <1>1, <1>2, <2>1, <2>2, Zenon DEF Range
<1>4. ASSUME NEW y \in Range(s) \union {x} PROVE y \in Range(Append(s, x))
  <2>1. CASE y = x
    BY <1>1, <1>2, <2>1 DEF Range
  <2>2. CASE y \in Range(s)
    <3>1. PICK i \in 1 .. Len(s) : y = s[i]
      BY <1>2, <2>2, Zenon DEF Range
    <3>2. i \in 1 .. Len(s) + 1
      BY <1>2
    <3> QED BY <1>1, <1>2, <3>1, <3>2, Zenon DEF Range
  <2> QED BY <1>4, <2>1, <2>2, Zenon
<1> QED BY <1>3, <1>4, Zenon

LEMMA RangeTail ==
    ASSUME NEW S, NEW s \in Seq(S), s # <<>>
    PROVE  /\ Head(s) \in S /\ Tail(s) \in Seq(S) /\ Len(Tail(s)) = Len(s) - 1 /\ Len(s) \in Nat \ {0}
           /\ Head(s) \in Range(s) /\ Range(Tail(s)) \subseteq Range(s) /\ Range(s) \subseteq {Head(s)} \union Range(Tail(s))
<1>1. /\ Len(s) \in Nat \ {0} /\ Head(s) = s[1] /\ Tail(s) \in Seq(S) /\ Len(Tail(s)) = Len(s) - 1
      /\ \A i \in 1 .. Len(s) - 1 : Tail(s)[i] = s[i + 1]
  OBVIOUS
<1>2. DOMAIN s = 1 .. Len(s) /\ DOMAIN Tail(s) = 1 .. Len(s) - 1
  BY <1>1
<1>3. ASSUME NEW y \in Range(Tail(s)) PROVE y \in Range(s)
  <2>1. PICK i \in 1 .. Len(s) - 1 : y = s[i + 1]
    BY <1>1, <1>2, Zenon DEF Range
  <2>2. i + 1 \in 1 .. Len(s)
    BY <1>1
  <2> QED BY <1>2, <2>1, <2>2, Zenon DEF Range
<1>4. ASSUME NEW y \in Range(s) PROVE y \in {Head(s)} \union Range(Tail(s))
  <2>1. PICK i \in 1 .. Len(s) : y = s[i]
    BY <1>2, Zenon DEF Range
  <2>2. CASE i = 1
    BY <1>1, <2>1, <2>2, Zenon
  <2>3. CASE i # 1
    <3>1. i - 1 \in 1 .. Len(s) - 1 /\ (i - 1) + 1 = i
      BY <1>1, <2>3
    <3>2. Tail(s)[i - 1] = y
      BY <1>1, <2>1, <3>1, Zenon
    <3> QED BY <1>2, <3>1, <3>2, Zenon DEF Range
  <2> QED BY <2>2, <2>3, Zenon
<1>5. Head(s) \in S /\ Head(s) \in Range(s)
  <2>1. 1 \in 1 .. Len(s)
    BY <1>1
  <2> QED BY <1>1, <1>2, <2>1 DEF Range
<1> QED BY <1>1, <1>3, <1>4, <1>5, Zenon

LEMMA RangeSubSeq ==
    ASSUME NEW S, NEW s \in Seq(S), NEW n \in 0 .. Len(s)
    PROVE  SubSeq(s, 1, n) \in Seq(S) /\ Range(SubSeq(s, 1, n)) \subseteq Range(s)
<1>1. SubSeq(s, 1, n) \in Seq(S) /\ Len(SubSeq(s, 1, n)) = n /\ \A i \in 1 .. n : SubSeq(s, 1, n)[i] = s[i]
  OBVIOUS
<1>2. DOMAIN SubSeq(s, 1, n) = 1 .. n /\ 1 .. n \subseteq DOMAIN s
  BY <1>1
<1> QED BY <1>1, <1>2, Zenon DEF Range

\* The operations underway are operations.
LEMMA FromFacts ==
    ASSUME TypeOK
    PROVE  /\ \A h \in Hosts : Sent(h) \subseteq Operation
           /\ Queued \subseteq Operation /\ Taken \subseteq Operation
<1>1. ASSUME NEW h \in Hosts PROVE Sent(h) \subseteq Operation
  <2>1. stream[h] \in Seq(Operation)
    BY Zenon DEF TypeOK
  <2> QED BY <2>1 DEF Sent, Range
<1>2. Queued \subseteq Operation
  <2>1. queue \in Seq(Operation)
    BY Zenon DEF TypeOK
  <2> QED BY <2>1 DEF Queued, Range
<1>3. Taken \subseteq Operation
  BY Zenon DEF TypeOK, Taken, Range
<1> QED BY <1>1, <1>2, <1>3, Zenon

LEMMA OnItsWayIs ==
    ASSUME TypeOK, NEW h \in Hosts, NEW k \in Keys
    PROVE  OnItsWay(h, k) <=> \E o \in From(h) : IsEntry(o, h, k)
<1> DEFINE isEntry(o) == o # None /\ o.op = "sync" /\ o.from = h /\ o.key = k
<1>1. OnItsWay(h, k) <=> \/ \E i \in DOMAIN stream[h] : isEntry(stream[h][i])
                         \/ \E i \in DOMAIN queue : isEntry(queue[i])
                         \/ \E w \in Workers : isEntry(working[w])
  BY Zenon DEF OnItsWay
<1>2. \A o \in Operation : isEntry(o) <=> IsEntry(o, h, k)
  BY OperationFacts, Zenon DEF IsEntry
<1>3. DOMAIN working = Workers
  BY Zenon DEF TypeOK
<1>4. /\ (\E i \in DOMAIN stream[h] : isEntry(stream[h][i])) <=> \E o \in Sent(h) : isEntry(o)
      /\ (\E i \in DOMAIN queue : isEntry(queue[i])) <=> \E o \in Queued : isEntry(o)
      /\ (\E w \in Workers : isEntry(working[w])) <=> \E o \in Taken : isEntry(o)
  BY <1>3, Zenon DEF Sent, Queued, Taken, Range
<1> HIDE DEF isEntry
<1> QED BY <1>1, <1>2, <1>4, FromFacts, Zenon DEF From

-----------------------------------------------------------------------------
(***************************************************************************)
(* The receiving side.                                                     *)
(***************************************************************************)

\* A step of the receiving side moves operations on: it loses no entry of a host
\* whose transfer has not failed, and makes none up.
LEMMA MovesKeepInv ==
    ASSUME IInv, TypeOK', UNCHANGED <<asking, g_ping_up, host, dumped, db, disturbed>>,
           failed \subseteq failed', live' \subseteq live,
           \A h \in Hosts : Sent(h)' \subseteq Sent(h),
           \A o \in (Queued \union Taken)' :
               \/ o \in Queued \union Taken
               \/ \E h \in Hosts : o \in Sent(h)
               \/ o.op = "add" /\ \E m \in live : o.key = m.key,
           \A h \in Hosts : \A o \in From(h) :
               o.op = "sync" /\ o.from = h => o \in From(h)' \/ h \in failed' \/ o.key \in restored'[h],
           \A h \in Hosts : restored[h] \subseteq restored'[h] /\ (host[h] = "idle" => restored'[h] = restored[h])
    PROVE  WayInv' /\ EntryInv' /\ AddInv' /\ HostInv'
<1>1. ASSUME NEW h \in Hosts, NEW i \in 1 .. dumped[h]
      PROVE  h \in failed' \/ DumpOrder[i] \in restored'[h] \/ \E o \in From(h)' : IsEntry(o, h, DumpOrder[i])
  <2>1. CASE h \in failed \/ DumpOrder[i] \in restored[h]
    BY <2>1, Zenon
  <2>2. CASE \E o \in From(h) : IsEntry(o, h, DumpOrder[i])
    BY <2>2, Zenon DEF IsEntry
  <2> QED BY <2>1, <2>2, Zenon DEF IInv, WayInv
<1>2. WayInv'
  BY <1>1, Zenon DEF WayInv
<1>3. \A h \in Hosts : \A o \in Sent(h)' : o.op = "sync" /\ o.from = h
  BY Zenon DEF IInv, EntryInv
<1>4. ASSUME NEW h \in Hosts, NEW o \in From(h)', o.op = "sync"
      PROVE  host[o.from] # "idle" /\ (o.key \in disturbed[o.from] \/ o.count = db[o.from][o.key])
  <2>1. o \in Sent(h) \/ o \in (Queued \union Taken)'
    BY Zenon DEF From
  <2>2. \E i \in Hosts : o \in From(i)
    BY <1>4, <2>1, Zenon DEF From
  <2> QED BY <1>4, <2>2 DEF IInv, EntryInv
<1>5. EntryInv'
  BY <1>3, <1>4 DEF EntryInv
<1>6. ASSUME NEW h \in Hosts, host[h] # "idle", NEW o \in (Queued \union Taken)', o.op = "add"
      PROVE  o.key \in disturbed[h]
  BY <1>6 DEF IInv, AddInv, EntryInv
<1>7. AddInv'
  BY <1>6, Zenon DEF IInv, AddInv
<1>8. HostInv'
  BY Zenon DEF IInv, HostInv
<1> QED BY <1>2, <1>5, <1>7, <1>8, Zenon

LEMMA WayStays ==
    ASSUME WayInv, UNCHANGED <<dumped, failed, restored>>, \A h \in Hosts : From(h)' = From(h)
    PROVE  WayInv'
  BY Zenon DEF WayInv

LEMMA EntryStays ==
    ASSUME EntryInv, UNCHANGED <<host, db, disturbed>>, \A h \in Hosts : Sent(h)' = Sent(h) /\ From(h)' = From(h)
    PROVE  EntryInv'
<1>1. ASSUME NEW h \in Hosts, NEW o \in Sent(h)' PROVE o.op = "sync" /\ o.from = h
  BY Zenon DEF EntryInv
<1>2. ASSUME NEW h \in Hosts, NEW o \in From(h)', o.op = "sync"
      PROVE  host'[o.from] # "idle" /\ (o.key \in disturbed'[o.from] \/ o.count = db'[o.from][o.key])
  BY <1>2 DEF EntryInv
<1> QED BY <1>1, <1>2, Zenon DEF EntryInv

LEMMA LocalStays ==
    ASSUME IInv, UNCHANGED <<host, db, local, disturbed, restored>>
    PROVE  LocalInv'
  BY Zenon DEF IInv, LocalInv

\* What Full lets into the queue.
LEMMA QueueGrows ==
    ASSUME TypeOK, NEW o \in Operation, queue' = IF Full THEN queue ELSE Append(queue, o)
    PROVE  /\ queue' \in Seq(Operation) /\ Len(queue') <= max_sibling_queue_size
           /\ Queued \subseteq Queued' /\ Queued' \subseteq Queued \union {o} /\ (o \in Queued' \/ Full)
<1>1. queue \in Seq(Operation) /\ Len(queue) \in Nat /\ Len(queue) <= max_sibling_queue_size
  BY DEF TypeOK
<1>2. CASE Full
  BY <1>1, <1>2, Zenon DEF Queued
<1>3. CASE ~Full
  <2>1. Len(queue) < max_sibling_queue_size /\ queue' = Append(queue, o)
    BY <1>1, <1>3, Sizes DEF Full
  <2>2. queue' \in Seq(Operation) /\ Len(queue') = Len(queue) + 1
    BY <1>1, <2>1
  <2>3. Queued' = Queued \union {o}
    BY <1>1, <2>1, RangeAppend DEF Queued
  <2> QED BY <1>1, <2>1, <2>2, <2>3, Sizes
<1> QED BY <1>2, <1>3, Zenon

LEMMA ReadEntryKeepsInv ==
    ASSUME IInv, NEW h \in Hosts, ReadEntry(h)
    PROVE  IInv'
<1> DEFINE e == Head(stream[h])
<1>1. UNCHANGED <<asking, g_ping_up, host, dumped, live, working, db, local, adds, unnotified, disturbed, restored>>
      /\ stream[h] # <<>> /\ stream' = [stream EXCEPT ![h] = Tail(stream[h])]
      /\ queue' = (IF Full THEN queue ELSE Append(queue, e)) /\ failed' = IF Full THEN failed \union {h} ELSE failed
  BY Zenon DEF ReadEntry
<1>2. TypeOK /\ stream \in [Hosts -> Seq(Operation)] /\ stream[h] \in Seq(Operation)
  BY Zenon DEF IInv, TypeOK
<1>3. e \in Operation /\ Tail(stream[h]) \in Seq(Operation) /\ Range(Tail(stream[h])) \subseteq Range(stream[h])
      /\ e \in Range(stream[h]) /\ Range(stream[h]) \subseteq {e} \union Range(Tail(stream[h]))
  BY <1>1, <1>2, RangeTail, Zenon
<1> HIDE DEF e
<1>4. /\ queue' \in Seq(Operation) /\ Len(queue') <= max_sibling_queue_size
      /\ Queued \subseteq Queued' /\ Queued' \subseteq Queued \union {e} /\ (e \in Queued' \/ Full)
  BY <1>1, <1>2, <1>3, QueueGrows, Zenon
<1>5. stream' \in [Hosts -> Seq(Operation)] /\ stream'[h] = Tail(stream[h]) /\ \A i \in Hosts \ {h} : stream'[i] = stream[i]
  BY <1>1, <1>2, <1>3, Zenon
<1>6. failed \subseteq failed' /\ failed' \subseteq Hosts /\ (Full => h \in failed')
  BY <1>1, <1>2, Zenon DEF TypeOK
<1>7. TypeOK'
  BY <1>1, <1>2, <1>4, <1>5, <1>6, Zenon DEF TypeOK
<1>8. Taken' = Taken
  BY <1>1, Zenon DEF Taken
<1>9. ASSUME NEW i \in Hosts
      PROVE  Sent(i)' \subseteq Sent(i) /\ Sent(i) \subseteq Sent(i)' \union {e} /\ (i # h => Sent(i)' = Sent(i))
  BY <1>3, <1>5, Zenon DEF Sent
<1>10. ASSUME NEW i \in Hosts, NEW o \in From(i), o.op = "sync", o.from = i
       PROVE  o \in From(i)' \/ i \in failed'
  <2>1. CASE o \in Sent(i) /\ o \notin Sent(i)'
    <3>1. o = e /\ i = h
      BY <1>9, <2>1, Zenon
    <3> QED BY <1>4, <1>6, <3>1, Zenon DEF From
  <2>2. CASE o \in Sent(i)' \/ o \in Queued \/ o \in Taken
    BY <1>4, <1>8, <2>2, Zenon DEF From
  <2> QED BY <2>1, <2>2, Zenon DEF From
<1>11. e \in Sent(h)
  BY <1>3, Zenon DEF Sent
<1>12. WayInv' /\ EntryInv' /\ AddInv' /\ HostInv'
  BY <1>1, <1>4, <1>6, <1>7, <1>8, <1>9, <1>10, <1>11, MovesKeepInv
<1>13. LocalInv'
  BY <1>1, LocalStays, Zenon
<1> QED BY <1>7, <1>12, <1>13, Zenon DEF IInv

LEMMA ReadFailsKeepsInv ==
    ASSUME IInv, NEW h \in Hosts, ReadFails(h)
    PROVE  IInv'
<1>1. UNCHANGED <<asking, g_ping_up, host, dumped, live, queue, working, db, local, adds, unnotified, disturbed, restored>>
      /\ stream' = [stream EXCEPT ![h] = <<>>] /\ failed' = failed \union {h}
  BY Zenon DEF ReadFails
<1>2. stream \in [Hosts -> Seq(Operation)] /\ <<>> \in Seq(Operation)
  BY DEF IInv, TypeOK
<1>3. stream' \in [Hosts -> Seq(Operation)] /\ stream'[h] = <<>> /\ \A i \in Hosts \ {h} : stream'[i] = stream[i]
  BY <1>1, <1>2, Zenon
<1>4. TypeOK'
  BY <1>1, <1>3, Zenon DEF IInv, TypeOK
<1>5. Range(<<>>) = {}
  BY DEF Range
<1>6. Queued' = Queued /\ Taken' = Taken /\ \A i \in Hosts : Sent(i)' \subseteq Sent(i) /\ (i # h => Sent(i)' = Sent(i))
  BY <1>1, <1>3, <1>5, Zenon DEF Queued, Taken, Sent
<1>7. WayInv' /\ EntryInv' /\ AddInv' /\ HostInv'
  BY <1>1, <1>4, <1>6, MovesKeepInv, Zenon DEF From
<1>8. LocalInv'
  BY <1>1, LocalStays, Zenon
<1> QED BY <1>4, <1>7, <1>8, Zenon DEF IInv

LEMMA ReadAddKeepsInv ==
    ASSUME IInv, NEW m \in live, ReadAdd(m)
    PROVE  IInv'
<1> DEFINE o == [op |-> "add", from |-> m.from, key |-> m.key]
<1>1. UNCHANGED <<asking, g_ping_up, host, dumped, stream, working, db, local, adds, failed, unnotified, disturbed, restored>>
      /\ live' = live \ {m} /\ queue' = IF Full THEN queue ELSE Append(queue, o)
  BY Zenon DEF ReadAdd
<1>2. TypeOK /\ m.from \in Hosts /\ m.key \in Keys
  BY Zenon DEF IInv, TypeOK
<1>3. o \in Operation /\ o.op = "add" /\ o.key = m.key
  BY <1>2, Zenon DEF Operation
<1> HIDE DEF o
<1>4. /\ queue' \in Seq(Operation) /\ Len(queue') <= max_sibling_queue_size
      /\ Queued \subseteq Queued' /\ Queued' \subseteq Queued \union {o}
  BY <1>1, <1>2, <1>3, QueueGrows, Zenon
<1>5. TypeOK'
  BY <1>1, <1>2, <1>4, Zenon DEF TypeOK
<1>6. Taken' = Taken /\ \A i \in Hosts : Sent(i)' = Sent(i)
  BY <1>1, Zenon DEF Taken, Sent
<1>7. WayInv' /\ EntryInv' /\ AddInv' /\ HostInv'
  BY <1>1, <1>3, <1>4, <1>5, <1>6, MovesKeepInv, Zenon DEF From
<1>8. LocalInv'
  BY <1>1, LocalStays, Zenon
<1> QED BY <1>5, <1>7, <1>8, Zenon DEF IInv

LEMMA TakeKeepsInv ==
    ASSUME IInv, NEW w \in Workers, Take(w)
    PROVE  IInv'
<1> DEFINE e == Head(queue)
<1>1. UNCHANGED <<asking, g_ping_up, host, dumped, stream, live, db, local, adds, failed, unnotified, disturbed, restored>>
      /\ working[w] = None /\ queue # <<>> /\ working' = [working EXCEPT ![w] = e] /\ queue' = Tail(queue)
  BY Zenon DEF Take
<1>2. queue \in Seq(Operation) /\ Len(queue) <= max_sibling_queue_size /\ working \in [Workers -> Operation \union {None}]
  BY Zenon DEF IInv, TypeOK
<1>3. e \in Operation /\ Tail(queue) \in Seq(Operation) /\ Len(Tail(queue)) = Len(queue) - 1 /\ Len(queue) \in Nat \ {0}
      /\ e \in Range(queue) /\ Range(Tail(queue)) \subseteq Range(queue) /\ Range(queue) \subseteq {e} \union Range(Tail(queue))
  BY <1>1, <1>2, RangeTail, Zenon
<1> HIDE DEF e
<1>4. e # None
  BY <1>3, OperationFacts, Zenon
<1>5. working' \in [Workers -> Operation \union {None}] /\ working'[w] = e /\ \A v \in Workers \ {w} : working'[v] = working[v]
  BY <1>1, <1>2, <1>3, Zenon
<1>6. Len(queue') <= max_sibling_queue_size
  BY <1>1, <1>2, <1>3, Sizes
<1>7. TypeOK'
  BY <1>1, <1>3, <1>5, <1>6, Zenon DEF IInv, TypeOK
<1>8. Queued' \subseteq Queued /\ Queued \subseteq {e} \union Queued' /\ e \in Queued
  BY <1>1, <1>3, Zenon DEF Queued
<1>9. Taken \subseteq Taken' /\ Taken' \subseteq Taken \union {e} /\ e \in Taken'
  BY <1>1, <1>2, <1>4, <1>5, Zenon DEF Taken, Range
<1>10. \A i \in Hosts : Sent(i)' = Sent(i)
  BY <1>1, Zenon DEF Sent
<1>11. WayInv' /\ EntryInv' /\ AddInv' /\ HostInv'
  BY <1>1, <1>7, <1>8, <1>9, <1>10, MovesKeepInv, Zenon DEF From
<1>12. LocalInv'
  BY <1>1, LocalStays, Zenon
<1> QED BY <1>7, <1>11, <1>12, Zenon DEF IInv

LEMMA ApplyKeepsInv ==
    ASSUME IInv, NEW w \in Workers, Apply(w)
    PROVE  IInv'
<1> DEFINE o == working[w]
           v == IF o.op = "add" THEN local[o.key] + 1 ELSE o.count
<1>1. UNCHANGED <<asking, g_ping_up, host, dumped, stream, live, queue, db, adds, failed, unnotified, disturbed>>
      /\ o # None /\ working' = [working EXCEPT ![w] = None] /\ local' = [local EXCEPT ![o.key] = v]
      /\ restored' = [h \in Hosts |-> IF o.op = "sync" /\ o.from = h THEN restored[h] \union {o.key} ELSE restored[h]]
  BY Zenon DEF Apply
<1>2. working \in [Workers -> Operation \union {None}] /\ local \in [Keys -> Nat] /\ restored \in [Hosts -> SUBSET Keys]
  BY Zenon DEF IInv, TypeOK
<1>3. o \in Operation
  BY <1>1, <1>2, Zenon
<1>4. o.op \in {"sync", "add"} /\ o.from \in Hosts /\ o.key \in Keys /\ (o.op = "sync" => o.count \in Nat)
  BY <1>3, OperationFacts, Zenon
<1>5. v \in Nat
  BY <1>2, <1>4
<1>6. o \in Taken
  BY <1>1, <1>2, Zenon DEF Taken, Range
<1>7. working' \in [Workers -> Operation \union {None}] /\ working'[w] = None /\ \A u \in Workers \ {w} : working'[u] = working[u]
  BY <1>1, <1>2, Zenon
<1>8. Taken' \subseteq Taken /\ Taken \subseteq Taken' \union {o}
  BY <1>2, <1>7, Zenon DEF Taken, Range
<1> HIDE DEF o, v
<1>9. local' \in [Keys -> Nat] /\ local'[o.key] = v /\ \A k \in Keys \ {o.key} : local'[k] = local[k]
  BY <1>1, <1>2, <1>4, <1>5, Zenon
<1>10. restored' \in [Hosts -> SUBSET Keys] /\
       \A h \in Hosts : restored'[h] = IF o.op = "sync" /\ o.from = h THEN restored[h] \union {o.key} ELSE restored[h]
  BY <1>1, <1>2, <1>4, Zenon
<1>11. TypeOK'
  BY <1>1, <1>7, <1>9, <1>10, Zenon DEF IInv, TypeOK
<1>12. Queued' = Queued /\ \A i \in Hosts : Sent(i)' = Sent(i)
  BY <1>1, Zenon DEF Queued, Sent
<1>13. o.op = "sync" => host[o.from] # "idle" /\ (o.key \in disturbed[o.from] \/ o.count = db[o.from][o.key])
  BY <1>4, <1>6, Zenon DEF IInv, EntryInv, From
<1>14. \A h \in Hosts : restored[h] \subseteq restored'[h] /\ (host[h] = "idle" => restored'[h] = restored[h])
  BY <1>10, <1>13, Zenon
<1>15. ASSUME NEW h \in Hosts, NEW p \in From(h), p.op = "sync", p.from = h
       PROVE  p \in From(h)' \/ p.key \in restored'[h]
  <2>1. CASE p = o
    BY <1>10, <1>15, <2>1, Zenon
  <2>2. CASE p # o
    BY <1>8, <1>12, <2>2, Zenon DEF From
  <2> QED BY <2>1, <2>2, Zenon
<1>16. WayInv' /\ EntryInv' /\ AddInv' /\ HostInv'
  BY <1>1, <1>8, <1>11, <1>12, <1>14, <1>15, MovesKeepInv, Zenon
<1>17. ASSUME NEW h \in Hosts, \A i \in Hosts \ {h} : host[i] = "idle", NEW k \in restored'[h], k \notin disturbed[h]
       PROVE  local'[k] = db[h][k]
  <2>1. k \in Keys /\ host[h] # "idle"
    <3>1. k \in Keys
      BY <1>10, Zenon
    <3>2. host[h] = "idle" => restored'[h] = {}
      BY <1>14, Zenon DEF IInv, HostInv
    <3> QED BY <1>17, <3>1, <3>2, Zenon
  <2>2. CASE k # o.key
    <3>1. k \in restored[h]
      BY <1>10, <1>17, <2>2
    <3> QED BY <1>9, <1>17, <2>1, <2>2, <3>1, Zenon DEF IInv, LocalInv
  <2>3. CASE k = o.key /\ o.op = "sync"
    <3>1. o.from = h
      BY <1>4, <1>13, <1>17, <2>3, Zenon
    <3>2. o.count = db[h][k]
      BY <1>13, <1>17, <2>3, <3>1, Zenon
    <3>3. v = o.count
      BY <2>3, Zenon DEF v
    <3> QED BY <1>9, <2>3, <3>2, <3>3, Zenon
  <2>4. CASE k = o.key /\ o.op = "add"
    BY <1>6, <1>17, <2>1, <2>4, Zenon DEF IInv, AddInv
  <2> QED BY <1>4, <2>2, <2>3, <2>4, Zenon
<1>18. LocalInv'
  BY <1>1, <1>17 DEF LocalInv
<1> QED BY <1>11, <1>16, <1>18, Zenon DEF IInv

-----------------------------------------------------------------------------
(***************************************************************************)
(* The host.                                                               *)
(***************************************************************************)

LEMMA DumpEntryKeepsInv ==
    ASSUME IInv, NEW h \in Hosts, DumpEntry(h)
    PROVE  IInv'
<1> DEFINE n == dumped[h] + 1
           k == DumpOrder[n]
           e == [op |-> "sync", from |-> h, key |-> k, count |-> db[h][k]]
<1>1. UNCHANGED <<asking, g_ping_up, host, live, queue, working, db, local, adds, failed, unnotified, disturbed, restored>>
      /\ host[h] = "dumping" /\ dumped[h] < Len(DumpOrder)
      /\ dumped' = [dumped EXCEPT ![h] = n] /\ stream' = [stream EXCEPT ![h] = Append(stream[h], e)]
  BY Zenon DEF DumpEntry
<1>2. dumped \in [Hosts -> 0 .. Len(DumpOrder)] /\ stream \in [Hosts -> Seq(Operation)] /\ db \in [Hosts -> [Keys -> Nat]]
  BY Zenon DEF IInv, TypeOK
<1>3. n \in 1 .. Len(DumpOrder) /\ n \in 0 .. Len(DumpOrder)
  BY <1>1, <1>2, Sizes
<1>4. k \in Keys
  BY <1>3, Sizes
<1> HIDE DEF k
<1>5. e \in Operation /\ e.op = "sync" /\ e.from = h /\ e.key = k /\ e.count = db[h][k]
  BY <1>2, <1>4, Zenon DEF Operation
<1> HIDE DEF e
<1>6. stream' \in [Hosts -> Seq(Operation)] /\ stream'[h] = Append(stream[h], e) /\ \A i \in Hosts \ {h} : stream'[i] = stream[i]
  BY <1>1, <1>2, <1>5
<1>7. dumped' \in [Hosts -> 0 .. Len(DumpOrder)] /\ dumped'[h] = n /\ \A i \in Hosts \ {h} : dumped'[i] = dumped[i]
  BY <1>1, <1>2, <1>3, Zenon
<1>8. TypeOK'
  BY <1>1, <1>6, <1>7, Zenon DEF IInv, TypeOK
<1>9. Sent(h)' = Sent(h) \union {e} /\ (\A i \in Hosts \ {h} : Sent(i)' = Sent(i)) /\ Queued' = Queued /\ Taken' = Taken
  BY <1>1, <1>2, <1>5, <1>6, RangeAppend DEF Sent, Queued, Taken
<1>10. From(h)' = From(h) \union {e} /\ \A i \in Hosts \ {h} : From(i)' = From(i)
  BY <1>9, Zenon DEF From
<1>11. ASSUME NEW i \in Hosts, NEW j \in 1 .. dumped'[i]
       PROVE  i \in failed \/ DumpOrder[j] \in restored[i] \/ \E o \in From(i)' : IsEntry(o, i, DumpOrder[j])
  <2>1. CASE i = h /\ j = n
    BY <1>5, <1>10, <2>1, Zenon DEF IsEntry, k
  <2>2. CASE ~(i = h /\ j = n)
    <3>1. j \in 1 .. dumped[i]
      BY <1>2, <1>7, <2>2
    <3>2. From(i) \subseteq From(i)'
      BY <1>10, Zenon
    <3> QED BY <3>1, <3>2, Zenon DEF IInv, WayInv
  <2> QED BY <2>1, <2>2, Zenon
<1>12. WayInv'
  BY <1>1, <1>11, Zenon DEF WayInv
<1>13. EntryInv'
  <2>1. \A i \in Hosts : \A o \in Sent(i)' : o.op = "sync" /\ o.from = i
    BY <1>5, <1>9 DEF IInv, EntryInv
  <2>2. ASSUME NEW i \in Hosts, NEW o \in From(i)', o.op = "sync"
        PROVE  host[o.from] # "idle" /\ (o.key \in disturbed[o.from] \/ o.count = db[o.from][o.key])
    <3>1. CASE o = e
      BY <1>1, <1>5, <3>1, Zenon
    <3>2. CASE o # e
      <4>1. o \in From(i)
        BY <1>10, <3>2, Zenon
      <4> QED BY <2>2, <4>1, Zenon DEF IInv, EntryInv
    <3> QED BY <3>1, <3>2, Zenon
  <2> QED BY <1>1, <2>1, <2>2, Zenon DEF EntryInv
<1>14. AddInv'
  BY <1>1, <1>9, Zenon DEF IInv, AddInv
<1>15. HostInv'
  <2>1. ASSUME NEW i \in Hosts
        PROVE  /\ host[i] = "idle" => dumped'[i] = 0 /\ restored[i] = {}
               /\ host[i] \in {"callback", "done"} => i \in failed \/ dumped'[i] = Len(DumpOrder)
    BY <1>1, <1>7, Zenon DEF IInv, HostInv
  <2> QED BY <1>1, <2>1, Zenon DEF IInv, HostInv
<1>16. LocalInv'
  BY <1>1, LocalStays, Zenon
<1> QED BY <1>8, <1>12, <1>13, <1>14, <1>15, <1>16, Zenon DEF IInv

\* A host that has begun goes on; it may lose of its stream if it fails.
LEMMA PhaseKeepsInv ==
    ASSUME IInv, NEW h \in Hosts, host[h] # "idle", NEW p \in {"callback", "done"}, host' = [host EXCEPT ![h] = p],
           UNCHANGED <<dumped, live, queue, working, db, local, disturbed, restored>>, failed \subseteq failed',
           \A i \in Hosts : Sent(i)' \subseteq Sent(i) /\ (Sent(i)' = Sent(i) \/ i \in failed')
    PROVE  WayInv' /\ EntryInv' /\ AddInv' /\ LocalInv'
<1>1. host \in [Hosts -> {"idle", "dumping", "callback", "done"}]
  BY Zenon DEF IInv, TypeOK
<1>2. \A i \in Hosts : host'[i] = "idle" <=> host[i] = "idle"
  BY <1>1, Zenon
<1>3. Queued' = Queued /\ Taken' = Taken
  BY Zenon DEF Queued, Taken
<1>4. \A i \in Hosts : From(i)' \subseteq From(i) /\ (From(i)' = From(i) \/ i \in failed')
  BY <1>3, Zenon DEF From
<1>5. WayInv'
  BY <1>4, Zenon DEF IInv, WayInv
<1>6. ASSUME NEW i \in Hosts, NEW o \in From(i)', o.op = "sync"
      PROVE  host'[o.from] # "idle" /\ (o.key \in disturbed[o.from] \/ o.count = db[o.from][o.key])
  <2>1. o \in From(i)
    BY <1>4, Zenon
  <2>2. host[o.from] # "idle" /\ (o.key \in disturbed[o.from] \/ o.count = db[o.from][o.key])
    BY <1>6, <2>1, Zenon DEF IInv, EntryInv
  <2>3. o.from \in Hosts
    BY <2>1, FromFacts, OperationFacts, Zenon DEF From, IInv
  <2> QED BY <1>2, <2>2, <2>3, Zenon
<1>7. EntryInv'
  BY <1>6 DEF IInv, EntryInv
<1>8. AddInv'
  BY <1>2, <1>3, Zenon DEF IInv, AddInv
<1>9. LocalInv'
  BY <1>2, Zenon DEF IInv, LocalInv
<1> QED BY <1>5, <1>7, <1>8, <1>9, Zenon

LEMMA HostEndsKeepInv ==
    ASSUME IInv, NEW h \in Hosts, DumpEnds(h) \/ parseSyncDoneCmd(h) \/ CallbackFails(h)
    PROVE  IInv'
<1>1. PICK p \in {"callback", "done"} : host' = [host EXCEPT ![h] = p]
  BY Zenon DEF DumpEnds, parseSyncDoneCmd, CallbackFails
<1>2. host[h] # "idle" /\ UNCHANGED <<asking, dumped, stream, live, queue, working, db, local, adds, failed, disturbed, restored>>
  BY Zenon DEF DumpEnds, parseSyncDoneCmd, CallbackFails
<1>3. host \in [Hosts -> {"idle", "dumping", "callback", "done"}]
  BY Zenon DEF IInv, TypeOK
<1>4. host' \in [Hosts -> {"idle", "dumping", "callback", "done"}] /\ host'[h] = p /\ \A i \in Hosts \ {h} : host'[i] = host[i]
  BY <1>1, <1>3, Zenon
<1>5. g_ping_up' \in BOOLEAN /\ unnotified' \in BOOLEAN
  BY Zenon DEF DumpEnds, parseSyncDoneCmd, CallbackFails, IInv, TypeOK
<1>6. TypeOK'
  BY <1>2, <1>4, <1>5, Zenon DEF IInv, TypeOK
<1>7. \A i \in Hosts : Sent(i)' = Sent(i)
  BY <1>2, Zenon DEF Sent
<1>8. WayInv' /\ EntryInv' /\ AddInv' /\ LocalInv'
  BY <1>1, <1>2, <1>7, PhaseKeepsInv, Zenon
<1>9. host[h] \in {"callback", "done"} \/ Dumped(h)
  BY Zenon DEF DumpEnds, parseSyncDoneCmd, CallbackFails
<1>10. ASSUME NEW i \in Hosts
       PROVE  /\ host'[i] = "idle" => dumped[i] = 0 /\ restored[i] = {}
              /\ host'[i] \in {"callback", "done"} => i \in failed \/ dumped[i] = Len(DumpOrder)
  BY <1>4, <1>9, Zenon DEF IInv, HostInv, Dumped
<1>11. g_ping_up' => asking = Exhausted \/ \E i \in Hosts : host'[i] = "done"
  <2>1. CASE DumpEnds(h)
    <3>1. UNCHANGED g_ping_up /\ host[h] # "done"
      BY <2>1, Zenon DEF DumpEnds
    <3>2. \A i \in Hosts : host[i] = "done" => host'[i] = "done"
      BY <1>4, <3>1, Zenon
    <3> QED BY <3>1, <3>2, Zenon DEF IInv, HostInv
  <2>2. CASE parseSyncDoneCmd(h) \/ CallbackFails(h)
    <3>1. host'[h] = "done"
      BY <1>3, <2>2, Zenon DEF parseSyncDoneCmd, CallbackFails
    <3> QED BY <3>1, Zenon
  <2> QED BY <2>1, <2>2, Zenon
<1>12. HostInv'
  BY <1>2, <1>10, <1>11, Zenon DEF HostInv
<1> QED BY <1>6, <1>8, <1>12, Zenon DEF IInv

LEMMA DumpFailsKeepsInv ==
    ASSUME IInv, NEW h \in Hosts, DumpFails(h)
    PROVE  IInv'
<1>1. PICK n \in 0 .. Len(stream[h]) : stream' = [stream EXCEPT ![h] = SubSeq(stream[h], 1, n)]
  BY Zenon DEF DumpFails
<1>2. host[h] = "dumping" /\ host' = [host EXCEPT ![h] = "callback"] /\ failed' = failed \union {h}
      /\ UNCHANGED <<asking, g_ping_up, dumped, live, queue, working, db, local, adds, unnotified, disturbed, restored>>
  BY Zenon DEF DumpFails
<1>3. host \in [Hosts -> {"idle", "dumping", "callback", "done"}] /\ stream \in [Hosts -> Seq(Operation)]
      /\ stream[h] \in Seq(Operation) /\ failed \subseteq Hosts
  BY Zenon DEF IInv, TypeOK
<1>4. SubSeq(stream[h], 1, n) \in Seq(Operation) /\ Range(SubSeq(stream[h], 1, n)) \subseteq Range(stream[h])
  BY <1>3, RangeSubSeq, Zenon
<1>5. host' \in [Hosts -> {"idle", "dumping", "callback", "done"}] /\ host'[h] = "callback"
      /\ \A i \in Hosts \ {h} : host'[i] = host[i]
  BY <1>2, <1>3, Zenon
<1>6. stream' \in [Hosts -> Seq(Operation)] /\ stream'[h] = SubSeq(stream[h], 1, n)
      /\ \A i \in Hosts \ {h} : stream'[i] = stream[i]
  BY <1>1, <1>3, <1>4, Zenon
<1>7. TypeOK'
  BY <1>2, <1>3, <1>5, <1>6, Zenon DEF IInv, TypeOK
<1>8. \A i \in Hosts : Sent(i)' \subseteq Sent(i) /\ (Sent(i)' = Sent(i) \/ i \in failed')
  BY <1>2, <1>4, <1>6, Zenon DEF Sent
<1>9. WayInv' /\ EntryInv' /\ AddInv' /\ LocalInv'
  BY <1>2, <1>8, PhaseKeepsInv, Zenon
<1>10. \A i \in Hosts : host[i] = "done" => host'[i] = "done"
  BY <1>2, <1>5, Zenon
<1>11. HostInv'
  BY <1>2, <1>5, <1>10, Zenon DEF IInv, HostInv
<1> QED BY <1>7, <1>9, <1>11, Zenon DEF IInv

\* Whoever syncs from now on is told of the addition.
LEMMA AddKeepsInv ==
    ASSUME IInv, NEW h \in Hosts, NEW k \in Keys, Add(h, k)
    PROVE  IInv'
<1> DEFINE m == [from |-> h, key |-> k, n |-> adds + 1]
<1>1. UNCHANGED <<asking, g_ping_up, host, dumped, stream, queue, working, local, failed, unnotified, restored>>
      /\ adds < MaxAdds /\ adds' = adds + 1 /\ db' = [db EXCEPT ![h][k] = @ + 1] /\ live' = live \union {m}
      /\ disturbed' = [i \in Hosts |-> IF host[i] = "idle" THEN disturbed[i] ELSE disturbed[i] \union {k}]
  BY Zenon DEF Add
<1>2. db \in [Hosts -> [Keys -> Nat]] /\ adds \in 0 .. MaxAdds /\ disturbed \in [Hosts -> SUBSET Keys]
      /\ live \subseteq [from : Hosts, key : Keys, n : 1 .. MaxAdds] /\ restored \in [Hosts -> SUBSET Keys]
  BY Zenon DEF IInv, TypeOK
<1>3. adds + 1 \in 1 .. MaxAdds /\ adds' \in 0 .. MaxAdds
  BY <1>1, <1>2, Sizes
<1>4. m \in [from : Hosts, key : Keys, n : 1 .. MaxAdds] /\ m.key = k
  BY <1>3, Zenon
<1> HIDE DEF m
<1>5. db' \in [Hosts -> [Keys -> Nat]] /\ \A i \in Hosts, j \in Keys : ~(i = h /\ j = k) => db'[i][j] = db[i][j]
  <2>1. db[h][k] + 1 \in Nat
    BY <1>2
  <2> QED BY <1>1, <1>2, <2>1, Zenon
<1>6. disturbed' \in [Hosts -> SUBSET Keys] /\
      \A i \in Hosts : disturbed[i] \subseteq disturbed'[i] /\ (host[i] # "idle" => k \in disturbed'[i])
  BY <1>1, <1>2, Zenon
<1>7. TypeOK'
  <2>1. UNCHANGED <<asking, g_ping_up, host, dumped, stream, queue, working, local, failed, unnotified, restored>>
    BY <1>1, Zenon
  <2>2. live' \subseteq [from : Hosts, key : Keys, n : 1 .. MaxAdds]
    BY <1>1, <1>2, <1>4, Zenon
  <2> QED BY <1>3, <1>5, <1>6, <2>1, <2>2, Zenon DEF IInv, TypeOK
<1>8. Queued' = Queued /\ Taken' = Taken /\ \A i \in Hosts : Sent(i)' = Sent(i) /\ From(i)' = From(i)
  BY <1>1, Zenon DEF Queued, Taken, Sent, From
<1>9. WayInv'
  BY <1>1, <1>8, Zenon DEF IInv, WayInv
<1>10. EntryInv'
  <2>1. ASSUME NEW i \in Hosts, NEW o \in From(i)', o.op = "sync"
        PROVE  host'[o.from] # "idle" /\ (o.key \in disturbed'[o.from] \/ o.count = db'[o.from][o.key])
    <3>1. o \in From(i) /\ host' = host
      BY <1>1, <1>8, Zenon
    <3>2. o.from \in Hosts /\ o.key \in Keys
      BY <3>1, FromFacts, OperationFacts, Zenon DEF From, IInv
    <3>3. host[o.from] # "idle" /\ (o.key \in disturbed[o.from] \/ o.count = db[o.from][o.key])
      BY <2>1, <3>1, Zenon DEF IInv, EntryInv
    <3> QED BY <1>5, <1>6, <3>1, <3>2, <3>3, Zenon
  <2>2. ASSUME NEW i \in Hosts, NEW o \in Sent(i)' PROVE o.op = "sync" /\ o.from = i
    BY <1>8, Zenon DEF IInv, EntryInv
  <2> QED BY <2>1, <2>2, Zenon DEF EntryInv
<1>11. AddInv'
  BY <1>1, <1>4, <1>6, <1>8, Zenon DEF IInv, AddInv
<1>12. HostInv'
  BY <1>1, Zenon DEF IInv, HostInv
<1>13. ASSUME NEW i \in Hosts, \A j \in Hosts \ {i} : host[j] = "idle", NEW j \in restored[i]
       PROVE  j \in disturbed'[i] \/ local[j] = db'[i][j]
  <2>1. j \in Keys /\ (j \in disturbed[i] \/ local[j] = db[i][j])
    BY <1>2, <1>13, Zenon DEF IInv, LocalInv
  <2>2. host[i] # "idle"
    BY <1>13, Zenon DEF IInv, HostInv
  <2> QED BY <1>5, <1>6, <2>1, <2>2, Zenon
<1>14. LocalInv'
  BY <1>1, <1>13, Zenon DEF LocalInv
<1> QED BY <1>7, <1>9, <1>10, <1>11, <1>12, <1>14, Zenon DEF IInv

-----------------------------------------------------------------------------
(***************************************************************************)
(* The starting server asks.                                               *)
(***************************************************************************)

LEMMA AskFailsKeepsInv ==
    ASSUME IInv, checkHostFails
    PROVE  IInv'
<1>1. UNCHANGED <<host, dumped, stream, live, queue, working, db, local, adds, failed, unnotified, disturbed, restored>>
      /\ asking < Exhausted /\ asking' = asking + 1 /\ g_ping_up' = (g_ping_up \/ asking + 1 = Exhausted)
  BY Zenon DEF checkHostFails, NotFound
<1>2. asking' \in 1 .. Found
  BY <1>1, Sizes DEF IInv, TypeOK
<1>3. g_ping_up' \in BOOLEAN
  BY <1>1, Zenon
<1>4. TypeOK'
  BY <1>1, <1>2, <1>3, Zenon DEF IInv, TypeOK
<1>5. WayInv' /\ EntryInv' /\ AddInv' /\ LocalInv'
  <2>1. Queued' = Queued /\ Taken' = Taken /\ \A h \in Hosts : Sent(h)' = Sent(h) /\ From(h)' = From(h)
    BY <1>1, Zenon DEF Queued, Taken, Sent, From
  <2>2. WayInv' /\ EntryInv'
    BY <1>1, <2>1, WayStays, EntryStays, Zenon DEF IInv
  <2>3. AddInv' /\ LocalInv'
    BY <1>1, <2>1, Zenon DEF IInv, AddInv, LocalInv
  <2> QED BY <2>2, <2>3, Zenon
<1>6. g_ping_up' => asking' = Exhausted \/ \E h \in Hosts : host[h] = "done"
  <2>1. CASE g_ping_up
    <3>1. asking # Exhausted
      BY <1>1, Sizes DEF IInv, TypeOK
    <3> QED BY <2>1, <3>1, Zenon DEF IInv, HostInv
  <2>2. CASE ~g_ping_up
    BY <1>1, <2>2, Zenon
  <2> QED BY <2>1, <2>2, Zenon
<1>7. HostInv'
  BY <1>1, <1>6, Zenon DEF IInv, HostInv
<1> QED BY <1>4, <1>5, <1>7, Zenon DEF IInv

\* A host that begins has dumped nothing, and knows of the additions underway.
LEMMA BeginsKeepsInv ==
    ASSUME IInv, NEW h \in Hosts, host[h] = "idle", parseSyncCmd(h),
           UNCHANGED <<dumped, stream, live, queue, working, db, local, adds, failed, unnotified, restored>>,
           asking' \in 1 .. Found, g_ping_up' \in BOOLEAN,
           g_ping_up' => asking' = Exhausted \/ \E i \in Hosts : host[i] = "done"
    PROVE  IInv'
<1>1. host \in [Hosts -> {"idle", "dumping", "callback", "done"}] /\ disturbed \in [Hosts -> SUBSET Keys]
  BY Zenon DEF IInv, TypeOK
<1>2. host' \in [Hosts -> {"idle", "dumping", "callback", "done"}] /\ host'[h] = "dumping"
      /\ \A i \in Hosts \ {h} : host'[i] = host[i]
  BY <1>1, Zenon DEF parseSyncCmd
<1> DEFINE D == {m.key : m \in live}
                  \union {queue[i].key : i \in {j \in DOMAIN queue : queue[j].op = "add"}}
                  \union {working[w].key : w \in {v \in Workers : working[v] # None}}
<1>3. D \subseteq Keys
  <2>1. \A m \in live : m.key \in Keys
    BY Zenon DEF IInv, TypeOK
  <2>2. \A i \in DOMAIN queue : queue[i].key \in Keys
    <3>1. \A i \in DOMAIN queue : queue[i] \in Operation
      BY DEF IInv, TypeOK
    <3> QED BY <3>1, OperationFacts, Zenon
  <2>3. \A w \in Workers : working[w] # None => working[w].key \in Keys
    <3>1. \A w \in Workers : working[w] # None => working[w] \in Operation
      BY Zenon DEF IInv, TypeOK
    <3> QED BY <3>1, OperationFacts, Zenon
  <2> QED BY <2>1, <2>2, <2>3, Zenon
<1>4. /\ \A m \in live : m.key \in D
      /\ \A o \in Queued \union Taken : o.op = "add" => o.key \in D
  <2>1. \A o \in Queued : o.op = "add" => o.key \in D
    BY Zenon DEF Queued, Range
  <2>2. DOMAIN working = Workers
    BY Zenon DEF IInv, TypeOK
  <2>3. \A o \in Taken : o.key \in D
    BY <2>2, Zenon DEF Taken, Range
  <2> QED BY <2>1, <2>3, Zenon
<1>5. disturbed' = [disturbed EXCEPT ![h] = D]
  BY Zenon DEF parseSyncCmd
<1> HIDE DEF D
<1>6. disturbed' \in [Hosts -> SUBSET Keys] /\ disturbed'[h] = D /\ \A i \in Hosts \ {h} : disturbed'[i] = disturbed[i]
  BY <1>1, <1>3, <1>5, Zenon
<1>7. TypeOK'
  BY <1>2, <1>6, Zenon DEF IInv, TypeOK
<1>8. Queued' = Queued /\ Taken' = Taken /\ \A i \in Hosts : Sent(i)' = Sent(i) /\ From(i)' = From(i)
  BY Zenon DEF Queued, Taken, Sent, From
<1>9. WayInv'
  BY <1>8, Zenon DEF IInv, WayInv
<1>10. EntryInv'
  <2>1. ASSUME NEW i \in Hosts, NEW o \in From(i)', o.op = "sync"
        PROVE  host'[o.from] # "idle" /\ (o.key \in disturbed'[o.from] \/ o.count = db'[o.from][o.key])
    <3>1. o \in From(i)
      BY <1>8, Zenon
    <3>2. o.from \in Hosts
      BY <3>1, FromFacts, OperationFacts, Zenon DEF From, IInv
    <3>3. host[o.from] # "idle" /\ (o.key \in disturbed[o.from] \/ o.count = db[o.from][o.key])
      BY <2>1, <3>1, Zenon DEF IInv, EntryInv
    <3>4. o.from # h
      BY <3>3, Zenon
    <3> QED BY <1>2, <1>6, <3>2, <3>3, <3>4, Zenon
  <2>2. ASSUME NEW i \in Hosts, NEW o \in Sent(i)' PROVE o.op = "sync" /\ o.from = i
    BY <1>8, Zenon DEF IInv, EntryInv
  <2> QED BY <2>1, <2>2, Zenon DEF EntryInv
<1>11. AddInv'
  <2>1. ASSUME NEW i \in Hosts, host'[i] # "idle"
        PROVE  /\ \A m \in live : m.key \in disturbed'[i]
               /\ \A o \in Queued \union Taken : o.op = "add" => o.key \in disturbed'[i]
    <3>1. CASE i = h
      BY <1>4, <1>6, <3>1, Zenon
    <3>2. CASE i # h
      BY <1>2, <1>6, <2>1, <3>2, Zenon DEF IInv, AddInv
    <3> QED BY <3>1, <3>2, Zenon
  <2> QED BY <1>8, <2>1, Zenon DEF AddInv
<1>12. HostInv'
  <2>1. \A i \in Hosts : host[i] = "done" => host'[i] = "done"
    BY <1>2, Zenon
  <2>2. \A i \in Hosts : host'[i] \in {"idle", "callback", "done"} => host[i] = host'[i]
    BY <1>2, Zenon
  <2> QED BY <2>1, <2>2, Zenon DEF IInv, HostInv
<1>13. ASSUME NEW i \in Hosts, \A j \in Hosts \ {i} : host'[j] = "idle"
       PROVE  \A k \in restored[i] : k \in disturbed'[i] \/ local[k] = db[i][k]
  <2>1. i = h
    BY <1>2, <1>13, Zenon
  <2>2. restored[h] = {}
    BY Zenon DEF IInv, HostInv
  <2> QED BY <2>1, <2>2, Zenon
<1>14. LocalInv'
  BY <1>13, Zenon DEF LocalInv
<1> QED BY <1>7, <1>9, <1>10, <1>11, <1>12, <1>14, Zenon DEF IInv

LEMMA AskKeepsInv ==
    ASSUME IInv, checkHostAccepts \/ checkHostUnheard
    PROVE  IInv'
<1>1. asking < Exhausted /\ host[Asked] = "idle" /\ parseSyncCmd(Asked)
      /\ UNCHANGED <<dumped, stream, live, queue, working, db, local, adds, failed, unnotified, restored>>
  BY Zenon DEF checkHostAccepts, checkHostUnheard
<1>2. asking \in 1 .. Len(SyncHosts) /\ asking # Exhausted /\ asking + 1 \in 1 .. Found /\ Found \in 1 .. Found
  <2>1. asking \in 1 .. Found
    BY Zenon DEF IInv, TypeOK
  <2> QED BY <1>1, <2>1, Sizes
<1>3. Asked \in Hosts
  BY <1>2, Sizes DEF Asked
<1>4. asking' \in 1 .. Found
  BY <1>2, Zenon DEF checkHostAccepts, checkHostUnheard
<1>5. g_ping_up' = g_ping_up \/ (g_ping_up' = (g_ping_up \/ asking' = Exhausted))
  BY Zenon DEF checkHostAccepts, checkHostUnheard, NotFound
<1>6. g_ping_up \in BOOLEAN
  BY Zenon DEF IInv, TypeOK
<1>7. g_ping_up' \in BOOLEAN
  BY <1>5, <1>6, Zenon
<1>8. g_ping_up' => g_ping_up \/ asking' = Exhausted
  BY <1>5, <1>6, Zenon
<1>9. g_ping_up => \E i \in Hosts : host[i] = "done"
  BY <1>2, Zenon DEF IInv, HostInv
<1> QED BY <1>1, <1>3, <1>4, <1>7, <1>8, <1>9, BeginsKeepsInv, Zenon

-----------------------------------------------------------------------------
LEMMA InitInv == Init => IInv
<1> SUFFICES ASSUME Init PROVE IInv
  BY Zenon
<1>1. Range(<<>>) = {} /\ <<>> \in Seq(Operation) /\ Len(<<>>) = 0
  BY DEF Range
<1>2. Queued = {} /\ Taken = {} /\ \A h \in Hosts : Sent(h) = {} /\ From(h) = {}
  BY <1>1 DEF Init, Queued, Taken, Sent, From, Range
<1>3. asking \in 1 .. Found /\ adds \in 0 .. MaxAdds /\ dumped \in [Hosts -> 0 .. Len(DumpOrder)]
  BY Sizes DEF Init
<1>4. queue \in Seq(Operation) /\ Len(queue) <= max_sibling_queue_size /\ stream \in [Hosts -> Seq(Operation)]
  BY <1>1, Sizes DEF Init
<1>5. TypeOK
  <2>1. host \in [Hosts -> {"idle", "dumping", "callback", "done"}] /\ working \in [Workers -> Operation \union {None}]
    BY Zenon DEF Init
  <2>2. db \in [Hosts -> [Keys -> Nat]] /\ local \in [Keys -> Nat]
    BY Zenon DEF Init
  <2>3. disturbed \in [Hosts -> SUBSET Keys] /\ restored \in [Hosts -> SUBSET Keys]
    BY Zenon DEF Init
  <2>4. g_ping_up \in BOOLEAN /\ unnotified \in BOOLEAN /\ failed \subseteq Hosts
    BY Zenon DEF Init
  <2>5. live \subseteq [from : Hosts, key : Keys, n : 1 .. MaxAdds]
    BY Zenon DEF Init
  <2> QED BY <1>3, <1>4, <2>1, <2>2, <2>3, <2>4, <2>5, Zenon DEF TypeOK
<1>6. WayInv /\ EntryInv /\ AddInv /\ LocalInv
  <2>1. WayInv
    BY DEF Init, WayInv
  <2>2. EntryInv
    BY <1>2, Zenon DEF EntryInv
  <2>3. AddInv
    BY <1>2, Zenon DEF Init, AddInv
  <2>4. LocalInv
    BY Zenon DEF Init, LocalInv
  <2> QED BY <2>1, <2>2, <2>3, <2>4, Zenon
<1>7. HostInv
  BY Zenon DEF Init, HostInv
<1> QED BY <1>5, <1>6, <1>7, Zenon DEF IInv

LEMMA NextInv == IInv /\ [Next]_vars => IInv'
<1> SUFFICES ASSUME IInv, [Next]_vars PROVE IInv'
  BY Zenon
<1>1. CASE UNCHANGED vars
  <2>1. Queued' = Queued /\ Taken' = Taken /\ \A h \in Hosts : Sent(h)' = Sent(h) /\ From(h)' = From(h)
    BY <1>1, Zenon DEF vars, Queued, Taken, Sent, From
  <2>2. TypeOK'
    BY <1>1, Zenon DEF vars, IInv, TypeOK
  <2>3. WayInv' /\ EntryInv'
    BY <1>1, <2>1, WayStays, EntryStays, Zenon DEF vars, IInv
  <2>4. AddInv' /\ HostInv' /\ LocalInv'
    BY <1>1, <2>1, Zenon DEF vars, IInv, AddInv, HostInv, LocalInv
  <2> QED BY <2>2, <2>3, <2>4, Zenon DEF IInv
<1>2. CASE Asking
  BY <1>2, AskFailsKeepsInv, AskKeepsInv, Zenon DEF Asking
<1>3. CASE \E h \in Hosts : HostThread(h) \/ ReadEntry(h) \/ ReadFails(h) \/ \E k \in Keys : Add(h, k)
  BY <1>3, DumpEntryKeepsInv, HostEndsKeepInv, DumpFailsKeepsInv, ReadEntryKeepsInv, ReadFailsKeepsInv, AddKeepsInv
     DEF HostThread
<1>4. CASE \E m \in live : ReadAdd(m)
  BY <1>4, ReadAddKeepsInv, Zenon
<1>5. CASE \E w \in Workers : Worker(w)
  BY <1>5, TakeKeepsInv, ApplyKeepsInv, Zenon DEF Worker
<1> QED BY <1>1, <1>2, <1>3, <1>4, <1>5, Zenon DEF Next

LEMMA InvComplete == IInv => TransferIsComplete
<1> SUFFICES ASSUME IInv PROVE TransferIsComplete
  BY Zenon
<1>1. ASSUME NEW h \in Hosts, host[h] \in {"callback", "done"}, h \notin failed, NEW k \in Keys
      PROVE  OnItsWay(h, k) \/ k \in restored[h]
  <2>1. PICK i \in 1 .. Len(DumpOrder) : DumpOrder[i] = k
    BY Sizes DEF Keys
  <2>2. dumped[h] = Len(DumpOrder)
    BY <1>1, Zenon DEF IInv, HostInv
  <2>3. k \in restored[h] \/ \E o \in From(h) : IsEntry(o, h, k)
    BY <1>1, <2>1, <2>2, Zenon DEF IInv, WayInv
  <2> QED BY <2>3, OnItsWayIs, Zenon DEF IInv
<1>2. ASSUME g_ping_up, asking # Exhausted
      PROVE  \E h \in Hosts : /\ host[h] = "done"
                              /\ h \in failed \/ \A k \in Keys : OnItsWay(h, k) \/ k \in restored[h]
  <2>1. PICK h \in Hosts : host[h] = "done"
    BY <1>2, Zenon DEF IInv, HostInv
  <2>2. h \in failed \/ \A k \in Keys : OnItsWay(h, k) \/ k \in restored[h]
    BY <1>1, <2>1, Zenon
  <2> QED BY <2>1, <2>2, Zenon
<1>3. ASSUME NEW h \in Hosts, NEW k \in Keys, host[h] \in {"callback", "done"}, h \notin failed,
             k \notin disturbed[h], ~OnItsWay(h, k), \A i \in Hosts \ {h} : host[i] = "idle"
      PROVE  local[k] = db[h][k]
  <2>1. k \in restored[h]
    BY <1>1, <1>3, Zenon
  <2> QED BY <1>3, <2>1, Zenon DEF IInv, LocalInv
<1>4. TypeOK
  BY Zenon DEF IInv
<1> QED BY <1>2, <1>3, <1>4, Zenon DEF TransferIsComplete

\* Whatever the number of hosts, keys, workers and additions: when the server
\* answers pings because a host called back (parseSyncDoneCmd), everything that
\* host dumped has been put into the local DB or is on its way, unless its
\* transfer failed; and what nobody added to meanwhile has the host's count.
THEOREM WarmUpComplete == Spec => []TransferIsComplete
<1>1. Init => IInv
  BY InitInv, Zenon
<1>2. IInv /\ [Next]_vars => IInv'
  BY NextInv, Zenon
<1>3. IInv => TransferIsComplete
  BY InvComplete, Zenon
<1> QED BY <1>1, <1>2, <1>3, PTL DEF Spec

-----------------------------------------------------------------------------
(***************************************************************************)
(* The start of a daemon for any configuration and any number of contexts: *)
(* what the file asks for is on its way, from the call that asks for it    *)
(* through the launches of main to the thread that serves it.              *)
(***************************************************************************)

\* The calls of the file that are made in the global state, and what they do.
Wanted(i) == i \in DOMAIN started.config /\ Outcome(started.config[i], 0) = "done"
Asks(i) == Does(started.config[i])

\* main has left setupLua, and has not given up.
Beyond == {"fork", "services", "todo", "wait", "ready"}

\* Call i has been made in the global state.
Passed(i) == phase \in Beyond \/ (phase = "setup" /\ (state > 0 \/ i < line))

Launches == Seq(Launched \X Nat)

SetupTypes == SetupTypeOK /\ started \in Starts /\ work \in Launches /\ todo \in Launches

StageInv ==
    /\ phase = "start" => pool = 0 /\ state = 0 /\ line = 1 /\ running = {} /\ launchWork = "null"
    /\ phase = "setup" => launchWork = "vector"
    /\ phase = "setup" /\ state > 0 => ~asClient
    /\ phase = "setup" /\ daemonStarted = "trackalert" /\ ~asClient => pool > 0
    /\ phase \in Beyond => launchWork # "vector" /\ ~asClient
    /\ phase \in {"todo", "wait", "ready"} => commands
    /\ (\E r \in running : r[1] \in Launched) => phase \in {"todo", "wait", "ready", "exited"} /\ commands

\* A listener is in the vector of launches, then with main, then it runs.
ListenerInv ==
    \A i : Wanted(i) /\ Asks(i) \in Launched /\ Passed(i) /\ ~asClient =>
        IF phase = "setup" /\ state = 0 THEN \E j \in DOMAIN work : work[j] = <<Asks(i), i>>
        ELSE IsUp(Asks(i), i) \/ (phase \notin {"wait", "ready"} /\ \E j \in DOMAIN todo : todo[j] = <<Asks(i), i>>)

StatsInv ==
    \A i : Wanted(i) /\ Asks(i) = "db" /\ Passed(i) =>
        i \in dbs /\ (phase \in {"todo", "wait", "ready"} => IsUp("expire", i))

SendersInv ==
    \A i : Wanted(i) /\ Asks(i) = "sibling" /\ Passed(i) /\ ~asClient /\ started.mode # "daemon" => IsUp("sibling", i)

SetupInv == SetupTypes /\ StageInv /\ ListenerInv /\ StatsInv /\ SendersInv

-----------------------------------------------------------------------------
(***************************************************************************)
(* The tables of Lua functions. No listener is half made by arguments that *)
(* cannot be parsed, the number of contexts is set in the global state     *)
(* only, setACL works there or throws, and only wforce has stats databases.*)
(***************************************************************************)

RegularRow(w, d, b) ==
    /\ w \in {"config", "server", "worker", "both", "shared", "global", "client"}
    /\ b \in {"never", "ignored", "throws", "half"}
    /\ b = "half" => d \notin Launched
    /\ d = "states" => w = "config"
    /\ d = "setACL" => w \in {"config", "both"} /\ b = "throws"

Regular(t) == \A n \in DOMAIN t : RegularRow(t[n].where, t[n].does, t[n].bad)
NoStats(t) == \A n \in DOMAIN t : t[n].does # "db"

LEMMA RowFacts ==
    ASSUME NEW w, NEW d, NEW b, NEW N
    PROVE  /\ RegularRow(w, d, b) => Regular(Row(w, d, b, N))
           /\ d # "db" => NoStats(Row(w, d, b, N))
<1> DEFINE r == [where |-> w, does |-> d, bad |-> b]
<1>1. r.where = w /\ r.does = d /\ r.bad = b
  BY Zenon
<1>2. Row(w, d, b, N) = [n \in N |-> r]
  BY Zenon DEF Row
<1> HIDE DEF r
<1>3. \A n \in N : Row(w, d, b, N)[n] = r
  BY <1>2, Zenon
<1>4. DOMAIN Row(w, d, b, N) = N
  BY <1>2, Zenon
<1> QED BY <1>1, <1>3, <1>4, Zenon DEF Regular, NoStats

LEMMA TableFacts ==
    ASSUME NEW P
    PROVE  /\ (\A t \in P : Regular(t)) => Regular(Table(P))
           /\ (\A t \in P : NoStats(t)) => NoStats(Table(P))
<1>1. ASSUME NEW n \in DOMAIN Table(P) PROVE \E t \in P : n \in DOMAIN t /\ Table(P)[n] = t[n]
  <2>1. n \in UNION {DOMAIN t : t \in P}
    BY Zenon DEF Table
  <2>2. \E t \in P : n \in DOMAIN t
    BY <2>1, Zenon
  <2>3. Table(P)[n] = (CHOOSE t \in P : n \in DOMAIN t)[n]
    BY <2>1, Zenon DEF Table
  <2> QED BY <2>2, <2>3, Zenon
<1> QED BY <1>1, Zenon DEF Regular, NoStats

LEMMA CommonLuaFacts == /\ Regular(CommonLua) /\ NoStats(CommonLua)
                        /\ Regular(WforceCommonLua) /\ NoStats(WforceCommonLua)
<1>1. Regular(serverFunctions) /\ NoStats(serverFunctions)
  BY RowFacts, TableFacts, SMT DEF RegularRow, Launched, serverFunctions
<1>2. Regular(objectFunctions) /\ NoStats(objectFunctions)
  BY RowFacts, TableFacts, SMT DEF RegularRow, Launched, objectFunctions
<1>3. Regular(statFunctions) /\ NoStats(statFunctions)
  BY RowFacts, TableFacts, SMT DEF RegularRow, Launched, statFunctions
<1>4. Regular(hookFunctions) /\ NoStats(hookFunctions)
  BY RowFacts, TableFacts, SMT DEF RegularRow, Launched, hookFunctions
<1>5. Regular(geoipFunctions) /\ NoStats(geoipFunctions)
  BY RowFacts, TableFacts, SMT DEF RegularRow, Launched, geoipFunctions
<1>6. Regular(listenFunctions) /\ NoStats(listenFunctions)
  BY RowFacts, TableFacts, SMT DEF RegularRow, Launched, listenFunctions
<1>7. Regular(curlFunctions) /\ NoStats(curlFunctions)
  BY RowFacts, Zenon DEF RegularRow, Launched, curlFunctions
<1>8. Regular(CommonLua) /\ NoStats(CommonLua)
  BY <1>1, <1>2, <1>3, <1>4, <1>5, TableFacts, Zenon DEF CommonLua
<1> QED BY <1>6, <1>7, <1>8, TableFacts, Zenon DEF WforceCommonLua
LEMMA WforceLuaFacts == Regular(WforceLua)
<1>1. Regular(ja3Functions) /\ Regular(reportSinkFunctions)
  BY RowFacts, SMT DEF RegularRow, Launched, ja3Functions, reportSinkFunctions
<1>2. Regular(syncFunctions)
  BY RowFacts, TableFacts, SMT DEF RegularRow, Launched, syncFunctions
<1>3. Regular(siblingFunctions) /\ Regular(webFunctions)
  BY RowFacts, TableFacts, SMT DEF RegularRow, Launched, siblingFunctions, webFunctions
<1>4. Regular(dnsFunctions) /\ Regular(statsDBFunctions)
  BY RowFacts, TableFacts, SMT DEF RegularRow, Launched, dnsFunctions, statsDBFunctions
<1>5. Regular(blacklistFunctions) /\ Regular(blacklistPersistFunctions)
  BY RowFacts, TableFacts, SMT DEF RegularRow, Launched, blacklistFunctions, blacklistPersistFunctions
<1>6. Regular(whitelistFunctions) /\ Regular(whitelistPersistFunctions)
  BY RowFacts, TableFacts, SMT DEF RegularRow, Launched, whitelistFunctions, whitelistPersistFunctions
<1>7. Regular(callbackFunctions) /\ Regular(endpointFunctions)
  BY RowFacts, TableFacts, SMT DEF RegularRow, Launched, callbackFunctions, endpointFunctions
<1>8. Regular(webHookFunctions) /\ Regular(keyFunctions)
  BY RowFacts, TableFacts, SMT DEF RegularRow, Launched, webHookFunctions, keyFunctions
<1> QED BY <1>1, <1>2, <1>3, <1>4, <1>5, <1>6, <1>7, <1>8, CommonLuaFacts, TableFacts, SMT DEF WforceLua

LEMMA OtherLuaFacts == /\ Regular(TrackalertLua) /\ NoStats(TrackalertLua)
                       /\ Regular(ReplfwdLua) /\ NoStats(ReplfwdLua)
<1>1. Regular(trackalertServerFunctions) /\ NoStats(trackalertServerFunctions)
  BY RowFacts, TableFacts, SMT DEF RegularRow, Launched, trackalertServerFunctions
<1>2. Regular(backgroundFunctions) /\ NoStats(backgroundFunctions)
  BY RowFacts, TableFacts, SMT DEF RegularRow, Launched, backgroundFunctions
<1>3. Regular(trackalertEndpointFunctions) /\ NoStats(trackalertEndpointFunctions)
  BY RowFacts, TableFacts, SMT DEF RegularRow, Launched, trackalertEndpointFunctions
<1>4. Regular(TrackalertLua) /\ NoStats(TrackalertLua)
  BY <1>1, <1>2, <1>3, CommonLuaFacts, TableFacts, SMT DEF TrackalertLua
<1>5. Regular(replfwdSiblingFunctions) /\ NoStats(replfwdSiblingFunctions)
  BY RowFacts, TableFacts, SMT DEF RegularRow, Launched, replfwdSiblingFunctions
<1>6. Regular(replfwdListenFunctions) /\ NoStats(replfwdListenFunctions)
  BY RowFacts, TableFacts, SMT DEF RegularRow, Launched, replfwdListenFunctions
<1> QED BY <1>4, <1>5, <1>6, TableFacts, SMT DEF ReplfwdLua

-----------------------------------------------------------------------------
(***************************************************************************)
(* A start, and a call.                                                    *)
(***************************************************************************)

LEMMA StartFacts ==
    ASSUME started \in Starts
    PROVE  /\ daemonStarted \in Daemons /\ started.mode \in Modes /\ (daemonStarted = "replfwd" => ~asClient)
           /\ Len(started.config) \in Nat /\ DOMAIN started.config = 1 .. Len(started.config)
           /\ DefaultStates \in Nat \ {0} /\ OtherStates \in Nat \ {0} /\ MaxLines \in Nat
<1>1. /\ started.daemon \in Daemons /\ started.mode \in Modes /\ (started.daemon = "replfwd" => started.mode # "client")
      /\ started.config \in Seq(Calls)
      /\ DefaultStates \in Nat \ {0} /\ OtherStates \in Nat \ {0} /\ MaxLines \in Nat
  BY SetupAssumption, Zenon
<1>2. Len(started.config) \in Nat /\ DOMAIN started.config = 1 .. Len(started.config)
  BY <1>1
<1> QED BY <1>1, <1>2, Zenon DEF daemonStarted, asClient

LEMMA CallFacts ==
    ASSUME started \in Starts, NEW c, NEW s, Outcome(c, s) \in {"done", "half"}
    PROVE  /\ Does(c) = "db" => daemonStarted = "wforce"
           /\ Outcome(c, s) = "half" => Does(c) \notin Launched
<1> DEFINE t == LuaFunctions(daemonStarted)
<1>1. BoundTo(c, s) # "undefined" /\ BoundTo(c, s) # "empty" /\ (Outcome(c, s) = "half" => t[c.fn].bad = "half")
  <2>1. BoundTo(c, s) # "undefined"
    BY Zenon DEF Outcome
  <2>2. BoundTo(c, s) # "empty"
    BY <2>1, Zenon DEF Outcome
  <2> QED BY <2>1, <2>2, Zenon DEF Outcome
<1>2. c.fn \in DOMAIN t
  BY <1>1, Zenon DEF BoundTo, IsBound
<1>3. daemonStarted \in {"wforce", "trackalert", "replfwd"}
  BY StartFacts, Zenon DEF Daemons
<1>4. t = CASE daemonStarted = "wforce" -> WforceLua [] daemonStarted = "trackalert" -> TrackalertLua
            [] daemonStarted = "replfwd" -> ReplfwdLua
  BY Zenon DEF LuaFunctions
<1>5. Does(c) = t[c.fn].does
  BY Zenon DEF Does
<1> HIDE DEF t
<1>6. Regular(t)
  BY <1>3, <1>4, WforceLuaFacts, OtherLuaFacts, Zenon
<1>7. daemonStarted # "wforce" => NoStats(t)
  BY <1>3, <1>4, OtherLuaFacts, Zenon
<1> QED BY <1>1, <1>2, <1>5, <1>6, <1>7, Zenon DEF Regular, RegularRow, NoStats

\* A call that does not throw is effective where the comment on setupLua says.
Meant(s, c) == IF s = 0 THEN ForGlobal(c) ELSE ForContexts(c)

LEMMA OutcomeFacts ==
    ASSUME started \in Starts, ~asClient, NEW c, NEW s \in Nat, Outcome(c, s) # "throws"
    PROVE  /\ Outcome(c, s) \in {"done", "half", "ignored"}
           /\ Outcome(c, s) \in {"done", "half"} <=> Meant(s, c)
           /\ Does(c) = "setACL" /\ s = 0 => Outcome(c, s) = "done"
           /\ Does(c) = "states" /\ s # 0 => Outcome(c, s) = "ignored"
<1> DEFINE t == LuaFunctions(daemonStarted)
           w == t[c.fn].where
           b == t[c.fn].bad
<1>1. BoundTo(c, s) # "undefined"
  BY Zenon DEF Outcome
<1>2. c.fn \in DOMAIN t /\ BoundTo(c, s) = Binding(w, FALSE, s > 0)
  <2>1. asClient = FALSE
    BY DEF asClient
  <2>2. BoundTo(c, s) = IF c.fn \in DOMAIN t THEN Binding(w, asClient, s > 0) ELSE "undefined"
    BY Zenon DEF BoundTo, IsBound
  <2> QED BY <1>1, <2>1, <2>2, Zenon
<1>3. Regular(t)
  <2>1. daemonStarted \in {"wforce", "trackalert", "replfwd"}
    BY StartFacts, Zenon DEF Daemons
  <2>2. t = CASE daemonStarted = "wforce" -> WforceLua [] daemonStarted = "trackalert" -> TrackalertLua
              [] daemonStarted = "replfwd" -> ReplfwdLua
    BY Zenon DEF LuaFunctions
  <2> HIDE DEF t
  <2> QED BY <2>1, <2>2, WforceLuaFacts, OtherLuaFacts, Zenon
<1>4. RegularRow(w, Does(c), b)
  BY <1>2, <1>3, Zenon DEF Regular, Does
<1>5. Outcome(c, s) = IF BoundTo(c, s) = "empty" THEN "ignored" ELSE IF c.arg = "bad" /\ b # "never" THEN b ELSE "done"
  <2>1. CASE BoundTo(c, s) = "empty"
    BY <1>1, <2>1, Zenon DEF Outcome
  <2>2. CASE BoundTo(c, s) # "empty"
    BY <1>1, <2>2, Zenon DEF Outcome
  <2> QED BY <2>1, <2>2, Zenon
<1>6. /\ ForGlobal(c) <=> w # "worker" /\ ~(c.arg = "bad" /\ b = "ignored")
      /\ ForContexts(c) <=> w \in {"worker", "both", "shared"} /\ ~(c.arg = "bad" /\ b = "ignored")
  BY Zenon DEF ForGlobal, ForContexts
<1>7. s > 0 <=> s # 0
  OBVIOUS
<1> HIDE DEF t, w, b
<1>8. s = 0 => Binding(w, FALSE, s > 0) \in {"undefined", IF w = "worker" THEN "empty" ELSE "real"}
  BY <1>4, <1>7, Zenon DEF RegularRow, Binding
<1>9. s # 0 => Binding(w, FALSE, s > 0) \in {"undefined", IF w \in {"worker", "both", "shared"} THEN "real" ELSE "empty"}
  BY <1>4, <1>7, Zenon DEF RegularRow, Binding
<1>10. BoundTo(c, s) = IF s = 0 THEN (IF w = "worker" THEN "empty" ELSE "real")
                       ELSE (IF w \in {"worker", "both", "shared"} THEN "real" ELSE "empty")
  BY <1>1, <1>2, <1>8, <1>9, Zenon
<1>11. Outcome(c, s) \in {"done", "half", "ignored"}
  BY <1>4, <1>5, Zenon DEF RegularRow
<1>12. Outcome(c, s) \in {"done", "half"} <=> Meant(s, c)
  <2>1. Outcome(c, s) \in {"done", "half"} <=> BoundTo(c, s) # "empty" /\ ~(c.arg = "bad" /\ b = "ignored")
    BY <1>4, <1>5, <1>11, Zenon DEF RegularRow
  <2> QED BY <1>6, <1>10, <2>1, Zenon DEF Meant
<1>13. Does(c) = "setACL" /\ s = 0 => Outcome(c, s) = "done"
  BY <1>4, <1>5, <1>10, Zenon DEF RegularRow
<1>14. Does(c) = "states" /\ s # 0 => Outcome(c, s) = "ignored"
  BY <1>4, <1>5, <1>10, Zenon DEF RegularRow
<1> QED BY <1>11, <1>12, <1>13, <1>14, Zenon

\* Nothing of this depends on anything but what is started.
LEMMA SameStart ==
    ASSUME started' = started
    PROVE  /\ asClient' = asClient /\ daemonStarted' = daemonStarted
           /\ \A i : (Wanted(i)' <=> Wanted(i)) /\ Asks(i)' = Asks(i)
BY Zenon DEF asClient, daemonStarted, Wanted, Asks, Outcome, BoundTo, Does
\* What a call that is made for real adds to the launches, threads and databases.
LEMMA EffectFacts ==
    ASSUME work \in Launches, NEW c, NEW n \in Nat, Effect(c, n)
    PROVE  /\ work' \in Launches /\ \A j \in DOMAIN work : j \in DOMAIN work' /\ work'[j] = work[j]
           /\ IF Does(c) \in Launched /\ ~asClient THEN \E j \in DOMAIN work' : work'[j] = <<Does(c), n>>
              ELSE work' = work
           /\ \A r \in running : r \in running'
           /\ \A r \in running' : r \in running \/ r[1] = "sibling"
           /\ Does(c) = "sibling" /\ ~asClient => <<"sibling", n>> \in running'
           /\ dbs \subseteq dbs' /\ dbs' \subseteq dbs \union {n} /\ (Does(c) = "db" => n \in dbs')
           /\ acl \subseteq {"default", "own"} => acl' \subseteq {"default", "own"}
           /\ states \in {DefaultStates, OtherStates} => states' \in {DefaultStates, OtherStates}
<1>1. /\ dbs \subseteq dbs' /\ dbs' \subseteq dbs \union {n} /\ (Does(c) = "db" => n \in dbs')
      /\ acl \subseteq {"default", "own"} => acl' \subseteq {"default", "own"}
      /\ states \in {DefaultStates, OtherStates} => states' \in {DefaultStates, OtherStates}
  <2>1. dbs' = dbs \union (IF Does(c) = "db" THEN {n} ELSE {})
    BY Zenon DEF Effect
  <2>2. acl' = CASE Does(c) = "setACL" -> {"own"} [] Does(c) = "addACL" -> acl \union {"own"} [] OTHER -> acl
    BY Zenon DEF Effect
  <2>3. states' = IF Does(c) = "states" THEN OtherStates ELSE states
    BY Zenon DEF Effect
  <2>4. acl' \in {{"own"}, acl \union {"own"}, acl}
    BY <2>2, Zenon
  <2> QED BY <2>1, <2>3, <2>4, Zenon
<1>2. CASE Does(c) \in Launched /\ ~asClient
  <2> DEFINE e == <<Does(c), n>>
  <2>1. work' = Append(work, e) /\ running' = running /\ e \in Launched \X Nat /\ Does(c) # "sibling"
    BY <1>2, Zenon DEF Effect, launch, Launched
  <2> HIDE DEF e
  <2>2. /\ work' \in Launches /\ \A j \in DOMAIN work : j \in DOMAIN work' /\ work'[j] = work[j]
        /\ Len(work) + 1 \in DOMAIN work' /\ work'[Len(work) + 1] = e
    BY <2>1 DEF Launches
  <2> QED BY <1>1, <1>2, <2>1, <2>2, Zenon DEF e
<1>3. CASE ~(Does(c) \in Launched /\ ~asClient)
  <2>1. work' = work /\ running' = running \union (IF Does(c) = "sibling" /\ ~asClient THEN {<<"sibling", n>>} ELSE {})
    BY <1>3, Zenon DEF Effect
  <2>2. <<"sibling", n>>[1] = "sibling"
    OBVIOUS
  <2> QED BY <1>1, <1>3, <2>1, <2>2, Zenon
<1> QED BY <1>2, <1>3, Zenon

\* Giving up breaks nothing.
LEMMA Exits ==
    ASSUME SetupInv, phase' = "exited",
           UNCHANGED <<started, state, line, states, pool, launchWork, work, todo, acl, dbs, commands, running>>,
           typed' \in 0 .. MaxLines
    PROVE  SetupInv'
<1>1. \A i : ~Passed(i)'
  BY Zenon DEF Passed, Beyond
<1>2. SetupTypes'
  BY Zenon DEF SetupInv, SetupTypes, SetupTypeOK
<1>3. StageInv'
  BY Zenon DEF SetupInv, StageInv, Beyond
<1> QED BY <1>1, <1>2, <1>3, Zenon DEF SetupInv, ListenerInv, StatsInv, SendersInv

\* A step that only moves main on, with at least the threads that there were.
LEMMA MovesOn ==
    ASSUME SetupInv, UNCHANGED <<started, todo>>, \A i : Wanted(i) /\ Passed(i)' => Passed(i),
           ~(phase = "setup" /\ state = 0), ~(phase' = "setup" /\ state' = 0),
           dbs \subseteq dbs', \A r \in running : r \in running',
           phase' \in {"wait", "ready"} => phase \in {"wait", "ready"} \/ todo = <<>>,
           phase' \in {"todo", "wait", "ready"} /\ phase \notin {"todo", "wait", "ready"} =>
               \A i \in dbs : daemonStarted = "wforce" => <<"expire", i>> \in running'
    PROVE  ListenerInv' /\ StatsInv' /\ SendersInv'
<1>1. /\ asClient' = asClient
      /\ \A i : (Wanted(i)' <=> Wanted(i)) /\ Asks(i)' = Asks(i)
  BY SameStart, Zenon
<1>2. \A k, i : IsUp(k, i) => IsUp(k, i)'
  BY Zenon DEF IsUp
<1>3. ASSUME NEW i, Wanted(i), Asks(i) \in Launched, Passed(i)', ~asClient
      PROVE  \/ \E r \in running' : r[1] = Asks(i) /\ (r[2] = i \/ Asks(i) = "web")
             \/ phase' \notin {"wait", "ready"} /\ \E j \in DOMAIN todo' : todo'[j] = <<Asks(i), i>>
  <2>1. \/ \E r \in running : r[1] = Asks(i) /\ (r[2] = i \/ Asks(i) = "web")
        \/ phase \notin {"wait", "ready"} /\ \E j \in DOMAIN todo : todo[j] = <<Asks(i), i>>
    BY <1>3, Zenon DEF SetupInv, ListenerInv, IsUp
  <2>2. (\E j \in DOMAIN todo : todo[j] = <<Asks(i), i>>) => todo # <<>>
    <3>1. DOMAIN <<>> = {}
      OBVIOUS
    <3> QED BY <3>1, Zenon
  <2> QED BY <2>1, <2>2, Zenon
<1>4. ListenerInv'
  BY <1>1, <1>3, Zenon DEF ListenerInv, IsUp
<1>5. SendersInv'
  BY <1>1, <1>2, Zenon DEF SetupInv, SendersInv
<1>6. StatsInv'
  <2> SUFFICES ASSUME NEW i, Wanted(i), Asks(i) = "db", Passed(i)'
               PROVE  i \in dbs' /\ (phase' \in {"todo", "wait", "ready"} => IsUp("expire", i)')
    BY <1>1, Zenon DEF StatsInv
  <2>1. i \in dbs /\ (phase \in {"todo", "wait", "ready"} => IsUp("expire", i))
    BY Zenon DEF SetupInv, StatsInv
  <2>2. daemonStarted = "wforce"
    <3>1. started \in Starts /\ Outcome(started.config[i], 0) \in {"done", "half"} /\ Does(started.config[i]) = "db"
      BY Zenon DEF SetupInv, SetupTypes, Wanted, Asks
    <3> QED BY <3>1, CallFacts, SMT
  <2>3. <<"expire", i>> \in running' => IsUp("expire", i)'
    <3>1. <<"expire", i>>[1] = "expire" /\ <<"expire", i>>[2] = i
      OBVIOUS
    <3> QED BY <3>1, Zenon DEF IsUp
  <2> QED BY <1>2, <2>1, <2>2, <2>3, Zenon
<1> QED BY <1>4, <1>5, <1>6, Zenon
-----------------------------------------------------------------------------
(***************************************************************************)
(* The steps of main.                                                      *)
(***************************************************************************)

LEMMA Begins ==
    ASSUME SetupInv, phase = "start", phase' = "setup", launchWork' = "vector",
           UNCHANGED <<started, state, line, states, work, todo, dbs, commands, typed>>,
           acl' \subseteq {"default", "own"}, pool' \in {0, DefaultStates, OtherStates},
           running' \subseteq {<<"scheduler", 0>>},
           daemonStarted = "trackalert" /\ ~asClient => pool' = states
    PROVE  SetupInv'
<1>1. /\ state = 0 /\ line = 1 /\ started \in Starts /\ states \in {DefaultStates, OtherStates}
      /\ asClient' = asClient /\ daemonStarted' = daemonStarted
      /\ \A i : (Wanted(i)' <=> Wanted(i))
  BY SameStart, Zenon DEF SetupInv, SetupTypes, SetupTypeOK, StageInv
<1>2. \A i : Wanted(i) => ~Passed(i)'
  <2>1. \A i \in 1 .. Len(started.config) : ~(i < 1)
    BY <1>1, StartFacts, SMT
  <2>2. ~(0 > 0)
    OBVIOUS
  <2> QED BY <1>1, <2>1, <2>2, StartFacts, Zenon DEF Passed, Wanted, Beyond
<1>3. \A r \in running' : r[1] = "scheduler"
  <2>1. <<"scheduler", 0>>[1] = "scheduler"
    OBVIOUS
  <2> QED BY <2>1, Zenon
<1>4. SetupTypes'
  <2>1. state' \in 0 .. pool'
    BY <1>1, StartFacts, SMT
  <2> QED BY <1>3, <2>1, Zenon DEF SetupInv, SetupTypes, SetupTypeOK, Services
<1>5. StageInv'
  <2>1. pool' = states => pool' > 0
    BY <1>1, StartFacts, SMT
  <2>2. ~(0 > 0)
    OBVIOUS
  <2> QED BY <1>1, <1>3, <2>1, <2>2, Zenon DEF StageInv, Launched, Beyond
<1> QED BY <1>1, <1>2, <1>4, <1>5, Zenon DEF SetupInv, ListenerInv, StatsInv, SendersInv

LEMMA beginsSetup ==
    ASSUME SetupInv, beginWforce \/ beginReplfwd \/ beginTrackalert
    PROVE  SetupInv'
<1>1. /\ phase = "start" => running = {} /\ pool = 0
      /\ states \in {DefaultStates, OtherStates} /\ acl \subseteq {"default", "own"}
  BY Zenon DEF SetupInv, SetupTypes, SetupTypeOK, StageInv
<1>2. CASE beginWforce \/ beginReplfwd
  <2>1. /\ phase = "start" /\ phase' = "setup" /\ launchWork' = "vector" /\ daemonStarted # "trackalert"
        /\ UNCHANGED <<started, state, line, states, work, todo, dbs, commands, typed, pool, running>>
        /\ acl' \subseteq {"default", "own"}
    BY <1>1, <1>2, Zenon DEF beginWforce, beginReplfwd
  <2> QED BY <1>1, <2>1, Begins, Zenon
<1>3. CASE beginTrackalert
  <2>1. /\ phase = "start" /\ phase' = "setup" /\ launchWork' = "vector" /\ acl' = acl
        /\ UNCHANGED <<started, state, line, states, work, todo, dbs, commands, typed>>
        /\ running' = {<<"scheduler", 0>>} /\ pool' = IF asClient THEN 0 ELSE states
    BY <1>3, Zenon DEF beginTrackalert
  <2> QED BY <1>1, <2>1, Begins, Zenon
<1> QED BY <1>2, <1>3, Zenon

\* The next call of the file has been made.
LEMMA Executes ==
    ASSUME SetupInv, phase = "setup", line <= Len(started.config), line' = line + 1,
           UNCHANGED <<started, phase, state, pool, launchWork, todo, commands, typed>>,
           work' \in Launches, \A j \in DOMAIN work : j \in DOMAIN work' /\ work'[j] = work[j],
           \A r \in running : r \in running', \A r \in running' : r \in running \/ r[1] = "sibling",
           dbs \subseteq dbs', dbs' \subseteq dbs \union {line},
           acl' \subseteq {"default", "own"}, states' \in {DefaultStates, OtherStates},
           state = 0 /\ Wanted(line) =>
               /\ Asks(line) \in Launched /\ ~asClient => \E j \in DOMAIN work' : work'[j] = <<Asks(line), line>>
               /\ Asks(line) = "db" => line \in dbs'
               /\ Asks(line) = "sibling" /\ ~asClient => <<"sibling", line>> \in running'
    PROVE  SetupInv'
<1>1. /\ started \in Starts /\ asClient' = asClient /\ daemonStarted' = daemonStarted
      /\ \A i : (Wanted(i)' <=> Wanted(i)) /\ Asks(i)' = Asks(i)
      /\ line \in 1 .. Len(started.config) + 1 /\ state \in 0 .. pool /\ launchWork = "vector"
      /\ pool \in {0, DefaultStates, OtherStates}
  BY SameStart, Zenon DEF SetupInv, SetupTypes, SetupTypeOK, StageInv
<1>2. line' \in 1 .. Len(started.config) + 1 /\ line \in 1 .. Len(started.config) + MaxLines
  BY <1>1, StartFacts, SMT
<1>3. ASSUME NEW i, Wanted(i), Passed(i)' PROVE Passed(i) \/ (i = line /\ state = 0)
  <2>1. i \in 1 .. Len(started.config)
    BY <1>1, <1>3, StartFacts, Zenon DEF Wanted
  <2>2. i < line + 1 => i < line \/ i = line
    BY <1>1, <2>1, StartFacts, SMT
  <2>3. state > 0 \/ state = 0
    BY <1>1, StartFacts, SMT
  <2> QED BY <1>3, <2>2, <2>3, Zenon DEF Passed, Beyond
<1>4. SetupTypes'
  <2>1. dbs' \subseteq 1 .. Len(started'.config) + MaxLines
    BY <1>2, Zenon DEF SetupInv, SetupTypes, SetupTypeOK
  <2>2. \A j \in DOMAIN work' : work'[j][1] \in Launched
    BY DEF Launches
  <2> QED BY <1>1, <1>2, <2>1, <2>2, Zenon DEF SetupInv, SetupTypes, SetupTypeOK
<1>5. StageInv'
  <2>1. (\E r \in running' : r[1] \in Launched) => \E r \in running : r[1] \in Launched
    BY Zenon DEF Launched
  <2> QED BY <1>1, <2>1, Zenon DEF SetupInv, StageInv, Beyond
<1>6. ListenerInv'
  <2> SUFFICES ASSUME NEW i, Wanted(i), Asks(i) \in Launched, Passed(i)', ~asClient
               PROVE  IF state = 0 THEN \E j \in DOMAIN work' : work'[j] = <<Asks(i), i>>
                      ELSE \/ \E r \in running' : r[1] = Asks(i) /\ (r[2] = i \/ Asks(i) = "web")
                           \/ \E j \in DOMAIN todo : todo[j] = <<Asks(i), i>>
    BY <1>1, Zenon DEF ListenerInv, IsUp
  <2>1. CASE Passed(i)
    <3>1. IF state = 0 THEN \E j \in DOMAIN work : work[j] = <<Asks(i), i>>
          ELSE \/ \E r \in running : r[1] = Asks(i) /\ (r[2] = i \/ Asks(i) = "web")
               \/ \E j \in DOMAIN todo : todo[j] = <<Asks(i), i>>
      BY <2>1, Zenon DEF SetupInv, ListenerInv, IsUp
    <3> QED BY <3>1, Zenon
  <2>2. CASE i = line /\ state = 0
    BY <2>2, Zenon
  <2> QED BY <1>3, <2>1, <2>2, Zenon
<1>7. StatsInv'
  <2> SUFFICES ASSUME NEW i, Wanted(i), Asks(i) = "db", Passed(i)' PROVE i \in dbs'
    BY <1>1, Zenon DEF StatsInv
  <2>1. CASE Passed(i)
    BY <2>1, Zenon DEF SetupInv, StatsInv
  <2> QED BY <1>3, <2>1, Zenon
<1>8. SendersInv'
  <2> SUFFICES ASSUME NEW i, Wanted(i), Asks(i) = "sibling", Passed(i)', ~asClient, started.mode # "daemon"
               PROVE  \E r \in running' : r[1] = "sibling" /\ r[2] = i
    BY <1>1, Zenon DEF SendersInv, IsUp
  <2>1. CASE Passed(i)
    <3>1. \E r \in running : r[1] = "sibling" /\ r[2] = i
      BY <2>1, Zenon DEF SetupInv, SendersInv, IsUp
    <3> QED BY <3>1, Zenon
  <2>2. <<"sibling", line>>[1] = "sibling" /\ <<"sibling", line>>[2] = line
    OBVIOUS
  <2> QED BY <1>3, <2>1, <2>2, Zenon
<1> QED BY <1>4, <1>5, <1>6, <1>7, <1>8, Zenon DEF SetupInv
LEMMA executeSetup ==
    ASSUME SetupInv, executeCode \/ executeNothing
    PROVE  SetupInv'
<1>1. /\ started \in Starts /\ line \in 1 .. Len(started.config) + 1 /\ work \in Launches
      /\ acl \subseteq {"default", "own"} /\ states \in {DefaultStates, OtherStates}
  BY Zenon DEF SetupInv, SetupTypes, SetupTypeOK
<1>2. line \in Nat
  BY <1>1, StartFacts, SMT
<1>3. CASE executeCode
  <2> DEFINE c == started.config[line]
  <2>1. /\ phase = "setup" /\ line <= Len(started.config) /\ line' = line + 1 /\ Effect(c, line)
        /\ UNCHANGED <<started, phase, state, pool, launchWork, todo, commands, typed>>
    BY <1>3, Zenon DEF executeCode
  <2>2. Asks(line) = Does(c)
    BY Zenon DEF Asks
  <2> HIDE DEF c
  <2>3. /\ work' \in Launches /\ \A j \in DOMAIN work : j \in DOMAIN work' /\ work'[j] = work[j]
        /\ \A r \in running : r \in running'
        /\ \A r \in running' : r \in running \/ r[1] = "sibling"
        /\ dbs \subseteq dbs' /\ dbs' \subseteq dbs \union {line}
        /\ acl' \subseteq {"default", "own"} /\ states' \in {DefaultStates, OtherStates}
        /\ Asks(line) \in Launched /\ ~asClient => \E j \in DOMAIN work' : work'[j] = <<Asks(line), line>>
        /\ Asks(line) = "db" => line \in dbs'
        /\ Asks(line) = "sibling" /\ ~asClient => <<"sibling", line>> \in running'
    BY <1>1, <1>2, <2>1, <2>2, EffectFacts, SMT
  <2> QED BY <2>1, <2>3, Executes, Zenon
<1>4. CASE executeNothing
  <2>1. /\ phase = "setup" /\ line <= Len(started.config) /\ line' = line + 1
        /\ UNCHANGED <<started, phase, state, states, pool, launchWork, work, todo, acl, dbs, commands, running, typed>>
        /\ ~(state = 0 /\ Wanted(line))
    BY <1>4, Zenon DEF executeNothing, Wanted
  <2> QED BY <1>1, <2>1, Executes, Zenon
<1> QED BY <1>3, <1>4, Zenon

LEMMA exitsSetup ==
    ASSUME SetupInv, noRegexes \/ executeExits \/ controlSocketExits \/ noPersistEntries
    PROVE  SetupInv'
<1>1. /\ phase' = "exited" /\ typed' = typed
      /\ UNCHANGED <<started, state, line, states, pool, launchWork, work, todo, acl, dbs, commands, running>>
  BY Zenon DEF noRegexes, executeExits, controlSocketExits, noPersistEntries
<1>2. typed' \in 0 .. MaxLines
  BY <1>1, Zenon DEF SetupInv, SetupTypes, SetupTypeOK
<1> QED BY <1>1, <1>2, Exits, Zenon

LEMMA globalDoneSetup ==
    ASSUME SetupInv, globalDone
    PROVE  SetupInv'
<1>1. /\ phase = "setup" /\ state = 0 /\ line > Len(started.config) /\ todo' = work /\ work' = <<>>
      /\ UNCHANGED <<started, states, acl, dbs, commands, running, typed>>
      /\ IF asClient \/ daemonStarted = "replfwd"
         THEN /\ phase' = IF asClient THEN "exited" ELSE "fork"
              /\ launchWork' = "null"
              /\ UNCHANGED <<state, line, pool>>
         ELSE /\ pool' = IF daemonStarted = "wforce" THEN states ELSE pool
              /\ state' = 1 /\ line' = 1 /\ launchWork' = "vector" /\ phase' = phase
  BY Zenon DEF globalDone
<1>2. /\ started \in Starts /\ asClient' = asClient /\ daemonStarted' = daemonStarted
      /\ \A i : (Wanted(i)' <=> Wanted(i)) /\ Asks(i)' = Asks(i)
      /\ line \in 1 .. Len(started.config) + 1 /\ work \in Launches /\ pool \in {0, DefaultStates, OtherStates}
      /\ states \in {DefaultStates, OtherStates} /\ daemonStarted \in Daemons
      /\ daemonStarted = "trackalert" /\ ~asClient => pool > 0
  BY <1>1, SameStart, StartFacts, Zenon DEF SetupInv, SetupTypes, SetupTypeOK, StageInv
<1>3. \A i : Wanted(i) => Passed(i)
  <2>1. \A i \in 1 .. Len(started.config) : i < line
    BY <1>1, <1>2, StartFacts, SMT
  <2> QED BY <1>1, <1>2, <2>1, StartFacts, Zenon DEF Passed, Wanted
<1>4. ~(phase' = "setup" /\ state' = 0) /\ (phase' = "setup" => state' > 0 /\ ~asClient /\ state' \in 0 .. pool' /\ pool' > 0)
  <2>1. ASSUME phase' = "setup" PROVE state' = 1 /\ ~asClient /\ (pool' = states \/ (pool' = pool /\ pool > 0))
    BY <1>1, <1>2, <2>1, Zenon DEF Daemons
  <2>2. pool' = states \/ (pool' = pool /\ pool > 0) => pool' \in Nat /\ pool' > 0
    BY <1>2, StartFacts, SMT
  <2>3. 1 # 0 /\ 1 > 0 /\ \A p \in Nat : p > 0 => 1 \in 0 .. p
    OBVIOUS
  <2> QED BY <2>1, <2>2, <2>3, Zenon
<1>5. SetupTypes'
  <2>1. state' \in 0 .. pool' /\ line' \in 1 .. Len(started.config) + 1
    <3>1. 1 \in 1 .. Len(started.config) + 1
      BY <1>2, StartFacts, SMT
    <3> QED BY <1>1, <1>2, <1>4, <3>1, Zenon DEF SetupInv, SetupTypes, SetupTypeOK
  <2>2. <<>> \in Launches /\ \A j \in DOMAIN <<>> : <<>>[j][1] \in Launched
    BY DEF Launches
  <2>3. phase' \in {"setup", "exited", "fork"} /\ launchWork' \in {"null", "vector"} /\ pool' \in {0, DefaultStates, OtherStates}
    BY <1>1, <1>2, Zenon
  <2> QED BY <1>1, <1>2, <2>1, <2>2, <2>3, Zenon DEF SetupInv, SetupTypes, SetupTypeOK
<1>6. StageInv'
  BY <1>1, <1>2, <1>4, Zenon DEF SetupInv, StageInv, Beyond
<1>7. ListenerInv'
  <2>1. \A i : Wanted(i) /\ Asks(i) \in Launched /\ ~asClient => \E j \in DOMAIN todo' : todo'[j] = <<Asks(i), i>>
    BY <1>1, <1>3, Zenon DEF SetupInv, ListenerInv
  <2>2. phase' \notin {"wait", "ready"}
    BY <1>1, Zenon
  <2> QED BY <1>2, <1>4, <2>1, <2>2, Zenon DEF ListenerInv
<1>8. StatsInv' /\ SendersInv'
  <2>1. phase' \notin {"todo", "wait", "ready"} /\ started' = started /\ dbs' = dbs /\ running' = running
    BY <1>1, Zenon
  <2>2. \A i : IsUp("sibling", i)' <=> IsUp("sibling", i)
    BY <2>1, Zenon DEF IsUp
  <2> QED BY <1>2, <1>3, <2>1, <2>2, Zenon DEF SetupInv, StatsInv, SendersInv
<1> QED BY <1>5, <1>6, <1>7, <1>8, Zenon DEF SetupInv
LEMMA contextDoneSetup ==
    ASSUME SetupInv, contextDone
    PROVE  SetupInv'
<1>1. /\ phase = "setup" /\ state > 0 /\ work' = <<>>
      /\ UNCHANGED <<started, states, pool, todo, acl, dbs, commands, running, typed>>
      /\ \/ state < pool /\ state' = state + 1 /\ line' = 1 /\ launchWork' = "vector" /\ phase' = "setup"
         \/ phase' = "fork" /\ launchWork' = "left" /\ UNCHANGED <<state, line>>
  BY Zenon DEF contextDone
<1>2. /\ started \in Starts /\ asClient' = asClient /\ daemonStarted' = daemonStarted /\ ~asClient
      /\ state \in 0 .. pool /\ pool \in {0, DefaultStates, OtherStates}
  BY <1>1, SameStart, Zenon DEF SetupInv, SetupTypes, SetupTypeOK, StageInv
<1>3. state # 0 /\ (state < pool => state + 1 \in 0 .. pool /\ state + 1 > 0 /\ state + 1 # 0) /\ pool > 0
  BY <1>1, <1>2, StartFacts, SMT
<1>4. SetupTypes'
  <2>1. <<>> \in Launches /\ \A j \in DOMAIN <<>> : <<>>[j][1] \in Launched
    BY DEF Launches
  <2>2. 1 \in 1 .. Len(started.config) + 1
    BY <1>2, StartFacts, SMT
  <2> QED BY <1>1, <1>3, <2>1, <2>2, Zenon DEF SetupInv, SetupTypes, SetupTypeOK
<1>5. StageInv'
  BY <1>1, <1>2, <1>3, Zenon DEF SetupInv, StageInv, Beyond
<1>6. ListenerInv' /\ StatsInv' /\ SendersInv'
  <2>1. \A i : Passed(i)
    BY <1>1, Zenon DEF Passed
  <2>2. ~(phase' = "setup" /\ state' = 0) /\ phase' \notin {"todo", "wait", "ready"}
    BY <1>1, <1>3, Zenon
  <2> QED BY <1>1, <1>3, <2>1, <2>2, MovesOn, Zenon
<1> QED BY <1>4, <1>5, <1>6, Zenon DEF SetupInv

LEMMA daemonizeSetup ==
    ASSUME SetupInv, daemonize
    PROVE  SetupInv'
<1>1. /\ phase = "fork" /\ phase' = "services" /\ line' = 1
      /\ UNCHANGED <<started, state, states, pool, launchWork, work, todo, acl, dbs, commands, typed>>
      /\ running' = IF started.mode = "daemon" THEN {} ELSE running
  BY Zenon DEF daemonize
<1>2. /\ started \in Starts /\ asClient' = asClient /\ daemonStarted' = daemonStarted /\ ~asClient
      /\ \A i : (Wanted(i)' <=> Wanted(i)) /\ Asks(i)' = Asks(i)
      /\ \A r \in running : r[1] \notin Launched
  BY <1>1, SameStart, Zenon DEF SetupInv, SetupTypes, SetupTypeOK, StageInv, Beyond
<1>3. \A i : Passed(i)
  BY <1>1, Zenon DEF Passed, Beyond
<1>4. SetupTypes'
  <2>1. 1 \in 1 .. Len(started.config) + 1
    BY <1>2, StartFacts, SMT
  <2> QED BY <1>1, <2>1, Zenon DEF SetupInv, SetupTypes, SetupTypeOK
<1>5. StageInv'
  BY <1>1, <1>2, Zenon DEF SetupInv, StageInv, Beyond
<1>6. ListenerInv'
  <2>1. \A i : Wanted(i) /\ Asks(i) \in Launched => \E j \in DOMAIN todo' : todo'[j] = <<Asks(i), i>>
    BY <1>1, <1>2, <1>3, Zenon DEF SetupInv, ListenerInv, IsUp
  <2> QED BY <1>1, <1>2, <2>1, Zenon DEF ListenerInv
<1>7. StatsInv' /\ SendersInv'
  <2>1. started.mode # "daemon" => \A i : IsUp("sibling", i)' <=> IsUp("sibling", i)
    BY <1>1, Zenon DEF IsUp
  <2> QED BY <1>1, <1>2, <1>3, <2>1, Zenon DEF SetupInv, StatsInv, SendersInv
<1> QED BY <1>4, <1>5, <1>6, <1>7, Zenon DEF SetupInv

LEMMA startServicesSetup ==
    ASSUME SetupInv, startServices
    PROVE  SetupInv'
<1>1. /\ phase = "services" /\ phase' = "todo" /\ commands' = TRUE
      /\ UNCHANGED <<started, state, line, states, pool, launchWork, work, todo, dbs, typed>>
      /\ acl' \subseteq acl \union {"default"}
      /\ \A r \in running : r \in running'
      /\ daemonStarted = "wforce" => \A i \in dbs : <<"expire", i>> \in running'
  BY Zenon DEF startServices, StartWforce, StartReplfwd, StartTrackalert
<1>2. \A r \in running' : r \in running \/ r[1] \in Services \union {"expire"}
  <2>1. \A s, i : <<s, i>>[1] = s
    OBVIOUS
  <2>2. CASE StartWforce
    <3>1. \A r \in running' : \/ r \in running \/ \E k \in {"webhooks", "purge", "stats", "receivers"} : r = <<k, 0>>
                              \/ \E i \in dbs : r = <<"expire", i>>
      BY <2>2, Zenon DEF StartWforce
    <3>2. \A k \in {"webhooks", "purge", "stats", "receivers"} : <<k, 0>>[1] \in Services
      BY <2>1, Zenon DEF Services
    <3>3. \A i : <<"expire", i>>[1] = "expire"
      BY <2>1, Zenon
    <3>4. SUFFICES ASSUME NEW r \in running', r \notin running PROVE r[1] \in Services \union {"expire"}
      BY Zenon
    <3>5. CASE \E k \in {"webhooks", "purge", "stats", "receivers"} : r = <<k, 0>>
      BY <3>2, <3>5, Zenon
    <3>6. CASE \E i \in dbs : r = <<"expire", i>>
      BY <3>3, <3>6, Zenon
    <3> QED BY <3>1, <3>4, <3>5, <3>6, Zenon
  <2>3. CASE StartReplfwd \/ StartTrackalert
    <3>1. \A r \in running' : r \in running \/ r \in {<<"receivers", 0>>, <<"webhooks", 0>>, <<"stats", 0>>}
      BY <2>3, Zenon DEF StartReplfwd, StartTrackalert
    <3> QED BY <2>1, <3>1, Zenon DEF Services
  <2> QED BY <2>2, <2>3, Zenon DEF startServices
<1>3. asClient' = asClient /\ daemonStarted' = daemonStarted /\ ~asClient
  BY <1>1, SameStart, Zenon DEF SetupInv, StageInv, Beyond
<1>4. SetupTypes'
  BY <1>1, <1>2, Zenon DEF SetupInv, SetupTypes, SetupTypeOK
<1>5. StageInv'
  BY <1>1, <1>3, Zenon DEF SetupInv, StageInv, Beyond
<1>6. ListenerInv' /\ StatsInv' /\ SendersInv'
  <2>1. \A i : Passed(i)
    BY <1>1, Zenon DEF Passed, Beyond
  <2> QED BY <1>1, <2>1, MovesOn, Zenon
<1> QED BY <1>4, <1>5, <1>6, Zenon DEF SetupInv

LEMMA FirstLaunch ==
    ASSUME NEW s \in Launches, s # <<>>
    PROVE  /\ Head(s) \in Launched \X Nat /\ Tail(s) \in Launches
           /\ \A j \in DOMAIN s : s[j] = Head(s) \/ \E k \in DOMAIN Tail(s) : Tail(s)[k] = s[j]
<1>1. /\ Head(s) \in Launched \X Nat /\ Tail(s) \in Launches
      /\ \A j \in DOMAIN s : s[j] = Head(s) \/ (j - 1 \in DOMAIN Tail(s) /\ Tail(s)[j - 1] = s[j])
  BY DEF Launches
<1> QED BY <1>1, Zenon

LEMMA doTodoSetup ==
    ASSUME SetupInv, doTodo
    PROVE  SetupInv'
<1> DEFINE h == Head(todo)
<1>1. /\ phase = "todo" /\ phase' = "todo" /\ todo # <<>> /\ todo' = Tail(todo)
      /\ UNCHANGED <<started, state, line, states, pool, launchWork, work, acl, dbs, commands, typed>>
      /\ running' = running \union startWeb(h)
  BY Zenon DEF doTodo
<1>2. /\ todo \in Launches /\ asClient' = asClient /\ daemonStarted' = daemonStarted /\ ~asClient /\ commands
      /\ \A i : (Wanted(i)' <=> Wanted(i)) /\ Asks(i)' = Asks(i)
  BY <1>1, SameStart, Zenon DEF SetupInv, SetupTypes, StageInv, Beyond
<1>3. /\ h \in Launched \X Nat /\ todo' \in Launches
      /\ \A j \in DOMAIN todo : todo[j] = h \/ \E k \in DOMAIN todo' : todo'[k] = todo[j]
  BY <1>1, <1>2, FirstLaunch, Zenon
<1> HIDE DEF h
<1>4. /\ \A r \in running : r \in running'
      /\ \A r \in running' : r \in running \/ r = h
      /\ h \in running' \/ (h[1] = "web" /\ \E r \in running' : r[1] = "web")
  BY <1>1, Zenon DEF startWeb
<1>5. h[1] \in Launched
  BY <1>3
<1>6. \A i : Passed(i)
  BY <1>1, Zenon DEF Passed, Beyond
<1>7. SetupTypes'
  <2>1. \A j \in DOMAIN todo' : todo'[j][1] \in Launched
    BY <1>3 DEF Launches
  <2> QED BY <1>1, <1>3, <1>4, <1>5, <2>1, Zenon DEF SetupInv, SetupTypes, SetupTypeOK
<1>8. StageInv'
  BY <1>1, <1>2, Zenon DEF SetupInv, StageInv, Beyond
<1>9. ListenerInv'
  <2> SUFFICES ASSUME NEW i, Wanted(i), Asks(i) \in Launched
               PROVE  \/ \E r \in running' : r[1] = Asks(i) /\ (r[2] = i \/ Asks(i) = "web")
                      \/ \E j \in DOMAIN todo' : todo'[j] = <<Asks(i), i>>
    BY <1>1, <1>2, Zenon DEF ListenerInv, IsUp
  <2>1. \/ \E r \in running : r[1] = Asks(i) /\ (r[2] = i \/ Asks(i) = "web")
        \/ \E j \in DOMAIN todo : todo[j] = <<Asks(i), i>>
    BY <1>1, <1>2, <1>6, Zenon DEF SetupInv, ListenerInv, IsUp
  <2>2. CASE h = <<Asks(i), i>>
    <3>1. h[1] = Asks(i) /\ h[2] = i
      BY <2>2
    <3> QED BY <1>4, <3>1, Zenon
  <2> QED BY <1>3, <1>4, <2>1, <2>2, Zenon
<1>10. StatsInv' /\ SendersInv'
  <2>1. \A k, i : IsUp(k, i) => IsUp(k, i)'
    BY <1>4, Zenon DEF IsUp
  <2> QED BY <1>1, <1>2, <1>6, <2>1, Zenon DEF SetupInv, StatsInv, SendersInv
<1> QED BY <1>7, <1>8, <1>9, <1>10, Zenon DEF SetupInv
LEMMA readySetup ==
    ASSUME SetupInv, todoDone \/ webserverRuns
    PROVE  SetupInv'
<1>1. /\ phase \in {"todo", "wait"} /\ phase' \in {"wait", "ready"} /\ (phase = "todo" => todo = <<>>)
      /\ UNCHANGED <<started, state, line, states, pool, launchWork, work, todo, acl, dbs, commands, running, typed>>
  BY Zenon DEF todoDone, webserverRuns
<1>2. asClient' = asClient /\ daemonStarted' = daemonStarted
  BY <1>1, SameStart, Zenon
<1>3. SetupTypes'
  BY <1>1, Zenon DEF SetupInv, SetupTypes, SetupTypeOK
<1>4. StageInv'
  BY <1>1, <1>2, Zenon DEF SetupInv, StageInv, Beyond
<1>5. ListenerInv' /\ StatsInv' /\ SendersInv'
  <2>1. \A i : Passed(i)
    BY <1>1, Zenon DEF Passed, Beyond
  <2> QED BY <1>1, <2>1, MovesOn, Zenon
<1> QED BY <1>3, <1>4, <1>5, Zenon DEF SetupInv

LEMMA consoleSetup ==
    ASSUME SetupInv, NEW c \in ConsoleLines, consoleLaunch(c) \/ consoleCall(c)
    PROVE  SetupInv'
<1> DEFINE n == Len(started.config) + typed + 1
           made == consoleCall(c) /\ Outcome(c, 0) \in {"done", "half"} /\ Outcome(c, 1) # "throws"
<1>1. /\ phase = "ready" /\ phase' \in {"ready", "exited"} /\ typed < MaxLines /\ typed' = typed + 1
      /\ UNCHANGED <<started, state, line, pool, launchWork, todo, commands>>
      /\ IF made THEN Effect(c, n) /\ ~(Outcome(c, 0) = "done" /\ Does(c) \in Launched)
         ELSE UNCHANGED <<running, work, dbs, acl, states>>
  <2>1. CASE consoleLaunch(c) /\ ~consoleCall(c)
    BY <2>1, Zenon DEF consoleLaunch
  <2>2. CASE consoleCall(c)
    BY <2>2, Zenon DEF consoleCall
  <2> QED BY <2>1, <2>2, Zenon
<1>2. /\ started \in Starts /\ work \in Launches /\ typed \in 0 .. MaxLines /\ ~asClient
      /\ asClient' = asClient /\ daemonStarted' = daemonStarted
      /\ acl \subseteq {"default", "own"} /\ states \in {DefaultStates, OtherStates}
      /\ dbs \subseteq 1 .. Len(started.config) + MaxLines
  BY <1>1, SameStart, Zenon DEF SetupInv, SetupTypes, SetupTypeOK, StageInv, Beyond
<1>3. n \in Nat /\ n \in 1 .. Len(started.config) + MaxLines /\ typed' \in 0 .. MaxLines
  BY <1>1, <1>2, StartFacts, SMT
<1>4. made => Does(c) \notin Launched
  BY <1>1, <1>2, CallFacts, SMT
<1> HIDE DEF n, made
<1>5. /\ work' = work /\ \A r \in running : r \in running'
      /\ \A r \in running' : r \in running \/ r[1] = "sibling"
      /\ dbs \subseteq dbs' /\ dbs' \subseteq dbs \union {n}
      /\ acl' \subseteq {"default", "own"} /\ states' \in {DefaultStates, OtherStates}
  <2>1. CASE made
    <3>1. Effect(c, n) /\ Does(c) \notin Launched
      BY <1>1, <1>4, <2>1, Zenon
    <3> QED BY <1>2, <1>3, <3>1, EffectFacts, Zenon
  <2>2. CASE ~made
    BY <1>1, <1>2, <2>2, Zenon
  <2> QED BY <2>1, <2>2, Zenon
<1>6. SetupTypes'
  <2>1. dbs' \subseteq 1 .. Len(started'.config) + MaxLines
    BY <1>1, <1>2, <1>3, <1>5, Zenon
  <2> QED BY <1>1, <1>3, <1>5, <2>1, Zenon DEF SetupInv, SetupTypes, SetupTypeOK
<1>7. StageInv'
  <2>1. (\E r \in running' : r[1] \in Launched) => \E r \in running : r[1] \in Launched
    BY <1>5, Zenon DEF Launched
  <2> QED BY <1>1, <1>2, <1>5, <2>1, Zenon DEF SetupInv, StageInv, Beyond
<1>8. ListenerInv' /\ StatsInv' /\ SendersInv'
  <2>1. \A i : Passed(i)
    BY <1>1, Zenon DEF Passed, Beyond
  <2> QED BY <1>1, <1>5, <2>1, MovesOn, Zenon
<1> QED BY <1>6, <1>7, <1>8, Zenon DEF SetupInv

LEMMA SetupSame == ASSUME SetupInv, UNCHANGED setupVars PROVE SetupInv'
<1>1. UNCHANGED <<started, phase, state, line, states, pool, launchWork, work, todo, acl, dbs, commands, running, typed>>
  BY Zenon DEF setupVars
<1>2. /\ asClient' = asClient /\ daemonStarted' = daemonStarted
      /\ \A i : (Wanted(i)' <=> Wanted(i)) /\ Asks(i)' = Asks(i)
  BY <1>1, SameStart, Zenon
<1>3. \A i : Passed(i)' <=> Passed(i)
  BY <1>1, Zenon DEF Passed
<1>4. SetupTypes'
  BY <1>1, Zenon DEF SetupInv, SetupTypes, SetupTypeOK
<1>5. StageInv'
  BY <1>1, <1>2, Zenon DEF SetupInv, StageInv
<1>6. ListenerInv'
  BY <1>1, <1>2, <1>3, Zenon DEF SetupInv, ListenerInv, IsUp
<1>7. StatsInv' /\ SendersInv'
  BY <1>1, <1>2, <1>3, Zenon DEF SetupInv, StatsInv, SendersInv, IsUp
<1> QED BY <1>4, <1>5, <1>6, <1>7, Zenon DEF SetupInv

LEMMA SetupStep == ASSUME SetupInv, [SetupNext]_setupVars PROVE SetupInv'
BY beginsSetup, executeSetup, exitsSetup, globalDoneSetup, contextDoneSetup, daemonizeSetup, startServicesSetup,
   doTodoSetup, readySetup, consoleSetup, SetupSame, Zenon DEF SetupNext, SetupMain

LEMMA InitSetup == ASSUME SetupInit PROVE SetupInv
<1>1. started \in Starts
  BY Zenon DEF SetupInit
<1>2. SetupTypes
  <2>1. <<>> \in Launches /\ \A j \in DOMAIN <<>> : <<>>[j][1] \in Launched
    BY DEF Launches
  <2>2. 0 \in 0 .. 0 /\ 1 \in 1 .. Len(started.config) + 1 /\ 0 \in 0 .. MaxLines
    BY <1>1, StartFacts, SMT
  <2> QED BY <1>1, <2>1, <2>2, StartFacts, Zenon DEF SetupInit, SetupTypes, SetupTypeOK, daemonStarted
<1>3. StageInv
  BY Zenon DEF SetupInit, StageInv, Beyond
<1>4. \A i : ~Passed(i)
  BY Zenon DEF SetupInit, Passed, Beyond
<1> QED BY <1>2, <1>3, <1>4, Zenon DEF SetupInv, ListenerInv, StatsInv, SendersInv

\* In every state of a start, whatever the file says: a listener that the file asks
\* for is in launchWork, or with main, or runs, a stats database is made, and the
\* threads of the siblings run unless main has forked.
THEOREM SetupInvHolds == SetupSpec => []SetupInv
<1>1. SetupInit => SetupInv
  BY InitSetup, Zenon
<1>2. SetupInv /\ [SetupNext]_setupVars => SetupInv'
  BY SetupStep, Zenon
<1> QED BY <1>1, <1>2, PTL DEF SetupSpec

\* Whatever daemon starts, in whatever mode and with whatever file: nothing answers
\* requests before setupLua is done and the commands are registered, and when the
\* daemon is ready every listener, stats database and sibling of the file has the
\* thread that serves it, but for the siblings of a process that has forked.
THEOREM SetupServes == SetupSpec => []ServesWhenReady
<1>1. SetupInv => ServesWhenReady
  <2> SUFFICES ASSUME SetupInv PROVE ServesWhenReady
    OBVIOUS
  <2>1. SetupTypeOK /\ ((\E r \in running : r[1] \in Launched) => phase \in {"todo", "wait", "ready", "exited"} /\ commands)
    BY Zenon DEF SetupInv, SetupTypes, StageInv
  <2>2. ASSUME phase = "ready", NEW i \in DOMAIN started.config, Outcome(started.config[i], 0) = "done"
        PROVE  /\ Asks(i) \in Launched => IsUp(Asks(i), i)
               /\ Asks(i) = "db" => IsUp("expire", i)
               /\ Asks(i) = "sibling" /\ started.mode # "daemon" => IsUp("sibling", i)
    <3>1. Wanted(i) /\ Passed(i) /\ ~asClient
      BY <2>2, Zenon DEF SetupInv, StageInv, Wanted, Passed, Beyond
    <3> QED BY <2>2, <3>1, Zenon DEF SetupInv, ListenerInv, StatsInv, SendersInv
  <2> QED BY <2>1, <2>2, Zenon DEF ServesWhenReady, Asks
<1> QED BY <1>1, SetupInvHolds, PTL
-----------------------------------------------------------------------------
(***************************************************************************)
(* The file is followed, state by state and line by line.                  *)
(***************************************************************************)

\* Call i has been made in Lua state s.
MadeIn(s, i) == phase \in Beyond \/ (phase = "setup" /\ (s < state \/ (s = state /\ i < line)))

\* The effects are in the order of the file in each Lua state.
OrderInv ==
    /\ effects \in Seq(Nat \X Nat)
    /\ \A j, k \in DOMAIN effects : j < k /\ effects[j][1] = effects[k][1] => effects[j][2] < effects[k][2]
    /\ phase = "start" => effects = <<>>
    /\ phase = "setup" => \A j \in DOMAIN effects : effects[j][1] = state => effects[j][2] < line
    /\ phase = "setup" => \A j \in DOMAIN effects : effects[j][1] <= state

\* They are those of the calls that the file means for that state.
MeantInv ==
    ~asClient /\ phase # "exited" =>
        \A s \in 0 .. pool : EffectsIn(s) = {i \in DOMAIN started.config : MadeIn(s, i) /\ Meant(s, started.config[i])}

SettingsInv ==
    ~asClient =>
        /\ daemonStarted = "wforce" /\ (phase \in Beyond \/ (phase = "setup" /\ state # 0)) => pool = states
        /\ daemonStarted = "replfwd" => pool = 0
        /\ daemonStarted # "trackalert" /\ phase \in Beyond \union {"setup"} =>
            ("default" \notin acl <=> \E i \in DOMAIN started.config : MadeIn(0, i) /\ Does(started.config[i]) = "setACL")

FileInv == typed = 0 => OrderInv /\ MeantInv /\ SettingsInv

LEMMA SameMeaning ==
    ASSUME started' = started
    PROVE  \A c : Does(c)' = Does(c) /\ \A s : Meant(s, c)' <=> Meant(s, c)
BY Zenon DEF daemonStarted, Does, Meant, ForGlobal, ForContexts

\* A step after setupLua, or one that gives up.
LEMMA FileStays ==
    ASSUME SetupInv, FileInv, UNCHANGED <<started, pool, states, effects, typed>>,
           phase' = "exited" \/ (phase' \in Beyond /\ phase \in Beyond),
           phase' # "exited" /\ daemonStarted # "trackalert" => acl' = acl
    PROVE  FileInv'
<1> SUFFICES ASSUME typed = 0 PROVE OrderInv' /\ MeantInv' /\ SettingsInv'
  BY Zenon DEF FileInv
<1>1. OrderInv /\ MeantInv /\ SettingsInv
  BY Zenon DEF FileInv
<1>2. /\ asClient' = asClient /\ daemonStarted' = daemonStarted
      /\ \A c : Does(c)' = Does(c) /\ \A s : Meant(s, c)' <=> Meant(s, c)
  BY SameStart, SameMeaning, Zenon
<1>3. OrderInv'
  BY <1>1, Zenon DEF OrderInv, Beyond
<1>4. phase' # "exited" => \A s, i : MadeIn(s, i) /\ MadeIn(s, i)'
  BY Zenon DEF MadeIn
<1>5. MeantInv'
  <2> SUFFICES ASSUME ~asClient, phase' # "exited", NEW s \in 0 .. pool
               PROVE  EffectsIn(s)' = {i \in DOMAIN started.config : MadeIn(s, i)' /\ Meant(s, started.config[i])'}
    BY <1>2, Zenon DEF MeantInv
  <2>1. EffectsIn(s) = {i \in DOMAIN started.config : MadeIn(s, i) /\ Meant(s, started.config[i])}
    BY <1>1, Zenon DEF MeantInv, Beyond
  <2>2. EffectsIn(s)' = EffectsIn(s)
    BY Zenon DEF EffectsIn
  <2>3. \A i : Meant(s, started.config[i])' <=> Meant(s, started.config[i])
    BY Zenon DEF Meant, ForGlobal, ForContexts, daemonStarted
  <2> QED BY <1>4, <2>1, <2>2, <2>3, Zenon
<1>6. SettingsInv'
  <2>1. \A i : Does(started.config[i])' = Does(started.config[i])
    BY Zenon DEF Does, daemonStarted
  <2> QED BY <1>1, <1>2, <1>4, <2>1, Zenon DEF SettingsInv, Beyond
<1> QED BY <1>3, <1>5, <1>6, Zenon
LEMMA beginsFile ==
    ASSUME SetupInv, FileInv, beginWforce \/ beginReplfwd \/ beginTrackalert
    PROVE  FileInv'
<1> SUFFICES ASSUME typed = 0 PROVE OrderInv' /\ MeantInv' /\ SettingsInv'
  <2>1. typed' = typed
    BY Zenon DEF beginWforce, beginReplfwd, beginTrackalert
  <2> QED BY <2>1, Zenon DEF FileInv
<1>1. /\ phase = "start" /\ phase' = "setup" /\ UNCHANGED <<started, state, line, states, effects>>
      /\ daemonStarted # "trackalert" => pool' = pool /\ acl' = IF asClient THEN acl ELSE {"default"}
  BY StartFacts, Zenon DEF SetupInv, SetupTypes, beginWforce, beginReplfwd, beginTrackalert
<1>2. /\ state = 0 /\ line = 1 /\ pool = 0 /\ effects = <<>> /\ started \in Starts /\ asClient' = asClient /\ daemonStarted' = daemonStarted
      /\ pool' \in {0, DefaultStates, OtherStates}
  BY <1>1, beginsSetup, SameStart, Zenon DEF SetupInv, SetupTypes, SetupTypeOK, StageInv, FileInv, OrderInv
<1>3. effects \in Seq(Nat \X Nat) /\ DOMAIN effects = {}
  BY <1>2
<1>4. OrderInv'
  BY <1>1, <1>3, Zenon DEF OrderInv
<1>5. \A s \in 0 .. pool' : \A i \in DOMAIN started.config : ~MadeIn(s, i)'
  <2>1. ASSUME NEW s \in 0 .. pool', NEW i \in DOMAIN started.config PROVE ~(s < 0) /\ ~(i < 1)
    BY <1>2, StartFacts, SMT
  <2> QED BY <1>1, <1>2, <2>1, Zenon DEF MadeIn, Beyond
<1>6. MeantInv'
  <2> SUFFICES ASSUME NEW s \in 0 .. pool'
               PROVE  EffectsIn(s)' = {i \in DOMAIN started.config : MadeIn(s, i)' /\ Meant(s, started.config[i])'}
    BY <1>1, Zenon DEF MeantInv
  <2>1. EffectsIn(s)' = {}
    BY <1>1, <1>3, Zenon DEF EffectsIn
  <2> QED BY <1>5, <2>1, Zenon
<1>7. 0 \in 0 .. pool'
  BY <1>2, StartFacts, SMT
<1>8. SettingsInv'
  BY <1>1, <1>2, <1>5, <1>7, Zenon DEF SettingsInv, Beyond
<1> QED BY <1>4, <1>6, <1>8, Zenon

LEMMA AppendEffect ==
    ASSUME OrderInv, phase = "setup", state \in Nat, line \in Nat, effects' = Append(effects, <<state, line>>),
           phase' = phase, state' = state, line' = line + 1
    PROVE  /\ OrderInv'
           /\ \A s : EffectsIn(s)' = EffectsIn(s) \union (IF s = state THEN {line} ELSE {})
<1> DEFINE e == <<state, line>>
<1>1. e \in Nat \X Nat /\ e[1] = state /\ e[2] = line /\ effects' = Append(effects, e) /\ effects \in Seq(Nat \X Nat)
  BY DEF OrderInv
<1> HIDE DEF e
<1> DEFINE n == Len(effects) + 1
<1>2. /\ effects' \in Seq(Nat \X Nat) /\ n \in DOMAIN effects' /\ effects'[n] = e
      /\ \A j \in DOMAIN effects : j \in DOMAIN effects' /\ effects'[j] = effects[j] /\ j < n
      /\ \A j \in DOMAIN effects' : j = n \/ j \in DOMAIN effects
      /\ \A j \in DOMAIN effects' : ~(n < j)
  BY <1>1
<1>3. \A j \in DOMAIN effects : effects[j][2] \in Nat
  BY <1>1
<1> HIDE DEF n
<1>4. OrderInv'
  <2>1. ASSUME NEW j \in DOMAIN effects', NEW k \in DOMAIN effects', j < k, effects'[j][1] = effects'[k][1]
        PROVE  effects'[j][2] < effects'[k][2]
    <3>1. j # n
      BY <1>2, <2>1, Zenon
    <3>2. CASE k = n
      BY <1>1, <1>2, <2>1, <3>1, <3>2, Zenon DEF OrderInv
    <3>3. CASE k # n
      BY <1>1, <1>2, <2>1, <3>1, <3>3, Zenon DEF OrderInv
    <3> QED BY <3>2, <3>3, Zenon
  <2>2. line < line + 1 /\ (\A m \in Nat : m < line => m < line + 1) /\ state <= state
    OBVIOUS
  <2>3. \A j \in DOMAIN effects' : effects'[j][1] = state' => effects'[j][2] < line'
    BY <1>1, <1>2, <1>3, <2>2, Zenon DEF OrderInv
  <2>4. \A j \in DOMAIN effects' : effects'[j][1] <= state'
    BY <1>1, <1>2, <2>2, Zenon DEF OrderInv
  <2> QED BY <1>2, <2>1, <2>3, <2>4, Zenon DEF OrderInv
<1>5. ASSUME NEW s PROVE EffectsIn(s)' = EffectsIn(s) \union (IF s = state THEN {line} ELSE {})
  <2>1. \A x : x \in EffectsIn(s)' <=> \E j \in DOMAIN effects' : effects'[j][1] = s /\ effects'[j][2] = x
    BY Zenon DEF EffectsIn
  <2>2. \A x : x \in EffectsIn(s) <=> \E j \in DOMAIN effects : effects[j][1] = s /\ effects[j][2] = x
    BY Zenon DEF EffectsIn
  <2>3. ASSUME NEW x, x \in EffectsIn(s)' PROVE x \in EffectsIn(s) \/ (s = state /\ x = line)
    <3>1. PICK j \in DOMAIN effects' : effects'[j][1] = s /\ effects'[j][2] = x
      BY <2>1, <2>3, Zenon
    <3>2. CASE j = n
      BY <1>1, <1>2, <3>1, <3>2, Zenon
    <3>3. CASE j # n
      <4>1. j \in DOMAIN effects /\ effects[j][1] = s /\ effects[j][2] = x
        BY <1>2, <3>1, <3>3, Zenon
      <4> QED BY <2>2, <4>1, Zenon
    <3> QED BY <3>2, <3>3, Zenon
  <2>4. ASSUME NEW x, x \in EffectsIn(s) \/ (s = state /\ x = line) PROVE x \in EffectsIn(s)'
    <3>1. CASE x \in EffectsIn(s)
      <4>1. PICK j \in DOMAIN effects : effects[j][1] = s /\ effects[j][2] = x
        BY <2>2, <3>1, Zenon
      <4>2. j \in DOMAIN effects' /\ effects'[j][1] = s /\ effects'[j][2] = x
        BY <1>2, <4>1, Zenon
      <4> QED BY <2>1, <4>2, Zenon
    <3>2. CASE s = state /\ x = line
      <4>1. n \in DOMAIN effects' /\ effects'[n][1] = s /\ effects'[n][2] = x
        BY <1>1, <1>2, <3>2, Zenon
      <4> QED BY <2>1, <4>1, Zenon
    <3> QED BY <2>4, <3>1, <3>2, Zenon
  <2> QED BY <2>3, <2>4, Zenon
<1> QED BY <1>4, <1>5, Zenon

\* The next line of the file has been run in the Lua state that is set up.
LEMMA LineMade ==
    ASSUME started \in Starts, phase = "setup", state \in 0 .. pool, line \in 1 .. Len(started.config) + 1, pool \in Nat,
           UNCHANGED <<started, phase, state, pool>>, line' = line + 1
    PROVE  \A s \in 0 .. pool : \A i \in DOMAIN started.config : MadeIn(s, i)' <=> MadeIn(s, i) \/ (s = state /\ i = line)
<1>1. ASSUME NEW s \in 0 .. pool, NEW i \in DOMAIN started.config
      PROVE  i < line + 1 <=> i < line \/ i = line
  BY StartFacts, SMT
<1> QED BY <1>1, Zenon DEF MadeIn, Beyond

LEMMA executeFile ==
    ASSUME SetupInv, FileInv, executeCode \/ executeNothing
    PROVE  FileInv'
<1> DEFINE c == started.config[line]
<1>1. /\ phase = "setup" /\ line <= Len(started.config) /\ line' = line + 1
      /\ UNCHANGED <<started, phase, state, pool, typed>>
      /\ \/ Outcome(c, state) \in {"done", "half"} /\ Effect(c, line) /\ effects' = Append(effects, <<state, line>>)
         \/ Outcome(c, state) = "ignored" /\ UNCHANGED <<effects, acl, states>>
  BY Zenon DEF executeCode, executeNothing
<1> SUFFICES ASSUME typed = 0 PROVE OrderInv' /\ MeantInv' /\ SettingsInv'
  BY <1>1, Zenon DEF FileInv
<1>2. /\ started \in Starts /\ state \in 0 .. pool /\ line \in 1 .. Len(started.config) + 1 /\ pool \in {0, DefaultStates, OtherStates}
      /\ asClient' = asClient /\ daemonStarted' = daemonStarted
      /\ OrderInv /\ MeantInv /\ SettingsInv
  BY <1>1, SameStart, Zenon DEF SetupInv, SetupTypes, SetupTypeOK, FileInv
<1>3. pool \in Nat /\ state \in Nat /\ line \in Nat /\ line \in DOMAIN started.config
  BY <1>1, <1>2, StartFacts, SMT
<1>4. \A s \in 0 .. pool : \A i \in DOMAIN started.config : MadeIn(s, i)' <=> MadeIn(s, i) \/ (s = state /\ i = line)
  BY <1>1, <1>2, <1>3, LineMade, Zenon
<1>5. ~asClient => (Outcome(c, state) \in {"done", "half"} <=> Meant(state, c))
  BY <1>1, <1>2, <1>3, OutcomeFacts, Zenon
<1>6. /\ OrderInv'
      /\ \A s : EffectsIn(s)' = EffectsIn(s) \union (IF s = state /\ Outcome(c, state) \in {"done", "half"} THEN {line} ELSE {})
  <2>1. CASE effects' = Append(effects, <<state, line>>) /\ Outcome(c, state) \in {"done", "half"}
    BY <1>1, <1>2, <1>3, <2>1, AppendEffect, Zenon
  <2>2. CASE effects' = effects /\ Outcome(c, state) = "ignored"
    <3>1. \A j \in DOMAIN effects : effects[j][2] \in Nat
      BY <1>2 DEF OrderInv
    <3>2. \A m \in Nat : m < line => m < line + 1
      BY <1>3
    <3>3. OrderInv'
      BY <1>1, <1>2, <2>2, <3>1, <3>2, Zenon DEF OrderInv
    <3>4. \A s : EffectsIn(s)' = EffectsIn(s)
      BY <2>2, Zenon DEF EffectsIn
    <3> QED BY <2>2, <3>3, <3>4, Zenon
  <2> QED BY <1>1, <2>1, <2>2, Zenon
<1>7. MeantInv'
  <2> SUFFICES ASSUME ~asClient, NEW s \in 0 .. pool
               PROVE  EffectsIn(s)' = {i \in DOMAIN started.config : MadeIn(s, i)' /\ Meant(s, started.config[i])'}
    BY <1>1, <1>2, Zenon DEF MeantInv
  <2>1. EffectsIn(s) = {i \in DOMAIN started.config : MadeIn(s, i) /\ Meant(s, started.config[i])}
    BY <1>1, <1>2, Zenon DEF MeantInv
  <2>2. \A i : Meant(s, started.config[i])' <=> Meant(s, started.config[i])
    BY <1>1, Zenon DEF Meant, ForGlobal, ForContexts, daemonStarted
  <2>3. EffectsIn(s)' = EffectsIn(s) \union (IF s = state /\ Meant(state, c) THEN {line} ELSE {})
    BY <1>5, <1>6, Zenon
  <2>4. \A i : i \in EffectsIn(s)' <=> i \in DOMAIN started.config /\ MadeIn(s, i)' /\ Meant(s, started.config[i])
    BY <1>3, <1>4, <2>1, <2>3, Zenon
  <2> QED BY <2>2, <2>4, Zenon
<1>8. SettingsInv'
  <2> SUFFICES ASSUME ~asClient PROVE SettingsInv'
    BY <1>2, Zenon DEF SettingsInv
  <2>1. daemonStarted = "wforce" /\ state # 0 => pool = states /\ states' = states
    <3>1. CASE Effect(c, line) /\ Outcome(c, state) \in {"done", "half"}
      <4>1. state # 0 => Does(c) # "states"
        BY <1>2, <1>3, <3>1, OutcomeFacts, Zenon
      <4> QED BY <1>1, <1>2, <3>1, <4>1, Zenon DEF SettingsInv, Effect
    <3> QED BY <1>1, <1>2, <3>1, Zenon DEF SettingsInv
  <2>2. 0 \in 0 .. pool
    BY <1>3, SMT
  <2>3. \A i \in DOMAIN started.config : MadeIn(0, i)' <=> MadeIn(0, i) \/ (state = 0 /\ i = line)
    BY <1>4, <2>2, Zenon
  <2>4. "default" \notin acl' <=> "default" \notin acl \/ (Outcome(c, state) \in {"done", "half"} /\ Does(c) = "setACL")
    <3>1. CASE Effect(c, line) /\ Outcome(c, state) \in {"done", "half"}
      <4>1. acl' = CASE Does(c) = "setACL" -> {"own"} [] Does(c) = "addACL" -> acl \union {"own"} [] OTHER -> acl
        BY <3>1, Zenon DEF Effect
      <4>2. CASE Does(c) = "setACL"
        BY <4>1, <4>2, <3>1, Zenon
      <4>3. CASE Does(c) # "setACL"
        <5>1. acl' \in {acl \union {"own"}, acl}
          BY <4>1, <4>3, Zenon
        <5> QED BY <4>3, <5>1, Zenon
      <4> QED BY <4>2, <4>3, Zenon
    <3> QED BY <1>1, <3>1, Zenon
  <2>5. (state = 0 /\ Does(c) = "setACL") \/ (state # 0 /\ Outcome(c, state) \in {"done", "half"} /\ Does(c) = "setACL")
            <=> Outcome(c, state) \in {"done", "half"} /\ Does(c) = "setACL"
    BY <1>1, <1>2, <1>3, OutcomeFacts, Zenon
  <2>6. state # 0 => MadeIn(0, line)
    <3>1. state # 0 => 0 < state
      BY <1>3, SMT
    <3> QED BY <1>1, <3>1, Zenon DEF MadeIn
  <2>7. \A i : Does(started.config[i])' = Does(started.config[i])
    BY <1>1, Zenon DEF Does, daemonStarted
  <2>8. ASSUME daemonStarted # "trackalert"
        PROVE  "default" \notin acl' <=> \E i \in DOMAIN started.config : MadeIn(0, i)' /\ Does(started.config[i]) = "setACL"
    <3>1. "default" \notin acl <=> \E i \in DOMAIN started.config : MadeIn(0, i) /\ Does(started.config[i]) = "setACL"
      BY <1>1, <1>2, <2>8, Zenon DEF SettingsInv
    <3> QED BY <1>3, <2>3, <2>4, <2>5, <2>6, <3>1, Zenon
  <2> QED BY <1>1, <1>2, <2>1, <2>7, <2>8, Zenon DEF SettingsInv, Beyond
<1> QED BY <1>6, <1>7, <1>8, Zenon
LEMMA globalDoneFile ==
    ASSUME SetupInv, FileInv, globalDone
    PROVE  FileInv'
<1>1. /\ phase = "setup" /\ state = 0 /\ line > Len(started.config)
      /\ UNCHANGED <<started, states, acl, effects, typed>>
      /\ IF asClient \/ daemonStarted = "replfwd"
         THEN phase' = (IF asClient THEN "exited" ELSE "fork") /\ UNCHANGED <<state, line, pool>>
         ELSE /\ pool' = IF daemonStarted = "wforce" THEN states ELSE pool
              /\ state' = 1 /\ line' = 1 /\ phase' = phase
  BY Zenon DEF globalDone
<1>2. CASE asClient
  <2>1. phase' = "exited" /\ UNCHANGED <<started, pool, states, effects, typed>>
    BY <1>1, <1>2, Zenon
  <2> QED BY <2>1, FileStays, SMT
<1>3. CASE ~asClient
  <2> SUFFICES ASSUME typed = 0 PROVE OrderInv' /\ MeantInv' /\ SettingsInv'
    BY <1>1, Zenon DEF FileInv
  <2>1. /\ started \in Starts /\ line \in 1 .. Len(started.config) + 1 /\ pool \in {0, DefaultStates, OtherStates}
        /\ states \in {DefaultStates, OtherStates}
        /\ asClient' = asClient /\ daemonStarted' = daemonStarted /\ OrderInv /\ MeantInv /\ SettingsInv
    BY <1>1, SameStart, Zenon DEF SetupInv, SetupTypes, SetupTypeOK, FileInv
  <2>2. /\ phase' = "fork" => pool' = 0 /\ pool = 0 /\ daemonStarted = "replfwd"
        /\ phase' # "fork" => daemonStarted # "replfwd" /\ phase' = "setup" /\ state' = 1 /\ line' = 1
        /\ daemonStarted = "wforce" => pool' = states
    BY <1>1, <1>3, <2>1, Zenon DEF SettingsInv
  <2>3. pool \in Nat /\ pool' \in Nat /\ 0 \in 0 .. pool
    <3>1. pool' \in {0, DefaultStates, OtherStates}
      BY <1>1, <2>1, Zenon
    <3> QED BY <2>1, <3>1, StartFacts, SMT
  <2>4. ASSUME NEW s \in 0 .. pool', NEW i \in DOMAIN started.config
        PROVE  IF s = 0 THEN MadeIn(s, i) /\ MadeIn(s, i)' ELSE ~MadeIn(s, i) /\ ~MadeIn(s, i)' /\ phase' # "fork"
    <3>1. i < line /\ ~(i < 1) /\ (s # 0 => ~(s < 0) /\ ~(s < 1)) /\ 0 < 1 /\ (s # 0 => pool' # 0)
      BY <1>1, <2>1, <2>3, StartFacts, SMT
    <3> QED BY <1>1, <2>2, <3>1, Zenon DEF MadeIn, Beyond
  <2>5. OrderInv'
    <3>1. \A j \in DOMAIN effects : effects[j][1] \in Nat
      BY <2>1 DEF OrderInv
    <3>2. \A m \in Nat : m <= 0 => m <= 1 /\ m # 1
      OBVIOUS
    <3> QED BY <1>1, <2>1, <2>2, <3>1, <3>2, Zenon DEF OrderInv
  <2>6. MeantInv'
    <3> SUFFICES ASSUME NEW s \in 0 .. pool'
                 PROVE  EffectsIn(s)' = {i \in DOMAIN started.config : MadeIn(s, i)' /\ Meant(s, started.config[i])'}
      BY <1>1, Zenon DEF MeantInv
    <3>1. EffectsIn(s)' = EffectsIn(s)
      BY <1>1, Zenon DEF EffectsIn
    <3>2. \A i : Meant(s, started.config[i])' <=> Meant(s, started.config[i])
      BY <1>1, Zenon DEF Meant, ForGlobal, ForContexts, daemonStarted
    <3>3. CASE s = 0
      <4>1. EffectsIn(s) = {i \in DOMAIN started.config : MadeIn(s, i) /\ Meant(s, started.config[i])}
        BY <1>1, <1>3, <2>1, <2>3, <3>3, Zenon DEF MeantInv
      <4> QED BY <2>4, <3>1, <3>2, <3>3, <4>1, Zenon
    <3>4. CASE s # 0
      <4>1. \A j \in DOMAIN effects : effects[j][1] # s
        <5>1. \A j \in DOMAIN effects : effects[j][1] \in Nat /\ effects[j][1] <= 0
          BY <1>1, <2>1 DEF OrderInv
        <5> QED BY <3>4, <5>1, SMT
      <4>2. EffectsIn(s) = {}
        BY <4>1, Zenon DEF EffectsIn
      <4> QED BY <2>4, <3>1, <3>4, <4>2, Zenon
    <3> QED BY <3>3, <3>4, Zenon
  <2>7. SettingsInv'
    <3>1. \A i : Does(started.config[i])' = Does(started.config[i])
      BY <1>1, Zenon DEF Does, daemonStarted
    <3>2. 0 \in 0 .. pool'
      BY <2>3, SMT
    <3>3. \A i \in DOMAIN started.config : MadeIn(0, i) /\ MadeIn(0, i)'
      BY <2>4, <3>2, Zenon
    <3> QED BY <1>1, <1>3, <2>1, <2>2, <3>1, <3>3, Zenon DEF SettingsInv, Beyond
  <2> QED BY <2>5, <2>6, <2>7, Zenon
<1> QED BY <1>2, <1>3, Zenon

LEMMA contextDoneFile ==
    ASSUME SetupInv, FileInv, contextDone
    PROVE  FileInv'
<1>1. /\ phase = "setup" /\ state > 0 /\ line > Len(started.config)
      /\ UNCHANGED <<started, states, pool, acl, effects, typed>>
      /\ \/ state < pool /\ state' = state + 1 /\ line' = 1 /\ phase' = "setup"
         \/ ~(state < pool) /\ phase' = "fork" /\ UNCHANGED <<state, line>>
  BY Zenon DEF contextDone
<1> SUFFICES ASSUME typed = 0 PROVE OrderInv' /\ MeantInv' /\ SettingsInv'
  BY <1>1, Zenon DEF FileInv
<1>2. /\ started \in Starts /\ line \in 1 .. Len(started.config) + 1 /\ pool \in {0, DefaultStates, OtherStates}
      /\ state \in 0 .. pool /\ ~asClient
      /\ asClient' = asClient /\ daemonStarted' = daemonStarted /\ OrderInv /\ MeantInv /\ SettingsInv
  BY <1>1, SameStart, Zenon DEF SetupInv, SetupTypes, SetupTypeOK, StageInv, FileInv
<1>3. pool \in Nat /\ state \in Nat /\ state # 0 /\ 0 \in 0 .. pool /\ state + 1 # 0
  BY <1>1, <1>2, StartFacts, SMT
<1>4. ASSUME NEW s \in 0 .. pool, NEW i \in DOMAIN started.config PROVE MadeIn(s, i)' <=> MadeIn(s, i)
  <2>1. i < line /\ ~(i < 1) /\ (~(state < pool) => s < state \/ s = state) /\ (s < state + 1 <=> s < state \/ s = state)
    BY <1>1, <1>2, <1>3, StartFacts, SMT
  <2> QED BY <1>1, <2>1, Zenon DEF MadeIn, Beyond
<1>5. OrderInv'
  <2>1. \A j \in DOMAIN effects : effects[j][1] \in Nat
    BY <1>2 DEF OrderInv
  <2>2. \A m \in Nat : m <= state => m <= state + 1 /\ m # state + 1
    BY <1>3
  <2> QED BY <1>1, <1>2, <2>1, <2>2, Zenon DEF OrderInv
<1>6. MeantInv'
  <2> SUFFICES ASSUME NEW s \in 0 .. pool
               PROVE  EffectsIn(s)' = {i \in DOMAIN started.config : MadeIn(s, i)' /\ Meant(s, started.config[i])'}
    BY <1>1, Zenon DEF MeantInv
  <2>1. EffectsIn(s)' = EffectsIn(s)
    BY <1>1, Zenon DEF EffectsIn
  <2>2. \A i : Meant(s, started.config[i])' <=> Meant(s, started.config[i])
    BY <1>1, Zenon DEF Meant, ForGlobal, ForContexts, daemonStarted
  <2>3. EffectsIn(s) = {i \in DOMAIN started.config : MadeIn(s, i) /\ Meant(s, started.config[i])}
    BY <1>1, <1>2, Zenon DEF MeantInv
  <2> QED BY <1>4, <2>1, <2>2, <2>3, Zenon
<1>7. SettingsInv'
  <2>1. \A i : Does(started.config[i])' = Does(started.config[i])
    BY <1>1, Zenon DEF Does, daemonStarted
  <2> QED BY <1>1, <1>2, <1>3, <1>4, <2>1, Zenon DEF SettingsInv, Beyond
<1> QED BY <1>5, <1>6, <1>7, Zenon

LEMMA FileStep == ASSUME SetupInv, FileInv, [SetupNext]_setupVars PROVE FileInv'
<1>1. CASE noRegexes \/ executeExits \/ controlSocketExits \/ noPersistEntries
  <2>1. phase' = "exited" /\ UNCHANGED <<started, pool, states, effects, typed>>
    BY <1>1, Zenon DEF noRegexes, executeExits, controlSocketExits, noPersistEntries
  <2> QED BY <2>1, FileStays, SMT
<1>2. CASE daemonize \/ startServices \/ doTodo \/ todoDone \/ webserverRuns
  <2>1. /\ phase \in Beyond /\ phase' \in Beyond /\ UNCHANGED <<started, pool, states, effects, typed>>
        /\ daemonStarted # "trackalert" => acl' = acl
    BY <1>2, Zenon DEF daemonize, startServices, StartWforce, StartReplfwd, StartTrackalert, doTodo, todoDone, webserverRuns, Beyond
  <2> QED BY <2>1, FileStays, Zenon
<1>3. CASE \E c \in ConsoleLines : consoleLaunch(c) \/ consoleCall(c)
  <2>1. typed' = typed + 1 /\ typed \in 0 .. MaxLines
    BY <1>3, Zenon DEF consoleLaunch, consoleCall, SetupInv, SetupTypes, SetupTypeOK
  <2>2. typed' # 0
    BY <2>1, SetupAssumption, SMT
  <2> QED BY <2>2, Zenon DEF FileInv
<1>4. CASE UNCHANGED setupVars
  <2>1. UNCHANGED <<started, phase, state, line, states, pool, acl, typed, effects>>
    BY <1>4, Zenon DEF setupVars
  <2>2. /\ asClient' = asClient /\ daemonStarted' = daemonStarted /\ (OrderInv => OrderInv')
        /\ \A s, i : MadeIn(s, i)' <=> MadeIn(s, i)
    BY <2>1, SameStart, Zenon DEF OrderInv, MadeIn
  <2>3. /\ \A s, i : Meant(s, started.config[i])' <=> Meant(s, started.config[i])
        /\ \A i : Does(started.config[i])' = Does(started.config[i])
        /\ \A s : EffectsIn(s)' = EffectsIn(s)
    BY <2>1, Zenon DEF Meant, ForGlobal, ForContexts, daemonStarted, Does, EffectsIn
  <2>4. MeantInv => MeantInv'
    BY <2>1, <2>2, <2>3, Zenon DEF MeantInv
  <2>5. SettingsInv => SettingsInv'
    BY <2>1, <2>2, <2>3, Zenon DEF SettingsInv
  <2> QED BY <2>1, <2>2, <2>4, <2>5, Zenon DEF FileInv
<1> QED BY <1>1, <1>2, <1>3, <1>4, beginsFile, executeFile, globalDoneFile, contextDoneFile, Zenon DEF SetupNext, SetupMain

LEMMA InitFile == ASSUME SetupInit PROVE FileInv
<1>1. phase = "start" /\ effects = <<>> /\ pool = 0 /\ DOMAIN effects = {} /\ effects \in Seq(Nat \X Nat)
  BY DEF SetupInit
<1>2. \A s : EffectsIn(s) = {}
  BY <1>1, Zenon DEF EffectsIn
<1>3. \A s, i : ~MadeIn(s, i)
  BY <1>1, Zenon DEF MadeIn, Beyond
<1>4. OrderInv /\ MeantInv
  BY <1>1, <1>2, <1>3, Zenon DEF OrderInv, MeantInv
<1>5. SettingsInv
  BY <1>1, Zenon DEF SettingsInv, Beyond
<1> QED BY <1>4, <1>5, Zenon DEF FileInv

\* A daemon that is ready has followed its file, whatever the file says and however
\* many contexts there are: in the global state and in each context, the calls that
\* had an effect are those the comment on setupLua means for it, once each and in
\* order, wforce has the contexts the file asks for, and setACL has replaced the
\* default where trackalert does not add it last.
THEOREM SetupFollowsFile == SetupSpec => []ConfigTakesEffect
<1>1. SetupInit => SetupInv /\ FileInv
  BY InitSetup, InitFile, Zenon
<1>2. SetupInv /\ FileInv /\ [SetupNext]_setupVars => (SetupInv /\ FileInv)'
  BY SetupStep, FileStep, Zenon
<1>3. SetupInv /\ FileInv => ConfigTakesEffect
  <2> SUFFICES ASSUME SetupInv, FileInv, phase = "ready", typed = 0 PROVE ConfigTakesEffect
    BY Zenon DEF ConfigTakesEffect
  <2>1. OrderInv /\ MeantInv /\ SettingsInv /\ ~asClient
    BY Zenon DEF SetupInv, StageInv, FileInv, Beyond
  <2>2. \A s, i : MadeIn(s, i)
    BY Zenon DEF MadeIn, Beyond
  <2>3. \A s \in 0 .. pool : EffectsIn(s) = CallsFor(s)
    BY <2>1, <2>2, Zenon DEF MeantInv, CallsFor, Meant
  <2>4. /\ daemonStarted = "wforce" => pool = states
        /\ daemonStarted # "trackalert" =>
            ("default" \notin acl <=> \E i \in DOMAIN started.config : Does(started.config[i]) = "setACL")
    BY <2>1, <2>2, Zenon DEF SettingsInv, Beyond
  <2> QED BY <2>1, <2>3, <2>4, Zenon DEF ConfigTakesEffect, OrderInv
<1> QED BY <1>1, <1>2, <1>3, PTL DEF SetupSpec

=============================================================================

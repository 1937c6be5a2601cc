--------------------------- MODULE SiblingProofs ---------------------------
(***************************************************************************)
(* A Sibling for any number of producers, messages and connections and any *)
(* size of the queue: no wakeup of its queue thread is lost, it implements *)
(* the lossy link, and it keeps the order of what it sends over one TCP    *)
(* connection.                                                             *)
(***************************************************************************)
EXTENDS Sibling, FiniteSetTheorems, SequenceTheorems, TLAPS

-----------------------------------------------------------------------------
(***************************************************************************)
(* The queue thread and its condition variable.                            *)
(***************************************************************************)

\* What the locks make true between the steps: the destructor is past its
\* first step exactly when the thread has been told to stop, and once it has
\* notified, the thread never goes back to waiting.
StopIsSeen ==
    /\ producer \in [Producers -> {"idle", "encrypt", "queue", "notify"}]
    /\ destructor \in {"none", "notify", "join", "done"}
    /\ queue_thread_run \in BOOLEAN
    /\ queue_thread_run <=> destructor = "none"
    /\ destructor \in {"join", "done"} => thread # "waiting"

WakeupInv == StopIsSeen /\ NoLostWakeup

\* The producers' steps: only queueMsg makes a waiting thread have work, and it
\* leaves its producer at the call of notify_one.
LEMMA ProducersKeepInv ==
    ASSUME WakeupInv, NEW p \in Producers,
           replicateOperation(p) \/ encryptMsgWithKey(p) \/ queueMsg(p) \/ notify_one(p)
    PROVE  WakeupInv'
<1>1. CASE replicateOperation(p)
  BY <1>1, Zenon DEF WakeupInv, StopIsSeen, NoLostWakeup, replicateOperation, netVars
<1>2. CASE encryptMsgWithKey(p)
  BY <1>2, Zenon DEF WakeupInv, StopIsSeen, NoLostWakeup, encryptMsgWithKey, netVars
<1>3. CASE queueMsg(p)
  <2>1. StopIsSeen'
    BY <1>3, Zenon DEF WakeupInv, StopIsSeen, queueMsg, netVars
  <2>2. CASE queue' = queue
    BY <1>3, <2>2, Zenon DEF WakeupInv, StopIsSeen, NoLostWakeup, queueMsg, netVars
  <2>3. CASE queue' # queue
    <3>1. producer'[p] = "notify"
      BY <1>3, <2>3, Zenon DEF WakeupInv, StopIsSeen, queueMsg
    <3>2. NoLostWakeup'
      BY <3>1, Zenon DEF NoLostWakeup
    <3> QED BY <2>1, <3>2, Zenon DEF WakeupInv
  <2> QED BY <2>1, <2>2, <2>3, Zenon DEF WakeupInv
<1>4. CASE notify_one(p)
  BY <1>4, Zenon DEF WakeupInv, StopIsSeen, NoLostWakeup, notify_one, Woken, netVars
<1> QED BY <1>1, <1>2, <1>3, <1>4, Zenon

\* The queue thread's steps: it only waits after it has seen, under the lock, an
\* empty queue and no order to stop.
LEMMA ThreadKeepsInv ==
    ASSUME WakeupInv, Take \/ SpuriousWakeup \/ Send
    PROVE  WakeupInv'
<1>1. CASE Take
  BY <1>1, Zenon DEF WakeupInv, StopIsSeen, NoLostWakeup, Take, netVars
<1>2. CASE SpuriousWakeup
  BY <1>2, Zenon DEF WakeupInv, StopIsSeen, NoLostWakeup, SpuriousWakeup, queueVars, netVars
<1>3. CASE Send
  BY <1>3 DEF WakeupInv, StopIsSeen, NoLostWakeup, Send, SendIgnored, SendSucceeds, SendUDPFails,
              WriteFails, queueVars, netVars
<1> QED BY <1>1, <1>2, <1>3, Zenon

\* The destructor's steps: it starts when no producer is inside, and between its
\* first two steps it is itself the one that will notify.
LEMMA DestructorKeepsInv ==
    ASSUME WakeupInv, destroyBegin \/ destroyNotify \/ destroyJoin
    PROVE  WakeupInv'
<1>1. CASE destroyBegin
  BY <1>1, Zenon DEF WakeupInv, StopIsSeen, NoLostWakeup, destroyBegin, netVars
<1>2. CASE destroyNotify
  BY <1>2, Zenon DEF WakeupInv, StopIsSeen, NoLostWakeup, destroyNotify, Woken, netVars
<1>3. CASE destroyJoin
  BY <1>3, Zenon DEF WakeupInv, StopIsSeen, NoLostWakeup, destroyJoin, netVars
<1> QED BY <1>1, <1>2, <1>3, Zenon

\* The network's steps touch none of it.
LEMMA NetworkKeepsInv ==
    ASSUME WakeupInv,
           \/ ConnectedLate
           \/ \E c \in Connections : ReadFrame(c) \/ ReadDatagram(c) \/ Break(c)
    PROVE  WakeupInv'
<1>1. UNCHANGED <<thread, queueVars>>
  BY Zenon DEF ConnectedLate, ReadFrame, ReadDatagram, Break
<1> QED BY <1>1, Zenon DEF WakeupInv, StopIsSeen, NoLostWakeup, queueVars

\* The queue thread of a sibling never sleeps on work: whenever it waits, its
\* queue is empty and it need not stop, or a call of notify_one by queueMsg or by
\* the destructor is still to come.
THEOREM SiblingNoLostWakeup == Spec => []NoLostWakeup
<1>1. Init => WakeupInv
  BY Zenon DEF Init, WakeupInv, StopIsSeen, NoLostWakeup
<1>2. WakeupInv /\ [Next]_vars => WakeupInv'
  <2> SUFFICES ASSUME WakeupInv, [Next]_vars PROVE WakeupInv'
    BY Zenon
  <2>1. ASSUME NEW p \in Producers,
               replicateOperation(p) \/ encryptMsgWithKey(p) \/ queueMsg(p) \/ notify_one(p)
        PROVE  WakeupInv'
    BY <2>1, ProducersKeepInv, Zenon
  <2>2. CASE Take \/ SpuriousWakeup \/ Send
    BY <2>2, ThreadKeepsInv, Zenon
  <2>3. CASE destroyBegin \/ destroyNotify \/ destroyJoin
    BY <2>3, DestructorKeepsInv, Zenon
  <2>4. CASE \/ ConnectedLate
             \/ \E c \in Connections : ReadFrame(c) \/ ReadDatagram(c) \/ Break(c)
    BY <2>4, NetworkKeepsInv, Zenon
  <2>5. CASE UNCHANGED vars
    BY <2>5, Zenon DEF WakeupInv, StopIsSeen, NoLostWakeup, vars
  <2> QED BY <2>1, <2>2, <2>3, <2>4, <2>5, Zenon DEF Next
<1>3. WakeupInv => NoLostWakeup
  BY Zenon DEF WakeupInv
<1> QED BY <1>1, <1>2, <1>3, PTL DEF Spec

-----------------------------------------------------------------------------
(***************************************************************************)
(* What travels. Messages are numbered as they enter queueMsg, so they     *)
(* move through the queue, the queue thread and the connections as         *)
(* intervals that do not overlap: what was delivered on a connection, then *)
(* what is written to it, then the message being sent, then the queue.     *)
(***************************************************************************)

\* The producers that will still hand a message over.
Handing == {q \in Producers : producer[q] \in {"encrypt", "queue"}}

HandInv ==
    /\ producer \in [Producers -> {"idle", "encrypt", "queue", "notify"}]
    /\ handed \in Nat /\ handed + Cardinality(Handing) <= MaxMessages

Increasing(seq) == \A i, j \in DOMAIN seq : i < j => seq[i] < seq[j]

QueueInv ==
    /\ queue \in Seq(Messages) /\ Len(queue) <= max_queue_size
    /\ Increasing(queue)
    /\ \A m \in Range(queue) : msg < m /\ m <= handed

ThreadInv ==
    /\ thread \in {"check", "waiting", "sending", "returned"}
    /\ msg \in 0 .. MaxMessages /\ msg <= handed
    /\ thread = "sending" => msg \in Messages

\* The messages that send has finished with.
Sent(m) == IF thread = "sending" THEN m < msg ELSE m <= msg

\* No message is on its way twice.
StreamInv ==
    /\ stream \in [Connections -> Seq(Messages)]
    /\ \A c \in Connections : Increasing(stream[c]) /\ \A m \in Range(stream[c]) : Sent(m)
    /\ \A c, d \in Connections : c # d => Range(stream[c]) \intersect Range(stream[d]) = {}

DeliveredInv ==
    /\ delivered \in Seq([msg : Messages, conn : Connections])
    /\ \A i \in DOMAIN delivered :
        /\ Sent(delivered[i].msg)
        /\ proto = "TCP" => \A m \in Range(stream[delivered[i].conn]) : delivered[i].msg < m
    /\ proto = "TCP" =>
        \A i, j \in DOMAIN delivered :
            i < j /\ delivered[i].conn = delivered[j].conn => delivered[i].msg < delivered[j].msg

RestInv ==
    /\ proto \in {"TCP", "UDP"} /\ d_ignoreself \in BOOLEAN /\ d_has_key \in BOOLEAN
    /\ queue_thread_run \in BOOLEAN
    /\ attempt \in 0 .. 1
    /\ destructor \in {"none", "notify", "join", "done"}
    /\ conn \in Connections /\ connected \in BOOLEAN /\ alive \subseteq Connections

LinkInv == HandInv /\ QueueInv /\ ThreadInv /\ StreamInv /\ DeliveredInv /\ RestInv

-----------------------------------------------------------------------------
\* The invariant holds at first.
LEMMA InitLinkInv == ASSUME Init PROVE LinkInv
<1> USE SiblingAssumption
<1>1. HandInv
  <2>1. Handing = {}
    BY Zenon DEF Init, Handing
  <2>2. Cardinality(Handing) = 0
    BY <2>1, FS_EmptySet, Zenon
  <2> QED BY <2>2 DEF Init, HandInv
<1>2. QueueInv /\ ThreadInv
  BY DEF Init, QueueInv, ThreadInv, Increasing, Range
<1>3. StreamInv /\ DeliveredInv
  BY DEF Init, StreamInv, DeliveredInv, Increasing, Connections, Range
<1>4. RestInv
  <2>1. connected \in BOOLEAN
    BY Zenon DEF Init
  <2>2. 1 \in Connections
    BY DEF Connections
  <2> QED BY <2>1, <2>2 DEF Init, RestInv
<1> QED BY <1>1, <1>2, <1>3, <1>4, Zenon DEF LinkInv

\* A step that touches neither the messages nor the streams.
LEMMA OthersKeepMessages ==
    ASSUME LinkInv, UNCHANGED <<queue, msg, handed, stream, delivered, proto>>,
           thread' \in {"check", "waiting", "sending", "returned"}, thread' = "sending" <=> thread = "sending"
    PROVE  QueueInv' /\ ThreadInv' /\ StreamInv' /\ DeliveredInv'
<1>1. \A m : Sent(m)' <=> Sent(m)
  BY Zenon DEF Sent
<1>2. QueueInv' /\ ThreadInv'
  BY Zenon DEF LinkInv, QueueInv, ThreadInv, Increasing
<1>3. StreamInv'
  BY <1>1, Zenon DEF LinkInv, StreamInv, Increasing
<1>4. DeliveredInv'
  BY <1>1, Zenon DEF LinkInv, DeliveredInv
<1> QED BY <1>2, <1>3, <1>4, Zenon

LEMMA HandingFinite == IsFiniteSet(Handing) /\ Cardinality(Handing) \in Nat
<1>1. Handing \in SUBSET Producers
  BY Zenon DEF Handing
<1>2. IsFiniteSet(Handing)
  BY <1>1, FS_Subset, SiblingAssumption, Zenon
<1> QED BY <1>2, FS_CardinalityType, Zenon

LEMMA ProducersKeepHandInv ==
    ASSUME HandInv, NEW p \in Producers,
           replicateOperation(p) \/ encryptMsgWithKey(p) \/ queueMsg(p) \/ notify_one(p)
    PROVE  HandInv' /\ (producer[p] = "queue" => handed + 1 \in Messages)
<1> USE SiblingAssumption, HandingFinite
<1>1. producer' \in [Producers -> {"idle", "encrypt", "queue", "notify"}]
  BY Zenon DEF HandInv, replicateOperation, encryptMsgWithKey, queueMsg, notify_one
<1>2. \A q \in Producers \ {p} : producer'[q] = producer[q]
  BY Zenon DEF HandInv, replicateOperation, encryptMsgWithKey, queueMsg, notify_one
<1>3. ASSUME producer[p] = "queue" PROVE handed + 1 \in Messages
  <2>1. p \in Handing
    BY <1>3, Zenon DEF Handing
  <2>2. Cardinality(Handing) # 0
    BY <2>1, FS_EmptySet, Zenon
  <2> QED BY <2>2 DEF HandInv, Messages
<1>4. CASE replicateOperation(p)
  <2>1. Handing' = Handing \union {p} /\ p \notin Handing
    BY <1>2, <1>4, Zenon DEF Handing, replicateOperation, HandInv
  <2>2. Cardinality(Handing') = Cardinality(Handing) + 1
    BY <2>1, FS_AddElement, Zenon
  <2>3. handed + Cardinality(Handing) < MaxMessages /\ handed' = handed
    BY <1>4, Zenon DEF replicateOperation, Handing
  <2> QED BY <1>1, <1>3, <2>2, <2>3 DEF HandInv
<1>5. CASE encryptMsgWithKey(p) \/ notify_one(p)
  <2>1. Handing' = Handing /\ handed' = handed
    BY <1>2, <1>5, Zenon DEF Handing, encryptMsgWithKey, notify_one, HandInv
  <2> QED BY <1>1, <1>3, <2>1, Zenon DEF HandInv
<1>6. CASE queueMsg(p)
  <2>1. Handing' = Handing \ {p} /\ p \in Handing
    BY <1>2, <1>6, Zenon DEF Handing, queueMsg, HandInv
  <2>2. Cardinality(Handing') = Cardinality(Handing) - 1
    BY <2>1, FS_RemoveElement, Zenon
  <2>3. handed' = handed + 1
    BY <1>6, Zenon DEF queueMsg
  <2> QED BY <1>1, <1>3, <2>2, <2>3 DEF HandInv
<1> QED BY <1>4, <1>5, <1>6, Zenon

-----------------------------------------------------------------------------
\* Sequences that lose an element or get one at the end.
LEMMA AppendFacts ==
    ASSUME NEW s \in Seq(Messages), Increasing(s), NEW m \in Messages, \A x \in Range(s) : x < m
    PROVE  /\ Append(s, m) \in Seq(Messages) /\ Increasing(Append(s, m))
           /\ Range(Append(s, m)) = Range(s) \union {m}
<1>1. /\ Append(s, m) \in Seq(Messages) /\ DOMAIN Append(s, m) = 1 .. Len(s) + 1 /\ DOMAIN s = 1 .. Len(s)
      /\ Append(s, m)[Len(s) + 1] = m /\ \A i \in 1 .. Len(s) : Append(s, m)[i] = s[i]
  OBVIOUS
<1>2. Len(s) \in Nat
  OBVIOUS
<1> HIDE DEF Messages
<1>3. Increasing(Append(s, m))
  BY <1>1, <1>2 DEF Increasing, Range
<1>4. Range(Append(s, m)) = Range(s) \union {m}
  <2>1. ASSUME NEW x \in Range(Append(s, m)) PROVE x \in Range(s) \union {m}
    <3>1. PICK i \in 1 .. Len(s) + 1 : x = Append(s, m)[i]
      BY <1>1, <2>1, Zenon DEF Range
    <3>2. i = Len(s) + 1 \/ i \in 1 .. Len(s)
      BY <1>2
    <3> QED BY <1>1, <3>1, <3>2, Zenon DEF Range
  <2>2. ASSUME NEW x \in Range(s) PROVE x \in Range(Append(s, m))
    <3>1. PICK i \in 1 .. Len(s) : x = s[i]
      BY <1>1, <2>2, Zenon DEF Range
    <3>2. i \in 1 .. Len(s) + 1
      BY <1>2
    <3> QED BY <1>1, <3>1, <3>2, Zenon DEF Range
  <2>3. m \in Range(Append(s, m))
    <3>1. Len(s) + 1 \in 1 .. Len(s) + 1
      BY <1>2
    <3> QED BY <1>1, <3>1, Zenon DEF Range
  <2> QED BY <2>1, <2>2, <2>3, Zenon
<1> QED BY <1>1, <1>3, <1>4, Zenon

\* t is s without its element at i.
IsWithout(t, s, i) ==
    /\ t \in Seq(Messages) /\ Len(t) = Len(s) - 1
    /\ \A k \in 1 .. Len(t) : t[k] = IF k < i THEN s[k] ELSE s[k + 1]

LEMMA WithoutFacts ==
    ASSUME NEW s \in Seq(Messages), Increasing(s), NEW t, NEW i \in DOMAIN s, IsWithout(t, s, i)
    PROVE  Increasing(t) /\ Range(t) = Range(s) \ {s[i]} /\ Range(t) \subseteq Range(s)
<1>1. DOMAIN s = 1 .. Len(s) /\ Len(s) \in Nat /\ DOMAIN t = 1 .. Len(s) - 1 /\ i \in 1 .. Len(s)
  BY DEF IsWithout
<1>2. \A k \in 1 .. Len(s) : s[k] \in Messages /\ s[k] \in Int
  <2>1. Messages \subseteq Int
    BY SiblingAssumption DEF Messages
  <2>2. \A k \in 1 .. Len(s) : s[k] \in Messages
    OBVIOUS
  <2> QED BY <2>1, <2>2, Zenon
<1>3. \A k \in DOMAIN t : t[k] = IF k < i THEN s[k] ELSE s[k + 1]
  BY <1>1, Zenon DEF IsWithout
<1>4. \A j, k \in 1 .. Len(s) : j < k => s[j] < s[k]
  BY <1>1, Zenon DEF Increasing
<1>5. Increasing(t)
  <2>1. ASSUME NEW j \in 1 .. Len(t), NEW k \in 1 .. Len(t), j < k
        PROVE  t[j] < t[k]
    <3> DEFINE at(x) == IF x < i THEN x ELSE x + 1
    <3>1. at(j) \in 1 .. Len(s) /\ at(k) \in 1 .. Len(s) /\ at(j) < at(k)
      BY <1>1, <1>2, <2>1
    <3>2. t[j] = s[at(j)] /\ t[k] = s[at(k)]
      BY <1>2, <1>3
    <3> HIDE DEF at
    <3> QED BY <1>4, <3>1, <3>2, Zenon
  <2> QED BY <2>1 DEF Increasing
<1>6. ASSUME NEW x \in Range(t) PROVE x \in Range(s) /\ x # s[i]
  <2>1. PICK k \in 1 .. Len(s) - 1 : x = t[k]
    BY <1>1, <1>6, Zenon DEF Range
  <2>2. CASE k < i
    <3>1. k \in 1 .. Len(s) /\ x = s[k]
      BY <1>1, <1>3, <2>1, <2>2
    <3>2. s[k] < s[i] /\ s[k] \in Int /\ s[i] \in Int
      BY <1>1, <1>2, <1>4, <2>2, <3>1, Zenon
    <3> QED BY <1>1, <3>1, <3>2 DEF Range
  <2>3. CASE ~(k < i)
    <3>1. k + 1 \in 1 .. Len(s) /\ i < k + 1
      BY <1>1, <2>3
    <3>2. x = s[k + 1]
      BY <1>1, <1>3, <2>1, <2>3, Zenon
    <3>3. s[i] < s[k + 1] /\ s[k + 1] \in Int /\ s[i] \in Int
      BY <1>1, <1>2, <1>4, <3>1, Zenon
    <3> QED BY <1>1, <3>1, <3>2, <3>3 DEF Range
  <2> QED BY <2>2, <2>3, Zenon
<1>7. ASSUME NEW x \in Range(s), x # s[i] PROVE x \in Range(t)
  <2>1. PICK k \in 1 .. Len(s) : x = s[k]
    BY <1>1, <1>7, Zenon DEF Range
  <2>2. CASE k < i
    <3>1. k \in DOMAIN t
      BY <1>1, <2>2
    <3> QED BY <1>3, <2>1, <2>2, <3>1, Zenon DEF Range
  <2>3. CASE k > i
    <3>1. k - 1 \in DOMAIN t /\ ~(k - 1 < i) /\ (k - 1) + 1 = k
      BY <1>1, <2>3
    <3> QED BY <1>3, <2>1, <3>1, Zenon DEF Range
  <2> QED BY <1>1, <1>7, <2>1, <2>2, <2>3
<1> QED BY <1>5, <1>6, <1>7, Zenon

\* The head of an increasing sequence is smaller than the rest.
LEMMA TailFacts ==
    ASSUME NEW s \in Seq(Messages), s # <<>>, Increasing(s)
    PROVE  /\ Head(s) \in Range(s) /\ Tail(s) \in Seq(Messages) /\ Len(Tail(s)) = Len(s) - 1
           /\ Increasing(Tail(s)) /\ Range(Tail(s)) = Range(s) \ {Head(s)}
           /\ \A x \in Range(Tail(s)) : Head(s) < x
<1>1. Len(s) \in Nat /\ Len(s) # 0 /\ 1 \in DOMAIN s /\ Head(s) = s[1]
  OBVIOUS
<1>2. IsWithout(Tail(s), s, 1)
  BY <1>1 DEF IsWithout
<1>3. Head(s) \in Range(s) /\ Increasing(Tail(s)) /\ Range(Tail(s)) = Range(s) \ {Head(s)}
  BY <1>1, <1>2, WithoutFacts, Zenon DEF Range
<1>4. ASSUME NEW x \in Range(s), x # Head(s) PROVE Head(s) < x
  <2>1. PICK k \in DOMAIN s : x = s[k]
    BY <1>4, Zenon DEF Range
  <2>2. 1 < k
    BY <1>1, <1>4, <2>1
  <2> QED BY <1>1, <2>1, <2>2, Zenon DEF Increasing
<1> QED BY <1>2, <1>3, <1>4, Zenon DEF IsWithout

LEMMA CutFacts ==
    ASSUME NEW s \in Seq(Messages), NEW i \in DOMAIN s
    PROVE  IsWithout(SubSeq(s, 1, i - 1) \o SubSeq(s, i + 1, Len(s)), s, i)
<1> DEFINE a == SubSeq(s, 1, i - 1)
           b == SubSeq(s, i + 1, Len(s))
<1>1. i \in 1 .. Len(s) /\ Len(s) \in Nat
  OBVIOUS
<1>2. a \in Seq(Messages) /\ Len(a) = i - 1 /\ \A k \in 1 .. i - 1 : a[k] = s[k]
  BY <1>1
<1>3. b \in Seq(Messages) /\ Len(b) = Len(s) - i /\ \A k \in 1 .. Len(s) - i : b[k] = s[k + i]
  BY <1>1
<1> HIDE DEF a, b
<1>4. a \o b \in Seq(Messages) /\ Len(a \o b) = Len(s) - 1
  BY <1>1, <1>2, <1>3
<1>5. \A k \in 1 .. Len(s) - 1 : (a \o b)[k] = IF k < i THEN s[k] ELSE s[k + 1]
  <2> TAKE k \in 1 .. Len(s) - 1
  <2>1. CASE k < i
    BY <1>1, <1>2, <1>3, <2>1
  <2>2. CASE ~(k < i)
    <3>1. k - Len(a) \in 1 .. Len(b) /\ (k - Len(a)) + i = k + 1
      BY <1>1, <1>2, <1>3, <2>2
    <3>2. k \in 1 .. Len(a) + Len(b) /\ ~(k <= Len(a))
      BY <1>1, <1>2, <1>3, <2>2
    <3>3. (a \o b)[k] = b[k - Len(a)]
      BY <1>2, <1>3, <3>2, ConcatProperties, Zenon
    <3> QED BY <1>3, <2>2, <3>1, <3>3, Zenon
  <2> QED BY <2>1, <2>2, Zenon
<1>6. IsWithout(a \o b, s, i)
  BY <1>4, <1>5, Zenon DEF IsWithout
<1> QED BY <1>6, Zenon DEF a, b

-----------------------------------------------------------------------------
\* What the steps do to the link.
LEMMA LinkStutters ==
    ASSUME Underway' = Underway, UNCHANGED <<handed, delivered, proto>>
    PROVE  UNCHANGED Link!vars
  BY Zenon DEF Link!vars

LEMMA LinkLoses ==
    ASSUME Underway' \subseteq Underway, UNCHANGED <<handed, delivered, proto>>
    PROVE  Link!Next
<1>1. Link!Lose
  BY Zenon DEF Link!Lose
<1> QED BY <1>1, Zenon DEF Link!Next

LEMMA LinkDelivers ==
    ASSUME LinkInv, NEW m \in Messages, NEW c \in Connections, m \in Underway,
           delivered' = Append(delivered, [msg |-> m, conn |-> c]), UNCHANGED <<handed, proto>>,
           Underway' = Underway \ {m} \/ (proto = "UDP" /\ Underway' = Underway)
    PROVE  Link!Next
<1> DEFINE D == {delivered[i].msg : i \in DOMAIN delivered}
<1>1. /\ delivered \in Seq([msg : Messages, conn : Connections])
      /\ [msg |-> m, conn |-> c] \in [msg : Messages, conn : Connections]
  BY Zenon DEF LinkInv, DeliveredInv
<1> DEFINE new == [msg |-> m, conn |-> c]
<1>2. /\ DOMAIN delivered' = 1 .. Len(delivered) + 1 /\ DOMAIN delivered = 1 .. Len(delivered) /\ Len(delivered) \in Nat
      /\ delivered'[Len(delivered) + 1] = new
      /\ \A i \in 1 .. Len(delivered) : delivered'[i] = delivered[i]
  BY <1>1
<1>3. D' = D \union {m}
  <2>1. ASSUME NEW x \in D' PROVE x \in D \union {m}
    <3>1. PICK i \in 1 .. Len(delivered) + 1 : x = delivered'[i].msg
      BY <1>2, <2>1, Zenon
    <3>2. i = Len(delivered) + 1 \/ i \in 1 .. Len(delivered)
      BY <1>2
    <3> QED BY <1>2, <3>1, <3>2
  <2>2. ASSUME NEW x \in D PROVE x \in D'
    <3>1. PICK i \in 1 .. Len(delivered) : x = delivered[i].msg
      BY <1>2, <2>2, Zenon
    <3>2. i \in 1 .. Len(delivered) + 1
      BY <1>2
    <3> QED BY <1>2, <3>1, <3>2, Zenon
  <2>3. m \in D'
    <3>1. Len(delivered) + 1 \in 1 .. Len(delivered) + 1
      BY <1>2
    <3> QED BY <1>2, <3>1
  <2> QED BY <2>1, <2>2, <2>3, Zenon
<1>4. Link!Deliver(m)
  BY <1>3, Zenon DEF Link!Deliver
<1> QED BY <1>4, Zenon DEF Link!Next

LEMMA DeliveredType ==
    ASSUME DeliveredInv, NEW i \in DOMAIN delivered
    PROVE  delivered[i].msg \in Messages /\ delivered[i].conn \in Connections
<1> DEFINE Frame == [msg : Messages, conn : Connections]
<1>1. delivered \in Seq(Frame)
  BY Zenon DEF DeliveredInv
<1> HIDE DEF Frame
<1>2. delivered[i] \in Frame
  BY <1>1
<1> QED BY <1>2, Zenon DEF Frame

LEMMA LinkHands ==
    ASSUME LinkInv, handed + 1 \in Messages, handed' = handed + 1, UNCHANGED <<delivered, proto>>,
           Underway' \in {Underway, Underway \union {handed + 1}}
    PROVE  Link!Next
<1>1. handed \in Nat
  BY Zenon DEF LinkInv, HandInv
<1>2. handed + 1 \notin 1 .. handed /\ 1 .. handed' = (1 .. handed) \union {handed + 1}
  BY <1>1
<1>3. Link!Hand(handed + 1)
  BY <1>2, Zenon DEF Link!Hand
<1> QED BY <1>3, Zenon DEF Link!Next

-----------------------------------------------------------------------------
\* The actions: each keeps the invariant and is a step of the link or a stutter.
LinkStep == LinkInv' /\ (Link!Next \/ UNCHANGED Link!vars)

\* A step that moves no message.
LEMMA NothingMoves ==
    ASSUME LinkInv, HandInv', RestInv', UNCHANGED <<queue, msg, handed, stream, delivered, proto>>,
           thread' \in {"check", "waiting", "sending", "returned"}, thread' = "sending" <=> thread = "sending"
    PROVE  LinkStep
<1>1. LinkInv'
  BY OthersKeepMessages, Zenon DEF LinkInv
<1>2. Underway' = Underway
  BY Zenon DEF Underway
<1> QED BY <1>1, <1>2, LinkStutters, Zenon DEF LinkStep

LEMMA ProducerStep ==
    ASSUME LinkInv, NEW p \in Producers, replicateOperation(p) \/ encryptMsgWithKey(p) \/ notify_one(p)
    PROVE  LinkStep
<1>1. HandInv'
  BY ProducersKeepHandInv, Zenon DEF LinkInv
<1>2. UNCHANGED <<queue, queue_thread_run, msg, attempt, destructor, handed, netVars>> /\ thread' \in {thread, Woken}
  BY Zenon DEF replicateOperation, encryptMsgWithKey, notify_one
<1>3. RestInv'
  BY <1>2, Zenon DEF LinkInv, RestInv, netVars
<1>4. thread' \in {"check", "waiting", "sending", "returned"} /\ (thread' = "sending" <=> thread = "sending")
  BY <1>2, Zenon DEF LinkInv, ThreadInv, Woken
<1> QED BY <1>1, <1>2, <1>3, <1>4, NothingMoves, Zenon DEF netVars

LEMMA QueueStep ==
    ASSUME LinkInv, NEW p \in Producers, queueMsg(p)
    PROVE  LinkStep
<1>1. HandInv' /\ handed + 1 \in Messages
  BY ProducersKeepHandInv, Zenon DEF LinkInv, queueMsg
<1>2. /\ handed' = handed + 1 /\ handed \in Nat /\ msg \in Nat /\ msg <= handed
      /\ UNCHANGED <<queue_thread_run, thread, msg, attempt, destructor, netVars>>
  BY SiblingAssumption DEF queueMsg, LinkInv, HandInv, ThreadInv
<1>3. RestInv' /\ ThreadInv'
  BY <1>2, SiblingAssumption DEF LinkInv, RestInv, ThreadInv, netVars
<1>4. \A m : Sent(m)' <=> Sent(m)
  BY <1>2, Zenon DEF Sent
<1>5. StreamInv' /\ DeliveredInv'
  BY <1>2, <1>4, Zenon DEF LinkInv, StreamInv, DeliveredInv, netVars
<1>6. /\ queue \in Seq(Messages) /\ Increasing(queue) /\ Len(queue) \in Nat /\ Len(queue) <= max_queue_size
      /\ \A m \in Range(queue) : msg < m /\ m <= handed
  BY DEF LinkInv, QueueInv
<1>7. \A m \in Range(queue) : m \in Int /\ m < handed + 1 /\ m <= handed + 1
  <2> TAKE m \in Range(queue)
  <2>1. m \in Messages
    BY <1>6 DEF Range
  <2>2. m \in Int
    BY <2>1, SiblingAssumption DEF Messages
  <2> QED BY <1>2, <1>6, <2>2
<1>8. CASE queue' = queue
  <2>1. QueueInv'
    BY <1>2, <1>6, <1>7, <1>8, Zenon DEF QueueInv
  <2>2. Underway' = Underway
    BY <1>2, <1>8 DEF Underway, netVars
  <2>3. Link!Next
    BY <1>1, <1>2, <2>2, LinkHands, Zenon DEF netVars
  <2> QED BY <1>1, <1>3, <1>5, <2>1, <2>3, Zenon DEF LinkStep, LinkInv
<1>9. CASE queue' = Append(queue, handed + 1) /\ Len(queue) < max_queue_size
  <2>2. queue' \in Seq(Messages) /\ Increasing(queue') /\ Range(queue') = Range(queue) \union {handed + 1}
    BY <1>1, <1>6, <1>7, <1>9, AppendFacts, Zenon
  <2>3. Len(queue') <= max_queue_size
    BY <1>1, <1>6, <1>9, SiblingAssumption
  <2>4. \A m \in Range(queue') : msg < m /\ m <= handed + 1
    <3>1. msg < handed + 1 /\ handed + 1 <= handed + 1
      BY <1>2
    <3> QED BY <1>6, <1>7, <2>2, <3>1, Zenon
  <2>5. QueueInv'
    BY <1>2, <2>2, <2>3, <2>4, Zenon DEF QueueInv, Increasing
  <2>6. Underway' = Underway \union {handed + 1}
    BY <1>2, <2>2, Zenon DEF Underway, netVars
  <2>7. Link!Next
    BY <1>1, <1>2, <2>6, LinkHands, Zenon DEF netVars
  <2> QED BY <1>1, <1>3, <1>5, <2>5, <2>7, Zenon DEF LinkStep, LinkInv
<1>10. queue' = queue \/ (queue' = Append(queue, handed + 1) /\ Len(queue) < max_queue_size)
  BY <1>6, SiblingAssumption DEF queueMsg
<1> QED BY <1>8, <1>9, <1>10, Zenon

LEMMA TakeStep == ASSUME LinkInv, Take PROVE LinkStep
<1>1. UNCHANGED <<queue_thread_run, producer, destructor, handed, netVars>> /\ thread = "check"
  BY Zenon DEF Take
<1>2. HandInv'
  BY <1>1, Zenon DEF LinkInv, HandInv, Handing
<1>3. CASE thread' \in {"returned", "waiting"} /\ UNCHANGED <<queue, msg, attempt>>
  <2>1. RestInv'
    BY <1>1, <1>3, Zenon DEF LinkInv, RestInv, netVars
  <2> QED BY <1>1, <1>2, <1>3, <2>1, NothingMoves, Zenon DEF netVars
<1>4. CASE queue # <<>> /\ thread' = "sending" /\ msg' = Head(queue) /\ queue' = Tail(queue) /\ attempt' = 0
  <2>1. queue \in Seq(Messages) /\ Increasing(queue) /\ Len(queue) \in Nat /\ Len(queue) <= max_queue_size
    BY DEF LinkInv, QueueInv
  <2>2. /\ Head(queue) \in Range(queue) /\ Tail(queue) \in Seq(Messages) /\ Len(Tail(queue)) = Len(queue) - 1
        /\ Increasing(Tail(queue)) /\ Range(Tail(queue)) = Range(queue) \ {Head(queue)}
        /\ \A x \in Range(Tail(queue)) : Head(queue) < x
    BY <1>4, <2>1, TailFacts, Zenon
  <2>3. msg < msg' /\ msg' <= handed /\ msg' \in Messages /\ msg \in Nat /\ msg' \in Nat
    BY <1>4, <2>1, <2>2, SiblingAssumption DEF LinkInv, QueueInv, ThreadInv, Messages
  <2>4. QueueInv'
    <3>1. Len(queue') <= max_queue_size
      BY <1>4, <2>1, <2>2, SiblingAssumption
    <3>2. \A m \in Range(queue') : msg' < m /\ m <= handed
      BY <1>4, <2>2, Zenon DEF LinkInv, QueueInv
    <3> QED BY <1>1, <1>4, <2>2, <3>1, <3>2, Zenon DEF QueueInv, Increasing
  <2>5. ThreadInv'
    BY <1>1, <1>4, <2>3, SiblingAssumption DEF ThreadInv, Messages
  <2>6. ASSUME NEW m \in Messages, Sent(m) PROVE Sent(m)'
    BY <1>1, <1>4, <2>3, <2>6, SiblingAssumption DEF Sent, Messages
  <2>7. \A c \in Connections : Range(stream[c]) \subseteq Messages
    BY DEF LinkInv, StreamInv, Range
  <2>8. StreamInv'
    BY <1>1, <2>6, <2>7, Zenon DEF LinkInv, StreamInv, netVars, Increasing
  <2>9. DeliveredInv'
    BY <1>1, <2>6, DeliveredType, Zenon DEF LinkInv, DeliveredInv, netVars
  <2>10. RestInv'
    BY <1>1, <1>4 DEF LinkInv, RestInv, netVars
  <2>11. Underway' = Underway
    BY <1>1, <1>4, <2>2, Zenon DEF Underway, netVars
  <2> QED BY <1>1, <1>2, <2>4, <2>5, <2>8, <2>9, <2>10, <2>11, LinkStutters, Zenon DEF LinkStep, LinkInv, netVars
<1> QED BY <1>3, <1>4, Zenon DEF Take

\* After the send, the message is one of those that are done with.
LEMMA SentGrows ==
    ASSUME LinkInv, thread = "sending", thread' = "check", msg' = msg
    PROVE  /\ msg \in Messages /\ msg <= msg /\ \A m : Sent(m)' <=> m <= msg
           /\ \A m \in Messages : Sent(m) => m < msg /\ m <= msg
<1>1. msg \in Messages
  BY Zenon DEF LinkInv, ThreadInv
<1>2. msg \in Int /\ Messages \subseteq Int
  BY <1>1, SiblingAssumption DEF Messages
<1> QED BY <1>1, <1>2 DEF Sent

LEMMA SendStep == ASSUME LinkInv, Send PROVE LinkStep
<1>1. UNCHANGED <<msg, queueVars, proto, d_ignoreself, d_has_key, delivered>> /\ thread = "sending"
  BY Zenon DEF Send, SendIgnored, SendSucceeds, SendUDPFails, WriteFails, netVars
<1>2. HandInv'
  BY <1>1, Zenon DEF LinkInv, HandInv, Handing, queueVars
<1>3. QueueInv'
  BY <1>1, Zenon DEF LinkInv, QueueInv, Increasing, queueVars
<1>4. CASE WriteFails /\ attempt = 0
  <2>1. attempt' = 1 /\ UNCHANGED <<thread, stream>> /\ connectSibling
    BY <1>4, Zenon DEF WriteFails
  <2>2. connected' \in BOOLEAN
    BY <2>1, Zenon DEF connectSibling
  <2>3. conn' \in Connections
    <3>1. connected' => conn < MaxConnections
      BY <2>1, Zenon DEF connectSibling
    <3>2. conn' = conn \/ (conn < MaxConnections /\ conn' = conn + 1)
      BY <2>1, <2>2, <3>1, Zenon DEF connectSibling
    <3> QED BY <3>2, SiblingAssumption DEF LinkInv, RestInv, Connections
  <2>4. alive' \subseteq Connections
    BY <2>1, <2>3, Zenon DEF connectSibling, LinkInv, RestInv
  <2>5. RestInv'
    BY <1>1, <2>1, <2>2, <2>3, <2>4 DEF LinkInv, RestInv, queueVars
  <2> QED BY <1>1, <1>2, <2>1, <2>5, NothingMoves, Zenon DEF queueVars
<1>5. ASSUME thread' = "check", RestInv' PROVE ThreadInv' /\ \A m \in Messages : Sent(m) => Sent(m)'
  BY <1>1, <1>5, SentGrows, Zenon DEF LinkInv, ThreadInv, queueVars
<1>6. \A c \in Connections : Range(stream[c]) \subseteq Messages
  BY DEF LinkInv, StreamInv, Range
<1>7. CASE thread' = "check" /\ RestInv' /\ stream' = stream
  <2>1. StreamInv'
    BY <1>5, <1>6, <1>7, Zenon DEF LinkInv, StreamInv, Increasing
  <2>2. DeliveredInv'
    BY <1>1, <1>5, <1>7, DeliveredType, Zenon DEF LinkInv, DeliveredInv
  <2>3. Underway' \subseteq Underway
    BY <1>1, <1>7 DEF Underway, queueVars
  <2>4. Link!Next
    BY <1>1, <2>3, LinkLoses, Zenon DEF queueVars
  <2> QED BY <1>2, <1>3, <1>5, <1>7, <2>1, <2>2, <2>4, Zenon DEF LinkStep, LinkInv
<1>8. CASE thread' = "check" /\ RestInv' /\ stream' = [stream EXCEPT ![conn] = Append(@, msg)]
  <2>1. /\ msg \in Messages /\ msg <= msg /\ \A m : Sent(m)' <=> m <= msg
        /\ \A m \in Messages : Sent(m) => m < msg /\ m <= msg
    BY <1>1, <1>8, SentGrows, Zenon
  <2>2. conn \in Connections /\ stream[conn] \in Seq(Messages) /\ Increasing(stream[conn])
    BY Zenon DEF LinkInv, RestInv, StreamInv
  <2>3. \A c \in Connections : \A m \in Range(stream[c]) : Sent(m) /\ m \in Messages /\ m < msg /\ m <= msg
    BY <1>6, <2>1, Zenon DEF LinkInv, StreamInv
  <2>4. /\ Append(stream[conn], msg) \in Seq(Messages) /\ Increasing(Append(stream[conn], msg))
        /\ Range(Append(stream[conn], msg)) = Range(stream[conn]) \union {msg}
    BY <2>1, <2>2, <2>3, AppendFacts, Zenon
  <2>5. /\ stream' \in [Connections -> Seq(Messages)] /\ stream'[conn] = Append(stream[conn], msg)
        /\ \A c \in Connections \ {conn} : stream'[c] = stream[c]
    BY <1>8, <2>2, <2>4, Zenon DEF LinkInv, StreamInv
  <2>6. \A c \in Connections : Increasing(stream'[c]) /\ Range(stream'[c]) \subseteq Range(stream[c]) \union {msg}
    BY <2>4, <2>5, Zenon DEF LinkInv, StreamInv
  <2>7. \A c \in Connections : \A m \in Range(stream'[c]) : Sent(m)'
    BY <2>1, <2>3, <2>6, Zenon
  <2>8. \A c \in Connections : msg \notin Range(stream[c])
    <3> SUFFICES ASSUME NEW c \in Connections, msg \in Range(stream[c]) PROVE FALSE
      BY Zenon
    <3>1. msg < msg /\ msg \in Int
      BY <2>1, <2>3, SiblingAssumption DEF Messages
    <3> QED BY <3>1
  <2>9. \A c, d \in Connections : c # d => Range(stream'[c]) \intersect Range(stream'[d]) = {}
    <3> TAKE c, d \in Connections
    <3> HAVE c # d
    <3>1. Range(stream[c]) \intersect Range(stream[d]) = {}
      BY Zenon DEF LinkInv, StreamInv
    <3>2. CASE c = conn
      BY <2>4, <2>5, <2>8, <3>1, <3>2, Zenon
    <3>3. CASE d = conn
      BY <2>4, <2>5, <2>8, <3>1, <3>3, Zenon
    <3>4. CASE c # conn /\ d # conn
      BY <2>5, <3>1, <3>4, Zenon
    <3> QED BY <3>2, <3>3, <3>4, Zenon
  <2>10. StreamInv'
    BY <2>5, <2>6, <2>7, <2>9, Zenon DEF StreamInv, Increasing
  <2>11. DeliveredInv'
    <3>1. \A i \in DOMAIN delivered : delivered[i].msg <= msg /\ delivered[i].msg < msg
      BY <2>1, DeliveredType, Zenon DEF LinkInv, DeliveredInv
    <3>2. ASSUME proto = "TCP", NEW i \in DOMAIN delivered, NEW m \in Range(stream'[delivered[i].conn])
          PROVE  delivered[i].msg < m
      <4>1. delivered[i].conn \in Connections
        BY DeliveredType, Zenon DEF LinkInv
      <4>2. m \in Range(stream[delivered[i].conn]) \/ m = msg
        BY <2>6, <4>1, Zenon
      <4> QED BY <3>1, <3>2, <4>2, Zenon DEF LinkInv, DeliveredInv
    <3> QED BY <1>1, <2>1, <3>1, <3>2, Zenon DEF LinkInv, DeliveredInv
  <2>12. Underway' = Underway
    BY <1>1, <1>8, <2>2, <2>4, <2>5 DEF Underway, queueVars
  <2> QED BY <1>1, <1>2, <1>3, <1>5, <1>8, <2>10, <2>11, <2>12, LinkStutters, Zenon DEF LinkStep, LinkInv, queueVars
<1>9. CASE ~(WriteFails /\ attempt = 0)
  <2>1. RestInv' /\ thread' = "check"
    BY <1>9 DEF Send, SendIgnored, SendSucceeds, SendUDPFails, WriteFails, netVars, queueVars, LinkInv, RestInv
  <2>2. stream' = stream \/ stream' = [stream EXCEPT ![conn] = Append(@, msg)]
    BY Zenon DEF Send, SendIgnored, SendSucceeds, SendUDPFails, WriteFails, netVars
  <2> QED BY <1>7, <1>8, <2>1, <2>2, Zenon
<1> QED BY <1>4, <1>9, Zenon

\* Everything but the streams and what was delivered.
LEMMA SenderStays ==
    ASSUME LinkInv, UNCHANGED <<thread, msg, attempt, queueVars, proto, d_ignoreself, d_has_key, conn, connected>>,
           alive' \subseteq alive
    PROVE  HandInv' /\ QueueInv' /\ ThreadInv' /\ RestInv' /\ \A m : Sent(m)' <=> Sent(m)
<1>1. HandInv' /\ QueueInv' /\ ThreadInv'
  BY Zenon DEF LinkInv, HandInv, Handing, QueueInv, ThreadInv, Increasing, queueVars
<1>2. RestInv'
  BY Zenon DEF LinkInv, RestInv, queueVars
<1>3. \A m : Sent(m)' <=> Sent(m)
  BY Zenon DEF Sent
<1> QED BY <1>1, <1>2, <1>3, Zenon

LEMMA StreamShrinks ==
    ASSUME LinkInv, NEW c \in Connections, NEW t \in Seq(Messages), stream' = [stream EXCEPT ![c] = t],
           Increasing(t), Range(t) \subseteq Range(stream[c]), \A m : Sent(m)' <=> Sent(m)
    PROVE  /\ StreamInv' /\ stream'[c] = t
           /\ \A d \in Connections \ {c} : stream'[d] = stream[d]
           /\ \A d \in Connections : Range(stream'[d]) \subseteq Range(stream[d])
<1>1. /\ stream' \in [Connections -> Seq(Messages)] /\ stream'[c] = t
      /\ \A d \in Connections \ {c} : stream'[d] = stream[d]
  BY Zenon DEF LinkInv, StreamInv
<1>2. \A d \in Connections : Increasing(stream'[d]) /\ Range(stream'[d]) \subseteq Range(stream[d])
  BY <1>1, Zenon DEF LinkInv, StreamInv
<1>3. \A d \in Connections : \A m \in Range(stream'[d]) : Sent(m)'
  BY <1>2, Zenon DEF LinkInv, StreamInv
<1>4. \A d, e \in Connections : d # e => Range(stream'[d]) \intersect Range(stream'[e]) = {}
  BY <1>2 DEF LinkInv, StreamInv
<1>5. StreamInv'
  BY <1>1, <1>2, <1>3, <1>4, Zenon DEF StreamInv, Increasing
<1> QED BY <1>1, <1>2, <1>5, Zenon

\* A message is read from a connection: over TCP it came after all that was read
\* from it, and before what is still to be read.
LEMMA DeliveredGrows ==
    ASSUME LinkInv, NEW c \in Connections, NEW m \in Range(stream[c]), UNCHANGED proto,
           delivered' = Append(delivered, [msg |-> m, conn |-> c]),
           \A x : Sent(x)' <=> Sent(x),
           \A d \in Connections : Range(stream'[d]) \subseteq Range(stream[d]),
           proto = "TCP" => \A x \in Range(stream'[c]) : m < x
    PROVE  DeliveredInv'
<1> DEFINE Frame == [msg : Messages, conn : Connections]
           new == [msg |-> m, conn |-> c]
           n == Len(delivered)
<1>1. m \in Messages /\ Sent(m)
  BY DEF LinkInv, StreamInv, Range
<1>2. delivered \in Seq(Frame) /\ new \in Frame
  BY <1>1, Zenon DEF LinkInv, DeliveredInv
<1>3. new.msg = m /\ new.conn = c
  BY Zenon
<1> HIDE DEF Frame, new
<1>4. /\ delivered' \in Seq(Frame) /\ DOMAIN delivered' = 1 .. n + 1 /\ DOMAIN delivered = 1 .. n /\ n \in Nat
      /\ delivered'[n + 1] = new /\ \A i \in 1 .. n : delivered'[i] = delivered[i]
  <2>1. delivered' = Append(delivered, new)
    BY Zenon DEF new
  <2> QED BY <1>2, <2>1
<1> HIDE DEF n
<1>5. \A i \in 1 .. n + 1 : i \in 1 .. n \/ i = n + 1
  BY <1>4
<1>6. ASSUME NEW i \in 1 .. n
      PROVE  /\ Sent(delivered[i].msg) /\ delivered[i].conn \in Connections
             /\ proto = "TCP" => \A x \in Range(stream[delivered[i].conn]) : delivered[i].msg < x
  BY <1>4, DeliveredType, Zenon DEF LinkInv, DeliveredInv
<1>7. ASSUME NEW i \in 1 .. n + 1
      PROVE  /\ Sent(delivered'[i].msg) /\ delivered'[i].conn \in Connections
             /\ proto = "TCP" => \A x \in Range(stream'[delivered'[i].conn]) : delivered'[i].msg < x
  <2>1. CASE i \in 1 .. n
    <3>1. delivered'[i] = delivered[i]
      BY <1>4, <2>1, Zenon
    <3>2. /\ Sent(delivered[i].msg) /\ delivered[i].conn \in Connections
          /\ proto = "TCP" => \A x \in Range(stream[delivered[i].conn]) : delivered[i].msg < x
      BY <1>6, <2>1, Zenon
    <3>3. Range(stream'[delivered[i].conn]) \subseteq Range(stream[delivered[i].conn])
      BY <3>2, Zenon
    <3>4. proto = "TCP" => \A x \in Range(stream'[delivered[i].conn]) : delivered[i].msg < x
      BY <3>2, <3>3, Zenon
    <3> QED BY <3>1, <3>2, <3>4, Zenon
  <2>2. CASE i = n + 1
    BY <1>1, <1>3, <1>4, <2>2, Zenon
  <2> QED BY <1>5, <2>1, <2>2, Zenon
<1>8. ASSUME proto = "TCP", NEW i \in 1 .. n + 1, NEW j \in 1 .. n + 1, i < j, delivered'[i].conn = delivered'[j].conn
      PROVE  delivered'[i].msg < delivered'[j].msg
  <2>1. i \in 1 .. n
    BY <1>4, <1>8
  <2>2. CASE j \in 1 .. n
    BY <1>4, <1>8, <2>1, <2>2, Zenon DEF LinkInv, DeliveredInv
  <2>3. CASE j = n + 1
    <3>1. delivered'[i] = delivered[i] /\ delivered'[j] = new
      BY <1>4, <2>1, <2>3, Zenon
    <3>2. delivered[i].conn = c
      BY <1>3, <1>8, <3>1, Zenon
    <3>3. \A x \in Range(stream[delivered[i].conn]) : delivered[i].msg < x
      BY <1>6, <1>8, <2>1, Zenon
    <3>4. delivered[i].msg < m
      BY <3>2, <3>3, Zenon
    <3> QED BY <1>3, <3>1, <3>4, Zenon
  <2> QED BY <1>5, <2>2, <2>3, Zenon
<1>9. \A i \in 1 .. n + 1 : Sent(delivered[i].msg)'
  BY <1>7, Zenon DEF Sent
<1> QED BY <1>4, <1>7, <1>8, <1>9, Zenon DEF DeliveredInv, Frame

LEMMA ReadStep ==
    ASSUME LinkInv, NEW c \in Connections, ReadFrame(c) \/ ReadDatagram(c)
    PROVE  LinkStep
<1>1. UNCHANGED <<thread, msg, attempt, queueVars, proto, d_ignoreself, d_has_key, conn, connected, alive>>
  BY Zenon DEF ReadFrame, ReadDatagram
<1>2. HandInv' /\ QueueInv' /\ ThreadInv' /\ RestInv' /\ \A m : Sent(m)' <=> Sent(m)
  BY <1>1, SenderStays, Zenon
<1>3. stream[c] \in Seq(Messages) /\ Increasing(stream[c])
  BY Zenon DEF LinkInv, StreamInv
\* What leaves the stream is nowhere else.
<1>4. ASSUME NEW m \in Range(stream[c])
      PROVE  /\ m \in Messages /\ m \notin Range(queue) /\ (thread = "sending" => m # msg)
             /\ \A d \in Connections \ {c} : m \notin Range(stream[d])
             /\ m \in Underway
  <2>1. m \in Messages /\ Sent(m)
    <3>1. m \in Messages
      BY <1>3 DEF Range
    <3>2. Sent(m)
      BY Zenon DEF LinkInv, StreamInv
    <3> QED BY <3>1, <3>2, Zenon
  <2>2. m \in Int /\ msg \in Int
    BY <2>1, SiblingAssumption DEF LinkInv, ThreadInv, Messages
  <2>3. thread = "sending" => m # msg
    BY <2>1, <2>2 DEF Sent
  <2>4. m \notin Range(queue)
    <3> SUFFICES ASSUME m \in Range(queue) PROVE FALSE
      BY Zenon
    <3>1. msg < m
      BY Zenon DEF LinkInv, QueueInv
    <3> QED BY <2>1, <2>2, <3>1 DEF Sent
  <2>5. \A d \in Connections \ {c} : m \notin Range(stream[d])
    BY Zenon DEF LinkInv, StreamInv
  <2>6. m \in Underway
    BY Zenon DEF Underway
  <2> QED BY <2>1, <2>3, <2>4, <2>5, <2>6, Zenon
<1>5. ASSUME NEW m \in Range(stream[c]), NEW t \in Seq(Messages), stream' = [stream EXCEPT ![c] = t],
             Increasing(t), Range(t) = Range(stream[c]) \ {m}, proto = "TCP" => \A x \in Range(t) : m < x,
             delivered' = Append(delivered, [msg |-> m, conn |-> c])
      PROVE  LinkStep
  <2>1. /\ StreamInv' /\ stream'[c] = t /\ \A d \in Connections \ {c} : stream'[d] = stream[d]
        /\ \A d \in Connections : Range(stream'[d]) \subseteq Range(stream[d])
    BY <1>2, <1>5, StreamShrinks, Zenon
  <2>2. DeliveredInv'
    BY <1>1, <1>2, <1>5, <2>1, DeliveredGrows, Zenon
  <2>3. Underway' = Underway \ {m}
    <3>1. \A x : x \in Underway' <=> x \in Underway /\ x # m
      <4>1. queue' = queue /\ thread' = thread /\ msg' = msg
        BY <1>1, Zenon DEF queueVars
      <4>2. \A d \in Connections : Range(stream'[d]) = Range(stream[d]) \ {m}
        BY <1>4, <1>5, <2>1
      <4>3. \A x : x \in Underway <=> \/ x \in Range(queue)
                                      \/ \E d \in Connections : x \in Range(stream[d])
                                      \/ thread = "sending" /\ x = msg
        BY Zenon DEF Underway
      <4>4. \A x : x \in Underway' <=> \/ x \in Range(queue)
                                       \/ \E d \in Connections : x \in Range(stream'[d])
                                       \/ thread = "sending" /\ x = msg
        BY <4>1, Zenon DEF Underway
      <4>5. m \notin Range(queue) /\ (thread = "sending" => m # msg)
        BY <1>4, Zenon
      <4> QED BY <4>2, <4>3, <4>4, <4>5, Zenon
    <3> QED BY <3>1, Zenon
  <2>4. Link!Next
    BY <1>1, <1>4, <1>5, <2>3, LinkDelivers, Zenon DEF queueVars
  <2> QED BY <1>2, <2>1, <2>2, <2>4, Zenon DEF LinkStep, LinkInv
<1>6. CASE ReadFrame(c)
  <2> DEFINE m == Head(stream[c])
             t == Tail(stream[c])
  <2>1. /\ m \in Range(stream[c]) /\ t \in Seq(Messages) /\ Increasing(t) /\ Range(t) = Range(stream[c]) \ {m}
        /\ \A x \in Range(t) : m < x
    BY <1>3, <1>6, TailFacts, Zenon DEF ReadFrame
  <2>2. stream' = [stream EXCEPT ![c] = t] /\ delivered' = Append(delivered, [msg |-> m, conn |-> c])
    BY <1>6, Zenon DEF ReadFrame
  <2> HIDE DEF m, t
  <2> QED BY <1>5, <2>1, <2>2, Zenon
<1>7. CASE ReadDatagram(c)
  <2>1. PICK i \in DOMAIN stream[c] :
          /\ delivered' = Append(delivered, [msg |-> stream[c][i], conn |-> c])
          /\ \/ stream' = [stream EXCEPT ![c] = SubSeq(@, 1, i - 1) \o SubSeq(@, i + 1, Len(@))]
             \/ UNCHANGED stream
    BY <1>7, Zenon DEF ReadDatagram
  <2> DEFINE m == stream[c][i]
             t == SubSeq(stream[c], 1, i - 1) \o SubSeq(stream[c], i + 1, Len(stream[c]))
  <2>2. m \in Range(stream[c]) /\ proto = "UDP"
    BY <1>7, Zenon DEF Range, ReadDatagram
  <2>3. IsWithout(t, stream[c], i)
    BY <1>3, CutFacts, Zenon
  <2>4. t \in Seq(Messages) /\ Increasing(t) /\ Range(t) = Range(stream[c]) \ {m}
    <3> HIDE DEF t
    <3>1. t \in Seq(Messages)
      BY <2>3, Zenon DEF IsWithout
    <3> QED BY <1>3, <2>3, <3>1, WithoutFacts, Zenon
  <2>5. CASE stream' = [stream EXCEPT ![c] = t]
    <3> HIDE DEF t
    <3> QED BY <1>5, <2>1, <2>2, <2>4, <2>5, Zenon
  <2>6. CASE UNCHANGED stream
    <3>1. StreamInv'
      BY <1>2, <2>6, Zenon DEF LinkInv, StreamInv, Increasing
    <3>2. DeliveredInv'
      BY <1>1, <1>2, <2>1, <2>2, <2>6, DeliveredGrows, Zenon
    <3>3. Underway' = Underway
      BY <1>1, <2>6, Zenon DEF Underway, queueVars
    <3>4. Link!Next
      BY <1>1, <1>4, <2>1, <2>2, <3>3, LinkDelivers, Zenon DEF queueVars
    <3> QED BY <1>2, <3>1, <3>2, <3>4, Zenon DEF LinkStep, LinkInv
  <2> QED BY <2>1, <2>5, <2>6, Zenon
<1> QED BY <1>6, <1>7, Zenon

LEMMA BreakStep == ASSUME LinkInv, NEW c \in Connections, Break(c) PROVE LinkStep
<1>1. UNCHANGED <<thread, msg, attempt, queueVars, proto, d_ignoreself, d_has_key, conn, connected, delivered>>
  BY Zenon DEF Break
<1>2. HandInv' /\ QueueInv' /\ ThreadInv' /\ RestInv' /\ \A m : Sent(m)' <=> Sent(m)
  BY <1>1, SenderStays, Zenon DEF Break
<1>3. <<>> \in Seq(Messages) /\ Increasing(<<>>) /\ Range(<<>>) = {}
  BY DEF Increasing, Range
<1>4. stream' = [stream EXCEPT ![c] = <<>>]
  BY Zenon DEF Break
<1>5. StreamInv' /\ \A d \in Connections : Range(stream'[d]) \subseteq Range(stream[d])
  BY <1>2, <1>3, <1>4, StreamShrinks, Zenon
<1>6. DeliveredInv'
  <2>1. \A i \in DOMAIN delivered : delivered[i].conn \in Connections
    BY DeliveredType, Zenon DEF LinkInv
  <2> QED BY <1>1, <1>2, <1>5, <2>1, Zenon DEF LinkInv, DeliveredInv
<1>7. Underway' \subseteq Underway
  BY <1>1, <1>5 DEF Underway, queueVars
<1>8. Link!Next
  BY <1>1, <1>7, LinkLoses, Zenon DEF queueVars
<1> QED BY <1>2, <1>5, <1>6, <1>8, Zenon DEF LinkStep, LinkInv

LEMMA OtherStep ==
    ASSUME LinkInv, SpuriousWakeup \/ destroyBegin \/ destroyNotify \/ destroyJoin \/ ConnectedLate
    PROVE  LinkStep
<1>1. UNCHANGED <<queue, msg, attempt, producer, handed, stream, delivered, proto, d_ignoreself, d_has_key>>
  BY Zenon DEF SpuriousWakeup, destroyBegin, destroyNotify, destroyJoin, ConnectedLate, queueVars, netVars
<1>2. HandInv'
  BY <1>1, Zenon DEF LinkInv, HandInv, Handing
<1>3. thread' \in {"check", "waiting", "sending", "returned"} /\ (thread' = "sending" <=> thread = "sending")
  BY Zenon DEF SpuriousWakeup, destroyBegin, destroyNotify, destroyJoin, ConnectedLate, Woken, LinkInv, ThreadInv
<1>4. CASE ConnectedLate
  <2>1. conn' \in Connections
    BY <1>4, SiblingAssumption DEF ConnectedLate, LinkInv, RestInv, Connections
  <2>2. RestInv'
    BY <1>1, <1>4, <2>1, Zenon DEF ConnectedLate, LinkInv, RestInv, queueVars
  <2> QED BY <1>1, <1>2, <1>3, <2>2, NothingMoves, Zenon
<1>5. CASE SpuriousWakeup \/ destroyBegin \/ destroyNotify \/ destroyJoin
  <2>1. RestInv'
    BY <1>1, <1>5, Zenon DEF SpuriousWakeup, destroyBegin, destroyNotify, destroyJoin, LinkInv, RestInv, queueVars, netVars
  <2> QED BY <1>1, <1>2, <1>3, <2>1, NothingMoves, Zenon
<1> QED BY <1>4, <1>5, Zenon

LEMMA NextLinkInv == ASSUME LinkInv, [Next]_vars PROVE LinkStep
<1>1. CASE UNCHANGED vars
  <2>1. HandInv' /\ RestInv'
    BY <1>1, Zenon DEF vars, LinkInv, HandInv, Handing, RestInv
  <2>2. thread' \in {"check", "waiting", "sending", "returned"} /\ (thread' = "sending" <=> thread = "sending")
    BY <1>1, Zenon DEF vars, LinkInv, ThreadInv
  <2> QED BY <1>1, <2>1, <2>2, NothingMoves, Zenon DEF vars
<1>2. CASE Next
  <2>1. ASSUME NEW p \in Producers, replicateOperation(p) \/ encryptMsgWithKey(p) \/ queueMsg(p) \/ notify_one(p)
        PROVE  LinkStep
    BY <2>1, ProducerStep, QueueStep, Zenon
  <2>2. ASSUME NEW c \in Connections, ReadFrame(c) \/ ReadDatagram(c) \/ Break(c) PROVE LinkStep
    BY <2>2, ReadStep, BreakStep, Zenon
  <2>3. CASE Take \/ SpuriousWakeup \/ Send \/ destroyBegin \/ destroyNotify \/ destroyJoin \/ ConnectedLate
    BY <2>3, TakeStep, SendStep, OtherStep, Zenon
  <2> QED BY <1>2, <2>1, <2>2, <2>3, Zenon DEF Next
<1> QED BY <1>1, <1>2, Zenon

-----------------------------------------------------------------------------
\* What a sibling reads from one TCP connection is in the order of the calls of
\* queueMsg, however many messages a full queue drops, and however often send
\* fails and connects again.
THEOREM SiblingOrdered == Spec => []OrderedPerConnection
<1>1. Init => LinkInv
  BY InitLinkInv, Zenon
<1>2. LinkInv /\ [Next]_vars => LinkInv'
  BY NextLinkInv, Zenon DEF LinkStep
<1>3. LinkInv => TypeOK
  <2> SUFFICES ASSUME LinkInv PROVE TypeOK
    BY Zenon
  <2>1. Cardinality(Handing) \in Nat /\ handed \in Nat /\ handed + Cardinality(Handing) <= MaxMessages
    BY HandingFinite, Zenon DEF LinkInv, HandInv
  <2>2. handed \in 0 .. MaxMessages
    BY <2>1, SiblingAssumption
  <2> QED BY <2>2, Zenon DEF TypeOK, LinkInv, HandInv, QueueInv, ThreadInv, StreamInv, DeliveredInv, RestInv
<1>4. LinkInv => OrderedPerConnection
  BY <1>3, Zenon DEF OrderedPerConnection, LinkInv, DeliveredInv
<1> QED BY <1>1, <1>2, <1>4, PTL DEF Spec

\* A sibling, with its bounded queue, its retries and its reconnections, implements
\* the lossy link: every message handed to queueMsg is delivered at most once
\* over TCP, and nothing else is delivered.
THEOREM SiblingIsLossyLink == Spec => IsLossyLink
<1>1. Init => LinkInv
  BY InitLinkInv, Zenon
<1>2. LinkInv /\ [Next]_vars => LinkInv' /\ [Link!Next]_Link!vars
  BY NextLinkInv, Zenon DEF LinkStep
<1>3. Init => Link!Init
  <2> SUFFICES ASSUME Init PROVE Link!Init
    BY Zenon
  <2>1. 1 .. handed = {} /\ {delivered[i].msg : i \in DOMAIN delivered} = {}
    BY DEF Init
  <2>2. Underway = {}
    BY DEF Init, Underway, Range
  <2> QED BY <2>1, <2>2, Zenon DEF Link!Init
<1> QED BY <1>1, <1>2, <1>3, PTL DEF Spec, IsLossyLink, Link!Spec
=============================================================================

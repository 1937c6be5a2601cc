------------------------------ MODULE Sibling ------------------------------
(***************************************************************************)
(* Sibling (wforce/wforce-sibling.cc): the bounded queue of messages for   *)
(* one sibling, the thread that sends them, the destructor that stops it,  *)
(* and the connections as the sibling reads them (parseTCPReplication and  *)
(* receiveReplicationOperations of wforce-replication.cc).                 *)
(*                                                                         *)
(* Messages are numbered in the order in which they enter queueMsg.        *)
(***************************************************************************)
EXTENDS Integers, Sequences, FiniteSets, Functions

CONSTANTS
    Producers,       \* threads that call queueMsg
    max_queue_size,
    MaxMessages,     \* bound: number of messages
    MaxConnections   \* bound: number of TCP connections

ASSUME SiblingAssumption ==
    /\ IsFiniteSet(Producers)
    /\ max_queue_size \in Nat /\ MaxMessages \in Nat /\ MaxConnections \in Nat \ {0}

VARIABLES
    proto,      \* "TCP" or "UDP"
    d_ignoreself, \* does the address turn out to be our own?
    d_has_key,  \* has the sibling a key of its own?
    queue,
    queue_thread_run,
    producer,   \* per producer, what it is about to do
    thread,     \* where the queue thread is
    msg,        \* the message it has taken
    attempt,    \* the loop variable of send
    destructor, \* "none", "notify", "join" or "done"
    conn,       \* the number of the current TCP connection
    connected,  \* is sockp connected?
    alive,      \* connections the sibling still reads
    stream,     \* per connection, the frames written and not yet read
    handed,     \* number of calls of queueMsg so far
    delivered   \* history: what the sibling has read, with the connection

vars == <<proto, d_ignoreself, d_has_key, queue, queue_thread_run, producer, thread, msg, attempt, destructor, conn,
          connected, alive, stream, handed, delivered>>

queueVars == <<queue, queue_thread_run, producer, destructor, handed>>
netVars == <<proto, d_ignoreself, d_has_key, conn, connected, alive, stream, delivered>>

Messages == 1 .. MaxMessages
Connections == 1 .. MaxConnections

TypeOK ==
    /\ proto \in {"TCP", "UDP"} /\ d_ignoreself \in BOOLEAN /\ d_has_key \in BOOLEAN
    /\ queue \in Seq(Messages) /\ Len(queue) <= max_queue_size
    /\ queue_thread_run \in BOOLEAN
    /\ producer \in [Producers -> {"idle", "encrypt", "queue", "notify"}]
    /\ thread \in {"check", "waiting", "sending", "returned"}
    /\ msg \in 0 .. MaxMessages
    /\ attempt \in 0 .. 1
    /\ destructor \in {"none", "notify", "join", "done"}
    /\ conn \in Connections
    /\ connected \in BOOLEAN
    /\ alive \subseteq Connections
    /\ stream \in [Connections -> Seq(Messages)]
    /\ handed \in 0 .. MaxMessages
    /\ delivered \in Seq([msg : Messages, conn : Connections])

Init ==
    /\ proto \in {"TCP", "UDP"} /\ d_ignoreself \in BOOLEAN /\ d_has_key \in BOOLEAN
    /\ queue = <<>>
    /\ queue_thread_run = TRUE
    /\ producer = [p \in Producers |-> "idle"]
    /\ thread = "check"
    /\ msg = 0
    /\ attempt = 0
    /\ destructor = "none"
    /\ conn = 1
    /\ connected \in (IF proto = "TCP" THEN BOOLEAN ELSE {TRUE})
    /\ alive = IF connected THEN {1} ELSE {}
    /\ stream = [c \in Connections |-> <<>>]
    /\ handed = 0
    /\ delivered = <<>>

-----------------------------------------------------------------------------
(***************************************************************************)
(* The callers of queueMsg.                                                *)
(***************************************************************************)

\* One round of the loop of replicateOperation. Callers keep the sibling
\* alive, so none is inside when it is destroyed.
replicateOperation(p) ==
    /\ producer[p] = "idle" /\ destructor = "none"
    /\ handed + Cardinality({q \in Producers : producer[q] \in {"encrypt", "queue"}}) < MaxMessages
    /\ producer' = [producer EXCEPT ![p] = IF d_has_key THEN "encrypt" ELSE "queue"]
    /\ UNCHANGED <<queue, queue_thread_run, thread, msg, attempt, destructor, handed, netVars>>

\* send holds mutx while it writes to a TCP connection or reconnects.
SendHoldsMutx == thread = "sending" /\ proto = "TCP" /\ ~d_ignoreself

\* The nonce of a sibling with a key of its own is guarded by the same mutex.
encryptMsgWithKey(p) ==
    /\ producer[p] = "encrypt" /\ ~SendHoldsMutx
    /\ producer' = [producer EXCEPT ![p] = "queue"]
    /\ UNCHANGED <<queue, queue_thread_run, thread, msg, attempt, destructor, handed, netVars>>

\* mutant: the queue thread is not told
queueMsgSilent(p) ==
    /\ producer[p] = "queue"
    /\ handed' = handed + 1
    /\ queue' = IF Len(queue) >= max_queue_size THEN queue ELSE Append(queue, handed + 1)
    /\ producer' = [producer EXCEPT ![p] = "idle"]
    /\ UNCHANGED <<queue_thread_run, thread, msg, attempt, destructor, netVars>>

\* queueMsg up to the end of its lock: a full queue drops the message.
queueMsg(p) ==
    /\ producer[p] = "queue"
    /\ handed' = handed + 1
    /\ IF Len(queue) >= max_queue_size
       THEN producer' = [producer EXCEPT ![p] = "idle"] /\ UNCHANGED queue
       ELSE /\ queue' = Append(queue, handed + 1)
            /\ producer' = [producer EXCEPT ![p] = "notify"]
    /\ UNCHANGED <<queue_thread_run, thread, msg, attempt, destructor, netVars>>

\* notify_one wakes the thread if it waits, and is lost otherwise.
Woken == IF thread = "waiting" THEN "check" ELSE thread

notify_one(p) ==
    /\ producer[p] = "notify"
    /\ producer' = [producer EXCEPT ![p] = "idle"]
    /\ thread' = Woken
    /\ UNCHANGED <<queue, queue_thread_run, msg, attempt, destructor, handed, netVars>>

-----------------------------------------------------------------------------
(***************************************************************************)
(* The queue thread.                                                       *)
(***************************************************************************)

\* mutant: the newest message first
TakeLast ==
    /\ thread = "check"
    /\ IF ~queue_thread_run
       THEN thread' = "returned" /\ UNCHANGED <<queue, msg, attempt>>
       ELSE IF queue = <<>>
       THEN thread' = "waiting" /\ UNCHANGED <<queue, msg, attempt>>
       ELSE /\ thread' = "sending" /\ attempt' = 0
            /\ msg' = queue[Len(queue)] /\ queue' = SubSeq(queue, 1, Len(queue) - 1)
    /\ UNCHANGED <<queue_thread_run, producer, destructor, handed, netVars>>

\* The loop of the queue thread under queue_mutx, up to the wait or the pop.
Take ==
    /\ thread = "check"
    /\ IF ~queue_thread_run
       THEN thread' = "returned" /\ UNCHANGED <<queue, msg, attempt>>
       ELSE IF queue = <<>>
       THEN thread' = "waiting" /\ UNCHANGED <<queue, msg, attempt>>
       ELSE thread' = "sending" /\ msg' = Head(queue) /\ queue' = Tail(queue) /\ attempt' = 0
    /\ UNCHANGED <<queue_thread_run, producer, destructor, handed, netVars>>

\* A condition variable may wake up by itself.
SpuriousWakeup ==
    /\ thread = "waiting"
    /\ thread' = "check"
    /\ UNCHANGED <<msg, attempt, queueVars, netVars>>

\* Messages to ourselves are thrown away.
SendIgnored ==
    /\ thread = "sending" /\ d_ignoreself
    /\ thread' = "check"
    /\ UNCHANGED <<msg, attempt, queueVars, netVars>>

\* Both writes return: the frame is on its way, unless the connection is gone
\* and nobody has noticed yet. A datagram goes the same way.
SendSucceeds ==
    /\ thread = "sending" /\ ~d_ignoreself /\ connected
    /\ stream' = IF conn \in alive THEN [stream EXCEPT ![conn] = Append(@, msg)] ELSE stream
    /\ thread' = "check"
    /\ UNCHANGED <<msg, attempt, queueVars, proto, d_ignoreself, d_has_key, conn, connected, alive, delivered>>

\* A datagram that cannot be sent is counted and forgotten.
SendUDPFails ==
    /\ thread = "sending" /\ ~d_ignoreself /\ proto = "UDP"
    /\ thread' = "check"
    /\ UNCHANGED <<msg, attempt, queueVars, netVars>>

\* connectSibling: a new socket, which may or may not get connected.
connectSibling ==
    /\ connected' \in (IF conn < MaxConnections THEN BOOLEAN ELSE {FALSE})
    /\ conn' = IF connected' THEN conn + 1 ELSE conn
    /\ alive' = IF connected' THEN alive \union {conn'} ELSE alive

\* The timeout of connectWithTimeout does not close the socket: the connection
\* may still be established, and later writes go through it.
ConnectedLate ==
    /\ proto = "TCP" /\ ~connected /\ conn < MaxConnections
    /\ connected' = TRUE
    /\ conn' = conn + 1
    /\ alive' = alive \union {conn'}
    /\ UNCHANGED <<thread, msg, attempt, queueVars, proto, d_ignoreself, d_has_key, stream, delivered>>

\* mutant: the frame went out before the failure was seen, and goes out again
WriteFailsLate ==
    /\ thread = "sending" /\ ~d_ignoreself /\ proto = "TCP"
    /\ IF attempt = 0
       THEN attempt' = 1 /\ connectSibling /\ UNCHANGED thread
       ELSE thread' = "check" /\ UNCHANGED <<attempt, conn, connected, alive>>
    /\ stream' = IF conn \in alive THEN [stream EXCEPT ![conn] = Append(@, msg)] ELSE stream
    /\ UNCHANGED <<msg, queueVars, proto, d_ignoreself, d_has_key, delivered>>

\* mutant: tries again for ever
WriteFailsForever ==
    /\ thread = "sending" /\ ~d_ignoreself /\ proto = "TCP"
    /\ attempt' = 1 /\ connectSibling
    /\ UNCHANGED <<thread, msg, queueVars, stream, proto, d_ignoreself, d_has_key, delivered>>

\* A write throws, before the whole frame is written. The first time send
\* connects again; the second time it gives up.
WriteFails ==
    /\ thread = "sending" /\ ~d_ignoreself /\ proto = "TCP"
    /\ IF attempt = 0
       THEN attempt' = 1 /\ connectSibling /\ UNCHANGED thread
       ELSE thread' = "check" /\ UNCHANGED <<attempt, conn, connected, alive>>
    /\ UNCHANGED <<msg, queueVars, stream, proto, d_ignoreself, d_has_key, delivered>>

-----------------------------------------------------------------------------
(***************************************************************************)
(* ~Sibling: stop the thread and wait for it.                              *)
(***************************************************************************)

destroyBegin ==
    /\ destructor = "none"
    /\ \A p \in Producers : producer[p] = "idle"
    /\ queue_thread_run' = FALSE
    /\ destructor' = "notify"
    /\ UNCHANGED <<queue, producer, thread, msg, attempt, handed, netVars>>

destroyNotify ==
    /\ destructor = "notify"
    /\ destructor' = "join"
    /\ thread' = Woken
    /\ UNCHANGED <<queue, queue_thread_run, producer, msg, attempt, handed, netVars>>

\* mutant: waits until everything is sent
destroyJoinDrained ==
    /\ destructor = "join" /\ thread = "returned" /\ queue = <<>>
    /\ destructor' = "done"
    /\ UNCHANGED <<queue, queue_thread_run, producer, thread, msg, attempt, handed, netVars>>

destroyJoin ==
    /\ destructor = "join" /\ thread = "returned"
    /\ destructor' = "done"
    /\ UNCHANGED <<queue, queue_thread_run, producer, thread, msg, attempt, handed, netVars>>

-----------------------------------------------------------------------------
(***************************************************************************)
(* The sibling reads each connection in a thread of its own.               *)
(***************************************************************************)

ReadFrame(c) ==
    /\ proto = "TCP" /\ stream[c] # <<>>
    /\ delivered' = Append(delivered, [msg |-> Head(stream[c]), conn |-> c])
    /\ stream' = [stream EXCEPT ![c] = Tail(@)]
    /\ UNCHANGED <<thread, msg, attempt, queueVars, proto, d_ignoreself, d_has_key, conn, connected, alive>>

\* Datagrams overtake each other, and may arrive twice.
ReadDatagram(c) ==
    /\ proto = "UDP" /\ Len(delivered) < 2 * MaxMessages
    /\ \E i \in DOMAIN stream[c] :
        /\ delivered' = Append(delivered, [msg |-> stream[c][i], conn |-> c])
        /\ \/ stream' = [stream EXCEPT ![c] = SubSeq(@, 1, i - 1) \o SubSeq(@, i + 1, Len(@))]
           \/ UNCHANGED stream
    /\ UNCHANGED <<thread, msg, attempt, queueVars, proto, d_ignoreself, d_has_key, conn, connected, alive>>

\* The connection breaks, and what was not read is lost.
Break(c) ==
    /\ proto = "TCP" /\ c \in alive
    /\ alive' = alive \ {c}
    /\ stream' = [stream EXCEPT ![c] = <<>>]
    /\ UNCHANGED <<thread, msg, attempt, queueVars, proto, d_ignoreself, d_has_key, conn, connected, delivered>>

-----------------------------------------------------------------------------
Send == SendIgnored \/ SendSucceeds \/ SendUDPFails \/ WriteFails

Next ==
    \/ \E p \in Producers :
        replicateOperation(p) \/ encryptMsgWithKey(p) \/ queueMsg(p) \/ notify_one(p)
    \/ Take \/ SpuriousWakeup \/ Send
    \/ destroyBegin \/ destroyNotify \/ destroyJoin
    \/ ConnectedLate
    \/ \E c \in Connections : ReadFrame(c) \/ ReadDatagram(c) \/ Break(c)

Spec == Init /\ [][Next]_vars

\* Threads that can run do run: every lock is released after a few
\* instructions, and every attempt to send or to connect ends: the peer reads
\* on, or TCP gives the connection up.
Fairness ==
    /\ \A p \in Producers : WF_vars(notify_one(p))
    /\ WF_vars(Take) /\ WF_vars(Send)
    /\ WF_vars(destroyNotify) /\ WF_vars(destroyJoin)

FairSpec == Spec /\ Fairness

-----------------------------------------------------------------------------
\* While the queue thread waits there is nothing for it to do, or the call of
\* notify_one that will wake it up is still to come. Both callers notify after
\* they have released the lock, when the thread may be anywhere.
NoLostWakeup ==
    thread = "waiting" =>
        \/ queue = <<>> /\ queue_thread_run
        \/ \E p \in Producers : producer[p] = "notify"
        \/ destructor = "notify"

\* Over TCP, what is read from one connection arrives in the order in which it
\* was queued, through drops, write errors and reconnections.
OrderedPerConnection ==
    TypeOK /\ (proto = "TCP" =>
        \A i, j \in DOMAIN delivered :
            i < j /\ delivered[i].conn = delivered[j].conn => delivered[i].msg < delivered[j].msg)

Underway ==
    Range(queue) \union (UNION {Range(stream[c]) : c \in Connections})
                \union (IF thread = "sending" THEN {msg} ELSE {})

Link == INSTANCE LossyLink WITH
    handed <- 1 .. handed,
    underway <- Underway,
    delivered <- {delivered[i].msg : i \in DOMAIN delivered},
    duplicates <- (proto = "UDP")

\* The sibling is a lossy link: over TCP, a message whose first write failed and
\* that was sent again on a new connection is still delivered at most once.
IsLossyLink == Link!Spec

\* A queued message is taken from the queue some day, unless the sibling is
\* destroyed: however sending fails, the queue thread goes on.
QueueDrains ==
    \A m \in Messages : m \in Range(queue) ~> m \notin Range(queue) \/ ~queue_thread_run

\* The destructor returns, whatever the queue thread is doing when it starts.
DestructorReturns == destructor = "notify" ~> destructor = "done"
=============================================================================

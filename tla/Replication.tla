---------------------------- MODULE Replication ----------------------------
(***************************************************************************)
(* Replication between servers, within a cluster and across clusters:      *)
(* WforceReplication (wforce/wforce-replication.cc), the replication       *)
(* forwarder (wforce/replfwd-replication.cc) and the requests that change  *)
(* the siblings, forwarder destinations and forwarder sources of a node    *)
(* (wforce/wforce-sibling.cc, wforce/wforce-web.cc, wforce/replfwd-web.cc).*)
(*                                                                         *)
(* An operation is known by its number. Between two nodes it travels as a  *)
(* packet, which may overtake others or get lost but is not doubled:       *)
(* module Sibling shows that TCP siblings are such links. What a server    *)
(* does with an operation it receives is in TWStatsDB and BlackWhiteList;  *)
(* here it is counted.                                                     *)
(***************************************************************************)
EXTENDS Integers, Sequences, FiniteSets, Functions

CONSTANTS
    Servers,         \* run wforce
    Forwarders,      \* run replfwd
    InitialPeers,    \* per node and list, the peers it is configured with
    d_key,           \* per node, its encryption key
    Keys, NoKey,
    OpTypes,
    Admins,          \* threads that serve requests to change the lists
    Plans,           \* what may happen in one behaviour: requests, and number of operations
    max_sibling_queue_size,
    MaxOps, MaxChanges \* bounds

Nodes == Servers \union Forwarders

\* d_siblings, and of a forwarder d_repl_forwarders and d_repl_forwarders_src
Lists == {"siblings", "dests", "srcs"}

\* A Sibling: its address, its own key if it has one, and what it is sent.
Peer == [rem : Nodes, key : Keys \union {NoKey}, sdb_send : BOOLEAN, wlbl_send : BOOLEAN]

\* ok: all parameters of peer i are there and parse.
Request == [cmd : {"add", "remove", "set"}, node : Nodes, list : Lists, peers : Seq(Peer), ok : Seq(BOOLEAN)]

ASSUME ReplicationAssumption ==
    /\ Servers \intersect Forwarders = {} /\ OpTypes \subseteq {"sdb", "bl", "wl"}
    /\ {max_sibling_queue_size, MaxOps, MaxChanges} \subseteq Nat
    /\ InitialPeers \in [Nodes -> [Lists -> Seq(Peer)]]
    /\ d_key \in [Nodes -> Keys] /\ NoKey \notin Keys
    /\ \A pl \in Plans : pl.ops \in 0 .. MaxOps /\ \A q \in pl.requests :
        /\ q \in Request /\ Len(q.ok) = Len(q.peers) /\ (q.cmd # "set" => Len(q.peers) = 1)
        /\ q.node \in Servers => q.list = "siblings"

VARIABLES
    peers,           \* per node, its lists
    known,           \* per node, all it ever took connections from: these stay open
    plan,            \* the plan of this behaviour; never changes
    admin,           \* per thread, the addSibling call between check and insertion
    ops,             \* history: the operations, in the order of their creation
    net,             \* packets underway
    d_sibling_queue, \* per node, the operations received and not yet handled
    applied,         \* history: how often each server has applied each operation
    lost,            \* history: operations of which a packet got lost
    changes

vars == <<plan, peers, known, admin, ops, net, d_sibling_queue, applied, lost, changes>>

Idle == [cmd |-> "none"]

Packet == [from : Nodes, to : Nodes, op : 1 .. MaxOps, forwarded : BOOLEAN, key : Keys \union {NoKey}, via : Nat]

Rems(seq) == {seq[i].rem : i \in DOMAIN seq}

\* Whose connections node n accepts with these lists.
Accepted(lists) == Rems(lists["siblings"]) \union Rems(lists["srcs"])

TypeOK ==
    /\ peers \in [Nodes -> [Lists -> Seq(Peer)]]
    /\ known \in [Nodes -> SUBSET Nodes] /\ \A n \in Nodes : Accepted(peers[n]) \subseteq known[n]
    /\ plan \in Plans
    /\ admin \in [Admins -> plan.requests \union {Idle}]
    /\ ops \in Seq([origin : Servers, type : OpTypes]) /\ Len(ops) <= MaxOps
    /\ net \subseteq Packet
    /\ d_sibling_queue \in [Nodes -> Seq([op : 1 .. MaxOps, forwarded : BOOLEAN])]
    /\ \A n \in Nodes : Len(d_sibling_queue[n]) <= max_sibling_queue_size
    /\ applied \in [Servers -> [1 .. MaxOps -> Nat]]
    /\ lost \subseteq 1 .. MaxOps
    /\ changes \in 0 .. MaxChanges

Init ==
    /\ plan \in Plans
    /\ peers = InitialPeers
    /\ known = [n \in Nodes |-> Accepted(InitialPeers[n])]
    /\ admin = [t \in Admins |-> Idle]
    /\ ops = <<>>
    /\ net = {}
    /\ d_sibling_queue = [n \in Nodes |-> <<>>]
    /\ applied = [s \in Servers |-> [i \in 1 .. MaxOps |-> 0]]
    /\ lost = {}
    /\ changes = 0

-----------------------------------------------------------------------------
(***************************************************************************)
(* Sending.                                                                *)
(***************************************************************************)

\* The key replicateOperation encrypts with: the sibling's, or the default.
KeyFor(n, s) == IF s.key # NoKey /\ s.key # d_key[n] THEN s.key ELSE d_key[n]

\* replicateOperation: one packet per sibling in the list as it is now.
\* d_ignoreself suppresses the one to the node itself.
replicateOperation(n, op, forwarded) ==
    LET siblings == peers[n]["siblings"]
    IN  {[from |-> n, to |-> siblings[i].rem, op |-> op, forwarded |-> forwarded,
          key |-> KeyFor(n, siblings[i]), via |-> i] :
            i \in {j \in DOMAIN siblings : siblings[j].rem # n}}

\* A request or a Lua script changes a stats DB or a list.
Originate(s, type) ==
    /\ Len(ops) < plan.ops
    /\ ops' = Append(ops, [origin |-> s, type |-> type])
    /\ applied' = [applied EXCEPT ![s][Len(ops) + 1] = @ + 1]
    /\ net' = net \union replicateOperation(s, Len(ops) + 1, FALSE)
    /\ UNCHANGED <<plan, peers, known, admin, d_sibling_queue, lost, changes>>

-----------------------------------------------------------------------------
(***************************************************************************)
(* Receiving.                                                              *)
(***************************************************************************)

\* checkConnFromSibling, of both programs: port numbers do not matter. A server
\* has no forwarder sources.
checkConnFromSibling(n, m) == m \in Accepted(peers[n])

\* decryptMsg: the packet is there and was encrypted with the node's own key.
decryptMsg(n, p) == p.key = d_key[n]

\* A datagram is checked when it arrives, a TCP connection only when it is
\* accepted: what comes over one that is open is read even if its sender has
\* been removed from the siblings since.
MayReject(p) == ~checkConnFromSibling(p.to, p.from) \/ ~decryptMsg(p.to, p)

MayAccept(p) == decryptMsg(p.to, p) /\ (checkConnFromSibling(p.to, p.from) \/ p.from \in known[p.to])

Full(n) == Len(d_sibling_queue[n]) >= max_sibling_queue_size

Enqueued(p) == [d_sibling_queue EXCEPT ![p.to] = Append(@, [op |-> p.op, forwarded |-> p.forwarded])]

\* parseTCPReplication and parseReceivedReplicationMsg: into the queue, if the
\* packet is from a sibling, can be decrypted and there is room for it.
Receive(p) ==
    /\ net' = net \ {p}
    /\ \/ MayReject(p) /\ UNCHANGED <<d_sibling_queue, lost>>
       \/ MayAccept(p) /\ Full(p.to) /\ lost' = lost \union {p.op} /\ UNCHANGED d_sibling_queue
       \/ MayAccept(p) /\ ~Full(p.to) /\ d_sibling_queue' = Enqueued(p) /\ UNCHANGED lost
    /\ UNCHANGED <<plan, peers, known, admin, ops, applied, changes>>

Lose(p) ==
    /\ net' = net \ {p}
    /\ lost' = lost \union {p.op}
    /\ UNCHANGED <<plan, peers, known, admin, ops, d_sibling_queue, applied, changes>>

\* A replication worker of wforce. Whatever it applies, replicate is false.
applyOperation(s) ==
    /\ d_sibling_queue[s] # <<>>
    /\ d_sibling_queue' = [d_sibling_queue EXCEPT ![s] = Tail(@)]
    /\ applied' = [applied EXCEPT ![s][Head(d_sibling_queue[s]).op] = @ + 1]
    /\ UNCHANGED <<plan, peers, known, admin, ops, net, lost, changes>>

-----------------------------------------------------------------------------
(***************************************************************************)
(* The replication forwarder.                                              *)
(***************************************************************************)

\* Does forwarder destination d take operations of this type?
Wanted(d, type) == IF type = "sdb" THEN d.sdb_send ELSE d.wlbl_send

\* mutant: always the forwarder's own key
ForwardKeyOwn(f, d) == d_key[f]

\* The key a packet for destination d is encrypted with. A destination that has
\* the forwarder's own key falls through: the packet stays empty.
ForwardKey(f, d) ==
    IF d.key = NoKey THEN d_key[f]
    ELSE IF d.key # d_key[f] THEN d.key
    ELSE NoKey

Forward(f, op) ==
    LET dests == peers[f]["dests"]
    IN  {[from |-> f, to |-> dests[i].rem, op |-> op, forwarded |-> TRUE,
          key |-> ForwardKey(f, dests[i]), via |-> i] :
            i \in {j \in DOMAIN dests : Wanted(dests[j], ops[op].type)}}

\* mutant: siblings get what comes from siblings as well
ForwardToAll(f) ==
    /\ d_sibling_queue[f] # <<>>
    /\ d_sibling_queue' = [d_sibling_queue EXCEPT ![f] = Tail(@)]
    /\ LET item == Head(d_sibling_queue[f])
       IN  net' = net \union (IF item.forwarded THEN {} ELSE Forward(f, item.op))
                      \union replicateOperation(f, item.op, FALSE)
    /\ UNCHANGED <<plan, peers, known, admin, ops, applied, lost, changes>>

\* A replication worker of replfwd: what came from another forwarder goes to the
\* siblings without the flag, what came from a sibling to the destinations.
ForwardOperation(f) ==
    /\ d_sibling_queue[f] # <<>>
    /\ d_sibling_queue' = [d_sibling_queue EXCEPT ![f] = Tail(@)]
    /\ LET item == Head(d_sibling_queue[f])
       IN  net' = net \union (IF item.forwarded THEN replicateOperation(f, item.op, FALSE)
                                              ELSE Forward(f, item.op))
    /\ UNCHANGED <<plan, peers, known, admin, ops, applied, lost, changes>>

-----------------------------------------------------------------------------
(***************************************************************************)
(* Changing the lists. Each is a GlobalStateHolder: readers take the list  *)
(* as it is, modify and setState replace it under a lock. A request with a *)
(* parameter that is missing or does not parse changes nothing.            *)
(***************************************************************************)

Put(q, list) ==
    /\ peers' = [peers EXCEPT ![q.node][q.list] = list]
    /\ known' = [known EXCEPT ![q.node] = @ \union Accepted(peers'[q.node])]
    /\ UNCHANGED <<plan, ops, net, d_sibling_queue, applied, lost>>

Kept == UNCHANGED <<plan, peers, known, ops, net, d_sibling_queue, applied, lost>>

Serve(t, q, cmd) ==
    /\ admin[t] = Idle /\ changes < MaxChanges /\ q.cmd = cmd
    /\ changes' = changes + 1

siblingAddressPortExists(list, rem) == rem \in Rems(list)

\* parseAddSibling up to the check in addSibling, which reads the list without
\* keeping the lock. Making the Sibling before that may take a connection's
\* timeout. A peer that is there already is refused.
addSiblingCheck(t, q) ==
    /\ Serve(t, q, "add")
    /\ admin' = [admin EXCEPT ![t] =
                    IF ~q.ok[1] \/ siblingAddressPortExists(peers[q.node][q.list], q.peers[1].rem) THEN Idle ELSE q]
    /\ Kept

addSiblingPush(t) ==
    /\ admin[t] # Idle
    /\ Put(admin[t], Append(peers[admin[t].node][admin[t].list], admin[t].peers[1]))
    /\ admin' = [admin EXCEPT ![t] = Idle]
    /\ UNCHANGED changes

\* The positions where an address comes for the first time.
Firsts(seq) == {i \in DOMAIN seq : \A j \in 1 .. i - 1 : seq[j].rem # seq[i].rem}

\* The entries at the positions of S, in their order.
Rank(S, i) == Cardinality({j \in S : j <= i})
Pick(seq, S) == [k \in 1 .. Cardinality(S) |-> seq[CHOOSE i \in S : Rank(S, i) = k]]

\* The first peer with the address goes.
Removed(list, rem) == Pick(list, DOMAIN list \ {i \in Firsts(list) : list[i].rem = rem})

parseRemoveSibling(t, q) ==
    /\ Serve(t, q, "remove")
    /\ IF q.ok[1] THEN Put(q, Removed(peers[q.node][q.list], q.peers[1].rem)) ELSE Kept
    /\ UNCHANGED admin

\* The loop of setSiblingsWithKey, which skips an address it has seen.
Unique(seq) == Pick(seq, Firsts(seq))

\* A peer without a key is given the node's own.
WithKeys(n, seq) == [i \in DOMAIN seq |-> [seq[i] EXCEPT !.key = IF @ = NoKey THEN d_key[n] ELSE @]]

\* parseSetSiblings: the whole list or, if anything in it is wrong, none of it.
parseSetSiblings(t, q) ==
    /\ Serve(t, q, "set")
    /\ IF \A i \in DOMAIN q.ok : q.ok[i] THEN Put(q, Unique(WithKeys(q.node, q.peers))) ELSE Kept
    /\ UNCHANGED admin

-----------------------------------------------------------------------------
Worker(n) == IF n \in Servers THEN applyOperation(n) ELSE ForwardOperation(n)

Receiver(n) == \E p \in net : p.to = n /\ Receive(p)

Next ==
    \/ \E s \in Servers, type \in OpTypes : Originate(s, type)
    \/ \E n \in Nodes : Worker(n) \/ Receiver(n)
    \/ \E p \in net : Lose(p)
    \/ \E t \in Admins :
        \/ addSiblingPush(t)
        \/ \E q \in plan.requests : addSiblingCheck(t, q) \/ parseRemoveSibling(t, q) \/ parseSetSiblings(t, q)

Spec == Init /\ [][Next]_vars

\* Reading threads and workers never stop.
FairSpec == Spec /\ \A n \in Nodes : WF_vars(Worker(n)) /\ WF_vars(Receiver(n))

-----------------------------------------------------------------------------
\* The same peer, as far as sending to it goes.
Alike(n, l, p, d) ==
    /\ p.rem = d.rem /\ p.sdb_send = d.sdb_send /\ p.wlbl_send = d.wlbl_send
    /\ IF l = "dests" THEN ForwardKey(n, p) = ForwardKey(n, d) ELSE KeyFor(n, p) = KeyFor(n, d)

\* The peers a node has all the time: no request of pl removes them, or replaces
\* them by something else.
Lasting(pl, n, l) ==
    {p \in Range(InitialPeers[n][l]) :
       \A q \in pl.requests : q.node = n /\ q.list = l /\ (\A i \in DOMAIN q.ok : q.ok[i]) =>
            /\ q.cmd = "remove" => q.peers[1].rem # p.rem
            /\ q.cmd = "set" => \E d \in Range(Unique(WithKeys(n, q.peers))) : Alike(n, l, p, d)}

\* The nodes that n sends to by way of list l and that take it, for good.
Linked(pl, n, l, type) ==
    {p.rem : p \in {d \in Lasting(pl, n, l) :
                /\ l = "dests" => Wanted(d, type)
                /\ \E x \in Lasting(pl, d.rem, "siblings") \union Lasting(pl, d.rem, "srcs") : x.rem = n}}

\* The servers that have every operation of an origin in the end: its lasting
\* siblings, and those behind the forwarders among them.
Reach ==
    [pl \in Plans, origin \in Servers, type \in OpTypes |->
       LET near == Linked(pl, origin, "siblings", type)
           behind(f) == UNION {Linked(pl, g, "siblings", type) : g \in Linked(pl, f, "dests", type)}
       IN  Servers \cap (near \union UNION {behind(f) : f \in near \cap Forwarders})]

\* The peers that may ever be on a list of node n.
Targets(n, l) ==
    Rems(InitialPeers[n][l])
        \union UNION {Rems(q.peers) : q \in {r \in UNION {pl.requests : pl \in Plans} : r.node = n /\ r.list = l}}

\* An installation as the manual page of replfwd describes it: the siblings of a
\* node are in its own cluster, which has at most one forwarder, and forwarders
\* send to each other. No peer is configured twice, and requests that change the
\* lists come one at a time.
Clustered(cluster) ==
    /\ \A f, g \in Forwarders : cluster[f] = cluster[g] => f = g
    /\ \A n \in Nodes : \A m \in Targets(n, "siblings") : cluster[m] = cluster[n]
    /\ \A f \in Forwarders : \A m \in Targets(f, "dests") : m \in Forwarders /\ m # f
    /\ \A n \in Nodes, l \in Lists :
        \A i, j \in DOMAIN InitialPeers[n][l] : InitialPeers[n][l][i].rem = InitialPeers[n][l][j].rem => i = j
    /\ \A t, u \in Admins : t = u

\* A server applies every operation at most once, and never its own again,
\* whatever way it takes through the forwarders and however the siblings change.
AppliedOnce == TypeOK /\ \A s \in Servers, i \in 1 .. MaxOps : applied[s][i] <= 1

\* An operation of which no packet gets lost is applied by every server within
\* reach, on both sides of the forwarders.
ReachesEveryone ==
    \A i \in 1 .. MaxOps :
        Len(ops) >= i ~> i \in lost \/ (Len(ops) >= i /\ \A s \in Reach[plan, ops[i].origin, ops[i].type] : applied[s][i] = 1)

\* "Finally we can send the encrypted message to the forward destination": no
\* packet is empty.
PacketsAreEncrypted == \A p \in net : p.key # NoKey
=============================================================================

------------------------- MODULE ReplicationProofs -------------------------
(***************************************************************************)
(* Proofs about Replication: in an installation made of clusters with a    *)
(* forwarder each, no server applies an operation twice.                   *)
(***************************************************************************)
EXTENDS Replication, FiniteSetTheorems, TLAPS

-----------------------------------------------------------------------------
(***************************************************************************)
(* The loop of setSiblingsWithKey, and removing a sibling.                 *)
(***************************************************************************)

Distinct(list) == \A i, j \in DOMAIN list : list[i].rem = list[j].rem => i = j

\* The positions of a finite set are ranked from 1 on, and no rank is left out.
LEMMA Ranked ==
    ASSUME NEW n \in Nat, NEW S \in SUBSET (1 .. n)
    PROVE  /\ Cardinality(S) \in Nat
           /\ \A k \in 1 .. Cardinality(S) : \E i \in S : Rank(S, i) = k
<1> DEFINE m == Cardinality(S)
           f == [i \in S |-> Rank(S, i)]
           upTo(i) == {j \in S : j <= i}
<1>1. IsFiniteSet(S) /\ m \in Nat
  <2>1. IsFiniteSet(1 .. n)
    BY FS_Interval
  <2> QED BY <2>1, FS_Subset, FS_CardinalityType, Zenon
<1>2. ASSUME NEW i \in S
      PROVE  IsFiniteSet(upTo(i)) /\ Cardinality(upTo(i)) \in 1 .. m /\ Rank(S, i) = Cardinality(upTo(i))
  <2>1. upTo(i) \in SUBSET S /\ i \in upTo(i)
    OBVIOUS
  <2>2. IsFiniteSet(upTo(i)) /\ Cardinality(upTo(i)) <= m /\ Cardinality(upTo(i)) \in Nat
    BY <1>1, <2>1, FS_Subset, FS_CardinalityType, Zenon
  <2>3. Cardinality(upTo(i)) # 0
    BY <2>1, <2>2, FS_EmptySet, Zenon
  <2>4. Rank(S, i) = Cardinality(upTo(i))
    BY Zenon DEF Rank
  <2> HIDE DEF upTo
  <2> QED BY <1>1, <2>2, <2>3, <2>4
<1>3. ASSUME NEW i \in S, NEW j \in S, i < j PROVE Rank(S, i) # Rank(S, j)
  <2>1. upTo(i) \in SUBSET upTo(j) /\ j \in upTo(j) /\ j \notin upTo(i)
    <3>1. \A x \in S : x \in Nat
      OBVIOUS
    <3>2. i \in Nat /\ j \in Nat /\ j <= j /\ ~(j <= i) /\ \A x \in Nat : x <= i => x <= j
      BY <1>3, <3>1
    <3> QED BY <3>1, <3>2, Zenon
  <2>2. upTo(i) # upTo(j)
    BY <2>1, Zenon
  <2>3. Cardinality(upTo(j)) # Cardinality(upTo(i))
    BY <1>2, <2>1, <2>2, FS_Subset, Zenon
  <2> QED BY <1>2, <2>3, Zenon
<1>4. f \in Injection(S, 1 .. m)
  <2>1. f \in [S -> 1 .. m]
    BY <1>2, Zenon
  <2>2. \A i, j \in S : i < j \/ j < i \/ i = j
    OBVIOUS
  <2>3. \A i, j \in S : f[i] = f[j] => i = j
    BY <1>3, <2>2, Zenon
  <2> QED BY <2>1, <2>3, Zenon DEF Injection, IsInjective
<1>5. IsFiniteSet(1 .. m) /\ Cardinality(1 .. m) = m
  <2>1. m \in Int /\ 1 \in Int
    BY <1>1
  <2>2. IsFiniteSet(1 .. m) /\ Cardinality(1 .. m) = IF 1 > m THEN 0 ELSE m - 1 + 1
    BY <2>1, FS_Interval, Zenon
  <2> HIDE DEF m
  <2> QED BY <2>2, <1>1
<1>6. f \in Surjection(S, 1 .. m)
  BY <1>4, <1>5, FS_Injection, Zenon
<1>7. \A k \in 1 .. m : \E i \in S : f[i] = k
  BY <1>6, Zenon DEF Surjection
<1> QED BY <1>1, <1>7, Zenon

\* Picking positions with different addresses gives a list without duplicates.
LEMMA PickFacts ==
    ASSUME NEW S, NEW seq \in Seq(S), NEW F \in SUBSET DOMAIN seq,
           \A i, j \in F : seq[i].rem = seq[j].rem => i = j
    PROVE  Pick(seq, F) \in Seq(S) /\ Distinct(Pick(seq, F)) /\ Rems(Pick(seq, F)) \subseteq Rems(seq)
<1> DEFINE m == Cardinality(F)
           at(k) == CHOOSE i \in F : Rank(F, i) = k
           r == Pick(seq, F)
<1>1. Len(seq) \in Nat /\ DOMAIN seq = 1 .. Len(seq) /\ F \in SUBSET (1 .. Len(seq))
  OBVIOUS
<1>2. m \in Nat /\ \A k \in 1 .. m : at(k) \in F /\ Rank(F, at(k)) = k
  <2>1. m \in Nat /\ \A k \in 1 .. m : \E i \in F : Rank(F, i) = k
    BY <1>1, Ranked, Zenon
  <2> QED BY <2>1, Zenon
<1>3. r = [k \in 1 .. m |-> seq[at(k)]]
  BY Zenon DEF Pick
<1> HIDE DEF m, at, r
<1>4. \A k \in 1 .. m : at(k) \in DOMAIN seq /\ seq[at(k)] \in S
  <2>1. \A i \in DOMAIN seq : seq[i] \in S
    OBVIOUS
  <2> QED BY <1>2, <2>1, Zenon
<1>5. r \in Seq(S) /\ DOMAIN r = 1 .. m
  BY <1>2, <1>3, <1>4
<1>6. Distinct(r)
  <2> SUFFICES ASSUME NEW k \in 1 .. m, NEW l \in 1 .. m, seq[at(k)].rem = seq[at(l)].rem PROVE k = l
    BY <1>3, <1>5, Zenon DEF Distinct
  <2>1. at(k) = at(l)
    BY <1>2, Zenon
  <2> QED BY <2>1, <1>2, Zenon
<1>7. Rems(r) \subseteq Rems(seq)
  <2> SUFFICES ASSUME NEW k \in 1 .. m PROVE r[k].rem \in Rems(seq)
    BY <1>5, Zenon DEF Rems
  <2>1. r[k] = seq[at(k)]
    BY <1>3, Zenon
  <2> QED BY <2>1, <1>4, Zenon DEF Rems
<1> QED BY <1>5, <1>6, <1>7, Zenon DEF r

\* The list that setSiblingsWithKey makes has no address twice, and none that
\* was not asked for.
LEMMA UniqueFacts ==
    ASSUME NEW S, NEW seq \in Seq(S)
    PROVE  Unique(seq) \in Seq(S) /\ Distinct(Unique(seq)) /\ Rems(Unique(seq)) \subseteq Rems(seq)
<1>1. Firsts(seq) \in SUBSET DOMAIN seq /\ \A i \in DOMAIN seq : i \in Nat
  BY DEF Firsts
<1>2. \A i, j \in Firsts(seq) : seq[i].rem = seq[j].rem => i = j
  <2> SUFFICES ASSUME NEW i \in Firsts(seq), NEW j \in Firsts(seq), i < j PROVE seq[i].rem # seq[j].rem
    <3>1. \A i, j \in Firsts(seq) : i < j \/ j < i \/ i = j
      BY <1>1
    <3> QED BY <3>1, Zenon
  <2>1. i \in 1 .. j - 1
    <3>1. i \in DOMAIN seq /\ j \in DOMAIN seq
      BY <1>1, Zenon
    <3> QED BY <3>1
  <2> QED BY <2>1, Zenon DEF Firsts
<1> QED BY <1>1, <1>2, PickFacts, Zenon DEF Unique

\* Removing a sibling leaves the others as they are.
LEMMA RemovedFacts ==
    ASSUME NEW S, NEW list \in Seq(S), NEW rem, Distinct(list)
    PROVE  Removed(list, rem) \in Seq(S) /\ Distinct(Removed(list, rem)) /\ Rems(Removed(list, rem)) \subseteq Rems(list)
<1> DEFINE F == DOMAIN list \ {i \in Firsts(list) : list[i].rem = rem}
<1>1. F \in SUBSET DOMAIN list /\ Removed(list, rem) = Pick(list, F)
  BY Zenon DEF Removed
<1>2. \A i, j \in F : list[i].rem = list[j].rem => i = j
  BY Zenon DEF Distinct
<1> HIDE DEF F
<1>3. Pick(list, F) \in Seq(S) /\ Distinct(Pick(list, F)) /\ Rems(Pick(list, F)) \subseteq Rems(list)
  BY <1>1, <1>2, PickFacts, Zenon
<1> QED BY <1>1, <1>3, Zenon

-----------------------------------------------------------------------------
(***************************************************************************)
(* The inductive invariant.                                                *)
(***************************************************************************)

\* The lists have the peers they may have, each once. While an addSibling call
\* is between check and insertion, what it has checked stays true.
ListsInv ==
    /\ peers \in [Nodes -> [Lists -> Seq(Peer)]]
    /\ known \in [Nodes -> SUBSET Nodes] /\ \A n \in Nodes : Accepted(peers[n]) \subseteq known[n]
    /\ plan \in Plans
    /\ admin \in [Admins -> plan.requests \union {Idle}]
    /\ changes \in 0 .. MaxChanges
    /\ \A n \in Nodes, l \in Lists : Distinct(peers[n][l]) /\ Rems(peers[n][l]) \subseteq Targets(n, l)
    /\ \A t \in Admins : admin[t] # Idle =>
        admin[t].cmd = "add" /\ admin[t].peers[1].rem \notin Rems(peers[admin[t].node][admin[t].list])

Operation == [origin : Servers, type : OpTypes]
Item == [op : 1 .. MaxOps, forwarded : BOOLEAN]

OpsInv == ops \in Seq(Operation) /\ Len(ops) <= MaxOps /\ lost \subseteq 1 .. MaxOps
NetInv == net \subseteq Packet
QueueInv ==
    /\ d_sibling_queue \in [Nodes -> Seq(Item)]
    /\ \A n \in Nodes : Len(d_sibling_queue[n]) <= max_sibling_queue_size
AppliedInv == applied \in [Servers -> [1 .. MaxOps -> Nat]]

TypeInv == OpsInv /\ NetInv /\ QueueInv /\ AppliedInv

Positions(queue, i) == {j \in DOMAIN queue : queue[j].op = i}

\* Where copies of operation i are on their way to node n.
Queued(n, i) == Positions(d_sibling_queue[n], i)
Sent(n, i) == {p \in net : p.to = n /\ p.op = i}

Present(n, i) == Queued(n, i) # {} \/ Sent(n, i) # {}
Untouched(n, i) == ~Present(n, i) /\ (n \in Servers => applied[n][i] = 0)

Home(cluster, i) == cluster[ops[i].origin]

\* A copy of operation i may come to node n, with this flag: in the cluster of its
\* origin without the flag, elsewhere with it to forwarders and without to servers.
Legit(cluster, n, i, forwarded) ==
    /\ i \in DOMAIN ops
    /\ cluster[n] = Home(cluster, i) => ~forwarded /\ n # ops[i].origin
    /\ cluster[n] # Home(cluster, i) => (forwarded <=> n \in Forwarders)

LegitInv(cluster) ==
    /\ \A p \in net : Legit(cluster, p.to, p.op, p.forwarded)
    /\ \A n \in Nodes : \A j \in DOMAIN d_sibling_queue[n] :
        Legit(cluster, n, d_sibling_queue[n][j].op, d_sibling_queue[n][j].forwarded)
    /\ \A s \in Servers, i \in 1 .. MaxOps : applied[s][i] # 0 => i \in DOMAIN ops

AtMostOne(S) == \A x, y \in S : x = y

\* One copy at most is on its way to a node, and none to a server that had it.
Once(n, i) ==
    /\ AtMostOne(Queued(n, i)) /\ AtMostOne(Sent(n, i))
    /\ Queued(n, i) = {} \/ Sent(n, i) = {}
    /\ n \in Servers => applied[n][i] <= 1 /\ (applied[n][i] # 0 => ~Present(n, i))

\* The nodes that get operation i by way of forwarder f: the other clusters if f
\* is in that of the origin, and its own cluster if not.
Behind(cluster, f, n, i) ==
    IF cluster[f] = Home(cluster, i) THEN cluster[n] # Home(cluster, i)
    ELSE n # f /\ cluster[n] = cluster[f]

\* While a copy is on its way to a forwarder, nothing has come to those behind it.
Stage(cluster, i) ==
    \A f \in Forwarders : Present(f, i) =>
        \A n \in Nodes : Behind(cluster, f, n, i) => Untouched(n, i)

OnceInv == \A i \in 1 .. MaxOps : \A n \in Nodes : Once(n, i)
StageInv(cluster) == \A i \in 1 .. MaxOps : Stage(cluster, i)

CopiesInv(cluster) == LegitInv(cluster) /\ OnceInv /\ StageInv(cluster)

IInv(cluster) == ListsInv /\ TypeInv /\ CopiesInv(cluster)

-----------------------------------------------------------------------------
(***************************************************************************)
(* The lists.                                                              *)
(***************************************************************************)

\* A request is complete, and may only bring peers that the node may have.
LEMMA RequestFacts ==
    ASSUME NEW pl \in Plans, NEW q \in pl.requests
    PROVE  /\ q.cmd \in {"add", "remove", "set"} /\ q.node \in Nodes /\ q.list \in Lists /\ q.peers \in Seq(Peer)
           /\ q.cmd # "set" => 1 \in DOMAIN q.peers
           /\ Rems(q.peers) \subseteq Targets(q.node, q.list)
           /\ q # Idle
<1>1. q \in Request /\ (q.cmd # "set" => Len(q.peers) = 1)
  BY ReplicationAssumption, Zenon
<1>2. q.cmd \in {"add", "remove", "set"} /\ q.node \in Nodes /\ q.list \in Lists /\ q.peers \in Seq(Peer)
  BY <1>1, Zenon DEF Request
<1>3. q.cmd # "set" => 1 \in DOMAIN q.peers
  BY <1>1, <1>2
<1>4. Rems(q.peers) \subseteq Targets(q.node, q.list)
  BY Zenon DEF Targets
<1>5. q # Idle
  <2>1. Idle.cmd = "none"
    BY Zenon DEF Idle
  <2> QED BY <1>2, <2>1, Zenon
<1> QED BY <1>2, <1>3, <1>4, <1>5, Zenon

LEMMA PeerFacts ==
    /\ \A p \in Peer : p.rem \in Nodes /\ p.key \in Keys \union {NoKey}
    /\ \A list \in Seq(Peer) : Rems(list) \subseteq Nodes /\ \A i \in DOMAIN list : list[i] \in Peer
<1>1. \A p \in Peer : p.rem \in Nodes /\ p.key \in Keys \union {NoKey}
  BY Zenon DEF Peer
<1>2. ASSUME NEW list \in Seq(Peer) PROVE \A i \in DOMAIN list : list[i] \in Peer
  OBVIOUS
<1> QED BY <1>1, <1>2, Zenon DEF Rems

LEMMA ListNames == "siblings" \in Lists /\ "dests" \in Lists /\ "srcs" \in Lists
BY Zenon DEF Lists

LEMMA AcceptedNodes ==
    ASSUME NEW lists \in [Lists -> Seq(Peer)]
    PROVE  Accepted(lists) \subseteq Nodes
BY PeerFacts, ListNames, Zenon DEF Accepted

\* Appending to a list, and giving keys to its peers.
LEMMA AppendedFacts ==
    ASSUME NEW list \in Seq(Peer), NEW p \in Peer, Distinct(list), p.rem \notin Rems(list)
    PROVE  /\ Append(list, p) \in Seq(Peer) /\ Distinct(Append(list, p))
           /\ Rems(Append(list, p)) = Rems(list) \union {p.rem}
<1> DEFINE r == Append(list, p)
<1>1. /\ r \in Seq(Peer) /\ Len(list) \in Nat /\ DOMAIN list = 1 .. Len(list) /\ DOMAIN r = 1 .. Len(list) + 1
      /\ r[Len(list) + 1] = p /\ \A i \in 1 .. Len(list) : r[i] = list[i]
  OBVIOUS
<1> HIDE DEF r
<1>2. \A i \in DOMAIN r : i \in DOMAIN list \/ i = Len(list) + 1
  BY <1>1
<1>3. DOMAIN list \subseteq DOMAIN r /\ Len(list) + 1 \in DOMAIN r
  BY <1>1
<1>4. \A i \in DOMAIN list : list[i].rem # p.rem
  BY Zenon DEF Rems
<1>5. Distinct(r)
  BY <1>1, <1>2, <1>4, Zenon DEF Distinct
<1>6. Rems(r) = Rems(list) \union {p.rem}
  <2>1. Rems(r) \subseteq Rems(list) \union {p.rem}
    BY <1>1, <1>2, Zenon DEF Rems
  <2>2. Rems(list) \union {p.rem} \subseteq Rems(r)
    BY <1>1, <1>3, Zenon DEF Rems
  <2> QED BY <2>1, <2>2, Zenon
<1> QED BY <1>1, <1>5, <1>6, Zenon DEF r

LEMMA WithKeysFacts ==
    ASSUME NEW n \in Nodes, NEW list \in Seq(Peer)
    PROVE  WithKeys(n, list) \in Seq(Peer) /\ Rems(WithKeys(n, list)) = Rems(list)
<1> DEFINE r == WithKeys(n, list)
           p(i) == [list[i] EXCEPT !.key = IF @ = NoKey THEN d_key[n] ELSE @]
<1>1. Len(list) \in Nat /\ DOMAIN list = 1 .. Len(list)
  OBVIOUS
<1>2. r = [i \in DOMAIN list |-> p(i)]
  BY Zenon DEF WithKeys
<1>3. ASSUME NEW i \in DOMAIN list PROVE p(i) \in Peer /\ p(i).rem = list[i].rem
  <2>1. list[i] \in Peer /\ d_key[n] \in Keys
    BY PeerFacts, ReplicationAssumption, Zenon
  <2> QED BY <2>1, Zenon DEF Peer
<1> HIDE DEF p, r
<1>4. r \in Seq(Peer) /\ DOMAIN r = DOMAIN list
  BY <1>1, <1>2, <1>3
<1>5. \A i \in DOMAIN list : r[i].rem = list[i].rem
  BY <1>2, <1>3, Zenon
<1> QED BY <1>4, <1>5, Zenon DEF Rems, r

\* A request replaces a list, and no addSibling call is underway.
LEMMA PutLists ==
    ASSUME ListsInv, NEW q \in plan.requests, NEW list \in Seq(Peer), Distinct(list),
           Rems(list) \subseteq Targets(q.node, q.list), Put(q, list), admin' \in [Admins -> plan.requests \union {Idle}],
           \A t \in Admins : admin'[t] = Idle, changes' \in 0 .. MaxChanges
    PROVE  ListsInv'
<1>1. q.node \in Nodes /\ q.list \in Lists
  BY RequestFacts, Zenon DEF ListsInv
<1>2. /\ peers' = [peers EXCEPT ![q.node][q.list] = list] /\ plan' = plan
      /\ known' = [known EXCEPT ![q.node] = @ \union Accepted(peers'[q.node])]
  BY Zenon DEF Put
<1>3. peers \in [Nodes -> [Lists -> Seq(Peer)]] /\ known \in [Nodes -> SUBSET Nodes]
  BY Zenon DEF ListsInv
<1>4. /\ peers' \in [Nodes -> [Lists -> Seq(Peer)]] /\ peers'[q.node][q.list] = list
      /\ \A n \in Nodes, l \in Lists : n # q.node \/ l # q.list => peers'[n][l] = peers[n][l]
      /\ \A n \in Nodes : n # q.node => peers'[n] = peers[n]
  BY <1>1, <1>2, <1>3, Zenon
<1>5. Accepted(peers'[q.node]) \subseteq Nodes
  BY <1>1, <1>4, AcceptedNodes, Zenon
<1>6. /\ known' \in [Nodes -> SUBSET Nodes] /\ known'[q.node] = known[q.node] \union Accepted(peers'[q.node])
      /\ \A n \in Nodes : n # q.node => known'[n] = known[n]
  BY <1>1, <1>2, <1>3, <1>5, Zenon
<1>7. \A n \in Nodes : Accepted(peers'[n]) \subseteq known'[n]
  <2> SUFFICES ASSUME NEW n \in Nodes PROVE Accepted(peers'[n]) \subseteq known'[n]
    BY Zenon
  <2>1. CASE n = q.node
    BY <2>1, <1>6, Zenon
  <2>2. CASE n # q.node
    BY <2>2, <1>4, <1>6, Zenon DEF ListsInv
  <2> QED BY <2>1, <2>2, Zenon
<1>8. \A n \in Nodes, l \in Lists : Distinct(peers'[n][l]) /\ Rems(peers'[n][l]) \subseteq Targets(n, l)
  <2> SUFFICES ASSUME NEW n \in Nodes, NEW l \in Lists
               PROVE  Distinct(peers'[n][l]) /\ Rems(peers'[n][l]) \subseteq Targets(n, l)
    BY Zenon
  <2>1. CASE n = q.node /\ l = q.list
    BY <2>1, <1>4, Zenon
  <2>2. CASE n # q.node \/ l # q.list
    BY <2>2, <1>4, Zenon DEF ListsInv
  <2> QED BY <2>1, <2>2, Zenon
<1>9. plan' \in Plans /\ admin' \in [Admins -> plan'.requests \union {Idle}]
  BY <1>2, Zenon DEF ListsInv
<1> QED BY <1>4, <1>6, <1>7, <1>8, <1>9, Zenon DEF ListsInv

\* Requests that change nothing.
LEMMA KeptLists ==
    ASSUME ListsInv, Kept, UNCHANGED admin, changes' \in 0 .. MaxChanges
    PROVE  ListsInv'
BY Zenon DEF ListsInv, Kept

LEMMA ServeFacts ==
    ASSUME NEW cluster, Clustered(cluster), ListsInv, NEW t \in Admins, NEW q, NEW cmd, Serve(t, q, cmd)
    PROVE  q.cmd = cmd /\ changes' \in 0 .. MaxChanges /\ \A u \in Admins : admin[u] = Idle
<1>1. q.cmd = cmd /\ admin[t] = Idle /\ \A u \in Admins : u = t
  BY Zenon DEF Serve, Clustered
<1>2. changes' \in 0 .. MaxChanges
  BY ReplicationAssumption DEF Serve, ListsInv
<1> QED BY <1>1, <1>2, Zenon

LEMMA addSiblingCheckLists ==
    ASSUME NEW cluster, Clustered(cluster), ListsInv, NEW t \in Admins, NEW q \in plan.requests, addSiblingCheck(t, q)
    PROVE  ListsInv'
<1>1. q.cmd = "add" /\ changes' \in 0 .. MaxChanges /\ \A u \in Admins : admin[u] = Idle
  BY ServeFacts, Zenon DEF addSiblingCheck
<1>2. UNCHANGED <<plan, peers, known>> /\ admin \in [Admins -> plan.requests \union {Idle}]
  BY Zenon DEF addSiblingCheck, Kept, ListsInv
<1> DEFINE there == siblingAddressPortExists(peers[q.node][q.list], q.peers[1].rem)
           a == IF ~q.ok[1] \/ there THEN Idle ELSE q
<1>3. admin' = [admin EXCEPT ![t] = a]
  BY Zenon DEF addSiblingCheck
<1>4. a = Idle \/ (a = q /\ ~there)
  BY Zenon
<1> HIDE DEF a
<1>5. /\ admin' \in [Admins -> plan.requests \union {Idle}] /\ admin'[t] = a
      /\ \A u \in Admins : u # t => admin'[u] = Idle
  BY <1>1, <1>2, <1>3, <1>4, Zenon
<1>6. \A u \in Admins : admin'[u] # Idle =>
        admin'[u].cmd = "add" /\ admin'[u].peers[1].rem \notin Rems(peers[admin'[u].node][admin'[u].list])
  BY <1>1, <1>4, <1>5, Zenon DEF siblingAddressPortExists
<1> HIDE DEF there
<1> QED BY <1>1, <1>2, <1>5, <1>6, Zenon DEF ListsInv

LEMMA addSiblingPushLists ==
    ASSUME NEW cluster, Clustered(cluster), ListsInv, NEW t \in Admins, addSiblingPush(t)
    PROVE  ListsInv'
<1> DEFINE q == admin[t]
           old == peers[q.node][q.list]
           list == Append(old, q.peers[1])
<1>1. q \in plan.requests /\ plan \in Plans /\ q.cmd = "add" /\ q.peers[1].rem \notin Rems(old)
  BY Zenon DEF addSiblingPush, ListsInv
<1>2. q.node \in Nodes /\ q.list \in Lists /\ q.peers \in Seq(Peer) /\ 1 \in DOMAIN q.peers
      /\ Rems(q.peers) \subseteq Targets(q.node, q.list)
  <2>1. q.cmd # "set"
    BY <1>1, Zenon
  <2> HIDE DEF q
  <2> QED BY <1>1, <2>1, RequestFacts, Zenon
<1>3. Put(q, list) /\ admin' = [admin EXCEPT ![t] = Idle] /\ changes' = changes
  BY Zenon DEF addSiblingPush
<1>4. \A u \in Admins : u = t
  BY Zenon DEF Clustered
<1>5. admin' \in [Admins -> plan.requests \union {Idle}] /\ \A u \in Admins : admin'[u] = Idle
  BY <1>3, <1>4, Zenon DEF ListsInv
<1>6. old \in Seq(Peer) /\ Distinct(old) /\ Rems(old) \subseteq Targets(q.node, q.list)
  BY <1>2, Zenon DEF ListsInv
<1>7. q.peers[1] \in Peer /\ q.peers[1].rem \in Rems(q.peers)
  BY <1>2, PeerFacts, Zenon DEF Rems
<1> HIDE DEF old, q
<1>8. list \in Seq(Peer) /\ Distinct(list) /\ Rems(list) \subseteq Targets(q.node, q.list)
  <2>1. list \in Seq(Peer) /\ Distinct(list) /\ Rems(list) = Rems(old) \union {q.peers[1].rem}
    BY <1>1, <1>6, <1>7, AppendedFacts, Zenon
  <2> QED BY <1>2, <1>6, <1>7, <2>1, Zenon
<1> HIDE DEF list
<1>9. changes' \in 0 .. MaxChanges
  BY <1>3, Zenon DEF ListsInv
<1> QED BY <1>1, <1>3, <1>5, <1>8, <1>9, PutLists, Zenon

LEMMA parseRemoveSiblingLists ==
    ASSUME NEW cluster, Clustered(cluster), ListsInv, NEW t \in Admins, NEW q \in plan.requests, parseRemoveSibling(t, q)
    PROVE  ListsInv'
<1> DEFINE old == peers[q.node][q.list]
           list == Removed(old, q.peers[1].rem)
<1>1. changes' \in 0 .. MaxChanges /\ admin' = admin /\ \A u \in Admins : admin[u] = Idle
  BY ServeFacts, Zenon DEF parseRemoveSibling
<1>2. Put(q, list) \/ Kept
  BY Zenon DEF parseRemoveSibling
<1>3. CASE Kept
  BY <1>1, <1>3, KeptLists, Zenon
<1>4. CASE Put(q, list)
  <2>1. q.node \in Nodes /\ q.list \in Lists
    BY RequestFacts, Zenon DEF ListsInv
  <2>2. old \in Seq(Peer) /\ Distinct(old) /\ Rems(old) \subseteq Targets(q.node, q.list)
    BY <2>1, Zenon DEF ListsInv
  <2>3. list \in Seq(Peer) /\ Distinct(list) /\ Rems(list) \subseteq Rems(old)
    <3> HIDE DEF old
    <3> QED BY <2>2, RemovedFacts, Zenon
  <2>4. admin' \in [Admins -> plan.requests \union {Idle}] /\ \A u \in Admins : admin'[u] = Idle
    BY <1>1, Zenon DEF ListsInv
  <2> HIDE DEF old, list
  <2> QED BY <1>1, <1>4, <2>2, <2>3, <2>4, PutLists, Zenon
<1> QED BY <1>2, <1>3, <1>4, Zenon

LEMMA parseSetSiblingsLists ==
    ASSUME NEW cluster, Clustered(cluster), ListsInv, NEW t \in Admins, NEW q \in plan.requests, parseSetSiblings(t, q)
    PROVE  ListsInv'
<1> DEFINE list == Unique(WithKeys(q.node, q.peers))
<1>1. changes' \in 0 .. MaxChanges /\ admin' = admin /\ \A u \in Admins : admin[u] = Idle
  BY ServeFacts, Zenon DEF parseSetSiblings
<1>2. Put(q, list) \/ Kept
  BY Zenon DEF parseSetSiblings
<1>3. CASE Kept
  BY <1>1, <1>3, KeptLists, Zenon
<1>4. CASE Put(q, list)
  <2>1. q.node \in Nodes /\ q.peers \in Seq(Peer) /\ Rems(q.peers) \subseteq Targets(q.node, q.list)
    BY RequestFacts, Zenon DEF ListsInv
  <2>2. WithKeys(q.node, q.peers) \in Seq(Peer) /\ Rems(WithKeys(q.node, q.peers)) = Rems(q.peers)
    BY <2>1, WithKeysFacts, Zenon
  <2>3. list \in Seq(Peer) /\ Distinct(list) /\ Rems(list) \subseteq Targets(q.node, q.list)
    BY <2>1, <2>2, UniqueFacts, Zenon
  <2>4. admin' \in [Admins -> plan.requests \union {Idle}] /\ \A u \in Admins : admin'[u] = Idle
    BY <1>1, Zenon DEF ListsInv
  <2> HIDE DEF list
  <2> QED BY <1>1, <1>4, <2>3, <2>4, PutLists, Zenon
<1> QED BY <1>2, <1>3, <1>4, Zenon

-----------------------------------------------------------------------------
(***************************************************************************)
(* What a node sends, and its queue.                                       *)
(***************************************************************************)

LEMMA KeyTypes ==
    ASSUME NEW n \in Nodes, NEW d \in Peer
    PROVE  KeyFor(n, d) \in Keys \union {NoKey} /\ ForwardKey(n, d) \in Keys \union {NoKey}
<1>1. d_key[n] \in Keys \union {NoKey} /\ d.key \in Keys \union {NoKey}
  BY ReplicationAssumption, PeerFacts, Zenon
<1> QED BY <1>1, Zenon DEF KeyFor, ForwardKey

\* The packets of operation i, one for each peer it goes to.
Packets(S, n, i, forwarded, T) ==
    /\ S \subseteq Packet
    /\ \A p \in S : p.op = i /\ p.forwarded = forwarded /\ p.to \in T
    /\ \A p, q \in S : p.to = q.to => p = q

LEMMA SiblingPackets ==
    ASSUME ListsInv, NEW n \in Nodes, NEW i \in 1 .. MaxOps, NEW fwd \in BOOLEAN
    PROVE  Packets(replicateOperation(n, i, fwd), n, i, fwd, Targets(n, "siblings") \ {n})
<1> DEFINE l == peers[n]["siblings"]
           P(j) == [from |-> n, to |-> l[j].rem, op |-> i, forwarded |-> fwd, key |-> KeyFor(n, l[j]), via |-> j]
           J == {j \in DOMAIN l : l[j].rem # n}
<1>1. l \in Seq(Peer) /\ Distinct(l) /\ Rems(l) \subseteq Targets(n, "siblings")
  BY ListNames, Zenon DEF ListsInv
<1>2. replicateOperation(n, i, fwd) = {P(j) : j \in J}
  BY Zenon DEF replicateOperation
<1> HIDE DEF l
<1>3. \A j \in J : j \in DOMAIN l /\ l[j] \in Peer /\ l[j].rem \in Nodes /\ j \in Nat /\ l[j].rem # n
                   /\ l[j].rem \in Targets(n, "siblings") /\ KeyFor(n, l[j]) \in Keys \union {NoKey}
  <2> SUFFICES ASSUME NEW j \in J
               PROVE  /\ j \in DOMAIN l /\ l[j] \in Peer /\ l[j].rem \in Nodes /\ j \in Nat /\ l[j].rem # n
                      /\ l[j].rem \in Targets(n, "siblings") /\ KeyFor(n, l[j]) \in Keys \union {NoKey}
    BY Zenon
  <2>1. j \in DOMAIN l /\ l[j].rem # n
    BY Zenon
  <2>2. j \in Nat /\ l[j] \in Peer
    BY <1>1, <2>1
  <2>3. l[j].rem \in Nodes /\ KeyFor(n, l[j]) \in Keys \union {NoKey}
    BY <2>2, PeerFacts, KeyTypes, Zenon
  <2>4. l[j].rem \in Rems(l)
    BY <2>1, Zenon DEF Rems
  <2> QED BY <1>1, <2>1, <2>2, <2>3, <2>4, Zenon
<1>4. \A j \in J : P(j) \in Packet
  BY <1>3, Zenon DEF Packet
<1>5. \A j, k \in J : P(j).to = P(k).to => j = k
  BY <1>1, <1>3, Zenon DEF Distinct
<1>6. \A j \in J : P(j).op = i /\ P(j).forwarded = fwd /\ P(j).to \in Targets(n, "siblings") \ {n}
  BY <1>3, Zenon
<1> HIDE DEF P, J
<1>7. \A p \in {P(j) : j \in J}, q \in {P(j) : j \in J} : p.to = q.to => p = q
  BY <1>5, Zenon
<1> QED BY <1>2, <1>4, <1>6, <1>7, Zenon DEF Packets

LEMMA DestPackets ==
    ASSUME ListsInv, NEW n \in Nodes, NEW i \in 1 .. MaxOps
    PROVE  Packets(Forward(n, i), n, i, TRUE, Targets(n, "dests"))
<1> DEFINE l == peers[n]["dests"]
           P(j) == [from |-> n, to |-> l[j].rem, op |-> i, forwarded |-> TRUE, key |-> ForwardKey(n, l[j]), via |-> j]
           J == {j \in DOMAIN l : Wanted(l[j], ops[i].type)}
<1>1. l \in Seq(Peer) /\ Distinct(l) /\ Rems(l) \subseteq Targets(n, "dests")
  BY ListNames, Zenon DEF ListsInv
<1>2. Forward(n, i) = {P(j) : j \in J}
  BY Zenon DEF Forward
<1> HIDE DEF l
<1>3. \A j \in J : j \in DOMAIN l /\ l[j] \in Peer /\ l[j].rem \in Nodes /\ j \in Nat
                   /\ l[j].rem \in Targets(n, "dests") /\ ForwardKey(n, l[j]) \in Keys \union {NoKey}
  <2> SUFFICES ASSUME NEW j \in J
               PROVE  /\ j \in DOMAIN l /\ l[j] \in Peer /\ l[j].rem \in Nodes /\ j \in Nat
                      /\ l[j].rem \in Targets(n, "dests") /\ ForwardKey(n, l[j]) \in Keys \union {NoKey}
    BY Zenon
  <2>1. j \in DOMAIN l
    BY Zenon
  <2>2. j \in Nat /\ l[j] \in Peer
    BY <1>1, <2>1
  <2>3. l[j].rem \in Nodes /\ ForwardKey(n, l[j]) \in Keys \union {NoKey}
    BY <2>2, PeerFacts, KeyTypes, Zenon
  <2>4. l[j].rem \in Rems(l)
    BY <2>1, Zenon DEF Rems
  <2> QED BY <1>1, <2>1, <2>2, <2>3, <2>4, Zenon
<1>4. \A j \in J : P(j) \in Packet
  BY <1>3, Zenon DEF Packet
<1>5. \A j, k \in J : P(j).to = P(k).to => j = k
  BY <1>1, <1>3, Zenon DEF Distinct
<1>6. \A j \in J : P(j).op = i /\ P(j).forwarded = TRUE /\ P(j).to \in Targets(n, "dests")
  BY <1>3, Zenon
<1> HIDE DEF P, J
<1>7. \A p \in {P(j) : j \in J}, q \in {P(j) : j \in J} : p.to = q.to => p = q
  BY <1>5, Zenon
<1> QED BY <1>2, <1>4, <1>6, <1>7, Zenon DEF Packets

LEMMA PacketFields ==
    ASSUME NEW p \in Packet
    PROVE  /\ p.from \in Nodes /\ p.to \in Nodes /\ p.op \in 1 .. MaxOps /\ p.forwarded \in BOOLEAN
           /\ [op |-> p.op, forwarded |-> p.forwarded] \in Item
BY Zenon DEF Packet, Item

LEMMA ItemFields ==
    ASSUME NEW x \in Item
    PROVE  x.op \in 1 .. MaxOps /\ x.forwarded \in BOOLEAN
BY Zenon DEF Item

LEMMA TailPositions ==
    ASSUME NEW queue \in Seq(Item), queue # <<>>
    PROVE  /\ Head(queue) \in Item /\ Tail(queue) \in Seq(Item) /\ Len(Tail(queue)) <= Len(queue)
           /\ 1 \in Positions(queue, Head(queue).op)
           /\ \A j \in DOMAIN Tail(queue) : \E k \in DOMAIN queue : k # 1 /\ queue[k] = Tail(queue)[j]
           /\ \A i : Positions(Tail(queue), i) = {} \/ Positions(queue, i) # {}
           /\ \A i : AtMostOne(Positions(queue, i)) => AtMostOne(Positions(Tail(queue), i))
           /\ AtMostOne(Positions(queue, Head(queue).op)) => Positions(Tail(queue), Head(queue).op) = {}
<1> DEFINE r == Tail(queue)
<1>1. /\ r \in Seq(Item) /\ Len(queue) \in Nat \ {0} /\ DOMAIN queue = 1 .. Len(queue)
      /\ Len(r) = Len(queue) - 1 /\ DOMAIN r = 1 .. Len(queue) - 1
      /\ \A j \in DOMAIN r : r[j] = queue[j + 1]
      /\ Head(queue) = queue[1] /\ queue[1] \in Item
  OBVIOUS
<1> HIDE DEF r
<1>2. 1 \in DOMAIN queue /\ Len(r) <= Len(queue)
  BY <1>1
<1>3. \A j \in DOMAIN r : j + 1 \in DOMAIN queue /\ j + 1 # 1 /\ r[j] = queue[j + 1]
  BY <1>1
<1>4. \A j, k \in DOMAIN r : j + 1 = k + 1 => j = k
  BY <1>1
<1>5. 1 \in Positions(queue, Head(queue).op)
  BY <1>1, <1>2, Zenon DEF Positions
<1>6. \A i : \A j \in Positions(r, i) : j \in DOMAIN r /\ j + 1 \in Positions(queue, i) /\ j + 1 # 1
  BY <1>3, Zenon DEF Positions
<1>7. \A i : AtMostOne(Positions(queue, i)) => AtMostOne(Positions(r, i))
  BY <1>4, <1>6, ZenonT(40) DEF AtMostOne
<1>8. AtMostOne(Positions(queue, Head(queue).op)) => Positions(r, Head(queue).op) = {}
  BY <1>5, <1>6, Zenon DEF AtMostOne
<1>9. \A i : Positions(r, i) = {} \/ Positions(queue, i) # {}
  BY <1>6, Zenon
<1> QED BY <1>1, <1>2, <1>3, <1>5, <1>7, <1>8, <1>9, Zenon DEF r

LEMMA AppendPositions ==
    ASSUME NEW queue \in Seq(Item), NEW x \in Item
    PROVE  /\ Append(queue, x) \in Seq(Item) /\ Len(Append(queue, x)) = Len(queue) + 1
           /\ \A j \in DOMAIN Append(queue, x) : Append(queue, x)[j] = x \/ \E k \in DOMAIN queue : queue[k] = Append(queue, x)[j]
           /\ \A i : i # x.op => Positions(Append(queue, x), i) = Positions(queue, i)
           /\ Positions(queue, x.op) = {} => AtMostOne(Positions(Append(queue, x), x.op))
<1> DEFINE r == Append(queue, x)
<1>1. /\ r \in Seq(Item) /\ Len(queue) \in Nat /\ DOMAIN queue = 1 .. Len(queue) /\ Len(r) = Len(queue) + 1
      /\ DOMAIN r = 1 .. Len(queue) + 1 /\ r[Len(queue) + 1] = x /\ \A j \in 1 .. Len(queue) : r[j] = queue[j]
  OBVIOUS
<1> HIDE DEF r
<1>2. \A j \in DOMAIN r : j = Len(r) \/ (j \in DOMAIN queue /\ j # Len(r))
  BY <1>1
<1>3. DOMAIN queue \subseteq DOMAIN r /\ r[Len(r)] = x /\ \A j \in DOMAIN queue : r[j] = queue[j]
  BY <1>1
<1>4. \A i : \A j : j \in Positions(queue, i) => j \in Positions(r, i)
  BY <1>3, Zenon DEF Positions
<1>5. \A i : i # x.op => \A j : j \in Positions(r, i) => j \in Positions(queue, i)
  BY <1>2, <1>3, Zenon DEF Positions
<1>6. \A j : j \in Positions(r, x.op) => j = Len(r) \/ j \in Positions(queue, x.op)
  BY <1>2, <1>3, Zenon DEF Positions
<1>7. Positions(queue, x.op) = {} => AtMostOne(Positions(r, x.op))
  BY <1>6, Zenon DEF AtMostOne
<1>8. \A i : i # x.op => Positions(r, i) = Positions(queue, i)
  <2> SUFFICES ASSUME NEW i, i # x.op PROVE Positions(r, i) = Positions(queue, i)
    BY Zenon
  <2>1. Positions(r, i) \subseteq Positions(queue, i) /\ Positions(queue, i) \subseteq Positions(r, i)
    BY <1>4, <1>5, Zenon
  <2> QED BY <2>1, Zenon
<1> QED BY <1>1, <1>2, <1>3, <1>7, <1>8, Zenon DEF r

-----------------------------------------------------------------------------
(***************************************************************************)
(* Steps that bring no new copies.                                         *)
(***************************************************************************)

LEMMA StageKeeps ==
    ASSUME NEW cluster, NEW i \in 1 .. MaxOps, Stage(cluster, i), Home(cluster, i)' = Home(cluster, i),
           \A n \in Nodes : Present(n, i)' => Present(n, i),
           \A n \in Nodes : Untouched(n, i) => Untouched(n, i)'
    PROVE  Stage(cluster, i)'
<1> SUFFICES ASSUME NEW f \in Forwarders, Present(f, i)', NEW n \in Nodes, Behind(cluster, f, n, i)'
             PROVE  Untouched(n, i)'
  BY Zenon DEF Stage
<1>1. f \in Nodes
  BY Zenon DEF Nodes
<1>2. Behind(cluster, f, n, i)
  BY Zenon DEF Behind
<1> QED BY <1>1, <1>2, Zenon DEF Stage

LEMMA OnceKeeps ==
    ASSUME NEW n \in Nodes, NEW i \in 1 .. MaxOps, Once(n, i), Queued(n, i)' = Queued(n, i),
           Sent(n, i)' \subseteq Sent(n, i), n \in Servers => applied'[n][i] = applied[n][i]
    PROVE  Once(n, i)' /\ (Present(n, i)' => Present(n, i)) /\ (Untouched(n, i) => Untouched(n, i)')
<1>1. AtMostOne(Sent(n, i))' /\ AtMostOne(Queued(n, i))'
  BY Zenon DEF Once, AtMostOne
<1>2. Sent(n, i) = {} => Sent(n, i)' = {}
  BY Zenon
<1>3. Present(n, i)' => Present(n, i)
  BY <1>2, Zenon DEF Present
<1>4. (Untouched(n, i) => Untouched(n, i)')
  BY <1>3, Zenon DEF Untouched
<1>5. (n \in Servers => applied[n][i] <= 1 /\ (applied[n][i] # 0 => ~Present(n, i)))'
  BY <1>3, Zenon DEF Once
<1> QED BY <1>1, <1>2, <1>3, <1>4, <1>5, Zenon DEF Once

LEMMA SameMessages ==
    ASSUME NEW cluster, TypeInv, CopiesInv(cluster), UNCHANGED <<ops, net, d_sibling_queue, applied, lost>>
    PROVE  TypeInv' /\ CopiesInv(cluster)'
<1>1. TypeInv'
  BY Zenon DEF TypeInv, OpsInv, NetInv, QueueInv, AppliedInv
<1>2. LegitInv(cluster)'
  BY Zenon DEF CopiesInv, LegitInv, Legit, Home
<1>3. \A n, i : Queued(n, i)' = Queued(n, i) /\ Sent(n, i)' = Sent(n, i)
  BY Zenon DEF Queued, Sent
<1>4. \A n, i : /\ Present(n, i)' = Present(n, i) /\ Untouched(n, i)' = Untouched(n, i)
                /\ Once(n, i)' = Once(n, i)
  BY <1>3, ZenonT(40) DEF Present, Untouched, Once
<1>5. OnceInv'
  BY <1>4, Zenon DEF CopiesInv, OnceInv
<1>6. StageInv(cluster)'
  BY <1>4, Zenon DEF CopiesInv, StageInv, Stage, Behind, Home
<1> QED BY <1>1, <1>2, <1>5, <1>6, Zenon DEF CopiesInv

LEMMA FewerPackets ==
    ASSUME NEW cluster, TypeInv, CopiesInv(cluster), net' \subseteq net, lost' \subseteq 1 .. MaxOps,
           UNCHANGED <<ops, d_sibling_queue, applied>>
    PROVE  TypeInv' /\ CopiesInv(cluster)'
<1>1. TypeInv'
  BY Zenon DEF TypeInv, OpsInv, NetInv, QueueInv, AppliedInv
<1>2. LegitInv(cluster)'
  BY ZenonT(40) DEF CopiesInv, LegitInv, Legit, Home
<1>3. \A n, i : Queued(n, i)' = Queued(n, i) /\ Sent(n, i)' \subseteq Sent(n, i)
  BY Zenon DEF Queued, Sent
<1>4. \A i \in 1 .. MaxOps : \A n \in Nodes :
        Once(n, i)' /\ (Present(n, i)' => Present(n, i)) /\ (Untouched(n, i) => Untouched(n, i)')
  BY <1>3, OnceKeeps, Zenon DEF CopiesInv, OnceInv
<1>5. OnceInv'
  BY <1>4, Zenon DEF OnceInv
<1>6. \A i : Home(cluster, i)' = Home(cluster, i)
  BY Zenon DEF Home
<1>7. StageInv(cluster)'
  BY <1>4, <1>6, StageKeeps, Zenon DEF CopiesInv, StageInv
<1> QED BY <1>1, <1>2, <1>5, <1>7, Zenon DEF CopiesInv

LEMMA EnqueueCopies ==
    ASSUME NEW cluster, TypeInv, CopiesInv(cluster), NEW p \in net, net' = net \ {p}, ~Full(p.to),
           d_sibling_queue' = Enqueued(p), UNCHANGED <<ops, applied, lost>>
    PROVE  TypeInv' /\ CopiesInv(cluster)'
<1> DEFINE m == p.to
           o == p.op
           x == [op |-> p.op, forwarded |-> p.forwarded]
           queue == d_sibling_queue[m]
           r == Append(queue, x)
<1>1. /\ p \in Packet /\ m \in Nodes /\ o \in 1 .. MaxOps /\ x \in Item /\ x.op = o /\ x.forwarded = p.forwarded
  BY PacketFields, Zenon DEF TypeInv, NetInv
<1>2. /\ d_sibling_queue \in [Nodes -> Seq(Item)] /\ queue \in Seq(Item)
      /\ \A n \in Nodes : Len(d_sibling_queue[n]) <= max_sibling_queue_size
  BY <1>1, Zenon DEF TypeInv, QueueInv
<1>3. d_sibling_queue' = [d_sibling_queue EXCEPT ![m] = r]
  BY Zenon DEF Enqueued
<1>4. ~(Len(queue) >= max_sibling_queue_size)
  BY Zenon DEF Full
<1> HIDE DEF x, queue, m, o
<1>5. /\ r \in Seq(Item) /\ Len(r) = Len(queue) + 1
      /\ \A j \in DOMAIN r : r[j] = x \/ \E k \in DOMAIN queue : queue[k] = r[j]
      /\ \A i : i # o => Positions(r, i) = Positions(queue, i)
      /\ Positions(queue, o) = {} => AtMostOne(Positions(r, o))
  BY <1>1, <1>2, AppendPositions, ZenonT(40)
<1>6. Len(r) <= max_sibling_queue_size
  BY <1>2, <1>4, <1>5, ReplicationAssumption
<1> HIDE DEF r
<1>7. d_sibling_queue' \in [Nodes -> Seq(Item)] /\ d_sibling_queue'[m] = r
      /\ \A n \in Nodes : n # m => d_sibling_queue'[n] = d_sibling_queue[n]
  BY <1>1, <1>2, <1>3, <1>5, Zenon
<1>8. TypeInv'
  <2>1. QueueInv'
    BY <1>2, <1>6, <1>7, Zenon DEF QueueInv
  <2> QED BY <2>1, Zenon DEF TypeInv, OpsInv, NetInv, AppliedInv
<1>9. LegitInv(cluster)'
  <2>1. Legit(cluster, m, x.op, x.forwarded)
    BY <1>1, Zenon DEF CopiesInv, LegitInv, m, o
  <2>2. \A n \in Nodes : \A j \in DOMAIN d_sibling_queue'[n] :
          Legit(cluster, n, d_sibling_queue'[n][j].op, d_sibling_queue'[n][j].forwarded)
    <3> SUFFICES ASSUME NEW n \in Nodes, NEW j \in DOMAIN d_sibling_queue'[n]
                 PROVE  Legit(cluster, n, d_sibling_queue'[n][j].op, d_sibling_queue'[n][j].forwarded)
      BY Zenon
    <3>1. CASE n # m
      BY <3>1, <1>7, Zenon DEF CopiesInv, LegitInv
    <3>2. CASE n = m
      <4>1. r[j] = x \/ \E k \in DOMAIN queue : queue[k] = r[j]
        BY <3>2, <1>5, <1>7, Zenon
      <4>2. CASE r[j] = x
        BY <3>2, <4>2, <1>7, <2>1, Zenon
      <4>3. CASE \E k \in DOMAIN queue : queue[k] = r[j]
        BY <1>1, <3>2, <4>3, <1>7, Zenon DEF CopiesInv, LegitInv, queue
      <4> QED BY <4>1, <4>2, <4>3, Zenon
    <3> QED BY <3>1, <3>2, Zenon
  <2>3. \A q \in net' : Legit(cluster, q.to, q.op, q.forwarded)
    BY Zenon DEF CopiesInv, LegitInv
  <2> QED BY <2>2, <2>3, Zenon DEF CopiesInv, LegitInv, Legit, Home
<1>10. \A n, i : Sent(n, i)' \subseteq Sent(n, i)
  BY Zenon DEF Sent
<1>11. \A n \in Nodes : \A i \in 1 .. MaxOps : n # m \/ i # o => Queued(n, i)' = Queued(n, i)
  <2> SUFFICES ASSUME NEW n \in Nodes, NEW i \in 1 .. MaxOps, n # m \/ i # o PROVE Queued(n, i)' = Queued(n, i)
    BY Zenon
  <2>1. CASE n # m
    BY <2>1, <1>7, Zenon DEF Queued
  <2>2. CASE n = m
    BY <2>2, <1>5, <1>7, Zenon DEF Queued, queue
  <2> QED BY <2>1, <2>2, Zenon
<1>12. Once(m, o)' /\ (Present(m, o)' => Present(m, o)) /\ (Untouched(m, o) => Untouched(m, o)')
  <2>1. Once(m, o) /\ p \in Sent(m, o)
    BY <1>1, Zenon DEF CopiesInv, OnceInv, Sent, m, o
  <2>2. Queued(m, o) = {} /\ Present(m, o) /\ \A q \in Sent(m, o) : q = p
    BY <2>1, Zenon DEF Once, Present, AtMostOne
  <2>3. Sent(m, o)' = {}
    BY <2>2, Zenon DEF Sent
  <2>4. AtMostOne(Queued(m, o))'
    BY <2>2, <1>5, <1>7, Zenon DEF Queued, queue
  <2>5. (m \in Servers => applied[m][o] <= 1) /\ (m \in Servers => applied[m][o] = 0)
    BY <2>1, <2>2, Zenon DEF Once
  <2>6. AtMostOne(Sent(m, o))'
    BY <2>3, Zenon DEF AtMostOne
  <2> QED BY <2>2, <2>3, <2>4, <2>5, <2>6, Zenon DEF Once, Untouched
<1>13. \A i \in 1 .. MaxOps : \A n \in Nodes :
        Once(n, i)' /\ (Present(n, i)' => Present(n, i)) /\ (Untouched(n, i) => Untouched(n, i)')
  <2> SUFFICES ASSUME NEW i \in 1 .. MaxOps, NEW n \in Nodes
               PROVE  Once(n, i)' /\ (Present(n, i)' => Present(n, i)) /\ (Untouched(n, i) => Untouched(n, i)')
    BY Zenon
  <2>1. CASE n = m /\ i = o
    BY <2>1, <1>12, Zenon
  <2>2. CASE n # m \/ i # o
    <3>1. Once(n, i)
      BY Zenon DEF CopiesInv, OnceInv
    <3> QED BY <2>2, <3>1, <1>10, <1>11, OnceKeeps, Zenon
  <2> QED BY <2>1, <2>2, Zenon
<1>14. OnceInv'
  BY <1>13, Zenon DEF OnceInv
<1>15. StageInv(cluster)'
  <2>1. \A i : Home(cluster, i)' = Home(cluster, i)
    BY Zenon DEF Home
  <2> QED BY <1>13, <2>1, StageKeeps, Zenon DEF CopiesInv, StageInv
<1> QED BY <1>8, <1>9, <1>14, <1>15, Zenon DEF CopiesInv

LEMMA ReceiveCopies ==
    ASSUME NEW cluster, TypeInv, CopiesInv(cluster), NEW p \in net, Receive(p)
    PROVE  TypeInv' /\ CopiesInv(cluster)'
<1>1. p.op \in 1 .. MaxOps /\ lost \subseteq 1 .. MaxOps
  BY PacketFields, Zenon DEF TypeInv, NetInv, OpsInv
<1>2. net' = net \ {p} /\ net' \subseteq net /\ UNCHANGED <<ops, applied>>
  BY Zenon DEF Receive
<1>3. \/ MayReject(p) /\ UNCHANGED <<d_sibling_queue, lost>>
      \/ MayAccept(p) /\ Full(p.to) /\ lost' = lost \union {p.op} /\ UNCHANGED d_sibling_queue
      \/ MayAccept(p) /\ ~Full(p.to) /\ d_sibling_queue' = Enqueued(p) /\ UNCHANGED lost
  BY Zenon DEF Receive
<1>4. CASE UNCHANGED d_sibling_queue /\ (UNCHANGED lost \/ lost' = lost \union {p.op})
  <2>1. lost' \subseteq 1 .. MaxOps
    BY <1>1, <1>4, Zenon
  <2> QED BY <1>2, <1>4, <2>1, FewerPackets, Zenon
<1>5. CASE ~Full(p.to) /\ d_sibling_queue' = Enqueued(p) /\ UNCHANGED lost
  BY <1>2, <1>5, EnqueueCopies, Zenon
<1> QED BY <1>3, <1>4, <1>5, Zenon

LEMMA LoseCopies ==
    ASSUME NEW cluster, TypeInv, CopiesInv(cluster), NEW p \in net, Lose(p)
    PROVE  TypeInv' /\ CopiesInv(cluster)'
<1>1. p.op \in 1 .. MaxOps /\ lost \subseteq 1 .. MaxOps
  BY PacketFields, Zenon DEF TypeInv, NetInv, OpsInv
<1>2. net' \subseteq net /\ UNCHANGED <<ops, d_sibling_queue, applied>> /\ lost' \subseteq 1 .. MaxOps
  BY <1>1, Zenon DEF Lose
<1> QED BY <1>2, FewerPackets, Zenon

\* A worker takes the first item of the queue of node m.
LEMMA Dequeue ==
    ASSUME NEW cluster, QueueInv, CopiesInv(cluster), NEW m \in Nodes, d_sibling_queue[m] # <<>>,
           d_sibling_queue' = [d_sibling_queue EXCEPT ![m] = Tail(@)],
           NEW x, x = Head(d_sibling_queue[m])
    PROVE  /\ QueueInv' /\ x \in Item /\ Legit(cluster, m, x.op, x.forwarded)
           /\ \A n \in Nodes : \A j \in DOMAIN d_sibling_queue'[n] :
                Legit(cluster, n, d_sibling_queue'[n][j].op, d_sibling_queue'[n][j].forwarded)
           /\ \A n \in Nodes : n # m => d_sibling_queue'[n] = d_sibling_queue[n]
           /\ \A i \in 1 .. MaxOps : \A n \in Nodes :
                AtMostOne(Queued(n, i))' /\ (Queued(n, i) = {} => Queued(n, i)' = {})
           /\ Present(m, x.op) /\ Sent(m, x.op) = {} /\ Queued(m, x.op)' = {}
<1> DEFINE queue == d_sibling_queue[m]
           r == Tail(queue)
           o == x.op
<1>1. /\ d_sibling_queue \in [Nodes -> Seq(Item)] /\ queue \in Seq(Item)
      /\ \A n \in Nodes : Len(d_sibling_queue[n]) <= max_sibling_queue_size
      /\ d_sibling_queue' = [d_sibling_queue EXCEPT ![m] = r] /\ queue # <<>> /\ x = Head(queue)
  BY Zenon DEF QueueInv
<1> HIDE DEF queue
<1>2. /\ x \in Item /\ r \in Seq(Item) /\ Len(r) <= Len(queue)
      /\ 1 \in Positions(queue, o)
      /\ \A j \in DOMAIN r : \E k \in DOMAIN queue : k # 1 /\ queue[k] = r[j]
      /\ \A i : Positions(r, i) = {} \/ Positions(queue, i) # {}
      /\ \A i : AtMostOne(Positions(queue, i)) => AtMostOne(Positions(r, i))
      /\ AtMostOne(Positions(queue, o)) => Positions(r, o) = {}
  <2>1. /\ Head(queue) \in Item /\ r \in Seq(Item) /\ Len(r) <= Len(queue)
        /\ 1 \in Positions(queue, Head(queue).op)
        /\ \A j \in DOMAIN r : \E k \in DOMAIN queue : k # 1 /\ queue[k] = r[j]
        /\ \A i : Positions(r, i) = {} \/ Positions(queue, i) # {}
        /\ \A i : AtMostOne(Positions(queue, i)) => AtMostOne(Positions(r, i))
        /\ AtMostOne(Positions(queue, Head(queue).op)) => Positions(r, Head(queue).op) = {}
    BY <1>1, TailPositions, Zenon
  <2> QED BY <1>1, <2>1, Zenon
<1>3. 1 \in DOMAIN queue /\ queue[1] = x
  BY <1>1
<1>4. Len(r) <= max_sibling_queue_size
  BY <1>1, <1>2, ReplicationAssumption DEF queue
<1> HIDE DEF r
<1>5. d_sibling_queue' \in [Nodes -> Seq(Item)] /\ d_sibling_queue'[m] = r
      /\ \A n \in Nodes : n # m => d_sibling_queue'[n] = d_sibling_queue[n]
  BY <1>1, <1>2, Zenon
<1>6. QueueInv'
  BY <1>1, <1>4, <1>5, Zenon DEF QueueInv
<1>7. Legit(cluster, m, x.op, x.forwarded)
  BY <1>3, Zenon DEF CopiesInv, LegitInv, queue
<1>8. \A n \in Nodes : \A j \in DOMAIN d_sibling_queue'[n] :
        Legit(cluster, n, d_sibling_queue'[n][j].op, d_sibling_queue'[n][j].forwarded)
  <2> SUFFICES ASSUME NEW n \in Nodes, NEW j \in DOMAIN d_sibling_queue'[n]
               PROVE  Legit(cluster, n, d_sibling_queue'[n][j].op, d_sibling_queue'[n][j].forwarded)
    BY Zenon
  <2>1. CASE n # m
    BY <2>1, <1>5, Zenon DEF CopiesInv, LegitInv
  <2>2. CASE n = m
    BY <2>2, <1>2, <1>5, ZenonT(40) DEF CopiesInv, LegitInv, queue
  <2> QED BY <2>1, <2>2, Zenon
<1>9. \A i \in 1 .. MaxOps : \A n \in Nodes :
        AtMostOne(Queued(n, i))' /\ (Queued(n, i) = {} => Queued(n, i)' = {})
  <2> SUFFICES ASSUME NEW i \in 1 .. MaxOps, NEW n \in Nodes
               PROVE  AtMostOne(Queued(n, i))' /\ (Queued(n, i) = {} => Queued(n, i)' = {})
    BY Zenon
  <2>1. AtMostOne(Queued(n, i))
    BY Zenon DEF CopiesInv, OnceInv, Once
  <2>2. CASE n # m
    <3>1. Queued(n, i)' = Queued(n, i)
      BY <2>2, <1>5, Zenon DEF Queued
    <3> QED BY <2>1, <3>1, Zenon DEF AtMostOne
  <2>3. CASE n = m
    <3>1. Queued(n, i) = Positions(queue, i) /\ Queued(n, i)' = Positions(r, i)
      BY <2>3, <1>5, Zenon DEF Queued, queue
    <3>2. AtMostOne(Positions(r, i))
      BY <2>1, <3>1, <1>2, Zenon
    <3>3. AtMostOne(Queued(n, i))'
      BY <3>1, <3>2, Zenon DEF AtMostOne
    <3>4. Positions(r, i) = {} \/ Positions(queue, i) # {}
      BY <1>2, Zenon
    <3> QED BY <3>1, <3>3, <3>4, Zenon
  <2> QED BY <2>2, <2>3, Zenon
<1>10. o \in 1 .. MaxOps
  BY <1>2, ItemFields, Zenon
<1>11. Present(m, o) /\ Sent(m, o) = {} /\ Queued(m, o)' = {}
  <2>1. Queued(m, o) = Positions(queue, o) /\ Queued(m, o)' = Positions(r, o)
    <3> HIDE DEF o
    <3> QED BY <1>5, Zenon DEF Queued, queue
  <2>2. Once(m, o)
    BY <1>10, Zenon DEF CopiesInv, OnceInv
  <2> HIDE DEF o
  <2>3. Queued(m, o) # {} /\ AtMostOne(Queued(m, o)) /\ (Queued(m, o) = {} \/ Sent(m, o) = {})
    BY <2>1, <2>2, <1>2, Zenon DEF Once, o
  <2> QED BY <2>1, <2>3, <1>2, Zenon DEF Present, o
<1> QED BY <1>2, <1>5, <1>6, <1>7, <1>8, <1>9, <1>11, Zenon DEF queue

LEMMA applyOperationCopies ==
    ASSUME NEW cluster, TypeInv, CopiesInv(cluster), NEW s \in Servers, applyOperation(s)
    PROVE  TypeInv' /\ CopiesInv(cluster)'
<1>1. PICK x : x = Head(d_sibling_queue[s])
  BY Zenon
<1> DEFINE o == x.op
<1>2. /\ s \in Nodes /\ d_sibling_queue[s] # <<>>
      /\ d_sibling_queue' = [d_sibling_queue EXCEPT ![s] = Tail(@)]
      /\ applied' = [applied EXCEPT ![s][o] = @ + 1]
      /\ UNCHANGED <<ops, net, lost>>
  BY <1>1, Zenon DEF applyOperation, Nodes
<1>3. /\ QueueInv' /\ x \in Item
      /\ \A n \in Nodes : \A j \in DOMAIN d_sibling_queue'[n] :
           Legit(cluster, n, d_sibling_queue'[n][j].op, d_sibling_queue'[n][j].forwarded)
      /\ \A i \in 1 .. MaxOps : \A n \in Nodes :
           AtMostOne(Queued(n, i))' /\ (Queued(n, i) = {} => Queued(n, i)' = {})
      /\ Legit(cluster, s, o, x.forwarded)
      /\ Present(s, o) /\ Sent(s, o) = {} /\ Queued(s, o)' = {}
  BY <1>1, <1>2, Dequeue, Zenon DEF TypeInv
<1>4. o \in 1 .. MaxOps
  BY <1>3, ItemFields, Zenon
<1>5. applied[s][o] = 0
  BY <1>2, <1>3, <1>4, Zenon DEF CopiesInv, OnceInv, Once
<1> HIDE DEF o
<1>6. /\ applied' \in [Servers -> [1 .. MaxOps -> Nat]] /\ applied'[s][o] = 1
      /\ \A n \in Servers : \A i \in 1 .. MaxOps : n # s \/ i # o => applied'[n][i] = applied[n][i]
  <2> DEFINE h == [applied[s] EXCEPT ![o] = applied[s][o] + 1]
  <2>1. applied \in [Servers -> [1 .. MaxOps -> Nat]] /\ applied[s] \in [1 .. MaxOps -> Nat]
    BY Zenon DEF TypeInv, AppliedInv
  <2>2. applied' = [applied EXCEPT ![s] = h]
    BY <1>2, Zenon
  <2>3. h \in [1 .. MaxOps -> Nat] /\ h[o] = 1 /\ \A i \in 1 .. MaxOps : i # o => h[i] = applied[s][i]
    BY <1>4, <1>5, <2>1
  <2> HIDE DEF h
  <2>4. applied' \in [Servers -> [1 .. MaxOps -> Nat]] /\ applied'[s] = h
        /\ \A n \in Servers : n # s => applied'[n] = applied[n]
    BY <2>1, <2>2, <2>3, Zenon
  <2> QED BY <2>3, <2>4, Zenon
<1>7. TypeInv'
  BY <1>2, <1>3, <1>6, Zenon DEF TypeInv, OpsInv, NetInv, AppliedInv
<1>8. \A n, i : Sent(n, i)' = Sent(n, i)
  BY <1>2, Zenon DEF Sent
<1>9. LegitInv(cluster)'
  <2>1. \A n \in Servers, i \in 1 .. MaxOps : applied'[n][i] # 0 => i \in DOMAIN ops
    <3> SUFFICES ASSUME NEW n \in Servers, NEW i \in 1 .. MaxOps, applied'[n][i] # 0 PROVE i \in DOMAIN ops
      BY Zenon
    <3>1. CASE n = s /\ i = o
      BY <3>1, <1>3, Zenon DEF Legit
    <3>2. CASE n # s \/ i # o
      BY <3>2, <1>6, Zenon DEF CopiesInv, LegitInv
    <3> QED BY <3>1, <3>2, Zenon
  <2> QED BY <1>2, <1>3, <2>1, ZenonT(40) DEF CopiesInv, LegitInv, Legit, Home
<1>10. \A i \in 1 .. MaxOps : \A n \in Nodes :
        Once(n, i)' /\ (Present(n, i)' => Present(n, i)) /\ (Untouched(n, i) => Untouched(n, i)')
  <2> SUFFICES ASSUME NEW i \in 1 .. MaxOps, NEW n \in Nodes
               PROVE  Once(n, i)' /\ (Present(n, i)' => Present(n, i)) /\ (Untouched(n, i) => Untouched(n, i)')
    BY Zenon
  <2>1. Once(n, i)
    BY Zenon DEF CopiesInv, OnceInv
  <2>2. AtMostOne(Queued(n, i))' /\ AtMostOne(Sent(n, i))' /\ (Queued(n, i)' = {} \/ Sent(n, i)' = {})
    <3>1. AtMostOne(Sent(n, i)) /\ (Queued(n, i) = {} \/ Sent(n, i) = {})
      BY <2>1, Zenon DEF Once
    <3> QED BY <3>1, <1>3, <1>8, Zenon DEF AtMostOne
  <2>3. Present(n, i)' => Present(n, i)
    BY <1>3, <1>8, Zenon DEF Present
  <2>4. CASE n = s /\ i = o
    <3>1. ~Present(n, i)' /\ ~Untouched(n, i)
      BY <2>4, <1>3, <1>8, Zenon DEF Present, Untouched
    <3>2. applied'[n][i] = 1 /\ applied'[n][i] <= 1
      BY <2>4, <1>6
    <3> QED BY <2>2, <3>1, <3>2, Zenon DEF Once
  <2>5. CASE n # s \/ i # o
    <3>1. n \in Servers => applied'[n][i] = applied[n][i]
      BY <2>5, <1>6, Zenon
    <3>2. n \in Servers => applied'[n][i] <= 1 /\ (applied'[n][i] # 0 => ~Present(n, i)')
      BY <2>1, <2>3, <3>1, Zenon DEF Once
    <3> QED BY <2>2, <2>3, <3>1, <3>2, Zenon DEF Once, Untouched
  <2> QED BY <2>4, <2>5, Zenon
<1>11. OnceInv'
  BY <1>10, Zenon DEF OnceInv
<1>12. StageInv(cluster)'
  <2>1. \A i : Home(cluster, i)' = Home(cluster, i)
    BY <1>2, Zenon DEF Home
  <2> QED BY <1>10, <2>1, StageKeeps, Zenon DEF CopiesInv, StageInv
<1> QED BY <1>7, <1>9, <1>11, <1>12, Zenon DEF CopiesInv

-----------------------------------------------------------------------------
(***************************************************************************)
(* The forwarder: its new packets go to nodes behind it.                   *)
(***************************************************************************)

LEMMA SiblingTargets ==
    ASSUME NEW cluster, Clustered(cluster), NEW n \in Nodes, NEW m \in Targets(n, "siblings")
    PROVE  cluster[m] = cluster[n]
BY Zenon DEF Clustered

LEMMA OneForwarder ==
    ASSUME NEW cluster, Clustered(cluster), NEW f \in Forwarders, NEW g \in Forwarders, cluster[f] = cluster[g]
    PROVE  f = g
BY Zenon DEF Clustered

\* The packets a forwarder sends on for an item x of its queue.
Onward(f, x) == IF x.forwarded THEN replicateOperation(f, x.op, FALSE) ELSE Forward(f, x.op)

LEMMA OnwardTargets ==
    ASSUME NEW cluster, Clustered(cluster), ListsInv, NEW f \in Forwarders, NEW x \in Item,
           Legit(cluster, f, x.op, x.forwarded)
    PROVE  /\ Onward(f, x) \subseteq Packet
           /\ \A p \in Onward(f, x) : /\ p.op = x.op /\ p.to # f /\ Behind(cluster, f, p.to, x.op)
                                      /\ Legit(cluster, p.to, x.op, p.forwarded)
                                      /\ cluster[f] = Home(cluster, x.op) <=> p.to \in Forwarders
           /\ \A p, q \in Onward(f, x) : p.to = q.to => p = q
<1>1. f \in Nodes /\ x.op \in 1 .. MaxOps /\ x.op \in DOMAIN ops
  BY ItemFields, Zenon DEF Nodes, Legit
<1>2. CASE x.forwarded
  <2>1. Packets(Onward(f, x), f, x.op, FALSE, Targets(f, "siblings") \ {f})
    BY <1>1, <1>2, SiblingPackets, Zenon DEF Onward
  <2>2. cluster[f] # Home(cluster, x.op)
    BY <1>2, Zenon DEF Legit
  <2>3. \A p \in Onward(f, x) : p.op = x.op /\ p.to # f /\ ~p.forwarded /\ cluster[p.to] = cluster[f]
    BY <1>1, <2>1, SiblingTargets, Zenon DEF Packets
  <2>4. \A p \in Onward(f, x) : p.to \notin Forwarders
    BY <2>3, OneForwarder, Zenon
  <2>5. \A p \in Onward(f, x) : Behind(cluster, f, p.to, x.op) /\ Legit(cluster, p.to, x.op, p.forwarded)
    BY <1>1, <2>2, <2>3, <2>4, Zenon DEF Behind, Legit
  <2> QED BY <2>1, <2>2, <2>3, <2>4, <2>5, Zenon DEF Packets
<1>3. CASE ~x.forwarded
  <2>1. Packets(Onward(f, x), f, x.op, TRUE, Targets(f, "dests"))
    BY <1>1, <1>3, DestPackets, Zenon DEF Onward
  <2>2. cluster[f] = Home(cluster, x.op)
    BY <1>3, Zenon DEF Legit
  <2>3. \A p \in Onward(f, x) : p.op = x.op /\ p.to # f /\ p.forwarded /\ p.to \in Forwarders
    BY <2>1, Zenon DEF Packets, Clustered
  <2>4. \A p \in Onward(f, x) : cluster[p.to] # Home(cluster, x.op)
    <3> SUFFICES ASSUME NEW p \in Onward(f, x), cluster[p.to] = cluster[f] PROVE FALSE
      BY <2>2, Zenon
    <3>1. p.to \in Forwarders /\ p.to # f
      BY <2>3, Zenon
    <3> QED BY <3>1, OneForwarder, Zenon
  <2>5. \A p \in Onward(f, x) : Behind(cluster, f, p.to, x.op) /\ Legit(cluster, p.to, x.op, p.forwarded)
    BY <1>1, <2>2, <2>3, <2>4, Zenon DEF Behind, Legit
  <2> QED BY <2>1, <2>2, <2>3, <2>5, Zenon DEF Packets
<1> QED BY <1>2, <1>3, Zenon

LEMMA ForwardOperationCopies ==
    ASSUME NEW cluster, Clustered(cluster), ListsInv, TypeInv, CopiesInv(cluster),
           NEW f \in Forwarders, ForwardOperation(f)
    PROVE  TypeInv' /\ CopiesInv(cluster)'
<1>1. PICK x : x = Head(d_sibling_queue[f])
  BY Zenon
<1> DEFINE o == x.op
<1>2. PICK S : S = Onward(f, x)
  BY Zenon
<1>3. /\ f \in Nodes /\ d_sibling_queue[f] # <<>>
      /\ d_sibling_queue' = [d_sibling_queue EXCEPT ![f] = Tail(@)]
      /\ net' = net \union S
      /\ UNCHANGED <<ops, applied, lost>>
  BY <1>1, <1>2, Zenon DEF ForwardOperation, Nodes, Onward
<1>4. /\ QueueInv' /\ x \in Item
      /\ \A n \in Nodes : \A j \in DOMAIN d_sibling_queue'[n] :
           Legit(cluster, n, d_sibling_queue'[n][j].op, d_sibling_queue'[n][j].forwarded)
      /\ \A i \in 1 .. MaxOps : \A n \in Nodes :
           AtMostOne(Queued(n, i))' /\ (Queued(n, i) = {} => Queued(n, i)' = {})
      /\ Legit(cluster, f, o, x.forwarded)
      /\ Present(f, o) /\ Sent(f, o) = {} /\ Queued(f, o)' = {}
  BY <1>1, <1>3, Dequeue, Zenon DEF TypeInv
<1>5. o \in 1 .. MaxOps
  BY <1>4, ItemFields, Zenon
<1>6. /\ S \subseteq Packet
      /\ \A p \in S : /\ p.op = o /\ p.to # f /\ Behind(cluster, f, p.to, o)
                      /\ Legit(cluster, p.to, o, p.forwarded)
                      /\ cluster[f] = Home(cluster, o) <=> p.to \in Forwarders
      /\ \A p, q \in S : p.to = q.to => p = q
  <2>1. /\ Onward(f, x) \subseteq Packet
        /\ \A p \in Onward(f, x) : /\ p.op = o /\ p.to # f /\ Behind(cluster, f, p.to, o)
                                   /\ Legit(cluster, p.to, o, p.forwarded)
                                   /\ cluster[f] = Home(cluster, o) <=> p.to \in Forwarders
        /\ \A p, q \in Onward(f, x) : p.to = q.to => p = q
    BY <1>4, OnwardTargets, Zenon
  <2> HIDE DEF o
  <2> QED BY <1>2, <2>1, Zenon
<1> HIDE DEF o
<1>7. TypeInv'
  BY <1>3, <1>4, <1>6, Zenon DEF TypeInv, OpsInv, NetInv, AppliedInv
<1>8. \A n \in Nodes : Behind(cluster, f, n, o) => Untouched(n, o)
  BY <1>4, <1>5, Zenon DEF CopiesInv, StageInv, Stage
<1>9. \A p \in S : p.to \in Nodes /\ Untouched(p.to, o)
  BY <1>6, <1>8, PacketFields, Zenon
<1>10. \A n, i : \A p : p \in Sent(n, i)' <=> p \in Sent(n, i) \/ (p \in S /\ p.to = n /\ p.op = i)
  BY <1>3, Zenon DEF Sent
<1>11. LegitInv(cluster)'
  <2>1. \A p \in net' : Legit(cluster, p.to, p.op, p.forwarded)
    BY <1>3, <1>6, Zenon DEF CopiesInv, LegitInv
  <2> QED BY <1>3, <1>4, <2>1, Zenon DEF CopiesInv, LegitInv, Legit, Home
<1>12. \A i \in 1 .. MaxOps : \A n \in Nodes : (\A p \in S : p.to # n \/ i # o) =>
        Once(n, i)' /\ (Present(n, i)' => Present(n, i)) /\ (Untouched(n, i) => Untouched(n, i)')
  <2> SUFFICES ASSUME NEW i \in 1 .. MaxOps, NEW n \in Nodes, \A p \in S : p.to # n \/ i # o
               PROVE  Once(n, i)' /\ (Present(n, i)' => Present(n, i)) /\ (Untouched(n, i) => Untouched(n, i)')
    BY Zenon
  <2>1. Once(n, i)
    BY Zenon DEF CopiesInv, OnceInv
  <2>2. \A p : p \in Sent(n, i)' <=> p \in Sent(n, i)
    <3>1. \A p : ~(p \in S /\ p.to = n /\ p.op = i)
      BY <1>6, Zenon
    <3> QED BY <1>10, <3>1, ZenonT(40)
  <2>3. Sent(n, i)' = {} <=> Sent(n, i) = {}
    BY <2>2, Zenon
  <2>4. AtMostOne(Queued(n, i))' /\ AtMostOne(Sent(n, i))' /\ (Queued(n, i)' = {} \/ Sent(n, i)' = {})
    <3>1. AtMostOne(Sent(n, i)) /\ (Queued(n, i) = {} \/ Sent(n, i) = {})
      BY <2>1, Zenon DEF Once
    <3>2. AtMostOne(Sent(n, i))'
      BY <3>1, <2>2, Zenon DEF AtMostOne
    <3> QED BY <3>1, <3>2, <1>4, <2>3, Zenon
  <2>5. Present(n, i)' => Present(n, i)
    BY <1>4, <2>3, Zenon DEF Present
  <2>6. n \in Servers => applied'[n][i] <= 1 /\ (applied'[n][i] # 0 => ~Present(n, i)')
    BY <1>3, <2>1, <2>5, Zenon DEF Once
  <2> QED BY <1>3, <2>4, <2>5, <2>6, Zenon DEF Once, Untouched
<1>13. \A p \in S : Once(p.to, o)'
  <2> SUFFICES ASSUME NEW p \in S PROVE Once(p.to, o)'
    BY Zenon
  <2>1. PICK n : n = p.to
    BY Zenon
  <2>2. n \in Nodes /\ Untouched(n, o) /\ \A q \in S : q.to = n => q = p
    BY <1>6, <1>9, <2>1, Zenon
  <2>3. Queued(n, o) = {} /\ Sent(n, o) = {} /\ (n \in Servers => applied[n][o] = 0)
    BY <2>2, Zenon DEF Untouched, Present
  <2>4. Queued(n, o)' = {} /\ AtMostOne(Queued(n, o))'
    BY <1>4, <1>5, <2>2, <2>3, Zenon
  <2>5. \A q \in Sent(n, o)' : q = p
    <3> SUFFICES ASSUME NEW q, q \in Sent(n, o)' PROVE q = p
      BY Zenon
    <3>1. q \in S /\ q.to = n
      <4>1. q \notin Sent(n, o)
        BY <2>3, Zenon
      <4> QED BY <1>10, <4>1, Zenon
    <3> QED BY <2>2, <3>1, Zenon
  <2>6. AtMostOne(Sent(n, o))'
    BY <2>5, Zenon DEF AtMostOne
  <2>7. n \in Servers => applied'[n][o] = 0 /\ applied'[n][o] <= 1
    BY <1>3, <2>3
  <2> QED BY <2>1, <2>4, <2>6, <2>7, Zenon DEF Once
<1>14. OnceInv'
  <2> SUFFICES ASSUME NEW i \in 1 .. MaxOps, NEW n \in Nodes PROVE Once(n, i)'
    BY Zenon DEF OnceInv
  <2>1. CASE \A p \in S : p.to # n \/ i # o
    BY <2>1, <1>12, Zenon
  <2>2. CASE \E p \in S : p.to = n /\ i = o
    BY <2>2, <1>13, Zenon
  <2> QED BY <2>1, <2>2, Zenon
<1>15. \A i : Home(cluster, i)' = Home(cluster, i)
  BY <1>3, Zenon DEF Home
<1>16. Stage(cluster, o)'
  <2> SUFFICES ASSUME NEW g \in Forwarders, Present(g, o)', NEW n \in Nodes, Behind(cluster, g, n, o)'
               PROVE  Untouched(n, o)'
    BY Zenon DEF Stage
  <2>1. g \in Nodes /\ g # f /\ Behind(cluster, g, n, o)
    <3>1. ~Present(f, o)'
      <4>1. \A p : p \notin Sent(f, o)'
        BY <1>4, <1>6, <1>10, Zenon
      <4> QED BY <4>1, <1>4, Zenon DEF Present
    <3>2. Behind(cluster, g, n, o)
      BY <1>15, Zenon DEF Behind
    <3> QED BY <3>1, <3>2, Zenon DEF Nodes
  <2>2. CASE \E p \in S : p.to = g
    <3>1. cluster[f] = Home(cluster, o) /\ cluster[g] # Home(cluster, o)
      BY <1>6, <2>2, Zenon DEF Behind
    <3>2. n # g /\ cluster[n] = cluster[g]
      BY <2>1, <3>1, Zenon DEF Behind
    <3>3. Untouched(n, o)
      BY <1>8, <3>1, <3>2, Zenon DEF Behind
    <3>4. \A p \in S : p.to # n
      BY <1>6, <3>1, <3>2, OneForwarder, ZenonT(40)
    <3> QED BY <1>5, <1>12, <3>3, <3>4, Zenon
  <2>3. CASE \A p \in S : p.to # g
    <3>1. Present(g, o)
      BY <1>5, <1>12, <2>1, <2>3, Zenon
    <3>2. Untouched(n, o) /\ ~Behind(cluster, g, f, o) /\ ~Behind(cluster, f, g, o)
      <4>1. \A k \in Nodes : Behind(cluster, g, k, o) => Untouched(k, o)
        BY <1>5, <3>1, Zenon DEF CopiesInv, StageInv, Stage
      <4> QED BY <1>3, <1>4, <1>8, <2>1, <3>1, <4>1, Zenon DEF Untouched
    <3>3. cluster[g] # cluster[f]
      BY <2>1, OneForwarder, Zenon
    <3>4. cluster[f] # Home(cluster, o) /\ cluster[g] # Home(cluster, o) /\ cluster[n] = cluster[g]
      BY <2>1, <3>2, <3>3, Zenon DEF Behind
    <3>5. \A p \in S : p.to # n
      BY <1>6, <3>3, <3>4, Zenon DEF Behind
    <3> QED BY <1>5, <1>12, <3>2, <3>5, Zenon
  <2> QED BY <2>2, <2>3, Zenon
<1>17. StageInv(cluster)'
  <2> SUFFICES ASSUME NEW i \in 1 .. MaxOps PROVE Stage(cluster, i)'
    BY Zenon DEF StageInv
  <2>1. CASE i = o
    BY <2>1, <1>16, Zenon
  <2>2. CASE i # o
    <3>1. Stage(cluster, i)
      BY Zenon DEF CopiesInv, StageInv
    <3>2. \A n \in Nodes : (Present(n, i)' => Present(n, i)) /\ (Untouched(n, i) => Untouched(n, i)')
      BY <1>12, <2>2, Zenon
    <3> QED BY <3>1, <3>2, <1>15, StageKeeps, Zenon
  <2> QED BY <2>1, <2>2, Zenon
<1> QED BY <1>7, <1>11, <1>14, <1>17, Zenon DEF CopiesInv

-----------------------------------------------------------------------------
(***************************************************************************)
(* A new operation, of which there is no copy anywhere.                    *)
(***************************************************************************)

LEMMA Fresh ==
    ASSUME NEW cluster, TypeInv, CopiesInv(cluster), NEW i \in 1 .. MaxOps, i \notin DOMAIN ops, NEW n \in Nodes
    PROVE  Queued(n, i) = {} /\ Sent(n, i) = {} /\ (n \in Servers => applied[n][i] = 0) /\ Untouched(n, i)
<1>1. \A p \in net : p.op # i
  BY Zenon DEF CopiesInv, LegitInv, Legit
<1>2. \A j \in DOMAIN d_sibling_queue[n] : d_sibling_queue[n][j].op # i
  BY Zenon DEF CopiesInv, LegitInv, Legit
<1>3. n \in Servers => applied[n][i] = 0
  BY Zenon DEF CopiesInv, LegitInv
<1>4. Queued(n, i) = {} /\ Sent(n, i) = {}
  BY <1>1, <1>2, Zenon DEF Queued, Positions, Sent
<1> QED BY <1>3, <1>4, Zenon DEF Untouched, Present

LEMMA OriginateCopies ==
    ASSUME NEW cluster, Clustered(cluster), ListsInv, TypeInv, CopiesInv(cluster),
           NEW s \in Servers, NEW type \in OpTypes, Originate(s, type)
    PROVE  TypeInv' /\ CopiesInv(cluster)'
<1>1. PICK o : o = Len(ops) + 1
  BY Zenon
<1>2. PICK S : S = replicateOperation(s, o, FALSE)
  BY Zenon
<1>3. PICK e : e = [origin |-> s, type |-> type]
  BY Zenon
<1>4. /\ ops' = Append(ops, e) /\ applied' = [applied EXCEPT ![s][o] = @ + 1]
      /\ net' = net \union S /\ UNCHANGED <<d_sibling_queue, lost>> /\ Len(ops) < plan.ops
  BY <1>1, <1>2, <1>3, Zenon DEF Originate
<1>5. /\ e \in Operation /\ e.origin = s /\ ops \in Seq(Operation) /\ Len(ops) <= MaxOps
      /\ plan.ops \in 0 .. MaxOps /\ s \in Nodes /\ MaxOps \in Nat
  BY <1>3, ReplicationAssumption, Zenon DEF Operation, TypeInv, OpsInv, ListsInv, Nodes
<1>6. /\ o \in 1 .. MaxOps /\ o \notin DOMAIN ops /\ ops' \in Seq(Operation) /\ Len(ops') <= MaxOps
      /\ ops'[o] = e /\ o \in DOMAIN ops' /\ DOMAIN ops \subseteq DOMAIN ops'
      /\ \A i \in DOMAIN ops : i # o /\ ops'[i] = ops[i]
      /\ \A i \in DOMAIN ops' : i = o \/ i \in DOMAIN ops
  <2>1. Len(ops) \in Nat /\ DOMAIN ops = 1 .. Len(ops) /\ Len(ops) < MaxOps
    BY <1>4, <1>5
  <2>2. /\ ops' \in Seq(Operation) /\ Len(ops') = Len(ops) + 1 /\ DOMAIN ops' = 1 .. Len(ops) + 1
        /\ ops'[Len(ops) + 1] = e /\ \A i \in 1 .. Len(ops) : ops'[i] = ops[i]
    BY <1>4, <1>5
  <2> QED BY <1>1, <1>5, <2>1, <2>2
<1>7. /\ S \subseteq Packet
      /\ \A p \in S : p.op = o /\ ~p.forwarded /\ p.to # s /\ p.to \in Nodes /\ cluster[p.to] = cluster[s]
      /\ \A p, q \in S : p.to = q.to => p = q
  <2>1. Packets(S, s, o, FALSE, Targets(s, "siblings") \ {s})
    BY <1>2, <1>5, <1>6, SiblingPackets, Zenon
  <2>2. S \subseteq Packet /\ \A p, q \in S : p.to = q.to => p = q
    BY <2>1, Zenon DEF Packets
  <2>3. \A p \in S : p.op = o /\ ~p.forwarded /\ p.to # s /\ p.to \in Targets(s, "siblings")
    BY <2>1, Zenon DEF Packets
  <2>4. \A p \in S : p.to \in Nodes /\ cluster[p.to] = cluster[s]
    BY <1>5, <2>2, <2>3, SiblingTargets, PacketFields, Zenon
  <2> QED BY <2>2, <2>3, <2>4, Zenon
<1>8. \A n \in Nodes : Queued(n, o) = {} /\ Sent(n, o) = {} /\ (n \in Servers => applied[n][o] = 0)
  BY <1>6, Fresh, Zenon
<1>9. /\ applied' \in [Servers -> [1 .. MaxOps -> Nat]] /\ applied'[s][o] = 1
      /\ \A n \in Servers : \A i \in 1 .. MaxOps : n # s \/ i # o => applied'[n][i] = applied[n][i]
  <2> DEFINE h == [applied[s] EXCEPT ![o] = applied[s][o] + 1]
  <2>1. applied \in [Servers -> [1 .. MaxOps -> Nat]] /\ applied[s] \in [1 .. MaxOps -> Nat] /\ applied[s][o] = 0
    BY <1>5, <1>8, Zenon DEF TypeInv, AppliedInv
  <2>2. applied' = [applied EXCEPT ![s] = h]
    BY <1>4, Zenon
  <2>3. h \in [1 .. MaxOps -> Nat] /\ h[o] = 1 /\ \A i \in 1 .. MaxOps : i # o => h[i] = applied[s][i]
    BY <1>6, <2>1
  <2> HIDE DEF h
  <2>4. applied' \in [Servers -> [1 .. MaxOps -> Nat]] /\ applied'[s] = h
        /\ \A n \in Servers : n # s => applied'[n] = applied[n]
    BY <2>1, <2>2, <2>3, Zenon
  <2> QED BY <2>3, <2>4, Zenon
<1>10. TypeInv'
  BY <1>4, <1>6, <1>7, <1>9, Zenon DEF TypeInv, OpsInv, NetInv, QueueInv, AppliedInv
<1>11. /\ \A i \in DOMAIN ops : Home(cluster, i)' = Home(cluster, i)
       /\ Home(cluster, o)' = cluster[s]
  BY <1>5, <1>6, Zenon DEF Home
<1>12. LegitInv(cluster)'
  <2>1. \A n, i, b : Legit(cluster, n, i, b) => Legit(cluster, n, i, b)'
    BY <1>6, <1>11, Zenon DEF Legit
  <2>2. \A p \in S : Legit(cluster, p.to, o, p.forwarded)'
    BY <1>5, <1>6, <1>7, <1>11, Zenon DEF Legit
  <2>3. \A p \in net' : Legit(cluster, p.to, p.op, p.forwarded)'
    BY <1>4, <1>7, <2>1, <2>2, Zenon DEF CopiesInv, LegitInv
  <2>4. \A n \in Nodes : \A j \in DOMAIN d_sibling_queue[n] :
          \A x : x = d_sibling_queue[n][j] => Legit(cluster, n, x.op, x.forwarded)'
    BY <2>1, Zenon DEF CopiesInv, LegitInv
  <2>5. \A n \in Nodes : \A j \in DOMAIN d_sibling_queue'[n] :
          Legit(cluster, n, d_sibling_queue[n][j].op, d_sibling_queue[n][j].forwarded)'
    BY <1>4, <2>4, Zenon DEF Legit, Home
  <2>6. \A n \in Servers, i \in 1 .. MaxOps : applied'[n][i] # 0 => i \in DOMAIN ops'
    <3> SUFFICES ASSUME NEW n \in Servers, NEW i \in 1 .. MaxOps, applied'[n][i] # 0 PROVE i \in DOMAIN ops'
      BY Zenon
    <3>1. CASE i = o
      BY <3>1, <1>6, Zenon
    <3>2. CASE i # o
      BY <3>2, <1>6, <1>9, Zenon DEF CopiesInv, LegitInv
    <3> QED BY <3>1, <3>2, Zenon
  <2> QED BY <2>3, <2>5, <2>6, Zenon DEF LegitInv
<1>13. \A n, i : Queued(n, i)' = Queued(n, i)
  BY <1>4, Zenon DEF Queued
<1>14. \A n, i : \A p : p \in Sent(n, i)' <=> p \in Sent(n, i) \/ (p \in S /\ p.to = n /\ p.op = i)
  BY <1>4, Zenon DEF Sent
<1>15. \A i \in 1 .. MaxOps : \A n \in Nodes : i # o =>
        Once(n, i)' /\ (Present(n, i)' => Present(n, i)) /\ (Untouched(n, i) => Untouched(n, i)')
  <2> SUFFICES ASSUME NEW i \in 1 .. MaxOps, NEW n \in Nodes, i # o
               PROVE  Once(n, i)' /\ (Present(n, i)' => Present(n, i)) /\ (Untouched(n, i) => Untouched(n, i)')
    BY Zenon
  <2>1. Once(n, i)
    BY Zenon DEF CopiesInv, OnceInv
  <2>2. Sent(n, i)' \subseteq Sent(n, i)
    <3> SUFFICES ASSUME NEW p, p \in Sent(n, i)', p \notin Sent(n, i) PROVE FALSE
      BY Zenon
    <3>1. p \in S /\ p.op = i
      BY <1>14, Zenon
    <3> QED BY <1>7, <3>1, Zenon
  <2>3. n \in Servers => applied'[n][i] = applied[n][i]
    BY <1>9, Zenon
  <2> QED BY <2>1, <2>2, <2>3, <1>13, OnceKeeps, Zenon
<1>16. \A n \in Nodes : /\ Queued(n, o)' = {} /\ \A p \in Sent(n, o)' : p \in S /\ p.to = n
  <2> SUFFICES ASSUME NEW n \in Nodes PROVE Queued(n, o)' = {} /\ \A p \in Sent(n, o)' : p \in S /\ p.to = n
    BY Zenon
  <2>1. Queued(n, o)' = {}
    BY <1>8, <1>13, Zenon
  <2>2. \A p : p \notin Sent(n, o)
    BY <1>8, Zenon
  <2> QED BY <2>1, <2>2, <1>14, Zenon
<1>17. \A n \in Nodes : Once(n, o)'
  <2> SUFFICES ASSUME NEW n \in Nodes PROVE Once(n, o)'
    BY Zenon
  <2>1. AtMostOne(Queued(n, o))' /\ AtMostOne(Sent(n, o))'
    <3>1. Queued(n, o)' = {} /\ \A p \in Sent(n, o)' : p \in S /\ p.to = n
      BY <1>16, Zenon
    <3>2. \A p, q \in Sent(n, o)' : p = q
      BY <1>7, <3>1, Zenon
    <3> QED BY <3>1, <3>2, Zenon DEF AtMostOne
  <2>2. CASE n = s
    <3>1. Sent(n, o)' = {}
      BY <2>2, <1>7, <1>16, Zenon
    <3>2. applied'[n][o] <= 1
      BY <2>2, <1>9
    <3>3. ~Present(n, o)'
      BY <3>1, <1>16, Zenon DEF Present
    <3> QED BY <2>1, <3>1, <3>2, <3>3, <1>16, Zenon DEF Once
  <2>3. CASE n # s
    <3>1. n \in Servers => applied'[n][o] = 0 /\ applied'[n][o] <= 1
      <4>1. n \in Servers => applied'[n][o] = 0
        BY <2>3, <1>6, <1>8, <1>9, Zenon
      <4> QED BY <4>1
    <3> QED BY <2>1, <3>1, <1>16, Zenon DEF Once
  <2> QED BY <2>2, <2>3, Zenon
<1>18. OnceInv'
  BY <1>15, <1>17, Zenon DEF OnceInv
<1>19. Stage(cluster, o)'
  <2> SUFFICES ASSUME NEW f \in Forwarders, Present(f, o)', NEW n \in Nodes, Behind(cluster, f, n, o)'
               PROVE  Untouched(n, o)'
    BY Zenon DEF Stage
  <2>1. \E p \in S : p.to = f
    <3>1. f \in Nodes
      BY Zenon DEF Nodes
    <3>2. Queued(f, o)' = {} /\ \A p \in Sent(f, o)' : p \in S /\ p.to = f
      BY <3>1, <1>16, Zenon
    <3> QED BY <3>2, Zenon DEF Present
  <2>2. cluster[n] # cluster[s]
    BY <1>7, <1>11, <2>1, Zenon DEF Behind
  <2>3. n # s /\ \A p \in S : p.to # n
    BY <1>7, <2>2, Zenon
  <2>4. Sent(n, o)' = {} /\ Queued(n, o)' = {}
    BY <1>16, <2>3, Zenon
  <2>5. n \in Servers => applied'[n][o] = 0
    BY <1>6, <1>8, <1>9, <2>3, Zenon
  <2> QED BY <2>4, <2>5, Zenon DEF Untouched, Present
<1>20. StageInv(cluster)'
  <2> SUFFICES ASSUME NEW i \in 1 .. MaxOps PROVE Stage(cluster, i)'
    BY Zenon DEF StageInv
  <2>1. CASE i = o
    BY <2>1, <1>19, Zenon
  <2>2. CASE i # o /\ i \in DOMAIN ops
    <3>1. Stage(cluster, i) /\ Home(cluster, i)' = Home(cluster, i)
      BY <1>11, <2>2, Zenon DEF CopiesInv, StageInv
    <3> QED BY <3>1, <1>15, <2>2, StageKeeps, Zenon
  <2>3. CASE i # o /\ i \notin DOMAIN ops
    <3>1. \A n \in Nodes : ~Present(n, i)'
      BY <1>15, <2>3, Fresh, Zenon DEF Untouched
    <3>2. Forwarders \subseteq Nodes
      BY Zenon DEF Nodes
    <3> QED BY <3>1, <3>2, Zenon DEF Stage
  <2> QED BY <2>1, <2>2, <2>3, Zenon
<1> QED BY <1>10, <1>12, <1>18, <1>20, Zenon DEF CopiesInv

-----------------------------------------------------------------------------
(***************************************************************************)
(* The theorem.                                                            *)
(***************************************************************************)

LEMMA InitIInv ==
    ASSUME NEW cluster, Clustered(cluster), Init
    PROVE  IInv(cluster)
<1>1. /\ plan \in Plans /\ peers = InitialPeers /\ known = [n \in Nodes |-> Accepted(InitialPeers[n])]
      /\ admin = [t \in Admins |-> Idle] /\ ops = <<>> /\ net = {}
      /\ d_sibling_queue = [n \in Nodes |-> <<>>]
      /\ applied = [s \in Servers |-> [i \in 1 .. MaxOps |-> 0]] /\ lost = {} /\ changes = 0
  BY Zenon DEF Init
<1>2. InitialPeers \in [Nodes -> [Lists -> Seq(Peer)]] /\ {max_sibling_queue_size, MaxOps, MaxChanges} \subseteq Nat
  BY ReplicationAssumption, Zenon
<1>3. ListsInv
  <2>1. \A n \in Nodes : Accepted(peers[n]) \subseteq Nodes
    BY <1>1, <1>2, AcceptedNodes, Zenon
  <2>2. known \in [Nodes -> SUBSET Nodes] /\ \A n \in Nodes : Accepted(peers[n]) \subseteq known[n]
    BY <1>1, <2>1, Zenon
  <2>3. admin \in [Admins -> plan.requests \union {Idle}] /\ \A t \in Admins : admin[t] = Idle
    BY <1>1, Zenon
  <2>4. \A n \in Nodes, l \in Lists : Distinct(peers[n][l]) /\ Rems(peers[n][l]) \subseteq Targets(n, l)
    <3>1. \A n \in Nodes, l \in Lists : Distinct(peers[n][l])
      BY <1>1, Zenon DEF Distinct, Clustered
    <3>2. \A n \in Nodes, l \in Lists : Rems(peers[n][l]) \subseteq Targets(n, l)
      BY <1>1, Zenon DEF Targets
    <3> QED BY <3>1, <3>2, Zenon
  <2>5. changes \in 0 .. MaxChanges
    BY <1>1, <1>2
  <2> QED BY <1>1, <1>2, <2>2, <2>3, <2>4, <2>5, Zenon DEF ListsInv
<1>4. \A n \in Nodes : d_sibling_queue[n] = <<>> /\ DOMAIN d_sibling_queue[n] = {}
  BY <1>1
<1>5. \A s \in Servers, i \in 1 .. MaxOps : applied[s][i] = 0 /\ applied[s][i] <= 1
  BY <1>1
<1>6. TypeInv
  <2>1. OpsInv /\ AppliedInv
    BY <1>1, <1>2 DEF OpsInv, AppliedInv
  <2>2. QueueInv
    BY <1>1, <1>2, <1>4 DEF QueueInv
  <2> QED BY <1>1, <2>1, <2>2, Zenon DEF TypeInv, NetInv
<1>7. \A n \in Nodes : \A i \in 1 .. MaxOps : Queued(n, i) = {} /\ Sent(n, i) = {}
  BY <1>1, <1>4, Zenon DEF Queued, Positions, Sent
<1>8. LegitInv(cluster)
  BY <1>1, <1>4, <1>5, Zenon DEF LegitInv
<1>9. OnceInv
  BY <1>5, <1>7, Zenon DEF OnceInv, Once, AtMostOne
<1>10. StageInv(cluster)
  <2>1. \A f \in Forwarders : \A i \in 1 .. MaxOps : ~Present(f, i)
    BY <1>7, Zenon DEF Present, Nodes
  <2> QED BY <2>1, Zenon DEF StageInv, Stage
<1> QED BY <1>3, <1>6, <1>8, <1>9, <1>10, Zenon DEF IInv, CopiesInv

LEMMA SameLists ==
    ASSUME ListsInv, UNCHANGED <<plan, peers, known, admin, changes>>
    PROVE  ListsInv'
BY Zenon DEF ListsInv

LEMMA NextIInv ==
    ASSUME NEW cluster, Clustered(cluster), IInv(cluster), [Next]_vars
    PROVE  IInv(cluster)'
<1>1. ListsInv /\ TypeInv /\ CopiesInv(cluster)
  BY Zenon DEF IInv
<1>2. ASSUME NEW s \in Servers, NEW type \in OpTypes, Originate(s, type) PROVE IInv(cluster)'
  <2>1. ListsInv'
    BY <1>1, <1>2, SameLists, Zenon DEF Originate
  <2> QED BY <1>1, <1>2, <2>1, OriginateCopies, Zenon DEF IInv
<1>3. ASSUME NEW n \in Nodes, Worker(n) PROVE IInv(cluster)'
  <2>1. CASE n \in Servers
    <3>1. applyOperation(n)
      BY <1>3, <2>1, Zenon DEF Worker
    <3>2. ListsInv'
      BY <1>1, <3>1, SameLists, Zenon DEF applyOperation
    <3> QED BY <1>1, <2>1, <3>1, <3>2, applyOperationCopies, Zenon DEF IInv
  <2>2. CASE n \notin Servers
    <3>1. ForwardOperation(n) /\ n \in Forwarders
      BY <1>3, <2>2, Zenon DEF Worker, Nodes
    <3>2. ListsInv'
      BY <1>1, <3>1, SameLists, Zenon DEF ForwardOperation
    <3> QED BY <1>1, <3>1, <3>2, ForwardOperationCopies, Zenon DEF IInv
  <2> QED BY <2>1, <2>2, Zenon
<1>4. ASSUME NEW p \in net, Receive(p) PROVE IInv(cluster)'
  <2>1. ListsInv'
    BY <1>1, <1>4, SameLists, Zenon DEF Receive
  <2> QED BY <1>1, <1>4, <2>1, ReceiveCopies, Zenon DEF IInv
<1>5. ASSUME NEW p \in net, Lose(p) PROVE IInv(cluster)'
  <2>1. ListsInv'
    BY <1>1, <1>5, SameLists, Zenon DEF Lose
  <2> QED BY <1>1, <1>5, <2>1, LoseCopies, Zenon DEF IInv
<1>6. ASSUME ListsInv', UNCHANGED <<ops, net, d_sibling_queue, applied, lost>> PROVE IInv(cluster)'
  BY <1>1, <1>6, SameMessages, Zenon DEF IInv
<1>7. ASSUME NEW t \in Admins, addSiblingPush(t) PROVE IInv(cluster)'
  BY <1>1, <1>6, <1>7, addSiblingPushLists, Zenon DEF addSiblingPush, Put
<1>8. ASSUME NEW t \in Admins, NEW q \in plan.requests, addSiblingCheck(t, q) PROVE IInv(cluster)'
  BY <1>1, <1>6, <1>8, addSiblingCheckLists, Zenon DEF addSiblingCheck, Kept
<1>9. ASSUME NEW t \in Admins, NEW q \in plan.requests, parseRemoveSibling(t, q) PROVE IInv(cluster)'
  BY <1>1, <1>6, <1>9, parseRemoveSiblingLists, Zenon DEF parseRemoveSibling, Put, Kept
<1>10. ASSUME NEW t \in Admins, NEW q \in plan.requests, parseSetSiblings(t, q) PROVE IInv(cluster)'
  BY <1>1, <1>6, <1>10, parseSetSiblingsLists, Zenon DEF parseSetSiblings, Put, Kept
<1>11. CASE UNCHANGED vars
  <2>1. ListsInv'
    BY <1>1, <1>11, SameLists, Zenon DEF vars
  <2> QED BY <1>6, <1>11, <2>1, Zenon DEF vars
<1>12. CASE Next
  BY <1>2, <1>3, <1>4, <1>5, <1>7, <1>8, <1>9, <1>10, <1>12, Zenon DEF Next, Receiver
<1> QED BY <1>11, <1>12, Zenon

LEMMA IInvAppliedOnce ==
    ASSUME NEW cluster, IInv(cluster)
    PROVE  AppliedOnce
<1>1. TypeOK
  BY Zenon DEF IInv, ListsInv, TypeInv, OpsInv, NetInv, QueueInv, AppliedInv, Operation, Item, TypeOK
<1>2. \A s \in Servers, i \in 1 .. MaxOps : applied[s][i] <= 1
  BY Zenon DEF IInv, CopiesInv, OnceInv, Once, Nodes
<1> QED BY <1>1, <1>2, Zenon DEF AppliedOnce

\* However many servers, clusters and operations there are: in an installation of
\* clusters joined by one forwarder each, no server applies an operation twice, or
\* its own again, although packets overtake each other, get lost and peers change.
THEOREM ReplicationAppliedOnce ==
    ASSUME NEW cluster, Clustered(cluster)
    PROVE  Spec => []AppliedOnce
<1>1. Init => IInv(cluster)
  BY InitIInv, Zenon
<1>2. IInv(cluster) /\ [Next]_vars => IInv(cluster)'
  BY NextIInv, Zenon
<1>3. IInv(cluster) => AppliedOnce
  BY IInvAppliedOnce, Zenon
<1> QED BY <1>1, <1>2, <1>3, PTL DEF Spec

=============================================================================

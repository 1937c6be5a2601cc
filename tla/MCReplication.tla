--------------------------- MODULE MCReplication ---------------------------
(***************************************************************************)
(* Replication for TLC: a cluster of servers a and b with forwarder f, one *)
(* of server c with forwarder g, each with its own key. Server a drops b   *)
(* from its siblings and takes it back, g does so with its source f, and f *)
(* gets its list of destinations anew.                                     *)
(***************************************************************************)
EXTENDS Replication

CONSTANTS a, b, c, f, g, t1, t2, k1, k2

MCServers == {a, b, c}
MCForwarders == {f, g}

MCKey == [n \in MCServers \union MCForwarders |-> IF n \in {c, g} THEN k2 ELSE k1]

Plain(rem) == [rem |-> rem, key |-> NoKey, sdb_send |-> TRUE, wlbl_send |-> TRUE]

\* forwarders know each other's key
Dest(rem, wlbl) == [rem |-> rem, key |-> d_key[rem], sdb_send |-> TRUE, wlbl_send |-> wlbl]

\* every server of the first cluster has the same list, itself included
MCSiblings(n) ==
    CASE n \in {a, b} -> <<Plain(a), Plain(b), Plain(f)>>
      [] n = f -> <<Plain(a), Plain(b)>>
      [] n = c -> <<Plain(g)>>
      [] n = g -> <<Plain(c)>>

MCPeers ==
    [n \in MCServers \union MCForwarders |->
       [l \in Lists |->
          CASE l = "siblings" -> MCSiblings(n)
            [] l = "dests" -> (CASE n = f -> <<Dest(g, FALSE)>> [] n = g -> <<Dest(f, TRUE)>> [] OTHER -> <<>>)
            [] l = "srcs" -> (CASE n = f -> <<Plain(g)>> [] n = g -> <<Plain(f)>> [] OTHER -> <<>>)]]

Ask(cmd, node, list, seq, ok) == [cmd |-> cmd, node |-> node, list |-> list, peers |-> seq, ok |-> ok]

MCPlans ==
    {[ops |-> 2, requests |->
        {Ask("add", a, "siblings", <<Plain(b)>>, <<TRUE>>), Ask("remove", a, "siblings", <<Plain(b)>>, <<TRUE>>),
         Ask("set", a, "siblings", <<Plain(b), Plain(f), Plain(b)>>, <<TRUE, TRUE, TRUE>>)}],
     [ops |-> 1, requests |->
        {Ask("add", g, "srcs", <<Plain(f)>>, <<TRUE>>), Ask("remove", g, "srcs", <<Plain(f)>>, <<TRUE>>),
         Ask("set", g, "dests", <<Plain(f), Plain(f)>>, <<TRUE, FALSE>>)}],
     [ops |-> 1, requests |->
        {Ask("set", f, "dests", <<Dest(g, FALSE), Dest(g, TRUE)>>, <<TRUE, TRUE>>),
         Ask("add", f, "dests", <<Dest(g, TRUE)>>, <<TRUE>>)}]}

MCCluster == [n \in MCServers \union MCForwarders |-> IF n \in {c, g} THEN g ELSE f]

ASSUME MCClustered == Clustered(MCCluster)

\* the documented parameters, without the optional key
MCKeyless == {[ops |-> 1, requests |-> {Ask("set", f, "dests", <<Plain(g)>>, <<TRUE>>)}]}
=============================================================================

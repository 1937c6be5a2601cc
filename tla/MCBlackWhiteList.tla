-------------------------- MODULE MCBlackWhiteList --------------------------
(***************************************************************************)
(* BlackWhiteList for TLC: one or two servers, a few keys of chosen types. *)
(***************************************************************************)
EXTENDS BlackWhiteList, TLC

CONSTANTS A, B, ra, rb, host, net24, login, ja3, addr

\* every server has a Redis of its own
MCOwnRedis == [n \in Nodes |-> IF n = A THEN ra ELSE rb]

MCType == [k \in Keys |-> CASE k \in {host, net24} -> "ip"
                            [] k = login -> "login"
                            [] k = ja3 -> "ja3"]

\* two servers and a Redis that fails, and one server with entries of many kinds
MCConfigs ==
    {[nodes |-> {A, B}, keys |-> {host}, addresses |-> {}, persist_replicated |-> TRUE, faults |-> TRUE, ops |-> 2],
     [nodes |-> {A}, keys |-> Keys, addresses |-> Addresses, persist_replicated |-> FALSE, faults |-> FALSE, ops |-> 3]}

MCOneServer ==
    {[nodes |-> {A}, keys |-> {host, ja3}, addresses |-> {}, persist_replicated |-> FALSE, faults |-> FALSE, ops |-> 2]}

\* the masks that cover an address, the longest first
MCNested == [a \in Addresses |-> <<host, net24>>]
=============================================================================

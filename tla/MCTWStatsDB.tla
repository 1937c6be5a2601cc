---------------------------- MODULE MCTWStatsDB ----------------------------
(***************************************************************************)
(* TWStatsDB for TLC: three keys, two of which fall into the same shard.   *)
(***************************************************************************)
EXTENDS TWStatsDB, TLC

CONSTANTS k1, k2, k3, f1, v0, v1, d1

MCKeys == {k1, k2, k3}
MCShardOf == [k \in MCKeys |-> IF k = k3 THEN 2 ELSE 1]
=============================================================================

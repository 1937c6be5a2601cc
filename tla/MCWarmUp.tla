------------------------------ MODULE MCWarmUp ------------------------------
(***************************************************************************)
(* WarmUp for TLC: two sync hosts.                                         *)
(***************************************************************************)
EXTENDS WarmUp

CONSTANTS h1, h2, k1, w1, w2

MCDumpOrder == <<k1>>
MCSyncHosts == <<h1, h2>>
=============================================================================

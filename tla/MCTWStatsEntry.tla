--------------------------- MODULE MCTWStatsEntry ---------------------------
(***************************************************************************)
(* TWStatsEntry for TLC: two nodes whose DBs were built one second apart.  *)
(***************************************************************************)
EXTENDS TWStatsEntry

CONSTANTS A, B

MCNodes == {A, B}
MCCreated == [n \in MCNodes |-> IF n = A THEN 2 ELSE 3]
MCSkew == [n \in MCNodes |-> IF n = A THEN 0 ELSE MaxSkew]
=============================================================================

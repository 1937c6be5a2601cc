----------------------------- MODULE MCSibling -----------------------------
(***************************************************************************)
(* Sibling for TLC: a queue that can fill up, two threads that queue, and  *)
(* connections that break.                                                 *)
(***************************************************************************)
EXTENDS Sibling

CONSTANTS p1, p2
=============================================================================

----------------------------- MODULE MCCommands -----------------------------
(***************************************************************************)
(* Commands for TLC: two workers with a context each, the console, and     *)
(* list entries that come and go.                                          *)
(***************************************************************************)
EXTENDS Commands, TLC

CONSTANTS w1, w2, lua1, lua2

MCContexts == <<lua1, lua2>>

With(cmd, fieldSets) == {[cmd |-> cmd, fields |-> f] : f \in fieldSets}

MCInputs ==
    With("allow", {{"ip", "login"}, {"ip", "login", "ja3"}})
        \union With("report", {{"ip", "login"}}) \union With("custom", {{}})
        \union With("reset", {{}, {"login"}}) \union With("addBLEntry", {{}, {"ja3"}})
        \union With("delWLEntry", {{"login"}})
        \union With("getDBStats", {{"login"}, {"login", "ja3"}}) \union With("getBL", {{}}) \union With("stats", {{}})

MCChangeable == {<<"wl", "login">>, <<"bl", "login">>}

\* The workers are alike; the contexts are not, as the console goes through them in order.
MCSymmetry == Permutations(Workers)
=============================================================================

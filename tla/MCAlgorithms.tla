---------------------------- MODULE MCAlgorithms ----------------------------
(***************************************************************************)
(* Two algorithms for TLC; a behaviour is about one of them:               *)
(*   - the netmask tree, with addresses of two and three bits, all the     *)
(*     masks of the short family in canonical form, and one with host      *)
(*     bits;                                                               *)
(*   - cron lines, all there are in a calendar of years with a month of    *)
(*     three days and one of two, weeks of three days, days of two hours   *)
(*     and hours of two minutes, from every minute of two years.              *)
(***************************************************************************)
EXTENDS NetmaskTree, Cron

MCWidth == [v4 |-> 2, v6 |-> 3]

MCMasks ==
    {[fam |-> "v4", addr |-> a, bits |-> b] : a \in {<<0, 0>>, <<1, 0>>}, b \in {1, 2}}
    \union {[fam |-> "v4", addr |-> <<0, 0>>, bits |-> 0],
            [fam |-> "v4", addr |-> <<0, 1>>, bits |-> 1],
            [fam |-> "v6", addr |-> <<0, 0, 1>>, bits |-> 3],
            [fam |-> "v6", addr |-> <<0, 0, 0>>, bits |-> 1]}

MCMonthDays == <<3, 2>>

Field(lower, upper) == {Star} \union {Number(n) : n \in lower .. upper}

\* All good lines, one with four fields, and some with a number out of bounds.
MCCronLines ==
    Field(0, 1) \X Field(0, 1) \X Field(1, 3) \X Field(1, 2) \X Field(0, 2)
        \union {<<Star, Star, Star, Star>>, <<Number(2), Star, Star, Star, Star>>, <<Star, Star, Number(0), Star, Star>>,
                <<Star, Star, Star, Number(3), Star>>}

MCStartTimes == 0 .. 39

VARIABLE subject

MCInit ==
    /\ subject \in {"netmasks", "cron"}
    /\ Init /\ CronInit
    /\ subject # "cron" => cronLine = <<Star, Star, Star, Star, Star>> /\ now_ = 0

MCNext ==
    /\ UNCHANGED subject
    /\ \/ subject = "netmasks" /\ Next /\ UNCHANGED cronVars
       \/ subject = "cron" /\ CronNext /\ UNCHANGED vars

MCSpec == MCInit /\ [][MCNext]_<<subject, vars, cronVars>>
=============================================================================

----------------------------- MODULE LossyLink -----------------------------
(***************************************************************************)
(* What replication promises between a server and one of its siblings:     *)
(* a message handed over is delivered or lost, in any order; nothing else  *)
(* is ever delivered, and nothing twice unless the transport duplicates.   *)
(***************************************************************************)
CONSTANT Messages

VARIABLES
    handed,    \* messages that were handed over
    underway,  \* those that may still be delivered
    delivered,
    duplicates \* may the transport duplicate?

vars == <<handed, underway, delivered, duplicates>>

Init == handed = {} /\ underway = {} /\ delivered = {} /\ duplicates \in BOOLEAN

Hand(m) ==
    /\ m \notin handed
    /\ handed' = handed \union {m}
    /\ underway' \in {underway, underway \union {m}}
    /\ UNCHANGED <<delivered, duplicates>>

Deliver(m) ==
    /\ m \in underway
    /\ underway' = underway \ {m} \/ (duplicates /\ underway' = underway)
    /\ delivered' = delivered \union {m}
    /\ UNCHANGED <<handed, duplicates>>

Lose ==
    /\ underway' \in SUBSET underway
    /\ UNCHANGED <<handed, delivered, duplicates>>

Next == (\E m \in Messages : Hand(m) \/ Deliver(m)) \/ Lose

Spec == Init /\ [][Next]_vars
=============================================================================

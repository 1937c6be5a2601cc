---------------------------- MODULE NetmaskTree ----------------------------
(***************************************************************************)
(* NetmaskTree and NetmaskGroup (common/iputils.hh): the binary tree that  *)
(* finds the most specific mask covering an address.  IPv4 and IPv6 masks  *)
(* share the tree, with a value of their own at each node.                 *)
(*                                                                         *)
(* A tree node is the sequence of turns that leads to it: 0 for left and   *)
(* 1 for right.  An address is the sequence of its bits.                   *)
(***************************************************************************)
EXTENDS Integers, Sequences, FiniteSets

CONSTANTS
    Width,  \* bits of an address, for each family
    Masks   \* the masks in use: family, network address and number of bits

Families == DOMAIN Width

Address(fam) == [1 .. Width[fam] -> {0, 1}]

ASSUME NetmaskAssumption ==
    \A nm \in Masks : nm.fam \in Families /\ nm.addr \in Address(nm.fam) /\ nm.bits \in 0 .. Width[nm.fam]

VARIABLES
    nodes,  \* the tree nodes; empty before the first insertion
    value,  \* value[fam]: what node4 or node6 of the tree nodes holds
    stored  \* history: the masks added and not deleted, with their values

vars == <<nodes, value, stored>>

None == [first |-> [fam |-> "none", addr |-> <<>>, bits |-> 0], second |-> FALSE]

Prefix(addr, n) == SubSeq(addr, 1, n)

\* The place of a mask in the tree.
Place(nm) == Prefix(nm.addr, nm.bits)

Path(p) == {Prefix(p, i) : i \in 0 .. Len(p)}

Pair == [first : Masks, second : BOOLEAN]

\* Among the rest: erasing leaves no branch without a value behind, so that the
\* tree of a list that comes and goes for ever does not grow.
TypeOK ==
    /\ \A p \in nodes : p \in Seq({0, 1}) /\ Path(p) \subseteq nodes
    /\ DOMAIN value = Families
    /\ \A fam \in Families : DOMAIN value[fam] \subseteq nodes
                             /\ \A p \in DOMAIN value[fam] : value[fam][p] \in Pair
    /\ stored \subseteq Pair
    /\ \A p \in nodes \ {<<>>} : \E fam \in Families : \E q \in DOMAIN value[fam] : p \in Path(q)

Init ==
    /\ nodes = {}
    /\ value = [fam \in Families |-> <<>>]
    /\ stored = {}

-----------------------------------------------------------------------------
\* The same network and number of bits, whatever the host bits.
SameMask(a, b) == a.fam = b.fam /\ Place(a) = Place(b)

\* insert, as addMask calls it: creates the nodes on the way, and the value or
\* overwrites it.
addMask(nm, positive) ==
    /\ nodes' = nodes \union Path(Place(nm))
    /\ value' = [value EXCEPT ![nm.fam] =
                   [p \in DOMAIN @ \union {Place(nm)} |->
                      IF p = Place(nm) THEN [first |-> nm, second |-> positive] ELSE @[p]]]
    /\ stored' = {e \in stored : ~SameMask(e.first, nm)} \union {[first |-> nm, second |-> positive]}

\* The condition of cleanup_tree: no children, and no value of either family.
EmptyNode(tree, vals, fam, p) ==
    /\ \A f \in Families : p \notin DOMAIN vals[f]
    /\ \A c \in {0, 1} : Append(p, c) \notin tree

\* cleanup_tree: from p up to the root, which stays.
cleanup_tree(tree, vals, fam, p) ==
    LET cleaned[i \in 0 .. Len(p)] ==
          LET t == IF i = Len(p) THEN tree ELSE cleaned[i + 1]
          IN  IF i > 0 /\ EmptyNode(t, vals, fam, Prefix(p, i)) THEN t \ {Prefix(p, i)} ELSE t
    IN  cleaned[0]

\* erase with d_cleanup_tree, as deleteMask of a NetmaskGroup calls it.
deleteMask(nm) ==
    /\ IF Place(nm) \in nodes
       THEN /\ value' = [value EXCEPT ![nm.fam] = [p \in DOMAIN @ \ {Place(nm)} |-> @[p]]]
            /\ nodes' = cleanup_tree(nodes, value', nm.fam, Place(nm))
       ELSE UNCHANGED <<nodes, value>>
    /\ stored' = {e \in stored : ~SameMask(e.first, nm)}

clear ==
    /\ nodes' = {}
    /\ value' = [fam \in Families |-> <<>>]
    /\ stored' = {}

\* mutant: the node the loop ends at is not looked at
lookupInLoopOnly(fam, addr) ==
    LET from[i \in 0 .. Width[fam]] ==
          LET here == IF i < Width[fam] /\ Prefix(addr, i) \in DOMAIN value[fam]
                      THEN value[fam][Prefix(addr, i)] ELSE None
          IN  IF i < Width[fam] /\ Prefix(addr, i + 1) \in nodes /\ from[i + 1] # None
              THEN from[i + 1] ELSE here
    IN  from[0]

\* lookup with the default max_bits: the last value on the way down.
lookup(fam, addr) ==
    LET from[i \in 0 .. Width[fam]] ==
          LET here == IF Prefix(addr, i) \in DOMAIN value[fam] THEN value[fam][Prefix(addr, i)] ELSE None
          IN  IF i < Width[fam] /\ Prefix(addr, i + 1) \in nodes /\ from[i + 1] # None
              THEN from[i + 1] ELSE here
    IN  from[0]

Next ==
    \/ \E nm \in Masks :
        \/ \E positive \in BOOLEAN : addMask(nm, positive)
        \/ deleteMask(nm)
    \/ clear

Spec == Init /\ [][Next]_vars

-----------------------------------------------------------------------------
\* Netmask::match: the network's bits agree.
Covering(fam, addr) ==
    {e \in stored : e.first.fam = fam /\ Place(e.first) = Prefix(addr, e.first.bits)}

\* "Returns best match": the stored mask with most bits of all that cover the
\* address, whatever was inserted and erased before in either family.
FindsLongestMask ==
    TypeOK /\ \A fam \in Families : \A addr \in Address(fam) :
        LET es == Covering(fam, addr)
        IN  lookup(fam, addr) =
              IF es = {} THEN None
              ELSE CHOOSE e \in es : \A d \in es : d.first.bits <= e.first.bits
=============================================================================

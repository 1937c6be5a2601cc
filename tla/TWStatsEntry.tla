---------------------------- MODULE TWStatsEntry ----------------------------
(***************************************************************************)
(* The time windows of one key and field of a stats DB: class TWStatsEntry *)
(* of common/twmap.hh, held by every node of a cluster.                    *)
(*                                                                         *)
(* An entry is a ring of num_windows slots of window_size seconds each,    *)
(* counted from start_time. A slot is a pair: the time its window began    *)
(* when it was first written (0: never) and a stats member. A member (int, *)
(* HyperLogLog or CountMin sketch) is abstracted to the set of real times  *)
(* at which the data it still holds was put in it: add and sub put the     *)
(* present time in, erase empties it, sum and merge are unions.            *)
(*                                                                         *)
(* Nodes exchange entries while one of them warms up: dump puts the slots  *)
(* on the wire, restore overwrites them at the receiver. Clocks may differ *)
(* between nodes by up to MaxSkew seconds. Every method reads the clock    *)
(* once per helper it calls, so up to MaxDelay seconds may pass between    *)
(* one read and the next.                                                  *)
(***************************************************************************)
EXTENDS Integers, Sequences

CONSTANTS
    Nodes,         \* the wforce instances
    num_windows,
    window_size,   \* seconds
    Created,       \* real time at which each node built its DB
    Skew,          \* what each node's clock is ahead of real time
    MaxSkew,
    FieldType,     \* "int", "hll" or "countmin"
    MaxDelay,      \* bound: seconds between two clock reads of one method
    MaxTime,       \* bound: the clock stops here
    MaxWrites      \* bound: number of add and sub calls

ASSUME WindowsAssumption ==
    /\ num_windows \in Nat \ {0}
    /\ window_size \in Nat \ {0}

ASSUME ClockAssumption ==
    /\ MaxSkew \in Nat /\ MaxSkew < window_size
    /\ Skew \in [Nodes -> 0 .. MaxSkew]
    /\ Created \in [Nodes -> Nat]
    /\ \A n \in Nodes : Created[n] >= window_size
    /\ MaxDelay \in Nat /\ MaxTime \in Nat /\ MaxWrites \in Nat

ASSUME FieldTypeAssumption == FieldType \in {"int", "hll", "countmin"}

VARIABLES
    now,           \* real time
    created,       \* the nodes whose DB has this entry
    stats_array,   \* per node, the ring of slots
    start_time,    \* per node, the time the windows are counted from
    last_cleaned,  \* per node
    wire,          \* the dumped entries on their way to a node
    result,        \* what the read that was just made returned
    writes         \* history: number of add and sub calls so far

vars == <<now, created, stats_array, start_time, last_cleaned, wire, result, writes>>

Windows == 0 .. num_windows - 1

Slot == [first : Nat, member : SUBSET Nat]

EmptySlot == [first |-> 0, member |-> {}]

NoResult == [at |-> 0, current |-> {}, windows |-> <<>>]

\* C++ division and remainder truncate towards zero.
CDiv(a, b) == IF a >= 0 THEN a \div b ELSE -((-a) \div b)
CMod(a, b) == IF a >= 0 THEN a % b ELSE -((-a) % b)

\* What std::time returns at node n when the real time is t.
Clock(n, t) == t + Skew[n]

-----------------------------------------------------------------------------
(***************************************************************************)
(* The helpers every method begins with.                                   *)
(***************************************************************************)

ExpireDiff == window_size * num_windows

NeedsCleaning(n, c) == c - last_cleaned[n] >= window_size

Expired(slot, c) == slot.first # 0 /\ c - slot.first >= ExpireDiff

CleanSlot(slot, c) == IF Expired(slot, c) THEN EmptySlot ELSE slot

\* clean_windows at clock value c: the new ring and the new last_cleaned.
CleanedArray(n, c) ==
    IF NeedsCleaning(n, c)
    THEN [i \in Windows |-> CleanSlot(stats_array[n][i], c)]
    ELSE stats_array[n]

LastCleaned(n, c) == IF NeedsCleaning(n, c) THEN c ELSE last_cleaned[n]

current_window(n, c) == CMod(CDiv(c - start_time[n], window_size), num_windows)

\* The first second of the window that clock value c belongs to.
WindowStart(n, c) == c - CMod(c - start_time[n], window_size)

\* update_write_timestamp: only the first write of a window sets its time.
Stamped(n, slot, c) ==
    IF slot.first = 0 THEN [slot EXCEPT !.first = WindowStart(n, c)] ELSE slot

\* The values the next read of the clock may give within the same method.
NextRead(t) == {u \in t .. t + MaxDelay : u <= MaxTime}

-----------------------------------------------------------------------------
TypeOK ==
    /\ now \in Nat
    /\ created \in SUBSET Nodes
    /\ stats_array \in [Nodes -> [Windows -> Slot]]
    /\ start_time \in [Nodes -> Nat]
    /\ last_cleaned \in [Nodes -> Nat]
    /\ wire \in SUBSET [start : Nat, array : [Windows -> Slot]]
    /\ result \in [at : Nat, current : SUBSET Nat, windows : Seq(SUBSET Nat)]
    /\ writes \in Nat

Init ==
    /\ now \in {t \in 0 .. MaxTime : \A n \in Nodes : t >= Created[n]}
    /\ created = {}
    /\ stats_array = [n \in Nodes |-> [i \in Windows |-> EmptySlot]]
    /\ start_time = [n \in Nodes |-> Clock(n, Created[n])]
    /\ last_cleaned = [n \in Nodes |-> 0]
    /\ wire = {}
    /\ result = NoResult
    /\ writes = 0

\* Time passes.
Tick ==
    /\ now < MaxTime
    /\ now' = now + 1
    /\ result' = NoResult
    /\ UNCHANGED <<created, stats_array, start_time, last_cleaned, wire, writes>>

\* Every method that uses the ring starts with clean_windows at the first
\* clock read and leaves the ring given by array.
Use(n, t, array) ==
    /\ stats_array' = [stats_array EXCEPT ![n] = array]
    /\ last_cleaned' = [last_cleaned EXCEPT ![n] = LastCleaned(n, Clock(n, now))]
    /\ now' = t
    /\ UNCHANGED <<start_time, wire>>

\* add and sub, which create the entry if need be: clean, find the current
\* window, change its member, stamp the window. A member ignores the arguments
\* its type has no use for (sub on a sketch, a value with an amount on an int).
Add(n) ==
    \E t2 \in NextRead(now) : \E t3 \in NextRead(t2) : \E data \in {{}, {t2}} :
        LET array == CleanedArray(n, Clock(n, now))
            cur == current_window(n, Clock(n, t2))
            written == [array[cur] EXCEPT !.member = @ \union data]
        IN /\ writes < MaxWrites
           /\ writes' = writes + 1
           /\ created' = created \union {n}
           /\ Use(n, t3, [array EXCEPT ![cur] = Stamped(n, written, Clock(n, t3))])
           /\ result' = NoResult

\* add or sub of a string that is not a number to an int field: std::stoi
\* throws after the cleaning and before anything is written.
AddThrows(n) ==
    \E t2 \in NextRead(now) :
        /\ FieldType = "int"
        /\ created' = created \union {n}
        /\ Use(n, t2, CleanedArray(n, Clock(n, now)))
        /\ result' = NoResult
        /\ UNCHANGED writes

\* mutant: get_windows walks the ring upwards
InRingOrder(array, cur) ==
    [k \in 1 .. num_windows |-> array[(cur + k) % num_windows].member]

\* The members in the order get_windows visits them.
InWindowOrder(array, cur) ==
    [k \in 1 .. num_windows |-> array[(cur + num_windows - k + 1) % num_windows].member]

\* get, get_current, sum and get_windows without a value.
Get(n) ==
    \E t2 \in NextRead(now) :
        LET array == CleanedArray(n, Clock(n, now))
            cur == current_window(n, Clock(n, t2))
        IN /\ n \in created
           /\ Use(n, t2, array)
           /\ result' = [at |-> t2, current |-> array[cur].member,
                         windows |-> InWindowOrder(array, cur)]
           /\ UNCHANGED <<created, writes>>

\* get_current(s) and get_windows(s): asking a HyperLogLog member about a value
\* adds the value to it. windows are the slots asked; no timestamp is updated.
GetValue(n, all) ==
    \E t2 \in NextRead(now) :
        LET array == CleanedArray(n, Clock(n, now))
            cur == current_window(n, Clock(n, t2))
            asked == IF all THEN Windows ELSE {cur}
            after == [i \in Windows |->
                        IF FieldType = "hll" /\ i \in asked
                        THEN [array[i] EXCEPT !.member = @ \union {t2}]
                        ELSE array[i]]
        IN /\ n \in created
           /\ Use(n, t2, after)
           /\ result' = [at |-> t2, current |-> after[cur].member,
                         windows |-> IF all THEN InWindowOrder(after, cur) ELSE <<>>]
           /\ UNCHANGED <<created, writes>>

\* reset empties every slot and leaves last_cleaned alone.
Reset(n) ==
    /\ n \in created
    /\ stats_array' = [stats_array EXCEPT ![n] = [i \in Windows |-> EmptySlot]]
    /\ result' = NoResult
    /\ UNCHANGED <<now, created, start_time, last_cleaned, wire, writes>>

\* dump copies the slots as they are: nothing is cleaned first.
Dump(n) ==
    /\ n \in created
    /\ wire = {}
    /\ wire' = {[start |-> start_time[n], array |-> stats_array[n]]}
    /\ result' = NoResult
    /\ UNCHANGED <<now, created, stats_array, start_time, last_cleaned, writes>>

\* mutant: restored slots count as cleaned
RestoreKeepsCleaned(n) ==
    \E d \in wire :
        /\ created' = created \union {n}
        /\ stats_array' = [stats_array EXCEPT ![n] = d.array]
        /\ start_time' = [start_time EXCEPT ![n] = d.start]
        /\ wire' = wire \ {d}
        /\ result' = NoResult
        /\ UNCHANGED <<now, last_cleaned, writes>>

\* mutant: restored slots are counted from the receiver's own start time
RestoreKeepsStart(n) ==
    \E d \in wire :
        /\ created' = created \union {n}
        /\ stats_array' = [stats_array EXCEPT ![n] = d.array]
        /\ last_cleaned' = [last_cleaned EXCEPT ![n] = 0]
        /\ wire' = wire \ {d}
        /\ result' = NoResult
        /\ UNCHANGED <<now, start_time, writes>>

\* mutant: -1 for never cleaned
RestoreMinusOne(n) ==
    \E d \in wire :
        /\ created' = created \union {n}
        /\ stats_array' = [stats_array EXCEPT ![n] = d.array]
        /\ start_time' = [start_time EXCEPT ![n] = d.start]
        /\ last_cleaned' = [last_cleaned EXCEPT ![n] = -1]
        /\ wire' = wire \ {d}
        /\ result' = NoResult
        /\ UNCHANGED <<now, writes>>

\* restore overwrites the slots and the time they are counted from.
Restore(n) ==
    \E d \in wire :
        /\ created' = created \union {n}
        /\ stats_array' = [stats_array EXCEPT ![n] = d.array]
        /\ start_time' = [start_time EXCEPT ![n] = d.start]
        /\ last_cleaned' = [last_cleaned EXCEPT ![n] = 0]
        /\ wire' = wire \ {d}
        /\ result' = NoResult
        /\ UNCHANGED <<now, writes>>

Next ==
    \/ Tick
    \/ \E n \in Nodes :
        \/ Add(n)
        \/ AddThrows(n)
        \/ Get(n)
        \/ \E all \in BOOLEAN : GetValue(n, all)
        \/ Reset(n)
        \/ Dump(n)
        \/ Restore(n)

Spec == Init /\ [][Next]_vars

-----------------------------------------------------------------------------
Returned == result.current \union UNION {result.windows[k] : k \in DOMAIN result.windows}

\* What a read may still return: the windows of the ring, one more because
\* clean_windows runs at most once per window, and the clock differences.
MaxAge == ExpireDiff + window_size + 2 * MaxDelay + MaxSkew

\* No read returns data MaxAge seconds old or older, although clean_windows skips
\* most calls, entries come from nodes with other clocks, and restored slots
\* were never cleaned by their sender (fields other than hll).
ReadsAreRecent ==
    FieldType # "hll" => \A d \in Returned : result.at - d < MaxAge

\* get_windows lists the windows from the newest to the oldest: nothing in a
\* window is older than anything in a later position, as long as clocks agree
\* and no second begins between the clock reads of one call. Only the current
\* window may hold data from one turn of the ring before, because clean_windows
\* skips calls; such data is older than all the other windows.
WindowsNewestFirst ==
    FieldType # "hll" /\ MaxDelay = 0 /\ MaxSkew = 0 =>
      \A j, k \in DOMAIN result.windows :
        j < k => \A d \in result.windows[j], e \in result.windows[k] :
          d > e \/ (j = 1 /\ result.at - d > ExpireDiff - window_size)

\* A slot that was written is stamped with the beginning of a window of this
\* entry, and it is that window's slot, or, when the clock moved on between the
\* two reads of add, the slot of the window before.
SlotsHoldTheirWindow ==
    \A n \in Nodes : \A i \in Windows :
        LET f == stats_array[n][i].first - start_time[n]
        IN  stats_array[n][i].first # 0 =>
              /\ CMod(f, window_size) = 0
              /\ \E k \in 0 .. MaxDelay : CMod(CDiv(f, window_size), num_windows) = (i + k) % num_windows
=============================================================================

-------------------------- MODULE LuaObjectsProofs --------------------------
(***************************************************************************)
(* Proofs about two objects that Lua functions use: the ring of windows in *)
(* which a stats database keeps a field of a key, and the DNS resolver.    *)
(***************************************************************************)
EXTENDS TWStatsEntry, Resolver, TLAPS

-----------------------------------------------------------------------------
(***************************************************************************)
(* For every number and size of windows, every set of nodes, every clock   *)
(* difference below a window and every delay between two clock reads: the  *)
(* ring keeps its type, no read of an int or countmin field returns data   *)
(* of MaxAge seconds or older, and a slot is stamped with the window it    *)
(* holds. When clocks agree, get_windows lists the windows in order.       *)
(***************************************************************************)

-----------------------------------------------------------------------------
(***************************************************************************)
(* The inductive invariant.                                                *)
(***************************************************************************)

\* A slot at node clocks up to time t: nothing is in a slot without a
\* timestamp, and what is in a slot is not much older than its timestamp.
SlotInv(slot, t) ==
    /\ slot.first <= t + MaxSkew
    /\ FieldType # "hll" =>
        /\ slot.first = 0 => slot.member = {}
        /\ \A d \in slot.member : d >= slot.first - MaxSkew - MaxDelay

ArrayInv(array, t) == \A i \in Windows : SlotInv(array[i], t)

\* No slot was expired when its ring was last cleaned.
CleanInv(array, cleaned) ==
    \A i \in Windows : array[i].first # 0 => cleaned - array[i].first < ExpireDiff

IInv ==
    /\ TypeOK
    /\ \A n \in Nodes :
        /\ now >= window_size
        /\ start_time[n] <= now + MaxSkew
        /\ ArrayInv(stats_array[n], now)
        /\ CleanInv(stats_array[n], last_cleaned[n])
        /\ last_cleaned[n] <= Clock(n, now)
    /\ \A d \in wire : d.start <= now + MaxSkew /\ ArrayInv(d.array, now)
    /\ ReadsAreRecent

-----------------------------------------------------------------------------
(***************************************************************************)
(* Arithmetic.                                                             *)
(***************************************************************************)

\* The ring spans at least one window.
LEMMA ExpireDiffType == ExpireDiff \in Nat /\ ExpireDiff >= window_size
  BY WindowsAssumption DEF ExpireDiff

\* Remainders are bounded by the divisor and by the dividend.
LEMMA ModBounds ==
    ASSUME NEW a \in Nat, NEW b \in Nat \ {0}
    PROVE  a % b \in 0 .. b - 1 /\ a % b <= a /\ a \div b \in Nat
  <1>1. a % b \in 0 .. b - 1 /\ a \div b \in Nat /\ a = (b * (a \div b)) + (a % b)
    OBVIOUS
  <1>2. b * (a \div b) \in Nat
    BY <1>1
  <1> QED
    BY <1>1, <1>2

\* The ring index that current_window computes is a slot of the ring, as long
\* as the clock is less than a window behind start_time.
LEMMA CurrentWindowInRange ==
    ASSUME NEW n \in Nodes, start_time[n] \in Nat, NEW c \in Nat,
           start_time[n] - c < window_size
    PROVE  current_window(n, c) \in Windows
  <1> DEFINE diff == c - start_time[n]
  <1>1. CDiv(diff, window_size) \in Nat
    <2>1. CASE diff >= 0
      <3>1. diff \in Nat
        BY <2>1
      <3>2. diff \div window_size \in Nat
        BY <3>1, ModBounds, WindowsAssumption, Zenon
      <3> QED
        BY <2>1, <3>2, Zenon DEF CDiv
    <2>2. CASE diff < 0
      <3>1. -diff \in 0 .. window_size - 1
        BY <2>2, WindowsAssumption
      <3>2. (-diff) \div window_size = 0
        BY <3>1, WindowsAssumption
      <3> QED
        BY <2>2, <3>2 DEF CDiv
    <2> QED
      BY <2>1, <2>2
  <1>2. CMod(CDiv(diff, window_size), num_windows) \in Windows
    <2> DEFINE q == CDiv(diff, window_size)
    <2>1. q \in Nat
      BY <1>1, Zenon
    <2> HIDE DEF q
    <2>2. q % num_windows \in 0 .. num_windows - 1
      BY <2>1, ModBounds, WindowsAssumption, Zenon
    <2>3. CMod(q, num_windows) = q % num_windows
      BY <2>1 DEF CMod
    <2> QED
      BY <2>2, <2>3, Zenon DEF q, Windows
  <1> QED
    BY <1>2, Zenon DEF current_window

\* The timestamp that update_write_timestamp gives lies less than a window
\* before the clock, and never after both the clock and start_time.
LEMMA WindowStartBounds ==
    ASSUME NEW n \in Nodes, start_time[n] \in Nat, NEW c \in Nat
    PROVE  /\ WindowStart(n, c) \in Int
           /\ c - WindowStart(n, c) < window_size
           /\ WindowStart(n, c) <= c \/ WindowStart(n, c) <= start_time[n]
  <1>1. CASE c - start_time[n] >= 0
    <2>1. c - start_time[n] \in Nat
      BY <1>1
    <2>2. (c - start_time[n]) % window_size \in 0 .. window_size - 1
      BY <2>1, ModBounds, WindowsAssumption, Zenon
    <2>3. WindowStart(n, c) = c - ((c - start_time[n]) % window_size)
      BY <1>1, Zenon DEF WindowStart, CMod
    <2> QED
      BY <2>2, <2>3, WindowsAssumption
  <1>2. CASE c - start_time[n] < 0
    <2>1. start_time[n] - c \in Nat /\ -(c - start_time[n]) = start_time[n] - c
      BY <1>2
    <2>2. (start_time[n] - c) % window_size \in 0 .. window_size - 1
          /\ (start_time[n] - c) % window_size <= start_time[n] - c
      BY <2>1, ModBounds, WindowsAssumption, Zenon
    <2>3. WindowStart(n, c) = c + ((start_time[n] - c) % window_size)
      <3>1. CMod(c - start_time[n], window_size) = -((start_time[n] - c) % window_size)
        BY <1>2, <2>1 DEF CMod
      <3> QED
        BY <2>2, <3>1, WindowsAssumption DEF WindowStart
    <2> QED
      BY <2>2, <2>3, WindowsAssumption
  <1> QED
    BY <1>1, <1>2

-----------------------------------------------------------------------------
(***************************************************************************)
(* Cleaning.                                                               *)
(***************************************************************************)

\* After clean_windows at clock c the ring is well formed, was cleaned less
\* than a window ago and holds no slot that was expired at that time.
LEMMA Cleaning ==
    ASSUME IInv, NEW n \in Nodes, NEW c \in Nat
    PROVE  /\ CleanedArray(n, c) \in [Windows -> Slot]
           /\ LastCleaned(n, c) \in Nat
           /\ c - LastCleaned(n, c) < window_size
           /\ ArrayInv(CleanedArray(n, c), now)
           /\ CleanInv(CleanedArray(n, c), LastCleaned(n, c))
  <1>1. /\ stats_array[n] \in [Windows -> Slot] /\ last_cleaned[n] \in Nat
        /\ ArrayInv(stats_array[n], now) /\ CleanInv(stats_array[n], last_cleaned[n])
    BY Zenon DEF IInv, TypeOK
  <1>2. CASE ~NeedsCleaning(n, c)
    BY <1>1, <1>2, WindowsAssumption DEF CleanedArray, LastCleaned, NeedsCleaning
  <1>3. CASE NeedsCleaning(n, c)
    <2>1. CleanedArray(n, c) = [i \in Windows |-> CleanSlot(stats_array[n][i], c)]
          /\ LastCleaned(n, c) = c
      BY <1>3, Zenon DEF CleanedArray, LastCleaned
    <2>2. ASSUME NEW i \in Windows
          PROVE  LET s == CleanSlot(stats_array[n][i], c)
                 IN  s \in Slot /\ SlotInv(s, now) /\ (s.first # 0 => c - s.first < ExpireDiff)
      <3>1. stats_array[n][i] \in Slot /\ SlotInv(stats_array[n][i], now)
        BY <1>1, Zenon DEF ArrayInv
      <3>2. EmptySlot \in Slot /\ SlotInv(EmptySlot, now) /\ EmptySlot.first = 0
        BY ClockAssumption DEF EmptySlot, Slot, SlotInv, IInv, TypeOK
      <3>3. CASE Expired(stats_array[n][i], c)
        BY <3>2, <3>3, Zenon DEF CleanSlot
      <3>4. CASE ~Expired(stats_array[n][i], c)
        BY <3>1, <3>4, ExpireDiffType DEF CleanSlot, Expired, Slot
      <3> QED
        BY <3>3, <3>4, Zenon
    <2>3. CleanedArray(n, c) \in [Windows -> Slot]
      BY <2>1, <2>2, Zenon
    <2>4. ArrayInv(CleanedArray(n, c), now) /\ CleanInv(CleanedArray(n, c), c)
      BY <2>1, <2>2, Zenon DEF ArrayInv, CleanInv
    <2> QED
      BY <2>1, <2>3, <2>4, WindowsAssumption
  <1> QED
    BY <1>2, <1>3, Zenon

\* What lies in a cleaned ring is younger than MaxAge at the next clock read.
LEMMA CleanedIsRecent ==
    ASSUME IInv, NEW n \in Nodes, NEW t \in NextRead(now), FieldType # "hll",
           NEW i \in Windows, NEW d \in CleanedArray(n, Clock(n, now))[i].member
    PROVE  t - d < MaxAge
  <1> DEFINE c == Clock(n, now)
             slot == CleanedArray(n, c)[i]
  <1>1. now \in Nat /\ t \in Nat /\ t <= now + MaxDelay /\ MaxDelay \in Nat /\ MaxSkew \in Nat
        /\ Skew[n] \in 0 .. MaxSkew /\ c \in Nat /\ c >= now
    BY ClockAssumption DEF IInv, TypeOK, NextRead, Clock
  <1>2. slot \in Slot /\ SlotInv(slot, now) /\ d \in slot.member
        /\ LastCleaned(n, c) \in Nat /\ c - LastCleaned(n, c) < window_size
        /\ (slot.first # 0 => LastCleaned(n, c) - slot.first < ExpireDiff)
    BY <1>1, Cleaning, Zenon DEF ArrayInv, CleanInv
  <1>3. slot.first # 0
    BY <1>2, Zenon DEF SlotInv
  <1>4. d >= slot.first - MaxSkew - MaxDelay
    BY <1>2, <1>3, Zenon DEF SlotInv
  <1>5. d \in Nat /\ slot.first \in Int
    BY <1>2 DEF Slot
  <1> QED
    BY <1>1, <1>2, <1>3, <1>4, <1>5, ExpireDiffType, WindowsAssumption DEF MaxAge

\* Time that passes does not break what holds of slots.
LEMMA SlotInvLater ==
    ASSUME NEW array \in [Windows -> Slot], NEW t \in Nat, NEW u \in Nat, t <= u, ArrayInv(array, t)
    PROVE  ArrayInv(array, u)
  BY ClockAssumption DEF ArrayInv, SlotInv, Slot

-----------------------------------------------------------------------------
(***************************************************************************)
(* Every step preserves the invariant.                                     *)
(***************************************************************************)

\* A method call that leaves a well-formed, freshly cleaned ring keeps all of
\* the invariant but what it says of the result.
LEMMA UseKeepsRing ==
    ASSUME IInv, NEW n \in Nodes, NEW t \in Nat, now <= t, NEW array \in [Windows -> Slot],
           ArrayInv(array, t), CleanInv(array, LastCleaned(n, Clock(n, now))),
           LastCleaned(n, Clock(n, now)) \in Nat, Use(n, t, array),
           created' \in SUBSET Nodes, writes' \in Nat, result'.at \in Nat,
           result' \in [at : Nat, current : SUBSET Nat, windows : Seq(SUBSET Nat)],
           ReadsAreRecent'
    PROVE  IInv'
  <1>1. TypeOK'
    BY Zenon DEF IInv, TypeOK, Use
  <1>2. ASSUME NEW m \in Nodes
        PROVE  /\ now' >= window_size /\ start_time'[m] <= now' + MaxSkew
               /\ ArrayInv(stats_array'[m], now') /\ CleanInv(stats_array'[m], last_cleaned'[m])
               /\ last_cleaned'[m] <= Clock(m, now')
    <2>1. now' = t /\ start_time' = start_time /\ now \in Nat /\ start_time[m] \in Nat
          /\ now >= window_size /\ start_time[m] <= now + MaxSkew
      BY Zenon DEF IInv, TypeOK, Use
    <2>2. now' >= window_size /\ start_time'[m] <= now' + MaxSkew
      <3>1. t \in Nat /\ now <= t /\ window_size \in Nat /\ MaxSkew \in Nat
        BY ClockAssumption, WindowsAssumption, Zenon
      <3> QED BY <2>1, <3>1, SMT
    <2>3. CASE m = n
      <3>1. LastCleaned(n, Clock(n, now)) <= Clock(n, now) /\ Clock(n, now) <= Clock(n, t)
        <4>1. Skew[n] \in Nat
          BY ClockAssumption
        <4>2. Clock(n, now) \in Nat /\ Clock(n, now) <= Clock(n, t)
          BY <2>1, <4>1 DEF Clock
        <4> QED
          BY <4>2 DEF IInv, LastCleaned
      <3>2. last_cleaned'[n] = LastCleaned(n, Clock(n, now)) /\ stats_array'[n] = array
        BY Zenon DEF IInv, TypeOK, Use
      <3>3. Clock(n, now) \in Int /\ Clock(n, t) \in Int
        <4>1. Skew[n] \in Nat
          BY ClockAssumption
        <4> QED BY <2>1, <4>1, SMT DEF Clock
      <3> QED
        BY <2>1, <2>2, <2>3, <3>1, <3>2, <3>3
    <2>4. CASE m # n
      <3>1. stats_array'[m] = stats_array[m] /\ last_cleaned'[m] = last_cleaned[m]
            /\ stats_array[m] \in [Windows -> Slot]
            /\ ArrayInv(stats_array[m], now) /\ CleanInv(stats_array[m], last_cleaned[m])
            /\ last_cleaned[m] \in Nat /\ last_cleaned[m] <= Clock(m, now)
        BY <2>4, Zenon DEF IInv, TypeOK, Use
      <3>2. last_cleaned[m] <= Clock(m, t)
        <4>1. Skew[m] \in Nat
          BY ClockAssumption
        <4> QED
          BY <2>1, <3>1, <4>1 DEF Clock
      <3> QED
        BY <2>1, <2>2, <3>1, <3>2, SlotInvLater, Zenon
    <2> QED
      BY <2>3, <2>4, Zenon
  <1>3. ASSUME NEW d \in wire'
        PROVE  d.start <= now' + MaxSkew /\ ArrayInv(d.array, now')
    <2>1. d \in wire /\ now' = t /\ now \in Nat /\ d.start \in Nat /\ d.array \in [Windows -> Slot]
          /\ d.start <= now + MaxSkew /\ ArrayInv(d.array, now)
      BY Zenon DEF IInv, TypeOK, Use
    <2>2. d.start <= now' + MaxSkew
      <3>1. MaxSkew \in Nat
        BY ClockAssumption, Zenon
      <3> QED BY <2>1, <3>1, SMT
    <2>3. ArrayInv(d.array, now')
      BY <2>1, SlotInvLater, Zenon
    <2> QED
      BY <2>2, <2>3, Zenon
  <1> QED
    BY <1>1, <1>2, <1>3, Zenon DEF IInv

\* The facts about the clock that the method calls need.
LEMMA ClockFacts ==
    ASSUME IInv, NEW n \in Nodes, NEW t \in NextRead(now)
    PROVE  /\ now \in Nat /\ t \in Nat /\ now <= t /\ t <= now + MaxDelay
           /\ Clock(n, now) \in Nat /\ Clock(n, t) \in Nat
           /\ Clock(n, now) <= Clock(n, t)
           /\ t <= Clock(n, t) /\ Clock(n, t) <= t + MaxSkew
           /\ start_time[n] \in Nat /\ start_time[n] <= now + MaxSkew
           /\ start_time[n] - Clock(n, t) < window_size
           /\ current_window(n, Clock(n, t)) \in Windows
  <1>1. /\ now \in Nat /\ t \in Nat /\ now <= t /\ t <= now + MaxDelay
        /\ start_time[n] \in Nat /\ start_time[n] <= now + MaxSkew
        /\ Skew[n] \in 0 .. MaxSkew /\ MaxSkew \in Nat /\ MaxSkew < window_size
    BY ClockAssumption DEF IInv, TypeOK, NextRead
  <1>2. /\ Clock(n, now) \in Nat /\ Clock(n, t) \in Nat
        /\ Clock(n, now) <= Clock(n, t)
        /\ t <= Clock(n, t) /\ Clock(n, t) <= t + MaxSkew
        /\ start_time[n] - Clock(n, t) < window_size
    BY <1>1, WindowsAssumption DEF Clock
  <1> QED
    BY <1>1, <1>2, CurrentWindowInRange, Zenon

\* Nothing is returned by calls that are no reads.
LEMMA NoResultIsRecent ==
    ASSUME result' = NoResult
    PROVE  /\ result' \in [at : Nat, current : SUBSET Nat, windows : Seq(SUBSET Nat)]
           /\ ReadsAreRecent'
  <1>1. NoResult \in [at : Nat, current : SUBSET Nat, windows : Seq(SUBSET Nat)]
    BY DEF NoResult
  <1>2. Returned' = {}
    BY DEF Returned, NoResult
  <1> QED
    BY <1>1, <1>2, Zenon DEF ReadsAreRecent

\* add and sub clean the ring, stamp the current slot and write into it.
LEMMA AddKeepsInv == ASSUME IInv, NEW n \in Nodes, Add(n) PROVE IInv'
  <1>1. PICK t2 \in NextRead(now) : \E t3 \in NextRead(t2) : \E data \in {{}, {t2}} :
          LET array == CleanedArray(n, Clock(n, now))
              cur == current_window(n, Clock(n, t2))
              written == [array[cur] EXCEPT !.member = @ \union data]
          IN /\ writes' = writes + 1
             /\ created' = created \union {n}
             /\ Use(n, t3, [array EXCEPT ![cur] = Stamped(n, written, Clock(n, t3))])
             /\ result' = NoResult
    BY Zenon DEF Add
  <1> DEFINE array == CleanedArray(n, Clock(n, now))
             cur == current_window(n, Clock(n, t2))
             last == LastCleaned(n, Clock(n, now))
  <1>2. PICK t3 \in NextRead(t2), data \in {{}, {t2}} :
             /\ writes' = writes + 1
             /\ created' = created \union {n}
             /\ Use(n, t3, [array EXCEPT ![cur] =
                        Stamped(n, [array[cur] EXCEPT !.member = @ \union data], Clock(n, t3))])
             /\ result' = NoResult
    BY <1>1, Zenon
  <1> DEFINE written == [array[cur] EXCEPT !.member = @ \union data]
             c3 == Clock(n, t3)
             stamped == Stamped(n, written, c3)
  <1>3. /\ now \in Nat /\ t2 \in Nat /\ now <= t2 /\ cur \in Windows
        /\ start_time[n] \in Nat /\ start_time[n] <= now + MaxSkew /\ Clock(n, now) \in Nat
    BY ClockFacts, Zenon
  <1>4. /\ t3 \in Nat /\ t2 <= t3 /\ t3 <= t2 + MaxDelay /\ c3 \in Nat
        /\ c3 <= t3 + MaxSkew /\ Clock(n, now) <= c3
    BY <1>3, ClockAssumption DEF NextRead, Clock
  <1>5. /\ array \in [Windows -> Slot] /\ last \in Nat /\ Clock(n, now) - last < window_size
        /\ ArrayInv(array, now) /\ CleanInv(array, last)
    BY <1>3, Cleaning, Zenon
  <1>6. last <= Clock(n, now)
    BY <1>3 DEF IInv, LastCleaned
  <1>7. written \in Slot /\ written.first = array[cur].first
        /\ written.member = array[cur].member \union data
    BY <1>3, <1>5, Zenon DEF Slot
  <1>8. WindowStart(n, c3) \in Int /\ c3 - WindowStart(n, c3) < window_size
        /\ (WindowStart(n, c3) <= c3 \/ WindowStart(n, c3) <= start_time[n])
    BY <1>3, <1>4, WindowStartBounds, Zenon
  <1>0. WindowStart(n, c3) \in Nat \ {0}
    <2>1. now >= window_size /\ now <= Clock(n, now)
      BY <1>3, ClockAssumption DEF IInv, Clock
    <2> QED
      BY <1>3, <1>4, <1>8, <2>1, WindowsAssumption
  <1> HIDE DEF array, cur, last, written, c3
  <1>9. stamped \in Slot /\ stamped.member = written.member
        /\ stamped.first = IF written.first = 0 THEN WindowStart(n, c3) ELSE written.first
    BY <1>0, <1>7, Zenon DEF Stamped, Slot
  <1>10. WindowStart(n, c3) <= t2 + MaxDelay + MaxSkew
    BY <1>3, <1>4, <1>8, ClockAssumption
  <1>11. SlotInv(array[cur], now) /\ array[cur] \in Slot
    BY <1>3, <1>5, Zenon DEF ArrayInv
  <1>12. SlotInv(stamped, t3)
    <2>1. stamped.first <= t3 + MaxSkew
      BY <1>3, <1>4, <1>7, <1>8, <1>9, <1>11, ClockAssumption DEF SlotInv, Slot
    <2>2. ASSUME FieldType # "hll", NEW d \in stamped.member
          PROVE  d >= stamped.first - MaxSkew - MaxDelay
      <3>1. CASE d = t2
        BY <1>3, <1>4, <1>7, <1>9, <1>10, <1>11, <3>1, ClockAssumption DEF SlotInv, Slot
      <3>2. CASE d \in array[cur].member
        BY <1>7, <1>9, <1>11, <2>2, <3>2, Zenon DEF SlotInv
      <3> QED
        BY <1>7, <1>9, <3>1, <3>2, Zenon
    <2>3. stamped.first # 0
      BY <1>0, <1>9, Zenon
    <2> QED
      BY <2>1, <2>2, <2>3, Zenon DEF SlotInv
  <1>13. last - stamped.first < ExpireDiff
    <2>1. CASE written.first = 0
      BY <1>4, <1>3, <1>5, <1>6, <1>8, <1>9, <2>1, ExpireDiffType, WindowsAssumption
    <2>2. CASE written.first # 0
      BY <1>3, <1>5, <1>7, <1>9, <2>2, Zenon DEF CleanInv
    <2> QED
      BY <2>1, <2>2, Zenon
  <1> DEFINE after == [array EXCEPT ![cur] = stamped]
  <1>14. after \in [Windows -> Slot] /\ ArrayInv(after, t3) /\ CleanInv(after, last)
    <2>1. ArrayInv(array, t3)
      BY <1>3, <1>4, <1>5, SlotInvLater, Zenon
    <2> HIDE DEF stamped
    <2> QED
      BY <1>3, <1>5, <1>9, <1>12, <1>13, <2>1, Zenon DEF ArrayInv, CleanInv
  <1>15. created' \in SUBSET Nodes /\ writes' \in Nat
    BY <1>2 DEF IInv, TypeOK
  <1>16. Use(n, t3, after)
    BY <1>2, Zenon DEF array, cur, written, c3
  <1>17. result' \in [at : Nat, current : SUBSET Nat, windows : Seq(SUBSET Nat)]
         /\ ReadsAreRecent'
    BY <1>2, NoResultIsRecent, Zenon
  <1>18. now <= t3
    BY <1>3, <1>4
  <1> HIDE DEF after
  <1> QED
    BY <1>4, <1>5, <1>14, <1>15, <1>16, <1>17, <1>18, UseKeepsRing, Zenon DEF last

\* An add or sub that throws has cleaned the ring and written nothing.
LEMMA AddThrowsKeepsInv == ASSUME IInv, NEW n \in Nodes, AddThrows(n) PROVE IInv'
  <1>1. PICK t2 \in NextRead(now) :
          /\ created' = created \union {n}
          /\ Use(n, t2, CleanedArray(n, Clock(n, now)))
          /\ result' = NoResult
          /\ UNCHANGED writes
    BY Zenon DEF AddThrows
  <1>2. now \in Nat /\ t2 \in Nat /\ now <= t2 /\ Clock(n, now) \in Nat
    BY ClockFacts, Zenon
  <1>3. created' \in SUBSET Nodes /\ writes' \in Nat
    BY <1>1, Zenon DEF IInv, TypeOK
  <1>4. ArrayInv(CleanedArray(n, Clock(n, now)), t2)
    BY <1>2, Cleaning, SlotInvLater, Zenon
  <1> QED
    BY <1>1, <1>2, <1>3, <1>4, Cleaning, NoResultIsRecent, UseKeepsRing, Zenon

\* The result of a read is well typed and, except for hll fields, recent.
LEMMA ReadResult ==
    ASSUME IInv, NEW t \in Nat, NEW array \in [Windows -> Slot], NEW cur \in Windows,
           NEW all \in BOOLEAN,
           FieldType # "hll" => \A i \in Windows : \A d \in array[i].member : t - d < MaxAge,
           result' = [at |-> t, current |-> array[cur].member,
                      windows |-> IF all THEN InWindowOrder(array, cur) ELSE <<>>]
    PROVE  /\ result' \in [at : Nat, current : SUBSET Nat, windows : Seq(SUBSET Nat)]
           /\ ReadsAreRecent'
  <1> DEFINE Index(k) == (cur + num_windows - k + 1) % num_windows
  <1>1. ASSUME NEW k \in 1 .. num_windows PROVE Index(k) \in Windows
    <2>1. cur + num_windows - k + 1 \in Nat
      BY WindowsAssumption DEF Windows
    <2> QED
      BY <2>1, ModBounds, WindowsAssumption, Zenon DEF Windows
  <1>2. InWindowOrder(array, cur) = [k \in 1 .. num_windows |-> array[Index(k)].member]
    BY Zenon DEF InWindowOrder
  <1> HIDE DEF Index
  <1>3. \A i \in Windows : array[i].member \in SUBSET Nat
    BY Zenon DEF Slot
  <1>4. InWindowOrder(array, cur) \in Seq(SUBSET Nat)
    <2>1. InWindowOrder(array, cur) \in [1 .. num_windows -> SUBSET Nat]
      BY <1>1, <1>2, <1>3, Zenon
    <2> QED
      BY <2>1, WindowsAssumption
  <1>5. result' \in [at : Nat, current : SUBSET Nat, windows : Seq(SUBSET Nat)]
    BY <1>3, <1>4
  <1>6. ASSUME FieldType # "hll", NEW d \in Returned' PROVE result'.at - d < MaxAge
    <2>1. PICK i \in Windows : d \in array[i].member
      <3>1. CASE d \in result'.current
        BY <3>1, Zenon
      <3>2. CASE d \in UNION {result'.windows[k] : k \in DOMAIN result'.windows}
        <4>1. PICK k \in DOMAIN result'.windows : d \in result'.windows[k]
          BY <3>2, Zenon
        <4>2. all /\ result'.windows = InWindowOrder(array, cur)
          BY <4>1
        <4> QED
          BY <1>1, <1>2, <4>1, <4>2, Zenon
      <3> QED
        BY <1>6, <3>1, <3>2, Zenon DEF Returned
    <2> QED
      BY <1>6, <2>1, Zenon
  <1> QED
    BY <1>5, <1>6, Zenon DEF ReadsAreRecent

\* twGetCurrent, twGetWindows and sum answer from a ring they have just cleaned.
LEMMA GetKeepsInv == ASSUME IInv, NEW n \in Nodes, Get(n) PROVE IInv'
  <1> DEFINE array == CleanedArray(n, Clock(n, now))
  <1>1. PICK t2 \in NextRead(now) :
          /\ Use(n, t2, array)
          /\ result' = [at |-> t2, current |-> array[current_window(n, Clock(n, t2))].member,
                        windows |-> InWindowOrder(array, current_window(n, Clock(n, t2)))]
          /\ UNCHANGED <<created, writes>>
    BY Zenon DEF Get
  <1>2. now \in Nat /\ t2 \in Nat /\ now <= t2 /\ Clock(n, now) \in Nat
        /\ current_window(n, Clock(n, t2)) \in Windows
    BY ClockFacts, Zenon
  <1>3. created' \in SUBSET Nodes /\ writes' \in Nat
    BY <1>1, Zenon DEF IInv, TypeOK
  <1>4. /\ array \in [Windows -> Slot] /\ ArrayInv(array, t2)
        /\ LastCleaned(n, Clock(n, now)) \in Nat
        /\ CleanInv(array, LastCleaned(n, Clock(n, now)))
    BY <1>2, Cleaning, SlotInvLater, Zenon
  <1>5. FieldType # "hll" => \A i \in Windows : \A d \in array[i].member : t2 - d < MaxAge
    BY CleanedIsRecent, Zenon
  <1> HIDE DEF array
  <1>6. result' \in [at : Nat, current : SUBSET Nat, windows : Seq(SUBSET Nat)]
        /\ ReadsAreRecent'
    <2> DEFINE cur == current_window(n, Clock(n, t2))
    <2>1. cur \in Windows
      BY <1>2, Zenon
    <2>2. result' = [at |-> t2, current |-> array[cur].member,
                     windows |-> IF TRUE THEN InWindowOrder(array, cur) ELSE <<>>]
      BY <1>1, Zenon
    <2> HIDE DEF cur
    <2> QED
      BY <1>2, <1>4, <1>5, <2>1, <2>2, ReadResult, Zenon
  <1> QED
    BY <1>1, <1>2, <1>3, <1>4, <1>6, UseKeepsRing, Zenon

\* A read for one value does the same, and for hll fields also writes.
LEMMA GetValueKeepsInv ==
    ASSUME IInv, NEW n \in Nodes, NEW all \in BOOLEAN, GetValue(n, all) PROVE IInv'
  <1> DEFINE array == CleanedArray(n, Clock(n, now))
             cur(t) == current_window(n, Clock(n, t))
             after(t) == [i \in Windows |->
                            IF FieldType = "hll" /\ i \in (IF all THEN Windows ELSE {cur(t)})
                            THEN [array[i] EXCEPT !.member = @ \union {t}]
                            ELSE array[i]]
  <1>1. PICK t2 \in NextRead(now) :
          /\ Use(n, t2, after(t2))
          /\ result' = [at |-> t2, current |-> after(t2)[cur(t2)].member,
                        windows |-> IF all THEN InWindowOrder(after(t2), cur(t2)) ELSE <<>>]
          /\ UNCHANGED <<created, writes>>
    BY Zenon DEF GetValue
  <1>2. now \in Nat /\ t2 \in Nat /\ now <= t2 /\ Clock(n, now) \in Nat /\ cur(t2) \in Windows
    BY ClockFacts, Zenon
  <1>3. created' \in SUBSET Nodes /\ writes' \in Nat
    BY <1>1, Zenon DEF IInv, TypeOK
  <1>4. /\ array \in [Windows -> Slot] /\ ArrayInv(array, t2)
        /\ LastCleaned(n, Clock(n, now)) \in Nat
        /\ CleanInv(array, LastCleaned(n, Clock(n, now)))
    BY <1>2, Cleaning, SlotInvLater, Zenon
  <1>5. FieldType # "hll" => \A i \in Windows : \A d \in array[i].member : t2 - d < MaxAge
    BY CleanedIsRecent, Zenon
  <1> HIDE DEF array, cur
  <1>6. \A i \in Windows : after(t2)[i] \in Slot /\ after(t2)[i].first = array[i].first
    BY <1>2, <1>4, Zenon DEF Slot
  <1>7. FieldType # "hll" => after(t2) = array
    BY <1>4, Zenon
  <1>8. after(t2) \in [Windows -> Slot]
    BY <1>6, Zenon
  <1> DEFINE ring == after(t2)
  <1>9. ring \in [Windows -> Slot] /\ (FieldType # "hll" => ring = array)
        /\ \A i \in Windows : ring[i].first = array[i].first
    BY <1>6, <1>7, <1>8, Zenon
  <1>10. Use(n, t2, ring)
         /\ result' = [at |-> t2, current |-> ring[cur(t2)].member,
                       windows |-> IF all THEN InWindowOrder(ring, cur(t2)) ELSE <<>>]
    BY <1>1, Zenon
  <1> HIDE DEF ring
  <1>11. ArrayInv(ring, t2) /\ CleanInv(ring, LastCleaned(n, Clock(n, now)))
    BY <1>4, <1>9, Zenon DEF ArrayInv, SlotInv, CleanInv
  <1>12. result' \in [at : Nat, current : SUBSET Nat, windows : Seq(SUBSET Nat)]
         /\ ReadsAreRecent'
    BY <1>2, <1>5, <1>9, <1>10, ReadResult, Zenon
  <1> QED
    BY <1>2, <1>3, <1>4, <1>9, <1>10, <1>11, <1>12, UseKeepsRing, Zenon

\* Steps of one node that leave the clock alone: what they change is well formed.
LEMMA LocalKeepsInv ==
    ASSUME IInv, NEW n \in Nodes, now' = now, created' \in SUBSET Nodes, writes' = writes,
           NEW array \in [Windows -> Slot], ArrayInv(array, now), NEW last \in Nat,
           CleanInv(array, last), last <= Clock(n, now), NEW start \in Nat,
           start <= now + MaxSkew,
           stats_array' = [stats_array EXCEPT ![n] = array],
           last_cleaned' = [last_cleaned EXCEPT ![n] = last],
           start_time' = [start_time EXCEPT ![n] = start],
           wire' \in SUBSET [start : Nat, array : [Windows -> Slot]],
           \A d \in wire' : d.start <= now + MaxSkew /\ ArrayInv(d.array, now),
           result' = NoResult
    PROVE  IInv'
  <1>1. result' \in [at : Nat, current : SUBSET Nat, windows : Seq(SUBSET Nat)]
        /\ ReadsAreRecent'
    BY NoResultIsRecent, Zenon
  <1>2. TypeOK'
    BY <1>1, Zenon DEF IInv, TypeOK
  <1>3. ASSUME NEW m \in Nodes
        PROVE  /\ now' >= window_size /\ start_time'[m] <= now' + MaxSkew
               /\ ArrayInv(stats_array'[m], now') /\ CleanInv(stats_array'[m], last_cleaned'[m])
               /\ last_cleaned'[m] <= Clock(m, now')
    <2>1. CASE m = n
      BY <2>1, Zenon DEF IInv, TypeOK
    <2>2. CASE m # n
      BY <2>2, Zenon DEF IInv, TypeOK
    <2> QED
      BY <2>1, <2>2, Zenon
  <1> QED
    BY <1>1, <1>2, <1>3, Zenon DEF IInv

\* erase leaves the times alone.
LEMMA ResetKeepsInv == ASSUME IInv, NEW n \in Nodes, Reset(n) PROVE IInv'
  <1> DEFINE array == [i \in Windows |-> EmptySlot]
  <1>1. array \in [Windows -> Slot] /\ ArrayInv(array, now) /\ CleanInv(array, last_cleaned[n])
    <2>1. EmptySlot \in Slot /\ EmptySlot.first = 0 /\ SlotInv(EmptySlot, now)
      BY ClockAssumption DEF EmptySlot, Slot, SlotInv, IInv, TypeOK
    <2> QED
      BY <2>1, Zenon DEF ArrayInv, CleanInv
  <1>2. /\ now' = now /\ created' \in SUBSET Nodes /\ writes' = writes /\ wire' = wire
        /\ stats_array' = [stats_array EXCEPT ![n] = array] /\ result' = NoResult
    BY Zenon DEF Reset, IInv, TypeOK
  <1>3. /\ last_cleaned' = [last_cleaned EXCEPT ![n] = last_cleaned[n]]
        /\ start_time' = [start_time EXCEPT ![n] = start_time[n]]
    BY Zenon DEF Reset, IInv, TypeOK
  <1>4. /\ last_cleaned[n] \in Nat /\ last_cleaned[n] <= Clock(n, now)
        /\ start_time[n] \in Nat /\ start_time[n] <= now + MaxSkew
        /\ wire \in SUBSET [start : Nat, array : [Windows -> Slot]]
        /\ \A d \in wire : d.start <= now + MaxSkew /\ ArrayInv(d.array, now)
    BY Zenon DEF IInv, TypeOK
  <1> HIDE DEF array
  <1> QED
    BY <1>1, <1>2, <1>3, <1>4, LocalKeepsInv, Zenon

\* dump copies the ring as it is, uncleaned.
LEMMA DumpKeepsInv == ASSUME IInv, NEW n \in Nodes, Dump(n) PROVE IInv'
  <1>1. /\ now' = now /\ created' \in SUBSET Nodes /\ writes' = writes /\ result' = NoResult
        /\ stats_array' = [stats_array EXCEPT ![n] = stats_array[n]]
        /\ last_cleaned' = [last_cleaned EXCEPT ![n] = last_cleaned[n]]
        /\ start_time' = [start_time EXCEPT ![n] = start_time[n]]
        /\ wire' = {[start |-> start_time[n], array |-> stats_array[n]]}
    BY Zenon DEF Dump, IInv, TypeOK
  <1>2. /\ last_cleaned[n] \in Nat /\ last_cleaned[n] <= Clock(n, now)
        /\ start_time[n] \in Nat /\ start_time[n] <= now + MaxSkew
        /\ stats_array[n] \in [Windows -> Slot] /\ ArrayInv(stats_array[n], now)
        /\ CleanInv(stats_array[n], last_cleaned[n])
    BY Zenon DEF IInv, TypeOK
  <1>3. /\ wire' \in SUBSET [start : Nat, array : [Windows -> Slot]]
        /\ \A d \in wire' : d.start <= now + MaxSkew /\ ArrayInv(d.array, now)
    BY <1>1, <1>2
  <1> QED
    BY <1>1, <1>2, <1>3, LocalKeepsInv, Zenon

\* restore takes over ring, start time and cleaning time of the dump.
LEMMA RestoreKeepsInv == ASSUME IInv, NEW n \in Nodes, Restore(n) PROVE IInv'
  <1>1. PICK d \in wire :
          /\ created' = created \union {n}
          /\ stats_array' = [stats_array EXCEPT ![n] = d.array]
          /\ start_time' = [start_time EXCEPT ![n] = d.start]
          /\ last_cleaned' = [last_cleaned EXCEPT ![n] = 0]
          /\ wire' = wire \ {d}
          /\ result' = NoResult
          /\ UNCHANGED <<now, writes>>
    BY Zenon DEF Restore
  <1>2. /\ d.array \in [Windows -> Slot] /\ ArrayInv(d.array, now)
        /\ d.start \in Nat /\ d.start <= now + MaxSkew /\ now \in Nat
        /\ wire' \in SUBSET [start : Nat, array : [Windows -> Slot]]
        /\ \A e \in wire' : e.start <= now + MaxSkew /\ ArrayInv(e.array, now)
        /\ created' \in SUBSET Nodes
    BY <1>1, Zenon DEF IInv, TypeOK
  <1>3. CleanInv(d.array, 0)
    BY <1>2, ExpireDiffType, WindowsAssumption DEF CleanInv, Slot
  <1>4. 0 <= Clock(n, now)
    BY <1>2, ClockAssumption DEF Clock
  <1> QED
    BY <1>1, <1>2, <1>3, <1>4, LocalKeepsInv, Zenon

\* Time only makes slots older; the clocks stay within their skew.
LEMMA TickKeepsInv == ASSUME IInv, Tick PROVE IInv'
  <1>1. /\ now \in Nat /\ now' = now + 1 /\ result' = NoResult
        /\ UNCHANGED <<created, stats_array, start_time, last_cleaned, wire, writes>>
    BY Zenon DEF Tick, IInv, TypeOK
  <1>2. TypeOK' /\ ReadsAreRecent'
    BY <1>1, NoResultIsRecent DEF IInv, TypeOK
  <1>3. ASSUME NEW n \in Nodes
        PROVE  /\ now' >= window_size /\ start_time'[n] <= now' + MaxSkew
               /\ ArrayInv(stats_array'[n], now') /\ CleanInv(stats_array'[n], last_cleaned'[n])
               /\ last_cleaned'[n] <= Clock(n, now')
    <2>1. /\ now >= window_size /\ start_time[n] <= now + MaxSkew /\ start_time[n] \in Nat
          /\ stats_array[n] \in [Windows -> Slot]
          /\ ArrayInv(stats_array[n], now) /\ CleanInv(stats_array[n], last_cleaned[n])
          /\ last_cleaned[n] \in Nat /\ last_cleaned[n] <= now + Skew[n] /\ Skew[n] \in Nat
      BY ClockAssumption DEF IInv, TypeOK, Clock
    <2>2. now' >= window_size /\ start_time'[n] <= now' + MaxSkew
      BY <1>1, <2>1, ClockAssumption, WindowsAssumption
    <2>3. ArrayInv(stats_array'[n], now')
      BY <1>1, <2>1, SlotInvLater
    <2>4. last_cleaned'[n] <= Clock(n, now')
      BY <1>1, <2>1 DEF Clock
    <2> QED
      BY <1>1, <2>1, <2>2, <2>3, <2>4, Zenon
  <1>4. ASSUME NEW d \in wire' PROVE d.start <= now' + MaxSkew /\ ArrayInv(d.array, now')
    <2>1. /\ d.start \in Nat /\ d.start <= now + MaxSkew
          /\ d.array \in [Windows -> Slot] /\ ArrayInv(d.array, now)
      BY <1>1, Zenon DEF IInv, TypeOK
    <2>2. ArrayInv(d.array, now')
      BY <1>1, <2>1, SlotInvLater
    <2>3. d.start <= now' + MaxSkew
      BY <1>1, <2>1, ClockAssumption
    <2> QED
      BY <2>2, <2>3, Zenon
  <1> QED
    BY <1>2, <1>3, <1>4, Zenon DEF IInv

\* The constructor leaves an empty ring, cleaned at the start.
LEMMA InitInv == Init => IInv
  <1> SUFFICES ASSUME Init PROVE IInv
    BY Zenon
  <1>1. TypeOK
    <2>1. EmptySlot \in Slot
      BY Zenon DEF EmptySlot, Slot
    <2>2. ASSUME NEW n \in Nodes PROVE Clock(n, Created[n]) \in Nat
      <3>1. Created[n] \in Nat /\ Skew[n] \in Nat
        BY ClockAssumption
      <3> QED
        BY <3>1 DEF Clock
    <2>3. NoResult \in [at : Nat, current : SUBSET Nat, windows : Seq(SUBSET Nat)]
      BY DEF NoResult
    <2>4. now \in Nat
      BY ClockAssumption DEF Init
    <2> QED
      BY <2>1, <2>2, <2>3, <2>4, Zenon DEF Init, TypeOK
  <1>2. ASSUME NEW n \in Nodes
        PROVE  /\ now >= window_size /\ start_time[n] <= now + MaxSkew
               /\ ArrayInv(stats_array[n], now) /\ CleanInv(stats_array[n], last_cleaned[n])
               /\ last_cleaned[n] <= Clock(n, now)
    <2>1. /\ now \in Nat /\ now >= Created[n] /\ Created[n] \in Nat /\ Created[n] >= window_size
          /\ Skew[n] \in Nat /\ Skew[n] <= MaxSkew /\ MaxSkew \in Nat
      BY ClockAssumption DEF Init
    <2>2. now >= window_size /\ start_time[n] <= now + MaxSkew /\ last_cleaned[n] <= Clock(n, now)
      BY <2>1, WindowsAssumption DEF Init, Clock
    <2>3. ArrayInv(stats_array[n], now) /\ CleanInv(stats_array[n], last_cleaned[n])
      BY <2>1 DEF Init, ArrayInv, CleanInv, SlotInv, EmptySlot
    <2> QED
      BY <2>2, <2>3, Zenon
  <1>3. ReadsAreRecent
    BY DEF Init, ReadsAreRecent, Returned, NoResult
  <1> QED
    BY <1>1, <1>2, <1>3, Zenon DEF IInv, Init

\* Every operation of every node keeps the invariant.
LEMMA NextKeepsInv == IInv /\ [Next]_vars => IInv'
  <1> SUFFICES ASSUME IInv, [Next]_vars PROVE IInv'
    BY Zenon
  <1>1. CASE Tick
    BY <1>1, TickKeepsInv, Zenon
  <1>2. CASE \E n \in Nodes : \/ Add(n) \/ AddThrows(n) \/ Get(n)
                              \/ \E all \in BOOLEAN : GetValue(n, all)
                              \/ Reset(n) \/ Dump(n) \/ Restore(n)
    <2>1. PICK n \in Nodes : \/ Add(n) \/ AddThrows(n) \/ Get(n)
                             \/ \E all \in BOOLEAN : GetValue(n, all)
                             \/ Reset(n) \/ Dump(n) \/ Restore(n)
      BY <1>2, Zenon
    <2>2. CASE Add(n)
      BY <2>2, AddKeepsInv, Zenon
    <2>3. CASE AddThrows(n)
      BY <2>3, AddThrowsKeepsInv, Zenon
    <2>4. CASE Get(n)
      BY <2>4, GetKeepsInv, Zenon
    <2>5. CASE \E all \in BOOLEAN : GetValue(n, all)
      BY <2>5, GetValueKeepsInv, Zenon
    <2>6. CASE Reset(n)
      BY <2>6, ResetKeepsInv, Zenon
    <2>7. CASE Dump(n)
      BY <2>7, DumpKeepsInv, Zenon
    <2>8. CASE Restore(n)
      BY <2>8, RestoreKeepsInv, Zenon
    <2> QED
      BY <2>1, <2>2, <2>3, <2>4, <2>5, <2>6, <2>7, <2>8, Zenon
  <1>3. CASE UNCHANGED vars
    BY <1>3 DEF vars, IInv, TypeOK, ReadsAreRecent, Returned
  <1> QED
    BY <1>1, <1>2, <1>3, Zenon DEF Next

\* The state of an entry keeps its type: in particular the index that
\* current_window computes always is a slot of the ring.
THEOREM EntryTypeOK == Spec => []TypeOK
  <1>1. IInv => TypeOK
    BY Zenon DEF IInv
  <1> QED
    BY InitInv, NextKeepsInv, <1>1, PTL DEF Spec

\* No read of twGet, twGetCurrent or twGetWindows returns data of MaxAge seconds
\* or older, for fields whose members do not write when they are read.
THEOREM EntryReadsAreRecent == Spec => []ReadsAreRecent
  <1>1. IInv => ReadsAreRecent
    BY Zenon DEF IInv
  <1> QED
    BY InitInv, NextKeepsInv, <1>1, PTL DEF Spec

-----------------------------------------------------------------------------
(***************************************************************************)
(* Division.                                                               *)
(***************************************************************************)

\* Multiples of a window are at least a window apart.
LEMMA Multiples ==
    ASSUME NEW w \in Nat \ {0}, NEW p \in Int, NEW q \in Int, p < q
    PROVE  w * p \in Int /\ w * q \in Int /\ w * p + w <= w * q
<1>1. w * (q - p) >= w
  OBVIOUS
<1>2. w * (q - p) = w * q - w * p
  OBVIOUS
<1>3. w * p \in Int /\ w * q \in Int
  OBVIOUS
<1> QED BY <1>1, <1>2, <1>3

\* A multiple is not less than the factor.
LEMMA AtLeast ==
    ASSUME NEW w \in Nat \ {0}, NEW m \in Nat
    PROVE  w * m \in Nat /\ m <= w * m
<1>1. PICK v \in Nat : w = v + 1
  <2>1. w - 1 \in Nat /\ w = (w - 1) + 1
    OBVIOUS
  <2> QED BY <2>1, Zenon
<1>2. (v + 1) * m = v * m + m
  OBVIOUS
<1>3. v * m \in Nat
  OBVIOUS
<1> QED BY <1>1, <1>2, <1>3

\* Quotient and remainder.
LEMMA DivMod ==
    ASSUME NEW a \in Nat, NEW b \in Nat \ {0}
    PROVE  a \div b \in Nat /\ (a % b) \in Nat /\ (a % b) \in 0 .. b - 1 /\ a = b * (a \div b) + (a % b)
OBVIOUS

\* and there is only one pair of them.
LEMMA DivIs ==
    ASSUME NEW a \in Nat, NEW b \in Nat \ {0}, NEW q \in Nat, NEW r \in 0 .. b - 1, a = b * q + r
    PROVE  a \div b = q /\ a % b = r
<1>1. a \div b \in Nat /\ (a % b) \in 0 .. b - 1 /\ a = b * (a \div b) + (a % b)
  BY DivMod, Zenon
<1>2. ~(q < a \div b)
  BY <1>1, Multiples
<1>3. ~(a \div b < q)
  BY <1>1, Multiples
<1>4. a \div b = q
  BY <1>1, <1>2, <1>3
<1> QED BY <1>1, <1>4

\* Whole turns of the ring change no slot.
LEMMA ModShift ==
    ASSUME NEW b \in Nat \ {0}, NEW m \in Nat, NEW x \in Nat
    PROVE  (b * m + x) % b = x % b
<1>1. x \div b \in Nat /\ (x % b) \in 0 .. b - 1 /\ x = b * (x \div b) + (x % b)
  BY DivMod, Zenon
<1>2. b * m + x = b * (m + x \div b) + (x % b)
  BY <1>1
<1>3. b * m + x \in Nat /\ m + x \div b \in Nat
  BY <1>1
<1> QED BY <1>1, <1>2, <1>3, DivIs, Zenon

\* Two windows of one slot at most a turn apart.
LEMMA SameSlot ==
    ASSUME NEW b \in Nat \ {0}, NEW p \in Nat, NEW q \in Nat, q <= p, p - q <= b, q % b = p % b
    PROVE  q = p \/ q = p - b
<1> DEFINE m == (p \div b) - (q \div b)
<1>1. p \div b \in Nat /\ (p % b) \in Nat /\ p = b * (p \div b) + (p % b)
  BY DivMod, Zenon
<1>2. q \div b \in Nat /\ (q % b) \in Nat /\ q = b * (q \div b) + (q % b)
  BY DivMod, Zenon
<1>3. m \in Int /\ b * m = b * (p \div b) - b * (q \div b)
  BY <1>1, <1>2
<1>4. p - q = b * m
  BY <1>1, <1>2, <1>3
<1> HIDE DEF m
<1>5. ~(m < 0) /\ ~(1 < m)
  BY <1>3, <1>4, Multiples
<1>6. m = 0 \/ m = 1
  BY <1>3, <1>5
<1> QED BY <1>4, <1>6

\* Which of the last windows the slot at position k of get_windows may hold.
LEMMA SlotAt ==
    ASSUME NEW b \in Nat \ {0}, NEW p \in Nat, NEW q \in Nat, q <= p, p - q <= b, NEW k \in 2 .. b,
           q % b = ((p % b) + b - k + 1) % b
    PROVE  q = p - k + 1
<1> DEFINE x == (p % b) + b - k + 1
           m == (p \div b) - (q \div b) - 1 + (x \div b)
<1>1. p \div b \in Nat /\ (p % b) \in Nat /\ p = b * (p \div b) + (p % b)
  BY DivMod, Zenon
<1>2. q \div b \in Nat /\ (q % b) \in Nat /\ q = b * (q \div b) + (q % b)
  BY DivMod, Zenon
<1>3. x \in Nat
  BY <1>1
<1> HIDE DEF x
<1>4. x \div b \in Nat /\ (x % b) \in Nat /\ x = b * (x \div b) + (x % b)
  BY <1>3, DivMod, Zenon
<1>5. m \in Int /\ b * m = b * (p \div b) - b * (q \div b) - b + b * (x \div b)
  <2>1. ASSUME NEW i \in Int, NEW j \in Int, NEW l \in Int
        PROVE  i - j - 1 + l \in Int /\ b * (i - j - 1 + l) = b * i - b * j - b + b * l
    OBVIOUS
  <2>2. p \div b \in Int /\ q \div b \in Int /\ x \div b \in Int
    BY <1>1, <1>2, <1>4
  <2> QED BY <2>1, <2>2, Zenon
<1>6. p - q = b * m + (k - 1)
  <2> HIDE DEF m
  <2>1. p - q = b * (p \div b) + (p % b) - b * (q \div b) - (x % b)
    BY <1>1, <1>2, <1>4 DEF x
  <2>2. x % b = (p % b) + b - k + 1 - b * (x \div b)
    BY <1>1, <1>4 DEF x
  <2> QED BY <1>1, <1>2, <1>4, <1>5, <2>1, <2>2
<1> HIDE DEF m, x
<1>7. ~(m < 0) /\ ~(0 < m)
  BY <1>5, <1>6, Multiples
<1>8. m = 0
  BY <1>5, <1>7
<1> QED BY <1>6, <1>8

\* The time of a window of the ring that begins at start, by its number.
Within(d, start, q) == start + window_size * q <= d /\ d < start + window_size * q + window_size

\* The number of the window that the clock is in.
Number(n, c) == CDiv(c - start_time[n], window_size)

\* The number gives the slot and the timestamp of a write, also when the clock is
\* a little behind the start.
LEMMA NumberFacts ==
    ASSUME NEW n \in Nodes, start_time[n] \in Nat, NEW c \in Nat, start_time[n] - c < window_size
    PROVE  /\ Number(n, c) \in Nat
           /\ current_window(n, c) = Number(n, c) % num_windows
           /\ WindowStart(n, c) = start_time[n] + window_size * Number(n, c)
           /\ start_time[n] <= c => Within(c, start_time[n], Number(n, c))
           /\ c < start_time[n] => Number(n, c) = 0
<1> DEFINE diff == c - start_time[n]
           q == Number(n, c)
<1>1. window_size \in Nat \ {0} /\ num_windows \in Nat \ {0} /\ diff \in Int
  BY WindowsAssumption
<1>2. CASE diff >= 0
  <2>1. diff \in Nat
    BY <1>1, <1>2
  <2>2. /\ diff \div window_size \in Nat /\ (diff % window_size) \in 0 .. window_size - 1
        /\ diff = window_size * (diff \div window_size) + (diff % window_size)
    BY <1>1, <2>1, DivMod, Zenon
  <2>3. q = diff \div window_size /\ WindowStart(n, c) = c - (diff % window_size)
    BY <1>2, Zenon DEF Number, CDiv, WindowStart, CMod
  <2>4. current_window(n, c) = q % num_windows
    BY <2>2, <2>3 DEF current_window, Number, CMod
  <2>5. window_size * (diff \div window_size) \in Nat
    BY <1>1, <2>2, SMTT(20)
  <2>6. ASSUME NEW m \in Nat, NEW r \in 0 .. window_size - 1, diff = m + r
        PROVE  c - r = start_time[n] + m /\ start_time[n] + m <= c /\ c < start_time[n] + m + window_size
    BY <1>1, <2>6
  <2>7. c - (diff % window_size) = start_time[n] + window_size * (diff \div window_size)
        /\ Within(c, start_time[n], diff \div window_size)
    BY <2>2, <2>5, <2>6, Zenon DEF Within
  <2>8. ~(c < start_time[n])
    BY <1>2
  <2> QED BY <2>2, <2>3, <2>4, <2>7, <2>8, Zenon
<1>3. CASE diff < 0
  <2>1. -diff \in Nat /\ -diff \in 0 .. window_size - 1
    BY <1>1, <1>3
  <2>2. (-diff) \div window_size = 0 /\ (-diff) % window_size = -diff
    BY <1>1, <2>1
  <2>3. q = 0
    BY <1>3, <2>2 DEF Number, CDiv
  <2>4. CMod(diff, window_size) = diff
    BY <1>1, <1>3, <2>2 DEF CMod
  <2>5. WindowStart(n, c) = start_time[n]
    BY <1>1, <2>4 DEF WindowStart
  <2>6. current_window(n, c) = q % num_windows
    BY <2>3 DEF current_window, Number, CMod
  <2> QED BY <1>1, <1>3, <2>3, <2>5, <2>6
<1> QED BY <1>1, <1>2, <1>3

\* Seconds later the number is not much larger.
LEMMA NumberGrows ==
    ASSUME NEW n \in Nodes, start_time[n] \in Nat, NEW c \in Nat, NEW e \in Nat, c <= e, e - c <= MaxDelay,
           start_time[n] - c < window_size
    PROVE  \E k \in 0 .. MaxDelay : Number(n, e) = Number(n, c) + k
<1> DEFINE p == Number(n, c)
           q == Number(n, e)
<1>1. window_size \in Nat \ {0} /\ MaxDelay \in Nat /\ start_time[n] - e < window_size
  BY WindowsAssumption, ClockAssumption
<1>2. p \in Nat /\ q \in Nat
  BY <1>1, NumberFacts, Zenon
<1>3. CASE start_time[n] <= c
  <2>1. Within(c, start_time[n], p) /\ Within(e, start_time[n], q)
    BY <1>1, <1>3, NumberFacts
  <2> HIDE DEF p, q
  <2>2. window_size * p \in Int /\ window_size * q \in Int
    BY <1>1, <1>2
  <2>3. ~(q < p)
    <3>1. q < p => window_size * q + window_size <= window_size * p
      BY <1>1, <1>2, Multiples
    <3> QED BY <1>1, <2>1, <2>2, <3>1 DEF Within
  <2>4. window_size * (q - p) = window_size * q - window_size * p
    BY <1>1, <1>2
  <2>5. window_size * (q - p) < MaxDelay + window_size
    BY <1>1, <2>1, <2>2, <2>4 DEF Within
  <2>6. q - p <= MaxDelay
    <3>1. ASSUME NEW m \in Nat, m > MaxDelay PROVE window_size * m >= MaxDelay + window_size
      <4>1. PICK l \in Nat : m = l + 1
        <5>1. m - 1 \in Nat /\ m = (m - 1) + 1
          BY <1>1, <3>1
        <5> QED BY <5>1, Zenon
      <4>2. window_size * (l + 1) = window_size * l + window_size
        BY <1>1
      <4>3. window_size * l \in Nat /\ l <= window_size * l
        BY <1>1, AtLeast, Zenon
      <4> QED BY <1>1, <3>1, <4>1, <4>2, <4>3
    <3>2. q - p \in Nat
      BY <1>2, <2>3
    <3> QED BY <1>1, <2>5, <3>1, <3>2
  <2>7. q - p \in 0 .. MaxDelay /\ q = p + (q - p)
    BY <1>1, <1>2, <2>3, <2>6
  <2> QED BY <2>7, Zenon DEF p, q
<1>4. CASE c < start_time[n]
  <2>1. p = 0
    BY <1>1, <1>4, NumberFacts, Zenon
  <2>2. CASE start_time[n] <= e
    <3>1. Within(e, start_time[n], q)
      BY <1>1, <2>2, NumberFacts, Zenon
    <3> HIDE DEF p, q
    <3>2. window_size * q >= q
      BY <1>1, <1>2, AtLeast, Zenon
    <3>3. window_size * q \in Nat
      BY <1>1, <1>2
    <3>4. q \in 0 .. MaxDelay /\ q = p + q
      BY <1>1, <1>2, <1>4, <2>1, <3>1, <3>2, <3>3 DEF Within
    <3> QED BY <3>4, Zenon DEF p, q
  <2>3. CASE e < start_time[n]
    <3>1. q = 0
      BY <1>1, <2>3, NumberFacts, Zenon
    <3>2. 0 \in 0 .. MaxDelay /\ q = p + 0
      BY <1>1, <2>1, <3>1
    <3> QED BY <3>2, Zenon
  <2> QED BY <1>1, <2>2, <2>3
<1> QED BY <1>3, <1>4

-----------------------------------------------------------------------------
(***************************************************************************)
(* What the slots of a ring hold.                                          *)
(***************************************************************************)

\* All clocks agree, no second begins within a call, and reads do not write.
Exact == FieldType # "hll" /\ MaxDelay = 0 /\ MaxSkew = 0

\* The present window of a node whose clock is exact.
LEMMA ExactFacts ==
    ASSUME IInv, Exact, NEW n \in Nodes
    PROVE  /\ now \in Nat /\ start_time[n] \in Nat /\ start_time[n] <= now /\ Clock(n, now) = now
           /\ window_size \in Nat \ {0} /\ num_windows \in Nat \ {0}
           /\ Number(n, now) \in Nat /\ current_window(n, now) = Number(n, now) % num_windows
           /\ Within(now, start_time[n], Number(n, now))
<1>1. now \in Nat /\ start_time[n] \in Nat /\ start_time[n] <= now + MaxSkew
  BY Zenon DEF IInv, TypeOK
<1>2. MaxSkew = 0 /\ Skew[n] \in 0 .. MaxSkew /\ window_size \in Nat \ {0} /\ num_windows \in Nat \ {0}
  BY ClockAssumption, WindowsAssumption, Zenon DEF Exact
<1>3. Skew[n] = 0
  BY <1>2, SMT
<1>4. start_time[n] <= now /\ now + Skew[n] = now /\ start_time[n] - now < window_size
  BY <1>1, <1>2, <1>3, SMT
<1> QED BY <1>1, <1>2, <1>4, NumberFacts, Zenon DEF Clock

\* At time t, slot i of a ring that begins at start holds window q: its timestamp
\* and its place say so, and what is in it was written in this window or, while
\* the slot was not cleaned, one turn of the ring later.
Holds(slot, i, start, q, t) ==
    /\ slot.first = start + window_size * q
    /\ \E k \in 0 .. MaxDelay : q % num_windows = (i + k) % num_windows
    /\ Exact => \A d \in slot.member :
                    d <= t /\ (Within(d, start, q) \/ Within(d, start, q + num_windows))

Kept(array, start, t) ==
    \A i \in Windows : array[i].first # 0 => \E q \in Nat : Holds(array[i], i, start, q, t)

RingInv ==
    /\ \A n \in Nodes : Kept(stats_array[n], start_time[n], now)
    /\ \A d \in wire : Kept(d.array, d.start, now)

\* Time that passes moves no slot.
LEMMA KeptLater ==
    ASSUME NEW array \in [Windows -> Slot], NEW start \in Nat, NEW t \in Nat, NEW u \in Nat, t <= u,
           Kept(array, start, t)
    PROVE  Kept(array, start, u)
<1> SUFFICES ASSUME NEW i \in Windows, array[i].first # 0
             PROVE  \E q \in Nat : Holds(array[i], i, start, q, u)
  BY Zenon DEF Kept
<1>1. PICK q \in Nat : Holds(array[i], i, start, q, t)
  BY Zenon DEF Kept
<1>2. \A d \in array[i].member : d \in Nat
  BY Zenon DEF Slot
<1>3. \A d \in array[i].member : d <= t => d <= u
  BY <1>2
<1>4. Holds(array[i], i, start, q, u)
  BY <1>1, <1>3, Zenon DEF Holds
<1> QED BY <1>4, Zenon

\* clean_windows empties slots and changes no other.
LEMMA CleanedKept ==
    ASSUME NEW n \in Nodes, NEW start, NEW t, NEW c, stats_array[n] \in [Windows -> Slot],
           Kept(stats_array[n], start, t)
    PROVE  Kept(CleanedArray(n, c), start, t)
<1>1. CASE ~NeedsCleaning(n, c)
  BY <1>1, Zenon DEF CleanedArray
<1>2. CASE NeedsCleaning(n, c)
  <2>1. CleanedArray(n, c) = [i \in Windows |-> CleanSlot(stats_array[n][i], c)]
    BY <1>2, Zenon DEF CleanedArray
  <2>2. SUFFICES ASSUME NEW i \in Windows, CleanSlot(stats_array[n][i], c).first # 0
                 PROVE  \E q \in Nat : Holds(CleanSlot(stats_array[n][i], c), i, start, q, t)
    BY <2>1, Zenon DEF Kept
  <2>3. CleanSlot(stats_array[n][i], c) = stats_array[n][i]
    BY <2>2, Zenon DEF CleanSlot, EmptySlot
  <2> QED BY <2>2, <2>3, Zenon DEF Kept
<1> QED BY <1>1, <1>2, Zenon

\* A method call keeps the rings if it keeps the ring it uses.
LEMMA UseKeepsKept ==
    ASSUME IInv, RingInv, NEW n \in Nodes, NEW t \in Nat, now <= t, NEW array,
           Kept(array, start_time[n], t), Use(n, t, array)
    PROVE  RingInv'
<1>1. now \in Nat /\ now' = t /\ start_time' = start_time /\ wire' = wire
      /\ stats_array' = [stats_array EXCEPT ![n] = array]
      /\ stats_array \in [Nodes -> [Windows -> Slot]] /\ start_time \in [Nodes -> Nat]
      /\ wire \in SUBSET [start : Nat, array : [Windows -> Slot]]
  BY Zenon DEF IInv, TypeOK, Use
<1>2. ASSUME NEW m \in Nodes PROVE Kept(stats_array'[m], start_time'[m], now')
  <2>1. CASE m = n
    BY <1>1, <2>1, Zenon
  <2>2. CASE m # n
    <3>1. stats_array'[m] = stats_array[m] /\ stats_array[m] \in [Windows -> Slot] /\ start_time[m] \in Nat
      BY <1>1, <2>2, Zenon
    <3>2. Kept(stats_array[m], start_time[m], now)
      BY Zenon DEF RingInv
    <3> QED BY <1>1, <3>1, <3>2, KeptLater, Zenon
  <2> QED BY <2>1, <2>2, Zenon
<1>3. ASSUME NEW d \in wire' PROVE Kept(d.array, d.start, now')
  <2>1. d.array \in [Windows -> Slot] /\ d.start \in Nat /\ Kept(d.array, d.start, now)
    BY <1>1, Zenon DEF RingInv
  <2> QED BY <1>1, <2>1, KeptLater, Zenon
<1> QED BY <1>2, <1>3, Zenon DEF RingInv

\* When the clocks agree, a slot that is left after cleaning holds a window of
\* the last turn of the ring.
LEMMA LastTurn ==
    ASSUME IInv, Exact, NEW n \in Nodes, NEW i \in Windows, NEW q \in Nat,
           CleanedArray(n, Clock(n, now))[i].first # 0,
           CleanedArray(n, Clock(n, now))[i].first = start_time[n] + window_size * q
    PROVE  q <= Number(n, now) /\ Number(n, now) - q <= num_windows
<1> DEFINE first == CleanedArray(n, Clock(n, now))[i].first
           last == LastCleaned(n, Clock(n, now))
           start == start_time[n]
           p == Number(n, now)
<1>1. now \in Nat /\ start \in Nat /\ start <= now /\ Clock(n, now) = now
      /\ window_size \in Nat \ {0} /\ num_windows \in Nat \ {0}
  BY ExactFacts, Zenon
<1>2. p \in Nat /\ Within(now, start, p)
  BY ExactFacts, Zenon
<1>3. /\ first \in Nat /\ last \in Nat /\ now - last < window_size
      /\ first <= now /\ last - first < ExpireDiff
  <2>1. Clock(n, now) \in Nat
    BY <1>1, Zenon
  <2>2. CleanedArray(n, Clock(n, now)) \in [Windows -> Slot] /\ ArrayInv(CleanedArray(n, Clock(n, now)), now)
        /\ CleanInv(CleanedArray(n, Clock(n, now)), last)
        /\ last \in Nat /\ Clock(n, now) - last < window_size
    BY <2>1, Cleaning, Zenon
  <2>3. first \in Nat /\ SlotInv(CleanedArray(n, Clock(n, now))[i], now)
    BY <2>2, Zenon DEF ArrayInv, Slot
  <2>4. first <= now
    BY <1>1, <2>3 DEF SlotInv, Exact
  <2> QED BY <1>1, <2>2, <2>3, <2>4, Zenon DEF CleanInv
<1>4. first = start + window_size * q
  BY Zenon
<1> HIDE DEF first, last, p, start
<1>5. window_size * p \in Int /\ window_size * q \in Int
  BY <1>1, <1>2
<1>6. ~(p < q)
  <2>1. p < q => window_size * p + window_size <= window_size * q
    BY <1>1, <1>2, Multiples
  <2> QED BY <1>1, <1>2, <1>3, <1>4, <1>5, <2>1 DEF Within
<1>7. ~(q + num_windows < p)
  <2>1. q + num_windows < p => window_size * (q + num_windows) + window_size <= window_size * p
    BY <1>1, <1>2, Multiples
  <2>2. window_size * (q + num_windows) = window_size * q + window_size * num_windows
    BY <1>1
  <2>3. ExpireDiff = window_size * num_windows /\ ExpireDiff \in Nat
    BY ExpireDiffType, Zenon DEF ExpireDiff
  <2> QED BY <1>1, <1>2, <1>3, <1>4, <1>5, <2>1, <2>2, <2>3 DEF Within
<1>8. p \in Nat /\ p >= q /\ p - q <= num_windows
  BY <1>1, <1>2, <1>6, <1>7
<1> QED BY <1>8, Zenon DEF p

\* Slots are counted on around the ring.
LEMMA SlotPlus ==
    ASSUME NEW q \in Nat, NEW k \in Nat
    PROVE  (q + k) % num_windows = ((q % num_windows) + k) % num_windows
<1>1. num_windows \in Nat \ {0}
  BY WindowsAssumption, Zenon
<1>2. q \div num_windows \in Nat /\ (q % num_windows) \in Nat
      /\ q = num_windows * (q \div num_windows) + (q % num_windows)
  BY <1>1, DivMod, Zenon
<1>3. ASSUME NEW m \in Nat, NEW r \in Nat, q = num_windows * m + r
      PROVE  (q + k) % num_windows = (r + k) % num_windows
  <2>1. num_windows * m \in Nat /\ r + k \in Nat
    BY <1>1
  <2>2. q + k = num_windows * m + (r + k)
    BY <1>3, <2>1
  <2>3. (num_windows * m + (r + k)) % num_windows = (r + k) % num_windows
    BY <1>1, <2>1, ModShift, Zenon
  <2> QED BY <2>2, <2>3, Zenon
<1> QED BY <1>2, <1>3, Zenon

\* The slot that holds window q of the last turn is the slot of the present window
\* only if q is the present window or the one a turn before.
LEMMA PresentSlot ==
    ASSUME IInv, Exact, NEW n \in Nodes, NEW q \in Nat, NEW t,
           CleanedArray(n, Clock(n, now))[current_window(n, now)].first # 0,
           Holds(CleanedArray(n, Clock(n, now))[current_window(n, now)], current_window(n, now), start_time[n], q, t)
    PROVE  q = Number(n, now) \/ q = Number(n, now) - num_windows
<1> DEFINE p == Number(n, now)
           cur == current_window(n, now)
<1>1. now \in Nat /\ start_time[n] \in Nat /\ start_time[n] <= now
      /\ num_windows \in Nat \ {0} /\ window_size \in Nat \ {0}
  BY ExactFacts, Zenon
<1>2. p \in Nat /\ cur = p % num_windows
  BY ExactFacts, Zenon
<1>3. cur \in Windows
  BY <1>1, <1>2, ModBounds, Zenon DEF Windows
<1>4. q <= p /\ p - q <= num_windows
  BY <1>3, LastTurn, Zenon DEF Holds
<1>5. q % num_windows = (cur + 0) % num_windows
  BY DEF Holds, Exact
<1>6. (cur + 0) % num_windows = cur
  BY <1>1, <1>3 DEF Windows
<1> HIDE DEF p, cur
<1>7. q % num_windows = p % num_windows
  BY <1>2, <1>5, <1>6, Zenon
<1>8. q = p \/ q = p - num_windows
  BY <1>1, <1>2, <1>4, <1>7, SameSlot, Zenon
<1> QED BY <1>8, Zenon DEF p

\* add and sub write into the slot of the window that the clock is in.
LEMMA AddKeepsKept == ASSUME IInv, RingInv, NEW n \in Nodes, Add(n) PROVE RingInv'
<1>1. PICK t2 \in NextRead(now) : \E t3 \in NextRead(t2) : \E data \in {{}, {t2}} :
        LET array == CleanedArray(n, Clock(n, now))
            cur == current_window(n, Clock(n, t2))
            written == [array[cur] EXCEPT !.member = @ \union data]
        IN Use(n, t3, [array EXCEPT ![cur] = Stamped(n, written, Clock(n, t3))])
  BY Zenon DEF Add
<1> DEFINE array == CleanedArray(n, Clock(n, now))
           c2 == Clock(n, t2)
           cur == current_window(n, c2)
           start == start_time[n]
<1>2. PICK t3 \in NextRead(t2), data \in {{}, {t2}} :
        Use(n, t3, [array EXCEPT ![cur] =
                Stamped(n, [array[cur] EXCEPT !.member = @ \union data], Clock(n, t3))])
  BY <1>1, Zenon
<1> DEFINE written == [array[cur] EXCEPT !.member = @ \union data]
           c3 == Clock(n, t3)
           stamped == Stamped(n, written, c3)
           after == [array EXCEPT ![cur] = stamped]
<1>3. /\ now \in Nat /\ t2 \in Nat /\ now <= t2 /\ cur \in Windows /\ c2 \in Nat
      /\ start \in Nat /\ start <= now + MaxSkew /\ Clock(n, now) \in Nat
      /\ start - c2 < window_size
  BY ClockFacts, Zenon
<1>4. /\ t3 \in Nat /\ t2 <= t3 /\ c3 \in Nat /\ c2 <= c3 /\ c3 - c2 <= MaxDelay
      /\ start - c3 < window_size
  BY <1>3, ClockAssumption, WindowsAssumption DEF NextRead, Clock
<1>5. array \in [Windows -> Slot] /\ ArrayInv(array, now)
  BY <1>3, Cleaning, Zenon
<1>6. Kept(array, start, t3)
  <2>1. Kept(array, start, now)
    BY CleanedKept, Zenon DEF RingInv, IInv, TypeOK
  <2> QED BY <1>3, <1>4, <1>5, <2>1, KeptLater, Zenon
<1>7. written \in Slot /\ written.first = array[cur].first
      /\ written.member = array[cur].member \union data
  BY <1>3, <1>5, Zenon DEF Slot
<1>8. WindowStart(n, c3) \in Nat /\ WindowStart(n, c3) = start + window_size * Number(n, c3)
      /\ Number(n, c3) \in Nat
  <2>1. WindowStart(n, c3) = start + window_size * Number(n, c3) /\ Number(n, c3) \in Nat
    BY <1>3, <1>4, NumberFacts, Zenon
  <2>2. window_size * Number(n, c3) \in Nat
    BY <2>1, WindowsAssumption
  <2> QED BY <1>3, <2>1, <2>2
<1>9. stamped.member = array[cur].member \union data
      /\ stamped.first = IF array[cur].first = 0 THEN WindowStart(n, c3) ELSE array[cur].first
  BY <1>7, <1>8, Zenon DEF Stamped, Slot
<1>10. Exact => t2 = now /\ t3 = now /\ c2 = now /\ c3 = now /\ start <= now
  BY <1>3, <1>4, ClockAssumption DEF NextRead, Exact, Clock
<1>11. Exact => Number(n, now) \in Nat /\ Within(now, start, Number(n, now))
  BY <1>3, <1>10, NumberFacts, WindowsAssumption, Zenon
<1>12. \E q \in Nat : Holds(stamped, cur, start, q, t3)
  <2>1. CASE array[cur].first = 0
    <3> DEFINE q == Number(n, c3)
    <3>1. \E k \in 0 .. MaxDelay : q % num_windows = (cur + k) % num_windows
      <4>1. PICK k \in 0 .. MaxDelay : q = Number(n, c2) + k
        BY <1>3, <1>4, NumberGrows
      <4>2. cur = Number(n, c2) % num_windows /\ Number(n, c2) \in Nat /\ k \in Nat
        BY <1>3, NumberFacts, ClockAssumption
      <4> HIDE DEF q, cur
      <4>3. q % num_windows = (cur + k) % num_windows
        BY <4>1, <4>2, SlotPlus, Zenon
      <4> QED BY <4>3, Zenon
    <3>2. Exact => \A d \in stamped.member : d <= t3 /\ Within(d, start, q)
      <4>1. SlotInv(array[cur], now)
        BY <1>3, <1>5, Zenon DEF ArrayInv
      <4>2. Exact => stamped.member \subseteq {now}
        <5>1. Exact => array[cur].member = {}
          BY <2>1, <4>1, Zenon DEF SlotInv, Exact
        <5>2. Exact => data \subseteq {now}
          BY <1>10, Zenon
        <5> QED BY <1>9, <5>1, <5>2, Zenon
      <4>3. Exact => now <= t3 /\ Within(now, start, q)
        BY <1>3, <1>10, <1>11, Zenon
      <4> QED BY <4>2, <4>3, Zenon
    <3>3. stamped.first = start + window_size * q
      BY <1>8, <1>9, <2>1, Zenon
    <3> HIDE DEF q, stamped, start, cur
    <3>4. Holds(stamped, cur, start, q, t3)
      BY <3>1, <3>2, <3>3, Zenon DEF Holds
    <3>5. q \in Nat
      BY <1>8, Zenon DEF q
    <3> QED BY <3>4, <3>5, Zenon
  <2>2. CASE array[cur].first # 0
    <3>1. PICK q \in Nat : Holds(array[cur], cur, start, q, t3)
      BY <1>3, <1>6, <2>2, Zenon DEF Kept
    <3>2. ASSUME Exact, t2 \in data
          PROVE  t2 <= t3 /\ (Within(t2, start, q) \/ Within(t2, start, q + num_windows))
      <4>1. q = Number(n, now) \/ q = Number(n, now) - num_windows
        BY <1>10, <2>2, <3>1, <3>2, PresentSlot, Zenon
      <4>2. q = Number(n, now) \/ q + num_windows = Number(n, now)
        BY <1>11, <3>2, <4>1, WindowsAssumption
      <4> QED BY <1>4, <1>10, <1>11, <3>2, <4>2, Zenon
    <3>3. \A d \in stamped.member : d \in array[cur].member \/ (d = t2 /\ t2 \in data)
      BY <1>9, Zenon
    <3>4. stamped.first = array[cur].first
      BY <1>9, <2>2, Zenon
    <3> HIDE DEF stamped, array, cur, start
    <3>5. Holds(stamped, cur, start, q, t3)
      BY <3>1, <3>2, <3>3, <3>4, Zenon DEF Holds
    <3> QED BY <3>5, Zenon
  <2> QED BY <2>1, <2>2, Zenon
<1>13. Kept(after, start, t3)
  <2>1. after[cur] = stamped /\ \A i \in Windows : i # cur => after[i] = array[i]
    BY <1>3, <1>5, Zenon
  <2> HIDE DEF after, stamped, cur, array, start
  <2> QED BY <1>6, <1>12, <2>1, Zenon DEF Kept
<1>14. Use(n, t3, after)
  BY <1>2, Zenon
<1>15. now <= t3
  BY <1>3, <1>4
<1> HIDE DEF after
<1> QED BY <1>4, <1>13, <1>14, <1>15, UseKeepsKept, Zenon

\* Calls that write nothing leave the slots that cleaning leaves.
LEMMA ReadKeepsKept ==
    ASSUME IInv, RingInv, NEW n \in Nodes,
           AddThrows(n) \/ Get(n) \/ \E all \in BOOLEAN : GetValue(n, all)
    PROVE  RingInv'
<1> DEFINE array == CleanedArray(n, Clock(n, now))
<1>1. array \in [Windows -> Slot]
  <2>1. now \in Nat /\ Skew[n] \in 0 .. MaxSkew /\ MaxSkew \in Nat
    BY ClockAssumption, Zenon DEF IInv, TypeOK
  <2>2. Clock(n, now) \in Nat
    BY <2>1, SMT DEF Clock
  <2> QED BY <2>2, Cleaning, Zenon
<1>2. ASSUME NEW t \in NextRead(now) PROVE t \in Nat /\ now <= t /\ Kept(array, start_time[n], t)
  <2>1. t \in Nat /\ now \in Nat /\ now <= t /\ start_time[n] \in Nat
    BY ClockFacts, Zenon
  <2>2. Kept(array, start_time[n], now)
    BY CleanedKept, Zenon DEF RingInv, IInv, TypeOK
  <2> QED BY <1>1, <2>1, <2>2, KeptLater, Zenon
<1>3. CASE AddThrows(n)
  <2>1. PICK t \in NextRead(now) : Use(n, t, array)
    BY <1>3, Zenon DEF AddThrows
  <2> QED BY <1>2, <2>1, UseKeepsKept, Zenon
<1>4. CASE Get(n)
  <2>1. PICK t \in NextRead(now) : Use(n, t, array)
    BY <1>4, Zenon DEF Get
  <2> QED BY <1>2, <2>1, UseKeepsKept, Zenon
<1>5. ASSUME NEW all \in BOOLEAN, GetValue(n, all) PROVE RingInv'
  <2> DEFINE after(t) == [i \in Windows |->
                            IF FieldType = "hll" /\ i \in (IF all THEN Windows ELSE {current_window(n, Clock(n, t))})
                            THEN [array[i] EXCEPT !.member = @ \union {t}]
                            ELSE array[i]]
  <2>1. PICK t \in NextRead(now) : Use(n, t, after(t))
    BY <1>5, Zenon DEF GetValue
  <2> DEFINE ring == after(t)
  <2> HIDE DEF array
  <2>2. \A i \in Windows : ring[i].first = array[i].first /\ (FieldType # "hll" => ring[i].member = array[i].member)
    BY <1>1, Zenon DEF Slot
  <2>3. Use(n, t, ring)
    BY <2>1, Zenon
  <2> HIDE DEF ring
  <2>4. Kept(ring, start_time[n], t)
    <3> SUFFICES ASSUME NEW i \in Windows, ring[i].first # 0
                 PROVE  \E q \in Nat : Holds(ring[i], i, start_time[n], q, t)
      BY Zenon DEF Kept
    <3>1. PICK q \in Nat : Holds(array[i], i, start_time[n], q, t)
      BY <1>2, <2>2, Zenon DEF Kept
    <3>2. Holds(ring[i], i, start_time[n], q, t)
      BY <2>2, <3>1, Zenon DEF Holds, Exact
    <3> QED BY <3>2, Zenon
  <2> QED BY <1>2, <2>3, <2>4, UseKeepsKept, Zenon
<1> QED BY <1>3, <1>4, <1>5, Zenon

\* reset empties the slots; dump and restore move them with their start time.
LEMMA MoveKeepsKept ==
    ASSUME IInv, RingInv, NEW n \in Nodes, Reset(n) \/ Dump(n) \/ Restore(n)
    PROVE  RingInv'
<1>1. stats_array \in [Nodes -> [Windows -> Slot]] /\ start_time \in [Nodes -> Nat]
  BY Zenon DEF IInv, TypeOK
<1>2. CASE Reset(n)
  <2>1. Kept([i \in Windows |-> EmptySlot], start_time[n], now)
    BY Zenon DEF Kept, EmptySlot
  <2> QED BY <1>1, <1>2, <2>1, Zenon DEF Reset, RingInv
<1>3. CASE Dump(n)
  <2>1. stats_array' = stats_array /\ start_time' = start_time /\ now' = now
        /\ wire' = {[start |-> start_time[n], array |-> stats_array[n]]}
    BY <1>3, Zenon DEF Dump
  <2>2. \A d \in wire' : d.start = start_time[n] /\ d.array = stats_array[n]
    BY <2>1, SMT
  <2>3. \A d \in wire' : Kept(d.array, d.start, now)
    BY <2>2, Zenon DEF RingInv
  <2> QED BY <2>1, <2>3, Zenon DEF RingInv
<1>4. CASE Restore(n)
  <2>1. PICK d \in wire : /\ stats_array' = [stats_array EXCEPT ![n] = d.array]
                          /\ start_time' = [start_time EXCEPT ![n] = d.start]
                          /\ wire' = wire \ {d}
                          /\ now' = now
    BY <1>4, Zenon DEF Restore
  <2>2. Kept(d.array, d.start, now)
    BY Zenon DEF RingInv
  <2> QED BY <1>1, <2>1, <2>2, Zenon DEF RingInv
<1> QED BY <1>2, <1>3, <1>4, Zenon

\* Every step keeps the rings.
LEMMA NextKeepsKept == IInv /\ RingInv /\ [Next]_vars => RingInv'
<1> SUFFICES ASSUME IInv, RingInv, [Next]_vars PROVE RingInv'
  BY Zenon
<1>1. CASE Tick
  <2>1. /\ now \in Nat /\ now' = now + 1 /\ UNCHANGED <<stats_array, start_time, wire>>
        /\ stats_array \in [Nodes -> [Windows -> Slot]] /\ start_time \in [Nodes -> Nat]
        /\ wire \in SUBSET [start : Nat, array : [Windows -> Slot]]
    BY <1>1, Zenon DEF Tick, IInv, TypeOK
  <2>2. ASSUME NEW n \in Nodes PROVE Kept(stats_array[n], start_time[n], now')
    BY <2>1, KeptLater DEF RingInv
  <2>3. ASSUME NEW d \in wire PROVE Kept(d.array, d.start, now')
    BY <2>1, KeptLater DEF RingInv
  <2> QED BY <2>1, <2>2, <2>3, Zenon DEF RingInv
<1>2. ASSUME NEW n \in Nodes, Add(n) PROVE RingInv'
  BY <1>2, AddKeepsKept, Zenon
<1>3. ASSUME NEW n \in Nodes, AddThrows(n) \/ Get(n) \/ \E all \in BOOLEAN : GetValue(n, all) PROVE RingInv'
  BY <1>3, ReadKeepsKept, Zenon
<1>4. ASSUME NEW n \in Nodes, Reset(n) \/ Dump(n) \/ Restore(n) PROVE RingInv'
  BY <1>4, MoveKeepsKept, Zenon
<1>5. CASE UNCHANGED vars
  BY <1>5, Zenon DEF vars, RingInv
<1> QED BY <1>1, <1>2, <1>3, <1>4, <1>5, Zenon DEF Next

\* What the invariant says of a slot is what SlotsHoldTheirWindow computes.
LEMMA KeptHolds == IInv /\ RingInv => SlotsHoldTheirWindow
<1> SUFFICES ASSUME IInv, RingInv, NEW n \in Nodes, NEW i \in Windows, stats_array[n][i].first # 0
             PROVE  /\ CMod(stats_array[n][i].first - start_time[n], window_size) = 0
                    /\ \E k \in 0 .. MaxDelay :
                         CMod(CDiv(stats_array[n][i].first - start_time[n], window_size), num_windows)
                           = (i + k) % num_windows
  BY Zenon DEF SlotsHoldTheirWindow
<1>1. PICK q \in Nat : Holds(stats_array[n][i], i, start_time[n], q, now)
  BY Zenon DEF RingInv, Kept
<1>2. start_time[n] \in Nat /\ window_size \in Nat \ {0}
  BY WindowsAssumption, Zenon DEF IInv, TypeOK
<1> DEFINE f == stats_array[n][i].first - start_time[n]
<1>3. f = window_size * q /\ f \in Nat
  <2>1. window_size * q \in Nat
    BY <1>2
  <2> QED BY <1>1, <1>2, <2>1 DEF Holds
<1> HIDE DEF f
<1>4. f = window_size * q + 0 /\ 0 \in 0 .. window_size - 1
  BY <1>2, <1>3
<1>5. f \div window_size = q /\ (f % window_size) = 0
  BY <1>2, <1>3, <1>4, DivIs, Zenon
<1>6. CMod(f, window_size) = 0 /\ CDiv(f, window_size) = q
  BY <1>3, <1>5 DEF CMod, CDiv
<1>7. CMod(q, num_windows) = q % num_windows
  BY DEF CMod
<1> QED BY <1>1, <1>6, <1>7, Zenon DEF f, Holds

\* Init leaves no slot written.
LEMMA InitKept == Init => RingInv
  BY DEF Init, RingInv, Kept, EmptySlot

\* For every number and size of windows and every clock difference below a window,
\* through cleaning, dump and restore: a slot that was written is stamped with the
\* beginning of the window whose slot it is, or of one that began at most MaxDelay
\* windows later, between the two clock reads of add.
THEOREM EntrySlotsHold == Spec => []SlotsHoldTheirWindow
<1>1. Init => IInv /\ RingInv
  BY InitInv, InitKept, Zenon
<1>2. IInv /\ RingInv /\ [Next]_vars => (IInv /\ RingInv)'
  BY NextKeepsInv, NextKeepsKept, Zenon
<1> QED BY <1>1, <1>2, KeptHolds, PTL DEF Spec

-----------------------------------------------------------------------------
(***************************************************************************)
(* The order of get_windows.                                               *)
(***************************************************************************)

\* Windows with a larger number are later.
LEMMA WindowOrder ==
    ASSUME NEW start \in Nat, NEW p \in Int, NEW q \in Int, p < q, NEW d \in Int, NEW e \in Int,
           start + window_size * q <= d, e < start + window_size * p + window_size
    PROVE  e < d
<1>1. window_size \in Nat \ {0}
  BY WindowsAssumption, Zenon
<1>2. window_size * p \in Int /\ window_size * q \in Int /\ window_size * p + window_size <= window_size * q
  BY <1>1, Multiples, Zenon
<1> QED BY <1>1, <1>2

\* What get_windows finds at a position: at the first what was written in the
\* present window or in the one a turn before, at position k what was written
\* k - 1 windows ago.
LEMMA PositionHolds ==
    ASSUME IInv, RingInv, Exact, NEW n \in Nodes, NEW k \in 1 .. num_windows,
           NEW d \in CleanedArray(n, Clock(n, now))[(current_window(n, now) + num_windows - k + 1) % num_windows].member
    PROVE  /\ d \in Nat
           /\ k # 1 => Within(d, start_time[n], Number(n, now) - k + 1)
           /\ k = 1 => \/ Within(d, start_time[n], Number(n, now))
                       \/ Within(d, start_time[n], Number(n, now) - num_windows)
<1> DEFINE p == Number(n, now)
           cur == current_window(n, now)
           i == (cur + num_windows - k + 1) % num_windows
           array == CleanedArray(n, Clock(n, now))
           start == start_time[n]
<1>1. now \in Nat /\ start \in Nat /\ start <= now /\ num_windows \in Nat \ {0} /\ window_size \in Nat \ {0}
  BY ExactFacts, Zenon
<1>2. p \in Nat /\ cur = p % num_windows /\ Within(now, start, p)
  BY ExactFacts, Zenon
<1>3. cur \in 0 .. num_windows - 1
  BY <1>1, <1>2, ModBounds, Zenon
<1>4. i \in Windows
  <2>1. cur + num_windows - k + 1 \in Nat
    BY <1>1, <1>3
  <2> QED BY <1>1, <2>1, ModBounds, Zenon DEF Windows
<1>5. array \in [Windows -> Slot] /\ ArrayInv(array, now) /\ Kept(array, start, now)
  <2>1. Clock(n, now) \in Nat
    BY <1>1, ClockAssumption DEF Clock
  <2>2. Kept(array, start, now)
    BY CleanedKept, Zenon DEF RingInv, IInv, TypeOK
  <2> QED BY <2>1, <2>2, Cleaning, Zenon
<1>6. d \in array[i].member /\ d \in Nat
  BY <1>4, <1>5, Zenon DEF Slot
<1>7. array[i].first # 0
  <2>1. SlotInv(array[i], now)
    BY <1>4, <1>5, Zenon DEF ArrayInv
  <2> QED BY <1>6, <2>1, Zenon DEF SlotInv, Exact
<1>8. PICK q \in Nat : Holds(array[i], i, start, q, now)
  BY <1>4, <1>5, <1>7, Zenon DEF Kept
<1>9. q <= p /\ p - q <= num_windows
  BY <1>4, <1>7, <1>8, LastTurn, Zenon DEF Holds
<1>10. q % num_windows = i
  <2>1. q % num_windows = (i + 0) % num_windows
    BY <1>8 DEF Holds, Exact
  <2> HIDE DEF i
  <2>2. (i + 0) % num_windows = i
    BY <1>1, <1>4 DEF Windows
  <2> QED BY <2>1, <2>2, Zenon
<1>11. d <= now /\ (Within(d, start, q) \/ Within(d, start, q + num_windows))
  BY <1>6, <1>8, Zenon DEF Holds
<1>12. ~(p < q + num_windows /\ Within(d, start, q + num_windows))
  <2> HIDE DEF p, start
  <2> SUFFICES ASSUME p < q + num_windows, Within(d, start, q + num_windows) PROVE FALSE
    BY Zenon
  <2>1. q + num_windows \in Int /\ p \in Int /\ start + window_size * (q + num_windows) <= d
        /\ now < start + window_size * p + window_size
    BY <1>1, <1>2 DEF Within
  <2>2. now < d
    BY <1>1, <1>6, <2>1, WindowOrder
  <2> QED BY <1>1, <1>6, <1>11, <2>2
<1>13. CASE k # 1
  <2>1. q = p - k + 1
    <3>1. k \in 2 .. num_windows
      BY <1>1, <1>13
    <3>2. q % num_windows = ((p % num_windows) + num_windows - k + 1) % num_windows
      BY <1>2, <1>10, Zenon
    <3>3. p \in Nat /\ q \in Nat /\ q <= p /\ p - q <= num_windows /\ num_windows \in Nat \ {0}
      BY <1>1, <1>2, <1>9, Zenon
    <3> HIDE DEF p, cur, i, array, start
    <3> QED BY <3>1, <3>2, <3>3, SlotAt, ZenonT(30)
  <2>2. p < q + num_windows
    BY <1>1, <1>2, <1>13, <2>1
  <2> QED BY <1>6, <1>11, <1>12, <1>13, <2>1, <2>2, Zenon
<1>14. CASE k = 1
  <2>1. q = p \/ q = p - num_windows
    <3>1. i = cur
      <4>1. cur + num_windows - k + 1 = num_windows * 1 + cur
        BY <1>1, <1>3, <1>14
      <4>2. 1 \in Nat /\ num_windows * 1 + cur \in Nat
        BY <1>1, <1>3
      <4> HIDE DEF cur
      <4>3. (num_windows * 1 + cur) % num_windows = cur
        BY <1>1, <1>3, <4>2, DivIs, Zenon
      <4> QED BY <4>1, <4>3, Zenon
    <3> QED BY <1>7, <1>8, <3>1, PresentSlot, Zenon
  <2>2. CASE q = p
    <3>1. p < q + num_windows
      BY <1>1, <1>2, <2>2
    <3> QED BY <1>6, <1>11, <1>12, <1>14, <2>2, <3>1, Zenon
  <2>3. CASE q = p - num_windows
    <3>1. q + num_windows = p
      BY <1>1, <1>2, <2>3
    <3> QED BY <1>6, <1>11, <1>14, <2>3, <3>1, Zenon
  <2> QED BY <2>1, <2>2, <2>3, Zenon
<1> QED BY <1>13, <1>14, Zenon

\* The windows of a read are in order.
LEMMA ReadInOrder ==
    ASSUME IInv, RingInv, Exact, NEW n \in Nodes, NEW windows,
           windows = <<>> \/ windows = InWindowOrder(CleanedArray(n, Clock(n, now)), current_window(n, now)),
           NEW j \in DOMAIN windows, NEW k \in DOMAIN windows, j < k, NEW d \in windows[j], NEW e \in windows[k]
    PROVE  d > e \/ (j = 1 /\ now - d > ExpireDiff - window_size)
<1> DEFINE p == Number(n, now)
           start == start_time[n]
           At(l) == CleanedArray(n, Clock(n, now))[(current_window(n, now) + num_windows - l + 1) % num_windows]
<1>1. now \in Nat /\ start \in Nat /\ start <= now /\ num_windows \in Nat \ {0} /\ window_size \in Nat \ {0}
  BY ExactFacts, Zenon
<1>2. p \in Nat /\ Within(now, start, p)
  BY ExactFacts, Zenon
<1>3. windows = [l \in 1 .. num_windows |-> At(l).member]
  BY DEF InWindowOrder
<1>4. j \in 1 .. num_windows /\ k \in 1 .. num_windows /\ d \in At(j).member /\ e \in At(k).member
  BY <1>3, Zenon
<1>5. k # 1
  BY <1>1, <1>4
<1>6. e \in Nat /\ Within(e, start, p - k + 1)
  BY <1>4, <1>5, PositionHolds, Zenon
<1>7. /\ d \in Nat /\ (j # 1 => Within(d, start, p - j + 1))
      /\ (j = 1 => Within(d, start, p) \/ Within(d, start, p - num_windows))
  BY <1>4, PositionHolds, Zenon
<1> HIDE DEF p, start
<1>8. ASSUME NEW m \in Int, p - k + 1 < m, Within(d, start, m) PROVE d > e
  <2>1. p - k + 1 \in Int /\ start + window_size * m <= d /\ e < start + window_size * (p - k + 1) + window_size
    BY <1>1, <1>2, <1>4, <1>6, <1>8 DEF Within
  <2>2. d \in Int /\ e \in Int /\ start \in Nat
    BY <1>1, <1>6, <1>7
  <2>3. e < d
    BY <1>8, <2>1, <2>2, WindowOrder, Zenon
  <2> QED BY <2>2, <2>3, Zenon
<1>9. CASE j # 1
  BY <1>1, <1>2, <1>4, <1>7, <1>8, <1>9
<1>10. CASE j = 1 /\ Within(d, start, p)
  BY <1>1, <1>2, <1>4, <1>8, <1>10
<1>11. CASE j = 1 /\ Within(d, start, p - num_windows)
  <2>1. window_size * (p - num_windows) = window_size * p - window_size * num_windows
        /\ window_size * p \in Int /\ window_size * num_windows \in Int
    BY <1>1, <1>2
  <2>2. now - d > ExpireDiff - window_size
    BY <1>1, <1>2, <1>7, <1>11, <2>1 DEF Within, ExpireDiff
  <2> QED BY <1>11, <2>2, Zenon
<1> QED BY <1>7, <1>9, <1>10, <1>11, Zenon

\* Every step leaves a result in order.
LEMMA NextInOrder == IInv /\ RingInv /\ WindowsNewestFirst /\ [Next]_vars => WindowsNewestFirst'
<1> SUFFICES ASSUME IInv, RingInv, WindowsNewestFirst, [Next]_vars, Exact
             PROVE  \A j, k \in DOMAIN result'.windows :
                      j < k => \A d \in result'.windows[j], e \in result'.windows[k] :
                        d > e \/ (j = 1 /\ result'.at - d > ExpireDiff - window_size)
  BY Zenon DEF WindowsNewestFirst, Exact
<1>1. CASE result' = NoResult
  BY <1>1 DEF NoResult
<1>2. ASSUME NEW n \in Nodes, NEW t \in NextRead(now) PROVE t = now /\ Clock(n, t) = now
  BY <1>2, ClockAssumption DEF IInv, TypeOK, NextRead, Exact, Clock
<1>3. ASSUME NEW n \in Nodes, Get(n)
      PROVE  result'.at = now
             /\ result'.windows = InWindowOrder(CleanedArray(n, Clock(n, now)), current_window(n, now))
  <2>1. PICK t \in NextRead(now) : result'.at = t
          /\ result'.windows = InWindowOrder(CleanedArray(n, Clock(n, now)), current_window(n, Clock(n, t)))
    BY <1>3 DEF Get
  <2> QED BY <1>2, <2>1, Zenon
<1>4. ASSUME NEW n \in Nodes, NEW all \in BOOLEAN, GetValue(n, all)
      PROVE  result'.at = now
             /\ (result'.windows = <<>>
                 \/ result'.windows = InWindowOrder(CleanedArray(n, Clock(n, now)), current_window(n, now)))
  <2> DEFINE array == CleanedArray(n, Clock(n, now))
             after(t) == [i \in Windows |->
                            IF FieldType = "hll" /\ i \in (IF all THEN Windows ELSE {current_window(n, Clock(n, t))})
                            THEN [array[i] EXCEPT !.member = @ \union {t}]
                            ELSE array[i]]
  <2>1. PICK t \in NextRead(now) :
          result' = [at |-> t, current |-> after(t)[current_window(n, Clock(n, t))].member,
                     windows |-> IF all THEN InWindowOrder(after(t), current_window(n, Clock(n, t))) ELSE <<>>]
    BY <1>4, Zenon DEF GetValue
  <2>2. array \in [Windows -> Slot]
    BY ClockFacts, <2>1, Cleaning, Zenon
  <2> HIDE DEF array
  <2>3. after(t) = array
    BY <2>2, Zenon DEF Exact
  <2>4. t = now /\ Clock(n, t) = now
    BY <1>2, Zenon
  <2> HIDE DEF after
  <2>5. result'.at = t /\ result'.windows = IF all THEN InWindowOrder(array, current_window(n, now)) ELSE <<>>
    BY <2>1, <2>3, <2>4, Zenon
  <2> QED BY <2>4, <2>5, Zenon DEF array
<1>5. ASSUME NEW n \in Nodes, Get(n) \/ \E all \in BOOLEAN : GetValue(n, all)
      PROVE  \A j, k \in DOMAIN result'.windows :
               j < k => \A d \in result'.windows[j], e \in result'.windows[k] :
                 d > e \/ (j = 1 /\ result'.at - d > ExpireDiff - window_size)
  <2> DEFINE windows == result'.windows
  <2>1. result'.at = now
        /\ (windows = <<>> \/ windows = InWindowOrder(CleanedArray(n, Clock(n, now)), current_window(n, now)))
    BY <1>3, <1>4, <1>5, Zenon
  <2> HIDE DEF windows
  <2>2. ASSUME NEW j \in DOMAIN windows, NEW k \in DOMAIN windows, j < k, NEW d \in windows[j], NEW e \in windows[k]
        PROVE  d > e \/ (j = 1 /\ now - d > ExpireDiff - window_size)
    BY <2>1, <2>2, ReadInOrder, Zenon
  <2> QED BY <2>1, <2>2, Zenon DEF windows
<1>6. CASE UNCHANGED vars
  BY <1>6 DEF vars, WindowsNewestFirst, Exact
<1>7. ASSUME NEW n \in Nodes, Add(n) \/ AddThrows(n) \/ Reset(n) \/ Dump(n) \/ Restore(n) PROVE result' = NoResult
  BY <1>7, Zenon DEF Add, AddThrows, Reset, Dump, Restore
<1>8. Tick => result' = NoResult
  BY Zenon DEF Tick
<1> QED BY <1>1, <1>5, <1>6, <1>7, <1>8, Zenon DEF Next

\* With agreeing clocks and no second between the clock reads of a call, twGetWindows
\* of an int or countmin field lists the windows newest first, for every number and
\* size of windows and whatever was cleaned, dumped and restored before; only the
\* first may hold data of a turn before, which is older than all the others.
THEOREM EntryNewestFirst == Spec => []WindowsNewestFirst
<1>1. Init => IInv /\ RingInv /\ WindowsNewestFirst
  <2>1. Init => WindowsNewestFirst
    BY DEF Init, WindowsNewestFirst, NoResult
  <2> QED BY <2>1, InitInv, InitKept, Zenon
<1>2. IInv /\ RingInv /\ WindowsNewestFirst /\ [Next]_vars => (IInv /\ RingInv /\ WindowsNewestFirst)'
  BY NextKeepsInv, NextKeepsKept, NextInOrder, Zenon
<1> QED BY <1>1, <1>2, PTL DEF Spec

-----------------------------------------------------------------------------
(***************************************************************************)
(* DNS lookups for any number of threads, contexts and resolvers: a getdns *)
(* context is used by one lookup at a time, and the retries of a lookup    *)
(* are bounded.                                                            *)
(***************************************************************************)

Lookup == [at : {"idle", "resolvers", "context", "lock", "query"}, kind : {"none", "address", "name"},
           asked : 0 .. SizeT - 1, seen : 0 .. MaxResolvers, num_retries : 0 .. SizeT - 1, ctx : Nat, queries : Nat]

\* Before the resolvers are read nothing was sent. From then on the queries sent
\* and those that are left are no more than were asked for and than there are
\* other resolvers, unless there were none.
Budget(look) ==
    /\ look.at # "query" => look.queries = 0
    /\ look.at \in {"context", "lock", "query"} /\ look.seen # 0 =>
        look.queries + look.num_retries <= look.asked /\ look.queries + look.num_retries < look.seen

LookupInv ==
    /\ lookup \in [LookupThreads -> Lookup]
    /\ \A t \in LookupThreads :
        /\ Budget(lookup[t])
        /\ lookup[t].at \in {"lock", "query"} => lookup[t].ctx \in DOMAIN dnsContexts
        /\ lookup[t].at = "query" => context_mutex[lookup[t].ctx] = t

Context == [upstreams : 0 .. MaxResolvers, timeout : RequestTimeouts]

\* The index moves only once there are contexts, and their number is then fixed.
PoolInv ==
    /\ resolver_list \in 0 .. MaxResolvers
    /\ req_timeout \in RequestTimeouts /\ num_contexts \in NumContexts
    /\ dnsContexts \in Seq(Context) /\ Len(dnsContexts) <= num_contexts
    /\ context_index \in 0 .. num_contexts
    /\ context_mutex \in [DOMAIN dnsContexts -> LookupThreads \union {Unlocked}]
    /\ dnsContexts = <<>> => context_index = 0
    /\ dnsContexts # <<>> /\ Len(dnsContexts) < num_contexts => failing

FlagInv ==
    /\ lookups \in 0 .. MaxLookups
    /\ failing \in BOOLEAN /\ crashed \in BOOLEAN
    /\ crashed => failing

DNSInv == LookupInv /\ PoolInv /\ FlagInv

-----------------------------------------------------------------------------
LEMMA LookupSizes == /\ MaxLookups \in Nat /\ SizeT \in Nat \ {0} /\ MaxResolvers \in 0 .. SizeT - 1
               /\ NumContexts \subseteq Nat /\ RetryCounts \subseteq 0 .. SizeT - 1
  BY ResolverAssumption, Zenon

LEMMA NoLookupFacts == NoLookup \in Lookup /\ Budget(NoLookup) /\ NoLookup.at = "idle" /\ NoLookup.queries = 0
  BY LookupSizes DEF NoLookup, Lookup, Budget

\* One thread goes on with its lookup, and what the others rely on stays.
LEMMA LookupUpdated ==
    ASSUME LookupInv, NEW t \in LookupThreads, NEW look \in Lookup, lookup' = [lookup EXCEPT ![t] = look],
           Budget(look), look.at \in {"lock", "query"} => look.ctx \in DOMAIN dnsContexts',
           look.at = "query" => context_mutex'[look.ctx] = t,
           DOMAIN dnsContexts \subseteq DOMAIN dnsContexts',
           \A u \in LookupThreads \ {t} :
               lookup[u].at = "query" => context_mutex'[lookup[u].ctx] = context_mutex[lookup[u].ctx]
    PROVE  LookupInv'
<1>1. lookup' \in [LookupThreads -> Lookup] /\ lookup'[t] = look /\ \A u \in LookupThreads \ {t} : lookup'[u] = lookup[u]
  BY Zenon DEF LookupInv
<1>2. ASSUME NEW u \in LookupThreads
      PROVE  /\ Budget(lookup'[u])
             /\ lookup'[u].at \in {"lock", "query"} => lookup'[u].ctx \in DOMAIN dnsContexts'
             /\ lookup'[u].at = "query" => context_mutex'[lookup'[u].ctx] = u
  <2>1. CASE u = t
    BY <1>1, <2>1, Zenon
  <2>2. CASE u # t
    <3>1. lookup'[u] = lookup[u]
      BY <1>1, <2>2, Zenon
    <3>2. /\ Budget(lookup[u])
          /\ lookup[u].at \in {"lock", "query"} => lookup[u].ctx \in DOMAIN dnsContexts
          /\ lookup[u].at = "query" => context_mutex[lookup[u].ctx] = u
      BY Zenon DEF LookupInv
    <3>3. lookup[u].at = "query" => context_mutex'[lookup[u].ctx] = u
      BY <2>2, <3>2, Zenon
    <3> QED BY <3>1, <3>2, <3>3, Zenon
  <2> QED BY <2>1, <2>2, Zenon
<1> QED BY <1>1, <1>2, Zenon DEF LookupInv, Budget

\* Settings do not concern the lookups that are made.
LEMMA SettingsKeepInv ==
    ASSUME DNSInv,
           \/ add_resolver
           \/ \E ms \in RequestTimeouts : set_request_timeout(ms)
           \/ \E nc \in NumContexts : set_num_contexts(nc)
    PROVE  DNSInv'
<1>1. UNCHANGED <<dnsContexts, context_index, context_mutex, lookup, lookups, failing, crashed>>
  BY Zenon DEF add_resolver, set_request_timeout, set_num_contexts
<1>2. LookupInv' /\ FlagInv'
  BY <1>1, Zenon DEF DNSInv, LookupInv, FlagInv, Budget
<1>3. CASE add_resolver
  <2>1. resolver_list' \in 0 .. MaxResolvers
    BY <1>3, LookupSizes DEF add_resolver, DNSInv, PoolInv
  <2>2. PoolInv'
    BY <1>1, <1>3, <2>1 DEF add_resolver, DNSInv, PoolInv
  <2> QED BY <1>2, <2>2, Zenon DEF DNSInv
<1>4. CASE \E ms \in RequestTimeouts : set_request_timeout(ms)
  <2>1. PoolInv'
    BY <1>1, <1>4, Zenon DEF set_request_timeout, DNSInv, PoolInv
  <2> QED BY <1>2, <2>1, Zenon DEF DNSInv
<1>5. CASE \E nc \in NumContexts : set_num_contexts(nc)
  <2>1. PICK nc \in NumContexts : set_num_contexts(nc)
    BY <1>5, Zenon
  <2>2. dnsContexts = <<>> /\ context_index = 0 /\ num_contexts' = nc /\ nc \in Nat
    BY <2>1, LookupSizes, Zenon DEF set_num_contexts, DNSInv, PoolInv
  <2>3. Len(dnsContexts) <= nc /\ context_index \in 0 .. nc
    BY <2>2
  <2>4. PoolInv'
    BY <1>1, <2>1, <2>2, <2>3, Zenon DEF set_num_contexts, DNSInv, PoolInv
  <2> QED BY <1>2, <2>4, Zenon DEF DNSInv
<1> QED BY <1>3, <1>4, <1>5, Zenon

\* A step of a lookup that changes neither the pool nor a mutex.
LEMMA OwnStep ==
    ASSUME DNSInv, NEW t \in LookupThreads, NEW look \in Lookup, lookup' = [lookup EXCEPT ![t] = look],
           Budget(look), look.at \in {"lock", "query"} => look.ctx \in DOMAIN dnsContexts,
           look.at = "query" => context_mutex[look.ctx] = t,
           UNCHANGED <<poolVars, context_mutex>>, lookups' \in 0 .. MaxLookups
    PROVE  DNSInv'
<1>1. LookupInv'
  BY LookupUpdated, Zenon DEF DNSInv, poolVars
<1>2. PoolInv' /\ FlagInv'
  BY Zenon DEF DNSInv, PoolInv, FlagInv, poolVars
<1> QED BY <1>1, <1>2, Zenon DEF DNSInv

LEMMA BeginKeepsInv ==
    ASSUME DNSInv, NEW t \in LookupThreads, NEW kind \in {"address", "name"}, NEW n \in RetryCounts, Begin(t, kind, n)
    PROVE  DNSInv'
<1> DEFINE look == [NoLookup EXCEPT !.at = "resolvers", !.kind = kind, !.asked = n]
<1>1. n \in 0 .. SizeT - 1 /\ 0 \in 0 .. MaxResolvers /\ 0 \in 0 .. SizeT - 1
  BY LookupSizes
<1>2. look \in Lookup /\ look.at = "resolvers" /\ look.queries = 0
  BY <1>1, NoLookupFacts, Zenon DEF Lookup
<1>3. Budget(look)
  BY <1>2, Zenon DEF Budget
<1>4. lookups' \in 0 .. MaxLookups
  BY LookupSizes DEF Begin, DNSInv, FlagInv
<1>5. lookup' = [lookup EXCEPT ![t] = look] /\ UNCHANGED <<poolVars, context_mutex>>
  BY Zenon DEF Begin
<1> HIDE DEF look
<1> QED BY <1>2, <1>3, <1>4, <1>5, OwnStep, Zenon

LEMMA RetriesBounded ==
    ASSUME NEW asked \in 0 .. SizeT - 1, NEW n \in 0 .. MaxResolvers
    PROVE  /\ Retries(asked, n) \in 0 .. SizeT - 1
           /\ n # 0 => Retries(asked, n) <= asked /\ Retries(asked, n) < n
<1>1. CASE asked < n
  BY <1>1, LookupSizes DEF Retries
<1>2. CASE asked >= n /\ n # 0
  <2>1. n - 1 \in 0 .. SizeT - 1
    BY <1>2, LookupSizes
  <2>2. (n - 1) % SizeT = n - 1
    BY <2>1, LookupSizes
  <2> QED BY <1>2, <2>1, <2>2 DEF Retries
<1>3. CASE asked >= n /\ n = 0
  <2>1. (n - 1) % SizeT \in 0 .. SizeT - 1
    BY <1>3, LookupSizes
  <2> QED BY <1>3, <2>1, Zenon DEF Retries
<1> QED BY <1>1, <1>2, <1>3

LEMMA ReadResolversKeepsInv ==
    ASSUME DNSInv, NEW t \in LookupThreads, ReadResolvers(t)
    PROVE  DNSInv'
<1> DEFINE n == Retries(lookup[t].asked, resolver_list)
           look == [lookup[t] EXCEPT !.at = "context", !.seen = resolver_list, !.num_retries = n]
<1>1. lookup[t] \in Lookup /\ Budget(lookup[t]) /\ resolver_list \in 0 .. MaxResolvers /\ lookup[t].at = "resolvers"
  BY Zenon DEF ReadResolvers, DNSInv, LookupInv, PoolInv
<1>2. lookup[t].asked \in 0 .. SizeT - 1 /\ lookup[t].queries = 0
  BY <1>1, Zenon DEF Lookup, Budget
<1>3. n \in 0 .. SizeT - 1 /\ (resolver_list # 0 => n <= lookup[t].asked /\ n < resolver_list)
  BY <1>1, <1>2, RetriesBounded, Zenon
<1>4. lookup' = [lookup EXCEPT ![t] = look]
  BY Zenon DEF ReadResolvers, DNSInv, LookupInv
<1> HIDE DEF n
<1>5. look \in Lookup /\ look.at = "context" /\ look.queries = 0 /\ look.num_retries = n /\ look.seen = resolver_list
      /\ look.asked = lookup[t].asked
  BY <1>1, <1>2, <1>3, Zenon DEF Lookup
<1> HIDE DEF look
<1>6. n \in Nat
  BY <1>3, LookupSizes
<1>7. Budget(look)
  BY <1>3, <1>5, <1>6 DEF Budget
<1>8. UNCHANGED <<poolVars, context_mutex>> /\ lookups' \in 0 .. MaxLookups
  BY Zenon DEF ReadResolvers, DNSInv, FlagInv
<1> QED BY <1>4, <1>5, <1>7, <1>8, OwnStep, Zenon

LEMMA LockContextKeepsInv ==
    ASSUME DNSInv, NEW t \in LookupThreads, LockContext(t)
    PROVE  DNSInv'
<1> DEFINE look == [lookup[t] EXCEPT !.at = "query"]
           c == lookup[t].ctx
<1>1. lookup[t] \in Lookup /\ Budget(lookup[t]) /\ lookup[t].at = "lock" /\ c \in DOMAIN dnsContexts
      /\ context_mutex[c] = Unlocked
  BY Zenon DEF LockContext, DNSInv, LookupInv
<1>2. look \in Lookup /\ look.at = "query" /\ look.ctx = c /\ Budget(look)
  BY <1>1, Zenon DEF Lookup, Budget
<1>3. lookup' = [lookup EXCEPT ![t] = look]
  BY Zenon DEF LockContext, DNSInv, LookupInv
<1>4. context_mutex' = [context_mutex EXCEPT ![c] = t] /\ UNCHANGED poolVars /\ UNCHANGED lookups
  BY Zenon DEF LockContext
<1>5. context_mutex' \in [DOMAIN dnsContexts -> LookupThreads \union {Unlocked}] /\ context_mutex'[c] = t
      /\ \A d \in DOMAIN dnsContexts \ {c} : context_mutex'[d] = context_mutex[d]
  BY <1>1, <1>4, Zenon DEF DNSInv, PoolInv
<1>6. ASSUME NEW u \in LookupThreads \ {t}, lookup[u].at = "query"
      PROVE  context_mutex'[lookup[u].ctx] = context_mutex[lookup[u].ctx]
  <2>1. lookup[u].ctx \in DOMAIN dnsContexts /\ context_mutex[lookup[u].ctx] = u
    BY <1>6, Zenon DEF DNSInv, LookupInv
  <2>2. u # Unlocked
    BY ResolverAssumption, Zenon DEF Unlocked
  <2> QED BY <1>1, <1>5, <2>1, <2>2, Zenon
<1> HIDE DEF look, c
<1>7. LookupInv'
  BY <1>1, <1>2, <1>3, <1>4, <1>5, <1>6, LookupUpdated, Zenon DEF DNSInv, poolVars
<1>8. PoolInv' /\ FlagInv'
  BY <1>4, <1>5, Zenon DEF DNSInv, PoolInv, FlagInv, poolVars
<1> QED BY <1>7, <1>8, Zenon DEF DNSInv

LEMMA RetryKeepsInv ==
    ASSUME DNSInv, NEW t \in LookupThreads, lookup[t].at = "query", Retry(t)
    PROVE  DNSInv'
<1> DEFINE look == [lookup[t] EXCEPT !.num_retries = @ - 1, !.queries = @ + 1]
<1>1. lookup[t] \in Lookup /\ Budget(lookup[t]) /\ lookup[t].ctx \in DOMAIN dnsContexts
      /\ context_mutex[lookup[t].ctx] = t
  BY Zenon DEF DNSInv, LookupInv
<1>2. lookup[t].num_retries \in 0 .. SizeT - 1 /\ lookup[t].num_retries > 0 /\ lookup[t].queries \in Nat
      /\ lookup[t].seen \in 0 .. MaxResolvers /\ lookup[t].asked \in 0 .. SizeT - 1
  BY <1>1, Zenon DEF Retry, Lookup
<1> DEFINE left == lookup[t].num_retries - 1
           sent == lookup[t].queries + 1
<1>3. left \in 0 .. SizeT - 1 /\ sent \in Nat
  BY <1>2, LookupSizes
<1>4. look = [lookup[t] EXCEPT !.num_retries = left, !.queries = sent]
  BY <1>1, Zenon DEF Lookup
<1> HIDE DEF look, left, sent
<1>5. look \in Lookup /\ look.at = "query" /\ look.ctx = lookup[t].ctx /\ look.num_retries = left
      /\ look.queries = sent /\ look.seen = lookup[t].seen /\ look.asked = lookup[t].asked
  BY <1>1, <1>3, <1>4, Zenon DEF Lookup
<1>6. look.num_retries = lookup[t].num_retries - 1 /\ look.queries = lookup[t].queries + 1
  BY <1>5, Zenon DEF left, sent
<1>7. lookup' = [lookup EXCEPT ![t] = look]
  BY Zenon DEF Retry, DNSInv, LookupInv, look
<1>8. Budget(look)
  BY <1>1, <1>2, <1>6, <1>5, LookupSizes DEF Budget
<1>9. UNCHANGED <<poolVars, context_mutex>> /\ lookups' \in 0 .. MaxLookups
  BY Zenon DEF Retry, DNSInv, FlagInv
<1> QED BY <1>1, <1>5, <1>7, <1>8, <1>9, OwnStep, Zenon

\* The mutex that is given up is not held by another lookup.
LEMMA ReturnKeepsInv ==
    ASSUME DNSInv, NEW t \in LookupThreads, lookup[t].at = "query", Return(t)
    PROVE  DNSInv'
<1> DEFINE c == lookup[t].ctx
<1>1. c \in DOMAIN dnsContexts /\ context_mutex[c] = t
  BY Zenon DEF DNSInv, LookupInv
<1>2. context_mutex' = [context_mutex EXCEPT ![c] = Unlocked] /\ UNCHANGED poolVars /\ UNCHANGED lookups
      /\ lookup' = [lookup EXCEPT ![t] = NoLookup]
  BY Zenon DEF Return
<1>3. context_mutex' \in [DOMAIN dnsContexts -> LookupThreads \union {Unlocked}]
      /\ \A d \in DOMAIN dnsContexts \ {c} : context_mutex'[d] = context_mutex[d]
  BY <1>1, <1>2, Zenon DEF DNSInv, PoolInv
<1>4. ASSUME NEW u \in LookupThreads \ {t}, lookup[u].at = "query"
      PROVE  context_mutex'[lookup[u].ctx] = context_mutex[lookup[u].ctx]
  <2>1. lookup[u].ctx \in DOMAIN dnsContexts /\ context_mutex[lookup[u].ctx] = u
    BY <1>4, Zenon DEF DNSInv, LookupInv
  <2> QED BY <1>1, <1>3, <2>1, Zenon
<1> HIDE DEF c
<1>5. LookupInv'
  BY <1>2, <1>4, NoLookupFacts, LookupUpdated, Zenon DEF DNSInv, poolVars
<1>6. PoolInv' /\ FlagInv'
  BY <1>2, <1>3, Zenon DEF DNSInv, PoolInv, FlagInv, poolVars
<1> QED BY <1>5, <1>6, Zenon DEF DNSInv

LEMMA QueryKeepsInv ==
    ASSUME DNSInv, NEW t \in LookupThreads, NEW status \in Statuses,
           \/ do_lookup_address_by_name_async(t, status)
           \/ do_lookup_name_by_address_async(t, status)
           \/ do_lookup_name_by_address(t, status)
    PROVE  DNSInv'
<1>1. lookup[t].at = "query" /\ (Retry(t) \/ Return(t))
  BY Zenon DEF do_lookup_address_by_name_async, do_lookup_name_by_address_async, do_lookup_name_by_address
<1> QED BY <1>1, RetryKeepsInv, ReturnKeepsInv, Zenon

-----------------------------------------------------------------------------
\* The contexts that init_dns_contexts may leave: those there are, or some new ones.
LEMMA ContextsAreMade ==
    ASSUME DNSInv, NEW cs \in init_dns_contexts
    PROVE  /\ cs \in Seq(Context) /\ Len(cs) \in 0 .. num_contexts
           /\ dnsContexts # <<>> => cs = dnsContexts
           /\ num_contexts \in Nat
<1>1. num_contexts \in Nat
  BY LookupSizes, Zenon DEF DNSInv, PoolInv
<1>2. CASE dnsContexts = <<>>
  <2>1. PICK n \in 0 .. num_contexts : cs = [i \in 1 .. n |-> create_dns_context]
    BY <1>2, Zenon DEF init_dns_contexts
  <2>2. create_dns_context \in Context
    BY Zenon DEF create_dns_context, Context, DNSInv, PoolInv
  <2>3. cs \in Seq(Context) /\ Len(cs) = n
    BY <1>1, <2>1, <2>2
  <2> QED BY <1>1, <1>2, <2>1, <2>3, Zenon
<1>3. CASE dnsContexts # <<>>
  <2>1. cs = dnsContexts /\ Len(dnsContexts) <= num_contexts /\ dnsContexts \in Seq(Context)
    BY <1>3, Zenon DEF init_dns_contexts, DNSInv, PoolInv
  <2>2. Len(dnsContexts) \in Nat
    BY <2>1
  <2> QED BY <1>1, <2>1, <2>2
<1> QED BY <1>2, <1>3, Zenon

LEMMA GetContextKeepsInv ==
    ASSUME DNSInv, NEW t \in LookupThreads, get_dns_context(t)
    PROVE  DNSInv'
<1> DEFINE i == IF context_index >= num_contexts THEN 0 ELSE context_index
<1>1. PICK cs \in init_dns_contexts :
        /\ dnsContexts' = cs
        /\ failing' = (failing \/ (dnsContexts = <<>> /\ Len(cs) < num_contexts))
        /\ context_mutex' = IF dnsContexts = <<>> THEN [c \in DOMAIN cs |-> Unlocked] ELSE context_mutex
        /\ IF cs = <<>>
           THEN lookup' = [lookup EXCEPT ![t] = NoLookup] /\ UNCHANGED <<context_index, crashed>>
           ELSE /\ context_index' = i + 1
                /\ IF i < Len(cs)
                   THEN lookup' = [lookup EXCEPT ![t].at = "lock", ![t].ctx = i + 1] /\ UNCHANGED crashed
                   ELSE crashed' = TRUE /\ UNCHANGED lookup
  BY Zenon DEF get_dns_context
<1>2. UNCHANGED <<resolver_list, req_timeout, num_contexts, lookups>> /\ lookup[t].at = "context"
  BY Zenon DEF get_dns_context
<1>3. /\ cs \in Seq(Context) /\ Len(cs) \in 0 .. num_contexts /\ num_contexts \in Nat
      /\ dnsContexts # <<>> => cs = dnsContexts
  BY ContextsAreMade, Zenon
<1>4. i \in Nat /\ (num_contexts # 0 => i < num_contexts)
  BY <1>3 DEF DNSInv, PoolInv
<1>5. failing \in BOOLEAN /\ failing' \in BOOLEAN /\ (failing => failing')
  BY <1>1, Zenon DEF DNSInv, FlagInv
<1>6. cs # <<>> /\ Len(cs) < num_contexts => failing'
  <2>1. CASE dnsContexts = <<>>
    BY <1>1, <2>1, Zenon
  <2>2. CASE dnsContexts # <<>>
    BY <1>1, <1>3, <2>2, Zenon DEF DNSInv, PoolInv
  <2> QED BY <2>1, <2>2, Zenon
<1>7. context_mutex' \in [DOMAIN cs -> LookupThreads \union {Unlocked}]
  <2>1. CASE dnsContexts = <<>>
    BY <1>1, <2>1, Zenon
  <2>2. CASE dnsContexts # <<>>
    BY <1>1, <1>3, <2>2, Zenon DEF DNSInv, PoolInv
  <2> QED BY <2>1, <2>2, Zenon
<1>8. cs # <<>> => Len(cs) > 0 /\ num_contexts # 0
  BY <1>3
<1>9. context_index' \in 0 .. num_contexts /\ (cs = <<>> => context_index' = 0)
  <2>1. CASE cs = <<>>
    BY <1>1, <1>3, <2>1, Zenon DEF DNSInv, PoolInv
  <2>2. CASE cs # <<>>
    BY <1>1, <1>3, <1>4, <1>8, <2>2
  <2> QED BY <2>1, <2>2, Zenon
<1>10. PoolInv'
  BY <1>1, <1>2, <1>3, <1>6, <1>7, <1>9 DEF DNSInv, PoolInv
<1>11. DOMAIN dnsContexts \subseteq DOMAIN dnsContexts'
       /\ \A u \in LookupThreads : lookup[u].at = "query" =>
            context_mutex'[lookup[u].ctx] = context_mutex[lookup[u].ctx]
  <2>1. CASE dnsContexts = <<>>
    <3>1. DOMAIN dnsContexts = {}
      BY <2>1
    <3> QED BY <3>1, Zenon DEF DNSInv, LookupInv
  <2>2. CASE dnsContexts # <<>>
    BY <1>1, <1>3, <2>2, Zenon
  <2> QED BY <2>1, <2>2, Zenon
<1>12. lookup[t] \in Lookup /\ Budget(lookup[t]) /\ lookup \in [LookupThreads -> Lookup]
  BY Zenon DEF DNSInv, LookupInv
<1> HIDE DEF i
<1>13. CASE cs = <<>>
  <2>1. lookup' = [lookup EXCEPT ![t] = NoLookup] /\ UNCHANGED crashed
    BY <1>1, <1>13, Zenon
  <2>2. LookupInv'
    BY <1>11, <2>1, NoLookupFacts, LookupUpdated, Zenon DEF DNSInv
  <2>3. FlagInv'
    BY <1>2, <1>5, <2>1, Zenon DEF DNSInv, FlagInv
  <2> QED BY <1>10, <2>2, <2>3, Zenon DEF DNSInv
<1>14. CASE cs # <<>> /\ i < Len(cs)
  <2> DEFINE c == i + 1
             look == [lookup[t] EXCEPT !.at = "lock", !.ctx = c]
  <2>1. UNCHANGED crashed /\ lookup' = [lookup EXCEPT ![t].at = "lock", ![t].ctx = c]
    BY <1>1, <1>14, Zenon
  <2>2. c \in Nat /\ c \in DOMAIN dnsContexts'
    BY <1>1, <1>3, <1>4, <1>14
  <2> HIDE DEF c
  <2>3. lookup' = [lookup EXCEPT ![t] = look]
    BY <1>12, <2>1, Zenon
  <2>4. look \in Lookup /\ look.at = "lock" /\ look.ctx = c /\ look.queries = lookup[t].queries
        /\ look.num_retries = lookup[t].num_retries /\ look.seen = lookup[t].seen /\ look.asked = lookup[t].asked
    BY <1>12, <2>2, Zenon DEF Lookup
  <2> HIDE DEF look
  <2>5. Budget(look)
    BY <1>2, <1>12, <2>4, Zenon DEF Budget
  <2>6. LookupInv'
    BY <1>11, <2>2, <2>3, <2>4, <2>5, LookupUpdated, Zenon DEF DNSInv
  <2>7. FlagInv'
    BY <1>2, <1>5, <2>1, Zenon DEF DNSInv, FlagInv
  <2> QED BY <1>10, <2>6, <2>7, Zenon DEF DNSInv
<1>15. CASE cs # <<>> /\ ~(i < Len(cs))
  <2>1. UNCHANGED lookup /\ crashed' = TRUE
    BY <1>1, <1>15, Zenon
  <2>2. failing'
    BY <1>3, <1>4, <1>6, <1>8, <1>15
  <2>3. lookup' = [lookup EXCEPT ![t] = lookup[t]]
    BY <1>12, <2>1, Zenon
  <2>4. LookupInv'
    BY <1>2, <1>11, <1>12, <2>3, LookupUpdated, Zenon DEF DNSInv
  <2>5. FlagInv'
    BY <1>2, <1>5, <2>1, <2>2, Zenon DEF DNSInv, FlagInv
  <2> QED BY <1>10, <2>4, <2>5, Zenon DEF DNSInv
<1> QED BY <1>13, <1>14, <1>15, Zenon

-----------------------------------------------------------------------------
LEMMA DNSInitInv == ResolverInit => DNSInv
<1> SUFFICES ASSUME ResolverInit PROVE DNSInv
  BY Zenon
<1>1. LookupInv
  BY NoLookupFacts, Zenon DEF ResolverInit, LookupInv
<1>2. context_mutex \in [DOMAIN dnsContexts -> LookupThreads \union {Unlocked}]
  BY DEF ResolverInit
<1>3. dnsContexts \in Seq(Context) /\ Len(dnsContexts) = 0 /\ num_contexts \in Nat /\ num_contexts \in NumContexts
  BY ResolverAssumption DEF ResolverInit
<1>4. PoolInv
  BY <1>2, <1>3, ResolverAssumption DEF ResolverInit, PoolInv
<1>5. FlagInv
  <2>1. lookups \in 0 .. MaxLookups
    BY LookupSizes DEF ResolverInit
  <2> QED BY <2>1, Zenon DEF ResolverInit, FlagInv
<1> QED BY <1>1, <1>4, <1>5, Zenon DEF DNSInv

LEMMA DNSNextInv == DNSInv /\ [ResolverNext]_resolverVars => DNSInv'
<1> SUFFICES ASSUME DNSInv, [ResolverNext]_resolverVars PROVE DNSInv'
  BY Zenon
<1>1. CASE UNCHANGED resolverVars
  BY <1>1, Zenon DEF resolverVars, DNSInv, LookupInv, PoolInv, FlagInv, Budget
<1>2. CASE \/ add_resolver
           \/ \E ms \in RequestTimeouts : set_request_timeout(ms)
           \/ \E nc \in NumContexts : set_num_contexts(nc)
  BY <1>2, SettingsKeepInv, Zenon
<1>3. CASE \E t \in LookupThreads, n \in RetryCounts : Begin(t, "address", n) \/ Begin(t, "name", n)
  BY <1>3, BeginKeepsInv, Zenon
<1>4. CASE \E t \in LookupThreads : LookupStep(t)
  BY <1>4, ReadResolversKeepsInv, GetContextKeepsInv, LockContextKeepsInv, QueryKeepsInv, Zenon DEF LookupStep
<1> QED BY <1>1, <1>2, <1>3, <1>4, Zenon DEF ResolverNext, lookup_address_by_name, lookupRBL, lookup_name_by_address

LEMMA InvBounds == DNSInv => LookupsAreBounded
<1> SUFFICES ASSUME DNSInv PROVE LookupsAreBounded
  BY Zenon
<1>1. ResolverTypeOK
  BY Zenon DEF ResolverTypeOK, DNSInv, LookupInv, PoolInv, FlagInv, Lookup, Context
<1>2. ASSUME NEW t \in LookupThreads, lookup[t].at = "query"
      PROVE  /\ context_mutex[lookup[t].ctx] = t
             /\ lookup[t].queries > lookup[t].asked => lookup[t].seen = 0
             /\ lookup[t].queries >= lookup[t].seen => lookup[t].seen = 0
  <2>1. lookup[t].num_retries \in 0 .. SizeT - 1 /\ lookup[t].queries \in Nat
        /\ lookup[t].seen \in 0 .. MaxResolvers /\ lookup[t].asked \in 0 .. SizeT - 1
    BY Zenon DEF DNSInv, LookupInv, Lookup
  <2>2. Budget(lookup[t]) /\ context_mutex[lookup[t].ctx] = t
    BY <1>2, Zenon DEF DNSInv, LookupInv
  <2> QED BY <1>2, <2>1, <2>2, LookupSizes DEF Budget
<1> QED BY <1>1, <1>2, Zenon DEF LookupsAreBounded, DNSInv, FlagInv

\* Whatever the number of threads, contexts, resolvers and retries, two lookups
\* never use one getdns context at the same time (get_dns_context and its mutex),
\* and a lookup that saw resolvers sends no more queries than it was asked to or
\* than they are.
THEOREM ResolverBounded == ResolverSpec => []LookupsAreBounded
<1>1. ResolverInit => DNSInv
  BY DNSInitInv, Zenon
<1>2. DNSInv /\ [ResolverNext]_resolverVars => DNSInv'
  BY DNSNextInv, Zenon
<1>3. DNSInv => LookupsAreBounded
  BY InvBounds, Zenon
<1> QED BY <1>1, <1>2, <1>3, PTL DEF ResolverSpec

=============================================================================

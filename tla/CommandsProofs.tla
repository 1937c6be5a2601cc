--------------------------- MODULE CommandsProofs ---------------------------
(***************************************************************************)
(* Proofs about Commands: the Lua contexts are exclusive and never run     *)
(* out, and what a request answers agrees with the lists it read.          *)
(***************************************************************************)
EXTENDS Commands, FiniteSetTheorems, TLAPS

-----------------------------------------------------------------------------
(***************************************************************************)
(* The orders in which the lists are read.                                 *)
(***************************************************************************)

\* A list has five kinds of keys and is read in five steps.
LEMMA Orders ==
    /\ DOMAIN KeyOrder = 1 .. 5 /\ Len(KeyOrder) = 5 /\ LastPos = 10 /\ Len(ShowOrder) = 5
    /\ Keys = {"ip", "login", "ja3", "iplogin", "ipja3"}
<1>1. DOMAIN KeyOrder = 1 .. 5 /\ Len(KeyOrder) = 5
  BY DEF KeyOrder
<1>2. Keys = {KeyOrder[1], KeyOrder[2], KeyOrder[3], KeyOrder[4], KeyOrder[5]}
  BY <1>1 DEF Keys
<1> QED BY <1>1, <1>2 DEF KeyOrder, ShowOrder, LastPos

\* The commands, by what they do.
LEMMA CmdSets ==
    /\ ListCmds = {"addBLEntry", "delBLEntry", "addWLEntry", "delWLEntry"}
    /\ ShowCmds = {"getBL", "getWL"}
    /\ \A cmd \in ListCmds : ListCmd[cmd][1] \in Lists
    /\ \A cmd \in ShowCmds : ShownList[cmd] \in Lists
BY DEF ListCmds, ListCmd, ShowCmds, ShownList, Lists

\* The key the fields of a request are about.
LEMMA KeyForType == \A fields : KeyFor(fields) \in Keys
BY Orders, Zenon DEF KeyFor

-----------------------------------------------------------------------------
(***************************************************************************)
(* The inductive invariant.                                                *)
(***************************************************************************)

Ats == {"idle", "act", "list", "get", "lock", "run"}
Fns == {"none", "canonicalize", "allow", "report", "reset", "custom"}

\* What the local state of a handler may be.
WorkRec ==
    [at : Ats, cmd : Cmds \union {"none"}, fields : SUBSET Fields, fn : Fns, ctx : Contexts \union {"none"},
     pos : 1 .. LastPos + 1, found : SUBSET (Lists \union Keys),
     always : [Lists -> SUBSET Keys], ever : [Lists -> SUBSET Keys]]

\* A handler has a context just while it waits for its lock or runs in it.
Tidy(r) ==
    /\ r.ctx # "none" <=> r.at \in {"lock", "run"}
    /\ r.at \in {"idle", "act", "list"} => r.fn = "none"
    /\ r.at # "idle" => r.cmd \in Cmds
    /\ r.at = "idle" => r.cmd = "none"
    /\ \A l \in Lists : r.always[l] \subseteq r.ever[l]

WorkInv == work \in [Workers -> WorkRec] /\ \A w \in Workers : Tidy(work[w])

Answers == (Cmds \union {"none"}) \X {0, 200, 400, 401, 500} \X (-1 .. 1)

AnsweredType == answered \in [Workers -> Answers]
EventsType == events \in [Events -> Nat]
StatsType == stats \in [StatNames -> Nat]
CountType == requests \in 0 .. MaxRequests /\ commands \in 0 .. MaxConsole

DoneInv == StatsType /\ CountType /\ AnsweredType /\ EventsType

ListInv == builtin \subseteq Lists /\ lists \in [Lists -> SUBSET Keys]

Free == {lua_pool[i] : i \in DOMAIN lua_pool}

PoolType ==
    /\ lua_pool \in Seq(Contexts) /\ \A i, j \in DOMAIN lua_pool : lua_pool[i] = lua_pool[j] => i = j
    /\ mutex \in [Contexts -> Workers \union {"none", "console"}]
    /\ console \in Seq(Contexts)

NotShared == \A v, w \in Workers : v # w /\ work[v].ctx # "none" => work[v].ctx # work[w].ctx
NotFree == \A w \in Workers : work[w].ctx \notin Free
NoneLost == \A c \in Contexts : c \in Free \/ \E w \in Workers : work[w].ctx = c
RunsLocked == \A w \in Workers : work[w].at = "run" => mutex[work[w].ctx] = w
ConsoleLocks == \A c \in Contexts : mutex[c] = "console" => console # <<>> /\ c = Head(console)
WorkerLocks == \A c \in Contexts : mutex[c] \in Workers => work[mutex[c]].at = "run" /\ work[mutex[c]].ctx = c

\* Every context is in the pool once or has been taken by one worker; its lock
\* is held by that worker while it runs, or by the console, which has come to it.
PoolInv == PoolType /\ NotShared /\ NotFree /\ NoneLost /\ RunsLocked /\ ConsoleLocks /\ WorkerLocks

\* Without a hash among the fields only three kinds of keys are looked up.
Looked(r, key) == key \in {"ja3", "ipja3"} => "ja3" \in r.fields

\* What parseAllowCmd has seen: a list the client was found on had an entry
\* for it, and on another one no entry it has asked for was there all the time.
AllowOK(r, enabled) ==
    /\ \A l \in r.found : l \in Lists /\ l \in enabled /\ \E k \in r.ever[l] : Looked(r, k)
    /\ \A p \in 1 .. r.pos - 1 :
        ListAt(p) \in enabled /\ ListAt(p) \notin r.found /\ Looked(r, KeyAt(p)) => KeyAt(p) \notin r.always[ListAt(p)]
    /\ r.fn = "allow" => r.found = {} /\ r.pos = LastPos + 1

\* What parseGetBLWLCmd has collected from the list l.
ShowOK(r, l) ==
    /\ r.found \subseteq r.ever[l]
    /\ \A p \in 1 .. 5 : p < r.pos /\ ShowOrder[p] \in r.always[l] => ShowOrder[p] \in r.found

\* What parseGetStatsCmd has been told.
StatsOK(r) ==
    /\ \A l \in Lists : l \in r.found => KeyFor(r.fields) \in r.ever[l]
    /\ 1 < r.pos /\ KeyFor(r.fields) \in r.always["bl"] => "bl" \in r.found
    /\ 2 < r.pos /\ KeyFor(r.fields) \in r.always["wl"] => "wl" \in r.found

\* A request that reads lists has its histories around them, and agrees with them.
ReadOK(r, enabled, ls) ==
    /\ r.cmd \in ReadCmds => \A l \in Lists : r.always[l] \subseteq ls[l] /\ ls[l] \subseteq r.ever[l]
    /\ r.cmd = "allow" => AllowOK(r, enabled)
    /\ r.cmd \in ShowCmds => ShowOK(r, ShownList[r.cmd])
    /\ r.cmd = "getDBStats" => StatsOK(r)

ReadInv == \A w \in Workers : ReadOK(work[w], builtin, lists)

IInv == WorkInv /\ DoneInv /\ ListInv /\ PoolInv /\ ReadInv

-----------------------------------------------------------------------------
(***************************************************************************)
(* What every step needs.                                                  *)
(***************************************************************************)

\* The fields of a handler's state.
LEMMA WorkFields ==
    ASSUME NEW r \in WorkRec
    PROVE  /\ r.at \in Ats /\ r.cmd \in Cmds \union {"none"} /\ r.fields \subseteq Fields /\ r.fn \in Fns
           /\ r.ctx \in Contexts \union {"none"} /\ r.pos \in 1 .. LastPos + 1 /\ r.found \subseteq Lists \union Keys
           /\ r.always \in [Lists -> SUBSET Keys] /\ r.ever \in [Lists -> SUBSET Keys]
BY Zenon DEF WorkRec

LEMMA CmdNames ==
    /\ {"report", "reset", "custom", "stats", "allow", "getDBStats"} \subseteq Cmds
    /\ ReadCmds \subseteq Cmds /\ ListCmds \subseteq Cmds /\ ShowCmds \subseteq ReadCmds
    /\ "allow" \in ReadCmds /\ "getDBStats" \in ReadCmds /\ "none" \notin Cmds
    /\ "report" \notin ReadCmds /\ "reset" \notin ReadCmds /\ "custom" \notin ReadCmds /\ "stats" \notin ReadCmds
    /\ ListCmds \intersect ReadCmds = {} /\ "allow" \notin ShowCmds /\ "getDBStats" \notin ShowCmds /\ "none" \notin ReadCmds
BY CmdSets, Zenon DEF Cmds, ReadCmds

\* A worker between two requests.
LEMMA IdleOK ==
    /\ Idle \in WorkRec /\ Tidy(Idle) /\ Idle.ctx = "none" /\ Idle.at = "idle" /\ Idle.cmd = "none"
    /\ \A enabled, ls : ReadOK(Idle, enabled, ls)
<1>1. /\ Idle.at = "idle" /\ Idle.cmd = "none" /\ Idle.fields = {} /\ Idle.fn = "none" /\ Idle.ctx = "none"
      /\ Idle.pos = 1 /\ Idle.found = {} /\ Idle.always = NoKeys /\ Idle.ever = NoKeys
  BY Zenon DEF Idle
<1>2. Idle \in WorkRec
  BY Orders DEF Idle, WorkRec, Ats, Fns, NoKeys
<1>3. Tidy(Idle)
  BY <1>1, Zenon DEF Tidy
<1>4. \A enabled, ls : ReadOK(Idle, enabled, ls)
  BY <1>1, CmdNames, Zenon DEF ReadOK
<1> QED BY <1>1, <1>2, <1>3, <1>4, Zenon

\* One worker's handler moves on.
LEMMA OneMoves ==
    ASSUME WorkInv, NEW w \in Workers, NEW r \in WorkRec, Tidy(r), work' = [work EXCEPT ![w] = r]
    PROVE  WorkInv' /\ work'[w] = r /\ \A v \in Workers \ {w} : work'[v] = work[v]
BY Zenon DEF WorkInv

LEMMA BumpDone ==
    ASSUME DoneInv, NEW names, Bump(names)
    PROVE  StatsType'
BY DEF DoneInv, StatsType, Bump

\* What a step leaves alone keeps its type.
LEMMA DoneSame ==
    ASSUME DoneInv
    PROVE  /\ stats' = stats => StatsType'
           /\ answered' = answered => AnsweredType'
           /\ events' = events => EventsType'
           /\ requests' = requests /\ commands' = commands => CountType'
BY Zenon DEF DoneInv, StatsType, AnsweredType, EventsType, CountType

LEMMA RaiseDone ==
    ASSUME DoneInv, NEW event \in Events, Raise(event)
    PROVE  EventsType'
BY DEF DoneInv, EventsType, Raise

LEMMA AnswerDone ==
    ASSUME DoneInv, NEW w \in Workers, NEW cmd \in Cmds, NEW code \in {200, 400, 401, 500}, NEW status \in -1 .. 1,
           Answer(w, cmd, code, status)
    PROVE  AnsweredType'
<1>1. <<cmd, code, status>> \in Answers
  BY DEF Answers
<1> QED BY <1>1 DEF DoneInv, AnsweredType, Answer

\* As long as no context changes hands, the pool is as it was.
LEMMA ContextsStay ==
    ASSUME WorkInv, PoolInv, UNCHANGED <<lua_pool, mutex, console>>,
           \A v \in Workers : work'[v].ctx = work[v].ctx /\ (work'[v].at = "run" <=> work[v].at = "run")
    PROVE  PoolInv'
<1>1. Free' = Free
  BY Zenon DEF Free
<1>2. NotShared' /\ NotFree' /\ NoneLost'
  BY <1>1 DEF PoolInv, NotShared, NotFree, NoneLost
<1>3. RunsLocked' /\ ConsoleLocks' /\ WorkerLocks'
  BY Zenon DEF PoolInv, RunsLocked, ConsoleLocks, WorkerLocks
<1>4. PoolType'
  BY Zenon DEF PoolInv, PoolType
<1> QED BY <1>2, <1>3, <1>4, Zenon DEF PoolInv

\* A handler moves on without Lua, and no list changes.
LEMMA HandlerStep ==
    ASSUME IInv, NEW w \in Workers, NEW r \in WorkRec, Tidy(r), work' = [work EXCEPT ![w] = r],
           r.ctx = work[w].ctx, r.at # "run", work[w].at # "run", ReadOK(r, builtin, lists),
           UNCHANGED <<builtin, lists, lua_pool, mutex, console>>, DoneInv'
    PROVE  IInv'
<1>1. WorkInv' /\ work'[w] = r /\ \A v \in Workers \ {w} : work'[v] = work[v]
  BY OneMoves, Zenon DEF IInv
<1>2. PoolInv'
  BY <1>1, ContextsStay, Zenon DEF IInv
<1>3. ReadInv'
  BY <1>1, Zenon DEF IInv, ReadInv
<1> QED BY <1>1, <1>2, <1>3, Zenon DEF IInv, ListInv

\* A handler without a context answers.
LEMMA AnswerStep ==
    ASSUME IInv, NEW w \in Workers, work[w].at \in {"idle", "act", "list"},
           NEW cmd, NEW code, NEW status, Answer(w, cmd, code, status),
           UNCHANGED <<builtin, lists, lua_pool, mutex, console>>, DoneInv'
    PROVE  IInv'
<1>1. work[w].ctx = "none" /\ work[w].at # "run"
  BY Zenon DEF IInv, WorkInv, Tidy
<1>2. work' = [work EXCEPT ![w] = Idle]
  BY Zenon DEF Answer
<1> QED BY <1>1, <1>2, IdleOK, HandlerStep, Zenon

-----------------------------------------------------------------------------
(***************************************************************************)
(* The contexts change hands.                                              *)
(***************************************************************************)

\* A request that goes on with another function or context reads what it read.
LEMMA ReadsOn ==
    ASSUME NEW r \in WorkRec, NEW q \in WorkRec, NEW enabled, NEW ls, ReadOK(r, enabled, ls),
           q.cmd = r.cmd, q.fields = r.fields, q.pos = r.pos, q.found = r.found,
           q.always = r.always, q.ever = r.ever, q.fn = "allow" => r.fn = "allow"
    PROVE  ReadOK(q, enabled, ls)
BY Zenon DEF ReadOK, AllowOK, ShowOK, StatsOK, Looked

\* The last element of a sequence and the others.
LEMMA LastAndFront ==
    ASSUME NEW S, NEW s \in Seq(S), s # <<>>
    PROVE  LET front == SubSeq(s, 1, Len(s) - 1) IN
           /\ Len(s) \in DOMAIN s /\ s[Len(s)] \in S
           /\ front \in Seq(S) /\ DOMAIN front = 1 .. Len(s) - 1
           /\ \A i \in 1 .. Len(s) - 1 : i \in DOMAIN s /\ front[i] = s[i]
           /\ \A i \in DOMAIN s : i = Len(s) \/ i \in 1 .. Len(s) - 1
<1>1. Len(s) \in Nat /\ Len(s) # 0 /\ DOMAIN s = 1 .. Len(s)
  OBVIOUS
<1> QED BY <1>1

LEMMA getPoolMemberStep ==
    ASSUME IInv, NEW w \in Workers, getPoolMember(w)
    PROVE  IInv'
<1> DEFINE c == lua_pool[Len(lua_pool)]
           r == [work[w] EXCEPT !.at = "lock", !.ctx = c]
<1>1. work[w] \in WorkRec /\ Tidy(work[w]) /\ work[w].at = "get"
  BY Zenon DEF IInv, WorkInv, getPoolMember
<1>2. /\ Len(lua_pool) \in DOMAIN lua_pool /\ c \in Contexts
      /\ lua_pool' \in Seq(Contexts) /\ DOMAIN lua_pool' = 1 .. Len(lua_pool) - 1
      /\ \A i \in DOMAIN lua_pool' : i \in DOMAIN lua_pool /\ lua_pool'[i] = lua_pool[i]
      /\ \A i \in DOMAIN lua_pool : i = Len(lua_pool) \/ i \in DOMAIN lua_pool'
      /\ Len(lua_pool) \notin DOMAIN lua_pool'
  <2>1. lua_pool \in Seq(Contexts) /\ lua_pool # <<>> /\ Len(lua_pool) \in Nat
        /\ lua_pool' = SubSeq(lua_pool, 1, Len(lua_pool) - 1)
    BY DEF IInv, PoolInv, PoolType, getPoolMember
  <2> QED BY <2>1, LastAndFront
<1>3. work' = [work EXCEPT ![w] = r]
  BY Zenon DEF getPoolMember, IInv, WorkInv
<1> HIDE DEF c
<1>4. /\ r \in WorkRec /\ r.at = "lock" /\ r.ctx = c /\ r.cmd = work[w].cmd /\ r.fields = work[w].fields
      /\ r.fn = work[w].fn /\ r.pos = work[w].pos /\ r.found = work[w].found
      /\ r.always = work[w].always /\ r.ever = work[w].ever
  BY <1>1, <1>2, Zenon DEF WorkRec, Ats
<1> HIDE DEF r
<1>5. c # "none" /\ work[w].ctx = "none"
  BY <1>1, <1>2, ContextsAssumption, Zenon DEF Tidy
<1>6. Tidy(r)
  BY <1>1, <1>4, <1>5, Zenon DEF Tidy
<1>7. WorkInv' /\ work'[w] = r /\ \A v \in Workers \ {w} : work'[v] = work[v]
  BY <1>3, <1>4, <1>6, OneMoves, Zenon DEF IInv
<1>8. ReadInv'
  <2>1. ReadOK(r, builtin, lists)
    BY <1>1, <1>4, ReadsOn, Zenon DEF IInv, ReadInv
  <2> QED BY <2>1, <1>7, Zenon DEF IInv, ReadInv, getPoolMember, listVars
<1>9. PoolInv'
  <2>1. PoolType /\ NotShared /\ NotFree /\ NoneLost /\ RunsLocked /\ ConsoleLocks /\ WorkerLocks
    BY Zenon DEF IInv, PoolInv
  <2>2. mutex' = mutex /\ console' = console
    BY Zenon DEF getPoolMember
  <2>3. Free' = Free \ {c} /\ c \in Free
    BY <1>2, <2>1 DEF Free, PoolType, c
  <2>4. PoolType'
    BY <1>2, <2>1, <2>2, Zenon DEF PoolType
  <2>5. \A v \in Workers \ {w} : work[v].ctx # c
    BY <2>1, <2>3, Zenon DEF NotFree
  <2>6. NotShared'
    BY <1>4, <1>7, <2>1, <2>5 DEF NotShared
  <2>7. NotFree'
    <3>1. work'[w].ctx \notin Free'
      BY <1>4, <1>7, <2>3, Zenon
    <3>2. \A v \in Workers \ {w} : work'[v].ctx \notin Free'
      BY <1>7, <2>1, <2>3, Zenon DEF NotFree
    <3> QED BY <3>1, <3>2, Zenon DEF NotFree
  <2>8. NoneLost'
    <3> SUFFICES ASSUME NEW d \in Contexts PROVE d \in Free' \/ \E v \in Workers : work'[v].ctx = d
      BY Zenon DEF NoneLost
    <3>1. CASE d = c
      BY <3>1, <1>4, <1>7, Zenon
    <3>2. CASE d # c /\ d \notin Free
      <4>1. PICK v \in Workers : work[v].ctx = d
        BY <3>2, <2>1, Zenon DEF NoneLost
      <4>2. v # w
        BY <4>1, <1>5, ContextsAssumption, Zenon
      <4> QED BY <4>1, <4>2, <1>7, Zenon
    <3> QED BY <3>1, <3>2, <2>3, Zenon
  <2>9. RunsLocked'
    BY <1>4, <1>7, <2>1, <2>2, Zenon DEF RunsLocked
  <2>10. ConsoleLocks'
    BY <2>1, <2>2, Zenon DEF ConsoleLocks
  <2>11. WorkerLocks'
    <3>1. \A d \in Contexts : mutex[d] # w
      BY <1>1, <2>1, Zenon DEF WorkerLocks
    <3> QED BY <3>1, <1>7, <2>1, <2>2, Zenon DEF WorkerLocks
  <2> QED BY <2>4, <2>6, <2>7, <2>8, <2>9, <2>10, <2>11, Zenon DEF PoolInv
<1>10. DoneInv' /\ ListInv'
  BY DoneSame, Zenon DEF IInv, DoneInv, ListInv, getPoolMember, listVars, doneVars
<1> QED BY <1>7, <1>8, <1>9, <1>10, Zenon DEF IInv

LEMMA lockContextStep ==
    ASSUME IInv, NEW w \in Workers, lockContext(w)
    PROVE  IInv'
<1> DEFINE c == work[w].ctx
           r == [work[w] EXCEPT !.at = "run"]
<1>1. work[w] \in WorkRec /\ Tidy(work[w]) /\ work[w].at = "lock"
  BY Zenon DEF IInv, WorkInv, lockContext
<1>2. c \in Contexts /\ mutex[c] = "none" /\ mutex' = [mutex EXCEPT ![c] = w]
  BY <1>1, WorkFields, Zenon DEF Tidy, lockContext
<1>3. work' = [work EXCEPT ![w] = r]
  BY Zenon DEF lockContext, IInv, WorkInv
<1>4. /\ r \in WorkRec /\ r.at = "run" /\ r.ctx = c /\ r.cmd = work[w].cmd /\ r.fields = work[w].fields
      /\ r.fn = work[w].fn /\ r.pos = work[w].pos /\ r.found = work[w].found
      /\ r.always = work[w].always /\ r.ever = work[w].ever
  BY <1>1, Zenon DEF WorkRec, Ats
<1> HIDE DEF r, c
<1>5. Tidy(r)
  BY <1>1, <1>2, <1>4, ContextsAssumption, Zenon DEF Tidy
<1>6. WorkInv' /\ work'[w] = r /\ \A v \in Workers \ {w} : work'[v] = work[v]
  BY <1>3, <1>4, <1>5, OneMoves, Zenon DEF IInv
<1>7. ReadInv'
  <2>1. ReadOK(r, builtin, lists)
    BY <1>1, <1>4, ReadsOn, Zenon DEF IInv, ReadInv
  <2> QED BY <2>1, <1>6, Zenon DEF IInv, ReadInv, lockContext, listVars
<1>8. PoolInv'
  <2>1. PoolType /\ NotShared /\ NotFree /\ NoneLost /\ RunsLocked /\ ConsoleLocks /\ WorkerLocks
    BY Zenon DEF IInv, PoolInv
  <2>2. Free' = Free /\ lua_pool' = lua_pool /\ console' = console
    BY Zenon DEF Free, lockContext
  <2>3. \A v \in Workers : work'[v].ctx = work[v].ctx
    BY <1>4, <1>6, Zenon DEF c
  <2>4. mutex' \in [Contexts -> Workers \union {"none", "console"}] /\ mutex'[c] = w
        /\ \A d \in Contexts \ {c} : mutex'[d] = mutex[d]
    BY <1>2, <2>1, Zenon DEF PoolType
  <2>5. PoolType'
    BY <2>1, <2>2, <2>4, Zenon DEF PoolType
  <2>6. NotShared' /\ NotFree' /\ NoneLost'
    BY <2>1, <2>2, <2>3 DEF NotShared, NotFree, NoneLost
  <2>7. RunsLocked'
    <3> SUFFICES ASSUME NEW v \in Workers, work'[v].at = "run" PROVE mutex'[work'[v].ctx] = v
      BY Zenon DEF RunsLocked
    <3>1. CASE v = w
      BY <3>1, <2>4, <1>6, <1>4, Zenon
    <3>2. CASE v # w
      <4>1. work[v].at = "run" /\ work[v] \in WorkRec /\ Tidy(work[v])
        BY <3>2, <1>6, Zenon DEF IInv, WorkInv
      <4>2. work[v].ctx \in Contexts /\ work[v].ctx # "none"
        BY <4>1, WorkFields, Zenon DEF Tidy
      <4>3. work[v].ctx # c
        BY <3>2, <4>2, <2>1, Zenon DEF NotShared, c
      <4> QED BY <4>1, <4>2, <4>3, <2>1, <2>3, <2>4, Zenon DEF RunsLocked
    <3> QED BY <3>1, <3>2, Zenon
  <2>8. ConsoleLocks'
    BY <2>1, <2>2, <2>4, CommandsAssumption, Zenon DEF ConsoleLocks
  <2>9. WorkerLocks'
    <3> SUFFICES ASSUME NEW d \in Contexts, mutex'[d] \in Workers
                 PROVE  work'[mutex'[d]].at = "run" /\ work'[mutex'[d]].ctx = d
      BY Zenon DEF WorkerLocks
    <3>1. CASE d = c
      BY <3>1, <2>4, <1>4, <1>6, Zenon
    <3>2. CASE d # c
      <4>1. mutex'[d] = mutex[d]
        BY <3>2, <2>4, Zenon
      <4>2. mutex[d] # w
        BY <1>1, <2>1, Zenon DEF WorkerLocks
      <4> QED BY <4>1, <4>2, <1>6, <2>1 DEF WorkerLocks
    <3> QED BY <3>1, <3>2, Zenon
  <2> QED BY <2>5, <2>6, <2>7, <2>8, <2>9, Zenon DEF PoolInv
<1>9. DoneInv' /\ ListInv'
  BY DoneSame, Zenon DEF IInv, DoneInv, ListInv, lockContext, listVars, doneVars
<1> QED BY <1>6, <1>7, <1>8, <1>9, Zenon DEF IInv

\* A context that is given back is free, and so is its lock.
LEMMA returnPoolMemberStep ==
    ASSUME IInv, NEW w \in Workers, work[w].at = "run", returnPoolMember(w),
           NEW r \in WorkRec, Tidy(r), r.ctx = "none", work' = [work EXCEPT ![w] = r],
           ReadOK(r, builtin, lists), UNCHANGED <<builtin, lists>>, DoneInv'
    PROVE  IInv'
<1> DEFINE c == work[w].ctx
<1>1. work[w] \in WorkRec /\ Tidy(work[w]) /\ r.at # "run"
  BY Zenon DEF IInv, WorkInv, Tidy
<1>2. c \in Contexts /\ c # "none" /\ mutex' = [mutex EXCEPT ![c] = "none"] /\ lua_pool' = Append(lua_pool, c)
      /\ console' = console
  BY <1>1, WorkFields, Zenon DEF Tidy, returnPoolMember
<1>3. WorkInv' /\ work'[w] = r /\ \A v \in Workers \ {w} : work'[v] = work[v]
  BY OneMoves, Zenon DEF IInv
<1>4. ReadInv'
  BY <1>3, Zenon DEF IInv, ReadInv
<1>5. PoolInv'
  <2>1. PoolType /\ NotShared /\ NotFree /\ NoneLost /\ RunsLocked /\ ConsoleLocks /\ WorkerLocks
    BY Zenon DEF IInv, PoolInv
  <2>2. lua_pool \in Seq(Contexts) /\ c \notin Free
    BY <2>1, Zenon DEF PoolType, NotFree
  <2>3. \A v \in Workers \ {w} : work[v].ctx # c
    BY <1>2, <2>1, Zenon DEF NotShared
  <2>4. /\ mutex' \in [Contexts -> Workers \union {"none", "console"}] /\ mutex'[c] = "none"
        /\ \A d \in Contexts \ {c} : mutex'[d] = mutex[d]
    BY <1>2, <2>1, Zenon DEF PoolType
  <2> HIDE DEF c
  <2>5. /\ lua_pool' \in Seq(Contexts) /\ Len(lua_pool) \in Nat /\ DOMAIN lua_pool = 1 .. Len(lua_pool)
        /\ DOMAIN lua_pool' = 1 .. Len(lua_pool) + 1 /\ lua_pool'[Len(lua_pool) + 1] = c
        /\ \A i \in 1 .. Len(lua_pool) : lua_pool'[i] = lua_pool[i]
    BY <1>2, <2>2
  <2>6. /\ \A i \in DOMAIN lua_pool : i \in DOMAIN lua_pool' /\ lua_pool'[i] = lua_pool[i]
        /\ \A i \in DOMAIN lua_pool' : i \in DOMAIN lua_pool \/ i = Len(lua_pool) + 1
        /\ Len(lua_pool) + 1 \in DOMAIN lua_pool'
    BY <2>5
  <2>7. Free' = Free \union {c}
    BY <2>5, <2>6, Zenon DEF Free
  <2>8. PoolType'
    <3>1. \A i \in DOMAIN lua_pool : lua_pool[i] # c
      BY <2>2, Zenon DEF Free
    <3>2. \A i, j \in DOMAIN lua_pool : lua_pool[i] = lua_pool[j] => i = j
      BY <2>1, Zenon DEF PoolType
    <3>3. \A i, j \in DOMAIN lua_pool' : lua_pool'[i] = lua_pool'[j] => i = j
      BY <2>5, <2>6, <3>1, <3>2, Zenon
    <3> QED BY <1>2, <2>1, <2>4, <2>5, <3>3, Zenon DEF PoolType
  <2>9. NotShared'
    <3> SUFFICES ASSUME NEW v \in Workers, NEW u \in Workers, v # u, work'[v].ctx # "none"
                 PROVE  work'[v].ctx # work'[u].ctx
      BY Zenon DEF NotShared
    <3>1. v # w /\ work'[v] = work[v]
      BY <1>3, Zenon
    <3>2. CASE u = w
      BY <3>2, <1>3, Zenon
    <3>3. CASE u # w
      BY <3>1, <3>3, <1>3, <2>1 DEF NotShared
    <3> QED BY <3>2, <3>3, Zenon
  <2>10. NotFree'
    <3>1. \A d \in Free' : d \in Contexts
      BY <2>5, <2>6 DEF Free
    <3>2. work'[w].ctx \notin Free'
      BY <3>1, <1>3, ContextsAssumption, Zenon
    <3>3. \A v \in Workers \ {w} : work'[v].ctx \notin Free'
      BY <1>3, <2>1, <2>3, <2>7 DEF NotFree
    <3> QED BY <3>2, <3>3, Zenon DEF NotFree
  <2>11. NoneLost'
    <3> SUFFICES ASSUME NEW d \in Contexts, d \notin Free' PROVE \E v \in Workers : work'[v].ctx = d
      BY Zenon DEF NoneLost
    <3>1. PICK v \in Workers : work[v].ctx = d
      BY <2>1, <2>7, Zenon DEF NoneLost
    <3>2. v # w
      BY <3>1, <2>7, Zenon DEF c
    <3> QED BY <3>1, <3>2, <1>3, Zenon
  <2>12. RunsLocked'
    <3> SUFFICES ASSUME NEW v \in Workers, work'[v].at = "run" PROVE mutex'[work'[v].ctx] = v
      BY Zenon DEF RunsLocked
    <3>1. v # w
      BY <1>1, <1>3, Zenon
    <3>2. work[v].at = "run" /\ work[v] \in WorkRec /\ Tidy(work[v]) /\ work'[v] = work[v]
      BY <3>1, <1>3, Zenon DEF IInv, WorkInv
    <3>3. work[v].ctx \in Contexts
      BY <3>2, WorkFields, Zenon DEF Tidy
    <3> QED BY <3>1, <3>2, <3>3, <2>1, <2>3, <2>4 DEF RunsLocked
  <2>13. ConsoleLocks'
    BY <1>2, <2>1, <2>4, Zenon DEF ConsoleLocks
  <2>14. WorkerLocks'
    <3> SUFFICES ASSUME NEW d \in Contexts, mutex'[d] \in Workers
                 PROVE  work'[mutex'[d]].at = "run" /\ work'[mutex'[d]].ctx = d
      BY Zenon DEF WorkerLocks
    <3>1. d # c /\ mutex'[d] = mutex[d]
      BY <2>4, CommandsAssumption, Zenon
    <3>2. work[mutex[d]].at = "run" /\ work[mutex[d]].ctx = d
      BY <3>1, <2>1, Zenon DEF WorkerLocks
    <3>3. mutex[d] # w
      BY <3>1, <3>2, Zenon DEF c
    <3> QED BY <3>1, <3>2, <3>3, <1>3, Zenon
  <2> QED BY <2>8, <2>9, <2>10, <2>11, <2>12, <2>13, <2>14, Zenon DEF PoolInv
<1> QED BY <1>3, <1>4, <1>5, Zenon DEF IInv, ListInv

LEMMA canonicalizeReturnsStep ==
    ASSUME IInv, NEW w \in Workers, canonicalizeReturns(w)
    PROVE  IInv'
<1> DEFINE r == [work[w] EXCEPT !.at = "act", !.fn = "none", !.ctx = "none"]
<1>1. work[w] \in WorkRec /\ Tidy(work[w]) /\ work[w].at = "run" /\ returnPoolMember(w)
  BY Zenon DEF IInv, WorkInv, canonicalizeReturns, Runs
<1>2. work' = [work EXCEPT ![w] = r]
  BY Zenon DEF canonicalizeReturns, IInv, WorkInv
<1>3. /\ r \in WorkRec /\ r.at = "act" /\ r.ctx = "none" /\ r.cmd = work[w].cmd /\ r.fields = work[w].fields
      /\ r.fn = "none" /\ r.pos = work[w].pos /\ r.found = work[w].found
      /\ r.always = work[w].always /\ r.ever = work[w].ever
  BY <1>1, Zenon DEF WorkRec, Ats, Fns
<1> HIDE DEF r
<1>4. Tidy(r)
  BY <1>1, <1>3, Zenon DEF Tidy
<1>5. ReadOK(r, builtin, lists)
  BY <1>1, <1>3, ReadsOn, Zenon DEF IInv, ReadInv
<1>6. UNCHANGED <<builtin, lists>> /\ DoneInv'
  BY DoneSame, Zenon DEF canonicalizeReturns, Runs, returnPoolMember, listVars, doneVars, IInv, DoneInv
<1> QED BY <1>1, <1>2, <1>3, <1>4, <1>5, <1>6, returnPoolMemberStep, Zenon

\* A request that is answered after its function has run.
LEMMA ReturnAnswers ==
    ASSUME IInv, NEW w \in Workers, work[w].at = "run", returnPoolMember(w),
           NEW cmd, NEW code, NEW status, Answer(w, cmd, code, status),
           UNCHANGED <<builtin, lists>>, DoneInv'
    PROVE  IInv'
<1>1. work' = [work EXCEPT ![w] = Idle]
  BY Zenon DEF Answer
<1> QED BY <1>1, IdleOK, returnPoolMemberStep, Zenon

LEMMA LuaReturnsStep ==
    ASSUME IInv, NEW w \in Workers, LuaReturns(w)
    PROVE  IInv'
<1> USE DEF Events
<1>1. DoneInv /\ work[w] \in WorkRec /\ Tidy(work[w])
  BY Zenon DEF IInv, WorkInv
<1>2. ASSUME returnPoolMember(w) PROVE commands' = commands
  BY <1>2, Zenon DEF returnPoolMember
<1>3. CASE allowReturns(w)
  <2>1. PICK status \in -1 .. 1 : Answer(w, "allow", 200, status)
    BY <1>3, Zenon DEF allowReturns
  <2>2. StatsType'
    BY <1>1, <1>3, BumpDone, Zenon DEF allowReturns
  <2>3. AnsweredType'
    BY <1>1, <2>1, AnswerDone, CmdNames
  <2>4. EventsType'
    BY <1>1, <1>3, RaiseDone, Zenon DEF allowReturns
  <2>5. work[w].at = "run" /\ returnPoolMember(w) /\ UNCHANGED <<builtin, lists, requests>>
    BY <1>3, Zenon DEF allowReturns, Runs, listVars
  <2>6. DoneInv'
    BY <1>1, <1>2, <2>2, <2>3, <2>4, <2>5, DoneSame, Zenon DEF DoneInv
  <2> QED BY <2>1, <2>5, <2>6, ReturnAnswers, Zenon
<1>4. CASE reportReturns(w)
  <2>1. Answer(w, "report", 200, 0)
    BY <1>4, Zenon DEF reportReturns
  <2>2. AnsweredType'
    BY <1>1, <2>1, AnswerDone, CmdNames
  <2>3. EventsType'
    BY <1>1, <1>4, RaiseDone, Zenon DEF reportReturns
  <2>4. work[w].at = "run" /\ returnPoolMember(w) /\ UNCHANGED <<builtin, lists, requests, stats>>
    BY <1>4, Zenon DEF reportReturns, Runs, listVars
  <2>5. DoneInv'
    BY <1>1, <1>2, <2>2, <2>3, <2>4, DoneSame, Zenon DEF DoneInv
  <2> QED BY <2>1, <2>4, <2>5, ReturnAnswers, Zenon
<1>5. CASE resetReturns(w)
  <2>1. PICK code \in {200, 500} : Answer(w, "reset", code, 0)
    BY <1>5, Zenon DEF resetReturns
  <2>2. AnsweredType'
    BY <1>1, <2>1, AnswerDone, CmdNames
  <2>3. EventsType'
    BY <1>1, <1>5, RaiseDone DEF resetReturns
  <2>4. work[w].at = "run" /\ returnPoolMember(w) /\ UNCHANGED <<builtin, lists, requests, stats>>
    BY <1>5 DEF resetReturns, Runs, listVars
  <2>5. DoneInv'
    BY <1>1, <1>2, <2>2, <2>3, <2>4, DoneSame DEF DoneInv
  <2> QED BY <2>1, <2>4, <2>5, ReturnAnswers
<1>6. CASE customReturns(w)
  <2>1. Answer(w, "custom", 200, 0)
    BY <1>6, Zenon DEF customReturns
  <2>2. AnsweredType'
    BY <1>1, <2>1, AnswerDone, CmdNames
  <2>3. work[w].at = "run" /\ returnPoolMember(w) /\ UNCHANGED <<builtin, lists, requests, stats, events>>
    BY <1>6, Zenon DEF customReturns, Runs, listVars
  <2>4. DoneInv'
    BY <1>1, <1>2, <2>2, <2>3, DoneSame, Zenon DEF DoneInv
  <2> QED BY <2>1, <2>3, <2>4, ReturnAnswers, Zenon
<1>7. CASE LuaThrows(w)
  <2>1. Answer(w, work[w].cmd, 500, 0)
    BY <1>7, Zenon DEF LuaThrows
  <2>2. work[w].at = "run" /\ returnPoolMember(w) /\ UNCHANGED <<builtin, lists, requests, stats, events>>
    BY <1>7, Zenon DEF LuaThrows, Runs, listVars
  <2>3. work[w].cmd \in Cmds
    BY <1>1, <2>2, Zenon DEF Tidy
  <2>4. AnsweredType'
    BY <1>1, <2>1, <2>3, AnswerDone
  <2>5. DoneInv'
    BY <1>1, <1>2, <2>2, <2>4, DoneSame, Zenon DEF DoneInv
  <2> QED BY <2>1, <2>2, <2>5, ReturnAnswers
<1> QED BY <1>3, <1>4, <1>5, <1>6, <1>7, canonicalizeReturnsStep, Zenon DEF LuaReturns

\* The console takes and releases one lock after the other.
LEMMA consoleStep ==
    ASSUME IInv, consoleCommand \/ consoleLock \/ consoleRun
    PROVE  IInv'
<1>1. /\ PoolType /\ NotShared /\ NotFree /\ NoneLost /\ RunsLocked /\ ConsoleLocks /\ WorkerLocks
      /\ WorkInv /\ DoneInv
  BY Zenon DEF IInv, PoolInv
<1>2. UNCHANGED <<lua_pool, work, requests, builtin, lists, stats, answered, events>>
  BY Zenon DEF consoleCommand, consoleLock, consoleRun, listVars, doneVars
<1>3. WorkInv' /\ ListInv' /\ ReadInv'
  BY <1>2, Zenon DEF IInv, WorkInv, ListInv, ReadInv
<1>4. NotShared' /\ NotFree' /\ NoneLost'
  BY <1>1, <1>2 DEF NotShared, NotFree, NoneLost, Free
<1>5. CASE consoleCommand
  <2>1. console = <<>> /\ console' = lua_read_only /\ mutex' = mutex /\ commands < MaxConsole /\ commands' = commands + 1
    BY <1>5, Zenon DEF consoleCommand
  <2>2. PoolType'
    BY <1>1, <1>2, <2>1, ContextsAssumption, Zenon DEF PoolType
  <2>3. RunsLocked' /\ ConsoleLocks' /\ WorkerLocks'
    BY <1>1, <1>2, <2>1, Zenon DEF RunsLocked, ConsoleLocks, WorkerLocks
  <2>4. DoneInv'
    BY <1>1, <1>2, <2>1, DoneSame, CommandsAssumption DEF DoneInv, CountType
  <2> QED BY <1>3, <1>4, <2>2, <2>3, <2>4, Zenon DEF IInv, PoolInv
<1>6. CASE consoleLock \/ consoleRun
  <2> DEFINE c == Head(console)
  <2>1. console # <<>> /\ c \in Contexts /\ commands' = commands
    BY <1>1, <1>6 DEF consoleLock, consoleRun, PoolType
  <2> HIDE DEF c
  <2>2. DoneInv'
    BY <1>1, <1>2, <2>1, DoneSame, Zenon DEF DoneInv
  <2>3. \A w \in Workers : work[w].at = "run" => work[w].ctx \in Contexts
    BY <1>1, WorkFields, Zenon DEF WorkInv, Tidy
  <2>4. mutex[c] \notin Workers
    BY <1>6, CommandsAssumption, Zenon DEF consoleLock, consoleRun, c
  <2>5. RunsLocked' /\ WorkerLocks'
    <3>1. PICK m \in {"none", "console"} : mutex' = [mutex EXCEPT ![c] = m]
      BY <1>6, Zenon DEF consoleLock, consoleRun, c
    <3>2. mutex'[c] \notin Workers /\ \A d \in Contexts \ {c} : mutex'[d] = mutex[d]
      BY <1>1, <2>1, <3>1, CommandsAssumption, Zenon DEF PoolType
    <3>3. \A w \in Workers : work[w].at = "run" => work[w].ctx # c
      BY <1>1, <2>4, Zenon DEF RunsLocked
    <3>4. RunsLocked'
      BY <1>1, <1>2, <2>3, <3>2, <3>3, Zenon DEF RunsLocked
    <3>5. WorkerLocks'
      BY <1>1, <1>2, <3>2, Zenon DEF WorkerLocks
    <3> QED BY <3>4, <3>5, Zenon
  <2>6. CASE consoleLock
    <3>1. console' = console /\ mutex' = [mutex EXCEPT ![c] = "console"]
      BY <2>6, Zenon DEF consoleLock, c
    <3>2. PoolType'
      BY <1>1, <1>2, <3>1, Zenon DEF PoolType
    <3>3. ConsoleLocks'
      BY <1>1, <2>1, <3>1, Zenon DEF ConsoleLocks, PoolType, c
    <3> QED BY <1>3, <1>4, <2>2, <2>5, <3>2, <3>3, Zenon DEF IInv, PoolInv
  <2>7. CASE consoleRun
    <3>1. console' \in {Tail(console), <<>>} /\ mutex' = [mutex EXCEPT ![c] = "none"]
      BY <2>7, Zenon DEF consoleRun, c
    <3>2. console' \in Seq(Contexts)
      <4>1. console \in Seq(Contexts)
        BY <1>1, Zenon DEF PoolType
      <4>2. Tail(console) \in Seq(Contexts) /\ <<>> \in Seq(Contexts)
        BY <2>1, <4>1
      <4> QED BY <3>1, <4>2, Zenon
    <3>3. PoolType'
      BY <1>1, <1>2, <3>1, <3>2, Zenon DEF PoolType
    <3>4. ConsoleLocks'
      <4>1. \A d \in Contexts : mutex'[d] # "console"
        BY <1>1, <2>1, <3>1, Zenon DEF ConsoleLocks, PoolType, c
      <4> QED BY <4>1, Zenon DEF ConsoleLocks
    <3> QED BY <1>3, <1>4, <2>2, <2>5, <3>3, <3>4, Zenon DEF IInv, PoolInv
  <2> QED BY <1>6, <2>6, <2>7, Zenon
<1> QED BY <1>5, <1>6, Zenon

-----------------------------------------------------------------------------
(***************************************************************************)
(* Requests arrive.                                                        *)
(***************************************************************************)

LEMMA ArriveDone ==
    ASSUME DoneInv, NEW w, Arrive(w)
    PROVE  CountType' /\ UNCHANGED <<builtin, lists, lua_pool, mutex, console>> /\ work[w].at = "idle"
BY CommandsAssumption DEF DoneInv, CountType, Arrive, listVars, luaVars

LEMMA RefusedStep ==
    ASSUME IInv, NEW w \in Workers, NEW cmd \in Cmds, doFilterRefuses(w, cmd) \/ ParseFails(w, cmd)
    PROVE  IInv'
<1>1. DoneInv
  BY Zenon DEF IInv
<1>2. Arrive(w) /\ events' = events
  BY Zenon DEF doFilterRefuses, ParseFails
<1>3. PICK code \in {200, 400, 401, 500} : Answer(w, cmd, code, 0)
  BY DEF doFilterRefuses, ParseFails
<1>4. AnsweredType'
  BY <1>1, <1>3, AnswerDone
<1>5. StatsType'
  BY <1>1, DoneSame, BumpDone DEF doFilterRefuses, ParseFails
<1>6. CountType' /\ UNCHANGED <<builtin, lists, lua_pool, mutex, console>> /\ work[w].at \in {"idle", "act", "list"}
  BY <1>1, <1>2, ArriveDone
<1>7. DoneInv'
  BY <1>1, <1>2, <1>4, <1>5, <1>6, DoneSame DEF DoneInv
<1> QED BY <1>3, <1>6, <1>7, AnswerStep

\* A handler that starts has seen nothing yet.
LEMMA StartOK ==
    ASSUME NEW r \in WorkRec, NEW enabled, NEW ls, r.pos = 1, r.found = {}, r.fn # "allow",
           r.cmd \in ReadCmds => r.always = ls /\ r.ever = ls
    PROVE  ReadOK(r, enabled, ls)
<1>1. AllowOK(r, enabled)
  BY DEF AllowOK
<1>2. \A l : ShowOK(r, l)
  BY DEF ShowOK
<1>3. StatsOK(r)
  BY DEF StatsOK
<1> QED BY <1>1, <1>2, <1>3, Zenon DEF ReadOK

LEMMA HandleStep ==
    ASSUME IInv, NEW w \in Workers, NEW cmd \in Cmds, NEW fields \in SUBSET Fields, Handle(w, cmd, fields)
    PROVE  IInv'
<1> DEFINE start == [Idle EXCEPT !.cmd = cmd, !.fields = fields,
                                 !.always = IF cmd \in ReadCmds THEN lists ELSE @,
                                 !.ever = IF cmd \in ReadCmds THEN lists ELSE @]
           seen == IF cmd \in ReadCmds THEN lists ELSE NoKeys
           custom == [start EXCEPT !.at = "get", !.fn = "custom"]
           canonicalize == [start EXCEPT !.at = "get", !.fn = "canonicalize"]
           act == [start EXCEPT !.at = "act"]
<1>1. DoneInv /\ ListInv
  BY Zenon DEF IInv
<1>2. PICK r \in {custom, canonicalize, act} : work' = [work EXCEPT ![w] = r]
  <2>1. work' = [work EXCEPT ![w] =
            IF cmd = "custom" THEN custom ELSE IF cmd \in {"allow", "report"} \/ "login" \in fields THEN canonicalize ELSE act]
    BY Zenon DEF Handle
  <2> HIDE DEF custom, canonicalize, act
  <2> QED BY <2>1, Zenon
<1>3. seen \in [Lists -> SUBSET Keys]
  BY <1>1, Zenon DEF ListInv, NoKeys
<1>4. /\ start \in WorkRec /\ start.cmd = cmd /\ start.fields = fields /\ start.fn = "none" /\ start.ctx = "none"
      /\ start.pos = 1 /\ start.found = {} /\ start.always = seen /\ start.ever = seen
  <2>1. start = [Idle EXCEPT !.cmd = cmd, !.fields = fields, !.always = seen, !.ever = seen]
    BY Zenon DEF Idle
  <2>2. /\ Idle.fn = "none" /\ Idle.ctx = "none" /\ Idle.pos = 1 /\ Idle.found = {}
    BY Zenon DEF Idle
  <2> HIDE DEF start, seen
  <2> QED BY <1>3, <2>1, <2>2, IdleOK, Zenon DEF WorkRec
<1> HIDE DEF start, seen
<1>5. /\ custom \in WorkRec /\ custom.at = "get" /\ custom.cmd = cmd /\ custom.fn = "custom" /\ custom.ctx = "none"
      /\ custom.pos = 1 /\ custom.found = {} /\ custom.always = seen /\ custom.ever = seen
  BY <1>4, Zenon DEF WorkRec, Ats, Fns
<1>6. /\ canonicalize \in WorkRec /\ canonicalize.at = "get" /\ canonicalize.cmd = cmd
      /\ canonicalize.fn = "canonicalize" /\ canonicalize.ctx = "none"
      /\ canonicalize.pos = 1 /\ canonicalize.found = {} /\ canonicalize.always = seen /\ canonicalize.ever = seen
  BY <1>4, Zenon DEF WorkRec, Ats, Fns
<1>7. /\ act \in WorkRec /\ act.at = "act" /\ act.cmd = cmd /\ act.fn = "none" /\ act.ctx = "none"
      /\ act.pos = 1 /\ act.found = {} /\ act.always = seen /\ act.ever = seen
  BY <1>4, Zenon DEF WorkRec, Ats, Fns
<1> HIDE DEF custom, canonicalize, act
<1>8. Tidy(r) /\ ReadOK(r, builtin, lists) /\ r \in WorkRec /\ r.ctx = "none" /\ r.at # "run"
  <2>1. /\ r \in WorkRec /\ r.at \in {"get", "act"} /\ r.cmd = cmd /\ r.fn # "allow" /\ r.ctx = "none"
        /\ r.pos = 1 /\ r.found = {} /\ r.always = seen /\ r.ever = seen /\ (r.at = "act" => r.fn = "none")
    BY <1>2, <1>5, <1>6, <1>7
  <2>2. Tidy(r)
    BY <2>1, Zenon DEF Tidy
  <2>3. ReadOK(r, builtin, lists)
    BY <2>1, StartOK, Zenon DEF seen
  <2> QED BY <2>1, <2>2, <2>3, Zenon
<1>9. CountType' /\ UNCHANGED <<builtin, lists, lua_pool, mutex, console>> /\ work[w].at = "idle"
  BY <1>1, ArriveDone, Zenon DEF Handle
<1>10. DoneInv'
  <2>1. AnsweredType'
    BY <1>1 DEF DoneInv, AnsweredType, Answers, NoAnswer, Handle
  <2>2. StatsType' /\ EventsType'
    BY <1>1, DoneSame, BumpDone, Zenon DEF Handle
  <2> QED BY <2>1, <2>2, <1>9, Zenon DEF DoneInv
<1>11. work[w].ctx = "none"
  BY <1>9, Zenon DEF IInv, WorkInv, Tidy
<1> QED BY <1>2, <1>8, <1>9, <1>10, <1>11, HandlerStep, Zenon

-----------------------------------------------------------------------------
(***************************************************************************)
(* The lists change under the requests that read them.                     *)
(***************************************************************************)

\* The history of one request, when list l becomes keys.
NotedRec(r, l, keys) == [r EXCEPT !.always[l] = @ \intersect keys, !.ever[l] = @ \union keys]

LEMMA NotedOne ==
    ASSUME NEW r \in WorkRec, Tidy(r), NEW enabled, NEW ls \in [Lists -> SUBSET Keys], ReadOK(r, enabled, ls),
           NEW l \in Lists, NEW keys \in SUBSET Keys, r.cmd \in ReadCmds
    PROVE  /\ NotedRec(r, l, keys) \in WorkRec /\ Tidy(NotedRec(r, l, keys))
           /\ ReadOK(NotedRec(r, l, keys), enabled, [ls EXCEPT ![l] = keys])
           /\ NotedRec(r, l, keys).at = r.at /\ NotedRec(r, l, keys).ctx = r.ctx /\ NotedRec(r, l, keys).cmd = r.cmd
<1> DEFINE q == NotedRec(r, l, keys)
           a == [r.always EXCEPT ![l] = @ \intersect keys]
           e == [r.ever EXCEPT ![l] = @ \union keys]
<1>1. /\ r.always \in [Lists -> SUBSET Keys] /\ r.ever \in [Lists -> SUBSET Keys]
      /\ a \in [Lists -> SUBSET Keys] /\ e \in [Lists -> SUBSET Keys]
  BY WorkFields, Zenon
<1>2. /\ \A m \in Lists : a[m] \subseteq r.always[m] /\ r.ever[m] \subseteq e[m]
      /\ a[l] \subseteq keys /\ keys \subseteq e[l]
      /\ \A m \in Lists \ {l} : a[m] = r.always[m] /\ e[m] = r.ever[m]
  BY <1>1, Zenon
<1>3. q = [r EXCEPT !.always = a, !.ever = e]
  BY Zenon DEF WorkRec, NotedRec
<1> HIDE DEF a, e, q
<1>4. /\ q \in WorkRec /\ q.at = r.at /\ q.cmd = r.cmd /\ q.fields = r.fields /\ q.fn = r.fn /\ q.ctx = r.ctx
      /\ q.pos = r.pos /\ q.found = r.found /\ q.always = a /\ q.ever = e
  BY <1>1, <1>3, Zenon DEF WorkRec
<1>5. Tidy(q)
  <2>1. \A m \in Lists : r.always[m] \subseteq r.ever[m]
    BY Zenon DEF Tidy
  <2>2. \A m \in Lists : a[m] \subseteq e[m]
    BY <1>2, <2>1, Zenon
  <2> QED BY <1>4, <2>2, Zenon DEF Tidy
<1>6. \A m \in Lists : q.always[m] \subseteq [ls EXCEPT ![l] = keys][m] /\ [ls EXCEPT ![l] = keys][m] \subseteq q.ever[m]
  <2>1. \A m \in Lists : r.always[m] \subseteq ls[m] /\ ls[m] \subseteq r.ever[m]
    BY Zenon DEF ReadOK
  <2> QED BY <1>2, <1>4, <2>1, Zenon
<1>7. r.cmd = "allow" => AllowOK(q, enabled)
  <2> SUFFICES ASSUME AllowOK(r, enabled) PROVE AllowOK(q, enabled)
    BY Zenon DEF ReadOK
  <2>1. \A m \in q.found : m \in Lists /\ m \in enabled /\ \E k \in q.ever[m] : Looked(q, k)
    BY <1>2, <1>4, Zenon DEF AllowOK, Looked
  <2>2. \A p \in 1 .. q.pos - 1 :
          ListAt(p) \in enabled /\ ListAt(p) \notin q.found /\ Looked(q, KeyAt(p)) => KeyAt(p) \notin q.always[ListAt(p)]
    <3>1. \A p \in 1 .. q.pos - 1 : ListAt(p) \in Lists
      BY Zenon DEF ListAt, Lists
    <3> QED BY <1>2, <1>4, <3>1, Zenon DEF AllowOK, Looked
  <2> QED BY <1>4, <2>1, <2>2, Zenon DEF AllowOK
<1>8. r.cmd \in ShowCmds => ShowOK(q, ShownList[q.cmd])
  <2> SUFFICES ASSUME r.cmd \in ShowCmds PROVE ShowOK(q, ShownList[q.cmd])
    BY Zenon
  <2>1. ShownList[q.cmd] \in Lists /\ ShowOK(r, ShownList[q.cmd])
    BY <1>4, CmdSets, Zenon DEF ReadOK
  <2> QED BY <1>2, <1>4, <2>1, Zenon DEF ShowOK
<1>9. r.cmd = "getDBStats" => StatsOK(q)
  <2> SUFFICES ASSUME StatsOK(r) PROVE StatsOK(q)
    BY Zenon DEF ReadOK
  <2>1. "bl" \in Lists /\ "wl" \in Lists
    BY Zenon DEF Lists
  <2> QED BY <1>2, <1>4, <2>1, Zenon DEF StatsOK
<1>10. ReadOK(q, enabled, [ls EXCEPT ![l] = keys])
  BY <1>4, <1>6, <1>7, <1>8, <1>9, Zenon DEF ReadOK
<1> QED BY <1>4, <1>5, <1>10, Zenon DEF q

LEMMA NotedAll ==
    ASSUME WorkInv, ListInv, ReadInv, NEW l \in Lists, NEW keys \in SUBSET Keys
    PROVE  LET noted == Noted(work, l, keys) IN
           /\ noted \in [Workers -> WorkRec]
           /\ \A v \in Workers :
                /\ Tidy(noted[v]) /\ noted[v].at = work[v].at /\ noted[v].ctx = work[v].ctx /\ noted[v].cmd = work[v].cmd
                /\ ReadOK(noted[v], builtin, [lists EXCEPT ![l] = keys])
                /\ work[v].cmd \notin ReadCmds => noted[v] = work[v]
<1> DEFINE noted == Noted(work, l, keys)
           Q(v) == NotedRec(work[v], l, keys)
<1>1. noted = [v \in Workers |-> IF work[v].cmd \in ReadCmds THEN Q(v) ELSE work[v]]
  BY Zenon DEF Noted, NotedRec
<1>2. ASSUME NEW v \in Workers
      PROVE  /\ noted[v] \in WorkRec /\ Tidy(noted[v])
             /\ noted[v].at = work[v].at /\ noted[v].ctx = work[v].ctx /\ noted[v].cmd = work[v].cmd
             /\ ReadOK(noted[v], builtin, [lists EXCEPT ![l] = keys])
             /\ work[v].cmd \notin ReadCmds => noted[v] = work[v]
  <2>1. work[v] \in WorkRec /\ Tidy(work[v]) /\ ReadOK(work[v], builtin, lists) /\ lists \in [Lists -> SUBSET Keys]
    BY Zenon DEF WorkInv, ReadInv, ListInv
  <2>2. CASE work[v].cmd \in ReadCmds
    <3>1. noted[v] = Q(v)
      BY <1>1, <2>2, Zenon
    <3>2. /\ Q(v) \in WorkRec /\ Tidy(Q(v)) /\ ReadOK(Q(v), builtin, [lists EXCEPT ![l] = keys])
          /\ Q(v).at = work[v].at /\ Q(v).ctx = work[v].ctx /\ Q(v).cmd = work[v].cmd
      BY <2>1, <2>2, NotedOne, ZenonT(30)
    <3> HIDE DEF Q, noted
    <3> QED BY <2>2, <3>1, <3>2, Zenon
  <2>3. CASE work[v].cmd \notin ReadCmds
    <3>1. noted[v] = work[v]
      BY <1>1, <2>3, Zenon
    <3>2. ReadOK(work[v], builtin, [lists EXCEPT ![l] = keys])
      BY <2>3, CmdNames, Zenon DEF ReadOK
    <3> HIDE DEF noted
    <3> QED BY <2>1, <3>1, <3>2, Zenon
  <2> QED BY <2>2, <2>3, Zenon
<1>3. noted \in [Workers -> WorkRec]
  <2>1. noted = [v \in Workers |-> noted[v]]
    BY <1>1, Zenon
  <2> HIDE DEF noted
  <2> QED BY <1>2, <2>1, Zenon
<1> HIDE DEF noted
<1> QED BY <1>2, <1>3, Zenon DEF noted

\* A list changes and the handler of w moves on, or none does.
LEMMA ListStep ==
    ASSUME IInv, NEW l \in Lists, NEW keys \in SUBSET Keys, SetList(l, keys), NEW noted, noted = Noted(work, l, keys),
           work' \in [Workers -> WorkRec], UNCHANGED <<lua_pool, mutex, console>>, DoneInv',
           \A v \in Workers :
                \/ work'[v] = noted[v]
                \/ /\ Tidy(work'[v]) /\ work'[v].ctx = work[v].ctx /\ work'[v].at # "run" /\ work[v].at # "run"
                   /\ work'[v].cmd \notin ReadCmds
    PROVE  IInv'
<1>1. lists' = [lists EXCEPT ![l] = keys] /\ builtin' = builtin
  BY Zenon DEF SetList
<1>2. ListInv'
  BY <1>1, Zenon DEF IInv, ListInv
<1>3. \A v \in Workers :
        /\ Tidy(noted[v]) /\ noted[v].at = work[v].at /\ noted[v].ctx = work[v].ctx
        /\ ReadOK(noted[v], builtin, [lists EXCEPT ![l] = keys])
  BY NotedAll, Zenon DEF IInv
<1>4. WorkInv'
  BY <1>3, Zenon DEF WorkInv
<1>5. PoolInv'
  <2>1. \A v \in Workers : work'[v].ctx = work[v].ctx /\ (work'[v].at = "run" <=> work[v].at = "run")
    BY <1>3, Zenon
  <2> QED BY <2>1, ContextsStay, Zenon DEF IInv
<1>6. ReadInv'
  <2> SUFFICES ASSUME NEW v \in Workers PROVE ReadOK(work'[v], builtin', lists')
    BY Zenon DEF ReadInv
  <2>1. CASE work'[v] = noted[v]
    BY <1>1, <1>3, <2>1, Zenon
  <2>2. CASE work'[v].cmd \notin ReadCmds
    BY <2>2, CmdNames, Zenon DEF ReadOK
  <2> QED BY <2>1, <2>2, Zenon
<1> QED BY <1>2, <1>4, <1>5, <1>6, Zenon DEF IInv

LEMMA ChangeStep ==
    ASSUME IInv, NEW l \in Lists, NEW k \in Keys, Change(l, k)
    PROVE  IInv'
<1>1. PICK keys \in SUBSET Keys : SetList(l, keys) /\ work' = Noted(work, l, keys)
  <2> DEFINE keys == IF k \in lists[l] THEN lists[l] \ {k} ELSE lists[l] \union {k}
  <2>1. keys \in SUBSET Keys
    BY Zenon DEF IInv, ListInv
  <2> QED BY <2>1, Zenon DEF Change
<1>2. DoneInv' /\ UNCHANGED <<lua_pool, mutex, console>>
  BY DoneSame, Zenon DEF Change, luaVars, doneVars, IInv, DoneInv
<1>3. work' \in [Workers -> WorkRec]
  BY <1>1, NotedAll, Zenon DEF IInv
<1> QED BY <1>1, <1>2, <1>3, ListStep, Zenon

LEMMA parseAddDelBLWLEntryCmdStep ==
    ASSUME IInv, NEW w \in Workers, parseAddDelBLWLEntryCmd(w)
    PROVE  IInv'
<1> DEFINE cmd == work[w].cmd
           l == ListCmd[cmd][1]
           key == KeyFor(work[w].fields)
           keys == IF ListCmd[cmd][2] THEN lists[l] \union {key} ELSE lists[l] \ {key}
<1>0. /\ work[w].at = "act" /\ cmd \in ListCmds
      /\ \/ /\ SetList(l, keys) /\ answered' = [answered EXCEPT ![w] = <<cmd, 200, 0>>]
            /\ work' = [Noted(work, l, keys) EXCEPT ![w] = Idle]
         \/ Answer(w, cmd, 500, 0) /\ UNCHANGED listVars
      /\ UNCHANGED <<requests, stats, events, luaVars>>
  BY Zenon DEF parseAddDelBLWLEntryCmd
<1> HIDE DEF cmd, l, key, keys
<1>1. DoneInv /\ WorkInv /\ ListInv /\ work[w].at = "act" /\ cmd \in ListCmds
  BY <1>0, Zenon DEF IInv
<1>2. UNCHANGED <<requests, stats, events, lua_pool, mutex, console, commands>>
  BY <1>0, Zenon DEF luaVars
<1>3. cmd \in Cmds /\ l \in Lists /\ work[w].ctx = "none"
  BY <1>1, CmdSets, CmdNames, Zenon DEF WorkInv, Tidy, l
<1>4. ASSUME AnsweredType' PROVE DoneInv'
  BY <1>1, <1>2, <1>4, DoneSame, Zenon DEF DoneInv
<1>5. CASE Answer(w, cmd, 500, 0) /\ UNCHANGED listVars
  <2>1. DoneInv'
    BY <1>1, <1>3, <1>4, <1>5, AnswerDone
  <2>2. UNCHANGED <<builtin, lists, lua_pool, mutex, console>>
    BY <1>2, <1>5, Zenon DEF listVars
  <2>3. work[w].at \in {"idle", "act", "list"} /\ Answer(w, cmd, 500, 0)
    BY <1>1, <1>5, Zenon
  <2> QED BY <2>1, <2>2, <2>3, AnswerStep
<1>6. CASE /\ SetList(l, keys) /\ answered' = [answered EXCEPT ![w] = <<cmd, 200, 0>>]
           /\ work' = [Noted(work, l, keys) EXCEPT ![w] = Idle]
  <2> DEFINE noted == Noted(work, l, keys)
  <2>1. keys \in SUBSET Keys
    BY <1>1, <1>3, KeyForType, Zenon DEF ListInv, keys, key
  <2>2. noted \in [Workers -> WorkRec]
    BY <1>3, <2>1, NotedAll, Zenon DEF IInv
  <2> HIDE DEF noted
  <2>3. /\ work' \in [Workers -> WorkRec] /\ work'[w] = Idle
        /\ \A v \in Workers \ {w} : work'[v] = noted[v]
    BY <1>6, <2>2, IdleOK, Zenon DEF noted
  <2>4. <<cmd, 200, 0>> \in Answers
    BY <1>3 DEF Answers
  <2>5. DoneInv'
    BY <1>1, <1>4, <1>6, <2>4, Zenon DEF DoneInv, AnsweredType
  <2>6. \A v \in Workers :
            \/ work'[v] = noted[v]
            \/ /\ Tidy(work'[v]) /\ work'[v].ctx = work[v].ctx /\ work'[v].at # "run" /\ work[v].at # "run"
               /\ work'[v].cmd \notin ReadCmds
    BY <1>1, <1>3, <2>3, IdleOK, CmdNames, Zenon
  <2>7. SetList(l, keys) /\ noted = Noted(work, l, keys) /\ UNCHANGED <<lua_pool, mutex, console>>
    BY <1>2, <1>6, Zenon DEF noted
  <2> QED BY <1>3, <2>1, <2>3, <2>5, <2>6, <2>7, ListStep
<1> QED BY <1>0, <1>5, <1>6, Zenon

\* A handler calls a Lua function.
LEMMA CallLuaStep ==
    ASSUME IInv, NEW w \in Workers, NEW f \in Fns, work[w].at \in {"act", "list"}, CallLua(w, f),
           work[w].cmd = "allow" /\ f = "allow" => work[w].found = {} /\ work[w].pos = LastPos + 1,
           UNCHANGED <<builtin, lists, lua_pool, mutex, console>>, DoneInv'
    PROVE  IInv'
<1> DEFINE r == [work[w] EXCEPT !.at = "get", !.fn = f]
<1>1. work[w] \in WorkRec /\ Tidy(work[w]) /\ ReadOK(work[w], builtin, lists)
  BY Zenon DEF IInv, WorkInv, ReadInv
<1>2. work' = [work EXCEPT ![w] = r]
  BY Zenon DEF CallLua, IInv, WorkInv
<1>3. /\ r \in WorkRec /\ r.at = "get" /\ r.cmd = work[w].cmd /\ r.fields = work[w].fields /\ r.fn = f
      /\ r.ctx = work[w].ctx /\ r.pos = work[w].pos /\ r.found = work[w].found
      /\ r.always = work[w].always /\ r.ever = work[w].ever
  BY <1>1, Zenon DEF WorkRec, Ats
<1> HIDE DEF r
<1>4. Tidy(r)
  BY <1>1, <1>3, Zenon DEF Tidy
<1>5. ReadOK(r, builtin, lists)
  <2>1. r.cmd = "allow" => AllowOK(r, builtin)
    <3>1. r.cmd = "allow" => AllowOK(work[w], builtin)
      BY <1>1, <1>3, Zenon DEF ReadOK
    <3> QED BY <1>3, <3>1, Zenon DEF AllowOK, Looked
  <2>2. r.cmd \in ShowCmds => ShowOK(r, ShownList[r.cmd])
    BY <1>1, <1>3, Zenon DEF ReadOK, ShowOK
  <2>3. r.cmd = "getDBStats" => StatsOK(r)
    BY <1>1, <1>3, Zenon DEF ReadOK, StatsOK
  <2> QED BY <1>1, <1>3, <2>1, <2>2, <2>3, Zenon DEF ReadOK
<1>6. r.ctx = work[w].ctx /\ r.at # "run" /\ work[w].at # "run"
  BY <1>3, Zenon
<1> QED BY <1>2, <1>3, <1>4, <1>5, <1>6, HandlerStep, Zenon

LEMMA parseReportCmdStep ==
    ASSUME IInv, NEW w \in Workers, parseReportCmd(w)
    PROVE  IInv'
<1>1. /\ work[w].at \in {"act", "list"} /\ work[w].cmd # "allow" /\ CallLua(w, "report")
      /\ UNCHANGED <<requests, answered, events, builtin, lists, lua_pool, mutex, console, commands>>
  BY Zenon DEF parseReportCmd, listVars, luaVars
<1>2. DoneInv'
  BY <1>1, BumpDone, DoneSame, Zenon DEF IInv, DoneInv, parseReportCmd
<1> QED BY <1>1, <1>2, CallLuaStep, Zenon DEF Fns

LEMMA parseResetCmdStep ==
    ASSUME IInv, NEW w \in Workers, parseResetCmd(w)
    PROVE  IInv'
<1> DEFINE keys == lists["bl"] \ {KeyFor(work[w].fields)}
           r == [work[w] EXCEPT !.at = "get", !.fn = "reset"]
<1>1. /\ DoneInv /\ WorkInv /\ ListInv /\ work[w].at = "act" /\ work[w].cmd = "reset"
      /\ work[w] \in WorkRec /\ Tidy(work[w])
  BY Zenon DEF IInv, parseResetCmd, WorkInv
<1>2. UNCHANGED <<requests, stats, lua_pool, mutex, console, commands>>
  BY Zenon DEF parseResetCmd, luaVars
<1>3. CASE \E code \in {400, 500} : Answer(w, "reset", code, 0) /\ (Raise("reset") \/ UNCHANGED events) /\ UNCHANGED listVars
  <2>1. PICK code \in {400, 500} : Answer(w, "reset", code, 0)
    BY <1>3
  <2>2. AnsweredType' /\ EventsType'
    BY <1>1, <1>3, <2>1, AnswerDone, RaiseDone, DoneSame, CmdNames DEF Events
  <2>3. DoneInv'
    BY <1>1, <1>2, <2>2, DoneSame DEF DoneInv
  <2>4. UNCHANGED <<builtin, lists, lua_pool, mutex, console>> /\ work[w].at \in {"idle", "act", "list"}
    BY <1>1, <1>2, <1>3 DEF listVars
  <2> QED BY <2>1, <2>3, <2>4, AnswerStep
<1>4. CASE /\ SetList("bl", keys) /\ UNCHANGED <<answered, events>>
           /\ work' = [Noted(work, "bl", keys) EXCEPT ![w].at = "get", ![w].fn = "reset"]
  <2> DEFINE noted == Noted(work, "bl", keys)
  <2>1. keys \in SUBSET Keys /\ "bl" \in Lists
    BY <1>1, Zenon DEF ListInv, Lists
  <2> HIDE DEF keys
  <2>2. noted \in [Workers -> WorkRec] /\ noted[w] = work[w]
    <3>1. work[w].cmd \notin ReadCmds
      BY <1>1, CmdNames, Zenon
    <3> QED BY <2>1, <3>1, NotedAll, Zenon DEF IInv
  <2>3. work' = [noted EXCEPT ![w].at = "get", ![w].fn = "reset"]
    BY <1>4, Zenon
  <2> HIDE DEF noted
  <2>4. work' = [noted EXCEPT ![w] = r]
    BY <2>2, <2>3, Zenon
  <2>5. /\ r \in WorkRec /\ r.at = "get" /\ r.cmd = work[w].cmd /\ r.fn = "reset" /\ r.ctx = work[w].ctx
        /\ r.always = work[w].always /\ r.ever = work[w].ever
    BY <1>1, Zenon DEF WorkRec, Ats, Fns
  <2> HIDE DEF r
  <2>6. Tidy(r) /\ r.cmd \notin ReadCmds
    BY <1>1, <2>5, CmdNames, Zenon DEF Tidy
  <2>7. /\ work' \in [Workers -> WorkRec] /\ work'[w] = r
        /\ \A v \in Workers \ {w} : work'[v] = noted[v]
    BY <2>2, <2>4, <2>5, Zenon
  <2>8. \A v \in Workers :
            \/ work'[v] = noted[v]
            \/ /\ Tidy(work'[v]) /\ work'[v].ctx = work[v].ctx /\ work'[v].at # "run" /\ work[v].at # "run"
               /\ work'[v].cmd \notin ReadCmds
    BY <1>1, <2>5, <2>6, <2>7, Zenon
  <2>9. DoneInv'
    BY <1>1, <1>2, <1>4, DoneSame, Zenon DEF DoneInv
  <2>10. SetList("bl", keys) /\ noted = Noted(work, "bl", keys) /\ UNCHANGED <<lua_pool, mutex, console>>
    BY <1>2, <1>4, Zenon DEF noted
  <2> QED BY <2>1, <2>7, <2>8, <2>9, <2>10, ListStep
<1>5. \/ Answer(w, "reset", 500, 0) /\ UNCHANGED <<events, listVars>>
      \/ Answer(w, "reset", 400, 0) /\ Raise("reset") /\ UNCHANGED listVars
      \/ /\ SetList("bl", keys) /\ UNCHANGED <<answered, events>>
         /\ work' = [Noted(work, "bl", keys) EXCEPT ![w].at = "get", ![w].fn = "reset"]
  BY Zenon DEF parseResetCmd
<1> HIDE DEF keys
<1> QED BY <1>3, <1>4, <1>5

-----------------------------------------------------------------------------
(***************************************************************************)
(* Where the lists are read.                                               *)
(***************************************************************************)

\* parseAllowCmd looks up keys of lists, and all of them.
LEMMA Positions ==
    /\ \A p \in 1 .. LastPos :
        /\ ListAt(p) \in Lists /\ KeyAt(p) \in Keys
        /\ NextList(p) \in 1 .. LastPos + 1 /\ p < NextList(p)
        /\ \A q \in p .. NextList(p) - 1 : ListAt(q) = ListAt(p)
    /\ \A l \in Lists, k \in Keys : \E p \in 1 .. LastPos : ListAt(p) = l /\ KeyAt(p) = k
<1>1. \A p \in 1 .. LastPos :
        /\ ListAt(p) \in Lists
        /\ NextList(p) \in 1 .. LastPos + 1 /\ p < NextList(p)
        /\ \A q \in p .. NextList(p) - 1 : ListAt(q) = ListAt(p)
  BY Orders DEF ListAt, NextList, Lists
<1>2. \A p \in 1 .. LastPos : ((p - 1) % 5) + 1 \in 1 .. 5
  BY Orders
<1>3. \A p \in 1 .. LastPos : KeyAt(p) \in Keys
  BY <1>2, Orders, Zenon DEF KeyAt, Keys
<1>4. \A i \in 1 .. 5 : KeyAt(i) = KeyOrder[i] /\ KeyAt(i + 5) = KeyOrder[i]
  BY Orders DEF KeyAt
<1>5. ASSUME NEW l \in Lists, NEW k \in Keys
      PROVE  \E p \in 1 .. LastPos : ListAt(p) = l /\ KeyAt(p) = k
  <2>1. PICK i \in 1 .. 5 : KeyOrder[i] = k
    BY Orders, Zenon DEF Keys
  <2>2. CASE l = "wl"
    <3>1. ListAt(i) = "wl" /\ i \in 1 .. LastPos
      BY Orders DEF ListAt
    <3> QED BY <2>1, <2>2, <3>1, <1>4, Zenon
  <2>3. CASE l = "bl"
    <3>1. ListAt(i + 5) = "bl" /\ i + 5 \in 1 .. LastPos
      BY Orders DEF ListAt
    <3> QED BY <2>1, <2>3, <3>1, <1>4, Zenon
  <2> QED BY <2>2, <2>3, Zenon DEF Lists
<1> QED BY <1>1, <1>3, <1>5, Zenon

\* getBL and getWL go through every kind of key.
LEMMA ShowPositions ==
    /\ \A p \in 1 .. 5 : ShowOrder[p] \in Keys
    /\ \A k \in Keys : \E p \in 1 .. 5 : ShowOrder[p] = k
<1>1. /\ ShowOrder[1] = "ip" /\ ShowOrder[2] = "login" /\ ShowOrder[3] = "iplogin"
      /\ ShowOrder[4] = "ja3" /\ ShowOrder[5] = "ipja3"
  BY Zenon DEF ShowOrder
<1>2. \A p \in 1 .. 5 : p = 1 \/ p = 2 \/ p = 3 \/ p = 4 \/ p = 5
  OBVIOUS
<1>3. 1 \in 1 .. 5 /\ 2 \in 1 .. 5 /\ 3 \in 1 .. 5 /\ 4 \in 1 .. 5 /\ 5 \in 1 .. 5
  OBVIOUS
<1> HIDE DEF ShowOrder
<1> QED BY <1>1, <1>2, <1>3, Orders, Zenon

-----------------------------------------------------------------------------
(***************************************************************************)
(* The requests that read the lists.                                       *)
(***************************************************************************)

LEMMA getEntryStep ==
    ASSUME IInv, NEW w \in Workers, getEntry(w)
    PROVE  IInv'
<1> DEFINE p == work[w].pos
           l == ListAt(p)
           hit == [work[w] EXCEPT !.at = "list", !.pos = NextList(p), !.found = @ \union {l}]
           next == IF l \in builtin THEN p + 1 ELSE NextList(p)
           miss == [work[w] EXCEPT !.at = "list", !.pos = next]
           found == l \in builtin /\ Applies(w, KeyAt(p)) /\ KeyAt(p) \in lists[l]
<1>1. /\ work[w] \in WorkRec /\ Tidy(work[w]) /\ ReadOK(work[w], builtin, lists)
      /\ work[w].cmd = "allow" /\ work[w].at \in {"act", "list"} /\ p \in 1 .. LastPos
  <2>1. work[w] \in WorkRec /\ Tidy(work[w]) /\ ReadOK(work[w], builtin, lists)
    BY Zenon DEF IInv, WorkInv, ReadInv
  <2>2. work[w].cmd = "allow" /\ work[w].at \in {"act", "list"} /\ p <= LastPos
    BY Zenon DEF getEntry
  <2> QED BY <2>1, <2>2, WorkFields, Orders
<1>2. /\ l \in Lists /\ KeyAt(p) \in Keys /\ NextList(p) \in 1 .. LastPos + 1 /\ p < NextList(p)
      /\ \A q \in p .. NextList(p) - 1 : ListAt(q) = l
  BY <1>1, Positions, Zenon
<1>3. UNCHANGED <<builtin, lists, lua_pool, mutex, console>> /\ DoneInv'
  BY DoneSame, Zenon DEF getEntry, listVars, luaVars, doneVars, IInv, DoneInv
<1>4. /\ AllowOK(work[w], builtin) /\ work[w].fn = "none" /\ work[w].found \subseteq Lists
      /\ \A m \in Lists : work[w].always[m] \subseteq lists[m] /\ lists[m] \subseteq work[w].ever[m]
  <2>1. AllowOK(work[w], builtin) /\ work[w].fn = "none"
    BY <1>1, Zenon DEF ReadOK, Tidy
  <2>2. \A m \in Lists : work[w].always[m] \subseteq lists[m] /\ lists[m] \subseteq work[w].ever[m]
    BY <1>1, CmdNames, Zenon DEF ReadOK
  <2> QED BY <2>1, <2>2, Zenon DEF AllowOK
<1>5. Applies(w, KeyAt(p)) <=> Looked(work[w], KeyAt(p))
  BY Zenon DEF Applies, Looked
<1>6. next \in 1 .. LastPos + 1 /\ p < next /\ next <= NextList(p)
  BY <1>1, <1>2, Orders
<1>7. CASE found
  <2>1. work' = [work EXCEPT ![w].at = "list", ![w].pos = NextList(p), ![w].found = BothFound(@, l)]
    BY <1>7, Zenon DEF getEntry
  <2>2. work' = [work EXCEPT ![w] = hit]
    BY <2>1, Zenon DEF BothFound, IInv, WorkInv
  <2> HIDE DEF l, p
  <2>3. /\ hit \in WorkRec /\ hit.at = "list" /\ hit.cmd = work[w].cmd /\ hit.fields = work[w].fields
        /\ hit.fn = work[w].fn /\ hit.ctx = work[w].ctx /\ hit.pos = NextList(p)
        /\ hit.found = work[w].found \union {l} /\ hit.always = work[w].always /\ hit.ever = work[w].ever
    <3>1. work[w].found \union {l} \in SUBSET (Lists \union Keys)
      BY <1>2, <1>4, Zenon
    <3> QED BY <1>1, <1>2, <3>1, Zenon DEF WorkRec, Ats
  <2> HIDE DEF hit
  <2>4. Tidy(hit)
    BY <1>1, <1>4, <2>3, Zenon DEF Tidy
  <2>5. \A m \in hit.found : m \in Lists /\ m \in builtin /\ \E k \in hit.ever[m] : Looked(hit, k)
    <3>1. KeyAt(p) \in hit.ever[l] /\ Looked(hit, KeyAt(p)) /\ l \in builtin
      BY <1>2, <1>4, <1>5, <1>7, <2>3, Zenon DEF Looked, l
    <3> QED BY <1>2, <1>4, <2>3, <3>1, Zenon DEF AllowOK, Looked
  <2>6. \A q \in 1 .. hit.pos - 1 :
          ListAt(q) \in builtin /\ ListAt(q) \notin hit.found /\ Looked(hit, KeyAt(q)) => KeyAt(q) \notin hit.always[ListAt(q)]
    <3> SUFFICES ASSUME NEW q \in 1 .. NextList(p) - 1, ListAt(q) \in builtin, ListAt(q) \notin hit.found,
                        Looked(hit, KeyAt(q))
                 PROVE  KeyAt(q) \notin hit.always[ListAt(q)]
      BY <2>3, Zenon
    <3>1. q \in 1 .. p - 1
      BY <1>1, <1>2, <2>3 DEF p
    <3> QED BY <1>4, <2>3, <3>1, Zenon DEF AllowOK, Looked, p
  <2>7. ReadOK(hit, builtin, lists)
    <3>1. AllowOK(hit, builtin)
      BY <1>4, <2>3, <2>5, <2>6, Zenon DEF AllowOK
    <3> QED BY <1>1, <1>4, <2>3, <3>1, CmdNames, Zenon DEF ReadOK
  <2>8. hit.at # "run" /\ work[w].at # "run"
    BY <1>1, <2>3, Zenon
  <2> QED BY <1>3, <2>2, <2>3, <2>4, <2>7, <2>8, HandlerStep, Zenon
<1>8. CASE ~found
  <2>1. work' = [work EXCEPT ![w].at = "list", ![w].pos = next]
    BY <1>8, Zenon DEF getEntry
  <2>2. work' = [work EXCEPT ![w] = miss]
    BY <2>1, Zenon DEF IInv, WorkInv
  <2> HIDE DEF l, p, next
  <2>3. /\ miss \in WorkRec /\ miss.at = "list" /\ miss.cmd = work[w].cmd /\ miss.fields = work[w].fields
        /\ miss.fn = work[w].fn /\ miss.ctx = work[w].ctx /\ miss.pos = next
        /\ miss.found = work[w].found /\ miss.always = work[w].always /\ miss.ever = work[w].ever
    BY <1>1, <1>6, Zenon DEF WorkRec, Ats
  <2> HIDE DEF miss
  <2>4. Tidy(miss)
    BY <1>1, <1>4, <2>3, Zenon DEF Tidy
  <2>5. \A q \in 1 .. miss.pos - 1 :
          ListAt(q) \in builtin /\ ListAt(q) \notin miss.found /\ Looked(miss, KeyAt(q)) => KeyAt(q) \notin miss.always[ListAt(q)]
    <3> SUFFICES ASSUME NEW q \in 1 .. next - 1, ListAt(q) \in builtin, ListAt(q) \notin miss.found,
                        Looked(miss, KeyAt(q))
                 PROVE  KeyAt(q) \notin miss.always[ListAt(q)]
      BY <2>3, Zenon
    <3>1. CASE q \in 1 .. p - 1
      BY <1>4, <2>3, <3>1, Zenon DEF AllowOK, Looked, p
    <3>2. CASE q \notin 1 .. p - 1
      <4>1. q \in p .. NextList(p) - 1
        BY <1>1, <1>2, <1>6, <3>2 DEF p
      <4>2. ListAt(q) = l /\ l \in builtin
        BY <1>2, <4>1, Zenon
      <4>3. q = p
        BY <1>1, <3>2, <4>2 DEF next, p
      <4>4. KeyAt(p) \notin lists[l]
        BY <1>5, <1>8, <2>3, <4>2, <4>3, Zenon DEF Looked
      <4> QED BY <1>2, <1>4, <2>3, <4>2, <4>3, <4>4, Zenon
    <3> QED BY <3>1, <3>2, Zenon
  <2>6. ReadOK(miss, builtin, lists)
    <3>1. AllowOK(miss, builtin)
      BY <1>4, <2>3, <2>5, Zenon DEF AllowOK, Looked
    <3> QED BY <1>1, <1>4, <2>3, <3>1, CmdNames, Zenon DEF ReadOK
  <2>7. miss.at # "run" /\ work[w].at # "run"
    BY <1>1, <2>3, Zenon
  <2> QED BY <1>3, <2>2, <2>3, <2>4, <2>6, <2>7, HandlerStep, Zenon
<1> QED BY <1>7, <1>8, Zenon

LEMMA decideStep ==
    ASSUME IInv, NEW w \in Workers, decide(w)
    PROVE  IInv'
<1>1. DoneInv /\ work[w] \in WorkRec /\ work[w].at = "list" /\ work[w].pos = LastPos + 1
  <2>1. DoneInv /\ work[w] \in WorkRec /\ work[w].at = "list" /\ work[w].pos > LastPos
    BY Zenon DEF IInv, WorkInv, decide
  <2> QED BY <2>1, WorkFields, Orders
<1>2. UNCHANGED <<requests, builtin, lists, lua_pool, mutex, console, commands>>
  BY Zenon DEF decide, listVars, luaVars
<1>3. CASE work[w].found = {}
  <2>1. CallLua(w, "allow") /\ UNCHANGED <<stats, answered, events>>
    BY <1>3, Zenon DEF decide, doneVars
  <2>2. DoneInv'
    BY <1>1, <1>2, <2>1, DoneSame, Zenon DEF DoneInv
  <2>3. "allow" \in Fns /\ work[w].at \in {"act", "list"} /\ UNCHANGED <<builtin, lists, lua_pool, mutex, console>>
    BY <1>1, <1>2, Zenon DEF Fns
  <2> QED BY <1>1, <1>3, <2>1, <2>2, <2>3, CallLuaStep, Zenon
<1>4. CASE work[w].found # {}
  <2>1. PICK status \in -1 .. 1 : Answer(w, "allow", 200, status)
    BY <1>4 DEF decide
  <2>2. (\E names : Bump(names)) /\ Raise("allow")
    BY <1>4, Zenon DEF decide
  <2>3. StatsType' /\ EventsType'
    BY <1>1, <2>2, BumpDone, RaiseDone, Zenon DEF Events
  <2>4. AnsweredType'
    BY <1>1, <2>1, AnswerDone, CmdNames
  <2>5. DoneInv'
    BY <1>1, <1>2, <2>3, <2>4, DoneSame, Zenon DEF DoneInv
  <2>6. work[w].at \in {"idle", "act", "list"} /\ UNCHANGED <<builtin, lists, lua_pool, mutex, console>>
    BY <1>1, <1>2, Zenon
  <2> QED BY <2>1, <2>5, <2>6, AnswerStep, Zenon
<1> QED BY <1>3, <1>4, Zenon

\* A handler that answers without Lua, raises no event and counts nothing.
LEMMA PlainAnswer ==
    ASSUME IInv, NEW w \in Workers, work[w].at = "act", NEW cmd \in Cmds, NEW code \in {200, 400}, Answer(w, cmd, code, 0),
           UNCHANGED <<requests, stats, events, builtin, lists, lua_pool, mutex, console, commands>>
    PROVE  IInv'
<1>1. DoneInv /\ work[w].at \in {"idle", "act", "list"}
  BY Zenon DEF IInv
<1>2. AnsweredType'
  BY <1>1, AnswerDone
<1>3. DoneInv'
  BY <1>1, <1>2, DoneSame, Zenon DEF DoneInv
<1> QED BY <1>1, <1>3, AnswerStep

\* A handler that goes on to position p with what it has found agrees with the lists.
LookOK(old, p, found) ==
    \A r \in WorkRec :
        /\ r.cmd = old.cmd /\ r.fields = old.fields /\ r.pos = p /\ r.found = found
        /\ r.always = old.always /\ r.ever = old.ever
        => /\ r.cmd \in ShowCmds => ShowOK(r, ShownList[r.cmd])
           /\ r.cmd = "getDBStats" => StatsOK(r)

\* A handler looks at the next entry.
LEMMA LookStep ==
    ASSUME IInv, NEW w \in Workers, work[w].at = "act", work[w].cmd # "allow",
           NEW p \in 1 .. LastPos + 1, NEW found \in SUBSET (Lists \union Keys),
           work' = [work EXCEPT ![w].pos = p, ![w].found = found],
           UNCHANGED <<requests, stats, answered, events, builtin, lists, lua_pool, mutex, console, commands>>,
           LookOK(work[w], p, found)
    PROVE  IInv'
<1> DEFINE r == [work[w] EXCEPT !.pos = p, !.found = found]
<1>1. work[w] \in WorkRec /\ Tidy(work[w]) /\ ReadOK(work[w], builtin, lists)
  BY Zenon DEF IInv, WorkInv, ReadInv
<1>2. work' = [work EXCEPT ![w] = r]
  BY Zenon DEF IInv, WorkInv
<1>3. /\ r \in WorkRec /\ r.at = work[w].at /\ r.cmd = work[w].cmd /\ r.fields = work[w].fields
      /\ r.fn = work[w].fn /\ r.ctx = work[w].ctx /\ r.pos = p /\ r.found = found
      /\ r.always = work[w].always /\ r.ever = work[w].ever
  BY <1>1, Zenon DEF WorkRec
<1> HIDE DEF r
<1>4. Tidy(r)
  BY <1>1, <1>3, Zenon DEF Tidy
<1>5. ReadOK(r, builtin, lists)
  <2>1. (r.cmd \in ShowCmds => ShowOK(r, ShownList[r.cmd])) /\ (r.cmd = "getDBStats" => StatsOK(r))
    BY <1>3, Zenon DEF LookOK
  <2>2. r.cmd \in ReadCmds => \A l \in Lists : r.always[l] \subseteq lists[l] /\ lists[l] \subseteq r.ever[l]
    BY <1>1, <1>3, Zenon DEF ReadOK
  <2> QED BY <1>3, <2>1, <2>2, Zenon DEF ReadOK
<1>6. DoneInv'
  BY DoneSame, Zenon DEF IInv, DoneInv
<1>7. r.ctx = work[w].ctx /\ r.at # "run" /\ work[w].at # "run"
  BY <1>3, Zenon
<1> QED BY <1>2, <1>3, <1>4, <1>5, <1>6, <1>7, HandlerStep, Zenon

LEMMA parseStatsCmdStep ==
    ASSUME IInv, NEW w \in Workers, parseStatsCmd(w)
    PROVE  IInv'
BY PlainAnswer, CmdNames DEF parseStatsCmd, listVars, luaVars

LEMMA parseGetBLWLCmdStep ==
    ASSUME IInv, NEW w \in Workers, parseGetBLWLCmd(w)
    PROVE  IInv'
<1> DEFINE p == work[w].pos
           cmd == work[w].cmd
           l == ShownList[cmd]
           found == work[w].found \union ({ShowOrder[p]} \intersect lists[l])
<1>1. /\ work[w].at = "act" /\ cmd \in ShowCmds
      /\ UNCHANGED <<requests, stats, events, builtin, lists, lua_pool, mutex, console, commands>>
  BY Zenon DEF parseGetBLWLCmd, listVars, luaVars
<1>2. cmd \in Cmds /\ l \in Lists /\ cmd # "allow" /\ cmd # "getDBStats" /\ cmd \in ReadCmds
  BY <1>1, CmdSets, CmdNames, Zenon
<1>3. work[w] \in WorkRec /\ ReadOK(work[w], builtin, lists) /\ lists \in [Lists -> SUBSET Keys]
  BY Zenon DEF IInv, WorkInv, ReadInv, ListInv
<1>4. CASE p <= 5
  <2>1. work' = [work EXCEPT ![w].pos = p + 1, ![w].found = found] /\ answered' = answered
    BY <1>4, Orders, Zenon DEF parseGetBLWLCmd, IInv, WorkInv
  <2>2. p \in 1 .. 5 /\ p + 1 \in 1 .. LastPos + 1 /\ work[w].found \subseteq Lists \union Keys
    BY <1>3, <1>4, Orders, WorkFields
  <2>3. found \in SUBSET (Lists \union Keys)
    BY <1>2, <1>3, <2>2, Zenon
  <2>4. /\ ShowOK(work[w], l)
        /\ work[w].always[l] \subseteq lists[l] /\ lists[l] \subseteq work[w].ever[l]
    BY <1>1, <1>2, <1>3, Zenon DEF ReadOK
  <2> HIDE DEF p, l, cmd
  <2>5. ASSUME NEW r \in WorkRec, r.pos = p + 1, r.found = found, r.always = work[w].always, r.ever = work[w].ever
        PROVE  ShowOK(r, l)
    <3>1. r.found \subseteq r.ever[l]
      BY <2>4, <2>5, Zenon DEF ShowOK
    <3>2. ASSUME NEW q \in 1 .. 5, q < r.pos, ShowOrder[q] \in r.always[l]
          PROVE  ShowOrder[q] \in r.found
      <4>1. CASE q < p
        BY <2>4, <2>5, <3>2, <4>1, Zenon DEF ShowOK, p
      <4>2. CASE q = p
        BY <2>4, <2>5, <3>2, <4>2, Zenon
      <4> QED BY <2>2, <2>5, <3>2, <4>1, <4>2
    <3> QED BY <3>1, <3>2, Zenon DEF ShowOK
  <2>6. LookOK(work[w], p + 1, found)
    <3> HIDE DEF found
    <3> QED BY <1>2, <2>5, Zenon DEF LookOK, cmd, l
  <2> HIDE DEF found
  <2> QED BY <1>1, <1>2, <2>1, <2>2, <2>3, <2>6, LookStep, Zenon DEF cmd
<1>5. CASE ~(p <= 5)
  <2>1. Answer(w, cmd, 200, 0)
    BY <1>5, Orders, Zenon DEF parseGetBLWLCmd
  <2> HIDE DEF cmd
  <2> QED BY <1>1, <1>2, <2>1, PlainAnswer, ZenonT(30)
<1> QED BY <1>4, <1>5, Zenon

LEMMA parseGetStatsCmdStep ==
    ASSUME IInv, NEW w \in Workers, parseGetStatsCmd(w)
    PROVE  IInv'
<1> DEFINE p == work[w].pos
           key == KeyFor(work[w].fields)
           l == StatsOrder(w)[p]
           found == IF key \in lists[l] THEN work[w].found \union {l} ELSE work[w].found
<1>1. /\ work[w].at = "act" /\ work[w].cmd = "getDBStats"
      /\ UNCHANGED <<requests, stats, events, builtin, lists, lua_pool, mutex, console, commands>>
  BY Zenon DEF parseGetStatsCmd, listVars, luaVars
<1>2. work[w] \in WorkRec /\ ReadOK(work[w], builtin, lists) /\ lists \in [Lists -> SUBSET Keys]
  BY Zenon DEF IInv, WorkInv, ReadInv, ListInv
<1>3. Len(StatsOrder(w)) = 2 /\ StatsOrder(w)[1] = "bl" /\ StatsOrder(w)[2] = "wl" /\ "bl" \in Lists /\ "wl" \in Lists
  BY Zenon DEF StatsOrder, Lists
<1>4. CASE \E code \in {200, 400} : Answer(w, "getDBStats", code, 0)
  BY <1>1, <1>4, PlainAnswer, CmdNames
<1>5. CASE /\ p <= 2 /\ answered' = answered
           /\ work' = [work EXCEPT ![w].pos = p + 1, ![w].found = IF key \in lists[l] THEN @ \union {l} ELSE @]
  <2>1. work' = [work EXCEPT ![w].pos = p + 1, ![w].found = found]
    BY <1>5, Zenon DEF IInv, WorkInv
  <2>2. p \in 1 .. 2 /\ p + 1 \in 1 .. LastPos + 1 /\ work[w].found \subseteq Lists \union Keys
    BY <1>2, <1>5, Orders, WorkFields
  <2>3. (p = 1 /\ l = "bl") \/ (p = 2 /\ l = "wl")
    BY <1>3, <2>2
  <2>4. l \in Lists /\ found \in SUBSET (Lists \union Keys)
    BY <1>3, <2>2, <2>3, Zenon
  <2>5. /\ StatsOK(work[w])
        /\ \A m \in Lists : work[w].always[m] \subseteq lists[m] /\ lists[m] \subseteq work[w].ever[m]
    BY <1>1, <1>2, CmdNames, Zenon DEF ReadOK
  <2> HIDE DEF p, l, key
  <2>6. ASSUME NEW r \in WorkRec, r.pos = p + 1, r.found = found, r.fields = work[w].fields,
               r.always = work[w].always, r.ever = work[w].ever
        PROVE  StatsOK(r)
    <3>1. KeyFor(r.fields) = key
      BY <2>6, Zenon DEF key
    <3>2. \A m \in Lists : m \in r.found => key \in r.ever[m]
      BY <2>4, <2>5, <2>6, Zenon DEF StatsOK, key
    <3>3. 1 < r.pos /\ key \in r.always["bl"] => "bl" \in r.found
      BY <1>3, <2>3, <2>5, <2>6 DEF StatsOK, key, p
    <3>4. 2 < r.pos /\ key \in r.always["wl"] => "wl" \in r.found
      BY <1>3, <2>3, <2>5, <2>6
    <3> QED BY <3>1, <3>2, <3>3, <3>4, Zenon DEF StatsOK
  <2>7. LookOK(work[w], p + 1, found)
    <3> HIDE DEF found
    <3> QED BY <1>1, <2>6, CmdNames, Zenon DEF LookOK
  <2> HIDE DEF found
  <2> QED BY <1>1, <1>5, <2>1, <2>2, <2>4, <2>7, LookStep, Zenon
<1>6. \/ \E code \in {200, 400} : Answer(w, "getDBStats", code, 0)
      \/ /\ ~(p > Len(StatsOrder(w))) /\ answered' = answered
         /\ work' = [work EXCEPT ![w].pos = p + 1, ![w].found = IF key \in lists[l] THEN @ \union {l} ELSE @]
  <2> DEFINE wrong == work[w].fields \intersect {"ip", "login", "ja3"} = {} \/ {"login", "ja3"} \subseteq work[w].fields
  <2>1. CASE wrong
    BY <2>1, Zenon DEF parseGetStatsCmd
  <2>2. CASE ~wrong /\ p > Len(StatsOrder(w))
    BY <2>2, Zenon DEF parseGetStatsCmd
  <2>3. CASE ~wrong /\ ~(p > Len(StatsOrder(w)))
    BY <2>3, ZenonT(30) DEF parseGetStatsCmd
  <2> QED BY <2>1, <2>2, <2>3, Zenon
<1>7. p \in Nat
  BY <1>2, WorkFields, Orders
<1> HIDE DEF p, l, key
<1> QED BY <1>3, <1>4, <1>5, <1>6, <1>7

-----------------------------------------------------------------------------
(***************************************************************************)
(* The invariant holds.                                                    *)
(***************************************************************************)

LEMMA InitIInv == ASSUME Init PROVE IInv
<1>1. WorkInv
  BY IdleOK, Zenon DEF Init, WorkInv
<1>2. ListInv
  BY CommandsAssumption, Zenon DEF Init, ListInv, NoKeys
<1>3. ReadInv
  BY IdleOK, Zenon DEF Init, ReadInv
<1>4. DoneInv
  <2>1. StatsType /\ EventsType /\ CountType
    BY CommandsAssumption DEF Init, StatsType, EventsType, CountType
  <2>2. AnsweredType
    BY DEF Init, AnsweredType, Answers, NoAnswer
  <2> QED BY <2>1, <2>2, Zenon DEF DoneInv
<1>5. PoolInv
  <2>1. PoolType
    BY ContextsAssumption DEF Init, PoolType
  <2>2. Free = Contexts
    BY Zenon DEF Init, Free, Contexts
  <2>3. \A w \in Workers : work[w].ctx = "none" /\ work[w].at = "idle"
    BY IdleOK, Zenon DEF Init
  <2>4. \A c \in Contexts : mutex[c] = "none"
    BY Zenon DEF Init
  <2> QED BY <2>1, <2>2, <2>3, <2>4, ContextsAssumption, CommandsAssumption
          DEF PoolInv, NotShared, NotFree, NoneLost, RunsLocked, ConsoleLocks, WorkerLocks
<1> QED BY <1>1, <1>2, <1>3, <1>4, <1>5, Zenon DEF IInv

LEMMA StepIInv == ASSUME IInv, NEW w \in Workers, Step(w) PROVE IInv'
BY getPoolMemberStep, lockContextStep, LuaReturnsStep, parseAddDelBLWLEntryCmdStep, parseReportCmdStep,
   parseResetCmdStep, getEntryStep, decideStep, parseStatsCmdStep, parseGetBLWLCmdStep, parseGetStatsCmdStep DEF Step

LEMMA NextIInv == ASSUME IInv, [Next]_vars PROVE IInv'
<1>1. ASSUME NEW w \in Workers, NEW i \in Inputs,
             doFilterRefuses(w, i.cmd) \/ ParseFails(w, i.cmd) \/ Handle(w, i.cmd, i.fields)
      PROVE  IInv'
  <2>1. i.cmd \in Cmds /\ i.fields \in SUBSET Fields
    BY CommandsAssumption, Zenon
  <2> QED BY <1>1, <2>1, RefusedStep, HandleStep, Zenon
<1>2. ASSUME NEW c \in Changeable, Change(c[1], c[2]) PROVE IInv'
  <2>1. c[1] \in Lists /\ c[2] \in Keys
    BY CommandsAssumption, Zenon
  <2> QED BY <1>2, <2>1, ChangeStep, Zenon
<1>3. ASSUME UNCHANGED vars PROVE IInv'
  <2>1. WorkInv' /\ ListInv' /\ ReadInv' /\ DoneInv'
    BY <1>3, DoneSame, Zenon DEF vars, IInv, WorkInv, ListInv, ReadInv, DoneInv
  <2>2. PoolInv'
    BY <1>3, ContextsStay, Zenon DEF vars, IInv
  <2> QED BY <2>1, <2>2, Zenon DEF IInv
<1> QED BY <1>1, <1>2, <1>3, StepIInv, consoleStep, Zenon DEF Next

\* The inductive invariant.
THEOREM IInvHolds == Spec => []IInv
<1>1. Init => IInv
  BY InitIInv, Zenon
<1>2. IInv /\ [Next]_vars => IInv'
  BY NextIInv, Zenon
<1> QED BY <1>1, <1>2, PTL DEF Spec

-----------------------------------------------------------------------------
(***************************************************************************)
(* The contexts are exclusive.                                             *)
(***************************************************************************)

LEMMA CountUpTo ==
    ASSUME NEW n \in Nat
    PROVE  IsFiniteSet(1 .. n) /\ Cardinality(1 .. n) = n
<1>1. n \in Int /\ 1 \in Int
  OBVIOUS
<1>2. IsFiniteSet(1 .. n) /\ Cardinality(1 .. n) = IF 1 > n THEN 0 ELSE n - 1 + 1
  BY <1>1, FS_Interval, Zenon
<1> QED BY <1>2

\* The pool holds no more contexts than there are.
LEMMA PoolBounded == ASSUME PoolType PROVE Len(lua_pool) <= Len(lua_read_only)
<1> DEFINE n == Len(lua_pool)
           m == Len(lua_read_only)
           f == [i \in 1 .. n |-> CHOOSE j \in 1 .. m : lua_read_only[j] = lua_pool[i]]
<1>1. /\ n \in Nat /\ m \in Nat /\ DOMAIN lua_pool = 1 .. n /\ DOMAIN lua_read_only = 1 .. m
      /\ \A i \in 1 .. n : lua_pool[i] \in Contexts
  BY ContextsAssumption DEF PoolType
<1>2. \A i \in 1 .. n : f[i] \in 1 .. m /\ lua_read_only[f[i]] = lua_pool[i]
  <2> SUFFICES ASSUME NEW i \in 1 .. n PROVE f[i] \in 1 .. m /\ lua_read_only[f[i]] = lua_pool[i]
    BY Zenon
  <2>1. \E j \in 1 .. m : lua_read_only[j] = lua_pool[i]
    BY <1>1, Zenon DEF Contexts
  <2> QED BY <2>1, Zenon
<1>3. f \in [1 .. n -> 1 .. m]
  BY <1>2, Zenon
<1> HIDE DEF f
<1>4. \A i, j \in 1 .. n : f[i] = f[j] => i = j
  BY <1>1, <1>2 DEF PoolType
<1>5. f \in Injection(1 .. n, 1 .. m)
  BY <1>3, <1>4, Zenon DEF Injection, IsInjective
<1>6. /\ IsFiniteSet(1 .. m) /\ Cardinality(1 .. m) = m /\ Cardinality(1 .. n) = n
  BY <1>1, CountUpTo, Zenon
<1>7. Cardinality(1 .. n) <= Cardinality(1 .. m)
  BY <1>5, <1>6, FS_Injection, Zenon
<1> QED BY <1>6, <1>7, Zenon

\* A worker that has no context leaves one for itself: were all of them taken,
\* the other workers would have one each, and there are not that many.
LEMMA PoolNotEmpty ==
    ASSUME IInv, NEW w \in Workers, work[w].ctx = "none"
    PROVE  lua_pool # <<>>
<1> SUFFICES ASSUME lua_pool = <<>> PROVE FALSE
  BY Zenon
<1> DEFINE m == Len(lua_read_only)
           f == [i \in 1 .. m |-> CHOOSE v \in Workers : work[v].ctx = lua_read_only[i]]
<1>1. /\ m \in Nat /\ DOMAIN lua_read_only = 1 .. m /\ \A i \in 1 .. m : lua_read_only[i] \in Contexts
      /\ \A i, j \in 1 .. m : lua_read_only[i] = lua_read_only[j] => i = j
  BY ContextsAssumption
<1>2. \A i \in 1 .. m : f[i] \in Workers /\ work[f[i]].ctx = lua_read_only[i]
  <2> SUFFICES ASSUME NEW i \in 1 .. m PROVE f[i] \in Workers /\ work[f[i]].ctx = lua_read_only[i]
    BY Zenon
  <2>1. Free = {}
    BY DEF Free
  <2>2. \E v \in Workers : work[v].ctx = lua_read_only[i]
    BY <1>1, <2>1, Zenon DEF IInv, PoolInv, NoneLost
  <2> QED BY <2>2, Zenon
<1> HIDE DEF f
<1>3. \A i \in 1 .. m : f[i] \in Workers \ {w}
  BY <1>1, <1>2, ContextsAssumption
<1>4. f \in Injection(1 .. m, Workers \ {w})
  <2>1. f \in [1 .. m -> Workers \ {w}]
    BY <1>3, Zenon DEF f
  <2>2. \A i, j \in 1 .. m : f[i] = f[j] => i = j
    BY <1>1, <1>2
  <2> QED BY <2>1, <2>2, Zenon DEF Injection, IsInjective
<1>5. IsFiniteSet(Workers \ {w}) /\ Cardinality(Workers \ {w}) = Cardinality(Workers) - 1 /\ Cardinality(Workers) \in Nat
  BY CommandsAssumption, FS_RemoveElement, FS_CardinalityType, Zenon
<1>6. Cardinality(1 .. m) = m
  BY <1>1, CountUpTo, Zenon
<1>7. Cardinality(1 .. m) <= Cardinality(Workers \ {w})
  BY <1>4, <1>5, FS_Injection, Zenon
<1>8. m >= Cardinality(Workers)
  BY ContextsAssumption, Zenon
<1> QED BY <1>1, <1>5, <1>6, <1>7, <1>8

LEMMA IInvExclusive == ASSUME IInv PROVE ContextsAreExclusive
<1>1. PoolInv /\ WorkInv /\ DoneInv /\ ListInv
  BY Zenon DEF IInv
<1>2. \A w \in Workers :
        /\ work[w].at \in Ats /\ work[w].cmd \in Cmds \union {"none"} /\ work[w].fields \subseteq Fields
        /\ work[w].fn \in Fns /\ work[w].ctx \in Contexts \union {"none"}
        /\ work[w].pos \in 1 .. LastPos + 1 /\ work[w].found \subseteq Lists \union Keys
  BY <1>1, WorkFields, Zenon DEF WorkInv
<1>3. \A w \in Workers :
        /\ work[w].ctx # "none" <=> work[w].at \in {"lock", "run"}
        /\ \A l \in Lists : work[w].always[l] \subseteq work[w].ever[l]
  BY <1>1, Zenon DEF WorkInv, Tidy
<1>4. TypeOK
  <2>1. Len(lua_pool) <= Len(lua_read_only)
    BY <1>1, PoolBounded, Zenon DEF PoolInv
  <2>2. builtin \subseteq Lists /\ lists \in [Lists -> SUBSET Keys]
    BY <1>1, Zenon DEF ListInv
  <2>3. lua_pool \in Seq(Contexts) /\ mutex \in [Contexts -> Workers \union {"none", "console"}] /\ console \in Seq(Contexts)
    BY <1>1, Zenon DEF PoolInv, PoolType
  <2>4. /\ stats \in [StatNames -> Nat] /\ requests \in 0 .. MaxRequests /\ commands \in 0 .. MaxConsole
        /\ answered \in [Workers -> (Cmds \union {"none"}) \X {0, 200, 400, 401, 500} \X (-1 .. 1)]
        /\ events \in [Events -> Nat]
    BY <1>1 DEF DoneInv, StatsType, CountType, AnsweredType, Answers, EventsType
  <2> QED BY <1>2, <1>3, <2>1, <2>2, <2>3, <2>4, Zenon DEF TypeOK, Ats, Fns
<1>5. \A w \in Workers : work[w].at = "get" => lua_pool # <<>>
  BY <1>3, PoolNotEmpty, Zenon
<1> QED BY <1>1, <1>4, <1>5
        DEF ContextsAreExclusive, PoolInv, NotShared, NotFree, Free, RunsLocked, ConsoleLocks, WorkerLocks

\* A worker that wants a Lua context finds one, no context is run by two threads
\* at a time, and whoever holds a lock is running: for any number of workers,
\* and of contexts that is not smaller.
THEOREM ContextsStayExclusive == Spec => []ContextsAreExclusive
<1>1. IInv => ContextsAreExclusive
  BY IInvExclusive, Zenon
<1> QED BY <1>1, IInvHolds, PTL

-----------------------------------------------------------------------------
(***************************************************************************)
(* What a request has read when it is answered.                            *)
(***************************************************************************)

\* A worker's step leaves the requests of the others as they are, but for the
\* histories.
LEMMA StepOnlyOwn ==
    ASSUME IInv, NEW v \in Workers, Step(v), NEW w \in Workers \ {v}
    PROVE  work'[w].cmd = work[w].cmd
<1>1. work \in [Workers -> WorkRec]
  BY Zenon DEF IInv, WorkInv
<1>2. ASSUME NEW c, NEW code, NEW s, Answer(v, c, code, s) PROVE work'[w].cmd = work[w].cmd
  BY <1>1, <1>2, Zenon DEF Answer
<1>3. CASE getPoolMember(v) \/ lockContext(v) \/ canonicalizeReturns(v)
  BY <1>1, <1>3, Zenon DEF getPoolMember, lockContext, canonicalizeReturns
<1>4. CASE allowReturns(v) \/ reportReturns(v) \/ resetReturns(v) \/ customReturns(v) \/ LuaThrows(v)
  BY <1>2, <1>4 DEF allowReturns, reportReturns, resetReturns, customReturns, LuaThrows
<1>5. ASSUME NEW l \in Lists, NEW keys \in SUBSET Keys, NEW noted, noted = Noted(work, l, keys), NEW r, work' = [noted EXCEPT ![v] = r]
      PROVE  work'[w].cmd = work[w].cmd
  <2>1. noted \in [Workers -> WorkRec] /\ noted[w].cmd = work[w].cmd
    BY <1>5, NotedAll, Zenon DEF IInv
  <2> QED BY <1>5, <2>1, Zenon
<1>6. CASE parseAddDelBLWLEntryCmd(v)
  <2> DEFINE l == ListCmd[work[v].cmd][1]
             keys == IF ListCmd[work[v].cmd][2] THEN lists[l] \union {KeyFor(work[v].fields)}
                     ELSE lists[l] \ {KeyFor(work[v].fields)}
  <2>1. l \in Lists /\ keys \in SUBSET Keys
    BY <1>6, CmdSets, KeyForType, Zenon DEF parseAddDelBLWLEntryCmd, IInv, ListInv
  <2>2. work' = [Noted(work, l, keys) EXCEPT ![v] = Idle] \/ Answer(v, work[v].cmd, 500, 0)
    BY <1>6, Zenon DEF parseAddDelBLWLEntryCmd
  <2> HIDE DEF l, keys
  <2> QED BY <1>2, <1>5, <2>1, <2>2
<1>7. CASE parseReportCmd(v)
  BY <1>1, <1>7, Zenon DEF parseReportCmd, CallLua
<1>8. CASE parseResetCmd(v)
  <2> DEFINE keys == lists["bl"] \ {KeyFor(work[v].fields)}
             noted == Noted(work, "bl", keys)
  <2>1. "bl" \in Lists /\ keys \in SUBSET Keys
    BY Zenon DEF Lists, IInv, ListInv
  <2>2. \/ \E code \in {400, 500} : Answer(v, "reset", code, 0)
        \/ work' = [noted EXCEPT ![v].at = "get", ![v].fn = "reset"]
    <3>1. CASE {"login", "ja3"} \subseteq work[v].fields
      BY <1>8, <3>1 DEF parseResetCmd
    <3>2. CASE work[v].fields \intersect {"ip", "login", "ja3"} = {}
      BY <1>8, <3>2 DEF parseResetCmd
    <3>3. CASE ~({"login", "ja3"} \subseteq work[v].fields) /\ work[v].fields \intersect {"ip", "login", "ja3"} # {}
      BY <1>8, <3>3, Zenon DEF parseResetCmd
    <3> QED BY <3>1, <3>2, <3>3, Zenon
  <2> HIDE DEF keys
  <2>3. noted \in [Workers -> WorkRec] /\ noted[w].cmd = work[w].cmd
    BY <2>1, NotedAll, Zenon DEF IInv
  <2> HIDE DEF noted
  <2>4. CASE work' = [noted EXCEPT ![v].at = "get", ![v].fn = "reset"]
    BY <2>3, <2>4, Zenon
  <2> QED BY <1>2, <2>2, <2>4
<1>9. CASE getEntry(v)
  BY <1>1, <1>9, Zenon DEF getEntry
<1>10. CASE decide(v)
  BY <1>1, <1>2, <1>10, Zenon DEF decide, CallLua
<1>11. CASE parseStatsCmd(v)
  BY <1>2, <1>11, Zenon DEF parseStatsCmd
<1>12. CASE parseGetBLWLCmd(v)
  BY <1>1, <1>2, <1>12, Zenon DEF parseGetBLWLCmd
<1>13. CASE parseGetStatsCmd(v)
  BY <1>1, <1>2, <1>13 DEF parseGetStatsCmd
<1> QED BY <1>3, <1>4, <1>6, <1>7, <1>8, <1>9, <1>10, <1>11, <1>12, <1>13, Zenon DEF Step, LuaReturns

\* A request ends by a step of its own worker.
LEMMA EndsItself ==
    ASSUME IInv, [Next]_vars, NEW w \in Workers, work[w].cmd \in Cmds, work'[w].cmd = "none"
    PROVE  Step(w)
<1>1. work \in [Workers -> WorkRec] /\ work[w].cmd # "none" /\ \A v \in Workers : work[v].at = "idle" => work[v].cmd = "none"
  BY CmdNames, Zenon DEF IInv, WorkInv, Tidy
<1>2. work'[w].cmd # work[w].cmd
  BY <1>1, Zenon
<1>3. ASSUME NEW v \in Workers, NEW i \in Inputs,
             doFilterRefuses(v, i.cmd) \/ ParseFails(v, i.cmd) \/ Handle(v, i.cmd, i.fields)
      PROVE  FALSE
  <2>1. work[v].at = "idle"
    BY <1>3, Zenon DEF doFilterRefuses, ParseFails, Handle, Arrive
  <2>2. v # w
    BY <1>1, <2>1, Zenon
  <2>3. \E r : work' = [work EXCEPT ![v] = r]
    BY <1>3, Zenon DEF doFilterRefuses, ParseFails, Handle, Answer
  <2> QED BY <1>1, <1>2, <2>2, <2>3, Zenon
<1>4. ASSUME NEW c \in Changeable, Change(c[1], c[2]) PROVE FALSE
  <2> DEFINE keys == IF c[2] \in lists[c[1]] THEN lists[c[1]] \ {c[2]} ELSE lists[c[1]] \union {c[2]}
  <2>1. c[1] \in Lists /\ c[2] \in Keys
    BY CommandsAssumption, Zenon
  <2>2. keys \in SUBSET Keys
    BY <2>1, Zenon DEF IInv, ListInv
  <2>3. work' = Noted(work, c[1], keys)
    BY <1>4, Zenon DEF Change
  <2> HIDE DEF keys
  <2> QED BY <1>2, <2>1, <2>2, <2>3, NotedAll, Zenon DEF IInv
<1>5. consoleCommand \/ consoleLock \/ consoleRun \/ UNCHANGED vars => work' = work
  BY Zenon DEF consoleCommand, consoleLock, consoleRun, vars
<1>6. ASSUME NEW v \in Workers, Step(v) PROVE v = w
  BY <1>2, <1>6, StepOnlyOwn, Zenon
<1> QED BY <1>2, <1>3, <1>4, <1>5, <1>6, Zenon DEF Next

\* A handler that moves on keeps its command.
LEMMA MovesOn ==
    ASSUME WorkInv, NEW w \in Workers
    PROVE  /\ getPoolMember(w) \/ lockContext(w) \/ canonicalizeReturns(w) => work'[w].cmd = work[w].cmd
           /\ getEntry(w) => work'[w].cmd = work[w].cmd
           /\ \A f : CallLua(w, f) => work'[w].cmd = work[w].cmd
           /\ \A p, found : work' = [work EXCEPT ![w].pos = p, ![w].found = found] => work'[w].cmd = work[w].cmd
<1>1. work[w] \in WorkRec /\ work \in [Workers -> WorkRec]
  BY Zenon DEF WorkInv
<1>2. ASSUME NEW r, work' = [work EXCEPT ![w] = r] PROVE work'[w] = r
  BY <1>1, <1>2, Zenon
<1>3. ASSUME getPoolMember(w) PROVE work'[w].cmd = work[w].cmd
  <2> DEFINE r == [work[w] EXCEPT !.at = "lock", !.ctx = lua_pool[Len(lua_pool)]]
  <2>1. work' = [work EXCEPT ![w] = r]
    BY <1>1, <1>3, Zenon DEF getPoolMember
  <2>2. r.cmd = work[w].cmd
    BY <1>1, Zenon DEF WorkRec
  <2> HIDE DEF r
  <2> QED BY <1>2, <2>1, <2>2, Zenon
<1>4. ASSUME lockContext(w) PROVE work'[w].cmd = work[w].cmd
  <2> DEFINE r == [work[w] EXCEPT !.at = "run"]
  <2>1. work' = [work EXCEPT ![w] = r]
    BY <1>1, <1>4, Zenon DEF lockContext
  <2>2. r.cmd = work[w].cmd
    BY <1>1, Zenon DEF WorkRec
  <2> HIDE DEF r
  <2> QED BY <1>2, <2>1, <2>2, Zenon
<1>5. ASSUME canonicalizeReturns(w) PROVE work'[w].cmd = work[w].cmd
  <2> DEFINE r == [work[w] EXCEPT !.at = "act", !.fn = "none", !.ctx = "none"]
  <2>1. work' = [work EXCEPT ![w] = r]
    BY <1>1, <1>5, Zenon DEF canonicalizeReturns
  <2>2. r.cmd = work[w].cmd
    BY <1>1, Zenon DEF WorkRec
  <2> HIDE DEF r
  <2> QED BY <1>2, <2>1, <2>2, Zenon
<1>6. ASSUME NEW f, CallLua(w, f) PROVE work'[w].cmd = work[w].cmd
  <2> DEFINE r == [work[w] EXCEPT !.at = "get", !.fn = f]
  <2>1. work' = [work EXCEPT ![w] = r]
    BY <1>1, <1>6, Zenon DEF CallLua
  <2>2. r.cmd = work[w].cmd
    BY <1>1, Zenon DEF WorkRec
  <2> HIDE DEF r
  <2> QED BY <1>2, <2>1, <2>2, Zenon
<1>7. ASSUME NEW p, NEW found, work' = [work EXCEPT ![w].pos = p, ![w].found = found] PROVE work'[w].cmd = work[w].cmd
  <2> DEFINE r == [work[w] EXCEPT !.pos = p, !.found = found]
  <2>1. work' = [work EXCEPT ![w] = r]
    BY <1>1, <1>7, Zenon
  <2>2. r.cmd = work[w].cmd
    BY <1>1, Zenon DEF WorkRec
  <2> HIDE DEF r
  <2> QED BY <1>2, <2>1, <2>2, Zenon
<1>8. ASSUME getEntry(w) PROVE work'[w].cmd = work[w].cmd
  <2> DEFINE p == work[w].pos
             l == ListAt(p)
             hit == [work[w] EXCEPT !.at = "list", !.pos = NextList(p), !.found = BothFound(@, l)]
             miss == [work[w] EXCEPT !.at = "list", !.pos = IF l \in builtin THEN p + 1 ELSE NextList(p)]
  <2>1. work' = [work EXCEPT ![w] = hit] \/ work' = [work EXCEPT ![w] = miss]
    BY <1>1, <1>8, Zenon DEF getEntry
  <2>2. hit.cmd = work[w].cmd /\ miss.cmd = work[w].cmd
    BY <1>1, ZenonT(30) DEF WorkRec
  <2> HIDE DEF hit, miss
  <2> QED BY <1>2, <2>1, <2>2, Zenon
<1> QED BY <1>3, <1>4, <1>5, <1>6, <1>7, <1>8, Zenon

\* How a request that reads the lists comes to be answered with 200.
LEMMA Endings ==
    ASSUME IInv, NEW w \in Workers, Step(w), work[w].cmd \in ReadCmds, work'[w].cmd = "none",
           NEW s, answered'[w] = <<work[w].cmd, 200, s>>
    PROVE  \/ work[w].cmd = "allow" /\ work[w].fn = "allow"
           \/ /\ work[w].cmd = "allow" /\ work[w].fn = "none" /\ work[w].pos > LastPos /\ work[w].found # {}
              /\ s = IF "wl" \in work[w].found THEN 0 ELSE -1
           \/ work[w].cmd \in ShowCmds /\ work[w].pos > 5
           \/ work[w].cmd = "getDBStats" /\ work[w].pos > 2
<1> DEFINE cmd == work[w].cmd
<1>1. work \in [Workers -> WorkRec] /\ answered \in [Workers -> Answers] /\ Tidy(work[w])
  BY Zenon DEF IInv, WorkInv, DoneInv, AnsweredType
<1>2. cmd # "none" /\ work'[w].cmd # cmd
  BY CmdNames
<1>3. ASSUME NEW c, NEW code, NEW status, Answer(w, c, code, status)
      PROVE  c = cmd /\ code = 200 /\ status = s
  <2>1. answered'[w] = <<c, code, status>>
    BY <1>1, <1>3, Zenon DEF Answer
  <2> QED BY <2>1
<1>4. ~getPoolMember(w) /\ ~lockContext(w) /\ ~canonicalizeReturns(w)
  BY <1>2, MovesOn DEF IInv
<1>5. ~reportReturns(w) /\ ~resetReturns(w) /\ ~customReturns(w) /\ ~LuaThrows(w) /\ ~parseStatsCmd(w)
  <2>1. cmd # "report" /\ cmd # "reset" /\ cmd # "custom" /\ cmd # "stats"
    BY CmdNames
  <2>2. ~reportReturns(w) /\ ~customReturns(w) /\ ~parseStatsCmd(w)
    BY <1>3, <2>1 DEF reportReturns, customReturns, parseStatsCmd
  <2>3. ~resetReturns(w) /\ ~LuaThrows(w)
    BY <1>3, <2>1 DEF resetReturns, LuaThrows
  <2> QED BY <2>2, <2>3, Zenon
<1>6. ~parseAddDelBLWLEntryCmd(w) /\ ~parseReportCmd(w) /\ ~parseResetCmd(w)
  <2>1. cmd \notin ListCmds /\ cmd # "report" /\ cmd # "reset"
    BY CmdNames
  <2> QED BY <2>1, Zenon DEF parseAddDelBLWLEntryCmd, parseReportCmd, parseResetCmd
<1>7. ~getEntry(w)
  BY <1>2, MovesOn, Zenon DEF IInv
<1>8. CASE allowReturns(w)
  BY <1>3, <1>8 DEF allowReturns, Runs
<1>9. CASE decide(w)
  <2>1. work[w].cmd = "allow" /\ work[w].fn = "none" /\ work[w].pos > LastPos
    BY <1>1, <1>9, Zenon DEF decide, Tidy
  <2>2. CASE work[w].found = {}
    BY <1>2, <1>9, <2>2, MovesOn, Zenon DEF decide, IInv
  <2>3. CASE work[w].found # {}
    BY <1>3, <1>9, <2>1, <2>3 DEF decide
  <2> QED BY <2>2, <2>3, Zenon
<1>10. CASE parseGetBLWLCmd(w)
  <2> DEFINE p == work[w].pos
             found == work[w].found \union ({ShowOrder[p]} \intersect lists[ShownList[cmd]])
  <2>1. p <= 5 => work' = [work EXCEPT ![w].pos = p + 1, ![w].found = found]
    BY <1>1, <1>10, Orders DEF parseGetBLWLCmd
  <2>2. work[w].pos \in Int
    BY <1>1, WorkFields, Orders
  <2>3. ~(work[w].pos <= 5)
    <3> HIDE DEF found
    <3> QED BY <1>2, <2>1, MovesOn DEF IInv
  <2> QED BY <1>10, <2>2, <2>3 DEF parseGetBLWLCmd
<1>11. CASE parseGetStatsCmd(w)
  <2>1. Len(StatsOrder(w)) = 2
    BY Zenon DEF StatsOrder
  <2>2. CASE \E code \in {200, 400} : Answer(w, "getDBStats", code, 0) /\ (code = 200 => work[w].pos > 2)
    BY <1>3, <1>11, <2>2 DEF parseGetStatsCmd
  <2>3. ASSUME NEW p, NEW found, work' = [work EXCEPT ![w].pos = p, ![w].found = found] PROVE FALSE
    BY <1>2, <2>3, MovesOn, Zenon DEF IInv
  <2> QED BY <1>11, <2>1, <2>2, <2>3 DEF parseGetStatsCmd
<1> QED BY <1>4, <1>5, <1>6, <1>7, <1>8, <1>9, <1>10, <1>11 DEF Step, LuaReturns

\* What has been looked up in both lists to the end.
LEMMA AllowedAsListed ==
    ASSUME IInv, NEW w \in Workers, work[w].cmd = "allow", work[w].pos = LastPos + 1
    PROVE  \A l \in Lists : /\ Listed(work[w].always, w, l) => l \in work[w].found
                            /\ l \in work[w].found => Listed(work[w].ever, w, l)
<1>1. AllowOK(work[w], builtin) /\ work[w].always \in [Lists -> SUBSET Keys]
  BY WorkFields, Zenon DEF IInv, WorkInv, ReadInv, ReadOK
<1>2. \A k : Applies(w, k) <=> Looked(work[w], k)
  BY Zenon DEF Applies, Looked
<1>3. ASSUME NEW l \in Lists, Listed(work[w].always, w, l) PROVE l \in work[w].found
  <2>1. PICK k \in work[w].always[l] : l \in builtin /\ Looked(work[w], k)
    BY <1>2, <1>3, Zenon DEF Listed
  <2>2. PICK p \in 1 .. LastPos : ListAt(p) = l /\ KeyAt(p) = k
    BY <1>1, Positions, Zenon
  <2>3. p \in 1 .. work[w].pos - 1
    BY Orders
  <2> QED BY <1>1, <2>1, <2>2, <2>3, Zenon DEF AllowOK
<1>4. ASSUME NEW l \in Lists, l \in work[w].found PROVE Listed(work[w].ever, w, l)
  BY <1>1, <1>2, <1>4, Zenon DEF AllowOK, Listed
<1> QED BY <1>3, <1>4, Zenon

\* The answer of allow, with the lists as they were while it was made.
Honoured(w, status) ==
    LET always == work[w].always
        ever == work[w].ever
        lua == work[w].fn = "allow"
    IN
    /\ Listed(always, w, "wl") => status = 0
    /\ Listed(always, w, "bl") /\ ~Listed(ever, w, "wl") => status = -1
    /\ ~Listed(ever, w, "wl") /\ ~Listed(ever, w, "bl") => lua
    /\ Listed(always, w, "wl") \/ Listed(always, w, "bl") => ~lua

LEMMA HonouredStep ==
    ASSUME IInv, [Next]_vars, NEW w \in Workers, NEW status \in -1 .. 1,
           work[w].cmd = "allow", work'[w].cmd = "none", answered'[w] = <<"allow", 200, status>>
    PROVE  Honoured(w, status)
<1>1. Step(w)
  BY EndsItself, CmdNames, Zenon
<1>2. \/ work[w].fn = "allow"
      \/ /\ work[w].fn = "none" /\ work[w].pos > LastPos /\ work[w].found # {}
         /\ status = IF "wl" \in work[w].found THEN 0 ELSE -1
  BY <1>1, Endings, CmdNames
<1>3. AllowOK(work[w], builtin) /\ work[w].pos \in 1 .. LastPos + 1
  BY WorkFields DEF IInv, WorkInv, ReadInv, ReadOK
<1>4. work[w].pos = LastPos + 1
  BY <1>2, <1>3, Orders DEF AllowOK
<1>5. \A l \in Lists : /\ Listed(work[w].always, w, l) => l \in work[w].found
                       /\ l \in work[w].found => Listed(work[w].ever, w, l)
  BY <1>4, AllowedAsListed, Zenon
<1>6. work[w].fn = "allow" => work[w].found = {}
  BY <1>3, Zenon DEF AllowOK
<1>7. work[w].found \subseteq {"wl", "bl"} /\ "wl" \in Lists /\ "bl" \in Lists
  BY <1>3, Zenon DEF AllowOK, Lists
<1> QED BY <1>2, <1>5, <1>6, <1>7 DEF Honoured

\* The answer to allow respects the lists however they change meanwhile: for
\* any number of workers and of requests that change them.
THEOREM ListsStayHonoured == Spec => ListsAreHonoured
<1>1. IInv /\ [Next]_vars =>
        [\A w \in Workers, status \in -1 .. 1 :
            work[w].cmd = "allow" /\ work'[w].cmd = "none" /\ answered'[w] = <<"allow", 200, status>> => Honoured(w, status)]_vars
  BY HonouredStep, Zenon
<1> QED BY <1>1, IInvHolds, PTL DEF Spec, ListsAreHonoured, Honoured

\* What a command that shows the lists has collected when it answers.
ShownRight(w) ==
    LET cmd == work[w].cmd
        shown == work[w].found
        always == work[w].always
        ever == work[w].ever
        key == KeyFor(work[w].fields)
    IN
    /\ cmd \in ShowCmds => always[ShownList[cmd]] \subseteq shown /\ shown \subseteq ever[ShownList[cmd]]
    /\ cmd = "getDBStats" => \A l \in Lists : (key \in always[l] => l \in shown) /\ (l \in shown => key \in ever[l])

LEMMA ShownStep ==
    ASSUME IInv, [Next]_vars, NEW w \in Workers, work'[w].cmd = "none", answered'[w] = <<work[w].cmd, 200, 0>>
    PROVE  ShownRight(w)
<1>1. /\ ReadOK(work[w], builtin, lists)
      /\ work[w].always \in [Lists -> SUBSET Keys] /\ work[w].pos \in 1 .. LastPos + 1
  BY WorkFields DEF IInv, WorkInv, ReadInv
<1>2. ASSUME work[w].cmd \in ReadCmds
      PROVE  /\ work[w].cmd \in ShowCmds => work[w].pos > 5
             /\ work[w].cmd = "getDBStats" => work[w].pos > 2
  BY <1>2, EndsItself, Endings, CmdNames
<1>3. ASSUME work[w].cmd \in ShowCmds
      PROVE  LET l == ShownList[work[w].cmd] IN work[w].always[l] \subseteq work[w].found /\ work[w].found \subseteq work[w].ever[l]
  <2> DEFINE l == ShownList[work[w].cmd]
  <2>1. l \in Lists /\ ShowOK(work[w], l) /\ work[w].pos > 5
    BY <1>1, <1>2, <1>3, CmdSets, CmdNames DEF ReadOK
  <2> HIDE DEF l
  <2>2. ASSUME NEW k \in work[w].always[l] PROVE k \in work[w].found
    <3>1. PICK p \in 1 .. 5 : ShowOrder[p] = k
      BY <1>1, <2>1, ShowPositions, Zenon
    <3>2. p < work[w].pos
      BY <1>1, <2>1, Orders
    <3> QED BY <2>1, <3>1, <3>2, Zenon DEF ShowOK
  <2> QED BY <2>1, <2>2, Zenon DEF ShowOK, l
<1>4. ASSUME work[w].cmd = "getDBStats"
      PROVE  \A l \in Lists : LET key == KeyFor(work[w].fields) IN
                (key \in work[w].always[l] => l \in work[w].found) /\ (l \in work[w].found => key \in work[w].ever[l])
  <2>1. StatsOK(work[w]) /\ work[w].pos > 2
    BY <1>1, <1>2, <1>4, CmdNames DEF ReadOK
  <2>2. 1 < work[w].pos /\ 2 < work[w].pos
    BY <1>1, <2>1, Orders
  <2> QED BY <2>1, <2>2 DEF StatsOK, Lists
<1> QED BY <1>3, <1>4, Zenon DEF ShownRight

\* getBL, getWL and getDBStats show what was listed from beginning to end and
\* nothing that never was: for any number of workers and changes.
THEOREM ListsAreShown == Spec => ShownAsListed
<1>1. IInv /\ [Next]_vars =>
        [\A w \in Workers : work'[w].cmd = "none" /\ answered'[w] = <<work[w].cmd, 200, 0>> => ShownRight(w)]_vars
  BY ShownStep, Zenon
<1> QED BY <1>1, IInvHolds, PTL DEF Spec, ShownAsListed, ShownRight
=============================================================================

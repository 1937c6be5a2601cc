--------------------------- MODULE DaemonsProofs ---------------------------
(***************************************************************************)
(* Proofs about Trackalert and Console: the Lua contexts, the scheduler    *)
(* and the console of a running daemon.                                    *)
(***************************************************************************)
EXTENDS Trackalert, FiniteSetTheorems, TLAPS

-----------------------------------------------------------------------------
(***************************************************************************)
(* The inductive invariant: the console.                                   *)
(***************************************************************************)

Nonce == (0 .. CounterSize - 1) \X Nat
Printed == [of : Clients \union {Nobody}, n : Nat, size : Nat]

ClientStates == {"start", "hello", "ready", "waiting", "ended", "failed"}
Busy == {"contexts", "global", "print", "reply"}
ServerStates == Busy \union {"accept", "idle", "closed"}

ClientRecord == [at : ClientStates, ours : Nonce, reading : Nonce, writing : Nonce,
                 line : Lines \union {Nobody}, n : 0 .. MaxCommands, shown : Printed]
ServerRecord == [at : ServerStates, reading : Nonce, writing : Nonce, key : Keys, line : Lines \union {Nobody},
                 n : 0 .. MaxCommands, todo : Seq(Contexts), response : Printed]

ConsoleTypeInv ==
    /\ client \in [Clients -> ClientRecord] /\ server \in [Clients -> ServerRecord]
    /\ toServer = [c \in Clients |-> toServer[c]] /\ toClient = [c \in Clients |-> toClient[c]]
    /\ daemon \in {"wforce", "trackalert"} /\ g_key \in Keys /\ g_luamutex \in Clients \union {Nobody}
    /\ g_outputBuffer \in Printed

\* What the command of server thread c may have printed, or why it failed.
Answer(c, text) == text.of = c /\ text.n = server[c].n /\ text.size \in {server[c].line.output, ErrorSize}

\* The thread that has printed still holds g_luamutex, and the buffer is its own.
ThreadInv(c) ==
    /\ server[c].at \in Busy => server[c].line \in Lines
    /\ server[c].at = "print" => g_luamutex = c /\ g_outputBuffer = Text(c, server[c].line.output)
    /\ server[c].at = "reply" => Answer(c, server[c].response)

Empty(c) == toServer[c] = <<>> /\ toClient[c] = <<>>

\* The two ends will use the same nonces for the next message, each way.
ToClientAgrees(c) == client[c].reading = server[c].writing
ToServerAgrees(c) == client[c].writing = server[c].reading

\* Why a client may give up.
Excused(c) == ~Fits(client[c].line.size) \/ ~Fits(client[c].line.output) \/ SessionKey(c) # ConfigKey

\* What is shown belongs to the last command.
Shown(c) ==
    client[c].shown # NoText =>
        /\ client[c].line \in Lines /\ client[c].shown.of = c /\ client[c].shown.n = client[c].n
        /\ Fits(client[c].line.output) \/ c \in Terminals => client[c].shown.size \in {client[c].line.output, ErrorSize}

\* Where a connection can be: the exchange of nonces,
Greeting(c) ==
    \/ client[c].at = "start" /\ server[c].at = "accept" /\ Empty(c)
    \/ client[c].at = "hello" /\ server[c].at = "accept" /\ toServer[c] = <<client[c].ours>> /\ toClient[c] = <<>>
    \/ /\ client[c].at = "hello" /\ server[c].at = "idle" /\ toServer[c] = <<>>
       /\ \E ours \in Nonce : /\ toClient[c] = <<ours>>
                              /\ server[c].reading = merge(ours, client[c].ours)
                              /\ server[c].writing = merge(client[c].ours, ours)

\* between two commands,
Resting(c) == client[c].at = "ready" /\ server[c].at = "idle" /\ Empty(c) /\ ToClientAgrees(c) /\ ToServerAgrees(c)

\* a command on its way,
Asking(c) ==
    /\ client[c].at = "waiting" /\ server[c].at = "idle" /\ toClient[c] = <<>>
    /\ toServer[c] = <<sodEncryptSym([of |-> c, n |-> client[c].n, size |-> client[c].line.size, line |-> client[c].line],
                                     ConfigKey, server[c].reading)>>
    /\ ToClientAgrees(c) /\ client[c].writing = increment(server[c].reading)

\* the command being run,
Running(c) ==
    /\ client[c].at = "waiting" /\ server[c].at \in Busy /\ Empty(c) /\ ToClientAgrees(c) /\ ToServerAgrees(c)
    /\ server[c].line = client[c].line /\ server[c].n = client[c].n

\* its answer on the way back,
Answering(c) ==
    /\ client[c].at = "waiting" /\ server[c].at = "idle" /\ toServer[c] = <<>>
    /\ \E text \in Printed, key \in Keys :
        /\ toClient[c] = <<sodEncryptSym(text, key, client[c].reading)>>
        /\ text.of = c /\ text.n = client[c].n /\ text.size \in {client[c].line.output, ErrorSize}
        /\ key # ConfigKey => SessionKey(c) # ConfigKey
    /\ ToServerAgrees(c) /\ server[c].writing = increment(client[c].reading)

\* and the end, for a reason if the client has not asked for it.
Ending(c) ==
    /\ Empty(c)
    /\ \/ client[c].at = "waiting" /\ server[c].at = "closed" /\ Excused(c)
       \/ client[c].at = "failed" /\ server[c].at \in {"idle", "closed"} /\ Excused(c)
       \/ client[c].at = "ended" /\ server[c].at \in {"idle", "closed"}

AtTerminal(c) ==
    /\ Empty(c) /\ server[c].n = client[c].n
    /\ \/ client[c].at = "ready" /\ server[c].at = "accept"
       \/ client[c].at = "waiting" /\ server[c].at \in Busy /\ server[c].line = client[c].line

SessionInv(c) ==
    /\ IF c \in Terminals THEN AtTerminal(c)
       ELSE Greeting(c) \/ Resting(c) \/ Asking(c) \/ Running(c) \/ Answering(c) \/ Ending(c)
    /\ Shown(c)
    /\ client[c].at \in {"waiting", "failed"} => client[c].line \in Lines /\ client[c].shown = NoText

ConsoleInv == ConsoleTypeInv /\ \A c \in Clients : ThreadInv(c) /\ SessionInv(c)

-----------------------------------------------------------------------------
(***************************************************************************)
(* The inductive invariant: Lua contexts and scheduler.                    *)
(***************************************************************************)

JobRecord == [at : {"idle", "get", "lock", "run", "again"}, fn : Tasks \union {"none", "report", "custom"},
              ctx : Contexts \union {"none"}]

DaemonTypeInv ==
    /\ config \in Installations /\ now \in 0 .. MaxTime /\ requests \in 0 .. MaxRequests
    /\ tasks \subseteq Nat \X config.tasks /\ IsFiniteSet(tasks)
    /\ manager \in [at : {"look", "sleep", "manage"}, until : Nat]
    /\ interrupted \in BOOLEAN /\ queue \in Seq(config.tasks)
    /\ job \in [Callers -> JobRecord]

\* A context is in the pool or with one caller, who runs Lua in it under its lock.
Free == {lua_pool[i] : i \in DOMAIN lua_pool}

PoolType ==
    /\ lua_pool \in Seq(Contexts) /\ mutex \in [Contexts -> Clients \union Callers \union {Nobody}]
    /\ \A i, j \in DOMAIN lua_pool : lua_pool[i] = lua_pool[j] => i = j
Tidy == \A w \in Callers : job[w].ctx # "none" <=> job[w].at \in {"lock", "run"}
NotFree == \A w \in Callers : job[w].ctx \notin Free
NotShared == \A v, w \in Callers : job[v].ctx # "none" /\ job[v].ctx = job[w].ctx => v = w
NoneLost == \A x \in Contexts : x \in Free \/ \E w \in Callers : job[w].ctx = x
RunsLocked == \A w \in Callers : job[w].at = "run" => mutex[job[w].ctx] = w

PoolInv == PoolType /\ Tidy /\ NotFree /\ NotShared /\ NoneLost /\ RunsLocked

\* Who runs which functions.
JobInv ==
    /\ \A w \in Callers : job[w].at = "idle" => job[w].fn = "none"
    /\ \A w \in Workers : job[w].at # "again" /\ job[w].fn \in {"none", "report", "custom"}
    /\ \A th \in Threads : job[th].fn \in config.tasks \union {"none"}
    /\ \A th \in Threads : job[th].at = "again" => job[th].fn \in Intervals

Entries(t) == {e \in tasks : e[2] = t}
InQueue(t) == {i \in DOMAIN queue : queue[i] = t}
Runners(t) == {th \in Threads : job[th].fn = t}

One(S) == \E x : S = {x}

ScheduleInv ==
    \A t \in config.tasks :
        IF t \in Crons THEN One(Entries(t))
        ELSE \/ One(Entries(t)) /\ InQueue(t) = {} /\ Runners(t) = {}
             \/ Entries(t) = {} /\ One(InQueue(t)) /\ Runners(t) = {}
             \/ Entries(t) = {} /\ InQueue(t) = {} /\ One(Runners(t))

DaemonInv == DaemonTypeInv /\ PoolInv /\ JobInv /\ ScheduleInv

-----------------------------------------------------------------------------
(***************************************************************************)
(* The pool of Lua contexts.                                               *)
(***************************************************************************)

LEMMA Actors ==
    /\ Workers \subseteq Callers /\ Threads \subseteq Callers
    /\ \A w \in Callers : w \notin Clients /\ w # Nobody
    /\ \A w \in Workers : w \notin Threads
    /\ \A t \in Tasks : t # "none" /\ t # "report" /\ t # "custom"
    /\ \A t \in Intervals : t \in Tasks /\ t \notin Crons
    /\ "none" \notin Contexts
<1>1. /\ \A w \in Callers : w \notin Clients /\ w # Nobody
      /\ \A w \in Workers : w \notin Threads
      /\ \A t \in Tasks : t # "none" /\ t # "report" /\ t # "custom"
      /\ "none" \notin Contexts
  BY TrackalertAssumption, Zenon
<1>2. \A t \in Intervals : t \notin Crons
  BY TrackalertAssumption, Zenon
<1> QED BY <1>1, <1>2, Zenon DEF Callers, Tasks

LEMMA InstallationFacts ==
    ASSUME NEW i \in Installations
    PROVE  /\ i.tasks \subseteq Tasks /\ i.workers \subseteq Workers /\ i.clients \subseteq Clients
           /\ i.daemon \in {"wforce", "trackalert"} /\ i.commands \in 0 .. MaxCommands
BY TrackalertAssumption, Zenon

\* The last context of the pool and the others.
LEMMA LastAndOthers ==
    ASSUME NEW S, NEW s \in Seq(S), s # <<>>
    PROVE  LET front == SubSeq(s, 1, Len(s) - 1) IN
           /\ Len(s) \in DOMAIN s /\ s[Len(s)] \in S
           /\ front \in Seq(S) /\ DOMAIN front = 1 .. Len(s) - 1 /\ Len(s) \notin DOMAIN front
           /\ \A i \in DOMAIN front : i \in DOMAIN s /\ front[i] = s[i]
           /\ \A i \in DOMAIN s : i = Len(s) \/ i \in DOMAIN front
<1>1. Len(s) \in Nat /\ Len(s) # 0 /\ DOMAIN s = 1 .. Len(s)
  OBVIOUS
<1> QED BY <1>1

LEMMA JobMoves ==
    ASSUME job \in [Callers -> JobRecord], NEW w \in Callers, NEW r \in JobRecord, job' = [job EXCEPT ![w] = r]
    PROVE  /\ job' \in [Callers -> JobRecord] /\ job'[w] = r
           /\ \A v \in Callers : v # w => job'[v] = job[v]
BY Zenon

LEMMA IdleRecord == Idle \in JobRecord
BY Zenon DEF Idle, JobRecord

\* A caller that stays without a context leaves the pool as it is.
LEMMA PoolStays ==
    ASSUME PoolInv, job \in [Callers -> JobRecord], NEW w \in Callers, NEW r \in JobRecord,
           job' = [job EXCEPT ![w] = r], job[w].ctx = "none", r.ctx = "none", r.at \notin {"lock", "run"},
           UNCHANGED <<lua_pool, mutex>>
    PROVE  PoolInv'
<1>1. job'[w] = r /\ \A v \in Callers : v # w => job'[v] = job[v]
  BY JobMoves, Zenon
<1>2. \A v \in Callers : job'[v].ctx = job[v].ctx
  BY <1>1, Zenon
<1>3. PoolType' /\ Free' = Free
  BY Zenon DEF PoolInv, PoolType, Free
<1>4. Tidy'
  BY <1>1, Zenon DEF PoolInv, Tidy
<1>5. NotFree' /\ NotShared' /\ NoneLost'
  BY <1>2, <1>3, Zenon DEF PoolInv, NotFree, NotShared, NoneLost
<1>6. RunsLocked'
  BY <1>1, Zenon DEF PoolInv, RunsLocked
<1> QED BY <1>3, <1>4, <1>5, <1>6, Zenon DEF PoolInv

LEMMA PoolSame ==
    ASSUME PoolInv, UNCHANGED <<job, lua_pool, mutex>>
    PROVE  PoolInv'
<1>1. PoolType' /\ Free' = Free
  BY Zenon DEF PoolInv, PoolType, Free
<1>2. Tidy' /\ RunsLocked'
  BY Zenon DEF PoolInv, Tidy, RunsLocked
<1>3. NotFree' /\ NotShared' /\ NoneLost'
  BY <1>1, Zenon DEF PoolInv, NotFree, NotShared, NoneLost
<1> QED BY <1>1, <1>2, <1>3, Zenon DEF PoolInv

LEMMA FreeContexts ==
    ASSUME PoolType
    PROVE  Free \subseteq Contexts
<1>1. lua_pool \in Seq(Contexts)
  BY Zenon DEF PoolType
<1>2. \A i \in DOMAIN lua_pool : lua_pool[i] \in Contexts
  BY <1>1
<1> QED BY <1>2, Zenon DEF Free

\* The console takes or releases the lock of a context that no caller has.
LEMMA PoolConsole ==
    ASSUME PoolInv, job \in [Callers -> JobRecord], UNCHANGED <<job, lua_pool>>, NEW c \in Clients, NEW x \in Contexts, NEW h \in {c, Nobody},
           mutex[x] \in {c, Nobody}, mutex' = [mutex EXCEPT ![x] = h]
    PROVE  PoolInv'
<1>1. /\ mutex' \in [Contexts -> Clients \union Callers \union {Nobody}]
      /\ \A y \in Contexts : y # x => mutex'[y] = mutex[y]
  BY Zenon DEF PoolInv, PoolType
<1>2. PoolType' /\ Tidy' /\ NotFree' /\ NotShared' /\ NoneLost'
  <2>1. PoolType' /\ Free' = Free
    BY <1>1, Zenon DEF PoolInv, PoolType, Free
  <2>2. Tidy'
    BY Zenon DEF PoolInv, Tidy
  <2>3. NotFree' /\ NotShared' /\ NoneLost'
    BY <2>1, Zenon DEF PoolInv, NotFree, NotShared, NoneLost
  <2> QED BY <2>1, <2>2, <2>3, Zenon
<1>3. RunsLocked'
  <2> SUFFICES ASSUME NEW w \in Callers, job[w].at = "run" PROVE mutex'[job[w].ctx] = w
    BY Zenon DEF RunsLocked
  <2>1. mutex[job[w].ctx] = w /\ w # Nobody /\ w # c
    BY Actors, Zenon DEF PoolInv, RunsLocked
  <2>2. job[w].ctx # x
    BY <2>1, Zenon
  <2>3. job[w].ctx \in Contexts
    BY Zenon DEF PoolInv, Tidy, JobRecord
  <2> QED BY <1>1, <2>1, <2>2, <2>3, Zenon
<1> QED BY <1>2, <1>3, Zenon DEF PoolInv

LEMMA getPoolMemberPool ==
    ASSUME PoolInv, job \in [Callers -> JobRecord], NEW w \in Callers, getPoolMember(w)
    PROVE  /\ PoolInv' /\ job' \in [Callers -> JobRecord]
           /\ job'[w].at = "lock" /\ job'[w].fn = job[w].fn
           /\ \A v \in Callers : v # w => job'[v] = job[v]
<1> DEFINE c == lua_pool[Len(lua_pool)]
           r == [job[w] EXCEPT !.at = "lock", !.ctx = c]
<1>1. job[w] \in JobRecord /\ job[w].at = "get" /\ job[w].ctx = "none" /\ mutex' = mutex
  BY Zenon DEF getPoolMember, PoolInv, Tidy
<1>2. /\ Len(lua_pool) \in DOMAIN lua_pool /\ c \in Contexts
      /\ lua_pool' \in Seq(Contexts) /\ Len(lua_pool) \notin DOMAIN lua_pool'
      /\ \A i \in DOMAIN lua_pool' : i \in DOMAIN lua_pool /\ lua_pool'[i] = lua_pool[i]
      /\ \A i \in DOMAIN lua_pool : i = Len(lua_pool) \/ i \in DOMAIN lua_pool'
  <2>1. lua_pool \in Seq(Contexts) /\ lua_pool # <<>>
        /\ lua_pool' = SubSeq(lua_pool, 1, Len(lua_pool) - 1)
    BY Zenon DEF PoolInv, PoolType, getPoolMember
  <2> QED BY <2>1, LastAndOthers
<1>3. job' = [job EXCEPT ![w] = r]
  BY Zenon DEF getPoolMember
<1>4. c # "none" /\ c \in Free /\ \A v \in Callers : job[v].ctx # c
  BY <1>2, Actors, Zenon DEF Free, PoolInv, NotFree
<1>5. Free' = Free \ {c}
  <2>1. \A i \in DOMAIN lua_pool' : lua_pool'[i] # c
    BY <1>2, Zenon DEF PoolInv, PoolType
  <2>3. \A x : x \in Free' => x \in Free /\ x # c
    BY <1>2, <2>1, Zenon DEF Free
  <2>2. \A x : x \in Free /\ x # c => x \in Free'
    BY <1>2, Zenon DEF Free
  <2> QED BY <2>2, <2>3, Zenon
<1> HIDE DEF c
<1>6. r \in JobRecord /\ r.at = "lock" /\ r.ctx = c /\ r.fn = job[w].fn
  BY <1>1, <1>2, Zenon DEF JobRecord
<1> HIDE DEF r
<1>7. job' \in [Callers -> JobRecord] /\ job'[w] = r /\ \A v \in Callers : v # w => job'[v] = job[v]
  BY <1>3, <1>6, JobMoves, Zenon
<1>8. PoolType'
  BY <1>1, <1>2, Zenon DEF PoolInv, PoolType
<1>9. Tidy' /\ RunsLocked'
  BY <1>1, <1>4, <1>6, <1>7, Zenon DEF PoolInv, Tidy, RunsLocked
<1>10. NotFree'
  BY <1>5, <1>6, <1>7, Zenon DEF PoolInv, NotFree
<1>11. NotShared'
  <2> SUFFICES ASSUME NEW u \in Callers, NEW v \in Callers, job'[u].ctx # "none", job'[u].ctx = job'[v].ctx, u # v
               PROVE  FALSE
    BY Zenon DEF NotShared
  <2>1. CASE u # w /\ v # w
    BY <2>1, <1>7, Zenon DEF PoolInv, NotShared
  <2>2. CASE u = w \/ v = w
    BY <2>2, <1>4, <1>6, <1>7, Zenon
  <2> QED BY <2>1, <2>2, Zenon
<1>12. NoneLost'
  <2> SUFFICES ASSUME NEW d \in Contexts PROVE d \in Free' \/ \E v \in Callers : job'[v].ctx = d
    BY Zenon DEF NoneLost
  <2>1. CASE d = c
    BY <2>1, <1>6, <1>7, Zenon
  <2>2. CASE d # c /\ d \notin Free
    <3>1. PICK v \in Callers : job[v].ctx = d
      BY <2>2, Zenon DEF PoolInv, NoneLost
    <3>2. v # w
      BY <3>1, <1>1, Actors, Zenon
    <3> QED BY <3>1, <3>2, <1>7, Zenon
  <2> QED BY <2>1, <2>2, <1>5, Zenon
<1> QED BY <1>6, <1>7, <1>8, <1>9, <1>10, <1>11, <1>12, Zenon DEF PoolInv

LEMMA lockContextPool ==
    ASSUME PoolInv, job \in [Callers -> JobRecord], NEW w \in Callers, lockContext(w)
    PROVE  /\ PoolInv' /\ job' \in [Callers -> JobRecord]
           /\ job'[w].at = "run" /\ job'[w].fn = job[w].fn
           /\ \A v \in Callers : v # w => job'[v] = job[v]
<1> DEFINE r == [job[w] EXCEPT !.at = "run"]
           c == job[w].ctx
<1>1. /\ job[w] \in JobRecord /\ job[w].at = "lock" /\ c # "none" /\ lua_pool' = lua_pool /\ mutex[c] = Nobody
      /\ job' = [job EXCEPT ![w] = r] /\ mutex' = [mutex EXCEPT ![c] = w]
  BY Zenon DEF lockContext, PoolInv, Tidy
<1>2. r \in JobRecord /\ r.at = "run" /\ r.ctx = c /\ r.fn = job[w].fn /\ c \in Contexts
  BY <1>1, Zenon DEF JobRecord
<1> HIDE DEF r
<1>3. job' \in [Callers -> JobRecord] /\ job'[w] = r /\ \A v \in Callers : v # w => job'[v] = job[v]
  BY <1>1, <1>2, JobMoves, Zenon
<1>4. /\ mutex' \in [Contexts -> Clients \union Callers \union {Nobody}] /\ mutex'[c] = w
      /\ \A y \in Contexts : y # c => mutex'[y] = mutex[y]
  BY <1>1, <1>2, Zenon DEF PoolInv, PoolType
<1>5. Free' = Free /\ \A v \in Callers : job'[v].ctx = job[v].ctx
  BY <1>1, <1>2, <1>3, Zenon DEF Free
<1>6. PoolType' /\ NotFree' /\ NotShared' /\ NoneLost'
  <2>1. PoolType'
    BY <1>1, <1>4, Zenon DEF PoolInv, PoolType
  <2>2. NotFree' /\ NotShared'
    BY <1>5, Zenon DEF PoolInv, NotFree, NotShared
  <2>3. NoneLost'
    BY <1>5, Zenon DEF PoolInv, NoneLost
  <2> QED BY <2>1, <2>2, <2>3, Zenon
<1>7. Tidy'
  BY <1>1, <1>2, <1>3, Zenon DEF PoolInv, Tidy
<1>8. RunsLocked'
  <2> SUFFICES ASSUME NEW v \in Callers, job'[v].at = "run", v # w PROVE mutex'[job'[v].ctx] = v
    BY <1>2, <1>3, <1>4, Zenon DEF RunsLocked
  <2>1. job[v].at = "run" /\ job'[v].ctx = job[v].ctx /\ mutex[job[v].ctx] = v /\ job[v].ctx # "none"
    BY <1>3, Zenon DEF PoolInv, RunsLocked, Tidy
  <2>2. job[v].ctx # c /\ job[v].ctx \in Contexts
    BY <2>1, Zenon DEF PoolInv, NotShared, JobRecord
  <2> QED BY <2>1, <2>2, <1>4, Zenon
<1> QED BY <1>2, <1>3, <1>6, <1>7, <1>8, Zenon DEF PoolInv

LEMMA luaReturnsPool ==
    ASSUME PoolInv, job \in [Callers -> JobRecord], NEW w \in Callers, luaReturns(w)
    PROVE  /\ PoolInv' /\ job' \in [Callers -> JobRecord]
           /\ IF job[w].fn \in Intervals THEN job'[w].at = "again" /\ job'[w].fn = job[w].fn ELSE job'[w] = Idle
           /\ \A v \in Callers : v # w => job'[v] = job[v]
<1> DEFINE r == IF job[w].fn \in Intervals THEN [Idle EXCEPT !.at = "again", !.fn = job[w].fn] ELSE Idle
           c == job[w].ctx
<1>1. /\ job[w] \in JobRecord /\ job[w].at = "run" /\ c # "none" /\ lua_pool' = Append(lua_pool, c)
      /\ job' = [job EXCEPT ![w] = r] /\ mutex' = [mutex EXCEPT ![c] = Nobody]
  BY Zenon DEF luaReturns, PoolInv, Tidy, returnPoolMember
<1>2. /\ r \in JobRecord /\ r.at \notin {"lock", "run"} /\ r.ctx = "none" /\ c \in Contexts
      /\ IF job[w].fn \in Intervals THEN r.at = "again" /\ r.fn = job[w].fn ELSE r = Idle
  <2>1. job[w].fn \in Tasks \union {"none", "report", "custom"} /\ c \in Contexts
    BY <1>1, Zenon DEF JobRecord
  <2>2. CASE job[w].fn \in Intervals
    BY <2>1, <2>2, Zenon DEF JobRecord, Idle
  <2>3. CASE job[w].fn \notin Intervals
    BY <2>1, <2>3, IdleRecord, Zenon DEF Idle
  <2> QED BY <2>2, <2>3, Zenon
<1> HIDE DEF r
<1>3. job' \in [Callers -> JobRecord] /\ job'[w] = r /\ \A v \in Callers : v # w => job'[v] = job[v]
  BY <1>1, <1>2, JobMoves, Zenon
<1>4. /\ mutex' \in [Contexts -> Clients \union Callers \union {Nobody}]
      /\ \A y \in Contexts : y # c => mutex'[y] = mutex[y]
  BY <1>1, <1>2, Zenon DEF PoolInv, PoolType
<1>5. c \notin Free
  BY <1>1, Zenon DEF PoolInv, NotFree
<1> HIDE DEF c
<1>6. /\ lua_pool' \in Seq(Contexts) /\ Len(lua_pool) + 1 \in DOMAIN lua_pool' /\ lua_pool'[Len(lua_pool) + 1] = c
      /\ \A i \in DOMAIN lua_pool' : i = Len(lua_pool) + 1 \/ i \in DOMAIN lua_pool
      /\ \A i \in DOMAIN lua_pool : i \in DOMAIN lua_pool' /\ lua_pool'[i] = lua_pool[i]
  <2>1. lua_pool \in Seq(Contexts)
    BY Zenon DEF PoolInv, PoolType
  <2> QED BY <1>1, <1>2, <2>1
<1>7. Free' = Free \union {c}
  <2>1. \A x : x \in Free' => x \in Free \/ x = c
    BY <1>6, Zenon DEF Free
  <2>2. \A x : x \in Free \/ x = c => x \in Free'
    BY <1>6, Zenon DEF Free
  <2> QED BY <2>1, <2>2, Zenon
<1>8. PoolType'
  <2>1. \A i, j \in DOMAIN lua_pool' : lua_pool'[i] = lua_pool'[j] => i = j
    <3>1. \A i \in DOMAIN lua_pool : lua_pool[i] # c
      BY <1>5, Zenon DEF Free
    <3> QED BY <3>1, <1>6, Zenon DEF PoolInv, PoolType
  <2> QED BY <2>1, <1>4, <1>6, Zenon DEF PoolType
<1>9. Tidy'
  BY <1>2, <1>3, Zenon DEF PoolInv, Tidy
<1>10. NotFree'
  <2>1. \A v \in Callers : v # w => job[v].ctx # c
    BY <1>1, Zenon DEF PoolInv, NotShared, c
  <2>2. "none" \notin Free'
    <3>1. \A i \in DOMAIN lua_pool' : lua_pool'[i] \in Contexts
      BY <1>6
    <3> QED BY <3>1, Actors, Zenon DEF Free
  <2> QED BY <1>2, <1>3, <1>7, <2>1, <2>2, Zenon DEF PoolInv, NotFree
<1>11. NotShared'
  <2> SUFFICES ASSUME NEW u \in Callers, NEW v \in Callers, job'[u].ctx # "none", job'[u].ctx = job'[v].ctx
               PROVE  u = v
    BY Zenon DEF NotShared
  <2>1. u # w /\ v # w
    BY <1>2, <1>3, Zenon
  <2> QED BY <2>1, <1>3, Zenon DEF PoolInv, NotShared
<1>12. NoneLost'
  BY <1>3, <1>7, Zenon DEF PoolInv, NoneLost, c
<1>13. RunsLocked'
  <2> SUFFICES ASSUME NEW v \in Callers, job'[v].at = "run", v # w PROVE mutex'[job'[v].ctx] = v
    BY <1>2, <1>3, Zenon DEF RunsLocked
  <2>1. job[v].at = "run" /\ job'[v].ctx = job[v].ctx /\ mutex[job[v].ctx] = v /\ job[v].ctx # "none"
    BY <1>3, Zenon DEF PoolInv, RunsLocked, Tidy
  <2>2. job[v].ctx # c /\ job[v].ctx \in Contexts
    BY <2>1, Zenon DEF PoolInv, NotShared, JobRecord, c
  <2> QED BY <2>1, <2>2, <1>4, Zenon
<1> QED BY <1>2, <1>3, <1>8, <1>9, <1>10, <1>11, <1>12, <1>13, Zenon DEF PoolInv

LEMMA CountUpTo ==
    ASSUME NEW n \in Nat
    PROVE  IsFiniteSet(1 .. n) /\ Cardinality(1 .. n) = n
<1>1. n \in Int /\ 1 \in Int
  OBVIOUS
<1>2. IsFiniteSet(1 .. n) /\ Cardinality(1 .. n) = IF 1 > n THEN 0 ELSE n - 1 + 1
  BY <1>1, FS_Interval, Zenon
<1> QED BY <1>2

\* The contexts are listed, each once.
LEMMA AllContextsFacts ==
    /\ AllContexts \in Seq(Contexts) /\ DOMAIN AllContexts = 1 .. Cardinality(Contexts)
    /\ \A i, j \in DOMAIN AllContexts : AllContexts[i] = AllContexts[j] => i = j
    /\ \A x \in Contexts : \E i \in DOMAIN AllContexts : AllContexts[i] = x
<1> DEFINE n == Cardinality(Contexts)
           Lists(s) == s \in [1 .. n -> Contexts] /\ \A i, j \in DOMAIN s : s[i] = s[j] => i = j
<1>1. IsFiniteSet(Contexts) /\ n \in Nat /\ ExistsBijection(1 .. n, Contexts)
  BY ConsoleAssumption, FS_CardinalityType, Zenon
<1>2. \E s : Lists(s)
  <2>1. PICK s : s \in Bijection(1 .. n, Contexts)
    BY <1>1, Zenon DEF ExistsBijection
  <2>2. s \in Injection(1 .. n, Contexts)
    BY <2>1, Zenon DEF Bijection
  <2>3. s \in [1 .. n -> Contexts] /\ \A i, j \in 1 .. n : s[i] = s[j] => i = j
    BY <2>2, Zenon DEF Injection, IsInjective
  <2>4. Lists(s)
    BY <2>3, Zenon
  <2> QED BY <2>4, Zenon
<1>3. Lists(AllContexts)
  BY <1>2, Zenon DEF AllContexts
<1>4. AllContexts \in Injection(1 .. n, Contexts)
  BY <1>3, Zenon DEF Injection, IsInjective
<1>5. IsFiniteSet(1 .. n) /\ Cardinality(1 .. n) = n
  BY <1>1, CountUpTo, Zenon
<1>6. AllContexts \in Surjection(1 .. n, Contexts)
  BY <1>1, <1>4, <1>5, FS_Injection, Zenon
<1>7. \A x \in Contexts : \E i \in 1 .. n : AllContexts[i] = x
  BY <1>6, Zenon DEF Surjection
<1>8. AllContexts \in Seq(Contexts)
  BY <1>1, <1>3
<1> QED BY <1>3, <1>7, <1>8, Zenon

\* A caller without a context leaves one for itself: were all of them taken, the
\* other callers would have one each, and there are not that many.
LEMMA PoolNotEmpty ==
    ASSUME PoolInv, NEW w \in Callers, job[w].ctx = "none"
    PROVE  lua_pool # <<>>
<1> SUFFICES ASSUME lua_pool = <<>> PROVE FALSE
  BY Zenon
<1> DEFINE f == [x \in Contexts |-> CHOOSE v \in Callers : job[v].ctx = x]
<1>1. \A x \in Contexts : \E v \in Callers : job[v].ctx = x
  <2>1. Free = {}
    BY DEF Free
  <2> QED BY <2>1, Zenon DEF PoolInv, NoneLost
<1>2. \A x \in Contexts : f[x] \in Callers /\ job[f[x]].ctx = x
  BY <1>1, Zenon
<1>3. \A x \in Contexts : f[x] \in Callers \ {w}
  <2>1. \A x \in Contexts : x # "none"
    BY Actors, Zenon
  <2> HIDE DEF f
  <2> QED BY <1>2, <2>1, Zenon
<1>4. f \in [Contexts -> Callers \ {w}]
  BY <1>3, Zenon
<1> HIDE DEF f
<1>5. \A x, y \in Contexts : f[x] = f[y] => x = y
  BY <1>2, Zenon
<1>6. f \in Injection(Contexts, Callers \ {w})
  BY <1>4, <1>5, Zenon DEF Injection, IsInjective
<1>7. IsFiniteSet(Callers \ {w}) /\ Cardinality(Callers \ {w}) = Cardinality(Callers) - 1 /\ Cardinality(Callers) \in Nat
  BY TrackalertAssumption, FS_RemoveElement, FS_CardinalityType, Zenon
<1>8. Cardinality(Contexts) <= Cardinality(Callers \ {w})
  BY <1>6, <1>7, FS_Injection, Zenon
<1>9. Cardinality(Contexts) >= Cardinality(Callers) /\ Cardinality(Contexts) \in Nat
  BY TrackalertAssumption, ConsoleAssumption, FS_CardinalityType, Zenon
<1> QED BY <1>7, <1>8, <1>9

-----------------------------------------------------------------------------
(***************************************************************************)
(* The scheduler.                                                          *)
(***************************************************************************)

LEMMA HasFirst ==
    ASSUME NEW S \in SUBSET Nat, S # {}
    PROVE  \E i \in S : \A j \in S : i <= j
<1> DEFINE less == {ss \in Nat \X Nat : ss[1] < ss[2]}
<1>1. IsWellFoundedOn(less, Nat)
  BY NatLessThanWellFounded, Zenon DEF OpToRel
<1>2. \A i, j \in S : <<j, i>> \in less <=> j < i
  BY Zenon
<1> HIDE DEF less
<1>3. PICK i \in S : \A j \in S : <<j, i>> \notin less
  BY <1>1, WFMin, Zenon
<1>4. ASSUME NEW j \in S PROVE i <= j
  <2>1. ~(j < i)
    BY <1>2, <1>3, Zenon
  <2> QED BY <2>1
<1> QED BY <1>4, Zenon

LEMMA NewTime ==
    ASSUME NEW t \in Tasks, now \in 0 .. MaxTime
    PROVE  get_new_time(t) \in Nat
<1>1. period[t] \in Nat /\ period[t] > 0 /\ now \in Nat
  BY TrackalertAssumption
<1>2. now \div period[t] \in Nat
  BY <1>1
<1>3. ASSUME NEW a \in Nat, NEW b \in Nat PROVE (a + 1) * b \in Nat
  OBVIOUS
<1>4. (now \div period[t] + 1) * period[t] \in Nat
  BY <1>1, <1>2, <1>3, Zenon
<1>5. now + period[t] \in Nat
  BY <1>1
<1> QED BY <1>4, <1>5, Zenon DEF get_new_time

LEMMA ConfiguredTasks ==
    ASSUME DaemonTypeInv
    PROVE  /\ config.tasks \subseteq Tasks
           /\ \A t \in config.tasks : t \in Tasks /\ t # "none" /\ (t \in Crons \/ t \in Intervals)
BY InstallationFacts, Actors, Zenon DEF DaemonTypeInv, Tasks

\* What leaves alone the times, the queue and who runs the interval functions.
LEMMA ScheduleStays ==
    ASSUME DaemonTypeInv, ScheduleInv, UNCHANGED <<config, tasks, queue>>,
           \A th \in Threads, t \in Intervals : job'[th].fn = t <=> job[th].fn = t
    PROVE  ScheduleInv'
<1> SUFFICES ASSUME NEW t \in config.tasks
             PROVE  IF t \in Crons THEN One(Entries(t))'
                    ELSE \/ One(Entries(t))' /\ InQueue(t)' = {} /\ Runners(t)' = {}
                         \/ Entries(t)' = {} /\ One(InQueue(t))' /\ Runners(t)' = {}
                         \/ Entries(t)' = {} /\ InQueue(t)' = {} /\ One(Runners(t))'
  BY Zenon DEF ScheduleInv
<1>1. Entries(t)' = Entries(t) /\ InQueue(t)' = InQueue(t)
  BY Zenon DEF Entries, InQueue
<1>2. CASE t \in Crons
  BY <1>1, <1>2, Zenon DEF ScheduleInv, One
<1>3. CASE t \notin Crons
  <2>1. t \in Intervals
    BY <1>3, ConfiguredTasks, Zenon
  <2>2. Runners(t)' = Runners(t)
    BY <2>1, Zenon DEF Runners
  <2> QED BY <1>1, <1>3, <2>2, Zenon DEF ScheduleInv, One
<1> QED BY <1>2, <1>3, Zenon

\* What leaves the console, the scheduler and the requests alone.
LEMMA TypeStays ==
    ASSUME DaemonTypeInv, UNCHANGED <<config, now, tasks, manager, interrupted, queue>>,
           requests' \in 0 .. MaxRequests, job' \in [Callers -> JobRecord]
    PROVE  DaemonTypeInv'
BY Zenon DEF DaemonTypeInv

LEMMA CallerStepDaemon ==
    ASSUME DaemonInv, NEW w \in Callers, CallerStep(w)
    PROVE  DaemonInv'
<1>1. job \in [Callers -> JobRecord]
  BY Zenon DEF DaemonInv, DaemonTypeInv
<1>2. /\ PoolInv' /\ job' \in [Callers -> JobRecord]
      /\ \/ job'[w].at # "idle" /\ job'[w].fn = job[w].fn
         \/ job'[w] = Idle /\ job[w].fn \notin Intervals
      /\ job'[w].at = "again" => job[w].fn \in Intervals
      /\ \A v \in Callers : v # w => job'[v] = job[v]
  <2>1. CASE getPoolMember(w)
    BY <1>1, <2>1, getPoolMemberPool, Zenon DEF DaemonInv
  <2>2. CASE lockContext(w)
    BY <1>1, <2>2, lockContextPool, Zenon DEF DaemonInv
  <2>3. CASE luaReturns(w)
    <3>1. /\ PoolInv' /\ job' \in [Callers -> JobRecord]
          /\ IF job[w].fn \in Intervals THEN job'[w].at = "again" /\ job'[w].fn = job[w].fn ELSE job'[w] = Idle
          /\ \A v \in Callers : v # w => job'[v] = job[v]
      BY <1>1, <2>3, luaReturnsPool, Zenon DEF DaemonInv
    <3>2. Idle.at # "again"
      BY Zenon DEF Idle
    <3> QED BY <3>1, <3>2, Zenon
  <2> QED BY <2>1, <2>2, <2>3, Zenon DEF CallerStep
<1>3. UNCHANGED <<config, now, requests, tasks, manager, interrupted, queue>>
  BY Zenon DEF CallerStep, getPoolMember, lockContext, luaReturns, luaOnly, scheduleVars
<1>4. DaemonTypeInv'
  BY <1>2, <1>3, TypeStays, Zenon DEF DaemonInv, DaemonTypeInv
<1>5. Idle.fn = "none" /\ Idle.at = "idle"
  BY Zenon DEF Idle
<1>6. JobInv'
  <2>1. \A v \in Callers : job'[v].at = "idle" => job'[v].fn = "none"
    BY <1>2, <1>5, Zenon DEF DaemonInv, JobInv
  <2>2. \A v \in Workers : job'[v].at # "again" /\ job'[v].fn \in {"none", "report", "custom"}
    BY <1>2, <1>5, Actors, Zenon DEF DaemonInv, JobInv
  <2>3. \A th \in Threads : job'[th].fn \in config'.tasks \union {"none"}
    BY <1>2, <1>3, <1>5, Actors, Zenon DEF DaemonInv, JobInv
  <2>4. \A th \in Threads : job'[th].at = "again" => job'[th].fn \in Intervals
    BY <1>2, <1>5, Actors, Zenon DEF DaemonInv, JobInv
  <2> QED BY <2>1, <2>2, <2>3, <2>4, Zenon DEF JobInv
<1>7. ScheduleInv'
  <2>1. \A t \in Intervals : t # "none"
    BY Actors, Zenon
  <2>2. \A th \in Threads, t \in Intervals : job'[th].fn = t <=> job[th].fn = t
    BY <1>2, <1>5, <2>1, Actors, Zenon
  <2> QED BY <1>3, <2>2, ScheduleStays, Zenon DEF DaemonInv
<1> QED BY <1>2, <1>4, <1>6, <1>7, Zenon DEF DaemonInv

LEMMA requestDaemon ==
    ASSUME DaemonInv, NEW w \in Workers, NEW cmd \in {"report", "custom"}, request(w, cmd)
    PROVE  DaemonInv'
<1> DEFINE r == [Idle EXCEPT !.at = "get", !.fn = cmd]
<1>1. /\ job \in [Callers -> JobRecord] /\ w \in Callers /\ w \notin Threads /\ job[w].at = "idle"
      /\ UNCHANGED <<config, now, tasks, manager, interrupted, queue, lua_pool, mutex>>
  BY Actors, Zenon DEF DaemonInv, DaemonTypeInv, request, consoleVars, scheduleVars
<1>2. requests' \in 0 .. MaxRequests
  <2>1. requests \in 0 .. MaxRequests /\ requests < MaxRequests /\ requests' = requests + 1 /\ MaxRequests \in Nat
    BY TrackalertAssumption, Zenon DEF DaemonInv, DaemonTypeInv, request
  <2> QED BY <2>1
<1>3. r \in JobRecord /\ r.at = "get" /\ r.fn = cmd /\ r.ctx = "none"
  BY Zenon DEF Idle, JobRecord
<1>4. job' = [job EXCEPT ![w] = r] \/ job' = job
  BY Zenon DEF request
<1> HIDE DEF r
<1>5. CASE job' = job
  <2>1. DaemonTypeInv'
    BY <1>1, <1>2, <1>5, TypeStays, Zenon DEF DaemonInv
  <2>2. PoolInv' /\ ScheduleInv'
    BY <1>1, <1>5, PoolSame, ScheduleStays, Zenon DEF DaemonInv
  <2>3. JobInv'
    BY <1>1, <1>5, Zenon DEF DaemonInv, JobInv
  <2> QED BY <2>1, <2>2, <2>3, Zenon DEF DaemonInv
<1>6. CASE job' = [job EXCEPT ![w] = r]
  <2>1. job' \in [Callers -> JobRecord] /\ job'[w] = r /\ \A v \in Callers : v # w => job'[v] = job[v]
    BY <1>1, <1>3, <1>6, JobMoves, Zenon
  <2>2. DaemonTypeInv'
    BY <1>1, <1>2, <2>1, TypeStays, Zenon DEF DaemonInv
  <2>3. job[w].ctx = "none"
    BY <1>1, Zenon DEF DaemonInv, PoolInv, Tidy
  <2>4. PoolInv'
    BY <1>1, <1>3, <1>6, <2>3, PoolStays, Zenon DEF DaemonInv
  <2>5. \A th \in Threads : job'[th] = job[th]
    BY <1>1, <2>1, Actors, Zenon
  <2>6. ScheduleInv'
    BY <1>1, <2>5, ScheduleStays, Zenon DEF DaemonInv
  <2>7. JobInv'
    <3>1. \A v \in Callers : job'[v].at = "idle" => job'[v].fn = "none"
      BY <1>3, <2>1, Zenon DEF DaemonInv, JobInv
    <3>2. \A v \in Workers : job'[v].at # "again" /\ job'[v].fn \in {"none", "report", "custom"}
      BY <1>3, <2>1, Actors, Zenon DEF DaemonInv, JobInv
    <3>3. \A th \in Threads : job'[th].fn \in config'.tasks \union {"none"}
      BY <1>1, <2>5, Zenon DEF DaemonInv, JobInv
    <3>4. \A th \in Threads : job'[th].at = "again" => job'[th].fn \in Intervals
      BY <2>5, Zenon DEF DaemonInv, JobInv
    <3> QED BY <3>1, <3>2, <3>3, <3>4, Zenon DEF JobInv
  <2> QED BY <2>2, <2>4, <2>6, <2>7, Zenon DEF DaemonInv
<1> QED BY <1>4, <1>5, <1>6, Zenon

\* Positions in the queue when its first element is taken.
LEMMA HeadAndTail ==
    ASSUME NEW S, NEW s \in Seq(S), s # <<>>
    PROVE  /\ 1 \in DOMAIN s /\ s[1] = Head(s) /\ Head(s) \in S /\ Tail(s) \in Seq(S)
           /\ \A i \in DOMAIN Tail(s) : i + 1 \in DOMAIN s /\ i + 1 # 1 /\ Tail(s)[i] = s[i + 1] /\ (i + 1) - 1 = i
           /\ \A i \in DOMAIN s : i # 1 => i - 1 \in DOMAIN Tail(s) /\ Tail(s)[i - 1] = s[i]
OBVIOUS

LEMMA popDaemon ==
    ASSUME DaemonInv, NEW th \in Threads, pop(th)
    PROVE  DaemonInv'
<1> DEFINE h == Head(queue)
           r == [Idle EXCEPT !.at = "get", !.fn = h]
<1>1. /\ job \in [Callers -> JobRecord] /\ th \in Callers /\ th \notin Workers /\ job[th].at = "idle"
      /\ UNCHANGED <<config, now, tasks, manager, interrupted, lua_pool, mutex, requests>>
      /\ queue \in Seq(config.tasks) /\ queue # <<>> /\ queue' = Tail(queue)
      /\ job' = [job EXCEPT ![th] = r]
  BY Actors, Zenon DEF DaemonInv, DaemonTypeInv, pop, consoleVars
<1>2. /\ 1 \in DOMAIN queue /\ queue[1] = h /\ h \in config.tasks /\ queue' \in Seq(config.tasks)
      /\ \A i \in DOMAIN queue' : i + 1 \in DOMAIN queue /\ i + 1 # 1 /\ queue'[i] = queue[i + 1] /\ (i + 1) - 1 = i
      /\ \A i \in DOMAIN queue : i # 1 => i - 1 \in DOMAIN queue' /\ queue'[i - 1] = queue[i]
  BY <1>1, HeadAndTail, Zenon
<1> HIDE DEF h
<1>3. h \in Tasks
  BY <1>2, ConfiguredTasks, Zenon DEF DaemonInv
<1>4. r \in JobRecord /\ r.at = "get" /\ r.fn = h /\ r.ctx = "none"
  BY <1>3, Zenon DEF Idle, JobRecord
<1> HIDE DEF r
<1>5. job' \in [Callers -> JobRecord] /\ job'[th] = r /\ \A v \in Callers : v # th => job'[v] = job[v]
  BY <1>1, <1>4, JobMoves, Zenon
<1>6. DaemonTypeInv'
  BY <1>1, <1>2, <1>5, Zenon DEF DaemonInv, DaemonTypeInv
<1>7. job[th].ctx = "none" /\ job[th].fn = "none"
  BY <1>1, Zenon DEF DaemonInv, PoolInv, Tidy, JobInv
<1>8. PoolInv'
  BY <1>1, <1>4, <1>7, PoolStays, Zenon DEF DaemonInv
<1>9. JobInv'
  <2>1. \A v \in Callers : job'[v].at = "idle" => job'[v].fn = "none"
    BY <1>4, <1>5, Zenon DEF DaemonInv, JobInv
  <2>2. \A v \in Workers : job'[v].at # "again" /\ job'[v].fn \in {"none", "report", "custom"}
    BY <1>1, <1>5, Actors, Zenon DEF DaemonInv, JobInv
  <2>3. \A v \in Threads : job'[v].fn \in config'.tasks \union {"none"}
    BY <1>1, <1>2, <1>4, <1>5, Actors, Zenon DEF DaemonInv, JobInv
  <2>4. \A v \in Threads : job'[v].at = "again" => job'[v].fn \in Intervals
    BY <1>4, <1>5, Actors, Zenon DEF DaemonInv, JobInv
  <2> QED BY <2>1, <2>2, <2>3, <2>4, Zenon DEF JobInv
<1>10. ScheduleInv'
  <2> SUFFICES ASSUME NEW t \in config.tasks
               PROVE  IF t \in Crons THEN One(Entries(t))'
                      ELSE \/ One(Entries(t))' /\ InQueue(t)' = {} /\ Runners(t)' = {}
                           \/ Entries(t)' = {} /\ One(InQueue(t))' /\ Runners(t)' = {}
                           \/ Entries(t)' = {} /\ InQueue(t)' = {} /\ One(Runners(t))'
    BY <1>1, Zenon DEF ScheduleInv
  <2>1. Entries(t)' = Entries(t) /\ t # "none" /\ th \notin Runners(t)
    BY <1>1, <1>7, ConfiguredTasks, Zenon DEF Entries, DaemonInv, Runners
  <2>2. CASE t \in Crons
    BY <2>1, <2>2, Zenon DEF DaemonInv, ScheduleInv, One
  <2>3. CASE t \notin Crons /\ t = h
    <3>1. 1 \in InQueue(t)
      BY <1>2, <2>3, Zenon DEF InQueue
    <3>2. Entries(t) = {} /\ One(InQueue(t)) /\ Runners(t) = {}
      BY <2>3, <3>1, Zenon DEF DaemonInv, ScheduleInv
    <3>3. \A i \in InQueue(t) : i = 1
      BY <3>1, <3>2, Zenon DEF One
    <3>4. InQueue(t)' = {}
      <4>1. \A i \in InQueue(t)' : i + 1 \in InQueue(t) /\ i + 1 # 1
        BY <1>2, Zenon DEF InQueue
      <4> QED BY <3>3, <4>1, Zenon
    <3>5. Runners(t)' = {th}
      <4>1. \A v : v \in Runners(t)' <=> v = th
        BY <1>4, <1>5, <2>3, <3>2, Actors, Zenon DEF Runners
      <4> QED BY <4>1, Zenon
    <3> QED BY <2>1, <2>3, <3>2, <3>4, <3>5, Zenon DEF One
  <2>4. CASE t \notin Crons /\ t # h
    <3>1. Runners(t)' = Runners(t)
      <4>1. \A v : v \in Runners(t)' <=> v \in Runners(t)
        BY <1>4, <1>5, <2>1, <2>4, Actors, Zenon DEF Runners
      <4> QED BY <4>1, Zenon
    <3>2. \A i \in InQueue(t)' : i + 1 \in InQueue(t) /\ (i + 1) - 1 = i
      BY <1>2, Zenon DEF InQueue
    <3>3. \A i \in InQueue(t) : i - 1 \in InQueue(t)'
      BY <1>2, <2>4, Zenon DEF InQueue
    <3>4. InQueue(t) = {} => InQueue(t)' = {}
      BY <3>2, Zenon
    <3>5. One(InQueue(t)) => One(InQueue(t))'
      <4> SUFFICES ASSUME NEW k, InQueue(t) = {k} PROVE InQueue(t)' = {k - 1}
        BY Zenon DEF One
      <4>1. \A i : i \in InQueue(t)' => i = k - 1
        BY <3>2, Zenon
      <4>2. k - 1 \in InQueue(t)'
        BY <3>3, Zenon
      <4> QED BY <4>1, <4>2, Zenon
    <3>6. One(Entries(t)) => One(Entries(t))'
      BY <2>1, Zenon DEF One
    <3>7. One(Runners(t)) => One(Runners(t))'
      BY <3>1, Zenon DEF One
    <3> QED BY <2>1, <2>4, <3>1, <3>4, <3>5, <3>6, <3>7, Zenon DEF DaemonInv, ScheduleInv
  <2> QED BY <2>2, <2>3, <2>4, Zenon
<1> QED BY <1>6, <1>8, <1>9, <1>10, Zenon DEF DaemonInv

LEMMA againDaemon ==
    ASSUME DaemonInv, NEW th \in Threads, again(th)
    PROVE  DaemonInv'
<1> DEFINE t == job[th].fn
           e == <<get_new_time(t), t>>
<1>1. /\ job \in [Callers -> JobRecord] /\ th \in Callers /\ th \notin Workers /\ job[th].at = "again"
      /\ UNCHANGED <<config, now, manager, queue, lua_pool, mutex, requests>>
      /\ tasks' = tasks \union {e} /\ interrupted' = TRUE /\ job' = [job EXCEPT ![th] = Idle]
  BY Actors, Zenon DEF DaemonInv, DaemonTypeInv, again, add_task, consoleVars
<1>2. t \in Intervals /\ t \in Tasks /\ t \notin Crons /\ t \in config.tasks /\ t # "none"
  BY <1>1, Actors, Zenon DEF DaemonInv, JobInv
<1>3. e \in Nat \X config.tasks /\ e[2] = t
  BY <1>2, NewTime, Zenon DEF DaemonInv, DaemonTypeInv
<1> HIDE DEF e
<1>4. Idle.at = "idle" /\ Idle.fn = "none" /\ Idle.ctx = "none" /\ Idle \in JobRecord
  BY IdleRecord, Zenon DEF Idle
<1>5. job' \in [Callers -> JobRecord] /\ job'[th] = Idle /\ \A v \in Callers : v # th => job'[v] = job[v]
  BY <1>1, <1>4, JobMoves, Zenon
<1>6. DaemonTypeInv'
  <2>1. IsFiniteSet(tasks')
    BY <1>1, FS_AddElement, Zenon DEF DaemonInv, DaemonTypeInv
  <2>2. tasks' \subseteq Nat \X config'.tasks
    BY <1>1, <1>3, Zenon DEF DaemonInv, DaemonTypeInv
  <2> QED BY <1>1, <1>5, <2>1, <2>2, Zenon DEF DaemonInv, DaemonTypeInv
<1>7. job[th].ctx = "none"
  BY <1>1, Zenon DEF DaemonInv, PoolInv, Tidy
<1>8. PoolInv'
  BY <1>1, <1>4, <1>7, PoolStays, Zenon DEF DaemonInv
<1>9. JobInv'
  <2>1. \A v \in Callers : job'[v].at = "idle" => job'[v].fn = "none"
    BY <1>4, <1>5, Zenon DEF DaemonInv, JobInv
  <2>2. \A v \in Workers : job'[v].at # "again" /\ job'[v].fn \in {"none", "report", "custom"}
    BY <1>1, <1>5, Actors, Zenon DEF DaemonInv, JobInv
  <2>3. \A v \in Threads : job'[v].fn \in config'.tasks \union {"none"}
    BY <1>1, <1>4, <1>5, Actors, Zenon DEF DaemonInv, JobInv
  <2>4. \A v \in Threads : job'[v].at = "again" => job'[v].fn \in Intervals
    BY <1>4, <1>5, Actors, Zenon DEF DaemonInv, JobInv
  <2> QED BY <2>1, <2>2, <2>3, <2>4, Zenon DEF JobInv
<1>10. ScheduleInv'
  <2> SUFFICES ASSUME NEW u \in config.tasks
               PROVE  IF u \in Crons THEN One(Entries(u))'
                      ELSE \/ One(Entries(u))' /\ InQueue(u)' = {} /\ Runners(u)' = {}
                           \/ Entries(u)' = {} /\ One(InQueue(u))' /\ Runners(u)' = {}
                           \/ Entries(u)' = {} /\ InQueue(u)' = {} /\ One(Runners(u))'
    BY <1>1, Zenon DEF ScheduleInv
  <2>1. InQueue(u)' = InQueue(u) /\ u # "none"
    BY <1>1, ConfiguredTasks, Zenon DEF InQueue, DaemonInv
  <2>2. CASE u = t
    <3>1. th \in Runners(u)
      BY <2>2, Zenon DEF Runners
    <3>2. Entries(u) = {} /\ InQueue(u) = {} /\ One(Runners(u))
      BY <1>2, <2>2, <3>1, Zenon DEF DaemonInv, ScheduleInv
    <3>3. \A v \in Runners(u) : v = th
      BY <3>1, <3>2, Zenon DEF One
    <3>4. Runners(u)' = {}
      <4>1. \A v \in Runners(u)' : v # th /\ v \in Runners(u)
        BY <1>4, <1>5, <2>1, Actors, Zenon DEF Runners
      <4> QED BY <3>3, <4>1, Zenon
    <3>5. Entries(u)' = {e}
      <4>1. \A x : x \in Entries(u)' <=> x = e
        BY <1>1, <1>3, <2>2, <3>2, Zenon DEF Entries
      <4> QED BY <4>1, Zenon
    <3> QED BY <1>2, <2>1, <2>2, <3>2, <3>4, <3>5, Zenon DEF One
  <2>3. CASE u # t
    <3>1. Runners(u)' = Runners(u)
      <4>1. \A v : v \in Runners(u)' <=> v \in Runners(u)
        BY <1>4, <1>5, <2>1, <2>3, Actors, Zenon DEF Runners
      <4> QED BY <4>1, Zenon
    <3>2. Entries(u)' = Entries(u)
      <4>1. \A x : x \in Entries(u)' <=> x \in Entries(u)
        BY <1>1, <1>3, <2>3, Zenon DEF Entries
      <4> QED BY <4>1, Zenon
    <3> QED BY <2>1, <3>1, <3>2, Zenon DEF One, DaemonInv, ScheduleInv
  <2> QED BY <2>2, <2>3, Zenon
<1> QED BY <1>6, <1>8, <1>9, <1>10, Zenon DEF DaemonInv

\* Every due entry is queued, and once.
LEMMA InOrderFacts ==
    ASSUME NEW S, IsFiniteSet(S), NEW s \in InOrder(S)
    PROVE  \E n \in Nat : /\ s \in [1 .. n -> S]
                          /\ \A i, j \in 1 .. n : s[i] = s[j] => i = j
                          /\ \A x \in S : \E i \in 1 .. n : s[i] = x
<1> DEFINE n == Cardinality(S)
<1>1. n \in Nat /\ s \in [1 .. n -> S] /\ DOMAIN s = 1 .. n /\ \A i, j \in 1 .. n : i < j => s[i] # s[j]
  BY FS_CardinalityType, Zenon DEF InOrder
<1>2. IsFiniteSet(1 .. n) /\ Cardinality(1 .. n) = n
  BY <1>1, CountUpTo, Zenon
<1>3. ASSUME NEW i \in 1 .. n, NEW j \in 1 .. n, s[i] = s[j] PROVE i = j
  <2>1. ~(i < j) /\ ~(j < i)
    BY <1>1, <1>3, Zenon
  <2> HIDE DEF n
  <2> QED BY <1>1, <2>1
<1>4. s \in Injection(1 .. n, S)
  BY <1>1, <1>3, Zenon DEF Injection, IsInjective
<1>5. s \in Surjection(1 .. n, S)
  BY <1>2, <1>4, FS_Injection, Zenon
<1>6. \A x \in S : \E i \in 1 .. n : s[i] = x
  BY <1>5, Zenon DEF Surjection
<1> QED BY <1>1, <1>3, <1>6, Zenon

\* Positions in a queue that grows.
LEMMA Grown ==
    ASSUME NEW S, NEW q \in Seq(S), NEW n \in Nat, NEW f \in [1 .. n -> S]
    PROVE  /\ q \o f \in Seq(S)
           /\ \A i \in DOMAIN q : i \in DOMAIN (q \o f) /\ (q \o f)[i] = q[i]
           /\ \A k \in 1 .. n : Len(q) + k \in DOMAIN (q \o f) /\ Len(q) + k \notin DOMAIN q /\ (q \o f)[Len(q) + k] = f[k]
           /\ \A i \in DOMAIN (q \o f) : i \in DOMAIN q \/ \E k \in 1 .. n : i = Len(q) + k
<1>1. f \in Seq(S) /\ Len(f) = n
  OBVIOUS
<1>2. q \o f \in Seq(S) /\ Len(q \o f) = Len(q) + n /\ Len(q) \in Nat /\ DOMAIN q = 1 .. Len(q)
      /\ DOMAIN (q \o f) = 1 .. Len(q) + n
  BY <1>1
<1>3. ASSUME NEW i \in DOMAIN q PROVE i \in DOMAIN (q \o f) /\ (q \o f)[i] = q[i]
  BY <1>1, <1>2
<1>4. ASSUME NEW k \in 1 .. n
      PROVE  Len(q) + k \in DOMAIN (q \o f) /\ Len(q) + k \notin DOMAIN q /\ (q \o f)[Len(q) + k] = f[k]
  BY <1>1, <1>2
<1>5. ASSUME NEW i \in DOMAIN (q \o f), i \notin DOMAIN q PROVE \E k \in 1 .. n : i = Len(q) + k
  <2>1. i - Len(q) \in 1 .. n /\ i = Len(q) + (i - Len(q))
    BY <1>2, <1>5
  <2> QED BY <2>1, Zenon
<1> QED BY <1>2, <1>3, <1>4, <1>5, Zenon

\* The times after a round of the manager: one new time for each due cron function.
LEMMA Recurs ==
    ASSUME DaemonInv, manage_tasks
    PROVE  /\ IsFiniteSet(Due) /\ IsFiniteSet(tasks') /\ tasks' \subseteq Nat \X config.tasks
           /\ \A t \in config.tasks \ Crons : \A x : x \in Entries(t)' <=> x \in Entries(t) /\ x \notin Due
           /\ \A t \in config.tasks \intersect Crons : One(Entries(t)')
<1>1. /\ tasks' = (tasks \ Due) \union recurred_tasks /\ tasks \subseteq Nat \X config.tasks /\ IsFiniteSet(tasks)
      /\ now \in 0 .. MaxTime
  BY Zenon DEF DaemonInv, DaemonTypeInv, manage_tasks
<1> DEFINE D == {d \in Due : d[2] \in Crons}
           new(e) == <<get_new_time(e[2]), e[2]>>
           g == [e \in D |-> new(e)]
<1>2. Due \subseteq tasks /\ D \subseteq tasks /\ recurred_tasks = {new(e) : e \in D}
  BY Zenon DEF Due, recurred_tasks
<1>3. IsFiniteSet(Due) /\ IsFiniteSet(D) /\ IsFiniteSet(tasks \ Due)
  BY <1>1, <1>2, FS_Subset, FS_Difference, Zenon
<1>4. \A e \in D : e[2] \in config.tasks /\ e[2] \in Crons /\ e \in Due /\ new(e) \in Nat \X config.tasks /\ new(e)[2] = e[2]
  <2> SUFFICES ASSUME NEW e \in D
               PROVE  e[2] \in config.tasks /\ e[2] \in Crons /\ e \in Due /\ new(e) \in Nat \X config.tasks /\ new(e)[2] = e[2]
    BY Zenon
  <2>1. e[2] \in config.tasks /\ e[2] \in Crons /\ e \in Due
    BY <1>1, <1>2, Zenon
  <2>2. e[2] \in Tasks
    BY <2>1, ConfiguredTasks, Zenon DEF DaemonInv
  <2>3. get_new_time(e[2]) \in Nat
    BY <1>1, <2>2, NewTime, Zenon
  <2> QED BY <2>1, <2>3, Zenon
<1>5. IsFiniteSet(recurred_tasks)
  <2>1. g \in Surjection(D, recurred_tasks)
    <3>1. g \in [D -> recurred_tasks]
      BY <1>2, Zenon
    <3>2. \A x \in recurred_tasks : \E e \in D : g[e] = x
      BY <1>2, Zenon
    <3> QED BY <3>1, <3>2, Zenon DEF Surjection
  <2> QED BY <1>3, <2>1, FS_Surjection, Zenon
<1>6. IsFiniteSet(tasks')
  BY <1>1, <1>3, <1>5, FS_Union, Zenon
<1>7. \A x : x \in tasks' <=> (x \in tasks /\ x \notin Due) \/ \E e \in D : x = new(e)
  BY <1>1, <1>2, Zenon
<1>8. tasks' \subseteq Nat \X config.tasks
  <2> SUFFICES ASSUME NEW x \in tasks' PROVE x \in Nat \X config.tasks
    BY Zenon
  <2>1. CASE x \in tasks
    BY <1>1, <2>1, Zenon
  <2>2. CASE \E e \in D : x = new(e)
    <3>1. PICK e \in D : x = new(e)
      BY <2>2, Zenon
    <3>2. new(e) \in Nat \X config.tasks
      BY <1>4, Zenon
    <3> QED BY <3>1, <3>2, Zenon
  <2> QED BY <1>7, <2>1, <2>2, Zenon
<1>9. ASSUME NEW t \in config.tasks \ Crons, NEW x PROVE x \in Entries(t)' <=> x \in Entries(t) /\ x \notin Due
  <2>1. x \in Entries(t)' <=> x \in tasks' /\ x[2] = t
    BY Zenon DEF Entries
  <2>2. x \in Entries(t) <=> x \in tasks /\ x[2] = t
    BY Zenon DEF Entries
  <2>3. ~\E e \in D : x = new(e) /\ x[2] = t
    BY <1>4, Zenon
  <2> HIDE DEF D, new
  <2> QED BY <1>7, <2>1, <2>2, <2>3, Zenon
<1>10. ASSUME NEW t \in config.tasks \intersect Crons PROVE One(Entries(t)')
  <2>1. PICK x : Entries(t) = {x}
    BY Zenon DEF DaemonInv, ScheduleInv, One
  <2>2. x \in tasks /\ x[2] = t /\ \A y \in tasks : y[2] = t => y = x
    BY <2>1, Zenon DEF Entries
  <2>3. CASE x \in Due
    <3>1. x \in D
      BY <2>2, <2>3, Zenon
    <3>2. \A y : y \in Entries(t)' => y = new(x)
      <4> SUFFICES ASSUME NEW y, y \in tasks', y[2] = t PROVE y = new(x)
        BY Zenon DEF Entries
      <4>1. PICK e \in D : y = new(e)
        BY <1>7, <2>2, <2>3, Zenon
      <4>2. e[2] = t /\ e \in tasks
        BY <1>2, <1>4, <4>1, Zenon
      <4> QED BY <2>2, <4>1, <4>2, Zenon
    <3>3. new(x) \in tasks' /\ new(x)[2] = t
      BY <1>4, <1>7, <2>2, <3>1, Zenon
    <3>4. new(x) \in Entries(t)'
      BY <3>3, Zenon DEF Entries
    <3>5. Entries(t)' = {new(x)}
      BY <3>2, <3>4, Zenon
    <3> QED BY <3>5, Zenon DEF One
  <2>4. CASE x \notin Due
    <3>1. \A y : y \in Entries(t)' => y = x
      <4> SUFFICES ASSUME NEW y, y \in tasks', y[2] = t PROVE y = x
        BY Zenon DEF Entries
      <4>1. ASSUME NEW e \in D, y = new(e) PROVE FALSE
        <5>1. e[2] = t /\ e \in tasks /\ e \in Due
          BY <1>2, <1>4, <4>1, Zenon
        <5> QED BY <2>2, <2>4, <5>1, Zenon
      <4> QED BY <1>7, <2>2, <4>1, Zenon
    <3>2. x \in tasks'
      BY <1>7, <2>2, <2>4, Zenon
    <3>3. x \in Entries(t)'
      BY <2>2, <3>2, Zenon DEF Entries
    <3>4. Entries(t)' = {x}
      BY <3>1, <3>3, Zenon
    <3> QED BY <3>4, Zenon DEF One
  <2> QED BY <2>3, <2>4, Zenon
<1> QED BY <1>3, <1>6, <1>8, <1>9, <1>10, Zenon

LEMMA manage_tasksDaemon ==
    ASSUME DaemonInv, manage_tasks
    PROVE  DaemonInv'
<1>1. /\ queue \in Seq(config.tasks) /\ UNCHANGED <<config, now, interrupted, lua_pool, mutex, job, requests>>
      /\ manager \in [at : {"look", "sleep", "manage"}, until : Nat] /\ manager' = [manager EXCEPT !.at = "look"]
      /\ tasks \subseteq Nat \X config.tasks
  BY Zenon DEF DaemonInv, DaemonTypeInv, manage_tasks, consoleVars
<1>2. PICK s \in InOrder(Due) : queue' = queue \o [i \in DOMAIN s |-> s[i][2]]
  BY Zenon DEF manage_tasks
<1>3. PICK n \in Nat : /\ s \in [1 .. n -> Due]
                       /\ \A i, j \in 1 .. n : s[i] = s[j] => i = j
                       /\ \A x \in Due : \E i \in 1 .. n : s[i] = x
  BY <1>2, Recurs, InOrderFacts, Zenon
<1> DEFINE f == [i \in DOMAIN s |-> s[i][2]]
<1>4. f \in [1 .. n -> config.tasks] /\ \A i \in 1 .. n : f[i] = s[i][2]
  <2>1. \A x \in Due : x[2] \in config.tasks
    BY <1>1, Zenon DEF Due
  <2> QED BY <1>3, <2>1, Zenon
<1> HIDE DEF f
<1>5. /\ queue' \in Seq(config.tasks)
      /\ \A i \in DOMAIN queue : i \in DOMAIN queue' /\ queue'[i] = queue[i]
      /\ \A k \in 1 .. n : Len(queue) + k \in DOMAIN queue' /\ Len(queue) + k \notin DOMAIN queue /\ queue'[Len(queue) + k] = f[k]
      /\ \A i \in DOMAIN queue' : i \in DOMAIN queue \/ \E k \in 1 .. n : i = Len(queue) + k
  <2>1. queue' = queue \o f
    BY <1>2, Zenon DEF f
  <2>2. /\ queue \o f \in Seq(config.tasks)
        /\ \A i \in DOMAIN queue : i \in DOMAIN (queue \o f) /\ (queue \o f)[i] = queue[i]
        /\ \A k \in 1 .. n : /\ Len(queue) + k \in DOMAIN (queue \o f) /\ Len(queue) + k \notin DOMAIN queue
                            /\ (queue \o f)[Len(queue) + k] = f[k]
        /\ \A i \in DOMAIN (queue \o f) : i \in DOMAIN queue \/ \E k \in 1 .. n : i = Len(queue) + k
    BY <1>1, <1>3, <1>4, Grown, ZenonT(30)
  <2> QED BY <2>1, <2>2, Zenon
<1>6. manager' \in [at : {"look", "sleep", "manage"}, until : Nat]
  BY <1>1, Zenon
<1>7. DaemonTypeInv'
  BY <1>1, <1>5, <1>6, Recurs, Zenon DEF DaemonInv, DaemonTypeInv
<1>8. PoolInv'
  BY <1>1, PoolSame, Zenon DEF DaemonInv
<1>9. JobInv'
  BY <1>1, Zenon DEF DaemonInv, JobInv
<1>10. ScheduleInv'
  <2> SUFFICES ASSUME NEW t \in config.tasks
               PROVE  IF t \in Crons THEN One(Entries(t))'
                      ELSE \/ One(Entries(t))' /\ InQueue(t)' = {} /\ Runners(t)' = {}
                           \/ Entries(t)' = {} /\ One(InQueue(t))' /\ Runners(t)' = {}
                           \/ Entries(t)' = {} /\ InQueue(t)' = {} /\ One(Runners(t))'
    BY <1>1, Zenon DEF ScheduleInv
  <2>1. CASE t \in Crons
    <3>1. One(Entries(t)')
      BY <2>1, Recurs, Zenon
    <3> QED BY <2>1, <3>1, Zenon DEF One
  <2>2. CASE t \notin Crons
    <3>1. Runners(t)' = Runners(t)
      BY <1>1, Zenon DEF Runners
    <3>2. \A x : x \in Entries(t)' <=> x \in Entries(t) /\ x \notin Due
      BY <2>2, Recurs, Zenon
    <3>3. \A x \in Due : x[2] = t <=> x \in Entries(t)
      BY Zenon DEF Due, Entries
    <3>4. \A i \in DOMAIN queue : i \in InQueue(t)' <=> i \in InQueue(t)
      BY <1>5, Zenon DEF InQueue
    <3>5. \A k \in 1 .. n : Len(queue) + k \in InQueue(t)' <=> s[k] \in Entries(t)
      <4>1. \A k \in 1 .. n : f[k] = t <=> s[k] \in Entries(t)
        BY <1>3, <1>4, <3>3, Zenon
      <4> QED BY <1>5, <4>1, Zenon DEF InQueue
    <3>6. \A i \in InQueue(t)' : i \in DOMAIN queue \/ \E k \in 1 .. n : i = Len(queue) + k
      BY <1>5, Zenon DEF InQueue
    <3>7. InQueue(t) \subseteq DOMAIN queue
      BY Zenon DEF InQueue
    <3>8. ASSUME \A x \in Entries(t) : x \notin Due
          PROVE  Entries(t)' = Entries(t) /\ InQueue(t)' = InQueue(t)
      <4>1. \A k \in 1 .. n : s[k] \notin Entries(t)
        BY <1>3, <3>8, Zenon
      <4>2. \A i : i \in InQueue(t)' <=> i \in InQueue(t)
        BY <3>4, <3>5, <3>6, <3>7, <4>1, Zenon
      <4>3. \A x : x \in Entries(t)' <=> x \in Entries(t)
        BY <3>2, <3>8, Zenon
      <4> QED BY <4>2, <4>3, Zenon
    <3>9. CASE \A x \in Entries(t) : x \notin Due
      BY <2>2, <3>1, <3>8, <3>9, Zenon DEF DaemonInv, ScheduleInv, One
    <3>10. CASE \E x \in Entries(t) : x \in Due
      <4>1. PICK x \in Entries(t) : x \in Due
        BY <3>10, Zenon
      <4>2. One(Entries(t)) /\ InQueue(t) = {} /\ Runners(t) = {}
        BY <2>2, <4>1, Zenon DEF DaemonInv, ScheduleInv
      <4>3. \A y \in Entries(t) : y = x
        BY <4>1, <4>2, Zenon DEF One
      <4>4. Entries(t)' = {}
        BY <3>2, <4>1, <4>3, Zenon
      <4>5. PICK k \in 1 .. n : s[k] = x
        BY <1>3, <4>1, Zenon
      <4>6. Len(queue) + k \in InQueue(t)'
        BY <3>5, <4>1, <4>5, Zenon
      <4>7. \A i \in InQueue(t)' : i = Len(queue) + k
        <5> SUFFICES ASSUME NEW i \in InQueue(t)' PROVE i = Len(queue) + k
          BY Zenon
        <5>1. i \notin DOMAIN queue
          BY <3>4, <4>2, Zenon
        <5>2. PICK l \in 1 .. n : i = Len(queue) + l
          BY <3>6, <5>1, Zenon
        <5>3. s[l] = x
          BY <3>5, <4>3, <5>2, Zenon
        <5> QED BY <1>3, <4>5, <5>2, <5>3, Zenon
      <4>8. InQueue(t)' = {Len(queue) + k}
        BY <4>6, <4>7, Zenon
      <4>9. One(InQueue(t)')
        BY <4>8, Zenon DEF One
      <4> QED BY <2>2, <3>1, <4>2, <4>4, <4>9, Zenon DEF One
    <3> QED BY <3>9, <3>10, Zenon
  <2> QED BY <2>1, <2>2, Zenon
<1> QED BY <1>7, <1>8, <1>9, <1>10, Zenon DEF DaemonInv

LEMMA lookDaemon == ASSUME DaemonInv, look PROVE DaemonInv'
<1>1. UNCHANGED <<config, now, tasks, interrupted, queue, lua_pool, mutex, job, requests>>
  BY Zenon DEF look, consoleVars
<1>2. manager' \in [at : {"look", "sleep", "manage"}, until : Nat]
  <2> DEFINE S == {e[1] : e \in tasks}
             u == IF tasks = {} THEN Never ELSE Min(S)
  <2>1. Never \in Nat
    BY TrackalertAssumption DEF Never
  <2>2. tasks # {} => Min(S) \in Nat
    <3> SUFFICES ASSUME tasks # {} PROVE Min(S) \in Nat
      BY Zenon
    <3>1. \A e \in tasks : e[1] \in Nat
      BY Zenon DEF DaemonInv, DaemonTypeInv
    <3>2. S \in SUBSET Nat /\ S # {}
      BY <3>1, Zenon
    <3> HIDE DEF S
    <3>3. \E i \in S : \A j \in S : i <= j
      BY <3>2, HasFirst, Zenon
    <3>4. Min(S) \in S
      BY <3>3, Zenon DEF Min
    <3> QED BY <3>2, <3>4, Zenon
  <2>3. manager' = [at |-> "sleep", until |-> u] /\ u \in Nat
    BY <2>1, <2>2, Zenon DEF look
  <2> HIDE DEF u
  <2> QED BY <2>3, Zenon
<1>3. DaemonTypeInv'
  BY <1>1, <1>2, Zenon DEF DaemonInv, DaemonTypeInv
<1>4. PoolInv' /\ ScheduleInv'
  BY <1>1, PoolSame, ScheduleStays, Zenon DEF DaemonInv
<1>5. JobInv'
  BY <1>1, Zenon DEF DaemonInv, JobInv
<1> QED BY <1>3, <1>4, <1>5, Zenon DEF DaemonInv

LEMMA wakeDaemon == ASSUME DaemonInv, wake PROVE DaemonInv'
<1>1. UNCHANGED <<config, now, tasks, queue, lua_pool, mutex, job, requests>> /\ interrupted' = FALSE
  BY Zenon DEF wake, consoleVars
<1>2. manager' \in [at : {"look", "sleep", "manage"}, until : Nat]
  BY Zenon DEF wake, DaemonInv, DaemonTypeInv
<1>3. DaemonTypeInv'
  BY <1>1, <1>2, Zenon DEF DaemonInv, DaemonTypeInv
<1>4. PoolInv' /\ ScheduleInv'
  BY <1>1, PoolSame, ScheduleStays, Zenon DEF DaemonInv
<1>5. JobInv'
  BY <1>1, Zenon DEF DaemonInv, JobInv
<1> QED BY <1>3, <1>4, <1>5, Zenon DEF DaemonInv

LEMMA TickDaemon == ASSUME DaemonInv, Tick PROVE DaemonInv'
<1>1. UNCHANGED <<config, tasks, manager, interrupted, queue, lua_pool, mutex, job, requests>>
  BY Zenon DEF Tick, consoleVars, scheduleVars
<1>2. now' \in 0 .. MaxTime
  <2>1. now \in 0 .. MaxTime /\ now < MaxTime /\ now' = now + 1 /\ MaxTime \in Nat
    BY TrackalertAssumption, Zenon DEF Tick, DaemonInv, DaemonTypeInv
  <2> QED BY <2>1
<1>3. DaemonTypeInv'
  BY <1>1, <1>2, Zenon DEF DaemonInv, DaemonTypeInv
<1>4. PoolInv' /\ ScheduleInv'
  BY <1>1, PoolSame, ScheduleStays, Zenon DEF DaemonInv
<1>5. JobInv'
  BY <1>1, Zenon DEF DaemonInv, JobInv
<1> QED BY <1>3, <1>4, <1>5, Zenon DEF DaemonInv

-----------------------------------------------------------------------------
(***************************************************************************)
(* The console: what holds of the other connections.                       *)
(***************************************************************************)

LEMMA ClientMoves ==
    ASSUME client \in [Clients -> ClientRecord], NEW c \in Clients, NEW r \in ClientRecord,
           client' = [client EXCEPT ![c] = r]
    PROVE  /\ client' \in [Clients -> ClientRecord] /\ client'[c] = r
           /\ \A d \in Clients : d # c => client'[d] = client[d]
BY Zenon

LEMMA ServerMoves ==
    ASSUME server \in [Clients -> ServerRecord], NEW c \in Clients, NEW r \in ServerRecord,
           server' = [server EXCEPT ![c] = r]
    PROVE  /\ server' \in [Clients -> ServerRecord] /\ server'[c] = r
           /\ \A d \in Clients : d # c => server'[d] = server[d]
BY Zenon

\* A message is sent, or read, where there is at most one.
LEMMA SentToServer ==
    ASSUME ConsoleTypeInv, NEW c \in Clients, NEW m, toServer[c] = <<>>, toServer' = [toServer EXCEPT ![c] = Append(toServer[c], m)]
    PROVE  /\ toServer' = [d \in Clients |-> toServer'[d]] /\ toServer'[c] = <<m>>
           /\ \A d \in Clients : d # c => toServer'[d] = toServer[d]
<1>1. Append(<<>>, m) = <<m>>
  OBVIOUS
<1>2. toServer = [d \in Clients |-> toServer[d]] /\ toServer' = [toServer EXCEPT ![c] = <<m>>]
  BY <1>1, Zenon DEF ConsoleTypeInv
<1> QED BY <1>2, Zenon

LEMMA SentToClient ==
    ASSUME ConsoleTypeInv, NEW c \in Clients, NEW m, toClient[c] = <<>>, toClient' = [toClient EXCEPT ![c] = Append(toClient[c], m)]
    PROVE  /\ toClient' = [d \in Clients |-> toClient'[d]] /\ toClient'[c] = <<m>>
           /\ \A d \in Clients : d # c => toClient'[d] = toClient[d]
<1>1. Append(<<>>, m) = <<m>>
  OBVIOUS
<1>2. toClient = [d \in Clients |-> toClient[d]] /\ toClient' = [toClient EXCEPT ![c] = <<m>>]
  BY <1>1, Zenon DEF ConsoleTypeInv
<1> QED BY <1>2, Zenon

LEMMA ReadByServer ==
    ASSUME ConsoleTypeInv, NEW c \in Clients, NEW m, toServer[c] = <<m>>, toServer' = [toServer EXCEPT ![c] = Tail(toServer[c])]
    PROVE  /\ toServer' = [d \in Clients |-> toServer'[d]] /\ toServer'[c] = <<>> /\ Head(toServer[c]) = m
           /\ \A d \in Clients : d # c => toServer'[d] = toServer[d]
<1>1. Tail(<<m>>) = <<>> /\ Head(<<m>>) = m
  OBVIOUS
<1>2. toServer = [d \in Clients |-> toServer[d]] /\ toServer' = [toServer EXCEPT ![c] = <<>>]
  BY <1>1, Zenon DEF ConsoleTypeInv
<1> QED BY <1>1, <1>2, Zenon

LEMMA ReadByClient ==
    ASSUME ConsoleTypeInv, NEW c \in Clients, NEW m, toClient[c] = <<m>>, toClient' = [toClient EXCEPT ![c] = Tail(toClient[c])]
    PROVE  /\ toClient' = [d \in Clients |-> toClient'[d]] /\ toClient'[c] = <<>> /\ Head(toClient[c]) = m
           /\ \A d \in Clients : d # c => toClient'[d] = toClient[d]
<1>1. Tail(<<m>>) = <<>> /\ Head(<<m>>) = m
  OBVIOUS
<1>2. toClient = [d \in Clients |-> toClient[d]] /\ toClient' = [toClient EXCEPT ![c] = <<>>]
  BY <1>1, Zenon DEF ConsoleTypeInv
<1> QED BY <1>1, <1>2, Zenon

\* The key is never set to that of the configuration again.
KeyKept == daemon' = daemon /\ (g_key' = g_key \/ g_key' # ConfigKey)

Kept(d) == client'[d] = client[d] /\ server'[d] = server[d] /\ toServer'[d] = toServer[d] /\ toClient'[d] = toClient[d]

LEMMA SessionStays ==
    ASSUME NEW d \in Clients, SessionInv(d), Kept(d), KeyKept
    PROVE  SessionInv(d)'
<1>1. SessionKey(d) # ConfigKey => (SessionKey(d) # ConfigKey)'
  BY Zenon DEF SessionKey, Kept, KeyKept
<1>2. Shown(d)'
  BY Zenon DEF SessionInv, Shown, Kept
<1>3. (client[d].at \in {"waiting", "failed"} => client[d].line \in Lines /\ client[d].shown = NoText)'
  BY Zenon DEF SessionInv, Kept
<1>4. CASE d \in Terminals
  <2>1. AtTerminal(d)'
    BY <1>4, Zenon DEF SessionInv, AtTerminal, Empty, Kept
  <2> QED BY <1>2, <1>3, <1>4, <2>1, Zenon DEF SessionInv
<1>5. CASE d \notin Terminals
  <2>1. Greeting(d) => Greeting(d)'
    BY Zenon DEF Greeting, Empty, Kept
  <2>2. Resting(d) => Resting(d)'
    BY Zenon DEF Resting, Empty, Kept, ToClientAgrees, ToServerAgrees
  <2>3. Asking(d) => Asking(d)'
    BY Zenon DEF Asking, Kept, ToClientAgrees
  <2>4. Running(d) => Running(d)'
    BY Zenon DEF Running, Empty, Kept, ToClientAgrees, ToServerAgrees
  <2>5. Answering(d) => Answering(d)'
    <3> SUFFICES ASSUME Answering(d) PROVE Answering(d)'
      BY Zenon
    <3>1. /\ client'[d].at = "waiting" /\ server'[d].at = "idle" /\ toServer'[d] = <<>>
          /\ ToServerAgrees(d)' /\ server'[d].writing = increment(client'[d].reading)
      BY Zenon DEF Answering, Kept, ToServerAgrees
    <3>2. PICK text \in Printed, key \in Keys :
            /\ toClient[d] = <<sodEncryptSym(text, key, client[d].reading)>>
            /\ text.of = d /\ text.n = client[d].n /\ text.size \in {client[d].line.output, ErrorSize}
            /\ key # ConfigKey => SessionKey(d) # ConfigKey
      BY Zenon DEF Answering
    <3>3. /\ toClient'[d] = <<sodEncryptSym(text, key, client'[d].reading)>>
          /\ text.of = d /\ text.n = client'[d].n /\ text.size \in {client'[d].line.output, ErrorSize}
          /\ key # ConfigKey => (SessionKey(d) # ConfigKey)'
      BY <1>1, <3>2, Zenon DEF Kept
    <3> QED BY <3>1, <3>3, Zenon DEF Answering
  <2>6. Ending(d) => Ending(d)'
    <3>1. Excused(d) => Excused(d)'
      BY <1>1, Zenon DEF Excused, Kept
    <3> QED BY <3>1, Zenon DEF Ending, Empty, Kept
  <2>7. (Greeting(d) \/ Resting(d) \/ Asking(d) \/ Running(d) \/ Answering(d) \/ Ending(d))'
    BY <1>5, <2>1, <2>2, <2>3, <2>4, <2>5, <2>6, Zenon DEF SessionInv
  <2> QED BY <1>2, <1>3, <1>5, <2>7, Zenon DEF SessionInv
<1> QED BY <1>4, <1>5, Zenon

LEMMA ThreadStays ==
    ASSUME NEW d \in Clients, ThreadInv(d), server'[d] = server[d],
           server[d].at = "print" => UNCHANGED <<g_luamutex, g_outputBuffer>>
    PROVE  ThreadInv(d)'
BY Zenon DEF ThreadInv, Answer, Text

LEMMA OthersStay ==
    ASSUME ConsoleInv, NEW c \in Clients, KeyKept, \A d \in Clients : d # c => Kept(d),
           \/ UNCHANGED <<g_luamutex, g_outputBuffer>>
           \/ \A d \in Clients : d # c => server[d].at # "print",
           ConsoleTypeInv', ThreadInv(c)', SessionInv(c)'
    PROVE  ConsoleInv'
<1> SUFFICES ASSUME NEW d \in Clients, d # c PROVE ThreadInv(d)' /\ SessionInv(d)'
  BY Zenon DEF ConsoleInv
<1>1. Kept(d) /\ ThreadInv(d) /\ SessionInv(d)
  BY Zenon DEF ConsoleInv
<1>2. SessionInv(d)'
  BY <1>1, SessionStays, Zenon
<1>3. ThreadInv(d)'
  BY <1>1, ThreadStays, Zenon DEF Kept
<1> QED BY <1>2, <1>3, Zenon

LEMMA ConsoleSame ==
    ASSUME ConsoleInv, UNCHANGED <<daemon, client, server, toServer, toClient, g_key, g_luamutex, g_outputBuffer>>
    PROVE  ConsoleInv'
<1>1. KeyKept /\ \A d \in Clients : Kept(d)
  BY Zenon DEF KeyKept, Kept
<1>2. ConsoleTypeInv'
  BY Zenon DEF ConsoleInv, ConsoleTypeInv
<1>3. ASSUME NEW d \in Clients PROVE ThreadInv(d)' /\ SessionInv(d)'
  BY <1>1, SessionStays, ThreadStays, Zenon DEF ConsoleInv
<1> QED BY <1>2, <1>3, Zenon DEF ConsoleInv

LEMMA NonceFacts ==
    /\ NoNonce \in Nonce
    /\ \A x \in Nonce : increment(x) \in Nonce
    /\ \A x, y \in Nonce : merge(x, y) \in Nonce
    /\ \A c \in Clients : Nonces[c, "client"] \subseteq Nonce /\ Nonces[c, "server"] \subseteq Nonce
<1>1. CounterSize \in Nat /\ CounterSize > 0
  BY ConsoleAssumption
<1>2. \A a \in Nat : (a + 1) % CounterSize \in 0 .. CounterSize - 1
  BY <1>1
<1>3. ASSUME NEW x \in Nonce PROVE increment(x) \in Nonce
  <2>1. x[1] \in Nat /\ x[2] \in Nat
    BY <1>1 DEF Nonce
  <2> QED BY <1>2, <2>1, Zenon DEF increment, Nonce
<1>4. \A x, y \in Nonce : merge(x, y) \in Nonce
  BY Zenon DEF merge, Nonce
<1>5. NoNonce \in Nonce
  BY <1>1 DEF NoNonce, Nonce
<1>6. \A c \in Clients : Nonces[c, "client"] \subseteq Nonce /\ Nonces[c, "server"] \subseteq Nonce
  BY ConsoleAssumption, Zenon DEF Nonce
<1> QED BY <1>3, <1>4, <1>5, <1>6, Zenon

LEMMA LineFacts ==
    ASSUME NEW l \in Lines
    PROVE  /\ l.size \in Nat /\ l.output \in Nat /\ l.key \in (Keys \ {ConfigKey}) \union {NoKey}
           /\ l.size < LenSize /\ LenSize \in Nat /\ LenSize > 26
<1>1. l \in Line
  BY ConsoleAssumption, Zenon
<1>2. l.size \in 0 .. LenSize - 1 /\ l.output \in Nat /\ l.key \in (Keys \ {ConfigKey}) \union {NoKey}
  BY <1>1, Zenon DEF Line
<1>3. LenSize \in Nat /\ LenSize > 26
  BY SMT DEF LenSize
<1>4. l.size \in Nat /\ l.size < LenSize
  BY <1>2, <1>3, SMT
<1> QED BY <1>2, <1>3, <1>4, Zenon

LEMMA NoTextPrinted == NoText \in Printed /\ NoText.of = Nobody
BY DEF NoText, Printed

-----------------------------------------------------------------------------
(***************************************************************************)
(* The console: the steps of a client.                                     *)
(***************************************************************************)

\* What the state of a client or of its thread says about the connection.
LEMMA Stages ==
    ASSUME NEW c \in Clients, SessionInv(c)
    PROVE  /\ c \in Terminals => AtTerminal(c)
           /\ client[c].at = "start" /\ c \notin Terminals => Greeting(c)
           /\ client[c].at = "hello" => Greeting(c) /\ c \notin Terminals
           /\ client[c].at = "ready" /\ c \notin Terminals => Resting(c)
           /\ client[c].at = "waiting" /\ toClient[c] # <<>> => Answering(c) /\ c \notin Terminals
           /\ server[c].at = "closed" => Ending(c) /\ c \notin Terminals
           /\ server[c].at = "accept" /\ c \notin Terminals => Greeting(c)
           /\ server[c].at \in Busy /\ c \notin Terminals => Running(c)
           /\ server[c].at = "idle" /\ client[c].at \in {"ended", "failed"} => Ending(c) /\ c \notin Terminals
<1> DEFINE x == client[c].at
           y == server[c].at
<1>1. /\ AtTerminal(c) => /\ x \in {"ready", "waiting"} /\ y \in Busy \union {"accept"}
                          /\ toClient[c] = <<>> /\ toServer[c] = <<>>
      /\ Greeting(c) => x \in {"start", "hello"} /\ y \in {"accept", "idle"}
      /\ Resting(c) => x = "ready" /\ y = "idle"
      /\ Asking(c) => x = "waiting" /\ y = "idle" /\ toClient[c] = <<>>
      /\ Running(c) => x = "waiting" /\ y \in Busy /\ toClient[c] = <<>>
      /\ Answering(c) => x = "waiting" /\ y = "idle"
      /\ Ending(c) => x \in {"waiting", "failed", "ended"} /\ y \in {"idle", "closed"} /\ toClient[c] = <<>>
                      /\ (x = "waiting" => y = "closed")
  BY Zenon DEF AtTerminal, Greeting, Resting, Asking, Running, Answering, Ending, Empty
<1>2. IF c \in Terminals THEN AtTerminal(c)
      ELSE Greeting(c) \/ Resting(c) \/ Asking(c) \/ Running(c) \/ Answering(c) \/ Ending(c)
  BY Zenon DEF SessionInv
<1> HIDE DEF x, y
<1>3. Busy = {"contexts", "global", "print", "reply"}
  BY Zenon DEF Busy
<1>4. CASE c \in Terminals
  BY <1>1, <1>2, <1>3, <1>4, Zenon DEF x, y
<1>5. CASE c \notin Terminals
  BY <1>1, <1>2, <1>3, <1>5, Zenon DEF x, y
<1> QED BY <1>4, <1>5, Zenon

LEMMA doClientConnectConsole ==
    ASSUME ConsoleInv, NEW c \in Clients, doClientConnect(c)
    PROVE  ConsoleInv'
<1>1. PICK ours \in Nonces[c, "client"] :
        /\ client' = [client EXCEPT ![c].at = "hello", ![c].ours = ours]
        /\ toServer' = [toServer EXCEPT ![c] = Append(toServer[c], ours)]
  BY Zenon DEF doClientConnect
<1> DEFINE r == [client[c] EXCEPT !.at = "hello", !.ours = ours]
<1>2. /\ client[c].at = "start" /\ c \notin Terminals /\ ours \in Nonce
      /\ UNCHANGED <<daemon, server, toClient, g_key, g_luamutex, g_outputBuffer>>
      /\ ConsoleTypeInv /\ ThreadInv(c) /\ SessionInv(c) /\ client[c] \in ClientRecord
  BY NonceFacts, Zenon DEF doClientConnect, clientOnly, ConsoleInv, ConsoleTypeInv
<1>3. server[c].at = "accept" /\ toServer[c] = <<>> /\ toClient[c] = <<>>
  BY <1>2, Stages, Zenon DEF Greeting, Empty
<1>4. /\ r \in ClientRecord /\ r.at = "hello" /\ r.ours = ours
      /\ r.line = client[c].line /\ r.n = client[c].n /\ r.shown = client[c].shown
  BY <1>2, Zenon DEF ClientRecord, ClientStates
<1>5. client' = [client EXCEPT ![c] = r]
  BY <1>1, Zenon
<1> HIDE DEF r
<1>6. client' \in [Clients -> ClientRecord] /\ client'[c] = r /\ \A d \in Clients : d # c => client'[d] = client[d]
  BY <1>2, <1>4, <1>5, ClientMoves, Zenon DEF ConsoleTypeInv
<1>7. /\ toServer' = [d \in Clients |-> toServer'[d]] /\ toServer'[c] = <<ours>>
      /\ \A d \in Clients : d # c => toServer'[d] = toServer[d]
  BY <1>1, <1>2, <1>3, SentToServer, Zenon
<1>8. ConsoleTypeInv'
  BY <1>2, <1>6, <1>7, Zenon DEF ConsoleTypeInv
<1>9. KeyKept /\ \A d \in Clients : d # c => Kept(d)
  BY <1>2, <1>6, <1>7, Zenon DEF KeyKept, Kept
<1>10. ThreadInv(c)'
  BY <1>2, ThreadStays, Zenon
<1>11. SessionInv(c)'
  <2>1. Greeting(c)'
    BY <1>2, <1>3, <1>4, <1>6, <1>7, Zenon DEF Greeting
  <2>2. Shown(c)'
    BY <1>2, <1>4, <1>6, Zenon DEF SessionInv, Shown
  <2> QED BY <1>2, <1>4, <1>6, <2>1, <2>2, Zenon DEF SessionInv
<1> QED BY <1>2, <1>8, <1>9, <1>10, <1>11, OthersStay, Zenon

LEMMA doClientMergeConsole ==
    ASSUME ConsoleInv, NEW c \in Clients, doClientMerge(c)
    PROVE  ConsoleInv'
<1> DEFINE ours == client[c].ours
           theirs == Head(toClient[c])
           r == [client[c] EXCEPT !.at = "ready", !.reading = merge(ours, theirs), !.writing = merge(theirs, ours)]
<1>1. /\ client[c].at = "hello" /\ toClient[c] # <<>>
      /\ client' = [client EXCEPT ![c].at = "ready", ![c].reading = merge(ours, theirs), ![c].writing = merge(theirs, ours)]
      /\ toClient' = [toClient EXCEPT ![c] = Tail(toClient[c])]
      /\ UNCHANGED <<daemon, server, toServer, g_key, g_luamutex, g_outputBuffer>>
      /\ ConsoleTypeInv /\ ThreadInv(c) /\ SessionInv(c) /\ client[c] \in ClientRecord
  BY Zenon DEF doClientMerge, ConsoleInv, ConsoleTypeInv
<1>2. /\ server[c].at = "idle" /\ toServer[c] = <<>> /\ c \notin Terminals
      /\ \E n \in Nonce : /\ toClient[c] = <<n>>
                          /\ server[c].reading = merge(n, client[c].ours)
                          /\ server[c].writing = merge(client[c].ours, n)
  BY <1>1, Stages, Zenon DEF Greeting, Empty
<1>3. PICK n \in Nonce : /\ toClient[c] = <<n>>
                         /\ server[c].reading = merge(n, client[c].ours)
                         /\ server[c].writing = merge(client[c].ours, n)
  BY <1>2, Zenon
<1>4. /\ toClient' = [d \in Clients |-> toClient'[d]] /\ toClient'[c] = <<>> /\ theirs = n
      /\ \A d \in Clients : d # c => toClient'[d] = toClient[d]
  BY <1>1, <1>3, ReadByClient, Zenon
<1> HIDE DEF theirs
<1>5. /\ r \in ClientRecord /\ r.at = "ready" /\ r.reading = merge(ours, n) /\ r.writing = merge(n, ours)
      /\ r.line = client[c].line /\ r.n = client[c].n /\ r.shown = client[c].shown
  <2>1. merge(ours, theirs) \in Nonce /\ merge(theirs, ours) \in Nonce
    BY <1>1, <1>4, NonceFacts, Zenon DEF ClientRecord
  <2> QED BY <1>1, <1>4, <2>1, Zenon DEF ClientRecord, ClientStates
<1>6. client' = [client EXCEPT ![c] = r]
  BY <1>1, Zenon
<1> HIDE DEF r
<1>7. client' \in [Clients -> ClientRecord] /\ client'[c] = r /\ \A d \in Clients : d # c => client'[d] = client[d]
  BY <1>1, <1>5, <1>6, ClientMoves, Zenon DEF ConsoleTypeInv
<1>8. ConsoleTypeInv'
  BY <1>1, <1>4, <1>7, Zenon DEF ConsoleTypeInv
<1>9. KeyKept /\ \A d \in Clients : d # c => Kept(d)
  BY <1>1, <1>4, <1>7, Zenon DEF KeyKept, Kept
<1>10. ThreadInv(c)'
  BY <1>1, ThreadStays, Zenon
<1>11. SessionInv(c)'
  <2>1. Resting(c)'
    BY <1>1, <1>2, <1>3, <1>4, <1>5, <1>7, Zenon DEF Resting, Empty, ToClientAgrees, ToServerAgrees
  <2>2. Shown(c)'
    BY <1>1, <1>5, <1>7, Zenon DEF SessionInv, Shown
  <2> QED BY <1>2, <1>5, <1>7, <2>1, <2>2, Zenon DEF SessionInv
<1> QED BY <1>1, <1>8, <1>9, <1>10, <1>11, OthersStay, Zenon

LEMMA CommandCounts ==
    ASSUME NEW n \in 0 .. MaxCommands, n < MaxCommands
    PROVE  n + 1 \in 0 .. MaxCommands
BY ConsoleAssumption, SMT

LEMMA doClientSendConsole ==
    ASSUME ConsoleInv, NEW c \in Clients, NEW line \in Lines, doClientSend(c, line)
    PROVE  ConsoleInv'
<1> DEFINE text == [of |-> c, n |-> client[c].n + 1, size |-> line.size, line |-> line]
           m == sodEncryptSym(text, ConfigKey, client[c].writing)
           r == [client[c] EXCEPT !.at = "waiting", !.n = client[c].n + 1, !.line = line,
                                  !.writing = increment(client[c].writing), !.shown = NoText]
<1>1. /\ client[c].at = "ready" /\ c \notin Terminals /\ client[c].n < MaxCommands
      /\ toServer' = [toServer EXCEPT ![c] = Append(toServer[c], m)]
      /\ UNCHANGED <<daemon, server, toClient, g_key, g_luamutex, g_outputBuffer>>
      /\ ConsoleTypeInv /\ ThreadInv(c) /\ SessionInv(c) /\ client[c] \in ClientRecord
  BY Zenon DEF doClientSend, ConsoleInv, ConsoleTypeInv, clientOnly
<1>2. client' = [client EXCEPT ![c] = r]
  BY Zenon DEF doClientSend
<1>3. server[c].at = "idle" /\ toServer[c] = <<>> /\ toClient[c] = <<>> /\ ToClientAgrees(c) /\ ToServerAgrees(c)
  BY <1>1, Stages, Zenon DEF Resting, Empty
<1>4. /\ r \in ClientRecord /\ r.at = "waiting" /\ r.n = client[c].n + 1 /\ r.line = line /\ r.shown = NoText
      /\ r.reading = client[c].reading /\ r.writing = increment(client[c].writing)
  <2>1. client[c].n + 1 \in 0 .. MaxCommands
    BY <1>1, CommandCounts, Zenon DEF ClientRecord
  <2>2. increment(client[c].writing) \in Nonce
    BY <1>1, NonceFacts, Zenon DEF ClientRecord
  <2> QED BY <1>1, <2>1, <2>2, NoTextPrinted, Zenon DEF ClientRecord, ClientStates
<1>5. m = sodEncryptSym([of |-> c, n |-> r.n, size |-> r.line.size, line |-> r.line], ConfigKey, server[c].reading)
  BY <1>3, <1>4, Zenon DEF ToServerAgrees
<1> HIDE DEF r, m, text
<1>6. client' \in [Clients -> ClientRecord] /\ client'[c] = r /\ \A d \in Clients : d # c => client'[d] = client[d]
  BY <1>1, <1>2, <1>4, ClientMoves, Zenon DEF ConsoleTypeInv
<1>7. /\ toServer' = [d \in Clients |-> toServer'[d]] /\ toServer'[c] = <<m>>
      /\ \A d \in Clients : d # c => toServer'[d] = toServer[d]
  BY <1>1, <1>3, SentToServer, Zenon
<1>8. ConsoleTypeInv'
  BY <1>1, <1>6, <1>7, Zenon DEF ConsoleTypeInv
<1>9. KeyKept /\ \A d \in Clients : d # c => Kept(d)
  BY <1>1, <1>6, <1>7, Zenon DEF KeyKept, Kept
<1>10. ThreadInv(c)'
  BY <1>1, ThreadStays, Zenon
<1>11. SessionInv(c)'
  <2>1. Asking(c)'
    <3>1. client'[c].writing = increment(server'[c].reading) /\ ToClientAgrees(c)'
      BY <1>1, <1>3, <1>4, <1>6, Zenon DEF ToServerAgrees, ToClientAgrees
    <3> QED BY <1>1, <1>3, <1>4, <1>5, <1>6, <1>7, <3>1, Zenon DEF Asking
  <2>2. Shown(c)'
    BY <1>4, <1>6, Zenon DEF Shown
  <2> QED BY <1>1, <1>4, <1>6, <2>1, <2>2, Zenon DEF SessionInv
<1> QED BY <1>1, <1>8, <1>9, <1>10, <1>11, OthersStay, Zenon

\* What decrypting a message with the right nonce tells.
LEMMA Decrypts ==
    ASSUME NEW text, text.size \in Nat, NEW key, NEW nonce, NEW k, NEW m, m = sodEncryptSym(text, key, nonce)
    PROVE  /\ m.text = text
           /\ sodDecryptSym(m, k, nonce) => m.len - MACBytes \in Nat /\ (Fits(text.size) => m.len - MACBytes = text.size)
           /\ ~sodDecryptSym(m, k, nonce) => ~Fits(text.size) \/ key # k
<1>1. m.text = text /\ m.key = key /\ m.nonce = nonce /\ m.size = text.size + MACBytes /\ m.len = (text.size + MACBytes) % LenSize
  BY Zenon DEF sodEncryptSym
<1>2. MACBytes = 16 /\ LenSize \in Nat /\ LenSize > 26
  BY SMT DEF MACBytes, LenSize
<1>3. m.len \in Nat /\ (text.size + MACBytes < LenSize => m.len = text.size + MACBytes)
  BY <1>1, <1>2, SMT
<1>4. ASSUME sodDecryptSym(m, k, nonce)
      PROVE  m.len - MACBytes \in Nat /\ (Fits(text.size) => m.len - MACBytes = text.size)
  <2>1. m.len = MACBytes \/ m.len = text.size + MACBytes
    BY <1>1, <1>4, Zenon DEF sodDecryptSym
  <2>2. Fits(text.size) => m.len = text.size + MACBytes
    BY <1>3, Zenon DEF Fits
  <2> QED BY <1>2, <1>3, <2>1, <2>2, SMT
<1>5. ASSUME ~sodDecryptSym(m, k, nonce) PROVE ~Fits(text.size) \/ key # k
  BY <1>1, <1>3, <1>5, Zenon DEF sodDecryptSym, Fits
<1> QED BY <1>1, <1>4, <1>5, Zenon

LEMMA ErrorFits == ErrorSize \in Nat /\ Fits(ErrorSize)
BY SMT DEF ErrorSize, Fits, MACBytes, LenSize

LEMMA doClientShowConsole ==
    ASSUME ConsoleInv, NEW c \in Clients, doClientShow(c)
    PROVE  ConsoleInv'
<1>1. /\ client[c].at = "waiting" /\ toClient[c] # <<>>
      /\ toClient' = [toClient EXCEPT ![c] = Tail(toClient[c])]
      /\ UNCHANGED <<daemon, server, toServer, g_key, g_luamutex, g_outputBuffer>>
      /\ ConsoleTypeInv /\ ThreadInv(c) /\ SessionInv(c) /\ client[c] \in ClientRecord
  BY Zenon DEF doClientShow, ConsoleInv, ConsoleTypeInv
<1>2. /\ c \notin Terminals /\ client[c].line \in Lines /\ client[c].shown = NoText
      /\ server[c].at = "idle" /\ toServer[c] = <<>> /\ ToServerAgrees(c) /\ server[c].writing = increment(client[c].reading)
  BY <1>1, Stages, Zenon DEF Answering, SessionInv
<1>3. PICK text \in Printed, key \in Keys :
        /\ toClient[c] = <<sodEncryptSym(text, key, client[c].reading)>>
        /\ text.of = c /\ text.n = client[c].n /\ text.size \in {client[c].line.output, ErrorSize}
        /\ key # ConfigKey => SessionKey(c) # ConfigKey
  BY <1>1, Stages, Zenon DEF Answering
<1> DEFINE m == sodEncryptSym(text, key, client[c].reading)
           good == sodDecryptSym(m, ConfigKey, client[c].reading)
           r == IF good THEN [client[c] EXCEPT !.at = "ready", !.shown = decrypted(m), !.reading = increment(client[c].reading)]
                ELSE [client[c] EXCEPT !.at = "failed"]
<1>4. /\ toClient' = [d \in Clients |-> toClient'[d]] /\ toClient'[c] = <<>> /\ Head(toClient[c]) = m
      /\ \A d \in Clients : d # c => toClient'[d] = toClient[d]
  BY <1>1, <1>3, ReadByClient, Zenon
<1>5. client' = [client EXCEPT ![c] = r]
  <2>1. client' = IF good
                  THEN [client EXCEPT ![c].at = "ready", ![c].shown = decrypted(m),
                                      ![c].reading = increment(client[c].reading)]
                  ELSE [client EXCEPT ![c].at = "failed"]
    BY <1>4, Zenon DEF doClientShow
  <2> HIDE DEF good, m
  <2> QED BY <2>1, Zenon
<1>6. /\ text.size \in Nat /\ m.text = text
      /\ good => m.len - MACBytes \in Nat /\ (Fits(text.size) => m.len - MACBytes = text.size)
      /\ ~good => ~Fits(text.size) \/ key # ConfigKey
  <2>1. text.size \in Nat
    BY <1>3, Zenon DEF Printed
  <2>2. m = sodEncryptSym(text, key, client[c].reading)
    BY Zenon
  <2> HIDE DEF m
  <2> QED BY <2>1, <2>2, Decrypts, SMT
<1> HIDE DEF m, good
<1>7. ASSUME good
      PROVE  /\ r \in ClientRecord /\ r.at = "ready" /\ r.reading = increment(client[c].reading)
             /\ r.writing = client[c].writing /\ r.line = client[c].line /\ r.n = client[c].n
             /\ r.shown.of = c /\ r.shown.n = client[c].n
             /\ Fits(client[c].line.output) => r.shown.size \in {client[c].line.output, ErrorSize}
  <2> DEFINE t == [text EXCEPT !.size = m.len - MACBytes]
  <2>1. t \in Printed /\ t.of = c /\ t.n = client[c].n /\ t.size = m.len - MACBytes
    BY <1>3, <1>6, <1>7, Zenon DEF Printed
  <2>2. decrypted(m) = t
    BY <1>6, Zenon DEF decrypted
  <2> HIDE DEF t
  <2>3. increment(client[c].reading) \in Nonce
    BY <1>1, NonceFacts, Zenon DEF ClientRecord
  <2>4. /\ r \in ClientRecord /\ r.at = "ready" /\ r.reading = increment(client[c].reading)
        /\ r.writing = client[c].writing /\ r.line = client[c].line /\ r.n = client[c].n /\ r.shown = t
    BY <1>1, <1>7, <2>1, <2>2, <2>3, Zenon DEF ClientRecord, ClientStates
  <2>5. Fits(client[c].line.output) => t.size \in {client[c].line.output, ErrorSize}
    BY <1>3, <1>6, <1>7, <2>1, ErrorFits, Zenon
  <2> QED BY <2>1, <2>4, <2>5, Zenon
<1>8. ASSUME ~good
      PROVE  /\ r \in ClientRecord /\ r.at = "failed" /\ r.line = client[c].line /\ r.shown = NoText
             /\ ~Fits(client[c].line.output) \/ SessionKey(c) # ConfigKey
  <2>1. r \in ClientRecord /\ r.at = "failed" /\ r.line = client[c].line /\ r.shown = NoText
    BY <1>1, <1>2, <1>8, Zenon DEF ClientRecord, ClientStates
  <2>2. ~Fits(client[c].line.output) \/ SessionKey(c) # ConfigKey
    BY <1>3, <1>6, <1>8, ErrorFits, Zenon
  <2> QED BY <2>1, <2>2, Zenon
<1> HIDE DEF r
<1>9. client' \in [Clients -> ClientRecord] /\ client'[c] = r /\ \A d \in Clients : d # c => client'[d] = client[d]
  BY <1>1, <1>5, <1>7, <1>8, ClientMoves, Zenon DEF ConsoleTypeInv
<1>10. ConsoleTypeInv'
  BY <1>1, <1>4, <1>9, Zenon DEF ConsoleTypeInv
<1>11. KeyKept /\ \A d \in Clients : d # c => Kept(d)
  BY <1>1, <1>4, <1>9, Zenon DEF KeyKept, Kept
<1>12. ThreadInv(c)'
  BY <1>1, ThreadStays, Zenon
<1>13. SessionInv(c)'
  <2>1. CASE good
    <3>1. Resting(c)'
      BY <1>1, <1>2, <1>4, <1>7, <1>9, <2>1, Zenon DEF Resting, Empty, ToClientAgrees, ToServerAgrees
    <3>2. Shown(c)'
      BY <1>2, <1>7, <1>9, <2>1, Zenon DEF Shown
    <3> QED BY <1>2, <1>7, <1>9, <2>1, <3>1, <3>2, Zenon DEF SessionInv
  <2>2. CASE ~good
    <3>1. SessionKey(c)' = SessionKey(c)
      BY <1>1, Zenon DEF SessionKey
    <3>2. Ending(c)'
      BY <1>1, <1>2, <1>4, <1>8, <1>9, <2>2, <3>1, Zenon DEF Ending, Empty, Excused
    <3>3. Shown(c)'
      BY <1>8, <1>9, <2>2, Zenon DEF Shown
    <3> QED BY <1>2, <1>8, <1>9, <2>2, <3>2, <3>3, Zenon DEF SessionInv
  <2> QED BY <2>1, <2>2, Zenon
<1> QED BY <1>1, <1>10, <1>11, <1>12, <1>13, OthersStay, Zenon

\* The client gives up or quits.
LEMMA ClientLeaves ==
    ASSUME ConsoleInv, NEW c \in Clients, doClientClosed(c) \/ doClientQuit(c)
    PROVE  ConsoleInv'
<1> DEFINE a == IF client[c].at = "waiting" THEN "failed" ELSE "ended"
           r == [client[c] EXCEPT !.at = a]
<1>1. /\ client' = [client EXCEPT ![c] = r]
      /\ \/ client[c].at = "waiting" /\ server[c].at = "closed"
         \/ client[c].at = "ready" /\ c \notin Terminals
      /\ UNCHANGED <<daemon, server, toServer, toClient, g_key, g_luamutex, g_outputBuffer>>
      /\ ConsoleTypeInv /\ ThreadInv(c) /\ SessionInv(c) /\ client[c] \in ClientRecord
  BY Zenon DEF doClientClosed, doClientQuit, ConsoleInv, ConsoleTypeInv, clientOnly
<1>2. /\ r \in ClientRecord /\ r.at = a /\ r.line = client[c].line /\ r.n = client[c].n /\ r.shown = client[c].shown
      /\ a \in {"failed", "ended"}
  BY <1>1, Zenon DEF ClientRecord, ClientStates
<1> HIDE DEF r
<1>3. client' \in [Clients -> ClientRecord] /\ client'[c] = r /\ \A d \in Clients : d # c => client'[d] = client[d]
  BY <1>1, <1>2, ClientMoves, Zenon DEF ConsoleTypeInv
<1>4. ConsoleTypeInv'
  BY <1>1, <1>3, Zenon DEF ConsoleTypeInv
<1>5. KeyKept /\ \A d \in Clients : d # c => Kept(d)
  BY <1>1, <1>3, Zenon DEF KeyKept, Kept
<1>6. ThreadInv(c)'
  BY <1>1, ThreadStays, Zenon
<1>7. SessionInv(c)'
  <2>1. c \notin Terminals /\ Ending(c)'
    <3>1. SessionKey(c)' = SessionKey(c)
      BY <1>1, Zenon DEF SessionKey
    <3>2. CASE client[c].at = "waiting"
      <4>1. Ending(c) /\ c \notin Terminals
        BY <1>1, <3>2, Stages, Zenon
      <4>2. Empty(c)' /\ Excused(c)' /\ client'[c].at = "failed" /\ server'[c].at = "closed"
        BY <1>1, <1>2, <1>3, <3>1, <3>2, <4>1, Zenon DEF Ending, Empty, Excused
      <4> QED BY <4>1, <4>2, Zenon DEF Ending
    <3>3. CASE client[c].at # "waiting"
      <4>1. Resting(c) /\ c \notin Terminals
        BY <1>1, <3>3, Stages, Zenon
      <4>2. Empty(c)' /\ client'[c].at = "ended" /\ server'[c].at = "idle"
        BY <1>1, <1>2, <1>3, <3>3, <4>1, Zenon DEF Resting, Empty
      <4> QED BY <4>1, <4>2, Zenon DEF Ending
    <3> QED BY <3>2, <3>3, Zenon
  <2>2. Shown(c)'
    BY <1>1, <1>2, <1>3, Zenon DEF SessionInv, Shown
  <2>3. (client[c].at \in {"waiting", "failed"} => client[c].line \in Lines /\ client[c].shown = NoText)'
    BY <1>1, <1>2, <1>3, Zenon DEF SessionInv
  <2> QED BY <2>1, <2>2, <2>3, Zenon DEF SessionInv
<1> QED BY <1>1, <1>4, <1>5, <1>6, <1>7, OthersStay, Zenon

LEMMA doConsoleReadConsole ==
    ASSUME ConsoleInv, NEW c \in Clients, NEW line \in Lines, doConsoleRead(c, line)
    PROVE  ConsoleInv'
<1> DEFINE r == [client[c] EXCEPT !.at = "waiting", !.n = client[c].n + 1, !.line = line, !.shown = NoText]
           s == [server[c] EXCEPT !.at = "contexts", !.todo = AllContexts, !.line = line, !.n = server[c].n + 1]
<1>1. /\ c \in Terminals /\ client[c].at = "ready" /\ client[c].n < MaxCommands
      /\ UNCHANGED <<daemon, toServer, toClient, g_key, g_luamutex, g_outputBuffer>>
      /\ ConsoleTypeInv /\ ThreadInv(c) /\ SessionInv(c) /\ client[c] \in ClientRecord /\ server[c] \in ServerRecord
  BY Zenon DEF doConsoleRead, ConsoleInv, ConsoleTypeInv
<1>2. client' = [client EXCEPT ![c] = r] /\ server' = [server EXCEPT ![c] = s]
  BY Zenon DEF doConsoleRead
<1>3. Empty(c) /\ server[c].n = client[c].n
  BY <1>1, Zenon DEF SessionInv, AtTerminal
<1>4. client[c].n + 1 \in 0 .. MaxCommands
  BY <1>1, CommandCounts, Zenon DEF ClientRecord
<1>5. r \in ClientRecord /\ r.at = "waiting" /\ r.n = client[c].n + 1 /\ r.line = line /\ r.shown = NoText
  BY <1>1, <1>4, NoTextPrinted, Zenon DEF ClientRecord, ClientStates
<1>6. s \in ServerRecord /\ s.at = "contexts" /\ s.n = server[c].n + 1 /\ s.line = line
  <2>1. server[c].n + 1 \in 0 .. MaxCommands
    BY <1>3, <1>4, Zenon
  <2> QED BY <1>1, <2>1, AllContextsFacts, Zenon DEF ServerRecord, ServerStates, Busy
<1> HIDE DEF r, s
<1>7. client' \in [Clients -> ClientRecord] /\ client'[c] = r /\ \A d \in Clients : d # c => client'[d] = client[d]
  BY <1>1, <1>2, <1>5, ClientMoves, Zenon DEF ConsoleTypeInv
<1>8. server' \in [Clients -> ServerRecord] /\ server'[c] = s /\ \A d \in Clients : d # c => server'[d] = server[d]
  BY <1>1, <1>2, <1>6, ServerMoves, Zenon DEF ConsoleTypeInv
<1>9. ConsoleTypeInv'
  BY <1>1, <1>7, <1>8, Zenon DEF ConsoleTypeInv
<1>10. KeyKept /\ \A d \in Clients : d # c => Kept(d)
  BY <1>1, <1>7, <1>8, Zenon DEF KeyKept, Kept
<1>11. ThreadInv(c)'
  BY <1>6, <1>8, Zenon DEF ThreadInv
<1>12. SessionInv(c)'
  <2>1. AtTerminal(c)'
    BY <1>1, <1>3, <1>5, <1>6, <1>7, <1>8, Zenon DEF AtTerminal, Empty, Busy
  <2>2. Shown(c)'
    BY <1>5, <1>7, Zenon DEF Shown
  <2> QED BY <1>1, <1>5, <1>7, <2>1, <2>2, Zenon DEF SessionInv
<1> QED BY <1>1, <1>9, <1>10, <1>11, <1>12, OthersStay, Zenon

-----------------------------------------------------------------------------
(***************************************************************************)
(* The console: the steps of a thread of the daemon.                       *)
(***************************************************************************)

LEMMA controlThreadConsole ==
    ASSUME ConsoleInv, NEW c \in Clients, controlThread(c)
    PROVE  ConsoleInv'
<1> DEFINE theirs == Head(toServer[c])
<1>1. /\ server[c].at = "accept" /\ toServer[c] # <<>>
      /\ toServer' = [toServer EXCEPT ![c] = Tail(toServer[c])]
      /\ UNCHANGED <<daemon, client, g_key, g_luamutex, g_outputBuffer>>
      /\ ConsoleTypeInv /\ ThreadInv(c) /\ SessionInv(c) /\ client[c] \in ClientRecord /\ server[c] \in ServerRecord
  BY Zenon DEF controlThread, ConsoleInv, ConsoleTypeInv
<1>2. PICK ours \in Nonces[c, "server"] :
        /\ server' = [server EXCEPT ![c].at = "idle", ![c].reading = merge(ours, theirs),
                                    ![c].writing = merge(theirs, ours), ![c].key = g_key]
        /\ toClient' = [toClient EXCEPT ![c] = Append(toClient[c], ours)]
  BY Zenon DEF controlThread
<1> DEFINE r == [server[c] EXCEPT !.at = "idle", !.reading = merge(ours, theirs),
                                  !.writing = merge(theirs, ours), !.key = g_key]
<1>3. c \notin Terminals /\ client[c].at = "hello" /\ toServer[c] = <<client[c].ours>> /\ toClient[c] = <<>>
  BY <1>1, Stages, Zenon DEF Greeting, Empty, AtTerminal
<1>4. server' = [server EXCEPT ![c] = r]
  BY <1>2, Zenon
<1>5. /\ toServer' = [d \in Clients |-> toServer'[d]] /\ toServer'[c] = <<>> /\ theirs = client[c].ours
      /\ \A d \in Clients : d # c => toServer'[d] = toServer[d]
  BY <1>1, <1>3, ReadByServer, Zenon
<1>6. /\ toClient' = [d \in Clients |-> toClient'[d]] /\ toClient'[c] = <<ours>>
      /\ \A d \in Clients : d # c => toClient'[d] = toClient[d]
  BY <1>1, <1>2, <1>3, SentToClient, Zenon
<1> HIDE DEF theirs
<1>7. /\ r \in ServerRecord /\ r.at = "idle" /\ r.reading = merge(ours, theirs) /\ r.writing = merge(theirs, ours)
      /\ ours \in Nonce
  <2>1. ours \in Nonce /\ theirs \in Nonce
    BY <1>1, <1>5, NonceFacts, Zenon DEF ClientRecord
  <2>2. merge(ours, theirs) \in Nonce /\ merge(theirs, ours) \in Nonce /\ g_key \in Keys
    BY <1>1, <2>1, NonceFacts, Zenon DEF ConsoleTypeInv
  <2> QED BY <1>1, <2>1, <2>2, Zenon DEF ServerRecord, ServerStates
<1> HIDE DEF r
<1>8. server' \in [Clients -> ServerRecord] /\ server'[c] = r /\ \A d \in Clients : d # c => server'[d] = server[d]
  BY <1>1, <1>4, <1>7, ServerMoves, Zenon DEF ConsoleTypeInv
<1>9. ConsoleTypeInv'
  BY <1>1, <1>5, <1>6, <1>8, Zenon DEF ConsoleTypeInv
<1>10. KeyKept /\ \A d \in Clients : d # c => Kept(d)
  BY <1>1, <1>5, <1>6, <1>8, Zenon DEF KeyKept, Kept
<1>11. ThreadInv(c)'
  BY <1>7, <1>8, Zenon DEF ThreadInv, Busy
<1>12. SessionInv(c)'
  <2>1. Greeting(c)'
    BY <1>1, <1>3, <1>5, <1>6, <1>7, <1>8, Zenon DEF Greeting
  <2>2. Shown(c)'
    BY <1>1, Zenon DEF SessionInv, Shown
  <2> QED BY <1>1, <1>3, <2>1, <2>2, Zenon DEF SessionInv
<1> QED BY <1>1, <1>9, <1>10, <1>11, <1>12, OthersStay, Zenon

LEMMA readCommandConsole ==
    ASSUME ConsoleInv, NEW c \in Clients, readCommand(c)
    PROVE  ConsoleInv'
<1> DEFINE l == client[c].line
           text == [of |-> c, n |-> client[c].n, size |-> l.size, line |-> l]
           m == sodEncryptSym(text, ConfigKey, server[c].reading)
           good == sodDecryptSym(m, SessionKey(c), server[c].reading)
           r == IF good THEN [server[c] EXCEPT !.at = "contexts", !.todo = AllContexts, !.line = m.text.line,
                                               !.n = m.text.n, !.reading = increment(server[c].reading)]
                ELSE [server[c] EXCEPT !.at = "closed"]
<1>1. /\ server[c].at = "idle" /\ toServer[c] # <<>>
      /\ toServer' = [toServer EXCEPT ![c] = Tail(toServer[c])]
      /\ UNCHANGED <<daemon, client, toClient, g_key, g_luamutex, g_outputBuffer>>
      /\ ConsoleTypeInv /\ ThreadInv(c) /\ SessionInv(c) /\ client[c] \in ClientRecord /\ server[c] \in ServerRecord
  BY Zenon DEF readCommand, ConsoleInv, ConsoleTypeInv
<1>2. c \notin Terminals /\ Asking(c)
  BY <1>1, Zenon DEF SessionInv, AtTerminal, Greeting, Resting, Running, Answering, Ending, Empty, Busy
<1>3. /\ client[c].at = "waiting" /\ toClient[c] = <<>> /\ toServer[c] = <<m>>
      /\ ToClientAgrees(c) /\ client[c].writing = increment(server[c].reading)
      /\ l \in Lines /\ client[c].shown = NoText
  BY <1>1, <1>2, Zenon DEF Asking, SessionInv
<1>4. /\ toServer' = [d \in Clients |-> toServer'[d]] /\ toServer'[c] = <<>> /\ Head(toServer[c]) = m
      /\ \A d \in Clients : d # c => toServer'[d] = toServer[d]
  BY <1>1, <1>3, ReadByServer, Zenon
<1>5. server' = [server EXCEPT ![c] = r]
  <2>1. server' = IF good
                  THEN [server EXCEPT ![c].at = "contexts", ![c].todo = AllContexts, ![c].line = m.text.line,
                                      ![c].n = m.text.n, ![c].reading = increment(server[c].reading)]
                  ELSE [server EXCEPT ![c].at = "closed"]
    BY <1>4, Zenon DEF readCommand
  <2> HIDE DEF good, m
  <2> QED BY <2>1, Zenon
<1>6. m.text = text /\ (~good => ~Fits(l.size) \/ SessionKey(c) # ConfigKey)
  <2>1. text.size = l.size /\ text.size \in Nat
    BY <1>3, LineFacts, Zenon
  <2>2. m = sodEncryptSym(text, ConfigKey, server[c].reading)
    BY Zenon
  <2> HIDE DEF m, text
  <2> QED BY <2>1, <2>2, Decrypts, SMT
<1>7. text.line = l /\ text.n = client[c].n
  BY Zenon
<1> HIDE DEF m, good, text
<1>8. ASSUME good
      PROVE  /\ r \in ServerRecord /\ r.at = "contexts" /\ r.line = l /\ r.n = client[c].n
             /\ r.reading = increment(server[c].reading) /\ r.writing = server[c].writing
  <2>1. increment(server[c].reading) \in Nonce /\ client[c].n \in 0 .. MaxCommands
    BY <1>1, NonceFacts, Zenon DEF ServerRecord, ClientRecord
  <2> HIDE DEF l
  <2> QED BY <1>1, <1>3, <1>6, <1>7, <1>8, <2>1, AllContextsFacts, Zenon DEF ServerRecord, ServerStates, Busy
<1>9. ASSUME ~good
      PROVE  r \in ServerRecord /\ r.at = "closed" /\ r.key = server[c].key
  BY <1>1, <1>9, Zenon DEF ServerRecord, ServerStates
<1> HIDE DEF r
<1>10. server' \in [Clients -> ServerRecord] /\ server'[c] = r /\ \A d \in Clients : d # c => server'[d] = server[d]
  BY <1>1, <1>5, <1>8, <1>9, ServerMoves, Zenon DEF ConsoleTypeInv
<1>11. ConsoleTypeInv'
  BY <1>1, <1>4, <1>10, Zenon DEF ConsoleTypeInv
<1>12. KeyKept /\ \A d \in Clients : d # c => Kept(d)
  BY <1>1, <1>4, <1>10, Zenon DEF KeyKept, Kept
<1>13. ThreadInv(c)'
  BY <1>3, <1>8, <1>9, <1>10, Zenon DEF ThreadInv, Busy
<1>14. SessionInv(c)'
  <2>1. CASE good
    <3>1. Running(c)'
      BY <1>1, <1>3, <1>4, <1>8, <1>10, <2>1, Zenon DEF Running, Empty, Busy, ToClientAgrees, ToServerAgrees
    <3>2. Shown(c)'
      BY <1>1, <1>3, Zenon DEF Shown
    <3> QED BY <1>1, <1>2, <1>3, <3>1, <3>2, Zenon DEF SessionInv
  <2>2. CASE ~good
    <3>1. SessionKey(c)' = SessionKey(c)
      BY <1>1, <1>9, <1>10, <2>2, Zenon DEF SessionKey
    <3>2. Ending(c)'
      BY <1>1, <1>3, <1>4, <1>6, <1>9, <1>10, <2>2, <3>1, Zenon DEF Ending, Empty, Excused
    <3>3. Shown(c)'
      BY <1>1, <1>3, Zenon DEF Shown
    <3> QED BY <1>1, <1>2, <1>3, <3>2, <3>3, Zenon DEF SessionInv
  <2> QED BY <2>1, <2>2, Zenon
<1> QED BY <1>1, <1>11, <1>12, <1>13, <1>14, OthersStay, Zenon

LEMMA closeConnectionConsole ==
    ASSUME ConsoleInv, NEW c \in Clients, closeConnection(c)
    PROVE  ConsoleInv'
<1> DEFINE r == [server[c] EXCEPT !.at = "closed"]
<1>1. /\ server[c].at = "idle" /\ client[c].at \in {"ended", "failed"} /\ server' = [server EXCEPT ![c] = r]
      /\ UNCHANGED <<daemon, client, toServer, toClient, g_key, g_luamutex, g_outputBuffer>>
      /\ ConsoleTypeInv /\ ThreadInv(c) /\ SessionInv(c) /\ server[c] \in ServerRecord
  BY Zenon DEF closeConnection, ConsoleInv, ConsoleTypeInv
<1>2. r \in ServerRecord /\ r.at = "closed" /\ r.key = server[c].key
  BY <1>1, Zenon DEF ServerRecord, ServerStates
<1> HIDE DEF r
<1>3. server' \in [Clients -> ServerRecord] /\ server'[c] = r /\ \A d \in Clients : d # c => server'[d] = server[d]
  BY <1>1, <1>2, ServerMoves, Zenon DEF ConsoleTypeInv
<1>4. ConsoleTypeInv'
  BY <1>1, <1>3, Zenon DEF ConsoleTypeInv
<1>5. KeyKept /\ \A d \in Clients : d # c => Kept(d)
  BY <1>1, <1>3, Zenon DEF KeyKept, Kept
<1>6. ThreadInv(c)'
  BY <1>2, <1>3, Zenon DEF ThreadInv, Busy
<1>7. SessionInv(c)'
  <2>1. Ending(c) /\ c \notin Terminals
    BY <1>1, Stages, Zenon
  <2>2. SessionKey(c)' = SessionKey(c)
    BY <1>1, <1>2, <1>3, Zenon DEF SessionKey
  <2>3. Ending(c)'
    BY <1>1, <1>2, <1>3, <2>1, <2>2, Zenon DEF Ending, Empty, Excused
  <2>4. Shown(c)' /\ (client[c].at \in {"waiting", "failed"} => client[c].line \in Lines /\ client[c].shown = NoText)'
    BY <1>1, Zenon DEF SessionInv, Shown
  <2> QED BY <2>1, <2>3, <2>4, Zenon DEF SessionInv
<1> QED BY <1>1, <1>4, <1>5, <1>6, <1>7, OthersStay, Zenon

\* While its thread is at work a connection waits.
LEMMA StillRunning ==
    ASSUME NEW c \in Clients, SessionInv(c), server[c].at \in Busy, server'[c].at \in Busy,
           server'[c].line = server[c].line, server'[c].n = server[c].n,
           server'[c].reading = server[c].reading, server'[c].writing = server[c].writing,
           UNCHANGED <<client, toServer, toClient>>
    PROVE  SessionInv(c)'
<1>1. Shown(c)' /\ (client[c].at \in {"waiting", "failed"} => client[c].line \in Lines /\ client[c].shown = NoText)'
  BY Zenon DEF SessionInv, Shown
<1>2. CASE c \in Terminals
  <2>1. AtTerminal(c) /\ server[c].at # "accept"
    BY <1>2, Stages, Zenon DEF Busy
  <2>2. AtTerminal(c)'
    BY <2>1, Zenon DEF AtTerminal, Empty
  <2> QED BY <1>1, <1>2, <2>2, Zenon DEF SessionInv
<1>3. CASE c \notin Terminals
  <2>1. Running(c)
    BY <1>3, Stages, Zenon
  <2>2. Running(c)'
    BY <2>1, Zenon DEF Running, Empty, ToClientAgrees, ToServerAgrees
  <2> QED BY <1>1, <1>3, <2>2, Zenon DEF SessionInv
<1> QED BY <1>2, <1>3, Zenon

\* Only the thread that holds g_luamutex has printed.
LEMMA OnePrints ==
    ASSUME ConsoleInv, NEW c \in Clients, g_luamutex \in {c, Nobody}
    PROVE  \A d \in Clients : d # c => server[d].at # "print"
BY ConsoleAssumption, Zenon DEF ConsoleInv, ThreadInv

LEMMA TextPrinted ==
    ASSUME ConsoleTypeInv, NEW c \in Clients, NEW size \in Nat
    PROVE  /\ Text(c, size) \in Printed /\ Text(c, size).of = c /\ Text(c, size).n = server[c].n
           /\ Text(c, size).size = size
<1>1. server[c].n \in 0 .. MaxCommands
  BY Zenon DEF ConsoleTypeInv, ServerRecord
<1>2. server[c].n \in Nat
  BY <1>1, ConsoleAssumption, SMT
<1> QED BY <1>2, Zenon DEF Text, Printed

LEMMA TailTyped ==
    ASSUME NEW S, NEW s \in Seq(S), s # <<>>
    PROVE  Head(s) \in S /\ Tail(s) \in Seq(S)
OBVIOUS

LEMMA executeInContextConsole ==
    ASSUME ConsoleInv, NEW c \in Clients, executeInContext(c)
    PROVE  ConsoleInv'
<1> DEFINE throws == server[c].line.throws = "contexts"
           a == IF Len(server[c].todo) = 1 THEN "global" ELSE server[c].at
           r == IF throws THEN [server[c] EXCEPT !.at = "reply", !.todo = <<>>, !.response = Text(c, ErrorSize)]
                ELSE [server[c] EXCEPT !.at = a, !.todo = Tail(server[c].todo)]
<1>1. /\ server[c].at = "contexts" /\ server[c].todo # <<>>
      /\ UNCHANGED <<daemon, client, toServer, toClient, g_key, g_luamutex, g_outputBuffer>>
      /\ ConsoleTypeInv /\ ThreadInv(c) /\ SessionInv(c) /\ server[c] \in ServerRecord
  BY Zenon DEF executeInContext, ConsoleInv, ConsoleTypeInv
<1>2. server' = [server EXCEPT ![c] = r]
  <2>1. server' = IF throws
                  THEN [server EXCEPT ![c].at = "reply", ![c].todo = <<>>, ![c].response = Text(c, ErrorSize)]
                  ELSE [server EXCEPT ![c].at = a, ![c].todo = Tail(server[c].todo)]
    BY Zenon DEF executeInContext
  <2> HIDE DEF throws, a
  <2> QED BY <2>1, Zenon
<1>3. server[c].line \in Lines
  BY <1>1, Zenon DEF ThreadInv, Busy
<1>4. /\ r \in ServerRecord /\ r.at \in Busy /\ r.at # "print" /\ r.line = server[c].line /\ r.n = server[c].n
      /\ r.reading = server[c].reading /\ r.writing = server[c].writing
      /\ r.at = "reply" => r.response = Text(c, ErrorSize)
  <2>1. CASE throws
    <3>1. Text(c, ErrorSize) \in Printed
      BY <1>1, TextPrinted, ErrorFits, Zenon
    <3>2. <<>> \in Seq(Contexts)
      OBVIOUS
    <3> HIDE DEF throws
    <3> QED BY <1>1, <2>1, <3>1, <3>2, Zenon DEF ServerRecord, ServerStates, Busy
  <2>2. CASE ~throws
    <3>1. Tail(server[c].todo) \in Seq(Contexts)
      BY <1>1, TailTyped, Zenon DEF ServerRecord
    <3>2. a \in {"contexts", "global"}
      BY <1>1, Zenon
    <3> HIDE DEF throws, a
    <3> QED BY <1>1, <2>2, <3>1, <3>2, Zenon DEF ServerRecord, ServerStates, Busy
  <2> QED BY <2>1, <2>2, Zenon
<1> HIDE DEF r
<1>5. server' \in [Clients -> ServerRecord] /\ server'[c] = r /\ \A d \in Clients : d # c => server'[d] = server[d]
  BY <1>1, <1>2, <1>4, ServerMoves, Zenon DEF ConsoleTypeInv
<1>6. ConsoleTypeInv'
  BY <1>1, <1>5, Zenon DEF ConsoleTypeInv
<1>7. KeyKept /\ \A d \in Clients : d # c => Kept(d)
  BY <1>1, <1>5, Zenon DEF KeyKept, Kept
<1>8. ThreadInv(c)'
  <2>1. Text(c, ErrorSize).of = c /\ Text(c, ErrorSize).n = server[c].n /\ Text(c, ErrorSize).size = ErrorSize
    BY <1>1, TextPrinted, ErrorFits, Zenon
  <2> QED BY <1>3, <1>4, <1>5, <2>1, Zenon DEF ThreadInv, Answer
<1>9. SessionInv(c)'
  BY <1>1, <1>4, <1>5, StillRunning, Zenon DEF Busy
<1> QED BY <1>1, <1>6, <1>7, <1>8, <1>9, OthersStay, Zenon

LEMMA executeGlobalConsole ==
    ASSUME ConsoleInv, NEW c \in Clients, executeGlobal(c)
    PROVE  ConsoleInv'
<1> DEFINE throws == server[c].line.throws = "global"
           l == server[c].line
           r == IF throws THEN [server[c] EXCEPT !.at = "reply", !.response = Text(c, ErrorSize)]
                ELSE [server[c] EXCEPT !.at = "print"]
<1>1. /\ server[c].at = "global" /\ g_luamutex = Nobody
      /\ UNCHANGED <<daemon, client, toServer, toClient>>
      /\ ConsoleTypeInv /\ ThreadInv(c) /\ SessionInv(c) /\ server[c] \in ServerRecord
  BY Zenon DEF executeGlobal, ConsoleInv, ConsoleTypeInv
<1>2. /\ server' = [server EXCEPT ![c] = r]
      /\ throws => g_outputBuffer' = NoText /\ g_luamutex' = g_luamutex /\ g_key' = g_key
      /\ ~throws => g_outputBuffer' = Text(c, l.output) /\ g_luamutex' = c
      /\ ~throws => g_key' = IF l.key = NoKey THEN g_key ELSE l.key
  BY Zenon DEF executeGlobal
<1>3. l \in Lines
  BY <1>1, Zenon DEF ThreadInv, Busy
<1>4. l.output \in Nat /\ (l.key # NoKey => l.key \in Keys /\ l.key # ConfigKey)
  BY <1>3, LineFacts, Zenon
<1>5. /\ Text(c, ErrorSize) \in Printed /\ Text(c, ErrorSize).of = c /\ Text(c, ErrorSize).n = server[c].n
      /\ Text(c, ErrorSize).size = ErrorSize /\ Text(c, l.output) \in Printed
  BY <1>1, <1>4, TextPrinted, ErrorFits, Zenon
<1>6. /\ r \in ServerRecord /\ r.line = l /\ r.n = server[c].n
      /\ r.reading = server[c].reading /\ r.writing = server[c].writing
      /\ throws => r.at = "reply" /\ r.response = Text(c, ErrorSize)
      /\ ~throws => r.at = "print"
  <2> HIDE DEF throws
  <2> QED BY <1>1, <1>5, Zenon DEF ServerRecord, ServerStates, Busy
<1> HIDE DEF r, throws
<1>7. server' \in [Clients -> ServerRecord] /\ server'[c] = r /\ \A d \in Clients : d # c => server'[d] = server[d]
  BY <1>1, <1>2, <1>6, ServerMoves, Zenon DEF ConsoleTypeInv
<1>8. KeyKept /\ g_key' \in Keys
  BY <1>1, <1>2, <1>4, Zenon DEF KeyKept, ConsoleTypeInv
<1>9. g_luamutex' \in Clients \union {Nobody} /\ g_outputBuffer' \in Printed
  BY <1>1, <1>2, <1>5, NoTextPrinted, Zenon
<1>10. ConsoleTypeInv'
  BY <1>1, <1>7, <1>8, <1>9, Zenon DEF ConsoleTypeInv
<1>11. \A d \in Clients : d # c => Kept(d) /\ server[d].at # "print"
  BY <1>1, <1>7, OnePrints, Zenon DEF Kept
<1>12. ThreadInv(c)'
  <2>1. CASE throws
    BY <1>3, <1>5, <1>6, <1>7, <2>1, Zenon DEF ThreadInv, Answer
  <2>2. CASE ~throws
    <3>1. server'[c].at = "print" /\ server'[c].line = l /\ l \in Lines /\ g_luamutex' = c
      BY <1>2, <1>3, <1>6, <1>7, <2>2, Zenon
    <3>2. g_outputBuffer' = Text(c, server[c].line.output)'
      BY <1>2, <1>6, <1>7, <2>2, Zenon DEF Text
    <3> QED BY <3>1, <3>2, Zenon DEF ThreadInv
  <2> QED BY <2>1, <2>2, Zenon
<1>13. SessionInv(c)'
  <2>1. server'[c].at \in Busy /\ server[c].at \in Busy
    BY <1>1, <1>6, <1>7, Zenon DEF Busy
  <2> QED BY <1>1, <1>6, <1>7, <2>1, StillRunning, Zenon
<1> QED BY <1>8, <1>10, <1>11, <1>12, <1>13, OthersStay, Zenon

LEMMA takeOutputConsole ==
    ASSUME ConsoleInv, NEW c \in Clients, takeOutput(c)
    PROVE  ConsoleInv'
<1> DEFINE r == [server[c] EXCEPT !.at = "reply", !.response = g_outputBuffer]
<1>1. /\ server[c].at = "print" /\ g_luamutex' = Nobody /\ server' = [server EXCEPT ![c] = r]
      /\ UNCHANGED <<daemon, client, toServer, toClient, g_key, g_outputBuffer>>
      /\ ConsoleTypeInv /\ ThreadInv(c) /\ SessionInv(c) /\ server[c] \in ServerRecord
  BY Zenon DEF takeOutput, ConsoleInv, ConsoleTypeInv
<1>2. server[c].line \in Lines /\ g_luamutex = c /\ g_outputBuffer = Text(c, server[c].line.output)
  BY <1>1, Zenon DEF ThreadInv, Busy
<1>3. /\ g_outputBuffer \in Printed /\ g_outputBuffer.of = c /\ g_outputBuffer.n = server[c].n
      /\ g_outputBuffer.size = server[c].line.output
  BY <1>1, <1>2, TextPrinted, LineFacts, Zenon
<1>4. /\ r \in ServerRecord /\ r.at = "reply" /\ r.line = server[c].line /\ r.n = server[c].n
      /\ r.reading = server[c].reading /\ r.writing = server[c].writing /\ r.response = g_outputBuffer
  BY <1>1, <1>3, Zenon DEF ServerRecord, ServerStates, Busy
<1> HIDE DEF r
<1>5. server' \in [Clients -> ServerRecord] /\ server'[c] = r /\ \A d \in Clients : d # c => server'[d] = server[d]
  BY <1>1, <1>4, ServerMoves, Zenon DEF ConsoleTypeInv
<1>6. ConsoleTypeInv'
  BY <1>1, <1>5, Zenon DEF ConsoleTypeInv
<1>7. KeyKept /\ \A d \in Clients : d # c => Kept(d) /\ server[d].at # "print"
  BY <1>1, <1>2, <1>5, OnePrints, Zenon DEF KeyKept, Kept
<1>8. ThreadInv(c)'
  BY <1>2, <1>3, <1>4, <1>5, Zenon DEF ThreadInv, Answer
<1>9. SessionInv(c)'
  <2>1. server'[c].at \in Busy /\ server[c].at \in Busy
    BY <1>1, <1>4, <1>5, Zenon DEF Busy
  <2> QED BY <1>1, <1>4, <1>5, <2>1, StillRunning, Zenon
<1> QED BY <1>6, <1>7, <1>8, <1>9, OthersStay, Zenon

LEMMA sendResponseConsole ==
    ASSUME ConsoleInv, NEW c \in Clients, sendResponse(c)
    PROVE  ConsoleInv'
<1> DEFINE text == server[c].response
           key == SessionKey(c)
           m == sodEncryptSym(text, key, server[c].writing)
           r == [server[c] EXCEPT !.at = "idle", !.writing = increment(server[c].writing), !.response = NoText]
<1>1. /\ server[c].at = "reply" /\ c \notin Terminals
      /\ toClient' = [toClient EXCEPT ![c] = Append(toClient[c], m)]
      /\ UNCHANGED <<daemon, client, toServer, g_key, g_luamutex, g_outputBuffer>>
      /\ ConsoleTypeInv /\ ThreadInv(c) /\ SessionInv(c) /\ server[c] \in ServerRecord
  BY Zenon DEF sendResponse, ConsoleInv, ConsoleTypeInv
<1>2. server' = [server EXCEPT ![c] = r]
  BY Zenon DEF sendResponse
<1>3. /\ client[c].at = "waiting" /\ Empty(c) /\ ToClientAgrees(c) /\ ToServerAgrees(c)
      /\ server[c].line = client[c].line /\ server[c].n = client[c].n
  BY <1>1, Stages, Zenon DEF Running, Busy
<1>4. text \in Printed /\ text.of = c /\ text.n = client[c].n /\ text.size \in {client[c].line.output, ErrorSize}
  BY <1>1, <1>3, Zenon DEF ThreadInv, Answer, ServerRecord
<1>5. key \in Keys
  BY <1>1, Zenon DEF SessionKey, ConsoleTypeInv, ServerRecord
<1>6. /\ r \in ServerRecord /\ r.at = "idle" /\ r.writing = increment(server[c].writing) /\ r.reading = server[c].reading
      /\ r.key = server[c].key
  <2>1. increment(server[c].writing) \in Nonce
    BY <1>1, NonceFacts, Zenon DEF ServerRecord
  <2> QED BY <1>1, <2>1, NoTextPrinted, Zenon DEF ServerRecord, ServerStates
<1> HIDE DEF r
<1>7. server' \in [Clients -> ServerRecord] /\ server'[c] = r /\ \A d \in Clients : d # c => server'[d] = server[d]
  BY <1>1, <1>2, <1>6, ServerMoves, Zenon DEF ConsoleTypeInv
<1>8. /\ toClient' = [d \in Clients |-> toClient'[d]] /\ toClient'[c] = <<m>>
      /\ \A d \in Clients : d # c => toClient'[d] = toClient[d]
  <2> HIDE DEF m
  <2> QED BY <1>1, <1>3, SentToClient, Zenon DEF Empty
<1>9. ConsoleTypeInv'
  BY <1>1, <1>7, <1>8, Zenon DEF ConsoleTypeInv
<1>10. KeyKept /\ \A d \in Clients : d # c => Kept(d)
  BY <1>1, <1>7, <1>8, Zenon DEF KeyKept, Kept
<1>11. ThreadInv(c)'
  BY <1>6, <1>7, Zenon DEF ThreadInv, Busy
<1>12. SessionInv(c)'
  <2>1. SessionKey(c)' = key
    BY <1>1, <1>6, <1>7, Zenon DEF SessionKey
  <2>2. m = sodEncryptSym(text, key, client[c].reading)
    BY <1>3, Zenon DEF ToClientAgrees
  <2>3. ToServerAgrees(c)' /\ server'[c].writing = increment(client'[c].reading)
    BY <1>1, <1>3, <1>6, <1>7, Zenon DEF ToServerAgrees, ToClientAgrees
  <2> HIDE DEF m, text, key
  <2>4. \E t \in Printed, k \in Keys :
          /\ toClient'[c] = <<sodEncryptSym(t, k, client'[c].reading)>>
          /\ t.of = c /\ t.n = client'[c].n /\ t.size \in {client'[c].line.output, ErrorSize}
          /\ k # ConfigKey => (SessionKey(c) # ConfigKey)'
    BY <1>1, <1>4, <1>5, <1>8, <2>1, <2>2, Zenon
  <2>5. Answering(c)'
    BY <1>1, <1>3, <1>6, <1>7, <2>3, <2>4, Zenon DEF Answering, Empty
  <2>6. Shown(c)' /\ (client[c].at \in {"waiting", "failed"} => client[c].line \in Lines /\ client[c].shown = NoText)'
    BY <1>1, Zenon DEF SessionInv, Shown
  <2> QED BY <1>1, <2>5, <2>6, Zenon DEF SessionInv
<1> QED BY <1>1, <1>9, <1>10, <1>11, <1>12, OthersStay, Zenon

LEMMA doConsoleShowConsole ==
    ASSUME ConsoleInv, NEW c \in Clients, doConsoleShow(c)
    PROVE  ConsoleInv'
<1> DEFINE text == server[c].response
           r == [client[c] EXCEPT !.at = "ready", !.shown = text]
           s == [server[c] EXCEPT !.at = "accept", !.response = NoText]
<1>1. /\ c \in Terminals /\ server[c].at = "reply"
      /\ client' = [client EXCEPT ![c] = r] /\ server' = [server EXCEPT ![c] = s]
      /\ UNCHANGED <<daemon, toServer, toClient, g_key, g_luamutex, g_outputBuffer>>
      /\ ConsoleTypeInv /\ ThreadInv(c) /\ SessionInv(c) /\ client[c] \in ClientRecord /\ server[c] \in ServerRecord
  BY Zenon DEF doConsoleShow, ConsoleInv, ConsoleTypeInv
<1>2. /\ client[c].at = "waiting" /\ Empty(c) /\ server[c].line = client[c].line /\ server[c].n = client[c].n
      /\ client[c].line \in Lines
  BY <1>1, Zenon DEF SessionInv, AtTerminal
<1>3. text \in Printed /\ text.of = c /\ text.n = client[c].n /\ text.size \in {client[c].line.output, ErrorSize}
  BY <1>1, <1>2, Zenon DEF ThreadInv, Answer, ServerRecord
<1> HIDE DEF text
<1>4. r \in ClientRecord /\ r.at = "ready" /\ r.n = client[c].n /\ r.line = client[c].line /\ r.shown = text
  BY <1>1, <1>3, Zenon DEF ClientRecord, ClientStates
<1>5. s \in ServerRecord /\ s.at = "accept" /\ s.n = server[c].n
  BY <1>1, NoTextPrinted, Zenon DEF ServerRecord, ServerStates
<1> HIDE DEF r, s
<1>6. client' \in [Clients -> ClientRecord] /\ client'[c] = r /\ \A d \in Clients : d # c => client'[d] = client[d]
  BY <1>1, <1>4, ClientMoves, Zenon DEF ConsoleTypeInv
<1>7. server' \in [Clients -> ServerRecord] /\ server'[c] = s /\ \A d \in Clients : d # c => server'[d] = server[d]
  BY <1>1, <1>5, ServerMoves, Zenon DEF ConsoleTypeInv
<1>8. ConsoleTypeInv'
  BY <1>1, <1>6, <1>7, Zenon DEF ConsoleTypeInv
<1>9. KeyKept /\ \A d \in Clients : d # c => Kept(d)
  BY <1>1, <1>6, <1>7, Zenon DEF KeyKept, Kept
<1>10. ThreadInv(c)'
  BY <1>5, <1>7, Zenon DEF ThreadInv, Busy
<1>11. SessionInv(c)'
  <2>1. AtTerminal(c)'
    BY <1>1, <1>2, <1>4, <1>5, <1>6, <1>7, Zenon DEF AtTerminal, Empty
  <2>2. Shown(c)'
    BY <1>2, <1>3, <1>4, <1>6, Zenon DEF Shown
  <2> QED BY <1>1, <1>4, <1>6, <2>1, <2>2, Zenon DEF SessionInv
<1> QED BY <1>1, <1>8, <1>9, <1>10, <1>11, OthersStay, Zenon

-----------------------------------------------------------------------------
(***************************************************************************)
(* All steps.                                                              *)
(***************************************************************************)

IInv == ConsoleInv /\ DaemonInv

LEMMA DaemonSame ==
    ASSUME DaemonInv, UNCHANGED <<daemonOnly, mutex>>
    PROVE  DaemonInv'
<1>1. UNCHANGED <<config, now, tasks, manager, interrupted, queue, lua_pool, job, requests, mutex>>
  BY Zenon DEF daemonOnly, scheduleVars
<1>2. DaemonTypeInv'
  BY <1>1, Zenon DEF DaemonInv, DaemonTypeInv
<1>3. PoolInv' /\ ScheduleInv'
  BY <1>1, PoolSame, ScheduleStays, Zenon DEF DaemonInv
<1>4. JobInv'
  BY <1>1, Zenon DEF DaemonInv, JobInv
<1> QED BY <1>2, <1>3, <1>4, Zenon DEF DaemonInv

\* The lock that the console takes and releases is that of the next context.
LEMMA ConsoleLocks ==
    ASSUME IInv, NEW c \in Clients, lockForConsole(c) \/ executeInContext(c), UNCHANGED daemonOnly
    PROVE  DaemonInv'
<1> DEFINE x == Head(server[c].todo)
<1>1. server[c].todo \in Seq(Contexts) /\ server[c].todo # <<>>
  BY Zenon DEF IInv, ConsoleInv, ConsoleTypeInv, ServerRecord, lockForConsole, executeInContext
<1>2. x \in Contexts
  BY <1>1, TailTyped, Zenon
<1>3. \E h \in {c, Nobody} : mutex' = [mutex EXCEPT ![x] = h]
  BY Zenon DEF lockForConsole, executeInContext
<1>4. mutex[x] \in {c, Nobody}
  BY Zenon DEF lockForConsole, executeInContext
<1>5. UNCHANGED <<config, now, tasks, manager, interrupted, queue, lua_pool, job, requests>>
  BY Zenon DEF daemonOnly, scheduleVars
<1> HIDE DEF x
<1>6. PoolInv'
  BY <1>2, <1>3, <1>4, <1>5, PoolConsole, Zenon DEF IInv, DaemonInv, DaemonTypeInv
<1>7. DaemonTypeInv'
  BY <1>5, Zenon DEF IInv, DaemonInv, DaemonTypeInv
<1>8. ScheduleInv'
  BY <1>5, ScheduleStays, Zenon DEF IInv, DaemonInv
<1>9. JobInv'
  BY <1>5, Zenon DEF IInv, DaemonInv, JobInv
<1> QED BY <1>6, <1>7, <1>8, <1>9, Zenon DEF DaemonInv

LEMMA ClientStepIInv ==
    ASSUME IInv, NEW c \in Clients, ClientStep(c), UNCHANGED daemonOnly
    PROVE  IInv'
<1>1. ConsoleInv'
  BY doClientConnectConsole, doClientMergeConsole, doClientShowConsole, ClientLeaves, doClientSendConsole,
     doConsoleReadConsole, Zenon DEF ClientStep, IInv
<1>2. mutex' = mutex
  BY Zenon DEF ClientStep, doClientConnect, doClientMerge, doClientShow, doClientClosed, doClientQuit, doClientSend,
               doConsoleRead, clientOnly
<1>3. DaemonInv'
  BY <1>2, DaemonSame, Zenon DEF IInv
<1> QED BY <1>1, <1>3, Zenon DEF IInv

LEMMA ServerStepIInv ==
    ASSUME IInv, NEW c \in Clients, ServerStep(c), UNCHANGED daemonOnly
    PROVE  IInv'
<1>1. CASE lockForConsole(c)
  <2>1. ConsoleInv'
    BY <1>1, ConsoleSame, Zenon DEF IInv, lockForConsole
  <2> QED BY <1>1, <2>1, ConsoleLocks, Zenon DEF IInv
<1>2. CASE executeInContext(c)
  BY <1>2, ConsoleLocks, executeInContextConsole, Zenon DEF IInv
<1>3. CASE \/ controlThread(c) \/ readCommand(c) \/ closeConnection(c) \/ executeGlobal(c) \/ takeOutput(c)
           \/ sendResponse(c) \/ doConsoleShow(c)
  <2>1. ConsoleInv'
    BY <1>3, controlThreadConsole, readCommandConsole, closeConnectionConsole, executeGlobalConsole, takeOutputConsole,
       sendResponseConsole, doConsoleShowConsole, Zenon DEF IInv
  <2>2. mutex' = mutex
    BY <1>3, Zenon DEF controlThread, readCommand, closeConnection, executeGlobal, takeOutput, sendResponse, doConsoleShow
  <2> QED BY <2>1, <2>2, DaemonSame, Zenon DEF IInv
<1> QED BY <1>1, <1>2, <1>3, Zenon DEF ServerStep

\* A step of a caller, of the scheduler or of the clock leaves the console alone.
LEMMA DaemonStepIInv ==
    ASSUME IInv,
           \/ \E w \in config.workers, cmd \in {"report", "custom"} : request(w, cmd)
           \/ \E w \in Workers : CallerStep(w)
           \/ \E th \in Threads : ThreadStep(th)
           \/ ManagerStep \/ Tick
    PROVE  IInv'
<1>1. DaemonInv'
  <2>1. ASSUME NEW w \in config.workers, NEW cmd \in {"report", "custom"}, request(w, cmd) PROVE DaemonInv'
    <3>1. w \in Workers
      BY InstallationFacts, Zenon DEF IInv, DaemonInv, DaemonTypeInv
    <3> QED BY <2>1, <3>1, requestDaemon, Zenon DEF IInv
  <2>2. ASSUME NEW w \in Callers, CallerStep(w) PROVE DaemonInv'
    BY <2>2, CallerStepDaemon, Zenon DEF IInv
  <2>3. ASSUME NEW th \in Threads, pop(th) \/ again(th) PROVE DaemonInv'
    BY <2>3, popDaemon, againDaemon, Zenon DEF IInv
  <2>4. ASSUME ManagerStep \/ Tick PROVE DaemonInv'
    BY <2>4, lookDaemon, wakeDaemon, manage_tasksDaemon, TickDaemon, Zenon DEF IInv, ManagerStep
  <2> QED BY <2>1, <2>2, <2>3, <2>4, Actors, Zenon DEF ThreadStep
<1>2. UNCHANGED <<daemon, client, server, toServer, toClient, g_key, g_luamutex, g_outputBuffer>>
  <2>1. ASSUME NEW w, CallerStep(w)
        PROVE  UNCHANGED <<daemon, client, server, toServer, toClient, g_key, g_luamutex, g_outputBuffer>>
    BY <2>1, Zenon DEF CallerStep, getPoolMember, lockContext, luaReturns, luaOnly
  <2>2. ASSUME NEW w, NEW cmd, request(w, cmd) \/ pop(w) \/ again(w) \/ ManagerStep \/ Tick PROVE UNCHANGED consoleVars
    BY <2>2, Zenon DEF request, pop, again, ManagerStep, look, wake, manage_tasks, Tick
  <2> QED BY <2>1, <2>2, Zenon DEF ThreadStep, consoleVars
<1>3. ConsoleInv'
  BY <1>2, ConsoleSame, Zenon DEF IInv
<1> QED BY <1>1, <1>3, Zenon DEF IInv

LEMMA NextIInv == ASSUME IInv, [Next]_vars PROVE IInv'
<1>1. ASSUME NEW c \in config.clients, ClientStep(c) \/ ServerStep(c), UNCHANGED daemonOnly PROVE IInv'
  <2>1. c \in Clients
    BY InstallationFacts, Zenon DEF IInv, DaemonInv, DaemonTypeInv
  <2> QED BY <1>1, <2>1, ClientStepIInv, ServerStepIInv, Zenon
<1>2. ASSUME UNCHANGED vars PROVE IInv'
  <2>1. ConsoleInv'
    BY <1>2, ConsoleSame, Zenon DEF vars, consoleVars, IInv
  <2>2. DaemonInv'
    BY <1>2, DaemonSame, Zenon DEF vars, consoleVars, daemonOnly, IInv
  <2> QED BY <2>1, <2>2, Zenon DEF IInv
<1> QED BY <1>1, <1>2, DaemonStepIInv, Zenon DEF Next, ConsoleServer

-----------------------------------------------------------------------------
(***************************************************************************)
(* The initial states.                                                     *)
(***************************************************************************)

LEMMA InitConsole == ASSUME Init PROVE ConsoleInv
<1>1. ConsoleInit
  BY Zenon DEF Init
<1>2. 0 \in 0 .. MaxCommands
  BY ConsoleAssumption, SMT
<1>3. <<>> \in Seq(Contexts)
  OBVIOUS
<1>4. ASSUME NEW c \in Clients
      PROVE  /\ client[c] \in ClientRecord /\ client[c].at = IF c \in Terminals THEN "ready" ELSE "start"
             /\ client[c].n = 0 /\ client[c].shown = NoText
  <2> DEFINE a == IF c \in Terminals THEN "ready" ELSE "start"
             r == [at |-> a, ours |-> NoNonce, reading |-> NoNonce, writing |-> NoNonce,
                   line |-> Nobody, n |-> 0, shown |-> NoText]
  <2>1. client[c] = r
    BY <1>1, Zenon DEF ConsoleInit
  <2>2. a \in ClientStates
    BY Zenon DEF ClientStates
  <2> HIDE DEF a
  <2>3. r.at = a /\ r.n = 0 /\ r.shown = NoText
    BY Zenon
  <2>4. r \in ClientRecord
    BY <1>2, <2>2, NonceFacts, NoTextPrinted, Zenon DEF ClientRecord
  <2> HIDE DEF r
  <2> QED BY <2>1, <2>3, <2>4, Zenon DEF a
<1>5. ASSUME NEW c \in Clients
      PROVE  server[c] \in ServerRecord /\ server[c].at = "accept" /\ server[c].n = 0
  <2> DEFINE r == [at |-> "accept", reading |-> NoNonce, writing |-> NoNonce, key |-> ConfigKey,
                   line |-> Nobody, n |-> 0, todo |-> <<>>, response |-> NoText]
  <2>1. server[c] = r
    BY <1>1, Zenon DEF ConsoleInit
  <2>2. ConfigKey \in Keys
    BY ConsoleAssumption, Zenon
  <2>3. r.at = "accept" /\ r.n = 0
    BY Zenon
  <2>4. r \in ServerRecord
    BY <1>2, <1>3, <2>2, NonceFacts, NoTextPrinted, Zenon DEF ServerRecord, ServerStates
  <2> HIDE DEF r
  <2> QED BY <2>1, <2>3, <2>4, Zenon
<1>6. ConsoleTypeInv
  <2>1. client = [c \in Clients |-> client[c]] /\ server = [c \in Clients |-> server[c]]
    BY <1>1, Zenon DEF ConsoleInit
  <2>2. client \in [Clients -> ClientRecord] /\ server \in [Clients -> ServerRecord]
    BY <1>4, <1>5, <2>1, Zenon
  <2>3. toServer = [c \in Clients |-> toServer[c]] /\ toClient = [c \in Clients |-> toClient[c]]
    BY <1>1, Zenon DEF ConsoleInit
  <2>4. /\ daemon \in {"wforce", "trackalert"} /\ g_key \in Keys /\ g_luamutex \in Clients \union {Nobody}
        /\ g_outputBuffer \in Printed
    BY <1>1, ConsoleAssumption, NoTextPrinted, Zenon DEF ConsoleInit
  <2> QED BY <2>2, <2>3, <2>4, Zenon DEF ConsoleTypeInv
<1>7. ASSUME NEW c \in Clients PROVE ThreadInv(c) /\ SessionInv(c)
  <2>1. ThreadInv(c)
    BY <1>5, Zenon DEF ThreadInv, Busy
  <2>2. Empty(c)
    BY <1>1, Zenon DEF ConsoleInit, Empty
  <2>3. IF c \in Terminals THEN AtTerminal(c) ELSE Greeting(c)
    BY <1>4, <1>5, <2>2, Zenon DEF AtTerminal, Greeting
  <2>4. Shown(c)
    BY <1>4, Zenon DEF Shown
  <2> QED BY <1>4, <2>1, <2>3, <2>4, Zenon DEF SessionInv
<1> QED BY <1>6, <1>7, Zenon DEF ConsoleInv

LEMMA InitDaemon == ASSUME Init PROVE DaemonInv
<1>1. \A w \in Callers : job[w] = Idle
  BY Zenon DEF Init
<1>2. Idle.at = "idle" /\ Idle.fn = "none" /\ Idle.ctx = "none"
  BY Zenon DEF Idle
<1>3. config \in Installations /\ config.tasks \subseteq Tasks
  BY InstallationFacts, Zenon DEF Init
<1>4. IsFiniteSet(config.tasks) /\ \A t \in config.tasks : period[t] \in Nat
  BY <1>3, TrackalertAssumption, FS_Subset, Zenon
<1>5. tasks = {<<period[t], t>> : t \in config.tasks}
  BY Zenon DEF Init
<1>6. DaemonTypeInv
  <2>1. now \in 0 .. MaxTime /\ requests \in 0 .. MaxRequests
    <3>1. now = 0 /\ requests = 0 /\ MaxTime \in Nat /\ MaxRequests \in Nat
      BY TrackalertAssumption, Zenon DEF Init
    <3> QED BY <3>1, SMT
  <2>2. tasks \subseteq Nat \X config.tasks
    <3> SUFFICES ASSUME NEW t \in config.tasks PROVE <<period[t], t>> \in Nat \X config.tasks
      BY <1>5, Zenon
    <3> QED BY <1>4, Zenon
  <2>3. IsFiniteSet(tasks)
    <3> DEFINE g == [t \in config.tasks |-> <<period[t], t>>]
    <3>1. g \in [config.tasks -> tasks] /\ \A x \in tasks : \E t \in config.tasks : g[t] = x
      BY <1>5, Zenon
    <3>2. g \in Surjection(config.tasks, tasks)
      BY <3>1, Zenon DEF Surjection
    <3> QED BY <1>4, <3>2, FS_Surjection, Zenon
  <2>4. manager \in [at : {"look", "sleep", "manage"}, until : Nat]
    <3>1. manager = [at |-> "look", until |-> 0] /\ 0 \in Nat
      BY SMT DEF Init
    <3> QED BY <3>1, Zenon
  <2>5. interrupted \in BOOLEAN
    BY Zenon DEF Init
  <2>6. queue \in Seq(config.tasks)
    <3>1. queue = <<>>
      BY Zenon DEF Init
    <3> QED BY <3>1
  <2>7. job \in [Callers -> JobRecord]
    BY IdleRecord, Zenon DEF Init
  <2> QED BY <1>3, <2>1, <2>2, <2>3, <2>4, <2>5, <2>6, <2>7, Zenon DEF DaemonTypeInv
<1>7. PoolInv
  <2>1. lua_pool = AllContexts /\ mutex = [c \in Contexts |-> Nobody]
    BY Zenon DEF Init
  <2>2. PoolType
    BY <2>1, AllContextsFacts, Zenon DEF PoolType
  <2>3. NoneLost
    BY <2>1, AllContextsFacts, Zenon DEF NoneLost, Free
  <2>4. Tidy /\ NotShared /\ RunsLocked
    BY <1>1, <1>2, Zenon DEF Tidy, NotShared, RunsLocked
  <2>5. NotFree
    BY <1>1, <1>2, <2>2, FreeContexts, Actors, Zenon DEF NotFree
  <2> QED BY <2>2, <2>3, <2>4, <2>5, Zenon DEF PoolInv
<1>8. JobInv
  BY <1>1, <1>2, Actors, Zenon DEF JobInv
<1>9. ScheduleInv
  <2> SUFFICES ASSUME NEW t \in config.tasks
               PROVE  One(Entries(t)) /\ InQueue(t) = {} /\ Runners(t) = {}
    BY Zenon DEF ScheduleInv
  <2>1. \A x : x \in Entries(t) <=> x = <<period[t], t>>
    <3>1. <<period[t], t>> \in Entries(t)
      <4>1. <<period[t], t>>[2] = t
        BY Zenon
      <4>2. <<period[t], t>> \in tasks
        BY <1>5, Zenon
      <4> QED BY <4>1, <4>2, Zenon DEF Entries
    <3>2. ASSUME NEW x \in Entries(t) PROVE x = <<period[t], t>>
      <4>1. x[2] = t /\ \E u \in config.tasks : x = <<period[u], u>>
        BY <1>5, Zenon DEF Entries
      <4>2. PICK u \in config.tasks : x = <<period[u], u>>
        BY <4>1, Zenon
      <4>3. <<period[u], u>>[2] = u
        BY Zenon
      <4> QED BY <4>1, <4>2, <4>3, Zenon
    <3> QED BY <3>1, <3>2, Zenon
  <2>2. Entries(t) = {<<period[t], t>>}
    BY <2>1, Zenon
  <2>3. InQueue(t) = {}
    <3>1. queue = <<>>
      BY Zenon DEF Init
    <3> QED BY <3>1 DEF InQueue
  <2>4. t # "none"
    BY <1>6, ConfiguredTasks, Zenon
  <2>5. Runners(t) = {}
    BY <1>1, <1>2, <2>4, Actors, Zenon DEF Runners
  <2> QED BY <2>2, <2>3, <2>5, Zenon DEF One
<1> QED BY <1>6, <1>7, <1>8, <1>9, Zenon DEF DaemonInv

\* The inductive invariant.
THEOREM IInvHolds == Spec => []IInv
<1>1. Init => IInv
  BY InitConsole, InitDaemon, Zenon DEF IInv
<1>2. IInv /\ [Next]_vars => IInv'
  BY NextIInv, Zenon
<1> QED BY <1>1, <1>2, PTL DEF Spec

-----------------------------------------------------------------------------
(***************************************************************************)
(* What follows from it.                                                   *)
(***************************************************************************)

\* At most one message is on its way in each direction of a connection.
LEMMA OneMessage ==
    ASSUME NEW c \in Clients, SessionInv(c)
    PROVE  Len(toServer[c]) <= 1 /\ Len(toClient[c]) <= 1
<1>1. /\ toServer[c] = <<>> \/ \E m : toServer[c] = <<m>>
      /\ toClient[c] = <<>> \/ \E m : toClient[c] = <<m>>
  BY Zenon DEF SessionInv, AtTerminal, Greeting, Resting, Asking, Running, Answering, Ending, Empty
<1>2. Len(<<>>) <= 1 /\ \A m : Len(<<m>>) <= 1
  OBVIOUS
<1> QED BY <1>1, <1>2, Zenon

LEMMA TypesFollow == ASSUME IInv PROVE TypeOK
<1>1. ASSUME NEW c \in Clients
      PROVE  /\ client[c].at \in {"start", "hello", "ready", "waiting", "ended", "failed"}
             /\ client[c].n \in 0 .. MaxCommands
             /\ server[c].at \in {"accept", "idle", "contexts", "global", "print", "reply", "closed"}
             /\ {client[c].reading, client[c].writing, server[c].reading, server[c].writing}
                  \subseteq (0 .. CounterSize - 1) \X Nat
             /\ server[c].todo \in Seq(Contexts)
             /\ Len(toServer[c]) <= 1 /\ Len(toClient[c]) <= 1
             /\ server[c].key \in Keys
  <2>1. client[c] \in ClientRecord /\ server[c] \in ServerRecord /\ SessionInv(c)
    BY Zenon DEF IInv, ConsoleInv, ConsoleTypeInv
  <2>2. client[c].at \in ClientStates /\ server[c].at \in ServerStates
    BY <2>1, Zenon DEF ClientRecord, ServerRecord
  <2>3. client[c].reading \in Nonce /\ client[c].writing \in Nonce /\ server[c].reading \in Nonce /\ server[c].writing \in Nonce
    BY <2>1, Zenon DEF ClientRecord, ServerRecord
  <2>4. client[c].n \in 0 .. MaxCommands /\ server[c].todo \in Seq(Contexts) /\ server[c].key \in Keys
    BY <2>1, Zenon DEF ClientRecord, ServerRecord
  <2>5. server[c].at \in {"accept", "idle", "contexts", "global", "print", "reply", "closed"}
    BY <2>2, Zenon DEF ServerStates, Busy
  <2> QED BY <2>1, <2>2, <2>3, <2>4, <2>5, OneMessage, Zenon DEF ClientStates, Nonce
<1>2. ConsoleTypeOK
  <2>1. daemon \in {"wforce", "trackalert"} /\ g_key \in Keys /\ g_luamutex \in Clients \union {Nobody}
    BY Zenon DEF IInv, ConsoleInv, ConsoleTypeInv
  <2> QED BY <1>1, <2>1, Zenon DEF ConsoleTypeOK
<1>3. ASSUME NEW w \in Callers
      PROVE  /\ job[w].at \in {"idle", "get", "lock", "run", "again"}
             /\ job[w].fn \in Tasks \union {"none", "report", "custom"}
             /\ job[w].ctx # "none" <=> job[w].at \in {"lock", "run"}
  BY Zenon DEF IInv, DaemonInv, DaemonTypeInv, JobRecord, PoolInv, Tidy
<1>4. manager.at \in {"look", "sleep", "manage"} /\ manager.until \in Nat
  BY Zenon DEF IInv, DaemonInv, DaemonTypeInv
<1>5. /\ config \in Installations /\ now \in 0 .. MaxTime /\ requests \in 0 .. MaxRequests
      /\ tasks \subseteq Nat \X config.tasks /\ interrupted \in BOOLEAN /\ queue \in Seq(config.tasks)
      /\ lua_pool \in Seq(Contexts) /\ mutex \in [Contexts -> Clients \union Callers \union {Nobody}]
  BY Zenon DEF IInv, DaemonInv, DaemonTypeInv, PoolInv, PoolType
<1> QED BY <1>2, <1>3, <1>4, <1>5, Zenon DEF TypeOK

\* With a context per web worker and scheduler thread, whoever calls Lua in
\* trackalert finds a context in the pool, and is alone in it: no other caller
\* has it, and the console, which runs its commands in every context, waits for
\* its lock.
THEOREM DaemonContexts == Spec => []ContextForEveryThread
<1>1. IInv => ContextForEveryThread
  <2> SUFFICES ASSUME IInv PROVE ContextForEveryThread
    BY Zenon
  <2>1. \A w \in Callers : job[w].at = "get" => lua_pool # <<>>
    BY PoolNotEmpty, Zenon DEF IInv, DaemonInv, PoolInv, Tidy
  <2>2. \A w \in Callers : job[w].at = "run" => mutex[job[w].ctx] = w
    BY Zenon DEF IInv, DaemonInv, PoolInv, RunsLocked
  <2>3. \A v, w \in Callers : v # w /\ job[v].ctx # "none" => job[v].ctx # job[w].ctx
    BY Zenon DEF IInv, DaemonInv, PoolInv, NotShared
  <2> QED BY <2>1, <2>2, <2>3, TypesFollow, Zenon DEF ContextForEveryThread
<1> QED BY <1>1, IInvHolds, PTL

LEMMA CountOne == ASSUME NEW S, One(S) PROVE Cardinality(S) = 1
BY FS_Singleton, Zenon DEF One

\* The scheduler never loses or doubles a background function, whatever the
\* manager, the threads of the pool and the functions that schedule themselves
\* again do in between: a cron function always has one next time, an interval
\* function is waiting, queued or running, and only one of them.
THEOREM DaemonSchedules == Spec => []TasksStayScheduled
<1>1. IInv => TasksStayScheduled
  <2> SUFFICES ASSUME IInv, NEW t \in config.tasks
               PROVE  IF t \in Crons THEN Cardinality({e \in tasks : e[2] = t}) = 1 ELSE Places(t) = 1
    BY Zenon DEF TasksStayScheduled
  <2>1. Cardinality({}) = 0
    BY FS_EmptySet, Zenon
  <2> DEFINE a == Cardinality(Entries(t))
             b == Cardinality(InQueue(t))
             d == Cardinality(Runners(t))
  <2>2. CASE t \in Crons
    BY <2>2, CountOne, Zenon DEF IInv, DaemonInv, ScheduleInv, Entries
  <2>3. CASE t \notin Crons
    <3>1. Places(t) = a + b + d
      BY Zenon DEF Places, Entries, InQueue, Runners
    <3>2. \/ a = 1 /\ b = 0 /\ d = 0
          \/ a = 0 /\ b = 1 /\ d = 0
          \/ a = 0 /\ b = 0 /\ d = 1
      BY <2>1, <2>3, CountOne, Zenon DEF IInv, DaemonInv, ScheduleInv
    <3> HIDE DEF a, b, d
    <3> QED BY <2>3, <3>1, <3>2
  <2> QED BY <2>2, <2>3, Zenon
<1> QED BY <1>1, IInvHolds, PTL

\* What a console client or the terminal shows is what its own last command
\* printed, complete if it fits in a message, and a client gives up only over
\* a message that does not fit or a changed key: the nonces of the two ends
\* agree after any number of commands, and whatever else the daemon does.
THEOREM DaemonConsole == Spec => []ConsoleAnswers
<1>1. IInv => ConsoleAnswers
  <2> SUFFICES ASSUME IInv, NEW c \in Clients
               PROVE  /\ client[c].shown # NoText =>
                          /\ client[c].shown.of = c /\ client[c].shown.n = client[c].n
                          /\ Fits(client[c].line.output) \/ c \in Terminals =>
                                client[c].shown.size \in {client[c].line.output, ErrorSize}
                      /\ client[c].at = "failed" =>
                          ~Fits(client[c].line.size) \/ ~Fits(client[c].line.output) \/ SessionKey(c) # ConfigKey
    BY Zenon DEF ConsoleAnswers
  <2>1. SessionInv(c)
    BY Zenon DEF IInv, ConsoleInv
  <2>2. client[c].at = "failed" => Excused(c)
    BY <2>1, Zenon DEF SessionInv, AtTerminal, Greeting, Resting, Asking, Running, Answering, Ending
  <2>3. Shown(c)
    BY <2>1, Zenon DEF SessionInv
  <2> QED BY <2>2, <2>3, Zenon DEF Shown, Excused
<1> QED BY <1>1, IInvHolds, PTL

=============================================================================

----------------------------- MODULE Trackalert -----------------------------
(***************************************************************************)
(* The trackalert daemon: web workers that run the report function and     *)
(* custom functions (trackalert/trackalert-web.cc), the scheduler that     *)
(* runs background functions by a cron line or an interval                 *)
(* (trackalert/trackalert-lua.cc and the Scheduler it uses), the pool of   *)
(* Lua contexts they share (trackalert/trackalert-luastate.hh), and the    *)
(* control console.                                                        *)
(*                                                                         *)
(* It starts when the configuration has been read. Time is counted in the  *)
(* unit of the schedules.                                                  *)
(***************************************************************************)
EXTENDS Console, FiniteSetsExt

CONSTANTS
    Workers,       \* threads of the web server
    Threads,       \* threads of the scheduler, the manager's excluded
    Crons,         \* background functions scheduled by a cron line
    Intervals,     \* background functions scheduled by an interval
    period,        \* per function, the distance of its times
    Installations, \* the daemon, who takes part, and how many commands a client sends
    MaxRequests,   \* bound: number of requests
    MaxTime        \* bound: the clock

Tasks == Crons \union Intervals
Callers == Workers \union Threads

ASSUME TrackalertAssumption ==
    /\ Crons \intersect Intervals = {} /\ Workers \intersect Threads = {} /\ Threads # {}
    /\ Callers \intersect (Clients \union {Nobody}) = {}
    /\ Tasks \intersect {"none", "report", "custom"} = {} /\ "none" \notin Contexts
    /\ period \in [Tasks -> Nat \ {0}]
    /\ IsFiniteSet(Tasks) /\ IsFiniteSet(Callers) /\ Cardinality(Contexts) >= Cardinality(Callers)
    /\ Installations \subseteq [daemon : {"wforce", "trackalert"}, clients : SUBSET Clients, workers : SUBSET Workers, tasks : SUBSET Tasks,
                                 commands : 0 .. MaxCommands]
    /\ MaxRequests \in Nat /\ MaxTime \in Nat

VARIABLES
    config,       \* the installation; never changes
    now,
    tasks,        \* the scheduler's multimap: times and functions
    manager,      \* the scheduler's own thread
    interrupted,  \* the flag of its InterruptableSleep
    queue,        \* functions pushed to the thread pool
    lua_pool,     \* contexts that are free, as a stack
    job,          \* per web worker and scheduler thread, what it is doing
    requests      \* number of requests so far

scheduleVars == <<tasks, manager, interrupted, queue>>
vars == <<consoleVars, config, now, scheduleVars, lua_pool, job, requests>>

Idle == [at |-> "idle", fn |-> "none", ctx |-> "none"]
Never == MaxTime + 1

TypeOK ==
    /\ ConsoleTypeOK
    /\ config \in Installations /\ now \in 0 .. MaxTime /\ requests \in 0 .. MaxRequests
    /\ tasks \subseteq Nat \X config.tasks
    /\ manager.at \in {"look", "sleep", "manage"} /\ manager.until \in Nat
    /\ interrupted \in BOOLEAN /\ queue \in Seq(config.tasks)
    /\ lua_pool \in Seq(Contexts)
    /\ mutex \in [Contexts -> Clients \union Callers \union {Nobody}]
    /\ \A w \in Callers :
        /\ job[w].at \in {"idle", "get", "lock", "run", "again"}
        /\ job[w].fn \in Tasks \union {"none", "report", "custom"}
        /\ job[w].ctx # "none" <=> job[w].at \in {"lock", "run"}

-----------------------------------------------------------------------------
(***************************************************************************)
(* The scheduler.                                                          *)
(***************************************************************************)

\* CronTask: the next time that matches, after now. EveryTask: now and a period.
get_new_time(t) == IF t \in Crons THEN (now \div period[t] + 1) * period[t] ELSE now + period[t]

\* mutant: the manager is not woken
add_task_quietly(t) ==
    /\ tasks' = tasks \union {<<get_new_time(t), t>>}
    /\ UNCHANGED interrupted

add_task(t) ==
    /\ tasks' = tasks \union {<<get_new_time(t), t>>}
    /\ interrupted' = TRUE

\* The manager reads the first time, without the lock, and goes to sleep.
look ==
    /\ manager.at = "look"
    /\ manager' = [at |-> "sleep", until |-> IF tasks = {} THEN Never ELSE Min({e[1] : e \in tasks})]
    /\ UNCHANGED <<consoleVars, config, now, tasks, interrupted, queue, lua_pool, job, requests>>

\* sleep or sleep_until returns.
wake ==
    /\ manager.at = "sleep" /\ (interrupted \/ now >= manager.until)
    /\ manager' = [manager EXCEPT !.at = "manage"]
    /\ interrupted' = FALSE
    /\ UNCHANGED <<consoleVars, config, now, tasks, queue, lua_pool, job, requests>>

Due == {e \in tasks : e[1] <= now}

\* The orders in which the map can hold a set of entries.
InOrder(entries) ==
    {s \in [1 .. Cardinality(entries) -> entries] : \A i, j \in DOMAIN s : i < j => s[i] # s[j] /\ s[i][1] <= s[j][1]}

\* mutant: an interval function is scheduled again at once, like any other
recurred_all == {<<get_new_time(e[2]), e[2]>> : e \in Due}

\* Interval functions are scheduled again only when they have run.
recurred_tasks == {<<get_new_time(e[2]), e[2]>> : e \in {d \in Due : d[2] \in Crons}}

\* What is due goes to the thread pool.
manage_tasks ==
    /\ manager.at = "manage"
    /\ \E s \in InOrder(Due) : queue' = queue \o [i \in DOMAIN s |-> s[i][2]]
    /\ tasks' = (tasks \ Due) \union recurred_tasks
    /\ manager' = [manager EXCEPT !.at = "look"]
    /\ UNCHANGED <<consoleVars, config, now, interrupted, lua_pool, job, requests>>

\* A thread of the pool takes a function from the queue.
pop(th) ==
    /\ job[th].at = "idle" /\ queue # <<>>
    /\ job' = [job EXCEPT ![th] = [Idle EXCEPT !.at = "get", !.fn = Head(queue)]]
    /\ queue' = Tail(queue)
    /\ UNCHANGED <<consoleVars, config, now, tasks, manager, interrupted, lua_pool, requests>>

\* An interval function is scheduled again.
again(th) ==
    /\ job[th].at = "again"
    /\ add_task(job[th].fn)
    /\ job' = [job EXCEPT ![th] = Idle]
    /\ UNCHANGED <<consoleVars, config, now, manager, queue, lua_pool, requests>>

-----------------------------------------------------------------------------
(***************************************************************************)
(* Requests, and the Lua contexts.                                         *)
(***************************************************************************)

luaOnly == <<daemon, client, server, toServer, toClient, g_key, g_luamutex, g_outputBuffer, config, now, requests>>

\* parseReportCmd or parseCustomCmd: a body that does not parse calls no Lua.
request(w, cmd) ==
    /\ job[w].at = "idle" /\ requests < MaxRequests
    /\ requests' = requests + 1
    /\ \/ job' = [job EXCEPT ![w] = [Idle EXCEPT !.at = "get", !.fn = cmd]]
       \/ UNCHANGED job
    /\ UNCHANGED <<consoleVars, config, now, scheduleVars, lua_pool>>

\* getPoolMember: with no context left this would read past the vector.
getPoolMember(w) ==
    /\ job[w].at = "get" /\ lua_pool # <<>>
    /\ job' = [job EXCEPT ![w].at = "lock", ![w].ctx = lua_pool[Len(lua_pool)]]
    /\ lua_pool' = SubSeq(lua_pool, 1, Len(lua_pool) - 1)
    /\ UNCHANGED <<luaOnly, scheduleVars, mutex>>

lockContext(w) ==
    /\ job[w].at = "lock" /\ mutex[job[w].ctx] = Nobody
    /\ mutex' = [mutex EXCEPT ![job[w].ctx] = w]
    /\ job' = [job EXCEPT ![w].at = "run"]
    /\ UNCHANGED <<luaOnly, scheduleVars, lua_pool>>

\* mutant: a background function keeps its context
returnUnlessBackground(w) == IF w \in Threads THEN lua_pool ELSE Append(lua_pool, job[w].ctx)

\* The destructor of SharedPoolMember.
returnPoolMember(w) == Append(lua_pool, job[w].ctx)

\* The function returns, or throws, which is logged or becomes a 500 answer.
luaReturns(w) ==
    /\ job[w].at = "run"
    /\ mutex' = [mutex EXCEPT ![job[w].ctx] = Nobody]
    /\ lua_pool' = returnPoolMember(w)
    /\ job' = [job EXCEPT ![w] = IF job[w].fn \in Intervals THEN [Idle EXCEPT !.at = "again", !.fn = job[w].fn] ELSE Idle]
    /\ UNCHANGED <<luaOnly, scheduleVars>>

-----------------------------------------------------------------------------
Tick ==
    /\ now < MaxTime
    /\ now' = now + 1
    /\ UNCHANGED <<consoleVars, config, scheduleVars, lua_pool, job, requests>>

\* The configuration has scheduled its functions.
Init ==
    /\ ConsoleInit
    /\ config \in Installations /\ daemon = config.daemon
    /\ now = 0
    /\ tasks = {<<period[t], t>> : t \in config.tasks}
    /\ manager = [at |-> "look", until |-> 0]
    /\ interrupted = (config.tasks # {})
    /\ queue = <<>>
    /\ lua_pool = AllContexts
    /\ mutex = [c \in Contexts |-> Nobody]
    /\ job = [w \in Callers |-> Idle]
    /\ requests = 0

daemonOnly == <<config, now, scheduleVars, lua_pool, job, requests>>

CallerStep(w) == getPoolMember(w) \/ lockContext(w) \/ luaReturns(w)
ThreadStep(th) == pop(th) \/ again(th) \/ CallerStep(th)
ManagerStep == look \/ wake \/ manage_tasks
ConsoleServer(c) == ServerStep(c) /\ UNCHANGED daemonOnly

Next ==
    \/ \E c \in config.clients : ClientStep(c) /\ client'[c].n <= config.commands /\ UNCHANGED daemonOnly
    \/ \E c \in config.clients : ConsoleServer(c)
    \/ \E w \in config.workers, cmd \in {"report", "custom"} : request(w, cmd)
    \/ \E w \in Workers : CallerStep(w)
    \/ \E th \in Threads : ThreadStep(th)
    \/ ManagerStep \/ Tick

Spec == Init /\ [][Next]_vars

-----------------------------------------------------------------------------
\* Web workers and scheduler threads together never find the pool of contexts
\* empty, and whoever runs Lua in a context, the console included, is alone in it.
ContextForEveryThread ==
    /\ TypeOK
    /\ \A w \in Callers : job[w].at = "get" => lua_pool # <<>>
    /\ \A w \in Callers : job[w].at = "run" => mutex[job[w].ctx] = w
    /\ \A v, w \in Callers : v # w /\ job[v].ctx # "none" => job[v].ctx # job[w].ctx

Places(t) ==
    Cardinality({e \in tasks : e[2] = t}) + Cardinality({i \in DOMAIN queue : queue[i] = t})
        + Cardinality({th \in Threads : job[th].fn = t})

\* The scheduler never loses or doubles a function. A cron function always has
\* one next time. An interval function is in one place only, waiting for its
\* time, in the queue or running, so that it never runs twice at once.
TasksStayScheduled ==
    \A t \in config.tasks :
        IF t \in Crons THEN Cardinality({e \in tasks : e[2] = t}) = 1 ELSE Places(t) = 1

\* A function whose time has come is run, although the manager reads the first
\* time without the lock and may be about to sleep when a function is added.
DueTasksRun ==
    \A t \in Tasks : (\E e \in Due : e[2] = t) ~> (\E th \in Threads : job[th].fn = t /\ job[th].at = "run")
=============================================================================

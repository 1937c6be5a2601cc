-------------------------------- MODULE Setup --------------------------------
(***************************************************************************)
(* How the three daemons start: main in wforce/wforce.cc,                  *)
(* trackalert/trackalert.cc and wforce/replfwd.cc with their setupLua, and *)
(* what a line typed at the console does afterwards.                       *)
(*                                                                         *)
(* The configuration is a sequence of calls. It is run in the global Lua   *)
(* state, state 0, and then in every context of the pool.                  *)
(***************************************************************************)
EXTENDS Integers, Sequences, LuaBindings

CONSTANTS
    Starts,        \* daemon, mode and configuration of the starts to look at
    ConsoleLines,  \* calls that are made at the console
    DefaultStates, \* Lua contexts if the configuration does not say
    OtherStates,   \* Lua contexts if it does
    MaxLines       \* bound: number of lines typed at the console

Modes == {"foreground", "systemd", "docker", "daemon", "client"}

\* A call: the function, and whether its arguments can be parsed.
Calls == [fn : UNION {DOMAIN LuaFunctions(d) : d \in Daemons} \union {"unknown"}, arg : {"good", "bad"}]

ASSUME SetupAssumption ==
    /\ \A s \in Starts :
        s.daemon \in Daemons /\ s.mode \in Modes /\ (s.daemon = "replfwd" => s.mode # "client") /\ s.config \in Seq(Calls)
    /\ ConsoleLines \subseteq Calls
    /\ DefaultStates \in Nat \ {0} /\ OtherStates \in Nat \ {0} /\ MaxLines \in Nat

VARIABLES
    started,     \* what is started; never changes
    phase,       \* where main is
    state,       \* the Lua state that is being set up
    line,        \* the call of the configuration that is next
    states,      \* g_num_luastates
    pool,        \* number of contexts of g_luamultip
    launchWork,  \* "null", "vector", or "left" from the set-up of a context
    work,        \* the launches in it
    todo,        \* the launches that main has been given and has still to do
    acl,         \* whose netmasks are in the ACL of the web server
    dbs,         \* stats databases, by the call that made them
    commands,    \* the commands of the web server are registered
    running,     \* threads, by kind and by the call they belong to
    typed,       \* number of lines typed
    effects      \* history: state and number of every call that had an effect

setupVars == <<started, phase, state, line, states, pool, launchWork, work, todo, acl, dbs, commands, running, typed, effects>>

daemonStarted == started.daemon
asClient == started.mode = "client"

Launched == {"web", "control", "replication"}
Services == {"scheduler", "webhooks", "purge", "stats", "receivers"}

SetupTypeOK ==
    /\ started.daemon \in Daemons /\ started.mode \in Modes
    /\ phase \in {"start", "setup", "fork", "services", "todo", "wait", "ready", "exited"}
    /\ state \in 0 .. pool /\ line \in 1 .. Len(started.config) + 1
    /\ states \in {DefaultStates, OtherStates} /\ pool \in {0, DefaultStates, OtherStates}
    /\ launchWork \in {"null", "vector", "left"} /\ (launchWork # "vector" => work = <<>>)
    /\ \A i \in DOMAIN work : work[i][1] \in Launched
    /\ \A i \in DOMAIN todo : todo[i][1] \in Launched
    /\ acl \subseteq {"default", "own"}
    /\ dbs \subseteq 1 .. Len(started.config) + MaxLines
    /\ commands \in BOOLEAN
    /\ \A t \in running : t[1] \in Launched \union Services \union {"sibling", "expire"}
    /\ typed \in 0 .. MaxLines

SetupInit ==
    /\ started \in Starts
    /\ phase = "start" /\ state = 0 /\ line = 1
    /\ states = DefaultStates /\ pool = 0
    /\ launchWork = "null" /\ work = <<>> /\ todo = <<>>
    /\ acl = {} /\ dbs = {} /\ commands = FALSE
    /\ running = {}
    /\ typed = 0 /\ effects = <<>>

-----------------------------------------------------------------------------
(***************************************************************************)
(* A call in one Lua state.                                                *)
(***************************************************************************)

\* What a call is bound to, and what comes of it: an error, nothing, half of
\* the function, or all of it.
BoundTo(c, s) ==
    IF IsBound(daemonStarted, c.fn) THEN Binding(LuaFunctions(daemonStarted)[c.fn].where, asClient, s > 0) ELSE "undefined"

Outcome(c, s) ==
    CASE BoundTo(c, s) = "undefined" -> "throws"
      [] BoundTo(c, s) = "empty" -> "ignored"
      [] OTHER -> IF c.arg = "bad" /\ LuaFunctions(daemonStarted)[c.fn].bad # "never" THEN LuaFunctions(daemonStarted)[c.fn].bad ELSE "done"

Does(c) == LuaFunctions(daemonStarted)[c.fn].does

\* mutant: started at once
launchAtOnce(kind, n) ==
    /\ running' = running \union {<<kind, n>>}
    /\ UNCHANGED work

\* A listener is started by main when everything is set up.
launch(kind, n) ==
    /\ work' = Append(work, <<kind, n>>)
    /\ UNCHANGED running

\* A call is made for real, as number n. Siblings start a thread at once.
Effect(c, n) ==
    /\ IF Does(c) \in Launched /\ ~asClient THEN launch(Does(c), n)
       ELSE /\ running' = running \union (IF Does(c) = "sibling" /\ ~asClient THEN {<<"sibling", n>>} ELSE {})
            /\ UNCHANGED work
    /\ dbs' = dbs \union (IF Does(c) = "db" THEN {n} ELSE {})
    /\ acl' = CASE Does(c) = "setACL" -> {"own"} [] Does(c) = "addACL" -> acl \union {"own"} [] OTHER -> acl
    /\ states' = IF Does(c) = "states" THEN OtherStates ELSE states

-----------------------------------------------------------------------------
(***************************************************************************)
(* main up to setupLua.                                                    *)
(***************************************************************************)

\* Without the file of regular expressions wforce does not start.
noRegexes ==
    /\ phase = "start" /\ daemonStarted = "wforce" /\ ~asClient
    /\ phase' = "exited"
    /\ UNCHANGED <<started, state, line, states, pool, launchWork, work, todo, acl, dbs, commands, running, typed, effects>>

\* The default ACL comes before the configuration. wforce makes its pool later.
beginWforce ==
    /\ phase = "start" /\ daemonStarted = "wforce"
    /\ phase' = "setup" /\ launchWork' = "vector"
    /\ acl' = IF asClient THEN acl ELSE {"default"}
    /\ UNCHANGED <<started, state, line, states, pool, work, todo, dbs, commands, running, typed, effects>>

beginReplfwd ==
    /\ phase = "start" /\ daemonStarted = "replfwd"
    /\ phase' = "setup" /\ launchWork' = "vector"
    /\ acl' = {"default"}
    /\ UNCHANGED <<started, state, line, states, pool, work, todo, dbs, commands, running, typed, effects>>

\* trackalert starts its scheduler and makes its pool before the configuration.
beginTrackalert ==
    /\ phase = "start" /\ daemonStarted = "trackalert"
    /\ phase' = "setup" /\ launchWork' = "vector"
    /\ running' = {<<"scheduler", 0>>}
    /\ pool' = IF asClient THEN 0 ELSE states
    /\ UNCHANGED <<started, state, line, states, work, todo, acl, dbs, commands, typed, effects>>

-----------------------------------------------------------------------------
(***************************************************************************)
(* setupLua: run the configuration in a Lua state.                         *)
(***************************************************************************)

\* The next call of the configuration.
executeCode ==
    /\ phase = "setup" /\ line <= Len(started.config)
    /\ LET c == started.config[line] IN
       /\ Outcome(c, state) \in {"done", "half"} /\ Does(c) # "shutdown"
       /\ Effect(c, line)
       /\ effects' = Append(effects, <<state, line>>)
    /\ line' = line + 1
    /\ UNCHANGED <<started, phase, state, pool, launchWork, todo, commands, typed>>

\* An empty function, or one that returns because of its arguments.
executeNothing ==
    /\ phase = "setup" /\ line <= Len(started.config)
    /\ Outcome(started.config[line], state) = "ignored"
    /\ line' = line + 1
    /\ UNCHANGED <<started, phase, state, states, pool, launchWork, work, todo, acl, dbs, commands, running, typed, effects>>

\* A Lua error ends the process, and so does shutdown.
executeExits ==
    /\ phase = "setup" /\ line <= Len(started.config)
    /\ LET c == started.config[line] IN
       Outcome(c, state) = "throws" \/ (Outcome(c, state) = "done" /\ Does(c) = "shutdown")
    /\ phase' = "exited"
    /\ UNCHANGED <<started, state, line, states, pool, launchWork, work, todo, acl, dbs, commands, running, typed, effects>>

\* The address of the control socket is in use.
controlSocketExits ==
    /\ phase = "setup" /\ line <= Len(started.config) /\ ~asClient
    /\ Outcome(started.config[line], state) = "done" /\ Does(started.config[line]) = "control"
    /\ phase' = "exited"
    /\ UNCHANGED <<started, state, line, states, pool, launchWork, work, todo, acl, dbs, commands, running, typed, effects>>

\* The global state is set up: the launches go to main, and the pool is made.
\* A client talks to its server and ends.
globalDone ==
    /\ phase = "setup" /\ state = 0 /\ line > Len(started.config)
    /\ todo' = work /\ work' = <<>>
    /\ IF asClient \/ daemonStarted = "replfwd"
       THEN /\ phase' = IF asClient THEN "exited" ELSE "fork"
            /\ launchWork' = "null"
            /\ UNCHANGED <<state, line, pool>>
       ELSE /\ pool' = IF daemonStarted = "wforce" THEN states ELSE pool
            /\ state' = 1 /\ line' = 1 /\ launchWork' = "vector"
            /\ UNCHANGED phase
    /\ UNCHANGED <<started, states, acl, dbs, commands, running, typed, effects>>

\* A context is set up. The vector of its launches stays allocated.
contextDone ==
    /\ phase = "setup" /\ state > 0 /\ line > Len(started.config)
    /\ work' = <<>>
    /\ IF state < pool
       THEN state' = state + 1 /\ line' = 1 /\ launchWork' = "vector" /\ UNCHANGED phase
       ELSE phase' = "fork" /\ launchWork' = "left" /\ UNCHANGED <<state, line>>
    /\ UNCHANGED <<started, states, pool, todo, acl, dbs, commands, running, typed, effects>>

-----------------------------------------------------------------------------
(***************************************************************************)
(* main from there on.                                                     *)
(***************************************************************************)

\* fork copies only the thread that calls it.
daemonize ==
    /\ phase = "fork"
    /\ running' = IF started.mode = "daemon" THEN {} ELSE running
    /\ phase' = "services" /\ line' = 1
    /\ UNCHANGED <<started, state, states, pool, launchWork, work, todo, acl, dbs, commands, typed, effects>>

\* Web hook threads, commands, purge and stats threads, the persistent entries,
\* the replication workers and the expiry threads.
StartWforce ==
    /\ daemonStarted = "wforce"
    /\ commands' = TRUE
    /\ running' = running \union {<<s, 0>> : s \in {"webhooks", "purge", "stats", "receivers"}}
                          \union {<<"expire", n>> : n \in dbs}
    /\ UNCHANGED acl

StartReplfwd ==
    /\ daemonStarted = "replfwd"
    /\ commands' = TRUE
    /\ running' = running \union {<<"receivers", 0>>}
    /\ UNCHANGED acl

\* The default ACL is added to what the configuration has set.
StartTrackalert ==
    /\ daemonStarted = "trackalert"
    /\ commands' = TRUE
    /\ running' = running \union {<<"webhooks", 0>>, <<"stats", 0>>}
    /\ acl' = acl \union {"default"}

startServices ==
    /\ phase = "services"
    /\ StartWforce \/ StartReplfwd \/ StartTrackalert
    /\ phase' = "todo"
    /\ UNCHANGED <<started, state, line, states, pool, launchWork, work, todo, dbs, typed, effects>>

\* The entries that should be persistent cannot be loaded.
noPersistEntries ==
    /\ phase = "services" /\ daemonStarted = "wforce"
    /\ \E i \in DOMAIN effects : effects[i][1] = 0 /\ Does(started.config[effects[i][2]]) = "persist"
    /\ phase' = "exited"
    /\ UNCHANGED <<started, state, line, states, pool, launchWork, work, todo, acl, dbs, commands, running, typed, effects>>

\* The web server is started once, however many listeners it has.
startWeb(t) == IF t[1] = "web" /\ \E r \in running : r[1] = "web" THEN {} ELSE {t}

doTodo ==
    /\ phase = "todo" /\ todo # <<>>
    /\ running' = running \union startWeb(Head(todo))
    /\ todo' = Tail(todo)
    /\ UNCHANGED <<started, phase, state, line, states, pool, launchWork, work, acl, dbs, commands, typed, effects>>

\* mutant: every daemon waits for its web server
todoDoneWaits ==
    /\ phase = "todo" /\ todo = <<>>
    /\ phase' = "wait"
    /\ UNCHANGED <<started, state, line, states, pool, launchWork, work, todo, acl, dbs, commands, running, typed, effects>>

todoDone ==
    /\ phase = "todo" /\ todo = <<>>
    /\ phase' = IF daemonStarted = "wforce" THEN "wait" ELSE "ready"
    /\ UNCHANGED <<started, state, line, states, pool, launchWork, work, todo, acl, dbs, commands, running, typed, effects>>

\* wforce waits until its web server runs, and only then looks for a sync host.
webserverRuns ==
    /\ phase = "wait" /\ \E r \in running : r[1] = "web"
    /\ phase' = "ready"
    /\ UNCHANGED <<started, state, line, states, pool, launchWork, work, todo, acl, dbs, commands, running, typed, effects>>

-----------------------------------------------------------------------------
(***************************************************************************)
(* A line at the console is run in every context and in the global state.  *)
(***************************************************************************)

HasConsole ==
    /\ daemonStarted # "replfwd"
    /\ started.mode = "foreground" \/ \E r \in running : r[1] = "control"

\* siblingListener and webserver find launchWork set, and what they add to it is
\* never started. addListener and controlSocket have kept the vector of the
\* global set-up, which is deleted: they may do nothing, or crash.
consoleLaunch(c) ==
    /\ phase = "ready" /\ HasConsole /\ typed < MaxLines
    /\ Outcome(c, 0) = "done" /\ Does(c) \in Launched
    /\ phase' \in (IF c.fn \in {"addListener", "controlSocket"} THEN {"ready", "exited"} ELSE {"ready"})
    /\ typed' = typed + 1
    /\ UNCHANGED <<started, state, line, states, pool, launchWork, work, todo, acl, dbs, commands, running, effects>>

\* The contexts come first, and an error in them ends the command.
consoleCall(c) ==
    /\ phase = "ready" /\ HasConsole /\ typed < MaxLines
    /\ ~(Outcome(c, 0) = "done" /\ Does(c) \in Launched)
    /\ typed' = typed + 1
    /\ LET n == Len(started.config) + typed + 1
           inContexts == Outcome(c, 1) \in {"done", "half"}
           inGlobal == Outcome(c, 0) \in {"done", "half"} /\ Outcome(c, 1) # "throws" IN
       /\ phase' = IF inGlobal /\ Does(c) = "shutdown" THEN "exited" ELSE phase
       /\ IF inGlobal THEN Effect(c, n) ELSE UNCHANGED <<running, work, dbs, acl, states>>
       /\ effects' = effects \o (IF inContexts THEN [s \in 1 .. pool |-> <<s, n>>] ELSE <<>>)
                             \o (IF inGlobal THEN <<<<0, n>>>> ELSE <<>>)
    /\ UNCHANGED <<started, state, line, pool, launchWork, todo, commands>>

-----------------------------------------------------------------------------
SetupMain ==
    \/ beginWforce \/ beginReplfwd \/ beginTrackalert
    \/ executeCode \/ executeNothing \/ executeExits \/ globalDone \/ contextDone
    \/ daemonize \/ startServices \/ doTodo \/ todoDone \/ webserverRuns

SetupNext ==
    \/ SetupMain
    \/ noRegexes \/ controlSocketExits \/ noPersistEntries
    \/ \E c \in ConsoleLines : consoleLaunch(c) \/ consoleCall(c)

SetupSpec == SetupInit /\ [][SetupNext]_setupVars

-----------------------------------------------------------------------------
\* The calls of the configuration that the groups described in the comment on
\* setupLua make effective in the global state and in the contexts.
ForGlobal(c) == LuaFunctions(daemonStarted)[c.fn].where # "worker" /\ ~(c.arg = "bad" /\ LuaFunctions(daemonStarted)[c.fn].bad = "ignored")
ForContexts(c) ==
    /\ LuaFunctions(daemonStarted)[c.fn].where \in {"worker", "both", "shared"}
    /\ ~(c.arg = "bad" /\ LuaFunctions(daemonStarted)[c.fn].bad = "ignored")

CallsFor(s) ==
    {i \in DOMAIN started.config : IF s = 0 THEN ForGlobal(started.config[i]) ELSE ForContexts(started.config[i])}

\* The calls that had an effect in a Lua state.
EffectsIn(s) == {effects[j][2] : j \in {k \in DOMAIN effects : effects[k][1] = s}}

\* A daemon that comes up has followed its configuration: every setting was made
\* once, in the order of the file; the functions for requests are those of the
\* file in every context, of which there are as many as the file says (except in
\* trackalert, where the pool is made first); and setACL has replaced the default
\* (except in trackalert, where the default is added last).
ConfigTakesEffect ==
    (phase = "ready" /\ typed = 0) =>
        /\ \A s \in 0 .. pool : EffectsIn(s) = CallsFor(s)
        /\ \A j, k \in DOMAIN effects : j < k /\ effects[j][1] = effects[k][1] => effects[j][2] < effects[k][2]
        /\ daemonStarted = "wforce" => pool = states
        /\ daemonStarted # "trackalert" =>
            ("default" \notin acl <=> \E i \in DOMAIN started.config : Does(started.config[i]) = "setACL")

IsUp(kind, n) == \E r \in running : r[1] = kind /\ (r[2] = n \/ kind = "web")

\* Nothing answers requests before all contexts are set up and the commands are
\* registered. Once a daemon is ready it serves all that its file asks for: every
\* listener, the expiry of every stats database, and the sending thread of every
\* sibling and sink, except that a daemon that has forked has lost the threads
\* that were started while the file was read.
ServesWhenReady ==
    /\ SetupTypeOK
    /\ (\E r \in running : r[1] \in Launched) => phase \in {"todo", "wait", "ready", "exited"} /\ commands
    /\ phase = "ready" =>
        \A i \in DOMAIN started.config :
            LET c == started.config[i] IN
            Outcome(c, 0) = "done" =>
                /\ Does(c) \in Launched => IsUp(Does(c), i)
                /\ Does(c) = "db" => IsUp("expire", i)
                /\ Does(c) = "sibling" /\ started.mode # "daemon" => IsUp("sibling", i)

HasListener == \E i \in DOMAIN started.config : Outcome(started.config[i], 0) = "done" /\ Does(started.config[i]) = "web"

\* A start ends, for good, in a daemon that is ready or in a process that has given
\* up, except that wforce waits for ever for a web server it has no listener for.
ComesUp ==
    <>[](\/ phase \in {"ready", "exited"}
         \/ daemonStarted = "wforce" /\ phase = "wait" /\ ~HasListener)
=============================================================================

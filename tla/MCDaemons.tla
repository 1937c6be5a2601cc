----------------------------- MODULE MCDaemons -----------------------------
(***************************************************************************)
(* The daemons for TLC: wforce, trackalert and replfwd start with every    *)
(* function they give to Lua as their configuration, and with some longer  *)
(* configurations. Those that are started in the usual way go on to run:   *)
(* the console with two clients, with a client and the terminal, or with a *)
(* client that sends two commands, and the scheduler with a client or a    *)
(* web worker.                                                             *)
(***************************************************************************)
EXTENDS Trackalert, Setup, TLC

CONSTANTS c1, c2, tty, w1, t1, t2, lua1, lua2, lua3, cron1, every1

MCPeriod == (cron1 :> 2) @@ (every1 :> 1)

MCLine(size, output, throws, key) == [size |-> size, output |-> output, throws |-> throws, key |-> key]

\* Outputs around the longest that fits, 65519, and one that is cut to nothing.
MCLines == {MCLine(5, 65519, "nowhere", "none"), MCLine(5, 65520, "nowhere", "none"), MCLine(5, 65536, "nowhere", "none"),
            MCLine(65520, 5, "nowhere", "none"), MCLine(5, 5, "contexts", "none"), MCLine(5, 5, "global", "none"),
            MCLine(5, 0, "nowhere", "k2")}

\* The counters of the second client's nonces wrap.
MCNonces == (<<c1, "client">> :> {<<0, 1>>}) @@ (<<c1, "server">> :> {<<1, 2>>})
                @@ (<<c2, "client">> :> {<<2, 3>>}) @@ (<<c2, "server">> :> {<<3, 4>>})
                @@ [p \in {tty} \X {"client", "server"} |-> {}]

MCInstallations ==
    {[daemon |-> "trackalert", clients |-> {c1, c2}, workers |-> {}, tasks |-> {}, commands |-> 1],
     [daemon |-> "wforce", clients |-> {c1, tty}, workers |-> {}, tasks |-> {}, commands |-> 1],
     [daemon |-> "trackalert", clients |-> {c2}, workers |-> {}, tasks |-> {}, commands |-> 2],
     [daemon |-> "trackalert", clients |-> {c2}, workers |-> {w1}, tasks |-> {}, commands |-> 1],
     [daemon |-> "trackalert", clients |-> {c1}, workers |-> {}, tasks |-> {every1}, commands |-> 1],
     [daemon |-> "trackalert", clients |-> {}, workers |-> {w1}, tasks |-> {cron1, every1}, commands |-> 0]}

-----------------------------------------------------------------------------
Good(f) == [fn |-> f, arg |-> "good"]
Bad(f) == [fn |-> f, arg |-> "bad"]

Start(d, m, c) == [daemon |-> d, mode |-> m, config |-> c]

Alone(table) == {Good(f) : f \in DOMAIN table} \union {Bad(f) : f \in {g \in DOMAIN table : table[g].bad # "never"}}

\* The usual way: listener, console and functions, in the foreground.
Usual ==
    {Start("wforce", "foreground", <<Good("addListener"), Good("controlSocket"), Good("setAllow")>>),
     Start("trackalert", "foreground", <<Good("addListener"), Good("controlSocket"), Good("setReport")>>)}

Several ==
    {<<Good("addSibling"), Good("siblingListener"), Good("webserver"), Good("setSiblings")>>,
     <<Good("addListener"), Good("webserver"), Good("setNumLuaStates"), Good("setReport"), Good("controlSocket")>>,
     <<Good("addACL"), Good("setACL"), Good("addListener"), Good("setCustomEndpoint")>>,
     <<Good("addReportSink"), Bad("addNamedReportSink"), Good("newStringStatsDB"), Good("blacklistPersistDB"),
       Good("webserver"), Good("controlSocket")>>,
     <<Good("webserver"), Good("setJA3AttrName")>>,
     <<Good("webserver"), Good("unknown")>>,
     <<Good("setACL")>>, <<>>}

MCStarts ==
    Usual
        \union {Start("wforce", "systemd", <<Good("addListener"), c>>) : c \in Alone(WforceLua)}
        \union {Start("wforce", "client", <<c>>) : c \in Alone(WforceLua)}
        \union {Start("trackalert", m, <<c>>) : m \in {"systemd", "client"}, c \in Alone(TrackalertLua)}
        \union {Start("replfwd", "docker", <<c>>) : c \in Alone(ReplfwdLua)}
        \union {Start(d, m, c) : d \in Daemons, m \in Modes \ {"client"}, c \in Several}

MCConsoleLines ==
    {Good(f) : f \in {"siblingListener", "addListener", "newStringStatsDB", "addSibling", "setAllow", "setJA3AttrName",
                      "blacklistIP", "shutdown"}} \union {Bad("setACL")}

-----------------------------------------------------------------------------
\* A daemon that was started in the usual way goes on to run.
Operating == phase = "ready" /\ started \in Usual

MCInit ==
    /\ SetupInit /\ Init
    /\ IF started \in Usual THEN config.daemon = daemonStarted
       ELSE config = CHOOSE i \in Installations : i.commands = 0

MCNext ==
    \/ ~Operating /\ SetupNext /\ UNCHANGED vars
    \/ Operating /\ Next /\ UNCHANGED setupVars

allVars == <<vars, setupVars>>

\* main goes on, threads are scheduled, Lua functions return, and the console's
\* commands end.
MCSpec ==
    /\ MCInit /\ [][MCNext]_allVars
    /\ WF_allVars(SetupMain /\ UNCHANGED vars)
    /\ WF_allVars(Operating /\ ManagerStep /\ UNCHANGED setupVars)
    /\ \A w \in Workers : WF_allVars(Operating /\ CallerStep(w) /\ UNCHANGED setupVars)
    /\ \A th \in Threads : WF_allVars(Operating /\ ThreadStep(th) /\ UNCHANGED setupVars)
    /\ \A c \in Clients : WF_allVars(Operating /\ ConsoleServer(c) /\ UNCHANGED setupVars)
=============================================================================

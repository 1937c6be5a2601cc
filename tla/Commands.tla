------------------------------ MODULE Commands ------------------------------
(***************************************************************************)
(* The REST commands of wforce (wforce/wforce-web.cc) as the worker        *)
(* threads of the web server run them, with the pool of Lua contexts they  *)
(* share (wforce/luastate.hh) and the control console that runs Lua code   *)
(* in every context (controlClientThread in wforce/wforce.cc).             *)
(*                                                                         *)
(* All requests are about one client: an address, a login and a JA3 hash.  *)
(* The lists hold the kinds of keys under which it is listed.              *)
(***************************************************************************)
EXTENDS Integers, Sequences, FiniteSets

CONSTANTS
    Workers,       \* threads of the web server
    lua_read_only, \* the Lua contexts, in the order in which they were created
    Inputs,        \* the requests that are sent: command and fields
    Enabled,       \* the choices of built-in lists that are enabled
    Changeable,    \* list and key of entries that come and go by themselves
    MaxRequests,   \* bound: number of requests
    MaxConsole     \* bound: number of console commands

\* The commands that change a list: the list, and whether they add to it.
ListCmd ==
    [addBLEntry |-> <<"bl", TRUE>>, delBLEntry |-> <<"bl", FALSE>>, addWLEntry |-> <<"wl", TRUE>>, delWLEntry |-> <<"wl", FALSE>>]
ListCmds == DOMAIN ListCmd
\* The commands that show a list.
ShownList == [getBL |-> "bl", getWL |-> "wl"]
ShowCmds == DOMAIN ShownList
\* The commands that look entries up one after the other.
ReadCmds == {"allow", "getDBStats"} \union ShowCmds
Cmds == {"report", "reset", "custom", "stats"} \union ListCmds \union ReadCmds
Fields == {"ip", "netmask", "login", "ja3"}

\* The order in which parseAllowCmd goes through a list.
KeyOrder == <<"ip", "login", "ja3", "iplogin", "ipja3">>
Keys == {KeyOrder[i] : i \in DOMAIN KeyOrder}
Lists == {"wl", "bl"}

Contexts == {lua_read_only[i] : i \in DOMAIN lua_read_only}

ASSUME CommandsAssumption ==
    /\ IsFiniteSet(Workers) /\ {"none", "console"} \intersect Workers = {}
    /\ Inputs \subseteq [cmd : Cmds, fields : SUBSET Fields]
    /\ Enabled \subseteq SUBSET Lists /\ Changeable \subseteq Lists \X Keys
    /\ MaxRequests \in Nat /\ MaxConsole \in Nat

\* The contexts differ, and there is one for every worker (setNumLuaStates).
ASSUME ContextsAssumption ==
    /\ lua_read_only \in Seq(Contexts) /\ "none" \notin Contexts
    /\ \A i, j \in DOMAIN lua_read_only : lua_read_only[i] = lua_read_only[j] => i = j
    /\ Len(lua_read_only) >= Cardinality(Workers)

VARIABLES
    builtin,   \* the built-in lists that are enabled
    lists,     \* per list, the keys under which the client is listed
    lua_pool,  \* contexts that are free, as a stack
    mutex,     \* per context, who holds its lua_mutex
    console,   \* contexts the console has still to run its command in
    work,      \* per worker, the local state of its handler
    stats,     \* g_stats and the allow_ command statistics
    requests,  \* number of requests so far
    commands,  \* number of console commands so far
    answered,  \* history: per worker, the answer to its last request: command, code and status
    events     \* history: number of webhook events raised

vars == <<builtin, lists, lua_pool, mutex, console, work, stats, requests, commands, answered, events>>

luaVars == <<lua_pool, mutex, console, commands>>
listVars == <<builtin, lists>>
doneVars == <<stats, answered, events>>

NoKeys == [l \in Lists |-> {}]

\* at: where the handler is; fn: the Lua function it calls; ctx: the context it
\* has taken; pos: how far it is with the lists; found: the lists the client was
\* found on, or the keys found on the list that is shown;
\* always, ever: history, keys listed all through the request or at some time.
Idle == [at |-> "idle", cmd |-> "none", fields |-> {}, fn |-> "none", ctx |-> "none", pos |-> 1, found |-> {},
         always |-> NoKeys, ever |-> NoKeys]

NoAnswer == <<"none", 0, 0>>
LastPos == 2 * Len(KeyOrder)
Events == {"allow", "report", "reset"}
StatNames == {"allows", "denieds", "reports", "allow_allowed", "allow_tarpitted", "allow_whitelisted", "allow_blacklisted"}

TypeOK ==
    /\ builtin \subseteq Lists
    /\ lists \in [Lists -> SUBSET Keys]
    /\ lua_pool \in Seq(Contexts) /\ Len(lua_pool) <= Len(lua_read_only)
    /\ mutex \in [Contexts -> Workers \union {"none", "console"}]
    /\ console \in Seq(Contexts)
    /\ \A w \in Workers :
        /\ work[w].at \in {"idle", "act", "list", "get", "lock", "run"}
        /\ work[w].cmd \in Cmds \union {"none"} /\ work[w].fields \subseteq Fields
        /\ work[w].fn \in {"none", "canonicalize", "allow", "report", "reset", "custom"}
        /\ work[w].ctx \in Contexts \union {"none"} /\ (work[w].ctx # "none" <=> work[w].at \in {"lock", "run"})
        /\ work[w].pos \in 1 .. LastPos + 1 /\ work[w].found \subseteq Lists \union Keys
        /\ \A l \in Lists : work[w].always[l] \subseteq work[w].ever[l]
    /\ stats \in [StatNames -> Nat]
    /\ requests \in 0 .. MaxRequests /\ commands \in 0 .. MaxConsole
    /\ answered \in [Workers -> (Cmds \union {"none"}) \X {0, 200, 400, 401, 500} \X (-1 .. 1)]
    /\ events \in [Events -> Nat]

Init ==
    /\ builtin \in Enabled
    /\ lists = NoKeys
    /\ lua_pool = lua_read_only
    /\ mutex = [c \in Contexts |-> "none"]
    /\ console = <<>>
    /\ work = [w \in Workers |-> Idle]
    /\ stats = [n \in StatNames |-> 0]
    /\ requests = 0 /\ commands = 0
    /\ answered = [w \in Workers |-> NoAnswer]
    /\ events = [e \in Events |-> 0]

-----------------------------------------------------------------------------
(***************************************************************************)
(* Answering, and calling Lua.                                             *)
(***************************************************************************)

\* The handler is done: the response goes out and the worker is free.
Answer(w, cmd, code, status) ==
    /\ answered' = [answered EXCEPT ![w] = <<cmd, code, status>>]
    /\ work' = [work EXCEPT ![w] = Idle]

\* Call a Lua function: the worker goes for a context of the pool.
CallLua(w, f) == work' = [work EXCEPT ![w].at = "get", ![w].fn = f]

Bump(names) == stats' = [n \in StatNames |-> stats[n] + (IF n \in names THEN 1 ELSE 0)]

Raise(event) == events' = [events EXCEPT ![event] = @ + 1]

\* getPoolMember: the last context of the vector. With no context left this
\* would read past the vector; ContextsAreExclusive excludes it.
getPoolMember(w) ==
    /\ work[w].at = "get" /\ lua_pool # <<>>
    /\ work' = [work EXCEPT ![w].at = "lock", ![w].ctx = lua_pool[Len(lua_pool)]]
    /\ lua_pool' = SubSeq(lua_pool, 1, Len(lua_pool) - 1)
    /\ UNCHANGED <<mutex, console, commands, requests, listVars, doneVars>>

lockContext(w) ==
    /\ work[w].at = "lock" /\ mutex[work[w].ctx] = "none"
    /\ mutex' = [mutex EXCEPT ![work[w].ctx] = w]
    /\ work' = [work EXCEPT ![w].at = "run"]
    /\ UNCHANGED <<lua_pool, console, commands, requests, listVars, doneVars>>

\* The function has returned or thrown: the lock is released and the context
\* goes back to the pool, by the destructors.
returnPoolMember(w) ==
    /\ mutex' = [mutex EXCEPT ![work[w].ctx] = "none"]
    /\ lua_pool' = Append(lua_pool, work[w].ctx)
    /\ UNCHANGED <<console, commands>>

Runs(w, f) == work[w].at = "run" /\ work[w].fn = f /\ returnPoolMember(w)

canonicalizeReturns(w) ==
    /\ Runs(w, "canonicalize")
    /\ work' = [work EXCEPT ![w].at = "act", ![w].fn = "none", ![w].ctx = "none"]
    /\ UNCHANGED <<requests, listVars, doneVars>>

\* Whatever function was called, an exception becomes a 500 answer.
LuaThrows(w) ==
    /\ Runs(w, work[w].fn)
    /\ Answer(w, work[w].cmd, 500, 0)
    /\ UNCHANGED <<requests, stats, events, listVars>>

allowReturns(w) ==
    /\ Runs(w, "allow")
    /\ \E status \in -1 .. 1 :
        /\ Answer(w, "allow", 200, status)
        /\ Bump(IF status < 0 THEN {"denieds"} ELSE IF status > 0 THEN {"allow_tarpitted"} ELSE {"allow_allowed"})
    /\ Raise("allow")
    /\ UNCHANGED <<requests, listVars>>

reportReturns(w) ==
    /\ Runs(w, "report")
    /\ Answer(w, "report", 200, 0)
    /\ Raise("report")
    /\ UNCHANGED <<requests, stats, listVars>>

\* The function of reset says whether it worked; the event is raised anyway.
resetReturns(w) ==
    /\ Runs(w, "reset")
    /\ \E code \in {200, 500} : Answer(w, "reset", code, 0)
    /\ Raise("reset")
    /\ UNCHANGED <<requests, stats, listVars>>

customReturns(w) ==
    /\ Runs(w, "custom")
    /\ Answer(w, "custom", 200, 0)
    /\ UNCHANGED <<requests, stats, events, listVars>>

-----------------------------------------------------------------------------
(***************************************************************************)
(* Requests.                                                               *)
(***************************************************************************)

Arrive(w) ==
    /\ work[w].at = "idle" /\ requests < MaxRequests
    /\ requests' = requests + 1
    /\ UNCHANGED <<listVars, luaVars>>

\* ACLFilter or LoginFilter turns the request away before its handler runs.
doFilterRefuses(w, cmd) ==
    /\ Arrive(w)
    /\ Answer(w, cmd, 401, 0)
    /\ UNCHANGED <<stats, events>>

Received(cmd) == IF cmd = "allow" THEN {"allows"} ELSE {}

\* The body is no JSON, or the login tuple or an address in it does not parse.
ParseFails(w, cmd) ==
    /\ cmd \notin ShowCmds \union {"stats"} /\ Arrive(w)
    /\ \/ Answer(w, cmd, 400, 0)
       \/ cmd \notin {"custom", "getDBStats"} /\ Answer(w, cmd, 500, 0)
    /\ Bump(Received(cmd))
    /\ UNCHANGED events

\* The handler starts. A login is canonicalized by Lua first; a login tuple has
\* one, be it empty.
Handle(w, cmd, fields) ==
    /\ Arrive(w)
    /\ Bump(Received(cmd))
    /\ LET start == [Idle EXCEPT !.cmd = cmd, !.fields = fields,
                                 !.always = IF cmd \in ReadCmds THEN lists ELSE @,
                                 !.ever = IF cmd \in ReadCmds THEN lists ELSE @]
       IN work' = [work EXCEPT ![w] =
            IF cmd = "custom" THEN [start EXCEPT !.at = "get", !.fn = "custom"]
            ELSE IF cmd \in {"allow", "report"} \/ "login" \in fields THEN [start EXCEPT !.at = "get", !.fn = "canonicalize"]
            ELSE [start EXCEPT !.at = "act"]]
    /\ answered' = [answered EXCEPT ![w] = NoAnswer]
    /\ UNCHANGED events

\* Which list entry the fields of a request are about.
KeyFor(fields) ==
    IF {"login", "ip"} \subseteq fields THEN "iplogin"
    ELSE IF {"ja3", "ip"} \subseteq fields THEN "ipja3"
    ELSE IF "login" \in fields THEN "login"
    ELSE IF "ja3" \in fields THEN "ja3"
    ELSE "ip"

\* The histories of the requests that read the lists, when a list becomes keys.
Noted(works, l, keys) ==
    [w \in Workers |->
        IF works[w].cmd \in ReadCmds
        THEN [works[w] EXCEPT !.always[l] = @ \intersect keys, !.ever[l] = @ \union keys]
        ELSE works[w]]

SetList(l, keys) == lists' = [lists EXCEPT ![l] = keys] /\ UNCHANGED builtin

\* parseAddDelBLWLEntryCmd: it answers 500 if no field, or both a login and a
\* hash, are given, or if expire_secs or reason is missing.
parseAddDelBLWLEntryCmd(w) ==
    LET cmd == work[w].cmd
        fields == work[w].fields
        l == ListCmd[cmd][1]
        adds == ListCmd[cmd][2]
        keys == IF adds THEN lists[l] \union {KeyFor(fields)} ELSE lists[l] \ {KeyFor(fields)}
        wrong == fields = {} \/ {"login", "ja3"} \subseteq fields
    IN
    /\ work[w].at = "act" /\ cmd \in ListCmds
    /\ \/ /\ ~wrong
          /\ SetList(l, keys)
          /\ answered' = [answered EXCEPT ![w] = <<cmd, 200, 0>>]
          /\ work' = [Noted(work, l, keys) EXCEPT ![w] = Idle]
       \/ /\ wrong \/ adds
          /\ Answer(w, cmd, 500, 0)
          /\ UNCHANGED listVars
    /\ UNCHANGED <<requests, stats, events, luaVars>>

\* parseReportCmd: count the report, then call Lua.
parseReportCmd(w) ==
    /\ work[w].at = "act" /\ work[w].cmd = "report"
    /\ Bump({"reports"})
    /\ CallLua(w, "report")
    /\ UNCHANGED <<requests, answered, events, listVars, luaVars>>

\* parseResetCmd: the entry leaves the blacklist before Lua is called. Without
\* any field nothing is reset, but the event is raised all the same.
parseResetCmd(w) ==
    LET fields == work[w].fields
        keys == lists["bl"] \ {KeyFor(fields)}
    IN
    /\ work[w].at = "act" /\ work[w].cmd = "reset"
    /\ IF {"login", "ja3"} \subseteq fields
       THEN Answer(w, "reset", 500, 0) /\ UNCHANGED <<events, listVars>>
       ELSE IF fields \intersect {"ip", "login", "ja3"} = {}
       THEN Answer(w, "reset", 400, 0) /\ Raise("reset") /\ UNCHANGED listVars
       ELSE /\ SetList("bl", keys)
            /\ work' = [Noted(work, "bl", keys) EXCEPT ![w].at = "get", ![w].fn = "reset"]
            /\ UNCHANGED <<answered, events>>
    /\ UNCHANGED <<requests, stats, luaVars>>

-----------------------------------------------------------------------------
(***************************************************************************)
(* parseAllowCmd, after the login has been canonicalized.                  *)
(***************************************************************************)

\* Without a hash among the attributes only three kinds of keys are looked up.
Applies(w, key) == key \in {"ja3", "ipja3"} => "ja3" \in work[w].fields

ListAt(p) == IF p <= Len(KeyOrder) THEN "wl" ELSE "bl"
KeyAt(p) == KeyOrder[((p - 1) % Len(KeyOrder)) + 1]
NextList(p) == IF p <= Len(KeyOrder) THEN Len(KeyOrder) + 1 ELSE LastPos + 1

\* mutant: the blacklist hides the whitelist
BothFoundLast(found, l) == {l}

\* The lists on which the client was found, once it is found on l.
BothFound(found, l) == found \union {l}

\* One lookup: the first hit on a list ends the search of it.
getEntry(w) ==
    LET p == work[w].pos
        l == ListAt(p)
    IN
    /\ work[w].cmd = "allow" /\ work[w].at \in {"act", "list"} /\ p <= LastPos
    /\ IF l \in builtin /\ Applies(w, KeyAt(p)) /\ KeyAt(p) \in lists[l]
       THEN work' = [work EXCEPT ![w].at = "list", ![w].pos = NextList(p), ![w].found = BothFound(@, l)]
       ELSE work' = [work EXCEPT ![w].at = "list", ![w].pos = IF l \in builtin THEN p + 1 ELSE NextList(p)]
    /\ UNCHANGED <<requests, listVars, luaVars, doneVars>>

\* Both lists have been looked at. A listed client is answered at once: the
\* whitelist decides the status, and the blacklist counts it as denied.
decide(w) ==
    LET found == work[w].found IN
    /\ work[w].cmd = "allow" /\ work[w].at = "list" /\ work[w].pos > LastPos
    /\ IF found = {}
       THEN CallLua(w, "allow") /\ UNCHANGED doneVars
       ELSE /\ Answer(w, "allow", 200, IF "wl" \in found THEN 0 ELSE -1)
            /\ Bump((IF "bl" \in found THEN {"denieds", "allow_blacklisted"} ELSE {})
                    \union (IF "wl" \in found THEN {"allow_whitelisted"} ELSE {}))
            /\ Raise("allow")
    /\ UNCHANGED <<requests, listVars, luaVars>>

-----------------------------------------------------------------------------
(***************************************************************************)
(* The commands that only read.                                            *)
(***************************************************************************)

parseStatsCmd(w) ==
    /\ work[w].at = "act" /\ work[w].cmd = "stats"
    /\ Answer(w, "stats", 200, 0)
    /\ UNCHANGED <<requests, stats, events, listVars, luaVars>>

\* The entries of a list are collected from one of its five maps after the other.
ShowOrder == <<"ip", "login", "iplogin", "ja3", "ipja3">>

parseGetBLWLCmd(w) ==
    /\ work[w].at = "act" /\ work[w].cmd \in ShowCmds
    /\ LET p == work[w].pos IN
       IF p <= Len(ShowOrder)
       THEN /\ work' = [work EXCEPT ![w].pos = p + 1, ![w].found = @ \union ({ShowOrder[p]} \intersect lists[ShownList[work[w].cmd]])]
            /\ UNCHANGED answered
       ELSE Answer(w, work[w].cmd, 200, 0)
    /\ UNCHANGED <<requests, stats, events, listVars, luaVars>>

\* mutant: the whitelist is not asked about a client that is blacklisted
StatsOrderOnce(w) == IF "bl" \in work[w].found THEN <<"bl">> ELSE <<"bl", "wl">>

\* The lists parseGetStatsCmd asks, enabled or not.
StatsOrder(w) == <<"bl", "wl">>

\* parseGetStatsCmd: both lists are asked about the one key the fields give.
parseGetStatsCmd(w) ==
    LET fields == work[w].fields
        p == work[w].pos
        wrong == fields \intersect {"ip", "login", "ja3"} = {} \/ {"login", "ja3"} \subseteq fields
    IN
    /\ work[w].at = "act" /\ work[w].cmd = "getDBStats"
    /\ IF wrong THEN Answer(w, "getDBStats", 400, 0)
       ELSE IF p > Len(StatsOrder(w)) THEN Answer(w, "getDBStats", 200, 0)
       ELSE LET l == StatsOrder(w)[p] IN
            /\ work' = [work EXCEPT ![w].pos = p + 1, ![w].found = IF KeyFor(fields) \in lists[l] THEN @ \union {l} ELSE @]
            /\ UNCHANGED answered
    /\ UNCHANGED <<requests, stats, events, listVars, luaVars>>

-----------------------------------------------------------------------------
(***************************************************************************)
(* What else goes on.                                                      *)
(***************************************************************************)

\* An entry expires, is replicated from a sibling, or is added or removed by
\* Lua code.
Change(l, k) ==
    LET keys == IF k \in lists[l] THEN lists[l] \ {k} ELSE lists[l] \union {k} IN
    /\ SetList(l, keys)
    /\ work' = Noted(work, l, keys)
    /\ UNCHANGED <<requests, luaVars, doneVars>>

\* controlClientThread runs a command in one context after the other, each
\* under its lock, and in the console's own state last. An error ends it.
consoleCommand ==
    /\ console = <<>> /\ commands < MaxConsole
    /\ console' = lua_read_only
    /\ commands' = commands + 1
    /\ UNCHANGED <<lua_pool, mutex, work, requests, listVars, doneVars>>

\* mutant: the console does not care whether a worker runs the context
consoleLockNot ==
    /\ console # <<>> /\ mutex[Head(console)] # "console"
    /\ mutex' = [mutex EXCEPT ![Head(console)] = "console"]
    /\ UNCHANGED <<lua_pool, console, commands, work, requests, listVars, doneVars>>

consoleLock ==
    /\ console # <<>> /\ mutex[Head(console)] = "none"
    /\ mutex' = [mutex EXCEPT ![Head(console)] = "console"]
    /\ UNCHANGED <<lua_pool, console, commands, work, requests, listVars, doneVars>>

consoleRun ==
    /\ console # <<>> /\ mutex[Head(console)] = "console"
    /\ mutex' = [mutex EXCEPT ![Head(console)] = "none"]
    /\ console' \in {Tail(console), <<>>}
    /\ UNCHANGED <<lua_pool, commands, work, requests, listVars, doneVars>>

-----------------------------------------------------------------------------
LuaReturns(w) ==
    canonicalizeReturns(w) \/ allowReturns(w) \/ reportReturns(w) \/ resetReturns(w) \/ customReturns(w) \/ LuaThrows(w)

Step(w) ==
    \/ getPoolMember(w) \/ lockContext(w) \/ LuaReturns(w)
    \/ parseAddDelBLWLEntryCmd(w) \/ parseReportCmd(w) \/ parseResetCmd(w)
    \/ getEntry(w) \/ decide(w)
    \/ parseStatsCmd(w) \/ parseGetBLWLCmd(w) \/ parseGetStatsCmd(w)

Next ==
    \/ \E w \in Workers, i \in Inputs :
        doFilterRefuses(w, i.cmd) \/ ParseFails(w, i.cmd) \/ Handle(w, i.cmd, i.fields)
    \/ \E w \in Workers : Step(w)
    \/ \E c \in Changeable : Change(c[1], c[2])
    \/ consoleCommand \/ consoleLock \/ consoleRun

Spec == Init /\ [][Next]_vars

-----------------------------------------------------------------------------
\* A worker that wants a Lua context finds one in the pool, because every way out
\* of a Lua call, an exception included, gives it back. A context runs one thread
\* at a time: no two workers have the same one, and none that is taken is in the
\* pool. Whoever holds the lock of a context is running Lua in it and waits for
\* nobody, so that workers and the console, which takes the contexts in another
\* order, never block each other for good.
ContextsAreExclusive ==
    /\ TypeOK
    /\ \A w \in Workers : work[w].at = "get" => lua_pool # <<>>
    /\ \A v, w \in Workers : v # w /\ work[v].ctx # "none" => work[v].ctx # work[w].ctx
    /\ \A w \in Workers : work[w].ctx \notin {lua_pool[i] : i \in DOMAIN lua_pool}
    /\ \A w \in Workers : work[w].at = "run" => mutex[work[w].ctx] = w
    /\ \A c \in Contexts :
        /\ mutex[c] = "console" => console # <<>> /\ c = Head(console)
        /\ mutex[c] \in Workers => work[mutex[c]].at = "run" /\ work[mutex[c]].ctx = c

Listed(history, w, l) == l \in builtin /\ \E k \in history[l] : Applies(w, k)

\* The answer to allow respects the lists however they change meanwhile. A
\* client that is on the whitelist from beginning to end is let in; one that is
\* on the blacklist from beginning to end and never on the whitelist is
\* rejected; Lua decides about one that is never on a list, and not about one
\* that is on a list all the time.
ListsAreHonoured ==
    [][\A w \in Workers, status \in -1 .. 1 :
        work[w].cmd = "allow" /\ work'[w].cmd = "none" /\ answered'[w] = <<"allow", 200, status>> =>
            LET always == work[w].always
                ever == work[w].ever
                lua == work[w].fn = "allow"
            IN
            /\ Listed(always, w, "wl") => status = 0
            /\ Listed(always, w, "bl") /\ ~Listed(ever, w, "wl") => status = -1
            /\ ~Listed(ever, w, "wl") /\ ~Listed(ever, w, "bl") => lua
            /\ Listed(always, w, "wl") \/ Listed(always, w, "bl") => ~lua]_vars

\* The commands that show the lists read them piece by piece while they change:
\* getBL and getWL show every kind of entry that was there from beginning to end
\* and none that never was, and getDBStats says so of both lists for the entry it
\* is asked about.
ShownAsListed ==
    [][\A w \in Workers :
        LET cmd == work[w].cmd
            shown == work[w].found
            always == work[w].always
            ever == work[w].ever
            key == KeyFor(work[w].fields)
        IN
        work'[w].cmd = "none" /\ answered'[w] = <<cmd, 200, 0>> =>
            /\ cmd \in ShowCmds => always[ShownList[cmd]] \subseteq shown /\ shown \subseteq ever[ShownList[cmd]]
            /\ cmd = "getDBStats" =>
                \A l \in Lists : (key \in always[l] => l \in shown) /\ (l \in shown => key \in ever[l])]_vars
=============================================================================

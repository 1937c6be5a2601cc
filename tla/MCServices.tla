----------------------------- MODULE MCServices -----------------------------
(***************************************************************************)
(* The services that requests and Lua use, for TLC. They share nothing, so *)
(* a behaviour is about one of them:                                       *)
(*   - web hooks, with a hook for events, one that is not valid, and a     *)
(*     custom hook whose id is also that of the first, and three events of *)
(*     one caller or two events of two;                                    *)
(*   - DNS lookups by two threads, with two contexts or none and at most   *)
(*     two resolvers;                                                      *)
(*   - GeoIP lookups, for each kind of database.                           *)
(***************************************************************************)
EXTENDS WebHooks, Resolver, GeoIP

CONSTANTS c1, c2, t1, t2, h1, h2, custom

MCHookId == (h1 :> 1) @@ (h2 :> 2) @@ (custom :> 1)

VARIABLE subject

MCInit ==
    /\ subject \in {"webhooks", "dns", "geoip"}
    /\ Init /\ ResolverInit /\ GeoInit
    /\ subject # "geoip" => kinds = {"country"} /\ files = [d \in DBSet |-> 0]

MCNext ==
    /\ UNCHANGED subject
    /\ \/ subject = "webhooks" /\ Next /\ (raised' = 3 => event'[c2] = 0) /\ UNCHANGED <<resolverVars, geoVars>>
       \/ subject = "dns" /\ ResolverNext /\ UNCHANGED <<vars, geoVars>>
       \/ subject = "geoip" /\ GeoNext /\ UNCHANGED <<vars, resolverVars>>

allVars == <<subject, vars, resolverVars, geoVars>>

\* Threads that can run do run, every post ends, because curl is given a timeout,
\* and so does every query, because getdns is. One thread is never able to do two
\* of these things at once.
MCSpec ==
    /\ MCInit /\ [][MCNext]_allVars
    /\ \A c \in Callers : WF_vars(subject = "webhooks" /\ (runHook(c) \/ notify_one(c)))
    /\ \A t \in Threads : WF_vars(subject = "webhooks" /\ (Take(t) \/ _runHooks(t)))
    /\ \A t \in LookupThreads : WF_resolverVars(subject = "dns" /\ LookupStep(t))
=============================================================================

------------------------------ MODULE Resolver ------------------------------
(***************************************************************************)
(* WFResolver (common/dns_lookup.cc): DNS lookups that Lua makes from      *)
(* several threads through a pool of getdns contexts.                      *)
(*                                                                         *)
(* mutx is held for single steps and is not modelled; the mutex of a       *)
(* context is held for a whole lookup, its retries included. getdns itself *)
(* is external: it may fail to create a context, and a query ends with an  *)
(* answer, an error or a timeout.                                          *)
(***************************************************************************)
EXTENDS Integers, Sequences

CONSTANTS
    LookupThreads, \* threads that call the lookup functions
    NumContexts,   \* values of num_contexts
    RequestTimeouts, \* values of req_timeout
    NUM_GETDNS_CONTEXTS, \* the initial ones
    DNS_REQUEST_TIMEOUT,
    RetryCounts,   \* values of the num_retries argument
    SizeT,         \* size_t wraps at this number
    MaxResolvers,  \* bound: length of the list of resolvers
    MaxLookups     \* bound: number of lookups

ASSUME ResolverAssumption ==
    /\ "unlocked" \notin LookupThreads
    /\ NumContexts \subseteq Nat /\ NUM_GETDNS_CONTEXTS \in NumContexts
    /\ DNS_REQUEST_TIMEOUT \in RequestTimeouts /\ MaxLookups \in Nat
    /\ SizeT \in Nat \ {0} /\ MaxResolvers \in 0 .. SizeT - 1 /\ RetryCounts \subseteq 0 .. SizeT - 1

VARIABLES
    resolver_list, \* number of resolvers in it
    req_timeout,
    num_contexts,
    dnsContexts,   \* contexts: per context, the resolvers and the timeout it was made with
    context_index,
    context_mutex, \* per context, who holds its mutex
    lookup,        \* per thread, the lookup it makes
    lookups,       \* number of lookups so far
    failing,       \* a context could not be created
    crashed        \* a context was read past the end of the vector

resolverVars == <<resolver_list, req_timeout, num_contexts, dnsContexts, context_index, context_mutex, lookup, lookups,
                  failing, crashed>>
poolVars == <<resolver_list, req_timeout, num_contexts, dnsContexts, context_index, failing, crashed>>

Unlocked == "unlocked"
NoLookup == [at |-> "idle", kind |-> "none", asked |-> 0, seen |-> 0, num_retries |-> 0, ctx |-> 0, queries |-> 0]

ResolverTypeOK ==
    /\ resolver_list \in 0 .. MaxResolvers
    /\ req_timeout \in RequestTimeouts /\ num_contexts \in NumContexts
    /\ dnsContexts \in Seq([upstreams : 0 .. MaxResolvers, timeout : RequestTimeouts]) /\ Len(dnsContexts) <= num_contexts
    /\ context_index \in 0 .. num_contexts
    /\ context_mutex \in [DOMAIN dnsContexts -> LookupThreads \union {Unlocked}]
    /\ \A t \in LookupThreads :
        /\ lookup[t].at \in {"idle", "resolvers", "context", "lock", "query"}
        /\ lookup[t].num_retries \in 0 .. SizeT - 1
        /\ lookup[t].at \in {"lock", "query"} => lookup[t].ctx \in DOMAIN dnsContexts
    /\ lookups \in 0 .. MaxLookups
    /\ failing \in BOOLEAN /\ crashed \in BOOLEAN

ResolverInit ==
    /\ resolver_list = 0
    /\ req_timeout = DNS_REQUEST_TIMEOUT /\ num_contexts = NUM_GETDNS_CONTEXTS
    /\ dnsContexts = <<>> /\ context_index = 0 /\ context_mutex = <<>>
    /\ lookup = [t \in LookupThreads |-> NoLookup] /\ lookups = 0
    /\ failing = FALSE /\ crashed = FALSE

-----------------------------------------------------------------------------
(***************************************************************************)
(* Setting up.                                                             *)
(***************************************************************************)

set_request_timeout(ms) ==
    /\ req_timeout' = ms
    /\ UNCHANGED <<resolver_list, num_contexts, dnsContexts, context_index, context_mutex, lookup, lookups, failing, crashed>>

\* Only before any contexts are created.
set_num_contexts(nc) ==
    /\ dnsContexts = <<>>
    /\ num_contexts' = nc
    /\ UNCHANGED <<resolver_list, req_timeout, dnsContexts, context_index, context_mutex, lookup, lookups, failing, crashed>>

\* An address that cannot be parsed throws before anything is done.
add_resolver ==
    /\ resolver_list < MaxResolvers
    /\ resolver_list' = resolver_list + 1
    /\ UNCHANGED <<req_timeout, num_contexts, dnsContexts, context_index, context_mutex, lookup, lookups, failing, crashed>>

\* A context has the resolvers and the timeout of this moment.
create_dns_context == [upstreams |-> resolver_list, timeout |-> req_timeout]

\* Contexts that cannot be created are left out.
init_dns_contexts ==
    IF dnsContexts = <<>> THEN {[i \in 1 .. n |-> create_dns_context] : n \in 0 .. num_contexts} ELSE {dnsContexts}

-----------------------------------------------------------------------------
(***************************************************************************)
(* A lookup.                                                               *)
(***************************************************************************)

Begin(t, kind, n) ==
    /\ lookup[t].at = "idle" /\ lookups < MaxLookups
    /\ lookups' = lookups + 1
    /\ lookup' = [lookup EXCEPT ![t] = [NoLookup EXCEPT !.at = "resolvers", !.kind = kind, !.asked = n]]
    /\ UNCHANGED <<poolVars, context_mutex>>

lookup_address_by_name(t, n) == Begin(t, "address", n)
lookup_name_by_address(t, n) == Begin(t, "name", n)

\* Builds a name from the address and looks that up.
lookupRBL(t, n) == lookup_address_by_name(t, n)

\* mutant: no limit on the retries
RetriesUnlimited(asked, num_resolvers) == asked

\* No more retries than there are other resolvers; with an empty list the
\* difference wraps.
Retries(asked, num_resolvers) == IF asked >= num_resolvers THEN (num_resolvers - 1) % SizeT ELSE asked

ReadResolvers(t) ==
    /\ lookup[t].at = "resolvers"
    /\ lookup' = [lookup EXCEPT ![t].at = "context", ![t].seen = resolver_list,
                                ![t].num_retries = Retries(lookup[t].asked, resolver_list)]
    /\ UNCHANGED <<poolVars, context_mutex, lookups>>

\* Round robin over num_contexts, which may be more than there are.
get_dns_context(t) ==
    /\ lookup[t].at = "context"
    /\ \E cs \in init_dns_contexts :
        LET i == IF context_index >= num_contexts THEN 0 ELSE context_index IN
        /\ dnsContexts' = cs
        /\ failing' = (failing \/ (dnsContexts = <<>> /\ Len(cs) < num_contexts))
        /\ context_mutex' = IF dnsContexts = <<>> THEN [c \in DOMAIN cs |-> Unlocked] ELSE context_mutex
        /\ IF cs = <<>>
           THEN lookup' = [lookup EXCEPT ![t] = NoLookup] /\ UNCHANGED <<context_index, crashed>>
           ELSE /\ context_index' = i + 1
                /\ IF i < Len(cs)
                   THEN lookup' = [lookup EXCEPT ![t].at = "lock", ![t].ctx = i + 1] /\ UNCHANGED crashed
                   ELSE crashed' = TRUE /\ UNCHANGED lookup
    /\ UNCHANGED <<resolver_list, req_timeout, num_contexts, lookups>>

LockContext(t) ==
    /\ lookup[t].at = "lock" /\ context_mutex[lookup[t].ctx] = Unlocked
    /\ context_mutex' = [context_mutex EXCEPT ![lookup[t].ctx] = t]
    /\ lookup' = [lookup EXCEPT ![t].at = "query"]
    /\ UNCHANGED <<poolVars, lookups>>

\* mutant: the mutex is kept
ReturnLocked(t) ==
    /\ lookup' = [lookup EXCEPT ![t] = NoLookup]
    /\ UNCHANGED <<poolVars, lookups, context_mutex>>

\* The lookup is over.
Return(t) ==
    /\ lookup' = [lookup EXCEPT ![t] = NoLookup]
    /\ context_mutex' = [context_mutex EXCEPT ![lookup[t].ctx] = Unlocked]
    /\ UNCHANGED <<poolVars, lookups>>

\* All resolvers of the context time out: once more.
Retry(t) ==
    /\ lookup[t].num_retries > 0
    /\ lookup' = [lookup EXCEPT ![t].num_retries = @ - 1, ![t].queries = @ + 1]
    /\ UNCHANGED <<poolVars, context_mutex, lookups>>

\* The answers are taken from a response with status good.
do_lookup_address_by_name_async(t, status) ==
    /\ lookup[t].at = "query" /\ lookup[t].kind = "address"
    /\ \/ status = "timeout" /\ Retry(t)
       \/ (status = "timeout" => lookup[t].num_retries = 0) /\ Return(t)

\* The retries of a lookup by address are not asynchronous.
do_lookup_name_by_address_async(t, status) ==
    /\ lookup[t].at = "query" /\ lookup[t].kind = "name" /\ lookup[t].queries = 0
    /\ \/ status = "timeout" /\ Retry(t)
       \/ (status = "timeout" => lookup[t].num_retries = 0) /\ Return(t)

do_lookup_name_by_address(t, status) ==
    /\ lookup[t].at = "query" /\ lookup[t].kind = "name" /\ lookup[t].queries > 0
    /\ \/ status = "timeout" /\ Retry(t)
       \/ (status = "timeout" => lookup[t].num_retries = 0) /\ Return(t)

Statuses == {"good", "error", "timeout"}

-----------------------------------------------------------------------------
LookupStep(t) ==
    /\ ~crashed
    /\ \/ ReadResolvers(t) \/ get_dns_context(t) \/ LockContext(t)
       \/ \E status \in Statuses :
            \/ do_lookup_address_by_name_async(t, status)
            \/ do_lookup_name_by_address_async(t, status)
            \/ do_lookup_name_by_address(t, status)

ResolverNext ==
    \/ ~crashed /\ add_resolver
    \/ ~crashed /\ \E ms \in RequestTimeouts : ms # req_timeout /\ set_request_timeout(ms)
    \/ ~crashed /\ \E nc \in NumContexts : nc # num_contexts /\ set_num_contexts(nc)
    \/ ~crashed /\ \E t \in LookupThreads, n \in RetryCounts :
            lookup_address_by_name(t, n) \/ lookupRBL(t, n) \/ lookup_name_by_address(t, n)
    \/ \E t \in LookupThreads : LookupStep(t)

ResolverSpec == ResolverInit /\ [][ResolverNext]_resolverVars

-----------------------------------------------------------------------------
\* A getdns context, which only one thread may use at a time, is never used by
\* two lookups; and a lookup sends no more queries than it was asked to, nor than
\* there were resolvers, unless it began when there were none, so that its retries
\* wrapped. It reads past the contexts only if some could not be created.
LookupsAreBounded ==
    /\ ResolverTypeOK
    /\ \A t \in LookupThreads :
        lookup[t].at = "query" =>
            /\ context_mutex[lookup[t].ctx] = t
            /\ lookup[t].queries > lookup[t].asked => lookup[t].seen = 0
            /\ lookup[t].queries >= lookup[t].seen => lookup[t].seen = 0
    /\ crashed => failing

\* Every lookup returns, however its queries end, although it holds the mutex of
\* its context through all its retries.
LookupsReturn == \A t \in LookupThreads : lookup[t].at # "idle" ~> (lookup[t].at = "idle" \/ crashed)
=============================================================================

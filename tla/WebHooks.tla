------------------------------ MODULE WebHooks ------------------------------
(***************************************************************************)
(* WebHookRunner (common/webhook.cc), with the hooks of the two WebHookDBs *)
(* and the MiniCurlMulti of each runner thread.                            *)
(*                                                                         *)
(* An item of the queue is an event, by number, and the hook it is for.    *)
(***************************************************************************)
EXTENDS Integers, Sequences, FiniteSets, SequencesExt

CONSTANTS
    Callers,         \* threads that raise events
    Threads,         \* runner threads
    WebHookSet,      \* hooks that can be registered for events
    CustomSet,       \* custom hooks, which Lua runs by name
    HookId,          \* their ids; the two databases number independently
    Invalid,         \* hooks without their mandatory configuration keys
    max_queue_size,
    num_conns,       \* connections of a runner thread
    MaxEvents        \* bound: number of events raised

Hooks == WebHookSet \union CustomSet

ASSUME WebHooksAssumption ==
    /\ HookId \in [Hooks -> Nat]
    /\ WebHookSet \intersect CustomSet = {}
    /\ Invalid \subseteq Hooks
    /\ max_queue_size \in Nat /\ num_conns \in Nat \ {0} /\ MaxEvents \in Nat

VARIABLES
    webhooks,  \* hooks in the databases
    raised,    \* number of events raised
    event,     \* per caller, the event it is working on
    pending,   \* per caller, the hooks it has still to run
    notifying, \* callers that have queued an item and not yet notified
    queue,
    gauge,     \* the Prometheus gauge of the size of the queue
    thread,    \* per thread, "check", "waiting" or "posting"
    batch,     \* per thread, the items it has taken
    succeeded, \* num_success of every hook
    failed,    \* num_failed of every hook
    due,       \* history: what every event was raised for
    dropped,   \* history: items refused by a full queue
    posted,    \* history: how often an item was handed to curl
    unreported \* history: items whose result curl did not report

vars == <<webhooks, raised, event, pending, notifying, queue, gauge, thread, batch, succeeded, failed,
          due, dropped, posted, unreported>>

callerVars == <<raised, event, pending, notifying, due, dropped>>
threadVars == <<batch, succeeded, failed, posted, unreported>>

Items == [event : 1 .. MaxEvents, hook : Hooks]

TypeOK ==
    /\ webhooks \subseteq Hooks \ Invalid
    /\ raised \in 0 .. MaxEvents
    /\ event \in [Callers -> 0 .. MaxEvents]
    /\ pending \in [Callers -> SUBSET Hooks]
    /\ notifying \subseteq Callers
    /\ queue \in Seq(Items) /\ Len(queue) <= max_queue_size
    /\ gauge \in 0 .. max_queue_size
    /\ thread \in [Threads -> {"check", "waiting", "posting"}]
    /\ \A t \in Threads : batch[t] \in Seq(Items) /\ (batch[t] # <<>> <=> thread[t] = "posting")
    /\ succeeded \in [Hooks -> Nat] /\ failed \in [Hooks -> Nat]
    /\ due \subseteq Items /\ dropped \subseteq due
    /\ posted \in [Items -> Nat]
    /\ unreported \subseteq Items

Init ==
    /\ webhooks = {}
    /\ raised = 0
    /\ event = [c \in Callers |-> 0]
    /\ pending = [c \in Callers |-> {}]
    /\ notifying = {}
    /\ queue = <<>>
    /\ gauge = 0
    /\ thread = [t \in Threads |-> "check"]
    /\ batch = [t \in Threads |-> <<>>]
    /\ succeeded = [h \in Hooks |-> 0]
    /\ failed = [h \in Hooks |-> 0]
    /\ due = {}
    /\ dropped = {}
    /\ posted = [i \in Items |-> 0]
    /\ unreported = {}

-----------------------------------------------------------------------------
(***************************************************************************)
(* Registering hooks and raising events.                                   *)
(***************************************************************************)

\* addWebHook and addCustomWebHook: a hook that does not validate is not
\* registered. getNewID never gives out an id twice within a database.
addWebHook(h) ==
    /\ h \notin webhooks
    /\ webhooks' = IF h \in Invalid THEN webhooks ELSE webhooks \union {h}
    /\ UNCHANGED <<queue, gauge, thread, callerVars, threadVars>>

\* A caller is about to run these hooks for a new event.
Start(c, hooks) ==
    /\ pending[c] = {} /\ c \notin notifying /\ raised < MaxEvents
    /\ raised' = raised + 1
    /\ event' = [event EXCEPT ![c] = raised + 1]
    /\ pending' = [pending EXCEPT ![c] = hooks]
    /\ due' = due \union {[event |-> raised + 1, hook |-> h] : h \in hooks}
    /\ UNCHANGED <<webhooks, notifying, dropped, queue, gauge, thread, threadVars>>

\* A handler raises an event: getWebHooksForEvent lists the hooks that are
\* registered for it, and the handler runs them one by one.
getWebHooksForEvent(c) == Start(c, webhooks \intersect WebHookSet)

\* Lua runs a custom hook by its name.
runCustomWebHook(c) == \E h \in webhooks \intersect CustomSet : Start(c, {h})

\* runHook up to the end of its lock: a full queue drops the item.
runHook(c) ==
    \E h \in pending[c] :
        LET item == [event |-> event[c], hook |-> h] IN
        /\ c \notin notifying
        /\ pending' = [pending EXCEPT ![c] = @ \ {h}]
        /\ IF Len(queue) >= max_queue_size
           THEN dropped' = dropped \union {item} /\ UNCHANGED <<queue, gauge, notifying>>
           ELSE /\ queue' = Append(queue, item)
                /\ gauge' = Len(queue')
                /\ notifying' = notifying \union {c}
                /\ UNCHANGED dropped
        /\ UNCHANGED <<webhooks, raised, event, due, thread, threadVars>>

\* notify_one wakes one of the waiting threads, and is lost if there is none.
notify_one(c) ==
    /\ c \in notifying
    /\ notifying' = notifying \ {c}
    /\ IF \E t \in Threads : thread[t] = "waiting"
       THEN \E t \in Threads : thread[t] = "waiting" /\ thread' = [thread EXCEPT ![t] = "check"]
       ELSE UNCHANGED thread
    /\ UNCHANGED <<webhooks, raised, event, pending, due, dropped, queue, gauge, threadVars>>

-----------------------------------------------------------------------------
(***************************************************************************)
(* The runner threads.                                                     *)
(***************************************************************************)

Smaller(m, n) == IF m < n THEN m ELSE n

\* How many items a thread takes at once.
BatchSize == Smaller(Len(queue), num_conns)

\* _runHookThread under queue_mutex: wait, or take a batch.
Take(t) ==
    /\ thread[t] = "check" /\ queue # <<>>
    /\ thread' = [thread EXCEPT ![t] = "posting"]
    /\ batch' = [batch EXCEPT ![t] = SubSeq(queue, 1, BatchSize)]
    /\ queue' = SubSeq(queue, BatchSize + 1, Len(queue))
    /\ UNCHANGED <<webhooks, callerVars, gauge, succeeded, failed, posted, unreported>>

Wait(t) ==
    /\ thread[t] = "check" /\ queue = <<>>
    /\ thread' = [thread EXCEPT ![t] = "waiting"]
    /\ UNCHANGED <<webhooks, callerVars, queue, gauge, threadVars>>

SpuriousWakeup(t) ==
    /\ thread[t] = "waiting"
    /\ thread' = [thread EXCEPT ![t] = "check"]
    /\ UNCHANGED <<webhooks, callerVars, queue, gauge, threadVars>>

\* mutant: off by one at the number of connections
addPostOneLess(items) == SubSeq(items, 1, Smaller(Len(items), num_conns - 1))

\* addPost refuses what is more than there are connections; _addHook does not
\* look at what it returns.
addPost(items) == SubSeq(items, 1, Smaller(Len(items), num_conns))

\* What runPost may report: for every post that it succeeded or failed, or
\* nothing when curl itself fails before that post is done.
runPost(items) == [DOMAIN addPost(items) -> {"ok", "failed", "none"}]

\* mutant: results are counted for every hook of the batch with that id
CreditedAll(items, i) == {items[j].hook : j \in {k \in DOMAIN items : HookId[items[k].hook] = HookId[items[i].hook]}}

\* A result carries the id of its hook; it is counted for the first hook of
\* the batch that has this id.
Credited(items, i) ==
    {items[j].hook : j \in {k \in DOMAIN items :
        /\ HookId[items[k].hook] = HookId[items[i].hook]
        /\ \A l \in 1 .. k - 1 : HookId[items[l].hook] # HookId[items[i].hook]}}

Count(items, results, outcome, h) ==
    Cardinality({i \in DOMAIN results : results[i] = outcome /\ h \in Credited(items, i)})

\* _runHooks, after _addHook for every item: post the batch and count.
_runHooks(t) ==
    /\ thread[t] = "posting"
    /\ \E results \in runPost(batch[t]) :
        /\ succeeded' = [h \in Hooks |-> succeeded[h] + Count(batch[t], results, "ok", h)]
        /\ failed' = [h \in Hooks |-> failed[h] + Count(batch[t], results, "failed", h)]
        /\ unreported' = unreported \union {batch[t][i] : i \in {j \in DOMAIN results : results[j] = "none"}}
    /\ posted' = [i \in Items |-> posted[i] + Cardinality({j \in DOMAIN addPost(batch[t]) : batch[t][j] = i})]
    /\ batch' = [batch EXCEPT ![t] = <<>>]
    /\ thread' = [thread EXCEPT ![t] = "check"]
    /\ UNCHANGED <<webhooks, callerVars, queue, gauge>>

-----------------------------------------------------------------------------
Next ==
    \/ \E h \in Hooks : addWebHook(h)
    \/ \E c \in Callers : getWebHooksForEvent(c) \/ runCustomWebHook(c) \/ runHook(c) \/ notify_one(c)
    \/ \E t \in Threads : Take(t) \/ Wait(t) \/ SpuriousWakeup(t) \/ _runHooks(t)

Spec == Init /\ [][Next]_vars

\* Threads that can run do run, and every post ends: curl is given a timeout.
Fairness ==
    /\ \A c \in Callers : WF_vars(runHook(c)) /\ WF_vars(notify_one(c))
    /\ \A t \in Threads : WF_vars(Take(t)) /\ WF_vars(_runHooks(t))

FairSpec == Spec /\ Fairness

-----------------------------------------------------------------------------
PostsOf(id) == {i \in Items : HookId[i.hook] = id /\ posted[i] > 0}

Total(f, id) ==
    FoldSet(LAMBDA h, n : f[h] + n, 0, {h \in Hooks : HookId[h] = id})

\* The successes and failures of the hooks with one id add up to the posts for
\* them, except for those that curl never reported: no item is posted twice, and
\* no result counted twice or passed over.
CountsAddUp ==
    TypeOK /\ \A id \in {HookId[h] : h \in Hooks} :
        Total(succeeded, id) + Total(failed, id) = Cardinality(PostsOf(id) \ unreported)

Outstanding == {i \in due \ dropped : posted[i] = 0}

\* Every hook that an event is raised for gets its post, unless the queue is
\* full at that moment: what is outstanding is worked off when the callers
\* pause (in the model, at the latest after MaxEvents events).
EventsArePosted == Outstanding # {} ~> Outstanding = {}
=============================================================================

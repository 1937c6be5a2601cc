# A TLA+ verification of weakforced

weakforced (`wforce`) answers login servers whether a login may go on. It counts
what is reported to it in time-windowed databases, keeps black- and whitelists,
runs a policy written in Lua, and replicates its state to sibling servers. Two
more daemons belong to it: `trackalert` runs Lua functions on reports and on a
schedule, `replfwd` forwards replication between clusters. This directory holds
TLA+ models of them, their TLC configurations and TLAPS proofs.

## The system and its parts

| Part | Source | Modules |
|---|---|---|
| Time windows of one key and field | `common/twmap.hh` (`TWStatsEntry`) | `TWStatsEntry`, `LuaObjectsProofs` |
| A stats database: shards, expiry, dump, restore | `common/twmap.hh` (`TWStatsDB`), `wforce/twmap-wrapper.cc` | `TWStatsDB`, `TWStatsDBProofs` |
| Black- and whitelists, Redis, purge | `wforce/blackwhitelist.cc`, `wforce/replication_bl.cc` | `BlackWhiteList`, `AddressProofs` |
| Netmask tree of the lists | `common/iputils.hh` | `NetmaskTree` |
| Queue, thread and connection of a sibling | `wforce/wforce-sibling.cc` | `Sibling`, `LossyLink`, `SiblingProofs` |
| Replication, replication forwarder | `wforce/wforce-replication.cc`, `wforce/replfwd-*.cc` | `Replication`, `ReplicationProofs` |
| Warm-up of a starting server | `wforce/wforce.cc`, `wforce/wforce-web.cc` | `WarmUp`, `StartProofs` |
| Web hooks | `common/webhook.cc`, `common/minicurl.cc` | `WebHooks` |
| DNS lookups | `common/dns_lookup.cc` | `Resolver`, `LuaObjectsProofs` |
| GeoIP databases | `common/wforce-geoip.cc` | `GeoIP`, `AddressProofs` |
| REST commands, Lua contexts | `wforce/wforce-web.cc`, `wforce/luastate.hh` | `Commands`, `CommandsProofs` |
| Control console | `wforce/wforce.cc`, `trackalert/trackalert.cc`, `common/sodcrypto.cc` | `Console`, also `Commands`, `DaemonsProofs` |
| trackalert and its scheduler | `trackalert/`, `ext/ext/scheduler/` | `Trackalert`, `DaemonsProofs` |
| Cron lines | `ext/ext/scheduler/Cron.h` | `Cron` |
| Functions given to Lua | `wforce/wforce-lua.cc`, `common/common-lua.cc`, `wforce/replfwd-lua.cc`, `trackalert/trackalert-lua.cc` | `LuaBindings`, `StartProofs` |
| Start of the three daemons | `main` of each | `Setup`, `StartProofs` |

A daemon reads its configuration once in the global Lua state and once in every
context (`Setup`, with the bindings of `LuaBindings`), and then starts threads and
listeners. A web worker takes a request, runs the handler (`Commands`), which reads
lists (`BlackWhiteList`, `NetmaskTree`), calls Lua in a context of the pool, and
raises web hook events (`WebHooks`). Lua counts in a database (`TWStatsDB`, whose
entries are `TWStatsEntry`) and looks up names and addresses (`Resolver`, `GeoIP`).
Changes of databases and lists are handed to every sibling (`Sibling`), received,
and applied or forwarded (`Replication`). A server that starts gets a dump from one
of its sync hosts (`WarmUp`). In trackalert web workers, scheduler threads and
consoles share one pool of contexts (`Trackalert`, which extends `Console`); a cron
function is due when `Cron` says so.

The modules meet at abstractions. `Sibling` is shown to implement `LossyLink`;
`Replication` and `BlackWhiteList` take links of that kind for granted (lists
also allow doubled messages, as UDP may). `TWStatsDB` sees an entry as a value,
`WarmUp` sees it as a count. `BlackWhiteList` sees the tree as the set of its
masks, and `NetmaskTree` shows that looking up means finding the longest of them.
`Trackalert` sees a cron line as a period.

## The modules

**TWStatsEntry.** The ring of windows of every node, with its slots, start time
and time of the last cleaning. A member of a slot is the set of the real times at
which its data was put in, so that the age of what a read returns is visible.
Actions: `Add`, `AddThrows`, `Get`, `GetValue` (asking a HyperLogLog field about a
value adds it), `Reset`, `Dump`, `Restore`, `Tick`. The code reads the clock again
in every helper; `MaxDelay` bounds the time between two of these reads.

**TWStatsDB.** Map and key list of every shard, its size and mutex. A call that
holds the mutex from beginning to end is one step; `restoreEntry` takes it once
per field and a dump keeps it from `startDBDump` to `endDBDump`, so these are
several steps. The model has one restore and one resize at a time.

**BlackWhiteList.** One list of each server, with the tree of masks, and Redis.
Adding and deleting hold the write lock throughout, also while they wait for Redis,
and are one step whose outcomes differ in what Redis answered. `getEntry` takes the
lock twice and is two steps. Servers crash and start again.

**NetmaskTree.** Nodes are paths of bits; the recursion of `cleanup_tree` and the
loop of `lookup` are recursive functions, checked against the set of stored masks.

**Cron.** Parsing the tokens of a line, and the loop of `cron_to_next` step by
step, in a calendar whose sizes are constants, checked against the earliest later
minute that matches.

**Sibling**, **LossyLink.** Producers, queue thread, destructor, connections. A
message written to a connection that has broken unnoticed is lost. A connection
attempt that has timed out may still succeed.

**Replication.** Servers and forwarders with their lists of siblings and keys.
Packets carry the operation, the forwarded mark and the key. `addSibling` checks
and inserts in two steps. A TCP connection is checked when it is accepted, so
that packets of a removed sibling may be read or refused.

**WarmUp.** The starting server asks the sync hosts in turn, each of which may
fail, accept, or accept unheard. Dumped entries and live additions share the
receive queue, from which several workers take.

**WebHooks.** Callers, queue, runner threads and the counters of every hook.

**Resolver.** The list of resolvers, the contexts of getdns, their mutexes, and
the steps of a lookup. A context may fail to be created, a query to be answered.
Numbers of type `size_t` wrap at `SizeT`.

**GeoIP.** Handles, files that are replaced, the read-write lock, a reload that
goes through the databases one by one, and readers.

**Commands.** The steps of every handler between which another thread may act: a
Lua context taken, locked, run and given back; every single lookup of `allow`;
every part of what `getBL`, `getWL` and `getDBStats` read.

**Console.** Clients, the thread of the daemon for each, and the terminal. Texts
are sizes with an owner; nonces, keys and the 16-bit length are as in the code.

**Trackalert.** The map of scheduled functions, the manager thread that sleeps, its
interruption, the thread pool, and the contexts.

**LuaBindings**, **Setup.** A row per function: in which states it is real, empty or
not defined, what it changes, what a bad argument does. `Setup` runs a sequence of
calls in state after state, forks, starts services, runs what was launched, waits
for the web server, and then takes lines from the console.

Modules named `MC...` give constants their values. `MCAlgorithms`, `MCServices` and
`MCDaemons` each check several modules that share nothing: a variable `subject`, or
the kind of start, says which one a behaviour is about. Definitions marked `mutant`
are variants of the definition after them with a plausible mistake; they are used
only to confirm that each property would notice it.

The type invariant of a module is checked by a property of its own for
`TWStatsEntry` and `TWStatsDB`, and is the first conjunct of a main invariant
elsewhere (`ContextsAreExclusive`, `AppliedOnce`, `TransferIsComplete`,
`ReplicasAddNothing`, `CountsAddUp`, `LookupsAreBounded`, `GeoIPStaysUsable`,
`ContextForEveryThread`, `ServesWhenReady`, `FindsLongestMask`, `NextIsEarliest`,
`OrderedPerConnection`).

## What TLC checks

| Run | Bounds | Distinct states | Shows |
|---|---|---|---|
| `entry` | 2 nodes, 2 windows of 2 s, 9 s, 2 writes | 716 591 | windows come newest first; nothing too old is read; a slot holds its own window |
| `statsdb` | 3 keys in 2 shards, 1 dumper | 113 232 | list and map agree; expiry takes the least recently modified; dumps are complete; a shard shrinks again |
| `blwl` | 2 servers with a Redis each, 1 key, 2 requests, faults and crashes; or 1 server, 4 keys of 3 lists, nested masks, 3 requests; 3 s | 260 609 | tree and list agree; no entry lives too long; one event per request; a restart changes nothing; a covered address is found; expired entries of every list go |
| `blwl_ja3` | 1 server whose Redis works | (violation) | a server whose Redis holds a JA3 entry does not start |
| `algorithms` | 2- and 3-bit addresses, 8 masks; all cron lines of a calendar of 20 minutes a year, from 40 minutes | 149 950 | lookup finds the longest mask and no dead branch remains; the next time is the earliest that matches |
| `sibling` | 2 producers, queue of 2, 3 messages, 2 connections | 327 978 | no lost wakeup; order per connection; at most once over TCP; queue drains; destructor returns |
| `replication` | 3 servers, 2 forwarders, 2 operations, 2 changes of siblings | 220 451 | applied once; everyone is reached |
| `replfwd_key` | the same with one key everywhere | (violation) | a destination that has the forwarder's own key gets empty packets |
| `warmup` | 2 sync hosts, 1 key, 2 workers, queue of 2, 2 additions | 819 974 | up only after a transfer; quiet keys agree; the server comes up |
| `services` | web hooks: 2 callers, 2 threads, queue of 2, 3 events, ids that collide; DNS: 2 threads, 0 or 2 contexts, up to 2 resolvers; GeoIP: 2 readers, 4 handles | 174 941 | counters add up; events are posted; a context has one user and retries are bounded; lookups return; no closed database is used |
| `commands` | 2 workers (symmetric), 2 contexts, 2 requests, 1 console command | 1 371 470 | contexts suffice and are exclusive; lists are honoured; what is shown was listed |
| `daemons` | starts of each daemon with each Lua function and with 8 longer files; then 2 console clients, or a client and the terminal, a worker or scheduled functions; 3 contexts, 3 units of time | 187 423 | a daemon follows its file, serves when ready, and comes up or gives up; contexts suffice; no function is lost or doubled and each that is due runs; a console shows what its command printed |

The bounds are the least at which the cases of interest happen: two windows so
that the ring turns over more than once in nine seconds; two keys in one shard so
that their order matters; a queue that fills up; a second connection, so that a
message can be sent again; two threads for every race; months of different length
and a year that is no multiple of the week; console texts of 65 519, 65 520 and
65 536 bytes, around what 16 bits can say. What has no bound in the code and is
counted (time, requests, messages) has a constant `Max...`. `CHECK_DEADLOCK FALSE`
is set where the bounds end a behaviour.

Some restrictions limit what the runs say.

- `entry` runs with clocks that agree and no second beginning within a call, because
  the order of windows is stated for that case; the bound on age is proved without
  the restriction.
- `replication` has one administrator: with two, `addSibling` can be overtaken
  between its check and its insertion, and the sibling is sent everything twice.
- `NextIsEarliest` leaves out the lines for which the code uses a stale day of the
  week, and `LookupsAreBounded` the lookups that begin without a resolver; see below.
- `CoveredIsFound` allows an address not to be found when the entry of its longest
  mask is deleted during the call.
- In `services`, three events are raised by one caller only, two by either.

### Fairness

- `TWStatsDB`: strong fairness for expiry, whose thread wakes up every few
  milliseconds and takes a mutex that is free again and again; weak fairness for
  a dump, whose peer reads or whose connection breaks.
- `BlackWhiteList`: the purge thread, a loop with `sleep(1)`, goes on, and every
  list has its turn.
- `Sibling`, `WebHooks`, `Resolver`: threads that can run do run; a write, post or
  query ends (TCP gives up, curl and getdns have timeouts). Nobody is assumed to
  raise events or to start lookups.
- `Replication`: readers and workers go on. Nothing is assumed of the network; an
  operation of which a packet was lost is excused.
- `WarmUp`: calls over HTTP end, one way or the other. A callback may be lost.
- `MCDaemons`: `main` goes on, threads are scheduled, Lua functions and console
  commands return. Time need not pass, and clients need not send.

## What is proved

For every value of the constants that satisfies the assumptions named in each
module. The properties are hardly ever inductive by themselves; each proof has a
lemma per action for a stronger invariant, described here.

- `EntryTypeOK`, `EntryReadsAreRecent` (`LuaObjectsProofs`): no read of an int or
  countmin field returns data `window_size * (num_windows + 1)` seconds old or
  older, plus twice the delay and the skew. The invariant adds that a slot with data
  has a timestamp, that the data is not older than this timestamp allows, and that a
  ring that has not been cleaned for long will be cleaned before it is read. It also
  covers the entries on the wire. `ClockAssumption` asks for clocks that differ by
  less than a window: otherwise the index of the current window may be negative.
- `EntrySlotsHold`, `EntryNewestFirst` (`LuaObjectsProofs`): the stamp of a slot is the
  start of a window that belongs into it, and `get_windows` lists windows in order.
  The invariant says for every slot, also on the wire, which window it holds and that
  its data is of this window or of the same slot one turn later. `CleanedArray` then
  leaves only windows of the last turn, and the order follows from arithmetic modulo
  the number of windows. Data may be a turn late because `clean_windows` skips calls.
- `DBTrackerMatches` (`TWStatsDBProofs`): the key list of a shard is a list without
  duplicates of the keys of its map. The lemmas say what inserting, splicing and
  dropping do to such a list. The invariant adds the types it needs.
- `DBDumpsComplete` (`TWStatsDBProofs`), for any number of dumps at a time: a dump
  sends every key that stays, and none twice. The invariant says that a dump holds
  the mutex of the shard it walks, that what it sent is of the shards behind it or
  before its position in the list, and that nothing there that stayed is missing.
- `DBEvictsOldest`, `DBTypeOK` (`TWStatsDBProofs`): expiry takes just the keys it must,
  and those that were modified least recently. The history is a relation `earlier`
  between keys, and the invariant says that the list of each shard is in this order,
  so that what is dropped at its end is earlier than all that remains. The types need
  the maps of a shard and the half-restored entry to have only configured fields.
- `BLNetmaskMatches`, `BLReplicasAddNothing` (`AddressProofs`): tree and list
  agree; no entry outlives what was asked for by more than the delay of messages;
  one event per request. The invariant bounds the times stored in Redis in the same
  way, says that a message never asks for more than was requested when it was sent,
  and that no event belongs to a request still to come.
- `BLCoveredIsFound` (`AddressProofs`): `getEntry` looks up mask and entry under
  two locks, and still finds an address covered throughout. The invariant says that
  the mask found first is the longest of those listed throughout, and that its entry
  is missed only if it was deleted since. `MaskAssumption` says that the masks which
  cover an address are ip keys.
- `BLRestartChangesNothing` (`AddressProofs`): a server that could store every
  change has its unexpired entries in Redis, no more and no fewer. It is proved for
  installations with `StoredCompletely`: a Redis per server, replicated entries stored
  as well where there are siblings, and no time to live of zero (`SET ... EX 0` is
  refused, so that Redis keeps the former value). The invariant adds that every
  message underway is one that its receiver will store.
- `SiblingNoLostWakeup` (`SiblingProofs`): the queue thread never waits while there is
  work and nobody about to notify. The invariant adds that the destructor has begun
  exactly when the thread was told to stop, and that the thread does not wait after
  it was notified of that.
- `SiblingOrdered`, `SiblingIsLossyLink` (`SiblingProofs`): the order on a TCP
  connection, and that every step of a sibling is a step of the link or changes
  nothing of it. Messages are numbered as they are handed over; the invariant says
  that what was delivered on a connection, what is written to it, the message being
  sent, and the queue follow each other in this order without overlap.
- `ReplicationAppliedOnce` (`ReplicationProofs`): no server applies an operation twice.
  It is proved for installations that are `Clustered`, as the manual page of `replfwd`
  describes them: a cluster has at most one forwarder, siblings are of the same
  cluster, no address is listed twice, one administrator changes the lists.
  `MCReplication` evaluates the same condition for the instance it checks. The
  invariant says that at most one copy of an operation is on its way to a node, none
  to a server that has applied it, and that nothing has come to the nodes behind a
  forwarder while a copy is still on its way to the forwarder.
- `ResolverBounded` (`LuaObjectsProofs`): a context is used under its mutex only, and
  retries are bounded. The invariant keeps a budget: queries sent and left together
  are no more than asked for and fewer than the resolvers; and the index of the next
  context moves only once the number of contexts is fixed.
- `GeoIPUsable` (`AddressProofs`): no closed database is used, and a reload that returns
  leaves all databases open and up to date. The invariant says that the writer and
  the readers exclude each other, that every database points to an open handle of
  its own, and how far the reload has come.
- `WarmUpComplete` (`StartProofs`): when a host has called back, what it dumped has
  arrived or is on its way, and a quiet key has the same count on both sides. The
  invariant follows each dumped entry through stream, queue and workers, says that
  its count is that of the host unless the key was disturbed, and that additions
  underway since the transfer began are known as such.
- `ContextsStayExclusive` (`CommandsProofs`), for any number of workers and for
  contexts at least as many (`ContextsAssumption`; the manual page says so of
  `setNumLuaStates`): the contexts in the pool and those taken are all different and
  together all there are. A worker that looks for one has none, so the pool is not
  empty by counting. The invariant also says who holds which mutex.
- `ListsStayHonoured`, `ListsAreShown` (`CommandsProofs`): what `allow`, `getBL`,
  `getWL` and `getDBStats` found so far, at each position of their sequence of
  lookups, lies between what was listed throughout the request and what was listed
  at any time during it (`ReadInv`). Each lookup moves the position by one; changes
  of the lists shrink the one history and widen the other. The verdict then follows
  from what was found at the end.

- `DaemonContexts`, `DaemonSchedules`, `DaemonConsole` (`DaemonsProofs`): whoever calls Lua
  in trackalert finds a context and is alone in it; the scheduler loses and doubles no
  function; a console shows what its own command printed. All three follow from one
  invariant, `ConsoleInv /\ DaemonInv`. Its console part lists the states a connection
  can be in (greeting, resting, asking, running, answering, ending), each with the
  nonces of the two ends and what is underway between them, and says whose output is
  in the buffer. Its other part says that a context is in the pool or with one caller,
  who runs Lua under its lock, and that a function is in the map, the queue or a
  thread, an interval function in just one of these. The assumptions ask for as many contexts as workers and threads.
- `SetupServes`, `SetupFollowsFile` (`StartProofs`), for any file made of the functions of
  `LuaBindings` and any number of contexts: a daemon that is ready serves what its file
  asks for, and every call took effect where it was meant to, once and in order. The
  invariant follows a call of the file through the queue of launches to the thread
  that serves it, and says for each Lua state which lines were executed (`MadeIn`). It
  needs facts about the tables of functions: the number of contexts is set in the
  global state only, `setACL` works there or throws, only wforce has databases, and
  no listener is half made by arguments that cannot be parsed.

Only model-checked:

- all liveness: fairness and `ENABLED` are beyond the prover;
- `FindsLongestMask` and `NextIsEarliest`: what recursive functions compute needs
  induction over data;
- `CountsAddUp` of `WebHooks`: it compares sums over sets, whose value under a change of
  one summand needs the same induction.

## Differences noticed

Shown by a run:

- *JA3 entries in Redis* (`blwl_ja3`): `loadPersistEntries` does not know
  `JA3_BLWL` and `IP_JA3_BLWL` (`blackwhitelist.cc:824`); it fails, and `main` exits.
- *Key of a forwarder destination* (`replfwd_key`): `replfwd-replication.cc:114`.

Read in the code while modelling; the models follow the code.

Lists and databases:

- If the entry of the most specific mask disappears between the two steps of
  `getEntry`, the address is not found, although a wider mask is listed.
- A database with several shards expires keys before it is full, when they are
  spread unevenly. An hll field stores the value it is asked about. The current
  window may still contain data one turn of the ring old.
- A database made at the console gets no expiry thread (`wforce.cc:1148`).

Replication and warm-up:

- Two concurrent `addSibling` calls for the same sibling may both insert it.
- A full receive queue is counted as a send queue error (`wforce-replication.cc:174`),
  and `wforce-prometheus.cc:65` uses the wrong map, so that errors of the receive
  queue are never counted.
- The metrics keep removed siblings alive (`wforce-sibling.cc:454`).
- The sync host calls back although its dump failed (`wforce.cc:661`).
- `dumpEntriesToNetwork` does not clear its list of windows between fields.

Requests and metrics:

- A reset without any field is answered with 400 and still raises the `reset`
  event, which the manual reserves for valid resets (`wforce-web.cc:659`).
- A client on both lists is let in and counted as denied and blacklisted, too.
- The early returns of `parseGetStatsCmd` are not counted. `setCustomEndpoint` counts
  all endpoints under one name. The metric `delWLEntry` is registered twice and
  `delBLEntry` never (`wforce-web.cc:1570`).
- The gauge of the web hook queue is set on additions only (`webhook.cc:102`). Web
  hooks and custom web hooks are numbered separately, so that a result may be
  credited to another hook with the same id.

DNS and GeoIP:

- With no resolver the number of retries wraps (`dns_lookup.cc:311`). When some
  contexts cannot be created the index passes the end of the vector (`:151`). The
  mutex of a context is held through all retries (`:316`). Resolvers and timeouts
  set after the first lookup have no effect; `addResolver` is bound in every Lua
  state, so that a line of the configuration adds its resolver several times.
- A reload that fails leaves a database closed for good, and IPv4 addresses then go
  to the IPv6 database. The initial opening takes no lock. "successful" is printed
  after an exception, too (`common-lua.cc:387`).

Start, console and trackalert:

- Threads started while the configuration is read (siblings, trackalert's scheduler)
  are lost when the daemon forks with `-d`, which the manual pages offer.
- `setJA3AttrName` is not defined in the contexts, so that a file that calls it ends
  the process. `getIPJA3Blacklist` is missing on the server, and the getter of
  IP-JA3 entries replaces `getIPLoginBlacklist`.
- `launchWork` is left pointing at a vector that is gone: at the console,
  `siblingListener()` and `webserver()` are not launched, and `addListener` and
  `controlSocket` use the deleted vector.
- wforce waits for ever without a web listener.
- A reply of 65 536 bytes at the console is shown empty. An error in a context skips
  the global state. Leaving the terminal console ends the daemon. `g_key`, and
  `g_outputBuffer` in `newCA` and `newNetmask`, are written without the lock.
- `setNumLuaStates` defaults to 6; the manual says 10. trackalert creates its pool
  before it reads its configuration, and adds the default ACL after it.
  `setNumSchedulerThreads(1)` leaves no thread for functions.
- A cron line with a month and a day of the week may be found on a wrong day
  (`Cron.h:100`), and one with a date that never comes is searched for ever
  (`Cron.h:79`).

## Not modelled

- Sizes of replication messages: a message of 64 KiB or more would be framed wrongly.
- Parsing and formatting of requests, addresses, login tuples and device strings: no
  state, and no property tells the values apart.
- What Lua policies compute; HyperLogLog and count-min sketches; the ciphers.
- GeoIP2 (`common/wforce-geoip2.cc`): one database per object, opened once.
- Metrics beyond the counters named above; `pingHook`, headers and signatures of web
  hooks; the client `dump_entries`, which prints a dump.
- Clocks that are set back.

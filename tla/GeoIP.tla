------------------------------- MODULE GeoIP -------------------------------
(***************************************************************************)
(* WFGeoIPDB (common/wforce-geoip.cc): the GeoIP databases that Lua looks  *)
(* up addresses in. They are opened and reloaded by functions of the       *)
(* configuration (common/common-lua.cc), which the console can call while  *)
(* the lookups go on, one command at a time.                               *)
(*                                                                         *)
(* The library is external: a handle of it is a number, and a file has a   *)
(* version that grows when it is replaced and is 0 when it cannot be read. *)
(***************************************************************************)
EXTENDS Integers, Sequences

CONSTANTS
    GeoReaders,   \* threads that look addresses up
    KindSets,     \* sets of kinds that an installation uses: country, city, ISP
    MaxVersion,   \* bound: versions of a file
    MaxHandles    \* bound: databases opened

ASSUME GeoAssumption ==
    /\ KindSets \subseteq SUBSET {"country", "city", "isp"}
    /\ MaxVersion \in Nat \ {0} /\ MaxHandles \in Nat
    /\ "writer" \notin GeoReaders

VARIABLES
    kinds,     \* the kinds of the installation; never changes
    files,     \* per database, the version on disk
    version,   \* the newest version of any file
    gi,        \* per database, its handle, or 0
    handles,   \* per handle, its database, its version, and whether it is open
    gi_rwlock, \* who holds it: readers, or "writer"
    call,      \* what the console is doing
    reader     \* per thread, its lookup

geoVars == <<kinds, files, version, gi, handles, gi_rwlock, call, reader>>

\* The databases in the order in which the code goes through them.
DBs == <<<<"country", 4>>, <<"country", 6>>, <<"city", 4>>, <<"city", 6>>, <<"isp", 4>>, <<"isp", 6>>>>
DBSet == kinds \X {4, 6}

NoCall == [op |-> "none", kind |-> "none", at |-> 1, had |-> <<>>, result |-> "none"]
NoReader == [at |-> "idle", kind |-> "none", family |-> 0, handle |-> 0]

GeoTypeOK ==
    /\ kinds \in KindSets /\ files \in [DBSet -> 0 .. MaxVersion] /\ version \in 1 .. MaxVersion
    /\ gi \in [DBSet -> 0 .. Len(handles)]
    /\ \A h \in DOMAIN handles : handles[h].db \in DBSet /\ handles[h].version \in 1 .. MaxVersion /\ handles[h].open \in BOOLEAN
    /\ gi_rwlock \subseteq GeoReaders \/ gi_rwlock = {"writer"}
    /\ call.op \in {"none", "init", "reload"} /\ call.at \in 1 .. Len(DBs) + 1
    /\ \A r \in GeoReaders : reader[r].at \in {"idle", "lock", "use"} /\ reader[r].handle \in 0 .. Len(handles)

GeoInit ==
    /\ kinds \in KindSets
    /\ files \in [DBSet -> {0, 1}] /\ version = 1
    /\ gi = [d \in DBSet |-> 0] /\ handles = <<>>
    /\ gi_rwlock = {}
    /\ call = NoCall
    /\ reader = [r \in GeoReaders |-> NoReader]

\* A file is replaced or taken away; the files are not part of the program.
replaceFile(d) ==
    /\ version < MaxVersion
    /\ version' = version + 1
    /\ \E v \in {0, version + 1} : files' = [files EXCEPT ![d] = v]
    /\ UNCHANGED <<kinds, gi, handles, gi_rwlock, call, reader>>

-----------------------------------------------------------------------------
(***************************************************************************)
(* initGeoIPDB, initGeoIPCityDB, initGeoIPISPDB and reloadGeoIPDBs.        *)
(***************************************************************************)

\* The databases of one kind are opened, without the lock.
callInit(kind) ==
    /\ call.op = "none"
    /\ call' = [NoCall EXCEPT !.op = "init", !.kind = kind]
    /\ UNCHANGED <<kinds, files, version, gi, handles, gi_rwlock, reader>>

\* mutant: the lock is not waited for
writeLockAtOnce ==
    /\ call.op = "none"
    /\ call' = [NoCall EXCEPT !.op = "reload", !.had = [d \in {e \in DBSet : gi[e] # 0} |-> files[d]]]
    /\ UNCHANGED <<kinds, files, version, gi, handles, gi_rwlock, reader>>

\* reload begins: the write lock needs all readers to be gone.
writeLock ==
    /\ call.op = "none" /\ gi_rwlock = {}
    /\ gi_rwlock' = {"writer"}
    /\ call' = [NoCall EXCEPT !.op = "reload", !.had = [d \in {e \in DBSet : gi[e] # 0} |-> files[d]]]
    /\ UNCHANGED <<kinds, files, version, gi, handles, reader>>

\* The database at hand is opened, and h is the handle list before that.
\* Without its file this throws, and the rest is not done.
openGeoIPDB(d, hs) ==
    \/ /\ files[d] # 0 /\ Len(hs) < MaxHandles
       /\ handles' = Append(hs, [db |-> d, version |-> files[d], open |-> TRUE])
       /\ gi' = [gi EXCEPT ![d] = Len(hs) + 1]
       /\ call' = [call EXCEPT !.at = @ + 1]
       /\ UNCHANGED gi_rwlock
    \/ /\ files[d] = 0
       /\ handles' = hs
       /\ gi' = [gi EXCEPT ![d] = 0]
       /\ call' = [NoCall EXCEPT !.op = "none", !.result = "thrown"]
       /\ gi_rwlock' = IF call.op = "reload" THEN {} ELSE gi_rwlock

initGeoIPDB ==
    /\ call.op = "init" /\ call.at <= Len(DBs)
    /\ LET d == DBs[call.at] IN
       IF d \in DBSet /\ d[1] = call.kind /\ gi[d] = 0 THEN openGeoIPDB(d, handles)
       ELSE call' = [call EXCEPT !.at = @ + 1] /\ UNCHANGED <<gi, handles, gi_rwlock>>
    /\ UNCHANGED <<kinds, files, version, reader>>

\* A database that is not open is not opened either.
reload ==
    /\ call.op = "reload" /\ call.at <= Len(DBs)
    /\ LET d == DBs[call.at] IN
       IF d \in DBSet /\ gi[d] # 0 THEN openGeoIPDB(d, [handles EXCEPT ![gi[d]].open = FALSE])
       ELSE call' = [call EXCEPT !.at = @ + 1] /\ UNCHANGED <<gi, handles, gi_rwlock>>
    /\ UNCHANGED <<kinds, files, version, reader>>

callDone ==
    /\ call.op # "none" /\ call.at > Len(DBs)
    /\ call' = [call EXCEPT !.op = "none", !.result = call.op, !.at = 1]
    /\ gi_rwlock' = IF call.op = "reload" THEN {} ELSE gi_rwlock
    /\ UNCHANGED <<kinds, files, version, gi, handles, reader>>

-----------------------------------------------------------------------------
(***************************************************************************)
(* Lookups.                                                                *)
(***************************************************************************)

lookupGeo(r, kind, family) ==
    /\ reader[r].at = "idle"
    /\ reader' = [reader EXCEPT ![r] = [at |-> "lock", kind |-> kind, family |-> family, handle |-> 0]]
    /\ UNCHANGED <<kinds, files, version, gi, handles, gi_rwlock, call>>

lookupCountry(r, family) == "country" \in kinds /\ lookupGeo(r, "country", family)
lookupISP(r, family) == "isp" \in kinds /\ lookupGeo(r, "isp", family)
lookupCity(r, family) == "city" \in kinds /\ lookupGeo(r, "city", family)

\* An address that is not looked up in the v4 database is in the v6 one.
Chosen(kind, family) ==
    IF family = 4 /\ gi[<<kind, 4>>] # 0 THEN gi[<<kind, 4>>] ELSE gi[<<kind, 6>>]

readLock(r) ==
    /\ reader[r].at = "lock" /\ "writer" \notin gi_rwlock
    /\ gi_rwlock' = gi_rwlock \union {r}
    /\ reader' = [reader EXCEPT ![r].at = "use", ![r].handle = Chosen(reader[r].kind, reader[r].family)]
    /\ UNCHANGED <<kinds, files, version, gi, handles, call>>

lookupDone(r) ==
    /\ reader[r].at = "use"
    /\ gi_rwlock' = gi_rwlock \ {r}
    /\ reader' = [reader EXCEPT ![r] = NoReader]
    /\ UNCHANGED <<kinds, files, version, gi, handles, call>>

-----------------------------------------------------------------------------
GeoNext ==
    \/ \E d \in DBSet : replaceFile(d)
    \/ \E kind \in kinds : callInit(kind)
    \/ writeLock \/ initGeoIPDB \/ reload \/ callDone
    \/ \E r \in GeoReaders, family \in {4, 6} : lookupCountry(r, family) \/ lookupISP(r, family) \/ lookupCity(r, family)
    \/ \E r \in GeoReaders : readLock(r) \/ lookupDone(r)

GeoSpec == GeoInit /\ [][GeoNext]_geoVars

-----------------------------------------------------------------------------
\* No lookup uses a database that a reload has closed. An address is looked up in
\* a database of its own family, except that one of IPv4 goes to the IPv6 database
\* while that for IPv4 is not open (a reload that fails leaves it so). And a reload
\* that does not throw leaves every database that was open open again, none of
\* them older than the files were when it began.
GeoIPStaysUsable ==
    /\ GeoTypeOK
    /\ \A r \in GeoReaders :
        reader[r].at = "use" /\ reader[r].handle # 0 =>
            /\ handles[reader[r].handle].open
            /\ \/ handles[reader[r].handle].db = <<reader[r].kind, reader[r].family>>
               \/ reader[r].family = 4 /\ handles[reader[r].handle].db = <<reader[r].kind, 6>>
    /\ call.result = "reload" =>
        \A d \in DOMAIN call.had : gi[d] # 0 /\ handles[gi[d]].open /\ handles[gi[d]].version >= call.had[d]
=============================================================================

--------------------------- MODULE AddressProofs ----------------------------
(***************************************************************************)
(* Proofs about what is looked up by address: the GeoIP databases, and the *)
(* black- and whitelists.                                                  *)
(***************************************************************************)
EXTENDS GeoIP, BlackWhiteList, WellFoundedInduction, TLAPS

-----------------------------------------------------------------------------
(***************************************************************************)
(* The GeoIP databases for any number of readers, versions and handles: no *)
(* lookup uses a handle that a reload has closed.                          *)
(***************************************************************************)

Handle == [db : DBSet, version : 1 .. MaxVersion, open : BOOLEAN]

\* A database points to an open handle of its own.
HandleInv ==
    /\ kinds \in KindSets
    /\ files \in [DBSet -> 0 .. MaxVersion] /\ version \in 1 .. MaxVersion
    /\ \A d \in DBSet : files[d] <= version
    /\ handles \in Seq(Handle) /\ gi \in [DBSet -> 0 .. Len(handles)]
    /\ \A d \in DBSet : gi[d] # 0 => handles[gi[d]].db = d /\ handles[gi[d]].open

\* The versions that the files of some databases had.
Versions == UNION {[S -> 0 .. MaxVersion] : S \in SUBSET DBSet}

Call == [op : {"none", "init", "reload"}, kind : {"none", "country", "city", "isp"}, at : 1 .. 7,
         had : Versions, result : {"none", "init", "reload", "thrown"}]

\* While databases are reloaded those that were open are, the ones that were
\* gone through with a file as new as when the reload began. A file that is
\* replaced meanwhile is newer still, or gone.
ReloadInv ==
    /\ call \in Call
    /\ call.op # "none" => call.result = "none"
    /\ call.op = "reload" =>
        \A d \in DOMAIN call.had :
            /\ gi[d] # 0
            /\ call.had[d] <= version
            /\ files[d] = 0 \/ files[d] >= call.had[d]
            /\ \A i \in 1 .. 6 : i < call.at /\ DBs[i] = d => handles[gi[d]].version >= call.had[d]
    /\ call.result = "reload" =>
        \A d \in DOMAIN call.had : gi[d] # 0 /\ handles[gi[d]].version >= call.had[d]

Reader == [at : {"idle", "lock", "use"}, kind : {"none", "country", "city", "isp"}, family : {0, 4, 6}, handle : Nat]

\* Handles are closed only under the write lock, where no reader is.
ReaderInv ==
    /\ reader \in [GeoReaders -> Reader]
    /\ IF call.op = "reload" THEN gi_rwlock = {"writer"} ELSE gi_rwlock \subseteq GeoReaders
    /\ \A r \in GeoReaders :
        /\ reader[r].at # "idle" => reader[r].kind \in kinds /\ reader[r].family \in {4, 6}
        /\ reader[r].handle <= Len(handles)
        /\ reader[r].at = "use" => r \in gi_rwlock
        /\ reader[r].at = "use" /\ reader[r].handle # 0 =>
            /\ handles[reader[r].handle].open
            /\ \/ handles[reader[r].handle].db = <<reader[r].kind, reader[r].family>>
               \/ reader[r].family = 4 /\ handles[reader[r].handle].db = <<reader[r].kind, 6>>

GeoInv == HandleInv /\ ReloadInv /\ ReaderInv

-----------------------------------------------------------------------------
LEMMA GeoSizes == MaxVersion \in Nat \ {0} /\ MaxHandles \in Nat /\ KindSets \subseteq SUBSET {"country", "city", "isp"}
  BY GeoAssumption, Zenon

\* reload and initGeoIPDB go through every database there is.
LEMMA AllGoneThrough ==
    ASSUME kinds \in KindSets, NEW d \in DBSet
    PROVE  \E i \in 1 .. 6 : DBs[i] = d
<1>1. PICK k \in kinds, f \in {4, 6} : d = <<k, f>>
  BY DEF DBSet
<1>3. k \in {"country", "city", "isp"}
  BY GeoSizes, Zenon
<1>2. DBs[1] = <<"country", 4>> /\ DBs[2] = <<"country", 6>> /\ DBs[3] = <<"city", 4>> /\ DBs[4] = <<"city", 6>>
      /\ DBs[5] = <<"isp", 4>> /\ DBs[6] = <<"isp", 6>>
  BY Zenon DEF DBs
<1> QED BY <1>1, <1>2, <1>3

LEMMA DBsLen == Len(DBs) = 6
  BY Zenon DEF DBs

LEMMA NoCallFacts == NoCall \in Call /\ NoCall.op = "none" /\ NoCall.result = "none" /\ NoCall.at = 1 /\ DOMAIN NoCall.had = {}
<1>1. <<>> \in [{} -> 0 .. MaxVersion]
  OBVIOUS
<1>2. <<>> \in Versions
  BY <1>1, Zenon DEF Versions
<1> QED BY <1>2 DEF NoCall, Call

LEMMA HadFacts ==
    ASSUME NEW c \in Call
    PROVE  DOMAIN c.had \subseteq DBSet /\ \A d \in DOMAIN c.had : c.had[d] \in 0 .. MaxVersion
<1>1. c.had \in Versions
  BY Zenon DEF Call
<1> QED BY <1>1, Zenon DEF Versions

-----------------------------------------------------------------------------
LEMMA ReplaceKeepsInv ==
    ASSUME GeoInv, NEW d \in DBSet, replaceFile(d)
    PROVE  GeoInv'
<1>1. UNCHANGED <<kinds, gi, handles, gi_rwlock, call, reader>> /\ version' = version + 1 /\ version < MaxVersion
  BY Zenon DEF replaceFile
<1>2. PICK v \in {0, version + 1} : files' = [files EXCEPT ![d] = v]
  BY Zenon DEF replaceFile
<1>3. DBSet' = DBSet /\ Handle' = Handle /\ Call' = Call
  BY <1>1, Zenon DEF DBSet, Handle, Call, Versions
<1>4. version' \in 1 .. MaxVersion /\ v \in 0 .. MaxVersion /\ v <= version' /\ version <= version'
      /\ version \in 1 .. MaxVersion /\ (v = 0 \/ v > version)
  BY <1>1, GeoSizes DEF GeoInv, HandleInv
<1>5. files' \in [DBSet -> 0 .. MaxVersion] /\ \A e \in DBSet : files'[e] = IF e = d THEN v ELSE files[e]
  BY <1>2, <1>4, Zenon DEF GeoInv, HandleInv
<1>6. \A e \in DBSet : files'[e] <= version' /\ (files'[e] = 0 \/ files'[e] >= files[e])
  BY <1>1, <1>4, <1>5 DEF GeoInv, HandleInv
<1>7. HandleInv'
  BY <1>1, <1>3, <1>4, <1>5, <1>6, Zenon DEF GeoInv, HandleInv
<1>8. ReaderInv'
  BY <1>1, Zenon DEF GeoInv, ReaderInv
<1>9. ReloadInv'
  <2>1. ASSUME call.op = "reload", NEW e \in DOMAIN call.had
        PROVE  (files'[e] = 0 \/ files'[e] >= call.had[e]) /\ call.had[e] <= version'
    <3>1. e \in DBSet /\ call.had[e] \in 0 .. MaxVersion /\ (files[e] = 0 \/ files[e] >= call.had[e])
      BY <2>1, HadFacts, Zenon DEF GeoInv, ReloadInv
    <3>2. files[e] \in 0 .. MaxVersion /\ files'[e] \in 0 .. MaxVersion /\ (e = d => v > version \/ v = 0)
      BY <1>4, <1>5, <3>1, Zenon DEF GeoInv, HandleInv
    <3>3. call.had[e] <= version
      BY <2>1, Zenon DEF GeoInv, ReloadInv
    <3> QED BY <1>4, <1>5, <1>6, <3>1, <3>2, <3>3
  <2> QED BY <1>1, <1>3, <2>1, Zenon DEF GeoInv, ReloadInv
<1> QED BY <1>7, <1>8, <1>9, Zenon DEF GeoInv

LEMMA CallInitKeepsInv ==
    ASSUME GeoInv, NEW k \in kinds, callInit(k)
    PROVE  GeoInv'
<1> DEFINE c == [NoCall EXCEPT !.op = "init", !.kind = k]
<1>1. UNCHANGED <<kinds, files, version, gi, handles, gi_rwlock, reader>> /\ call' = c /\ call.op = "none"
  BY Zenon DEF callInit
<1>2. DBSet' = DBSet /\ Handle' = Handle /\ Call' = Call
  BY <1>1, Zenon DEF DBSet, Handle, Call, Versions
<1>3. k \in {"none", "country", "city", "isp"}
  BY GeoSizes, Zenon DEF GeoInv, HandleInv
<1>4. c \in Call /\ c.op = "init" /\ c.result = "none"
  BY <1>3, NoCallFacts, Zenon DEF Call
<1> HIDE DEF c
<1>5. HandleInv'
  BY <1>1, <1>2, Zenon DEF GeoInv, HandleInv
<1>6. ReloadInv'
  BY <1>1, <1>2, <1>4, Zenon DEF ReloadInv
<1>7. ReaderInv'
  BY <1>1, <1>4, Zenon DEF GeoInv, ReaderInv
<1> QED BY <1>5, <1>6, <1>7, Zenon DEF GeoInv

LEMMA WriteLockKeepsInv ==
    ASSUME GeoInv, writeLock
    PROVE  GeoInv'
<1> DEFINE S == {e \in DBSet : gi[e] # 0}
           h == [d \in S |-> files[d]]
           c == [NoCall EXCEPT !.op = "reload", !.had = h]
<1>1. UNCHANGED <<kinds, files, version, gi, handles, reader>> /\ call' = c /\ call.op = "none"
      /\ gi_rwlock = {} /\ gi_rwlock' = {"writer"}
  BY Zenon DEF writeLock
<1>2. DBSet' = DBSet /\ Handle' = Handle /\ Call' = Call
  BY <1>1, Zenon DEF DBSet, Handle, Call, Versions
<1>3. h \in [S -> 0 .. MaxVersion] /\ S \in SUBSET DBSet
      /\ \A d \in S : gi[d] # 0 /\ h[d] = files[d] /\ h[d] <= version /\ h[d] \in 0 .. MaxVersion
  BY Zenon DEF GeoInv, HandleInv
<1>4. h \in Versions /\ DOMAIN h = S
  BY <1>3, Zenon DEF Versions
<1> HIDE DEF S, h
<1>5. c \in Call /\ c.op = "reload" /\ c.result = "none" /\ c.had = h /\ c.at = 1
  BY <1>4, NoCallFacts, Zenon DEF Call
<1> HIDE DEF c
<1>6. HandleInv'
  BY <1>1, <1>2, Zenon DEF GeoInv, HandleInv
<1>7. ReloadInv'
  BY <1>1, <1>2, <1>3, <1>4, <1>5 DEF ReloadInv
<1>8. ReaderInv'
  BY <1>1, <1>5, Zenon DEF GeoInv, ReaderInv
<1> QED BY <1>6, <1>7, <1>8, Zenon DEF GeoInv

LEMMA CallDoneKeepsInv ==
    ASSUME GeoInv, callDone
    PROVE  GeoInv'
<1> DEFINE op == call.op
           c1 == [call EXCEPT !.op = "none"]
           c2 == [c1 EXCEPT !.result = op]
           c == [c2 EXCEPT !.at = 1]
<1>1. UNCHANGED <<kinds, files, version, gi, handles, reader>> /\ call' = c /\ op # "none" /\ call.at > 6
      /\ gi_rwlock' = IF op = "reload" THEN {} ELSE gi_rwlock
  BY DBsLen, Zenon DEF callDone
<1>2. DBSet' = DBSet /\ Handle' = Handle /\ Call' = Call
  BY <1>1, Zenon DEF DBSet, Handle, Call, Versions
<1>3. call \in Call /\ op \in {"init", "reload"} /\ call.at = 7
  BY <1>1 DEF GeoInv, ReloadInv, Call
<1> HIDE DEF op
<1>4. c \in Call /\ c.op = "none" /\ c.result = op /\ c.had = call.had
  <2>1. c1 \in Call /\ c1.op = "none" /\ c1.had = call.had
    BY <1>3, Zenon DEF Call
  <2> HIDE DEF c1
  <2>2. c2 \in Call /\ c2.op = "none" /\ c2.result = op /\ c2.had = call.had
    BY <1>3, <2>1, Zenon DEF Call
  <2> HIDE DEF c2
  <2> QED BY <2>2 DEF Call
<1> HIDE DEF c1, c2, c
<1> USE DEF op
<1>5. HandleInv'
  BY <1>1, <1>2, Zenon DEF GeoInv, HandleInv
<1>6. ASSUME op = "reload", NEW d \in DOMAIN call.had
      PROVE  gi[d] # 0 /\ handles[gi[d]].version >= call.had[d]
  <2>1. d \in DBSet
    BY <1>3, <1>6, HadFacts, Zenon
  <2>2. PICK i \in 1 .. 6 : DBs[i] = d
    BY <2>1, AllGoneThrough, Zenon DEF GeoInv, HandleInv
  <2> QED BY <1>3, <1>6, <2>2 DEF GeoInv, ReloadInv
<1>7. ReloadInv'
  BY <1>1, <1>2, <1>4, <1>6, Zenon DEF ReloadInv
<1>8. ReaderInv'
  <2>1. op = "reload" => \A r \in GeoReaders : reader[r].at # "use"
    BY GeoAssumption, Zenon DEF GeoInv, ReaderInv
  <2>2. gi_rwlock' \subseteq GeoReaders
    BY <1>1, Zenon DEF GeoInv, ReaderInv
  <2> QED BY <1>1, <1>4, <2>1, <2>2, Zenon DEF GeoInv, ReaderInv
<1> QED BY <1>5, <1>7, <1>8, Zenon DEF GeoInv

-----------------------------------------------------------------------------
LEMMA SkipKeepsInv ==
    ASSUME GeoInv, call.op # "none", call.at <= 6,
           call' = [call EXCEPT !.at = @ + 1],
           UNCHANGED <<kinds, files, version, gi, handles, gi_rwlock, reader>>,
           call.op = "reload" => DBs[call.at] \notin DBSet \/ gi[DBs[call.at]] = 0
    PROVE  GeoInv'
<1>1. DBSet' = DBSet /\ Handle' = Handle /\ Call' = Call
  BY Zenon DEF DBSet, Handle, Call, Versions
<1>2. call \in Call /\ call.at \in 1 .. 6 /\ call.result = "none"
  BY DEF GeoInv, ReloadInv, Call
<1>3. call' \in Call /\ call'.op = call.op /\ call'.result = "none" /\ call'.had = call.had /\ call'.at = call.at + 1
  BY <1>2 DEF Call
<1>4. HandleInv'
  BY <1>1, Zenon DEF GeoInv, HandleInv
<1>5. ReaderInv'
  BY <1>3, Zenon DEF GeoInv, ReaderInv
<1>6. ASSUME call.op = "reload", NEW d \in DOMAIN call.had, NEW i \in 1 .. 6, i < call.at + 1, DBs[i] = d
      PROVE  handles[gi[d]].version >= call.had[d]
  <2>1. d \in DBSet /\ gi[d] # 0
    BY <1>2, <1>6, HadFacts, Zenon DEF GeoInv, ReloadInv
  <2>2. i # call.at
    BY <1>6, <2>1, Zenon
  <2>3. i < call.at
    BY <1>2, <1>6, <2>2
  <2> QED BY <1>6, <2>3, Zenon DEF GeoInv, ReloadInv
<1>7. ReloadInv'
  BY <1>1, <1>3, <1>6, Zenon DEF GeoInv, ReloadInv
<1> QED BY <1>4, <1>5, <1>7, Zenon DEF GeoInv

LEMMA ReaderKeeps ==
    ASSUME GeoInv, NEW hs, Len(hs) \in Nat, Len(handles) <= Len(hs),
           \A h \in 1 .. Len(handles) : hs[h].db = handles[h].db /\ (call.op # "reload" => hs[h].open = handles[h].open),
           handles' = hs, kinds' = kinds, reader' = reader, call' \in Call,
           \/ call'.op = call.op /\ gi_rwlock' = gi_rwlock
           \/ call'.op = "none" /\ gi_rwlock' = IF call.op = "reload" THEN {} ELSE gi_rwlock
    PROVE  ReaderInv'
<1>1. reader' \in [GeoReaders -> Reader]
  BY Zenon DEF GeoInv, ReaderInv
<1>2. IF call'.op = "reload" THEN gi_rwlock' = {"writer"} ELSE gi_rwlock' \subseteq GeoReaders
  BY Zenon DEF GeoInv, ReaderInv
<1>3. ASSUME NEW r \in GeoReaders
      PROVE  /\ reader[r].at # "idle" => reader[r].kind \in kinds /\ reader[r].family \in {4, 6}
             /\ reader[r].handle <= Len(hs)
             /\ reader[r].at = "use" => r \in gi_rwlock'
             /\ reader[r].at = "use" /\ reader[r].handle # 0 =>
                    /\ hs[reader[r].handle].open
                    /\ \/ hs[reader[r].handle].db = <<reader[r].kind, reader[r].family>>
                       \/ reader[r].family = 4 /\ hs[reader[r].handle].db = <<reader[r].kind, 6>>
  <2>1. reader[r].handle \in Nat /\ reader[r].handle <= Len(handles) /\ Len(handles) \in Nat
    BY DEF GeoInv, ReaderInv, HandleInv, Reader
  <2>2. reader[r].at # "idle" => reader[r].kind \in kinds /\ reader[r].family \in {4, 6}
    BY Zenon DEF GeoInv, ReaderInv
  <2>3. reader[r].handle <= Len(hs)
    BY <2>1
  <2>4. reader[r].at = "use" => call.op # "reload"
    BY GeoAssumption, Zenon DEF GeoInv, ReaderInv
  <2>5. reader[r].at = "use" => r \in gi_rwlock'
    BY <2>4, Zenon DEF GeoInv, ReaderInv
  <2>6. reader[r].handle # 0 => reader[r].handle \in 1 .. Len(handles)
    BY <2>1
  <2>7. ASSUME reader[r].at = "use", reader[r].handle # 0
        PROVE  /\ hs[reader[r].handle].open
               /\ \/ hs[reader[r].handle].db = <<reader[r].kind, reader[r].family>>
                  \/ reader[r].family = 4 /\ hs[reader[r].handle].db = <<reader[r].kind, 6>>
    <3>1. hs[reader[r].handle].db = handles[reader[r].handle].db /\ hs[reader[r].handle].open = handles[reader[r].handle].open
      BY <2>4, <2>6, <2>7, Zenon
    <3>2. /\ handles[reader[r].handle].open
          /\ \/ handles[reader[r].handle].db = <<reader[r].kind, reader[r].family>>
             \/ reader[r].family = 4 /\ handles[reader[r].handle].db = <<reader[r].kind, 6>>
      BY <2>7, Zenon DEF GeoInv, ReaderInv
    <3> QED BY <3>1, <3>2, Zenon
  <2> QED BY <2>2, <2>3, <2>5, <2>7, Zenon
<1> QED BY <1>1, <1>2, <1>3, Zenon DEF ReaderInv

\* A database is opened anew, and the handle it may have had is closed.
LEMMA OpenedKeepsInv ==
    ASSUME GeoInv, call.op # "none", call.at <= 6, NEW d \in DBSet, d = DBs[call.at],
           NEW hs \in Seq(Handle), Len(hs) = Len(handles),
           \A h \in 1 .. Len(handles) :
               /\ hs[h].db = handles[h].db /\ hs[h].version = handles[h].version
               /\ (h # gi[d] \/ call.op # "reload") => hs[h].open = handles[h].open,
           openGeoIPDB(d, hs), UNCHANGED <<kinds, files, version, reader>>
    PROVE  GeoInv'
<1>1. DBSet' = DBSet /\ Handle' = Handle /\ Call' = Call
  BY Zenon DEF DBSet, Handle, Call, Versions
<1>2. call \in Call /\ call.at \in 1 .. 6 /\ call.result = "none"
  BY DEF GeoInv, ReloadInv, Call
<1>3. Len(handles) \in Nat /\ files \in [DBSet -> 0 .. MaxVersion] /\ gi \in [DBSet -> 0 .. Len(handles)]
  BY DEF GeoInv, HandleInv
<1>4. \A e \in DBSet : gi[e] # 0 => gi[e] \in 1 .. Len(handles) /\ handles[gi[e]].db = e /\ handles[gi[e]].open
  BY <1>3 DEF GeoInv, HandleInv
\* The other databases keep their handles.
<1>5. ASSUME NEW e \in DBSet \ {d}, gi[e] # 0
      PROVE  hs[gi[e]].db = e /\ hs[gi[e]].open /\ hs[gi[e]].version = handles[gi[e]].version /\ gi[e] \in 1 .. Len(hs)
  <2>1. gi[e] # gi[d]
    BY <1>4, <1>5
  <2> QED BY <1>4, <1>5, <2>1, Zenon
<1>6. CASE files[d] # 0 /\ Len(hs) < MaxHandles
           /\ handles' = Append(hs, [db |-> d, version |-> files[d], open |-> TRUE])
           /\ gi' = [gi EXCEPT ![d] = Len(hs) + 1]
           /\ call' = [call EXCEPT !.at = @ + 1]
           /\ UNCHANGED gi_rwlock
  <2> DEFINE new == [db |-> d, version |-> files[d], open |-> TRUE]
  <2>1. files[d] \in 1 .. MaxVersion
    BY <1>3, <1>6
  <2>2. new \in Handle /\ new.db = d /\ new.version = files[d] /\ new.open
    BY <2>1, Zenon DEF Handle
  <2>3. handles' = Append(hs, new)
    BY <1>6, Zenon
  <2> HIDE DEF new
  <2>4. handles' \in Seq(Handle) /\ Len(handles') = Len(hs) + 1 /\ handles'[Len(hs) + 1] = new
        /\ \A h \in 1 .. Len(hs) : handles'[h] = hs[h]
    BY <2>1, <2>2, <2>3
  <2>5. call' \in Call /\ call'.op = call.op /\ call'.result = "none" /\ call'.had = call.had /\ call'.at = call.at + 1
    <3>1. call' = [call EXCEPT !.at = @ + 1]
      BY <1>6, Zenon
    <3> QED BY <1>2, <3>1 DEF Call
  <2>6. gi' \in [DBSet -> 0 .. Len(handles')] /\ gi'[d] = Len(hs) + 1 /\ \A e \in DBSet \ {d} : gi'[e] = gi[e]
    <3>1. \A e \in DBSet : gi[e] \in 0 .. Len(handles')
      BY <1>3, <2>4
    <3>2. Len(hs) + 1 \in 0 .. Len(handles')
      BY <1>3, <2>4
    <3> QED BY <1>3, <1>6, <3>1, <3>2, Zenon
  <2>7. HandleInv'
    <3>1. ASSUME NEW e \in DBSet, gi'[e] # 0
          PROVE  handles'[gi'[e]].db = e /\ handles'[gi'[e]].open
      <4>1. CASE e = d
        BY <2>2, <2>4, <2>6, <4>1, Zenon
      <4>2. CASE e # d
        BY <1>5, <2>4, <2>6, <3>1, <4>2
      <4> QED BY <4>1, <4>2, Zenon
    <3> QED BY <1>1, <2>4, <2>6, <3>1, Zenon DEF GeoInv, HandleInv
  <2>8. ReaderInv'
    <3>1. \A h \in 1 .. Len(handles) : handles'[h] = hs[h]
      BY <2>4, Zenon
    <3>2. ASSUME call.op # "reload", NEW h \in 1 .. Len(handles)
          PROVE  handles'[h].open = handles[h].open
      BY <3>1, <3>2, Zenon
    <3>3. Len(handles') \in Nat /\ Len(handles) <= Len(handles')
      BY <1>3, <2>4
    <3> DEFINE all == handles'
    <3>4. handles' = all /\ Len(all) \in Nat /\ Len(handles) <= Len(all)
          /\ \A h \in 1 .. Len(handles) :
                all[h].db = handles[h].db /\ (call.op # "reload" => all[h].open = handles[h].open)
      BY <3>1, <3>2, <3>3, Zenon
    <3> HIDE DEF all
    <3>5. call' \in Call /\ call'.op = call.op /\ gi_rwlock' = gi_rwlock
      BY <1>6, <2>5, Zenon
    <3> QED BY <3>4, <3>5, ReaderKeeps, Zenon
  <2>9. ReloadInv'
    <3>1. ASSUME call.op = "reload", NEW e \in DOMAIN call.had
          PROVE  /\ gi'[e] # 0
                 /\ call.had[e] <= version
                 /\ files[e] = 0 \/ files[e] >= call.had[e]
                 /\ \A i \in 1 .. 6 : i < call.at + 1 /\ DBs[i] = e => handles'[gi'[e]].version >= call.had[e]
      <4>1. e \in DBSet /\ gi[e] # 0 /\ call.had[e] <= version /\ (files[e] = 0 \/ files[e] >= call.had[e])
            /\ \A i \in 1 .. 6 : i < call.at /\ DBs[i] = e => handles[gi[e]].version >= call.had[e]
        BY <1>2, <3>1, HadFacts, Zenon DEF GeoInv, ReloadInv
      <4>2. CASE e = d
        <5>1. handles'[gi'[e]].version = files[e] /\ gi'[e] # 0 /\ files[e] >= call.had[e]
          <6>1. files[e] >= call.had[e]
            BY <1>6, <4>1, <4>2, Zenon
          <6>2. gi'[e] = Len(hs) + 1 /\ gi'[e] # 0
            BY <1>3, <2>6, <4>2
          <6> QED BY <2>2, <2>4, <4>2, <6>1, <6>2, Zenon
        <5> QED BY <4>1, <5>1, Zenon
      <4>3. CASE e # d
        <5>1. handles'[gi'[e]].version = handles[gi[e]].version /\ gi'[e] # 0
          BY <1>5, <2>4, <2>6, <4>1, <4>3
        <5>2. ASSUME NEW i \in 1 .. 6, i < call.at + 1, DBs[i] = e
              PROVE  i < call.at
          <6>1. i # call.at
            BY <4>3, <5>2, Zenon
          <6> QED BY <1>2, <5>2, <6>1
        <5> QED BY <4>1, <5>1, <5>2, Zenon
      <4> QED BY <4>2, <4>3, Zenon
    <3> QED BY <1>1, <2>5, <3>1, Zenon DEF ReloadInv
  <2> QED BY <2>7, <2>8, <2>9, Zenon DEF GeoInv
<1>7. CASE files[d] = 0 /\ handles' = hs /\ gi' = [gi EXCEPT ![d] = 0]
           /\ call' = [NoCall EXCEPT !.op = "none", !.result = "thrown"]
           /\ gi_rwlock' = IF call.op = "reload" THEN {} ELSE gi_rwlock
  <2>1. call' \in Call /\ call'.op = "none" /\ call'.result = "thrown"
    BY <1>7, NoCallFacts, Zenon DEF Call
  <2>2. gi' \in [DBSet -> 0 .. Len(hs)] /\ gi'[d] = 0 /\ \A e \in DBSet \ {d} : gi'[e] = gi[e]
    BY <1>3, <1>7
  <2>3. HandleInv'
    BY <1>1, <1>5, <1>7, <2>2 DEF GeoInv, HandleInv
  <2>4. ReloadInv'
    BY <1>1, <2>1, Zenon DEF ReloadInv
  <2>5. ReaderInv'
    BY <1>3, <1>7, <2>1, ReaderKeeps
  <2> QED BY <2>3, <2>4, <2>5, Zenon DEF GeoInv
<1> QED BY <1>6, <1>7, Zenon DEF openGeoIPDB

LEMMA OpeningKeepsInv ==
    ASSUME GeoInv, initGeoIPDB
    PROVE  GeoInv'
<1> DEFINE d == DBs[call.at]
<1>1. call.op = "init" /\ call.at <= 6 /\ UNCHANGED <<kinds, files, version, reader>>
  BY DBsLen, Zenon DEF initGeoIPDB
<1>2. CASE d \in DBSet /\ openGeoIPDB(d, handles)
  BY <1>1, <1>2, OpenedKeepsInv, Zenon DEF GeoInv, HandleInv
<1>3. CASE call' = [call EXCEPT !.at = @ + 1] /\ UNCHANGED <<gi, handles, gi_rwlock>>
  BY <1>1, <1>3, SkipKeepsInv, Zenon
<1> QED BY <1>2, <1>3, Zenon DEF initGeoIPDB

LEMMA ReloadingKeepsInv ==
    ASSUME GeoInv, reload
    PROVE  GeoInv'
<1> DEFINE d == DBs[call.at]
           hs == [handles EXCEPT ![gi[d]].open = FALSE]
<1>1. call.op = "reload" /\ call.at <= 6 /\ UNCHANGED <<kinds, files, version, reader>>
  BY DBsLen, Zenon DEF reload
<1>2. CASE d \in DBSet /\ gi[d] # 0 /\ openGeoIPDB(d, hs)
  <2> DEFINE g == gi[d]
  <2>1. handles \in Seq(Handle) /\ Len(handles) \in Nat /\ g \in 1 .. Len(handles) /\ handles[g] \in Handle
    BY <1>2 DEF GeoInv, HandleInv
  <2> DEFINE closed == [handles[g] EXCEPT !.open = FALSE]
  <2>2. closed \in Handle /\ closed.db = handles[g].db /\ closed.version = handles[g].version
    BY <2>1, Zenon DEF Handle
  <2>3. hs = [handles EXCEPT ![g] = closed]
    BY <2>1, Zenon
  <2> HIDE DEF closed, hs, g
  <2>4. hs \in Seq(Handle) /\ Len(hs) = Len(handles) /\ hs[g] = closed
        /\ \A h \in 1 .. Len(handles) : h # g => hs[h] = handles[h]
    BY <2>1, <2>2, <2>3
  <2>5. \A h \in 1 .. Len(handles) :
            /\ hs[h].db = handles[h].db /\ hs[h].version = handles[h].version
            /\ (h # g \/ call.op # "reload") => hs[h].open = handles[h].open
    BY <1>1, <2>2, <2>4, Zenon
  <2> QED BY <1>1, <1>2, <2>4, <2>5, OpenedKeepsInv, Zenon DEF g
<1>3. CASE (d \notin DBSet \/ gi[d] = 0) /\ call' = [call EXCEPT !.at = @ + 1] /\ UNCHANGED <<gi, handles, gi_rwlock>>
  BY <1>1, <1>3, SkipKeepsInv, Zenon
<1> QED BY <1>2, <1>3, Zenon DEF reload

-----------------------------------------------------------------------------
\* One reader goes on; the databases are left alone.
LEMMA ReaderStep ==
    ASSUME GeoInv, NEW r \in GeoReaders, NEW rec \in Reader, reader' = [reader EXCEPT ![r] = rec],
           UNCHANGED <<kinds, files, version, gi, handles, call>>,
           rec.at # "idle" => rec.kind \in kinds /\ rec.family \in {4, 6},
           rec.handle <= Len(handles),
           rec.at = "use" => r \in gi_rwlock',
           rec.at = "use" /\ rec.handle # 0 =>
               /\ handles[rec.handle].open
               /\ \/ handles[rec.handle].db = <<rec.kind, rec.family>>
                  \/ rec.family = 4 /\ handles[rec.handle].db = <<rec.kind, 6>>,
           \/ gi_rwlock' = gi_rwlock
           \/ call.op # "reload" /\ gi_rwlock' = gi_rwlock \union {r}
           \/ call.op # "reload" /\ gi_rwlock' = gi_rwlock \ {r}
    PROVE  GeoInv'
<1>1. DBSet' = DBSet /\ Handle' = Handle /\ Call' = Call
  BY Zenon DEF DBSet, Handle, Call, Versions
<1>2. HandleInv' /\ ReloadInv'
  BY <1>1 DEF GeoInv, HandleInv, ReloadInv
<1>3. reader' \in [GeoReaders -> Reader] /\ reader'[r] = rec /\ \A q \in GeoReaders \ {r} : reader'[q] = reader[q]
  BY Zenon DEF GeoInv, ReaderInv
<1>4. IF call.op = "reload" THEN gi_rwlock' = {"writer"} ELSE gi_rwlock' \subseteq GeoReaders
  BY Zenon DEF GeoInv, ReaderInv
<1>5. ASSUME NEW q \in GeoReaders
      PROVE  /\ reader'[q].at # "idle" => reader'[q].kind \in kinds /\ reader'[q].family \in {4, 6}
             /\ reader'[q].handle <= Len(handles)
             /\ reader'[q].at = "use" => q \in gi_rwlock'
             /\ reader'[q].at = "use" /\ reader'[q].handle # 0 =>
                    /\ handles[reader'[q].handle].open
                    /\ \/ handles[reader'[q].handle].db = <<reader'[q].kind, reader'[q].family>>
                       \/ reader'[q].family = 4 /\ handles[reader'[q].handle].db = <<reader'[q].kind, 6>>
  <2>1. CASE q = r
    BY <1>3, <2>1, Zenon
  <2>2. CASE q # r
    <3>1. reader'[q] = reader[q]
      BY <1>3, <2>2, Zenon
    <3>2. q \in gi_rwlock => q \in gi_rwlock'
      BY <2>2, Zenon
    <3> QED BY <3>1, <3>2, Zenon DEF GeoInv, ReaderInv
  <2> QED BY <2>1, <2>2, Zenon
<1>6. ReaderInv'
  BY <1>3, <1>4, <1>5, Zenon DEF ReaderInv
<1> QED BY <1>2, <1>6, Zenon DEF GeoInv

LEMMA LookupKeepsInv ==
    ASSUME GeoInv, NEW r \in GeoReaders, NEW k \in kinds, NEW f \in {4, 6}, lookupGeo(r, k, f)
    PROVE  GeoInv'
<1> DEFINE rec == [at |-> "lock", kind |-> k, family |-> f, handle |-> 0]
<1>1. k \in {"country", "city", "isp"} /\ Len(handles) \in Nat
  BY GeoSizes DEF GeoInv, HandleInv
<1>2. rec \in Reader /\ rec.at = "lock" /\ rec.kind \in kinds /\ rec.family \in {4, 6} /\ rec.handle <= Len(handles)
  BY <1>1 DEF Reader
<1>3. reader' = [reader EXCEPT ![r] = rec] /\ UNCHANGED <<kinds, files, version, gi, handles, gi_rwlock, call>>
  BY Zenon DEF lookupGeo
<1> HIDE DEF rec
<1> QED BY <1>2, <1>3, ReaderStep, Zenon

LEMMA ReadLockKeepsInv ==
    ASSUME GeoInv, NEW r \in GeoReaders, readLock(r)
    PROVE  GeoInv'
<1> DEFINE k == reader[r].kind
           f == reader[r].family
           g == Chosen(k, f)
           rec == [reader[r] EXCEPT !.at = "use", !.handle = g]
<1>1. reader[r] \in Reader /\ reader[r].at = "lock" /\ k \in kinds /\ f \in {4, 6} /\ call.op # "reload"
  BY Zenon DEF readLock, GeoInv, ReaderInv
<1>2. <<k, 4>> \in DBSet /\ <<k, 6>> \in DBSet
  BY <1>1, Zenon DEF DBSet
<1>3. g \in 0 .. Len(handles) /\ Len(handles) \in Nat /\
      (g # 0 => /\ handles[g].open
                /\ handles[g].db = <<k, f>> \/ (f = 4 /\ handles[g].db = <<k, 6>>))
  <2>1. Len(handles) \in Nat /\ \A d \in DBSet : gi[d] \in 0 .. Len(handles) /\
            (gi[d] # 0 => handles[gi[d]].db = d /\ handles[gi[d]].open)
    BY DEF GeoInv, HandleInv
  <2>2. CASE f = 4 /\ gi[<<k, 4>>] # 0
    <3>1. g = gi[<<k, 4>>] /\ <<k, f>> = <<k, 4>>
      BY <2>2, Zenon DEF Chosen
    <3> HIDE DEF g, k, f
    <3> QED BY <1>2, <2>1, <2>2, <3>1, Zenon
  <2>3. CASE ~(f = 4 /\ gi[<<k, 4>>] # 0)
    <3>1. g = gi[<<k, 6>>] /\ (f = 4 \/ <<k, f>> = <<k, 6>>)
      BY <1>1, <2>3, Zenon DEF Chosen
    <3> HIDE DEF g, k, f
    <3> QED BY <1>2, <2>1, <3>1, Zenon
  <2> QED BY <2>2, <2>3, Zenon
<1>4. reader' = [reader EXCEPT ![r] = rec]
  BY Zenon DEF readLock, GeoInv, ReaderInv
<1> HIDE DEF g
<1>5. rec \in Reader /\ rec.at = "use" /\ rec.handle = g /\ rec.kind = k /\ rec.family = f
  <2> DEFINE rec1 == [reader[r] EXCEPT !.at = "use"]
  <2>1. rec1 \in Reader /\ rec1.at = "use" /\ rec1.kind = k /\ rec1.family = f
    BY <1>1, Zenon DEF Reader
  <2>2. rec = [rec1 EXCEPT !.handle = g] /\ g \in Nat
    BY <1>3
  <2> HIDE DEF rec1, rec, k, f
  <2> QED BY <2>1, <2>2, Zenon DEF Reader
<1> HIDE DEF rec, k, f
<1>6. UNCHANGED <<kinds, files, version, gi, handles, call>> /\ gi_rwlock' = gi_rwlock \union {r}
  BY Zenon DEF readLock
<1>7. rec.kind \in kinds /\ rec.family \in {4, 6} /\ rec.handle <= Len(handles) /\ r \in gi_rwlock'
  BY <1>1, <1>3, <1>5, <1>6
<1>8. rec.handle # 0 =>
               /\ handles[rec.handle].open
               /\ \/ handles[rec.handle].db = <<rec.kind, rec.family>>
                  \/ rec.family = 4 /\ handles[rec.handle].db = <<rec.kind, 6>>
  BY <1>3, <1>5, Zenon
<1> QED BY <1>1, <1>4, <1>5, <1>6, <1>7, <1>8, ReaderStep, Zenon

LEMMA LookupDoneKeepsInv ==
    ASSUME GeoInv, NEW r \in GeoReaders, lookupDone(r)
    PROVE  GeoInv'
<1>1. call.op # "reload"
  BY GeoAssumption, Zenon DEF lookupDone, GeoInv, ReaderInv
<1>2. NoReader \in Reader /\ NoReader.at = "idle" /\ NoReader.handle = 0 /\ Len(handles) \in Nat
  BY DEF NoReader, Reader, GeoInv, HandleInv
<1>3. reader' = [reader EXCEPT ![r] = NoReader] /\ UNCHANGED <<kinds, files, version, gi, handles, call>>
      /\ gi_rwlock' = gi_rwlock \ {r}
  BY Zenon DEF lookupDone
<1>4. NoReader.handle <= Len(handles)
  BY <1>2
<1> QED BY <1>1, <1>2, <1>3, <1>4, ReaderStep, Zenon

-----------------------------------------------------------------------------
LEMMA GeoInitInv == GeoInit => GeoInv
<1> SUFFICES ASSUME GeoInit PROVE GeoInv
  BY Zenon
<1>1. handles \in Seq(Handle) /\ Len(handles) = 0
  BY DEF GeoInit
<1>2. \A v \in {0, 1} : v \in 0 .. MaxVersion /\ v <= 1
  BY GeoSizes
<1>3. files \in [DBSet -> 0 .. MaxVersion] /\ \A d \in DBSet : files[d] <= 1
  BY <1>2, Zenon DEF GeoInit
<1>4. HandleInv
  BY <1>1, <1>3, GeoSizes DEF GeoInit, HandleInv
<1>5. ReloadInv
  BY NoCallFacts, Zenon DEF GeoInit, ReloadInv
<1>6. NoReader \in Reader /\ NoReader.at = "idle" /\ NoReader.handle = 0
  BY Zenon DEF NoReader, Reader
<1>7. ReaderInv
  BY <1>1, <1>6, NoCallFacts DEF GeoInit, ReaderInv
<1> QED BY <1>4, <1>5, <1>7, Zenon DEF GeoInv

LEMMA GeoNextInv == GeoInv /\ [GeoNext]_geoVars => GeoInv'
<1> SUFFICES ASSUME GeoInv, [GeoNext]_geoVars PROVE GeoInv'
  BY Zenon
<1>1. CASE UNCHANGED geoVars
  <2>1. DBSet' = DBSet /\ Handle' = Handle /\ Call' = Call
    BY <1>1, Zenon DEF geoVars, DBSet, Handle, Call, Versions
  <2>2. HandleInv'
    BY <1>1, <2>1, Zenon DEF geoVars, GeoInv, HandleInv
  <2>3. ReloadInv'
    BY <1>1, <2>1, Zenon DEF geoVars, GeoInv, ReloadInv
  <2>4. ReaderInv'
    BY <1>1, Zenon DEF geoVars, GeoInv, ReaderInv
  <2> QED BY <2>2, <2>3, <2>4, Zenon DEF GeoInv
<1>2. CASE \E d \in DBSet : replaceFile(d)
  BY <1>2, ReplaceKeepsInv, Zenon
<1>3. CASE \E k \in kinds : callInit(k)
  BY <1>3, CallInitKeepsInv, Zenon
<1>4. CASE writeLock \/ initGeoIPDB \/ reload \/ callDone
  BY <1>4, WriteLockKeepsInv, OpeningKeepsInv, ReloadingKeepsInv, CallDoneKeepsInv, Zenon
<1>5. CASE \E r \in GeoReaders, k \in kinds, f \in {4, 6} : lookupGeo(r, k, f)
  BY <1>5, LookupKeepsInv, Zenon
<1>6. CASE \E r \in GeoReaders : readLock(r) \/ lookupDone(r)
  BY <1>6, ReadLockKeepsInv, LookupDoneKeepsInv, Zenon
<1> QED BY <1>1, <1>2, <1>3, <1>4, <1>5, <1>6, Zenon DEF GeoNext, lookupCountry, lookupISP, lookupCity

LEMMA InvUsable == GeoInv => GeoIPStaysUsable
<1> SUFFICES ASSUME GeoInv PROVE GeoIPStaysUsable
  BY Zenon
<1>1. \A h \in DOMAIN handles : handles[h] \in Handle
  BY DEF GeoInv, HandleInv
<1>2. \A h \in DOMAIN handles : handles[h].db \in DBSet /\ handles[h].version \in 1 .. MaxVersion /\ handles[h].open \in BOOLEAN
  BY <1>1, Zenon DEF Handle
<1>3. \A r \in GeoReaders : reader[r].at \in {"idle", "lock", "use"} /\ reader[r].handle \in 0 .. Len(handles)
  <2>1. Len(handles) \in Nat
    BY DEF GeoInv, HandleInv
  <2>2. ASSUME NEW r \in GeoReaders
        PROVE  reader[r].at \in {"idle", "lock", "use"} /\ reader[r].handle \in 0 .. Len(handles)
    <3>1. reader[r] \in Reader /\ reader[r].handle <= Len(handles)
      BY Zenon DEF GeoInv, ReaderInv
    <3>2. reader[r].at \in {"idle", "lock", "use"} /\ reader[r].handle \in Nat
      BY <3>1, Zenon DEF Reader
    <3> QED BY <2>1, <3>1, <3>2
  <2> QED BY <2>2, Zenon
<1>4. call.op \in {"none", "init", "reload"} /\ call.at \in 1 .. Len(DBs) + 1
  <2>1. call \in Call
    BY Zenon DEF GeoInv, ReloadInv
  <2>2. call.op \in {"none", "init", "reload"} /\ call.at \in 1 .. 7
    BY <2>1, Zenon DEF Call
  <2> QED BY <2>2, DBsLen
<1>5. gi_rwlock \subseteq GeoReaders \/ gi_rwlock = {"writer"}
  BY Zenon DEF GeoInv, ReaderInv
<1>6. GeoTypeOK
  BY <1>2, <1>3, <1>4, <1>5, Zenon DEF GeoTypeOK, GeoInv, HandleInv
<1>7. ASSUME call.result = "reload", NEW d \in DOMAIN call.had
      PROVE  gi[d] # 0 /\ handles[gi[d]].open /\ handles[gi[d]].version >= call.had[d]
  <2>1. d \in DBSet
    BY HadFacts, Zenon DEF GeoInv, ReloadInv
  <2> QED BY <1>7, <2>1, Zenon DEF GeoInv, ReloadInv, HandleInv
<1> QED BY <1>6, <1>7, Zenon DEF GeoIPStaysUsable, GeoInv, ReaderInv

\* Whatever the number of readers and of files replaced, a lookup never uses a
\* database that reload() closed, and a reload that ends without throwing leaves
\* every database that was open open, none older than its file was.
THEOREM GeoIPUsable == GeoSpec => []GeoIPStaysUsable
<1>1. GeoInit => GeoInv
  BY GeoInitInv, Zenon
<1>2. GeoInv /\ [GeoNext]_geoVars => GeoInv'
  BY GeoNextInv, Zenon
<1>3. GeoInv => GeoIPStaysUsable
  BY InvUsable, Zenon
<1> QED BY <1>1, <1>2, <1>3, PTL DEF GeoSpec

-----------------------------------------------------------------------------
(***************************************************************************)
(* The lists for any number of servers, keys and requests: the netmask     *)
(* tree agrees with the ip list, replication and Redis neither prolong an  *)
(* entry nor repeat an event, and a lookup finds what covers the address.  *)
(***************************************************************************)

InTime(map) == \A k \in DOMAIN map : map[k] <= horizon[k] + MaxDelay

ListsInv ==
    /\ DOMAIN list = Nodes /\ iplist_netmask \in [Nodes -> SUBSET Keys]
    /\ \A n \in Nodes : IsExpirationMap(list[n]) /\ InTime(list[n])
    /\ NetmaskMatchesList

RedisInv ==
    /\ DOMAIN redis = Redises
    /\ \A r \in Redises : IsExpirationMap(redis[r]) /\ InTime(redis[r])

\* A message never asks for more than was requested when it was sent.
NetInv ==
    /\ net \subseteq Message
    /\ \A m \in net : m.at <= now /\ (m.op = "add" => m.at + m.ttl <= horizon[m.key])

Lookup == [state : {"idle", "matched", "found", "missing"},
           mask : Keys \union {NoMask},
           address : Addresses \union {NoMask},
           throughout : SUBSET Keys]

LookupInv == lookup \in [Nodes -> Lookup]

\* No event has been raised for a request that is still to come.
HookInv ==
    /\ ops \in 0 .. MaxOps
    /\ hooked \in [1 .. MaxOps -> Nat]
    /\ \A i \in 1 .. MaxOps : hooked[i] <= 1 /\ (i > ops => hooked[i] = 0)

RestInv ==
    /\ config \in Configs
    /\ now \in 0 .. MaxTime
    /\ up \in [Nodes -> BOOLEAN]
    /\ horizon \in [Keys -> Nat]
    /\ startup \in {"ok", "exit", "unreachable"}
    /\ unstored \subseteq Nodes

IInv == ListsInv /\ RedisInv /\ NetInv /\ LookupInv /\ HookInv /\ RestInv

-----------------------------------------------------------------------------
\* Times stay in bounds when the latest time requested only grows.
Grows == horizon' \in [Keys -> Nat] /\ \A k \in Keys : horizon[k] <= horizon'[k]

LEMMA Sizes == MaxDelay \in Nat /\ MaxTime \in Nat /\ MaxOps \in Nat
  BY BlackWhiteListAssumption, Zenon

LEMMA WithInBounds ==
    ASSUME NEW map, IsExpirationMap(map), InTime(map), RestInv, Grows,
           NEW k \in Keys, NEW t \in Nat, t <= horizon'[k] + MaxDelay
    PROVE  /\ IsExpirationMap(With(map, k, t))
           /\ \A j \in DOMAIN With(map, k, t) : With(map, k, t)[j] <= horizon'[j] + MaxDelay
<1>1. DOMAIN With(map, k, t) = DOMAIN map \union {k}
  BY Zenon DEF With
<1>2. \A j \in DOMAIN map \union {k} : With(map, k, t)[j] = IF j = k THEN t ELSE map[j]
  BY Zenon DEF With
<1>3. DOMAIN map \subseteq Keys /\ \A j \in DOMAIN map : map[j] \in Nat /\ map[j] <= horizon[j] + MaxDelay
  BY Zenon DEF IsExpirationMap, InTime
<1>4. \A j \in Keys : horizon[j] \in Nat /\ horizon'[j] \in Nat /\ horizon[j] <= horizon'[j]
  BY Zenon DEF RestInv, Grows
<1>5. ASSUME NEW j \in DOMAIN map \union {k}
      PROVE  With(map, k, t)[j] \in Nat /\ With(map, k, t)[j] <= horizon'[j] + MaxDelay
  BY <1>2, <1>3, <1>4, Sizes
<1> QED BY <1>1, <1>3, <1>5, Zenon DEF IsExpirationMap

LEMMA WithoutInBounds ==
    ASSUME NEW map, IsExpirationMap(map), InTime(map), RestInv, Grows, NEW ks
    PROVE  /\ IsExpirationMap(Without(map, ks))
           /\ \A j \in DOMAIN Without(map, ks) : Without(map, ks)[j] <= horizon'[j] + MaxDelay
<1>1. DOMAIN Without(map, ks) = DOMAIN map \ ks
  BY Zenon DEF Without
<1>2. \A j \in DOMAIN map \ ks : Without(map, ks)[j] = map[j]
  BY Zenon DEF Without
<1>3. DOMAIN map \subseteq Keys /\ \A j \in DOMAIN map : map[j] \in Nat /\ map[j] <= horizon[j] + MaxDelay
  BY Zenon DEF IsExpirationMap, InTime
<1>4. \A j \in Keys : horizon[j] \in Nat /\ horizon'[j] \in Nat /\ horizon[j] <= horizon'[j]
  BY Zenon DEF RestInv, Grows
<1>5. ASSUME NEW j \in DOMAIN map \ ks
      PROVE  Without(map, ks)[j] \in Nat /\ Without(map, ks)[j] <= horizon'[j] + MaxDelay
  BY <1>2, <1>3, <1>4, Sizes
<1> QED BY <1>1, <1>3, <1>5, Zenon DEF IsExpirationMap

LEMMA MapStaysInBounds ==
    ASSUME NEW map, IsExpirationMap(map), InTime(map), RestInv, Grows
    PROVE  \A j \in DOMAIN map : map[j] <= horizon'[j] + MaxDelay
<1>1. DOMAIN map \subseteq Keys /\ \A j \in DOMAIN map : map[j] \in Nat /\ map[j] <= horizon[j] + MaxDelay
  BY Zenon DEF IsExpirationMap, InTime
<1>2. \A j \in Keys : horizon[j] \in Nat /\ horizon'[j] \in Nat /\ horizon[j] <= horizon'[j]
  BY Zenon DEF RestInv, Grows
<1> QED BY <1>1, <1>2, Sizes

-----------------------------------------------------------------------------
\* What each part of an operation preserves.
LEMMA AddKeepsLists ==
    ASSUME ListsInv, RestInv, Grows, NEW n \in Nodes, NEW k \in Keys, NEW ttl \in Nat,
           now + ttl <= horizon'[k] + MaxDelay, AddToList(n, k, ttl)
    PROVE  ListsInv'
<1> DEFINE new == With(list[n], k, now + ttl)
<1>1. now + ttl \in Nat
  BY Sizes DEF RestInv
<1>2. IsExpirationMap(new) /\ \A j \in DOMAIN new : new[j] <= horizon'[j] + MaxDelay
  BY <1>1, WithInBounds, Zenon DEF ListsInv
<1>3. DOMAIN list' = Nodes /\ list'[n] = new /\ \A m \in Nodes \ {n} : list'[m] = list[m]
  BY Zenon DEF AddToList, ListsInv
<1>4. \A m \in Nodes : IsExpirationMap(list'[m]) /\ \A j \in DOMAIN list'[m] : list'[m][j] <= horizon'[j] + MaxDelay
  <2> TAKE m \in Nodes
  <2>1. CASE m = n
    BY <2>1, <1>2, <1>3, Zenon
  <2>2. CASE m # n
    BY <2>2, <1>3, MapStaysInBounds, Zenon DEF ListsInv
  <2> QED BY <2>1, <2>2, Zenon
<1>5. DOMAIN new = DOMAIN list[n] \union {k}
  BY Zenon DEF With
<1>6. /\ iplist_netmask' \in [Nodes -> SUBSET Keys]
      /\ iplist_netmask'[n] = iplist_netmask[n] \union ({k} \cap {j \in Keys : Type[j] = "ip"})
      /\ \A m \in Nodes \ {n} : iplist_netmask'[m] = iplist_netmask[m]
  BY Zenon DEF AddToList, ListsInv
<1>7. NetmaskMatchesList'
  <2> SUFFICES ASSUME NEW m \in Nodes PROVE iplist_netmask'[m] = {j \in DOMAIN list'[m] : Type[j] = "ip"}
    BY Zenon DEF NetmaskMatchesList
  <2>1. CASE m = n
    BY <2>1, <1>3, <1>5, <1>6 DEF ListsInv, NetmaskMatchesList
  <2>2. CASE m # n
    BY <2>2, <1>3, <1>6, Zenon DEF ListsInv, NetmaskMatchesList
  <2> QED BY <2>1, <2>2, Zenon
<1> QED BY <1>3, <1>4, <1>6, <1>7, Zenon DEF ListsInv, InTime

LEMMA DeleteKeepsLists ==
    ASSUME ListsInv, RestInv, Grows, NEW n \in Nodes, NEW ks, DeleteFromList(n, ks)
    PROVE  ListsInv'
<1> DEFINE new == Without(list[n], ks)
<1>1. IsExpirationMap(new) /\ \A j \in DOMAIN new : new[j] <= horizon'[j] + MaxDelay
  BY WithoutInBounds, Zenon DEF ListsInv
<1>2. DOMAIN list' = Nodes /\ list'[n] = new /\ \A m \in Nodes \ {n} : list'[m] = list[m]
  BY Zenon DEF DeleteFromList, ListsInv
<1>3. \A m \in Nodes : IsExpirationMap(list'[m]) /\ \A j \in DOMAIN list'[m] : list'[m][j] <= horizon'[j] + MaxDelay
  <2> TAKE m \in Nodes
  <2>1. CASE m = n
    BY <2>1, <1>1, <1>2, Zenon
  <2>2. CASE m # n
    BY <2>2, <1>2, MapStaysInBounds, Zenon DEF ListsInv
  <2> QED BY <2>1, <2>2, Zenon
<1>4. DOMAIN new = DOMAIN list[n] \ ks
  BY Zenon DEF Without
<1>5. /\ iplist_netmask' \in [Nodes -> SUBSET Keys]
      /\ iplist_netmask'[n] = iplist_netmask[n] \ ks
      /\ \A m \in Nodes \ {n} : iplist_netmask'[m] = iplist_netmask[m]
  BY Zenon DEF DeleteFromList, ListsInv
<1>6. NetmaskMatchesList'
  <2> SUFFICES ASSUME NEW m \in Nodes PROVE iplist_netmask'[m] = {j \in DOMAIN list'[m] : Type[j] = "ip"}
    BY Zenon DEF NetmaskMatchesList
  <2>1. CASE m = n
    BY <2>1, <1>2, <1>4, <1>5, Zenon DEF ListsInv, NetmaskMatchesList
  <2>2. CASE m # n
    BY <2>2, <1>2, <1>5, Zenon DEF ListsInv, NetmaskMatchesList
  <2> QED BY <2>1, <2>2, Zenon
<1> QED BY <1>2, <1>3, <1>5, <1>6, Zenon DEF ListsInv, InTime

LEMMA StopKeepsLists ==
    ASSUME ListsInv, LookupInv, RestInv, NEW n \in Nodes, Stop(n), UNCHANGED horizon
    PROVE  ListsInv' /\ LookupInv' /\ up' \in [Nodes -> BOOLEAN]
<1>1. DOMAIN list' = Nodes /\ list'[n] = <<>> /\ \A m \in Nodes \ {n} : list'[m] = list[m]
  BY Zenon DEF Stop, ListsInv
<1>2. /\ iplist_netmask' \in [Nodes -> SUBSET Keys]
      /\ iplist_netmask'[n] = {} /\ \A m \in Nodes \ {n} : iplist_netmask'[m] = iplist_netmask[m]
  BY Zenon DEF Stop, ListsInv
<1>3. \A m \in Nodes : IsExpirationMap(list'[m]) /\ InTime(list[m])' /\ iplist_netmask'[m] = {k \in DOMAIN list'[m] : Type[k] = "ip"}
  BY <1>1, <1>2 DEF ListsInv, InTime, IsExpirationMap, NetmaskMatchesList
<1>4. LookupInv'
  BY Zenon DEF LookupInv, Lookup, Stop, NoLookup
<1>5. up' \in [Nodes -> BOOLEAN]
  BY Zenon DEF RestInv, Stop
<1> QED BY <1>1, <1>2, <1>3, <1>4, <1>5, Zenon DEF ListsInv, NetmaskMatchesList

LEMMA RedisUpdated ==
    ASSUME RedisInv, RestInv, Grows, NEW n \in Nodes, NEW new,
           redis' = [redis EXCEPT ![RedisOf[n]] = new], IsExpirationMap(new),
           \A j \in DOMAIN new : new[j] <= horizon'[j] + MaxDelay
    PROVE  RedisInv'
<1> DEFINE r == RedisOf[n]
<1>1. r \in Redises
  BY BlackWhiteListAssumption, Zenon
<1>2. DOMAIN redis' = Redises /\ redis'[r] = new /\ \A q \in Redises \ {r} : redis'[q] = redis[q]
  BY <1>1, Zenon DEF RedisInv
<1>3. \A q \in Redises : IsExpirationMap(redis'[q]) /\ \A j \in DOMAIN redis'[q] : redis'[q][j] <= horizon'[j] + MaxDelay
  <2> TAKE q \in Redises
  <2>1. CASE q = r
    BY <2>1, <1>2, Zenon
  <2>2. CASE q # r
    BY <2>2, <1>2, MapStaysInBounds, Zenon DEF RedisInv
  <2> QED BY <2>1, <2>2, Zenon
<1> QED BY <1>2, <1>3, Zenon DEF RedisInv, InTime

LEMMA RedisStays ==
    ASSUME RedisInv, RestInv, Grows, redis' = redis
    PROVE  RedisInv'
  BY MapStaysInBounds, Zenon DEF RedisInv, InTime

LEMMA StoreKeepsRedis ==
    ASSUME RedisInv, RestInv, Grows, NEW n \in Nodes, NEW k \in Keys, NEW ttl \in Nat,
           now + ttl <= horizon'[k] + MaxDelay, Persisted(n, addPersistEntry(n, k, ttl))
    PROVE  RedisInv' /\ unstored' \subseteq Nodes
<1>1. unstored' \subseteq Nodes
  BY Zenon DEF Persisted, RestInv
<1>2. CASE redis' = redis
  BY <1>1, <1>2, RedisStays, Zenon
<1>3. CASE redis' = [redis EXCEPT ![RedisOf[n]] = With(redis[RedisOf[n]], k, now + ttl)]
  <2>1. RedisOf[n] \in Redises /\ now + ttl \in Nat
    BY BlackWhiteListAssumption, Sizes DEF RestInv
  <2> DEFINE new == With(redis[RedisOf[n]], k, now + ttl)
  <2>2. IsExpirationMap(new) /\ \A j \in DOMAIN new : new[j] <= horizon'[j] + MaxDelay
    BY <2>1, WithInBounds, Zenon DEF RedisInv
  <2> QED BY <1>1, <1>3, <2>2, RedisUpdated, Zenon
<1> QED BY <1>2, <1>3, Zenon DEF Persisted, addPersistEntry

LEMMA DeleteKeepsRedis ==
    ASSUME RedisInv, RestInv, Grows, NEW n \in Nodes, NEW k, Persisted(n, deletePersistEntry(n, k))
    PROVE  RedisInv' /\ unstored' \subseteq Nodes
<1>1. unstored' \subseteq Nodes
  BY Zenon DEF Persisted, RestInv
<1>2. CASE redis' = redis
  BY <1>1, <1>2, RedisStays, Zenon
<1>3. CASE redis' = [redis EXCEPT ![RedisOf[n]] = Without(redis[RedisOf[n]], {k})]
  <2>1. RedisOf[n] \in Redises
    BY BlackWhiteListAssumption, Zenon
  <2> DEFINE new == Without(redis[RedisOf[n]], {k})
  <2>2. IsExpirationMap(new) /\ \A j \in DOMAIN new : new[j] <= horizon'[j] + MaxDelay
    BY <2>1, WithoutInBounds, Zenon DEF RedisInv
  <2> QED BY <1>1, <1>3, <2>2, RedisUpdated, Zenon
<1> QED BY <1>2, <1>3, Zenon DEF Persisted, deletePersistEntry

LEMMA WatchKeepsLookup ==
    ASSUME LookupInv, ListsInv', Watch
    PROVE  LookupInv'
<1>1. ASSUME NEW look \in Lookup, NEW keys \in SUBSET Keys
      PROVE  [look EXCEPT !.throughout = @ \cap keys] \in Lookup
  BY Zenon DEF Lookup
<1>2. NoLookup \in Lookup
  BY Zenon DEF NoLookup, Lookup
<1>3. \A n \in Nodes : DOMAIN list'[n] \in SUBSET Keys
  BY Zenon DEF ListsInv, IsExpirationMap
<1>4. ASSUME NEW n \in Nodes
      PROVE  [lookup[n] EXCEPT !.throughout = @ \cap DOMAIN list'[n]] \in Lookup
  BY <1>1, <1>3, Zenon DEF LookupInv
<1> QED BY <1>2, <1>4, Zenon DEF LookupInv, Watch

LEMMA NewMessages ==
    ASSUME NetInv, HookInv, RestInv, Grows, NEW n \in Nodes, NEW k \in Keys, NEW ttl \in Nat, NEW op \in {"add", "delete"},
           ops < config.ops, op = "add" => now + ttl <= horizon'[k], Replicate(n, op, k, ttl), UNCHANGED now
    PROVE  NetInv'
<1>1. config.nodes \subseteq Nodes /\ config.ops \in 0 .. MaxOps
  BY BlackWhiteListAssumption, Zenon DEF RestInv, Installation
<1>2. ops + 1 \in 1 .. MaxOps /\ now \in Nat
  BY <1>1, Sizes DEF HookInv, RestInv
<1>3. ASSUME NEW m \in net'
      PROVE  m \in Message /\ m.at <= now /\ (m.op = "add" => m.at + m.ttl <= horizon'[m.key])
  <2>1. CASE m \in net
    <3>1. m \in Message /\ m.at <= now /\ (m.op = "add" => m.at + m.ttl <= horizon[m.key])
      BY <2>1, Zenon DEF NetInv
    <3>2. m.key \in Keys /\ m.at \in Nat /\ m.ttl \in Nat
      BY <3>1, Zenon DEF Message
    <3>3. horizon[m.key] \in Nat /\ horizon'[m.key] \in Nat /\ horizon[m.key] <= horizon'[m.key]
      BY <3>2, Zenon DEF Grows, RestInv
    <3> QED BY <3>1, <3>2, <3>3
  <2>2. CASE m \notin net
    <3>1. PICK to \in config.nodes \ {n} :
            m = [id |-> ops + 1, op |-> op, key |-> k, ttl |-> ttl, to |-> to, at |-> now]
      BY <2>2, Zenon DEF Replicate
    <3> QED BY <3>1, <1>1, <1>2 DEF Message
  <2> QED BY <2>1, <2>2, Zenon
<1> QED BY <1>3, Zenon DEF NetInv

LEMMA StayGrows == ASSUME RestInv, UNCHANGED horizon PROVE Grows
  BY DEF RestInv, Grows

LEMMA RequestCounted ==
    ASSUME HookInv, RestInv, NEW n, Request(n)
    PROVE  /\ ops < config.ops /\ ops' \in 0 .. MaxOps
           /\ hooked' \in {hooked, [hooked EXCEPT ![ops + 1] = @ + 1]} => HookInv'
<1>1. config.ops \in 0 .. MaxOps
  BY BlackWhiteListAssumption, Zenon DEF RestInv, Installation
<1>2. ops < config.ops /\ ops' = ops + 1 /\ ops' \in 0 .. MaxOps
  BY <1>1, Sizes DEF Request, HookInv
<1>3. ASSUME hooked' = hooked PROVE HookInv'
  BY <1>2, <1>3, Sizes DEF HookInv
<1>4. ASSUME hooked' = [hooked EXCEPT ![ops + 1] = @ + 1] PROVE HookInv'
  <2>1. ops + 1 \in 1 .. MaxOps /\ hooked[ops + 1] = 0
    BY <1>1, <1>2, Sizes DEF HookInv
  <2>2. /\ hooked' \in [1 .. MaxOps -> Nat] /\ hooked'[ops + 1] = 1
        /\ \A i \in 1 .. MaxOps : i # ops + 1 => hooked'[i] = hooked[i]
    BY <1>4, <2>1 DEF HookInv
  <2>3. \A i \in 1 .. MaxOps : hooked'[i] <= 1 /\ (i > ops' => hooked'[i] = 0)
    BY <1>2, <2>2 DEF HookInv
  <2> QED BY <1>2, <2>2, <2>3, Zenon DEF HookInv
<1> QED BY <1>2, <1>3, <1>4, Zenon

\* addEntry raises the latest time requested to that of the new entry.
LEMMA HorizonGrows ==
    ASSUME RestInv, NEW k \in Keys, NEW ttl \in Nat, horizon' = [horizon EXCEPT ![k] = Latest(@, now + ttl)]
    PROVE  Grows /\ now + ttl <= horizon'[k] /\ now + ttl <= horizon'[k] + MaxDelay
<1>1. now + ttl \in Nat
  BY Sizes DEF RestInv
<1>2. horizon'[k] = Latest(horizon[k], now + ttl) /\ \A j \in Keys \ {k} : horizon'[j] = horizon[j]
  BY Zenon DEF RestInv
<1>3. horizon[k] \in Nat
  BY Zenon DEF RestInv
<1>4. horizon'[k] \in Nat /\ horizon[k] <= horizon'[k] /\ now + ttl <= horizon'[k]
  BY <1>1, <1>2, <1>3 DEF Latest
<1>5. horizon' \in [Keys -> Nat]
  BY <1>4, Zenon DEF RestInv
<1>6. \A j \in Keys : horizon[j] <= horizon'[j]
  BY <1>2, <1>4 DEF RestInv
<1> QED BY <1>1, <1>4, <1>5, <1>6, Sizes DEF Grows

LEMMA NetStays ==
    ASSUME NetInv, RestInv, Grows, net' \subseteq net, now' \in Nat, now <= now'
    PROVE  NetInv'
<1>1. ASSUME NEW m \in net
      PROVE  m.at <= now' /\ (m.op = "add" => m.at + m.ttl <= horizon'[m.key])
  <2>1. m \in Message /\ m.at <= now /\ (m.op = "add" => m.at + m.ttl <= horizon[m.key])
    BY Zenon DEF NetInv
  <2>2. m.key \in Keys /\ m.at \in Nat /\ m.ttl \in Nat
    BY <2>1, Zenon DEF Message
  <2>3. horizon[m.key] \in Nat /\ horizon'[m.key] \in Nat /\ horizon[m.key] <= horizon'[m.key] /\ now \in Nat
    BY <2>2 DEF Grows, RestInv
  <2> QED BY <2>1, <2>2, <2>3
<1> QED BY <1>1, Zenon DEF NetInv

-----------------------------------------------------------------------------
\* The actions.
LEMMA RequestsKeepInv ==
    ASSUME IInv, NEW n \in Nodes, NEW k \in Keys, NEW ttl \in Nat,
           \/ addEntry(n, k, ttl) \/ addEntryThrows(n, k, ttl)
           \/ deleteEntry(n, k) \/ deleteEntryThrows(n, k)
    PROVE  IInv'
<1> USE DEF IInv
<1>1. CASE addEntry(n, k, ttl)
  <2>1. Grows /\ now + ttl <= horizon'[k] /\ now + ttl <= horizon'[k] + MaxDelay
    BY <1>1, HorizonGrows, Zenon DEF addEntry
  <2>2. ListsInv'
    BY <1>1, <2>1, AddKeepsLists, Zenon DEF addEntry
  <2>3. RedisInv' /\ unstored' \subseteq Nodes
    BY <1>1, <2>1, StoreKeepsRedis, Zenon DEF addEntry
  <2>4. ops < config.ops /\ HookInv'
    BY <1>1, RequestCounted, Zenon DEF addEntry
  <2>5. NetInv'
    BY <1>1, <2>1, <2>4, NewMessages, Zenon DEF addEntry
  <2>6. LookupInv'
    BY <1>1, <2>2, WatchKeepsLookup, Zenon DEF addEntry
  <2>7. RestInv'
    BY <1>1, <2>1, <2>3, Zenon DEF addEntry, RestInv, Grows
  <2> QED BY <2>2, <2>3, <2>4, <2>5, <2>6, <2>7, Zenon
<1>2. CASE addEntryThrows(n, k, ttl)
  <2>1. Grows /\ now + ttl <= horizon'[k] + MaxDelay
    BY <1>2, HorizonGrows, Zenon DEF addEntryThrows
  <2>2. ListsInv'
    BY <1>2, <2>1, AddKeepsLists, Zenon DEF addEntryThrows
  <2>3. RedisInv'
    BY <1>2, <2>1, RedisStays, Zenon DEF addEntryThrows
  <2>4. HookInv'
    BY <1>2, RequestCounted, Zenon DEF addEntryThrows
  <2>5. NetInv'
    BY <1>2, <2>1, NetStays DEF addEntryThrows, RestInv
  <2>6. LookupInv'
    BY <1>2, <2>2, WatchKeepsLookup, Zenon DEF addEntryThrows
  <2>7. RestInv'
    BY <1>2, <2>1, Zenon DEF addEntryThrows, RestInv, Grows
  <2> QED BY <2>2, <2>3, <2>4, <2>5, <2>6, <2>7, Zenon
<1>3. CASE deleteEntry(n, k)
  <2>1. Grows
    BY <1>3, StayGrows, Zenon DEF deleteEntry
  <2>2. ListsInv'
    BY <1>3, <2>1, DeleteKeepsLists, Zenon DEF deleteEntry
  <2>3. RedisInv' /\ unstored' \subseteq Nodes
    BY <1>3, <2>1, DeleteKeepsRedis, Zenon DEF deleteEntry
  <2>4. ops < config.ops /\ HookInv'
    BY <1>3, RequestCounted, Zenon DEF deleteEntry
  <2>5. NetInv'
    BY <1>3, <2>1, <2>4, NewMessages, Zenon DEF deleteEntry
  <2>6. LookupInv'
    BY <1>3, <2>2, WatchKeepsLookup, Zenon DEF deleteEntry
  <2>7. RestInv'
    BY <1>3, <2>3, Zenon DEF deleteEntry, RestInv
  <2> QED BY <2>2, <2>3, <2>4, <2>5, <2>6, <2>7, Zenon
<1>4. CASE deleteEntryThrows(n, k)
  <2>1. Grows
    BY <1>4, StayGrows, Zenon DEF deleteEntryThrows
  <2>2. ListsInv'
    BY <1>4, <2>1, DeleteKeepsLists, Zenon DEF deleteEntryThrows
  <2>3. RedisInv'
    BY <1>4, <2>1, RedisStays, Zenon DEF deleteEntryThrows
  <2>4. HookInv'
    BY <1>4, RequestCounted, Zenon DEF deleteEntryThrows
  <2>5. NetInv'
    BY <1>4, <2>1, NetStays DEF deleteEntryThrows, RestInv
  <2>6. LookupInv'
    BY <1>4, <2>2, WatchKeepsLookup, Zenon DEF deleteEntryThrows
  <2>7. RestInv'
    BY <1>4, Zenon DEF deleteEntryThrows, RestInv
  <2> QED BY <2>2, <2>3, <2>4, <2>5, <2>6, <2>7, Zenon
<1> QED BY <1>1, <1>2, <1>3, <1>4, Zenon

\* A message that arrives in time asks for no more than was requested.
LEMMA MessagesKeepInv ==
    ASSUME IInv, NEW m \in net, applyAdd(m) \/ applyDelete(m) \/ applyThrows(m) \/ Lose(m)
    PROVE  IInv'
<1> USE DEF IInv
<1>1. UNCHANGED horizon
  BY Zenon DEF applyAdd, applyDelete, applyThrows, Lose
<1>2. Grows
  BY <1>1, StayGrows, Zenon
<1>3. m.to \in Nodes /\ m.key \in Keys /\ m.ttl \in Nat /\ m.at \in Nat
  BY Zenon DEF NetInv, Message
<1>4. HookInv'
  BY Zenon DEF HookInv, applyAdd, applyDelete, applyThrows, Lose
<1>5. NetInv'
  <2>1. net' \subseteq net /\ now' = now
    BY Zenon DEF applyAdd, applyDelete, applyThrows, Lose, Consumed
  <2> QED BY <1>2, <2>1, NetStays DEF RestInv
<1>6. CASE applyAdd(m)
  <2>1. now + m.ttl <= horizon'[m.key] + MaxDelay
    <3>1. m.at + m.ttl <= horizon[m.key] /\ now - m.at <= MaxDelay
      BY <1>6, Zenon DEF applyAdd, Received, NetInv
    <3>2. horizon[m.key] \in Nat /\ now \in Nat
      BY <1>3 DEF RestInv
    <3> QED BY <1>1, <1>3, <3>1, <3>2, Sizes
  <2>2. ListsInv'
    BY <1>2, <1>3, <1>6, <2>1, AddKeepsLists, Zenon DEF applyAdd
  <2>3. RedisInv' /\ unstored' \subseteq Nodes
    BY <1>2, <1>3, <1>6, <2>1, StoreKeepsRedis, RedisStays, Zenon DEF applyAdd, RestInv
  <2>4. LookupInv'
    BY <1>6, <2>2, WatchKeepsLookup, Zenon DEF applyAdd
  <2>5. RestInv'
    BY <1>6, <2>3, Zenon DEF applyAdd, RestInv
  <2> QED BY <1>4, <1>5, <2>2, <2>3, <2>4, <2>5, Zenon
<1>7. CASE applyDelete(m)
  <2>1. ListsInv'
    BY <1>2, <1>3, <1>7, DeleteKeepsLists, Zenon DEF applyDelete
  <2>2. RedisInv' /\ unstored' \subseteq Nodes
    BY <1>2, <1>3, <1>7, DeleteKeepsRedis, RedisStays, Zenon DEF applyDelete, RestInv
  <2>3. LookupInv'
    BY <1>7, <2>1, WatchKeepsLookup, Zenon DEF applyDelete
  <2>4. RestInv'
    BY <1>7, <2>2, Zenon DEF applyDelete, RestInv
  <2> QED BY <1>4, <1>5, <2>1, <2>2, <2>3, <2>4, Zenon
<1>8. CASE applyThrows(m)
  <2>1. ListsInv' /\ LookupInv' /\ up' \in [Nodes -> BOOLEAN]
    BY <1>1, <1>3, <1>8, StopKeepsLists, Zenon DEF applyThrows
  <2>2. RedisInv'
    BY <1>2, <1>8, RedisStays, Zenon DEF applyThrows
  <2>3. RestInv'
    BY <1>8, <2>1, Zenon DEF applyThrows, RestInv
  <2> QED BY <1>4, <1>5, <2>1, <2>2, <2>3, Zenon
<1>9. CASE Lose(m)
  <2>1. ListsInv'
    BY <1>9, Zenon DEF Lose, ListsInv, InTime, NetmaskMatchesList
  <2>2. RedisInv'
    BY <1>2, <1>9, RedisStays, Zenon DEF Lose
  <2>3. LookupInv' /\ RestInv'
    BY <1>9, Zenon DEF Lose, LookupInv, RestInv
  <2> QED BY <1>4, <1>5, <2>1, <2>2, <2>3, Zenon
<1> QED BY <1>6, <1>7, <1>8, <1>9, Zenon

\* Purge, crash and restart.
LEMMA ServerKeepsInv ==
    ASSUME IInv, NEW n \in Nodes,
           purgeEntries(n) \/ Crash(n) \/ loadPersistEntries(n) \/ loadPersistFails(n)
    PROVE  IInv'
<1> USE DEF IInv
<1>1. UNCHANGED <<config, now, horizon, redis, net, ops, hooked>>
  BY Zenon DEF purgeEntries, _purgeEntries, Crash, loadPersistEntries, loadPersistFails
<1>2. Grows
  BY <1>1, StayGrows, Zenon
<1>3. RedisInv' /\ HookInv' /\ NetInv'
  BY <1>1, <1>2, RedisStays, NetStays DEF HookInv, RestInv
<1>4. CASE purgeEntries(n)
  <2>1. PICK type \in Purged : _purgeEntries(n, type)
    BY <1>4, Zenon DEF purgeEntries
  <2>2. ListsInv'
    BY <1>2, <2>1, DeleteKeepsLists, Zenon DEF _purgeEntries
  <2>3. LookupInv'
    BY <2>1, <2>2, WatchKeepsLookup, Zenon DEF _purgeEntries
  <2>4. RestInv'
    BY <2>1, Zenon DEF _purgeEntries, RestInv
  <2> QED BY <1>3, <2>2, <2>3, <2>4, Zenon
<1>5. CASE Crash(n)
  <2>1. ListsInv' /\ LookupInv' /\ up' \in [Nodes -> BOOLEAN]
    BY <1>1, <1>5, StopKeepsLists, Zenon DEF Crash
  <2>2. RestInv'
    BY <1>5, <2>1, Zenon DEF Crash, RestInv
  <2> QED BY <1>3, <2>1, <2>2, Zenon
<1>6. CASE loadPersistEntries(n)
  <2>1. LookupInv'
    BY <1>6, Zenon DEF loadPersistEntries, LookupInv
  <2>2. RestInv'
    BY <1>6, Zenon DEF loadPersistEntries, RestInv
  <2>3. CASE UNCHANGED <<list, iplist_netmask>>
    <3>1. ListsInv'
      BY <1>1, <2>3, Zenon DEF ListsInv, InTime, NetmaskMatchesList
    <3> QED BY <1>3, <2>1, <2>2, <3>1, Zenon
  <2>4. CASE /\ list' = [list EXCEPT ![n] = Loaded(n)]
             /\ iplist_netmask' = [iplist_netmask EXCEPT ![n] = {k \in DOMAIN Loaded(n) : Type[k] = "ip"}]
    <3>1. IsExpirationMap(Loaded(n)) /\ InTime(Loaded(n))
      BY BlackWhiteListAssumption, Zenon DEF RedisInv, Loaded
    <3>2. DOMAIN Loaded(n) \subseteq Keys
      BY <3>1, Zenon DEF IsExpirationMap
    <3>3. DOMAIN list' = Nodes /\ list'[n] = Loaded(n) /\ \A m \in Nodes \ {n} : list'[m] = list[m]
      BY <2>4, Zenon DEF ListsInv
    <3>4. /\ iplist_netmask' \in [Nodes -> SUBSET Keys]
          /\ iplist_netmask'[n] = {k \in DOMAIN Loaded(n) : Type[k] = "ip"}
          /\ \A m \in Nodes \ {n} : iplist_netmask'[m] = iplist_netmask[m]
      BY <2>4, <3>2, Zenon DEF ListsInv
    <3>5. \A m \in Nodes : IsExpirationMap(list'[m]) /\ InTime(list[m])'
      BY <1>1, <3>1, <3>3, Zenon DEF ListsInv, InTime
    <3>6. NetmaskMatchesList'
      BY <3>3, <3>4, Zenon DEF ListsInv, NetmaskMatchesList
    <3>7. ListsInv'
      BY <3>3, <3>4, <3>5, <3>6, Zenon DEF ListsInv
    <3> QED BY <1>3, <2>1, <2>2, <3>7, Zenon
  <2> QED BY <1>6, <2>3, <2>4, Zenon DEF loadPersistEntries
<1>7. CASE loadPersistFails(n)
  <2>1. ListsInv' /\ LookupInv' /\ RestInv'
    BY <1>7, Zenon DEF loadPersistFails, ListsInv, InTime, NetmaskMatchesList, LookupInv, RestInv
  <2> QED BY <1>3, <2>1, Zenon
<1> QED BY <1>4, <1>5, <1>6, <1>7, Zenon

LEMMA BestOfIsMask ==
    ASSUME NEW a \in Addresses, NEW masks
    PROVE  BestOf(a, masks) \in Keys \union {NoMask}
<1> DEFINE hits == {i \in DOMAIN Covers[a] : Covers[a][i] \in masks}
           first == {i \in hits : \A j \in hits : i <= j}
           best == CHOOSE i \in first : TRUE
<1>1. Covers[a] \in Seq(Keys)
  BY BlackWhiteListAssumption, Zenon
<1>2. first # {} => best \in first
  BY Zenon
<1>3. first \subseteq DOMAIN Covers[a]
  BY Zenon
<1>4. first # {} => Covers[a][best] \in Keys
  <2> HIDE DEF first, best
  <2> QED BY <1>1, <1>2, <1>3
<1>5. BestOf(a, masks) = IF first = {} THEN NoMask ELSE Covers[a][best]
  BY Zenon DEF BestOf
<1> QED BY <1>4, <1>5, Zenon

LEMMA LookupsKeepInv ==
    ASSUME IInv, NEW n \in Nodes, (\E a \in config.addresses : getEntry(n, a)) \/ _getEntry(n)
    PROVE  IInv'
<1> USE DEF IInv
<1>1. UNCHANGED <<config, now, up, list, iplist_netmask, redis, net, ops, hooked, horizon, startup, unstored>>
  BY Zenon DEF getEntry, _getEntry
<1>2. ListsInv' /\ RedisInv' /\ NetInv' /\ HookInv' /\ RestInv'
  BY <1>1, Zenon DEF ListsInv, InTime, NetmaskMatchesList, RedisInv, NetInv, HookInv, RestInv
<1>3. ASSUME NEW a \in config.addresses, getEntry(n, a) PROVE LookupInv'
  <2>1. a \in Addresses
    BY BlackWhiteListAssumption, Zenon DEF RestInv, Installation
  <2>2. DOMAIN list[n] \subseteq Keys
    BY Zenon DEF ListsInv, IsExpirationMap
  <2> DEFINE new == [state |-> "matched", address |-> a, mask |-> BestMask(n, a),
                     throughout |-> {Covers[a][i] : i \in DOMAIN Covers[a]} \cap DOMAIN list[n]]
  <2>3. BestMask(n, a) \in Keys \union {NoMask}
    BY <2>1, BestOfIsMask, Zenon DEF BestMask
  <2>4. new \in Lookup
    BY <2>1, <2>2, <2>3, Zenon DEF Lookup
  <2> QED BY <1>3, <2>4, Zenon DEF getEntry, LookupInv
<1>4. ASSUME _getEntry(n) PROVE LookupInv'
  <2>1. ASSUME NEW look \in Lookup, NEW state \in {"found", "missing"}
        PROVE  [look EXCEPT !.state = state] \in Lookup
    BY Zenon DEF Lookup
  <2> DEFINE state == IF lookup[n].mask \in DOMAIN list[n] THEN "found" ELSE "missing"
  <2>2. [lookup[n] EXCEPT !.state = state] \in Lookup
    BY <2>1, Zenon DEF LookupInv
  <2>3. lookup' = [lookup EXCEPT ![n] = [lookup[n] EXCEPT !.state = state]]
    BY <1>4, Zenon DEF _getEntry
  <2> QED BY <2>2, <2>3, Zenon DEF LookupInv
<1> QED BY <1>2, <1>3, <1>4, Zenon

LEMMA TickKeepsInv == ASSUME IInv, Tick PROVE IInv'
<1> USE DEF IInv
<1>1. Grows
  BY StayGrows, Zenon DEF Tick
<1>2. now' \in 0 .. MaxTime /\ now <= now'
  BY Sizes DEF Tick, RestInv
<1>3. NetInv'
  BY <1>1, <1>2, NetStays DEF Tick
<1>4. RedisInv'
  <2> DEFINE gone(r) == {k \in DOMAIN redis[r] : redis[r][k] <= now'}
  <2>1. DOMAIN redis' = Redises /\ \A r \in Redises : redis'[r] = Without(redis[r], gone(r))
    BY Zenon DEF Tick
  <2>2. ASSUME NEW r \in Redises
        PROVE  IsExpirationMap(redis'[r]) /\ \A j \in DOMAIN redis'[r] : redis'[r][j] <= horizon'[j] + MaxDelay
    <3>1. redis'[r] = Without(redis[r], gone(r))
      BY <2>1, Zenon
    <3> HIDE DEF gone
    <3>2. IsExpirationMap(redis[r]) /\ InTime(redis[r])
      BY Zenon DEF RedisInv
    <3>3. /\ IsExpirationMap(Without(redis[r], gone(r)))
          /\ \A j \in DOMAIN Without(redis[r], gone(r)) : Without(redis[r], gone(r))[j] <= horizon'[j] + MaxDelay
      BY <1>1, <3>2, WithoutInBounds, Zenon
    <3> QED BY <3>1, <3>3, Zenon
  <2> QED BY <2>1, <2>2, Zenon DEF RedisInv, InTime
<1>5. ListsInv' /\ LookupInv' /\ HookInv' /\ RestInv'
  BY <1>2, Zenon DEF Tick, ListsInv, InTime, NetmaskMatchesList, LookupInv, HookInv, RestInv
<1> QED BY <1>3, <1>4, <1>5, Zenon

LEMMA InitInv == Init => IInv
<1> SUFFICES ASSUME Init PROVE IInv
  BY Zenon
<1>1. ListsInv /\ RedisInv /\ NetInv
  <2>1. ListsInv
    <3>1. DOMAIN list = Nodes /\ iplist_netmask \in [Nodes -> SUBSET Keys] /\ NetmaskMatchesList
      BY DEF Init, NetmaskMatchesList
    <3>2. \A n \in Nodes : IsExpirationMap(list[n]) /\ InTime(list[n])
      BY DEF Init, IsExpirationMap, InTime
    <3> QED BY <3>1, <3>2, Zenon DEF ListsInv
  <2>2. RedisInv
    BY DEF Init, RedisInv, IsExpirationMap, InTime
  <2>3. NetInv
    BY Zenon DEF Init, NetInv
  <2> QED BY <2>1, <2>2, <2>3, Zenon
<1>2. LookupInv
  BY Zenon DEF Init, LookupInv, Lookup, NoLookup
<1>3. HookInv /\ RestInv
  BY Sizes DEF Init, HookInv, RestInv
<1> QED BY <1>1, <1>2, <1>3, Zenon DEF IInv

LEMMA NextInv == IInv /\ [Next]_vars => IInv'
<1> SUFFICES ASSUME IInv, [Next]_vars PROVE IInv'
  BY Zenon
<1>1. config.keys \subseteq Keys /\ TTLs \subseteq Nat
  BY BlackWhiteListAssumption, Zenon DEF IInv, RestInv, Installation
<1>2. ASSUME NEW n \in Nodes, NEW k \in config.keys, NEW ttl \in TTLs, addEntry(n, k, ttl) \/ addEntryThrows(n, k, ttl)
      PROVE  IInv'
  BY <1>1, <1>2, RequestsKeepInv, Zenon
<1>3. ASSUME NEW n \in Nodes, NEW k \in config.keys, deleteEntry(n, k) \/ deleteEntryThrows(n, k)
      PROVE  IInv'
  <2>1. k \in Keys /\ 0 \in Nat
    BY <1>1, Zenon
  <2> QED BY <1>3, <2>1, RequestsKeepInv, Zenon
<1>4. CASE UNCHANGED vars
  BY <1>4, Zenon DEF vars, IInv, ListsInv, InTime, NetmaskMatchesList, RedisInv, NetInv, LookupInv, HookInv, RestInv
<1> QED BY <1>2, <1>3, <1>4, ServerKeepsInv, LookupsKeepInv, MessagesKeepInv, TickKeepsInv, Zenon DEF Next

-----------------------------------------------------------------------------
\* In every installation, after any requests, losses, crashes and restarts, the
\* tree that getEntry looks addresses up in has the masks of the ip list, which
\* addEntryInternal, deleteEntryInternal, _purgeEntries and loadPersistEntries
\* update separately.
THEOREM BLNetmaskMatches == Spec => []NetmaskMatchesList
<1>1. IInv => NetmaskMatchesList
  BY Zenon DEF IInv, ListsInv
<1> QED BY <1>1, InitInv, NextInv, PTL DEF Spec

\* However many servers there are and however often their messages are lost or
\* repeated, no copy of an entry, on a sibling or loaded from Redis, outlives
\* the latest request by more than the time underway, and a request raises at
\* most one event.
THEOREM BLReplicasAddNothing == Spec => []ReplicasAddNothing
<1>1. IInv => TypeOK
  BY Zenon DEF IInv, ListsInv, RedisInv, NetInv, LookupInv, Lookup, HookInv, RestInv, TypeOK
<1>2. IInv => ReplicasAddNothing
  BY <1>1, Zenon DEF IInv, ListsInv, InTime, HookInv, ReplicasAddNothing
<1> QED BY <1>2, InitInv, NextInv, PTL DEF Spec

-----------------------------------------------------------------------------
(***************************************************************************)
(* Lookups of an address.                                                  *)
(***************************************************************************)

\* No mask of masks that covers a is longer than mask.
Longest(a, mask, masks) ==
    IF mask = NoMask THEN \A j \in DOMAIN Covers[a] : Covers[a][j] \notin masks
    ELSE \E i \in DOMAIN Covers[a] : Covers[a][i] = mask /\ \A j \in DOMAIN Covers[a] : Covers[a][j] \in masks => i <= j

\* A lookup has the longest of the masks that are there throughout,
\* and misses its entry only if that was deleted.
Sound(look, isUp, keys) ==
    /\ look.state # "idle" => look.address \in Addresses /\ Longest(look.address, look.mask, look.throughout)
    /\ look.state = "matched" => isUp /\ look.throughout \subseteq keys
    /\ look.state = "found" => look.mask \in Keys
    /\ look.state = "missing" => look.mask \notin look.throughout

FoundInv == \A n \in Nodes : Sound(lookup[n], up[n], DOMAIN list[n])

LEMMA NoLookupIsSound == ASSUME NEW isUp, NEW keys PROVE Sound(NoLookup, isUp, keys)
BY Zenon DEF Sound, NoLookup

\* A set of indexes has a first one.
LEMMA HasFirst ==
    ASSUME NEW S \in SUBSET Nat, S # {}
    PROVE  \E i \in S : \A j \in S : i <= j
<1> DEFINE less == {ss \in Nat \X Nat : ss[1] < ss[2]}
<1>1. IsWellFoundedOn(less, Nat)
  BY NatLessThanWellFounded, Zenon DEF OpToRel
<1>2. \A i, j \in S : <<j, i>> \in less <=> j < i
  BY Zenon
<1> HIDE DEF less
<1>3. PICK i \in S : \A j \in S : <<j, i>> \notin less
  BY <1>1, WFMin, Zenon
<1>4. ASSUME NEW j \in S PROVE i <= j
  <2>1. ~(j < i)
    BY <1>2, <1>3, Zenon
  <2> QED BY <2>1
<1> QED BY <1>4, Zenon

LEMMA BestOfIsLongest ==
    ASSUME NEW a \in Addresses, NEW masks
    PROVE  Longest(a, BestOf(a, masks), masks)
<1> DEFINE hits == {i \in DOMAIN Covers[a] : Covers[a][i] \in masks}
           first == {i \in hits : \A j \in hits : i <= j}
           best == CHOOSE i \in first : TRUE
<1>1. Covers[a] \in Seq(Keys) /\ NoMask \notin Keys
  BY BlackWhiteListAssumption, MaskAssumption, Zenon
<1>2. BestOf(a, masks) = IF first = {} THEN NoMask ELSE Covers[a][best]
  BY Zenon DEF BestOf
<1>3. DOMAIN Covers[a] \subseteq Nat
  BY <1>1
<1>4. CASE first = {}
  <2>1. hits = {}
    BY <1>3, <1>4, HasFirst, Zenon
  <2> QED BY <1>2, <1>4, <2>1, Zenon DEF Longest
<1>5. CASE first # {}
  <2>1. best \in first
    BY <1>5, Zenon
  <2> HIDE DEF best
  <2>2. best \in DOMAIN Covers[a] /\ \A j \in DOMAIN Covers[a] : Covers[a][j] \in masks => best <= j
    BY <2>1, Zenon
  <2>3. Covers[a][best] # NoMask
    BY <1>1, <2>2
  <2> QED BY <1>2, <1>5, <2>2, <2>3, Zenon DEF Longest
<1> QED BY <1>4, <1>5, Zenon

\* A mask stays the longest when others go.
LEMMA LongestStays ==
    ASSUME NEW a, NEW mask, NEW masks, NEW fewer \in SUBSET masks, Longest(a, mask, masks)
    PROVE  Longest(a, mask, fewer)
BY Zenon DEF Longest

\* Steps that change no lookup.
LEMMA LookupStays ==
    ASSUME FoundInv, UNCHANGED lookup,
           \A n \in Nodes : lookup[n].state = "matched" => up'[n] /\ DOMAIN list'[n] = DOMAIN list[n]
    PROVE  FoundInv'
<1> SUFFICES ASSUME NEW n \in Nodes PROVE Sound(lookup[n], up'[n], DOMAIN list'[n])
  BY Zenon DEF FoundInv
<1>1. Sound(lookup[n], up[n], DOMAIN list[n])
  BY Zenon DEF FoundInv
<1> QED BY <1>1, Zenon DEF Sound

\* Steps that change a list: a lookup in progress loses what was deleted, one
\* that is finished is forgotten.
LEMMA WatchKeepsFound ==
    ASSUME IInv, FoundInv, Watch, UNCHANGED up
    PROVE  FoundInv'
<1> SUFFICES ASSUME NEW n \in Nodes PROVE Sound(lookup'[n], up[n], DOMAIN list'[n])
  BY Zenon DEF FoundInv
<1> DEFINE look == lookup[n]
           kept == look.throughout \cap DOMAIN list'[n]
<1>1. CASE look.state # "matched"
  <2>1. lookup'[n] = NoLookup
    BY <1>1, Zenon DEF Watch
  <2> QED BY <2>1, NoLookupIsSound, Zenon
<1>2. CASE look.state = "matched"
  <2>1. lookup'[n] = [look EXCEPT !.throughout = kept]
    BY <1>2, Zenon DEF Watch
  <2>2. look \in Lookup /\ Sound(look, up[n], DOMAIN list[n])
    BY Zenon DEF IInv, LookupInv, FoundInv
  <2> HIDE DEF look
  <2>3. Longest(look.address, look.mask, kept)
    BY <1>2, <2>2, LongestStays, Zenon DEF Sound
  <2>4. lookup'[n].state = "matched" /\ lookup'[n].address = look.address
    BY <1>2, <2>1, <2>2, Zenon DEF Lookup
  <2>5. lookup'[n].mask = look.mask /\ lookup'[n].throughout = kept
    BY <2>1, <2>2, Zenon DEF Lookup
  <2>6. look.address \in Addresses /\ up[n]
    BY <1>2, <2>2, Zenon DEF Sound
  <2> QED BY <2>3, <2>4, <2>5, <2>6, Zenon DEF Sound
<1> QED BY <1>1, <1>2, Zenon

\* A server that stops forgets its lookup.
LEMMA StopKeepsFound ==
    ASSUME IInv, FoundInv, NEW n \in Nodes, Stop(n)
    PROVE  FoundInv'
<1> SUFFICES ASSUME NEW m \in Nodes PROVE Sound(lookup'[m], up'[m], DOMAIN list'[m])
  BY Zenon DEF FoundInv
<1>1. lookup \in [Nodes -> Lookup] /\ up \in [Nodes -> BOOLEAN] /\ DOMAIN list = Nodes
  BY Zenon DEF IInv, LookupInv, RestInv, ListsInv
<1>2. CASE m = n
  <2>1. lookup'[m] = NoLookup
    BY <1>1, <1>2, Zenon DEF Stop
  <2> QED BY <2>1, NoLookupIsSound, Zenon
<1>3. CASE m # n
  <2>1. lookup'[m] = lookup[m] /\ up'[m] = up[m] /\ list'[m] = list[m]
    BY <1>1, <1>3, Zenon DEF Stop
  <2>2. Sound(lookup[m], up[m], DOMAIN list[m])
    BY Zenon DEF FoundInv
  <2> QED BY <2>1, <2>2, Zenon
<1> QED BY <1>2, <1>3, Zenon

\* The two steps of a lookup.
LEMMA LookupsKeepFound ==
    ASSUME IInv, FoundInv, NEW n \in Nodes, (\E a \in config.addresses : getEntry(n, a)) \/ _getEntry(n)
    PROVE  FoundInv'
<1>1. lookup \in [Nodes -> Lookup] /\ DOMAIN list[n] \subseteq Keys /\ UNCHANGED <<up, list>>
  BY Zenon DEF IInv, LookupInv, ListsInv, IsExpirationMap, getEntry, _getEntry
<1>2. \A m \in Nodes : Sound(lookup[m], up[m], DOMAIN list[m])
  BY Zenon DEF FoundInv
<1>3. \A m \in Nodes \ {n} : lookup'[m] = lookup[m]
  BY <1>1, Zenon DEF getEntry, _getEntry
<1>4. ASSUME NEW a \in config.addresses, getEntry(n, a) PROVE Sound(lookup'[n], up[n], DOMAIN list[n])
  <2> DEFINE kept == {Covers[a][i] : i \in DOMAIN Covers[a]} \cap DOMAIN list[n]
             new == [state |-> "matched", address |-> a, mask |-> BestMask(n, a), throughout |-> kept]
  <2>1. a \in Addresses
    BY BlackWhiteListAssumption, Zenon DEF IInv, RestInv, Installation
  <2>2. kept \subseteq iplist_netmask[n]
    BY <2>1, MaskAssumption DEF IInv, ListsInv, NetmaskMatchesList
  <2>3. kept \subseteq DOMAIN list[n]
    BY Zenon
  <2>4. lookup'[n] = new /\ up[n]
    BY <1>1, <1>4, Zenon DEF getEntry
  <2> HIDE DEF kept
  <2>5. Longest(a, BestMask(n, a), kept)
    BY <2>1, <2>2, BestOfIsLongest, LongestStays, Zenon DEF BestMask
  <2>6. Sound(new, up[n], DOMAIN list[n])
    BY <2>1, <2>3, <2>4, <2>5, Zenon DEF Sound
  <2> QED BY <2>4, <2>6, Zenon
<1>5. ASSUME _getEntry(n) PROVE Sound(lookup'[n], up[n], DOMAIN list[n])
  <2> DEFINE look == lookup[n]
             state == IF look.mask \in DOMAIN list[n] THEN "found" ELSE "missing"
  <2>1. lookup'[n] = [look EXCEPT !.state = state] /\ look.state = "matched"
    BY <1>1, <1>5, Zenon DEF _getEntry
  <2>2. look \in Lookup /\ Sound(look, up[n], DOMAIN list[n])
    BY <1>1, <1>2, Zenon
  <2> HIDE DEF look
  <2>3. /\ look.address \in Addresses /\ Longest(look.address, look.mask, look.throughout)
        /\ look.throughout \subseteq DOMAIN list[n]
    BY <2>1, <2>2, Zenon DEF Sound
  <2>4. /\ state # "matched" /\ (state = "found" => look.mask \in Keys)
        /\ state = "missing" => look.mask \notin look.throughout
    BY <1>1, <2>3, Zenon
  <2> HIDE DEF state
  <2>5. lookup'[n].state = state /\ lookup'[n].address = look.address
    BY <2>1, <2>2, Zenon DEF Lookup
  <2>6. lookup'[n].mask = look.mask /\ lookup'[n].throughout = look.throughout
    BY <2>1, <2>2, Zenon DEF Lookup
  <2> QED BY <2>3, <2>4, <2>5, <2>6, Zenon DEF Sound
<1>6. ASSUME NEW m \in Nodes PROVE Sound(lookup'[m], up[m], DOMAIN list[m])
  BY <1>2, <1>3, <1>4, <1>5, Zenon
<1> QED BY <1>1, <1>6, Zenon DEF FoundInv

LEMMA NextFound == IInv /\ FoundInv /\ [Next]_vars => FoundInv'
<1> SUFFICES ASSUME IInv, FoundInv, [Next]_vars PROVE FoundInv'
  BY Zenon
<1>1. ASSUME NEW n \in Nodes, NEW k \in config.keys,
             \/ \E ttl \in TTLs : addEntry(n, k, ttl) \/ addEntryThrows(n, k, ttl)
             \/ deleteEntry(n, k) \/ deleteEntryThrows(n, k)
      PROVE  FoundInv'
  <2>1. Watch /\ UNCHANGED up
    BY <1>1, Zenon DEF addEntry, addEntryThrows, deleteEntry, deleteEntryThrows
  <2> QED BY <2>1, WatchKeepsFound, Zenon
<1>2. ASSUME NEW n \in Nodes, purgeEntries(n) PROVE FoundInv'
  <2>1. Watch /\ UNCHANGED up
    BY <1>2, Zenon DEF purgeEntries, _purgeEntries
  <2> QED BY <2>1, WatchKeepsFound, Zenon
<1>3. ASSUME NEW m \in net, applyAdd(m) \/ applyDelete(m) PROVE FoundInv'
  <2>1. Watch /\ UNCHANGED up
    BY <1>3, Zenon DEF applyAdd, applyDelete
  <2> QED BY <2>1, WatchKeepsFound, Zenon
<1>4. ASSUME NEW n \in Nodes, Crash(n) PROVE FoundInv'
  BY <1>4, StopKeepsFound, Zenon DEF Crash
<1>5. ASSUME NEW m \in net, applyThrows(m) PROVE FoundInv'
  <2>1. m.to \in Nodes
    BY Zenon DEF IInv, NetInv, Message
  <2> QED BY <1>5, <2>1, StopKeepsFound, Zenon DEF applyThrows
<1>6. ASSUME NEW n \in Nodes, loadPersistEntries(n) PROVE FoundInv'
  <2>1. up \in [Nodes -> BOOLEAN] /\ DOMAIN list = Nodes
    BY Zenon DEF IInv, RestInv, ListsInv
  <2>2. lookup[n].state # "matched" /\ UNCHANGED lookup
    BY <1>6, Zenon DEF FoundInv, Sound, loadPersistEntries
  <2>3. ASSUME NEW m \in Nodes, lookup[m].state = "matched" PROVE up'[m] /\ DOMAIN list'[m] = DOMAIN list[m]
    <3>1. m # n /\ up[m]
      BY <2>2, <2>3, Zenon DEF FoundInv, Sound
    <3>2. (up'[m] <=> up[m]) /\ list'[m] = list[m]
      BY <1>6, <2>1, <3>1, Zenon DEF loadPersistEntries
    <3> QED BY <3>1, <3>2, Zenon
  <2> QED BY <2>2, <2>3, LookupStays, Zenon
<1>7. ASSUME UNCHANGED <<up, list, lookup>> PROVE FoundInv'
  <2>1. \A n \in Nodes : lookup[n].state = "matched" => up[n]
    BY Zenon DEF FoundInv, Sound
  <2> QED BY <1>7, <2>1, LookupStays, Zenon
<1>8. ASSUME NEW n \in Nodes, loadPersistFails(n) PROVE FoundInv'
  BY <1>7, <1>8, Zenon DEF loadPersistFails
<1>9. ASSUME NEW m \in net, Lose(m) PROVE FoundInv'
  BY <1>7, <1>9, Zenon DEF Lose
<1>10. Tick \/ UNCHANGED vars => FoundInv'
  BY <1>7, Zenon DEF Tick, vars
<1> QED BY <1>1, <1>2, <1>3, <1>4, <1>5, <1>6, <1>8, <1>9, <1>10, LookupsKeepFound, Zenon DEF Next

\* Between the two locks of getEntry any servers may add, delete, purge or stop:
\* an address is found if a mask that covers it is listed throughout, and under
\* no shorter one, unless the mask that was best at first is deleted meanwhile.
THEOREM BLCoveredIsFound == Spec => []CoveredIsFound
<1>1. Init => FoundInv
  BY NoLookupIsSound DEF Init, FoundInv
<1>2. IInv /\ FoundInv => CoveredIsFound
  <2> SUFFICES ASSUME IInv, FoundInv, NEW n \in Nodes
               PROVE  LET longest == BestOf(lookup[n].address, lookup[n].throughout) IN
                      /\ lookup[n].state = "missing" =>
                            longest = NoMask \/ lookup[n].mask \notin lookup[n].throughout \union {NoMask}
                      /\ lookup[n].state = "found" /\ longest # NoMask =>
                            BestOf(lookup[n].address, {longest, lookup[n].mask}) = lookup[n].mask
    BY Zenon DEF CoveredIsFound
  <2> DEFINE a == lookup[n].address
             mask == lookup[n].mask
             kept == lookup[n].throughout
             longest == BestOf(a, kept)
             best == BestOf(a, {longest, mask})
  <2> HIDE DEF a, mask, kept, longest, best
  <2>1. lookup[n].state # "idle" => a \in Addresses /\ Longest(a, mask, kept)
    BY Zenon DEF FoundInv, Sound, a, mask, kept
  <2>2. a \in Addresses => Longest(a, longest, kept) /\ Longest(a, best, {longest, mask})
    BY BestOfIsLongest, Zenon DEF longest, best
  <2>3. ASSUME lookup[n].state = "missing" PROVE longest = NoMask \/ mask \notin kept \union {NoMask}
    <3>1. mask \notin kept
      BY <2>3, Zenon DEF FoundInv, Sound, mask, kept
    <3>2. ASSUME mask = NoMask PROVE longest = NoMask
      <4>1. \A j \in DOMAIN Covers[a] : Covers[a][j] \notin kept
        BY <2>1, <2>3, <3>2, Zenon DEF Longest
      <4> QED BY <4>1, Zenon DEF longest, BestOf
    <3> QED BY <3>1, <3>2, Zenon
  <2>4. ASSUME lookup[n].state = "found", longest # NoMask PROVE best = mask
    <3>1. a \in Addresses /\ mask \in Keys /\ mask # NoMask
      BY <2>1, <2>4, MaskAssumption, Zenon DEF FoundInv, Sound, mask
    <3>2. PICK i \in DOMAIN Covers[a] : Covers[a][i] = mask /\ \A j \in DOMAIN Covers[a] : Covers[a][j] \in kept => i <= j
      BY <2>1, <2>4, <3>1, Zenon DEF Longest
    <3>3. longest \in kept
      BY <2>4, Zenon DEF longest, BestOf
    <3>4. best # NoMask
      BY <2>2, <3>1, <3>2, Zenon DEF Longest
    <3>5. PICK b \in DOMAIN Covers[a] : Covers[a][b] = best /\ b <= i
      BY <2>2, <3>1, <3>2, <3>4, Zenon DEF Longest
    <3>6. best \in {longest, mask}
      BY <3>4, Zenon DEF best, BestOf
    <3>7. best \in kept => i <= b
      BY <3>2, <3>5, Zenon
    <3>8. DOMAIN Covers[a] \subseteq Nat
      BY <3>1, BlackWhiteListAssumption
    <3> QED BY <3>2, <3>3, <3>5, <3>6, <3>7, <3>8
  <2> QED BY <2>3, <2>4, Zenon DEF a, mask, kept, longest, best
<1> QED BY <1>1, <1>2, InitInv, NextInv, NextFound, PTL DEF Spec
-----------------------------------------------------------------------------
(***************************************************************************)
(* The copy in Redis.                                                      *)
(***************************************************************************)

\* Every server has a Redis of its own, in which it also stores what siblings
\* send, and no entry is requested for no time at all.
StoredCompletely ==
    /\ \A m, n \in Nodes : RedisOf[m] = RedisOf[n] => m = n
    /\ \A c \in Configs : c.persist_replicated \/ \A m, n \in c.nodes : m = n
    /\ 0 \notin TTLs

\* Two maps agree on what expires after t.
Same(f, g, t) ==
    \A k \in Keys : (k \in DOMAIN f /\ f[k] > t) \/ (k \in DOMAIN g /\ g[k] > t) =>
        k \in DOMAIN f /\ k \in DOMAIN g /\ f[k] = g[k]

AgreeInv == \A n \in Nodes : up[n] /\ n \notin unstored => Same(list[n], redis[RedisOf[n]], now)

\* Servers that run are there, and what is underway will be stored by the server
\* that gets it.
StorableInv ==
    /\ \A n \in Nodes : up[n] => n \in config.nodes
    /\ \A m \in net : config.persist_replicated /\ (m.op = "add" => m.ttl # 0)

\* Adding an entry to both maps keeps them in agreement.
LEMMA WithIsSame ==
    ASSUME NEW f, NEW g, NEW t, Same(f, g, t), NEW k, NEW v
    PROVE  Same(With(f, k, v), With(g, k, v), t)
<1> DEFINE fk == With(f, k, v)
           gk == With(g, k, v)
<1>1. DOMAIN fk = DOMAIN f \union {k} /\ \A j \in DOMAIN f \union {k} : fk[j] = IF j = k THEN v ELSE f[j]
  BY Zenon DEF With
<1>2. DOMAIN gk = DOMAIN g \union {k} /\ \A j \in DOMAIN g \union {k} : gk[j] = IF j = k THEN v ELSE g[j]
  BY Zenon DEF With
<1> HIDE DEF fk, gk
<1>3. Same(fk, gk, t)
  BY <1>1, <1>2, Zenon DEF Same
<1> QED BY <1>3, Zenon DEF fk, gk

\* What a map is without some keys.
LEMMA WithoutFacts ==
    ASSUME NEW h, NEW ks
    PROVE  DOMAIN Without(h, ks) = DOMAIN h \ ks /\ \A j \in DOMAIN h \ ks : Without(h, ks)[j] = h[j]
BY Zenon DEF Without

\* And so does deleting one from both.
LEMMA WithoutIsSame ==
    ASSUME NEW f, NEW g, NEW t, Same(f, g, t), NEW ks
    PROVE  Same(Without(f, ks), Without(g, ks), t)
<1> DEFINE fk == Without(f, ks)
           gk == Without(g, ks)
<1>1. DOMAIN fk = DOMAIN f \ ks /\ \A j \in DOMAIN f \ ks : fk[j] = f[j]
  BY WithoutFacts, Zenon
<1>2. DOMAIN gk = DOMAIN g \ ks /\ \A j \in DOMAIN g \ ks : gk[j] = g[j]
  BY WithoutFacts, Zenon
<1> HIDE DEF fk, gk
<1>3. Same(fk, gk, t)
  BY <1>1, <1>2, Zenon DEF Same
<1> QED BY <1>3, Zenon DEF fk, gk

\* Purging what has expired is not noticed.
LEMMA PurgedIsSame ==
    ASSUME NEW f, NEW g, IsExpirationMap(f), NEW t \in Nat, Same(f, g, t), NEW ks, \A k \in ks : f[k] <= t, ks \subseteq DOMAIN f
    PROVE  Same(Without(f, ks), g, t)
<1> SUFFICES ASSUME NEW k \in Keys, (k \in DOMAIN Without(f, ks) /\ Without(f, ks)[k] > t) \/ (k \in DOMAIN g /\ g[k] > t)
             PROVE  k \in DOMAIN Without(f, ks) /\ k \in DOMAIN g /\ Without(f, ks)[k] = g[k]
  BY Zenon DEF Same
<1>1. DOMAIN Without(f, ks) = DOMAIN f \ ks /\ \A j \in DOMAIN f \ ks : Without(f, ks)[j] = f[j]
  BY WithoutFacts, Zenon
<1>2. k \in DOMAIN f /\ k \in DOMAIN g /\ f[k] = g[k] /\ f[k] > t
  BY <1>1, Zenon DEF Same
<1>3. k \notin ks
  BY <1>2 DEF IsExpirationMap
<1> QED BY <1>1, <1>2, <1>3, Zenon

\* Redis drops what has expired.
LEMMA DroppedIsSame ==
    ASSUME NEW f, NEW g, IsExpirationMap(f), IsExpirationMap(g), NEW t \in Nat, NEW later \in Nat, t <= later,
           Same(f, g, t), NEW ks, ks = {k \in DOMAIN g : g[k] <= later}
    PROVE  Same(f, Without(g, ks), later)
<1> SUFFICES ASSUME NEW k \in Keys, (k \in DOMAIN f /\ f[k] > later) \/ (k \in DOMAIN Without(g, ks) /\ Without(g, ks)[k] > later)
             PROVE  k \in DOMAIN f /\ k \in DOMAIN Without(g, ks) /\ f[k] = Without(g, ks)[k]
  BY Zenon DEF Same
<1>1. DOMAIN Without(g, ks) = DOMAIN g \ ks /\ \A j \in DOMAIN g \ ks : Without(g, ks)[j] = g[j]
  BY Zenon DEF Without
<1>2. (k \in DOMAIN f /\ f[k] > t) \/ (k \in DOMAIN g /\ g[k] > t)
  BY <1>1 DEF IsExpirationMap
<1>3. k \in DOMAIN f /\ k \in DOMAIN g /\ f[k] = g[k]
  BY <1>2, Zenon DEF Same
<1>4. g[k] > later
  BY <1>1, <1>3, Zenon
<1>5. k \notin ks
  BY <1>3, <1>4 DEF IsExpirationMap
<1> QED BY <1>1, <1>3, <1>5, Zenon

\* A step that touches one server and its Redis.
LEMMA OneServerAgrees ==
    ASSUME IInv, AgreeInv, StoredCompletely, NEW n \in Nodes, UNCHANGED now,
           \A m \in Nodes \ {n} : list'[m] = list[m] /\ (up'[m] => up[m]) /\ (m \notin unstored' => m \notin unstored),
           \A r \in Redises \ {RedisOf[n]} : redis'[r] = redis[r],
           up'[n] /\ n \notin unstored' => Same(list'[n], redis'[RedisOf[n]], now)
    PROVE  AgreeInv'
<1> SUFFICES ASSUME NEW m \in Nodes, up'[m], m \notin unstored' PROVE Same(list'[m], redis'[RedisOf[m]], now)
  BY Zenon DEF AgreeInv
<1>1. CASE m = n
  BY <1>1, Zenon
<1>2. CASE m # n
  <2>1. RedisOf[m] \in Redises /\ RedisOf[m] # RedisOf[n]
    BY <1>2, BlackWhiteListAssumption, Zenon DEF StoredCompletely
  <2>2. list'[m] = list[m] /\ redis'[RedisOf[m]] = redis[RedisOf[m]] /\ up[m] /\ m \notin unstored
    BY <1>2, <2>1, Zenon
  <2> QED BY <2>2, Zenon DEF AgreeInv
<1> QED BY <1>1, <1>2, Zenon

\* An entry is added to the list, and to Redis unless that fails.
LEMMA AddAgrees ==
    ASSUME IInv, AgreeInv, StoredCompletely, NEW n \in Nodes, NEW k \in Keys, NEW ttl \in Nat, ttl # 0, up[n],
           AddToList(n, k, ttl), Persisted(n, addPersistEntry(n, k, ttl)), UNCHANGED <<now, up>>
    PROVE  AgreeInv'
<1> DEFINE r == RedisOf[n]
           t == now + ttl
<1>1. r \in Redises
  BY BlackWhiteListAssumption, Zenon
<1>2. DOMAIN list = Nodes /\ DOMAIN redis = Redises
  BY Zenon DEF IInv, ListsInv, RedisInv
<1>3. list'[n] = With(list[n], k, t) /\ \A m \in Nodes \ {n} : list'[m] = list[m]
  BY <1>2, Zenon DEF AddToList
<1> HIDE DEF t
<1>4. CASE unstored' = unstored \union {n} /\ UNCHANGED redis
  BY <1>3, <1>4, OneServerAgrees, Zenon
<1>5. CASE redis' = [redis EXCEPT ![r] = With(@, k, t)] /\ UNCHANGED unstored
  <2>1. redis'[r] = With(redis[r], k, t) /\ \A q \in Redises \ {r} : redis'[q] = redis[q]
    BY <1>1, <1>2, <1>5, Zenon
  <2>2. n \notin unstored => Same(list[n], redis[r], now)
    BY Zenon DEF AgreeInv
  <2>3. ASSUME n \notin unstored PROVE Same(list'[n], redis'[r], now)
    <3>1. Same(With(list[n], k, t), With(redis[r], k, t), now)
      BY <2>2, <2>3, WithIsSame, Zenon
    <3> QED BY <1>3, <2>1, <3>1, Zenon
  <2> QED BY <1>3, <1>5, <2>1, <2>3, OneServerAgrees, Zenon
<1> QED BY <1>4, <1>5, Zenon DEF Persisted, addPersistEntry, t

\* An entry is deleted from the list, and from Redis unless that fails.
LEMMA DeleteAgrees ==
    ASSUME IInv, AgreeInv, StoredCompletely, NEW n \in Nodes, NEW k \in Keys, up[n],
           DeleteFromList(n, {k}), Persisted(n, deletePersistEntry(n, k)), UNCHANGED <<now, up>>
    PROVE  AgreeInv'
<1> DEFINE r == RedisOf[n]
<1>1. r \in Redises
  BY BlackWhiteListAssumption, Zenon
<1>2. DOMAIN list = Nodes /\ DOMAIN redis = Redises
  BY Zenon DEF IInv, ListsInv, RedisInv
<1>3. list'[n] = Without(list[n], {k}) /\ \A m \in Nodes \ {n} : list'[m] = list[m]
  BY <1>2, Zenon DEF DeleteFromList
<1>4. CASE unstored' = unstored \union {n} /\ UNCHANGED redis
  BY <1>3, <1>4, OneServerAgrees, Zenon
<1>5. CASE redis' = [redis EXCEPT ![r] = Without(@, {k})] /\ UNCHANGED unstored
  <2>1. redis'[r] = Without(redis[r], {k}) /\ \A q \in Redises \ {r} : redis'[q] = redis[q]
    BY <1>1, <1>2, <1>5, Zenon
  <2>2. n \notin unstored => Same(list[n], redis[r], now)
    BY Zenon DEF AgreeInv
  <2>3. ASSUME n \notin unstored PROVE Same(list'[n], redis'[r], now)
    <3>1. Same(Without(list[n], {k}), Without(redis[r], {k}), now)
      BY <2>2, <2>3, WithoutIsSame, Zenon
    <3> QED BY <1>3, <2>1, <3>1, Zenon
  <2> QED BY <1>3, <1>5, <2>1, <2>3, OneServerAgrees
<1> QED BY <1>4, <1>5, Zenon DEF Persisted, deletePersistEntry

\* What the setup of the connection to Redis throws leaves a mark.
LEMMA ThrowAgrees ==
    ASSUME IInv, AgreeInv, StoredCompletely, NEW n \in Nodes,
           \A m \in Nodes \ {n} : list'[m] = list[m], unstored' = unstored \union {n}, UNCHANGED <<now, up, redis>>
    PROVE  AgreeInv'
BY OneServerAgrees, Zenon

\* A server that stops has no list to agree with.
LEMMA StopAgrees ==
    ASSUME IInv, AgreeInv, StoredCompletely, NEW n \in Nodes, Stop(n), UNCHANGED <<now, redis, unstored>>
    PROVE  AgreeInv'
<1>1. up \in [Nodes -> BOOLEAN] /\ DOMAIN list = Nodes
  BY Zenon DEF IInv, RestInv, ListsInv
<1>2. ~up'[n] /\ \A m \in Nodes \ {n} : list'[m] = list[m] /\ (up'[m] <=> up[m])
  BY <1>1, Zenon DEF Stop
<1> QED BY <1>2, OneServerAgrees, Zenon

\* Somebody gets a message only where there are several servers.
LEMMA NewStorable ==
    ASSUME IInv, StorableInv, StoredCompletely, NEW n \in Nodes, up[n], NEW op, NEW k, NEW ttl,
           op = "add" => ttl # 0, Replicate(n, op, k, ttl), UNCHANGED <<config, up>>
    PROVE  StorableInv'
<1> SUFFICES ASSUME NEW m \in net', m \notin net PROVE config.persist_replicated /\ (m.op = "add" => m.ttl # 0)
  BY Zenon DEF StorableInv
<1>1. PICK to \in config.nodes \ {n} : m = [id |-> ops + 1, op |-> op, key |-> k, ttl |-> ttl, to |-> to, at |-> now]
  BY Zenon DEF Replicate
<1>2. config \in Configs /\ n \in config.nodes
  BY Zenon DEF IInv, RestInv, StorableInv
<1> QED BY <1>1, <1>2, Zenon DEF StoredCompletely

\* Requests to add and to delete.
LEMMA RequestsAgree ==
    ASSUME IInv, AgreeInv, StorableInv, StoredCompletely, NEW n \in Nodes, NEW k \in Keys, NEW ttl,
           \/ ttl \in TTLs /\ (addEntry(n, k, ttl) \/ addEntryThrows(n, k, ttl))
           \/ deleteEntry(n, k) \/ deleteEntryThrows(n, k)
    PROVE  AgreeInv' /\ StorableInv'
<1>1. DOMAIN list = Nodes /\ (ttl \in TTLs => ttl \in Nat /\ ttl # 0)
  BY BlackWhiteListAssumption, Zenon DEF IInv, ListsInv, StoredCompletely
<1>2. CASE ttl \in TTLs /\ addEntry(n, k, ttl)
  BY <1>1, <1>2, AddAgrees, NewStorable, Zenon DEF addEntry, Request
<1>3. CASE addEntryThrows(n, k, ttl)
  <2>1. \A m \in Nodes \ {n} : list'[m] = list[m]
    BY <1>1, <1>3, Zenon DEF addEntryThrows, AddToList
  <2> QED BY <1>3, <2>1, ThrowAgrees, Zenon DEF addEntryThrows, StorableInv
<1>4. CASE deleteEntry(n, k)
  BY <1>4, DeleteAgrees, NewStorable, Zenon DEF deleteEntry, Request
<1>5. CASE deleteEntryThrows(n, k)
  <2>1. \A m \in Nodes \ {n} : list'[m] = list[m]
    BY <1>1, <1>5, Zenon DEF deleteEntryThrows, DeleteFromList
  <2> QED BY <1>5, <2>1, ThrowAgrees, Zenon DEF deleteEntryThrows, StorableInv
<1> QED BY <1>2, <1>3, <1>4, <1>5, Zenon

\* Messages of siblings.
LEMMA MessagesAgree ==
    ASSUME IInv, AgreeInv, StorableInv, StoredCompletely, NEW m \in net,
           applyAdd(m) \/ applyDelete(m) \/ applyThrows(m) \/ Lose(m)
    PROVE  AgreeInv' /\ StorableInv'
<1>1. m.to \in Nodes /\ m.key \in Keys /\ m.ttl \in Nat
  BY Zenon DEF IInv, NetInv, Message
<1>2. config.persist_replicated /\ (m.op = "add" => m.ttl # 0)
  BY Zenon DEF StorableInv
<1>3. net' \subseteq net /\ UNCHANGED config /\ \A n \in Nodes : up'[n] => up[n]
  BY <1>1, Zenon DEF IInv, RestInv, applyAdd, applyDelete, applyThrows, Lose, Consumed, Stop
<1>4. StorableInv'
  BY <1>3, Zenon DEF StorableInv
<1>5. CASE applyAdd(m)
  BY <1>1, <1>2, <1>4, <1>5, AddAgrees, Zenon DEF applyAdd, Received
<1>6. CASE applyDelete(m)
  BY <1>1, <1>2, <1>4, <1>6, DeleteAgrees, Zenon DEF applyDelete, Received
<1>7. CASE applyThrows(m)
  BY <1>1, <1>4, <1>7, StopAgrees, Zenon DEF applyThrows
<1>8. CASE Lose(m)
  BY <1>4, <1>8, Zenon DEF Lose, AgreeInv
<1> QED BY <1>5, <1>6, <1>7, <1>8, Zenon

\* Purging, stopping and starting again.
LEMMA ServerAgrees ==
    ASSUME IInv, AgreeInv, StoredCompletely, NEW n \in Nodes,
           purgeEntries(n) \/ Crash(n) \/ loadPersistEntries(n) \/ loadPersistFails(n)
    PROVE  AgreeInv'
<1>1. DOMAIN list = Nodes /\ up \in [Nodes -> BOOLEAN] /\ IsExpirationMap(list[n]) /\ now \in Nat
  BY DEF IInv, ListsInv, RestInv
<1>2. CASE purgeEntries(n)
  <2>1. PICK type \in Purged : _purgeEntries(n, type)
    BY <1>2, Zenon DEF purgeEntries
  <2> DEFINE gone == Expired(n, type)
  <2>2. list'[n] = Without(list[n], gone) /\ \A m \in Nodes \ {n} : list'[m] = list[m]
    BY <1>1, <2>1, Zenon DEF _purgeEntries, DeleteFromList
  <2>3. gone \subseteq DOMAIN list[n] /\ \A k \in gone : list[n][k] <= now
    BY Zenon DEF Expired
  <2> HIDE DEF gone
  <2>4. ASSUME up[n], n \notin unstored PROVE Same(list'[n], redis[RedisOf[n]], now)
    <3>1. Same(list[n], redis[RedisOf[n]], now)
      BY <2>4, Zenon DEF AgreeInv
    <3>2. Same(Without(list[n], gone), redis[RedisOf[n]], now)
      BY <1>1, <2>3, <3>1, PurgedIsSame, Zenon
    <3> QED BY <2>2, <3>2, Zenon
  <2> QED BY <2>1, <2>2, <2>4, OneServerAgrees, Zenon DEF _purgeEntries
<1>3. CASE Crash(n)
  BY <1>3, StopAgrees, Zenon DEF Crash
<1>4. CASE loadPersistEntries(n)
  <2>1. CASE UNCHANGED <<up, list, unstored>>
    BY <1>4, <2>1, Zenon DEF loadPersistEntries, AgreeInv
  <2>2. CASE ~UNCHANGED <<up, list, unstored>>
    <3>1. list'[n] = redis[RedisOf[n]] /\ \A m \in Nodes \ {n} : list'[m] = list[m] /\ (up'[m] <=> up[m])
      BY <1>1, <1>4, <2>2, Zenon DEF loadPersistEntries, Loaded
    <3>2. unstored' = unstored \ {n} /\ UNCHANGED <<now, redis>>
      BY <1>4, <2>2, Zenon DEF loadPersistEntries
    <3>3. Same(list'[n], redis'[RedisOf[n]], now)
      BY <3>1, <3>2, Zenon DEF Same
    <3> QED BY <3>1, <3>2, <3>3, OneServerAgrees, Zenon
  <2> QED BY <2>1, <2>2, Zenon
<1>5. CASE loadPersistFails(n)
  BY <1>5, Zenon DEF loadPersistFails, AgreeInv
<1> QED BY <1>2, <1>3, <1>4, <1>5, Zenon

\* Time passes, and Redis drops keys.
LEMMA TickAgrees == ASSUME IInv, AgreeInv, Tick PROVE AgreeInv'
<1> SUFFICES ASSUME NEW n \in Nodes, up[n], n \notin unstored PROVE Same(list[n], redis'[RedisOf[n]], now')
  BY Zenon DEF Tick, AgreeInv
<1> DEFINE r == RedisOf[n]
           gone == {k \in DOMAIN redis[r] : redis[r][k] <= now'}
<1>1. r \in Redises
  BY BlackWhiteListAssumption, Zenon
<1>2. redis'[r] = Without(redis[r], gone)
  BY <1>1, Zenon DEF Tick
<1>3. IsExpirationMap(list[n]) /\ IsExpirationMap(redis[r]) /\ now \in Nat /\ now' \in Nat /\ now <= now'
  BY <1>1 DEF IInv, ListsInv, RedisInv, RestInv, Tick
<1>4. Same(list[n], redis[r], now)
  BY Zenon DEF AgreeInv
<1>5. Same(list[n], Without(redis[r], gone), now')
  BY <1>3, <1>4, DroppedIsSame, Zenon
<1> QED BY <1>2, <1>5, Zenon

\* Every step keeps lists and their copies in agreement.
LEMMA NextAgrees ==
    ASSUME IInv, AgreeInv, StorableInv, StoredCompletely, [Next]_vars
    PROVE  AgreeInv' /\ StorableInv'
<1>1. config.keys \subseteq Keys
  BY BlackWhiteListAssumption, Zenon DEF IInv, RestInv, Installation
<1>2. ASSUME UNCHANGED <<config, net>>, \A n \in Nodes : up'[n] => up[n] \/ n \in config.nodes PROVE StorableInv'
  BY <1>2, Zenon DEF StorableInv
<1>3. ASSUME NEW n \in Nodes, NEW k \in config.keys, NEW ttl \in TTLs, addEntry(n, k, ttl) \/ addEntryThrows(n, k, ttl)
      PROVE  AgreeInv' /\ StorableInv'
  BY <1>1, <1>3, RequestsAgree, Zenon
<1>4. ASSUME NEW n \in Nodes, NEW k \in config.keys, deleteEntry(n, k) \/ deleteEntryThrows(n, k)
      PROVE  AgreeInv' /\ StorableInv'
  BY <1>1, <1>4, RequestsAgree, Zenon
<1>5. ASSUME NEW n \in Nodes, purgeEntries(n) \/ Crash(n) \/ loadPersistEntries(n) \/ loadPersistFails(n)
      PROVE  AgreeInv' /\ StorableInv'
  <2>1. UNCHANGED <<config, net>> /\ \A m \in Nodes : up'[m] => up[m] \/ m \in config.nodes
    BY <1>5, Zenon DEF IInv, RestInv, purgeEntries, _purgeEntries, Crash, Stop, loadPersistEntries, loadPersistFails
  <2> QED BY <1>2, <1>5, <2>1, ServerAgrees, Zenon
<1>6. ASSUME UNCHANGED <<config, net, up, unstored, list, redis, now>> PROVE AgreeInv' /\ StorableInv'
  BY <1>2, <1>6, Zenon DEF AgreeInv
<1>7. ASSUME NEW n \in Nodes, (\E a \in config.addresses : getEntry(n, a)) \/ _getEntry(n) PROVE AgreeInv' /\ StorableInv'
  BY <1>6, <1>7, Zenon DEF getEntry, _getEntry
<1>8. CASE Tick
  BY <1>2, <1>8, TickAgrees, Zenon DEF Tick
<1>9. CASE UNCHANGED vars
  BY <1>6, <1>9, Zenon DEF vars
<1> QED BY <1>3, <1>4, <1>5, <1>7, <1>8, <1>9, MessagesAgree, Zenon DEF Next

\* For any servers with a Redis each that also store what siblings send, a server
\* that has stored every change since it started finds after a crash exactly the
\* entries it had: addPersistEntry, deletePersistEntry, the purge thread, the
\* expiry of keys in Redis and loadPersistEntries agree on what is listed. The
\* times requested are not zero: SET ... EX 0 is an error, and Redis would keep
\* the former value.
THEOREM BLRestartChangesNothing ==
    ASSUME StoredCompletely
    PROVE  Spec => []RestartChangesNothing
<1>1. Init => AgreeInv /\ StorableInv
  <2> SUFFICES ASSUME Init PROVE AgreeInv /\ StorableInv
    BY Zenon
  <2>1. ASSUME NEW n \in Nodes PROVE Same(list[n], redis[RedisOf[n]], now)
    <3>1. list[n] = <<>> /\ redis[RedisOf[n]] = <<>>
      BY BlackWhiteListAssumption, Zenon DEF Init
    <3> QED BY <3>1, Zenon DEF Same
  <2> QED BY <2>1, Zenon DEF Init, AgreeInv, StorableInv
<1>2. IInv /\ AgreeInv => RestartChangesNothing
  <2> SUFFICES ASSUME IInv, AgreeInv, NEW n \in Nodes, up[n], n \notin unstored
               PROVE  Unexpired(list[n]) = Unexpired(redis[RedisOf[n]])
    BY Zenon DEF RestartChangesNothing
  <2> DEFINE f == list[n]
             g == redis[RedisOf[n]]
  <2>1. Same(f, g, now)
    BY Zenon DEF AgreeInv
  <2>2. DOMAIN f \subseteq Keys /\ DOMAIN g \subseteq Keys
    BY BlackWhiteListAssumption, Zenon DEF IInv, ListsInv, RedisInv, IsExpirationMap
  <2> HIDE DEF f, g
  <2>3. {k \in DOMAIN f : f[k] > now} = {k \in DOMAIN g : g[k] > now}
    BY <2>1, <2>2, Zenon DEF Same
  <2>4. \A k \in {j \in DOMAIN f : f[j] > now} : f[k] = g[k]
    BY <2>1, <2>2, Zenon DEF Same
  <2>5. Unexpired(f) = Unexpired(g)
    BY <2>3, <2>4, Zenon DEF Unexpired
  <2> QED BY <2>5, Zenon DEF f, g
<1>3. IInv /\ AgreeInv /\ StorableInv /\ [Next]_vars => AgreeInv' /\ StorableInv'
  BY NextAgrees, Zenon
<1> QED BY <1>1, <1>2, <1>3, InitInv, NextInv, PTL DEF Spec

=============================================================================

--------------------------- MODULE CorestoreProofs ---------------------------
(***************************************************************************)
(* StoreInv is an inductive invariant of Corestore whatever the sets of    *)
(* names, keys and subscribers and the size of the channels, and it        *)
(* implies the safety properties that MCCorestore checks.  The last part   *)
(* shows that Corestore implements FeedStore.                              *)
(***************************************************************************)
EXTENDS StoreRefinement, FiniteSetTheorems, TLAPS

-----------------------------------------------------------------------------
(* Facts about keys and maps.                                              *)

\* Different keys have different discovery keys.
LEMMA DiscoveryKeyInjective ==
    ASSUME NEW k, NEW l, DiscoveryKey(k) = DiscoveryKey(l)
    PROVE  k = l
<1>1. DiscoveryKey(k).dkey_of = k /\ DiscoveryKey(l).dkey_of = l
    BY Zenon DEF DiscoveryKey
<1> QED  BY <1>1, Zenon

\* Different names have different keys under one master key.
LEMMA DeriveKeyInjective ==
    ASSUME NEW m, NEW n, NEW o, DeriveKey(m, n) = DeriveKey(m, o)
    PROVE  n = o
<1>1. DeriveKey(m, n).name = n /\ DeriveKey(m, o).name = o
    BY Zenon DEF DeriveKey
<1> QED  BY <1>1, Zenon

LEMMA DeriveKeyType ==
    ASSUME NEW m \in MasterKeys, NEW n \in Names
    PROVE  DeriveKey(m, n) \in DerivedKeys /\ DeriveKey(m, n) \in Keys
BY Zenon DEF DeriveKey, DerivedKeys, Keys

LEMMA DiscoveryKeyType ==
    ASSUME NEW k \in Keys
    PROVE  DiscoveryKey(k) \in DKeys
BY Zenon DEF DKeys

\* HashMap::insert of a key and a value of the map's types.
LEMMA MapInsertType ==
    ASSUME NEW K, NEW V, NEW map, IsMap(map, K, V),
           NEW key \in K, NEW value \in V
    PROVE  IsMap(MapInsert(map, key, value), K, V)
BY Zenon DEF MapInsert, IsMap

LEMMA EmptyMapFacts ==
    /\ DOMAIN EmptyMap = {}
    /\ \A K, V : IsMap(EmptyMap, K, V)
BY Zenon DEF EmptyMap, IsMap

\* The ids in use are 0 .. NextId-1, so NextId is free.
LEMMA NextIdFacts ==
    ASSUME IsFiniteSet(DOMAIN feeds), DOMAIN feeds = 0 .. NextId - 1
    PROVE  NextId \in Nat /\ NextId \notin DOMAIN feeds
<1>1. NextId \in Nat
    BY FS_CardinalityType, Zenon DEF NextId
<1> QED  BY <1>1

-----------------------------------------------------------------------------
\* The five parts of StoreInv that do not mention subscribers.
StoreCore ==
    MemorySound /\ DiskSound /\ OperationSound /\ MapSound /\ RequestHonoured

\* What happens among the subscribers leaves the store as it is.
LEMMA CoreFrame ==
    ASSUME StoreCore,
           UNCHANGED <<feedMapVars, diskVars, master, pc, req, cur, ret, known>>
    PROVE  StoreCore'
<1>1. /\ UNCHANGED <<feeds, keys, dkeys, names, names_rev>>
      /\ UNCHANGED <<masterFile, nameFile, keyFile>>
    BY Zenon DEF feedMapVars, diskVars
<1>2. MemorySound'
    BY <1>1, Zenon DEF StoreCore, MemorySound
<1>3. DiskSound'
    BY <1>1, Zenon DEF StoreCore, DiskSound, NameOf
<1>4. OperationSound'
    BY <1>1, Zenon DEF StoreCore, OperationSound, NameOf, Answers
<1>5. MapSound'
    BY <1>1, Zenon DEF StoreCore, MapSound, IndexesAgree, NextId, Finds
<1>6. RequestHonoured'
    BY <1>1, Zenon DEF StoreCore, RequestHonoured
<1> QED  BY <1>2, <1>3, <1>4, <1>5, <1>6, Zenon DEF StoreCore

LEMMA InitInv ==
    ASSUME SoundStorage, Init
    PROVE  StoreInv
<1> USE DEF Init, InitFeedMap
<1>1. TypeOK
  <2>1. FeedMapTypeOK
    BY EmptyMapFacts, Zenon DEF FeedMapTypeOK
  <2>2. known \in SUBSET Keys
    BY Zenon DEF Keys
  <2> QED  BY <2>1, <2>2 DEF TypeOK, NoAnswer
<1>2. MemorySound
    BY Zenon DEF MemorySound
<1>3. DiskSound
  <2>1. \A k \in Keys : NameOf(k) = EmptyName /\ keyFile[DiscoveryKey(k)] = None
    BY DiscoveryKeyType, Zenon DEF NameOf
  <2>2. \A k \in DerivedKeys : k \notin known /\ k \in Keys
    BY KeyAssumption, Zenon DEF Keys
  <2> QED  BY <2>1, <2>2, Zenon DEF DiskSound
<1>4. OperationSound
    BY Zenon DEF OperationSound, Busy
<1>5. MapSound
  <2>1. DOMAIN feeds = {} /\ DOMAIN keys = {} /\ DOMAIN dkeys = {}
        /\ DOMAIN names = {} /\ DOMAIN names_rev = {}
    BY EmptyMapFacts, Zenon
  <2>2. NextId = 0 /\ IsFiniteSet(DOMAIN feeds)
    BY <2>1, FS_EmptySet, Zenon DEF NextId
  <2> QED  BY <2>1, <2>2 DEF MapSound, IndexesAgree
<1>6. RequestHonoured
    BY Zenon DEF RequestHonoured, NoAnswer
<1> QED  BY <1>1, <1>2, <1>3, <1>4, <1>5, <1>6, Zenon DEF StoreInv

LEMMA OpenInv ==
    ASSUME SoundStorage, StoreInv, Open
    PROVE  StoreInv'
<1> USE DEF Open
<1>0. /\ UNCHANGED <<feeds, keys, dkeys, names, names_rev>>
      /\ UNCHANGED <<nameFile, keyFile, req, cur, notified, ret, known>>
      /\ UNCHANGED <<subscribers, sent, taken, since, dropped>>
      /\ pc = "down" /\ pc' = "idle"
      /\ DOMAIN feeds = {} /\ DOMAIN names = {}
      /\ ret = NoAnswer /\ req = NoRequest
      /\ masterFile # None => masterFile' = masterFile
      /\ masterFile' \in MasterKeys /\ master' = masterFile'
    BY EmptyMapFacts
, Zenon DEF feedMapVars, subVars, StoreInv, MemorySound, SoundStorage, TypeOK
<1>1. TypeOK'
    BY <1>0, Zenon DEF StoreInv, TypeOK, FeedMapTypeOK
<1>2. MemorySound'
    BY <1>0, NoneAssumption, Zenon DEF MemorySound
<1>3. DiskSound'
    BY <1>0, NoneAssumption, Zenon DEF StoreInv, DiskSound, NameOf
<1>4. OperationSound'
    BY <1>0, Zenon DEF OperationSound, Busy
<1>5. MapSound'
    BY <1>0, Zenon DEF StoreInv, MapSound, IndexesAgree, NextId, Finds
<1>6. RequestHonoured'
    BY <1>0 DEF RequestHonoured, NoAnswer
<1> QED  BY <1>1, <1>2, <1>3, <1>4, <1>5, <1>6, Zenon DEF StoreInv

LEMMA CrashInv ==
    ASSUME SoundStorage, StoreInv, Crash
    PROVE  StoreInv'
<1> USE DEF Crash, ResetFeedMap
<1>0. UNCHANGED <<masterFile, nameFile, keyFile, known>>
    BY Zenon DEF diskVars
<1>1. TypeOK'
  <2>1. FeedMapTypeOK'
    BY EmptyMapFacts, Zenon DEF FeedMapTypeOK
  <2> QED  BY <1>0, <2>1 DEF StoreInv, TypeOK, NoAnswer
<1>2. MemorySound'
    BY Zenon DEF MemorySound
<1>3. DiskSound'
    BY <1>0, Zenon DEF StoreInv, DiskSound, NameOf
<1>4. OperationSound'
    BY Zenon DEF OperationSound, Busy
<1>5. MapSound'
  <2>1. /\ DOMAIN feeds' = {} /\ DOMAIN keys' = {} /\ DOMAIN dkeys' = {}
        /\ DOMAIN names' = {} /\ DOMAIN names_rev' = {}
    BY EmptyMapFacts, Zenon
  <2>2. NextId' = 0 /\ IsFiniteSet(DOMAIN feeds')
    BY <2>1, FS_EmptySet, Zenon DEF NextId
  <2> QED  BY <2>1, <2>2 DEF MapSound, IndexesAgree
<1>6. RequestHonoured'
    BY Zenon DEF RequestHonoured, NoAnswer
<1> QED  BY <1>1, <1>2, <1>3, <1>4, <1>5, <1>6, Zenon DEF StoreInv

-----------------------------------------------------------------------------
(* Subscribers.                                                            *)

LEMMA SubscriberInv ==
    ASSUME StoreInv, NEW s \in Subscribers,
           Subscribe(s) \/ Receive(s) \/ DropReceiver(s)
    PROVE  StoreInv'
<1>1. UNCHANGED <<feedMapVars, diskVars, master, pc, req, cur, notified, ret,
                  known>>
    BY Zenon DEF Subscribe, Receive, DropReceiver, opVars
<1>2. TypeOK'
  <2>0. TypeOK
    BY Zenon DEF StoreInv
  <2>1. FeedMapTypeOK'
    BY <1>1, <2>0, Zenon DEF TypeOK, FeedMapTypeOK, feedMapVars
  <2>2. /\ subscribers' \in Seq(Subscribers)
        /\ sent' \in [Subscribers -> Seq(Nat)]
        /\ taken' \in [Subscribers -> Nat]
        /\ dropped' \in SUBSET Subscribers
    <3>1. CASE Subscribe(s)
      BY <2>0, <3>1 DEF TypeOK, Subscribe
    <3>2. CASE Receive(s)
      BY <2>0, <3>2 DEF TypeOK, Receive
    <3>3. CASE DropReceiver(s)
      BY <2>0, <3>3, Zenon DEF TypeOK, DropReceiver
    <3> QED  BY <3>1, <3>2, <3>3, Zenon
  <2>3. since' \in [Subscribers -> Nat]
    <3>1. NextId \in Nat
      BY NextIdFacts, Zenon DEF StoreInv, MapSound
    <3> QED  BY <2>0, <3>1, Zenon DEF TypeOK, Subscribe, Receive, DropReceiver
  <2> QED  BY <1>1, <2>0, <2>1, <2>2, <2>3, Zenon DEF TypeOK, diskVars
<1>3. StoreCore'
    BY <1>1, CoreFrame, Zenon DEF StoreInv, StoreCore
<1> QED  BY <1>2, <1>3, Zenon DEF StoreInv, StoreCore

-----------------------------------------------------------------------------
(* Requests.                                                               *)

\* A request answered with "none" or an error, or with a feed already open
\* that is the one it asks for, keeps the invariant.
LEMMA ReplyInv ==
    ASSUME StoreInv, pc = "idle", NEW r \in Requests,
           NEW out \in {"feed", "none", "err"}, NEW f \in Nat, Reply(r, out, f),
           out = "feed" => f \in DOMAIN feeds /\ Answers(feeds[f], r)
    PROVE  StoreInv'
<1>0. /\ UNCHANGED <<feeds, keys, dkeys, names, names_rev>>
      /\ UNCHANGED <<masterFile, nameFile, keyFile, master, known>>
      /\ UNCHANGED <<subscribers, sent, taken, since, dropped>>
      /\ UNCHANGED <<pc, req, cur, notified>>
      /\ ret' = [req |-> r, out |-> out, feed |-> f]
      /\ master = masterFile
    BY Zenon DEF Reply, Answer, feedMapVars, diskVars, subVars, opVars, StoreInv,
           MemorySound
<1>1. TypeOK'
    BY <1>0, Zenon DEF StoreInv, TypeOK, FeedMapTypeOK
<1>2. MemorySound'
    BY <1>0, Zenon DEF StoreInv, MemorySound
<1>3. DiskSound'
    BY <1>0, Zenon DEF StoreInv, DiskSound, NameOf
<1>4. OperationSound'
    BY <1>0, Zenon DEF OperationSound, Busy
<1>5. MapSound'
    BY <1>0, Zenon DEF StoreInv, MapSound, IndexesAgree, NextId, Finds
<1>6. RequestHonoured'
    BY <1>0, Zenon DEF RequestHonoured, Answers
<1> QED  BY <1>1, <1>2, <1>3, <1>4, <1>5, <1>6, Zenon DEF StoreInv

\* A request that goes on to open a feed keeps the invariant if the key pair
\* answers it and is new, and is that of a name or a foreign key.
LEMMA OpenFeedInv ==
    ASSUME StoreInv, pc = "idle", NEW r \in Requests, NEW p \in Pairs,
           OpenFeed(r, p), Answers(p, r), p.key \notin DOMAIN keys,
           IF p.name = None THEN p.key \notin DerivedKeys
           ELSE p.key = DeriveKey(masterFile, p.name) /\ p.writable
    PROVE  StoreInv'
<1>0. /\ UNCHANGED <<feeds, keys, dkeys, names, names_rev>>
      /\ UNCHANGED <<masterFile, nameFile, keyFile, master, known>>
      /\ UNCHANGED <<subscribers, sent, taken, since, dropped>>
      /\ UNCHANGED <<notified, ret>>
      /\ pc' = IF p.name = None THEN "build" ELSE "name"
      /\ req' = r /\ cur' = p
    BY Zenon DEF OpenFeed, feedMapVars, diskVars, subVars
<1>1. TypeOK'
    BY <1>0, Zenon DEF StoreInv, TypeOK, FeedMapTypeOK, Busy
<1>2. MemorySound'
    BY <1>0, Zenon DEF StoreInv, MemorySound
<1>3. DiskSound'
    BY <1>0, Zenon DEF StoreInv, DiskSound, NameOf
<1>4. OperationSound'
  <2>1. Answers(cur, req)'
    BY <1>0, Zenon DEF Answers
  <2> QED  BY <1>0, <2>1, Zenon DEF OperationSound
<1>5. MapSound'
    BY <1>0, Zenon DEF StoreInv, MapSound, IndexesAgree, NextId, Finds
<1>6. RequestHonoured'
    BY <1>0, Zenon DEF StoreInv, RequestHonoured
<1> QED  BY <1>1, <1>2, <1>3, <1>4, <1>5, <1>6, Zenon DEF StoreInv

-----------------------------------------------------------------------------
(* The steps of open_feed that write files and insert the feed.            *)

\* What the invariant says of the key pair while open_feed runs.
LEMMA CurFacts ==
    ASSUME StoreInv, pc \in Busy
    PROVE  /\ cur \in Pairs /\ cur.key \in Keys
           /\ cur.name \in Names \cup {None}
           /\ DiscoveryKey(cur.key) \in DKeys
           /\ master = masterFile /\ masterFile # None
BY DiscoveryKeyType, Zenon DEF StoreInv, OperationSound, MemorySound, Pairs, Busy

\* Writing the name of the feed that is being opened, in its own directory,
\* keeps the files sound.
LEMMA NameWrittenSound ==
    ASSUME SoundStorage, StoreInv, pc = "name", nameFile' = NameWritten,
           UNCHANGED <<masterFile, keyFile, known>>
    PROVE  /\ nameFile' \in [DKeys -> Names \cup {EmptyName}]
           /\ DiskSound'
           /\ nameFile'[DiscoveryKey(cur.key)] # EmptyName
<1>0. /\ cur.key \in Keys /\ cur.name \in Names
      /\ cur.key = DeriveKey(masterFile, cur.name)
      /\ DiscoveryKey(cur.key) \in DKeys
      /\ masterFile # None
      /\ nameFile \in [DKeys -> Names \cup {EmptyName}]
      /\ cur.name # EmptyName
    BY CurFacts, Zenon DEF Busy, StoreInv, OperationSound, TypeOK, SoundStorage
<1>1. nameFile' \in [DKeys -> Names \cup {EmptyName}]
    BY <1>0, Zenon DEF NameWritten
<1>2. \A k \in Keys : k # cur.key => nameFile'[DiscoveryKey(k)] = NameOf(k)
    BY <1>0, DiscoveryKeyType, DiscoveryKeyInjective, Zenon DEF NameWritten, NameOf
<1>3. nameFile'[DiscoveryKey(cur.key)] =
          IF NameOf(cur.key) = EmptyName THEN cur.name ELSE NameOf(cur.key)
    BY <1>0, Zenon DEF NameWritten, NameOf
<1>4. DiskSound'
  <2>1. ASSUME NEW k \in Keys, nameFile'[DiscoveryKey(k)] # EmptyName
        PROVE  k = DeriveKey(masterFile, nameFile'[DiscoveryKey(k)])
    BY <1>0, <1>2, <1>3, <2>1, Zenon DEF StoreInv, DiskSound
  <2>2. ASSUME NEW k \in DerivedKeys,
               k \in known \/ keyFile[DiscoveryKey(k)] # None
        PROVE  nameFile'[DiscoveryKey(k)] # EmptyName
    BY <1>0, <1>2, <1>3, <2>2, Zenon DEF StoreInv, DiskSound, Keys
  <2> QED  BY <1>0, <2>1, <2>2, Zenon DEF StoreInv, DiskSound, NameOf
<1> QED  BY <1>0, <1>1, <1>3, <1>4, Zenon DEF NameOf

\* Storing the public key of the feed that is being opened, in its own
\* directory and after the name, keeps the files sound.
LEMMA KeyWrittenSound ==
    ASSUME StoreInv, pc = "build",
           keyFile' = [keyFile EXCEPT ![DiscoveryKey(cur.key)] = cur.key],
           known' = known \/ known' = known \cup {cur.key},
           UNCHANGED <<masterFile, nameFile>>
    PROVE  /\ keyFile' \in [DKeys -> Keys \cup {None}]
           /\ DiskSound'
<1>0. /\ cur.key \in Keys /\ DiscoveryKey(cur.key) \in DKeys
      /\ keyFile \in [DKeys -> Keys \cup {None}]
      /\ cur.key \in DerivedKeys => NameOf(cur.key) # EmptyName
    BY CurFacts, Zenon DEF Busy, StoreInv, OperationSound, TypeOK
<1>1. \A k \in Keys : keyFile'[DiscoveryKey(k)] =
          IF k = cur.key THEN cur.key ELSE keyFile[DiscoveryKey(k)]
    BY <1>0, DiscoveryKeyType, DiscoveryKeyInjective, Zenon
<1>2. keyFile' \in [DKeys -> Keys \cup {None}]
    BY <1>0, Zenon
<1> QED  BY <1>0, <1>1, <1>2 DEF StoreInv, DiskSound, NameOf, Keys

LEMMA WriteNameInv ==
    ASSUME SoundStorage, StoreInv, WriteName
    PROVE  StoreInv'
<1>0. /\ UNCHANGED <<feeds, keys, dkeys, names, names_rev>>
      /\ UNCHANGED <<masterFile, keyFile, master, known>>
      /\ UNCHANGED <<subscribers, sent, taken, since, dropped>>
      /\ UNCHANGED <<req, cur, notified, ret>>
      /\ pc = "name" /\ pc' = "build" /\ nameFile' = NameWritten
    BY Zenon DEF WriteName, feedMapVars, subVars
<1>d. /\ nameFile' \in [DKeys -> Names \cup {EmptyName}]
      /\ DiskSound' /\ nameFile'[DiscoveryKey(cur.key)] # EmptyName
    BY <1>0, NameWrittenSound, Zenon
<1>1. TypeOK'
    BY <1>0, <1>d, Zenon DEF StoreInv, TypeOK, FeedMapTypeOK, Busy
<1>2. MemorySound'
    BY <1>0, Zenon DEF StoreInv, MemorySound
<1>3. OperationSound'
    BY <1>0, <1>d, Zenon DEF StoreInv, OperationSound, Busy, Answers, NameOf
<1>4. MapSound'
    BY <1>0, Zenon DEF StoreInv, MapSound, IndexesAgree, NextId, Finds
<1>5. RequestHonoured'
    BY <1>0, Zenon DEF StoreInv, RequestHonoured
<1> QED  BY <1>d, <1>1, <1>2, <1>3, <1>4, <1>5, Zenon DEF StoreInv

\* Releasing the lock with an error, or with a feed that answers the request.
LEMMA FinishInv ==
    ASSUME StoreInv, pc \in Busy,
           NEW out \in {"feed", "err"}, NEW f \in Nat, Finish(out, f),
           out = "feed" => f \in DOMAIN feeds /\ Answers(feeds[f], req),
           UNCHANGED <<feedMapVars, masterFile, master, subVars, known>>,
           nameFile' \in [DKeys -> Names \cup {EmptyName}],
           keyFile' \in [DKeys -> Keys \cup {None}],
           DiskSound'
    PROVE  StoreInv'
<1>0. /\ UNCHANGED <<feeds, keys, dkeys, names, names_rev>>
      /\ UNCHANGED <<subscribers, sent, taken, since, dropped>>
      /\ pc' = "idle" /\ req' = NoRequest /\ cur' = None /\ notified' = 0
      /\ ret' = [req |-> req, out |-> out, feed |-> f]
      /\ master = masterFile /\ masterFile # None
    BY CurFacts, Zenon DEF Finish, Answer, feedMapVars, subVars
<1>1. TypeOK'
    BY <1>0, Zenon DEF StoreInv, TypeOK, FeedMapTypeOK
<1>2. MemorySound'
    BY <1>0, Zenon DEF MemorySound
<1>3. OperationSound'
    BY <1>0, Zenon DEF OperationSound, Busy
<1>4. MapSound'
    BY <1>0, Zenon DEF StoreInv, MapSound, IndexesAgree, NextId, Finds
<1>5. RequestHonoured'
    BY <1>0, Zenon DEF RequestHonoured, Answers
<1> QED  BY <1>1, <1>2, <1>3, <1>4, <1>5, Zenon DEF StoreInv

LEMMA IoErrorInv ==
    ASSUME SoundStorage, StoreInv, IoError
    PROVE  StoreInv'
<1>0. /\ Finish("err", 0) /\ pc \in Busy
      /\ UNCHANGED <<feedMapVars, masterFile, master, subVars, known>>
    BY Zenon DEF IoError, Busy
<1>t. /\ nameFile \in [DKeys -> Names \cup {EmptyName}]
      /\ keyFile \in [DKeys -> Keys \cup {None}]
    BY Zenon DEF StoreInv, TypeOK
<1>1. CASE UNCHANGED <<nameFile, keyFile>>
  <2>1. DiskSound'
    BY <1>0, <1>1, Zenon DEF StoreInv, DiskSound, NameOf
  <2> QED  BY <1>0, <1>t, <1>1, <2>1, FinishInv, Zenon
<1>2. CASE pc = "name" /\ nameFile' = NameWritten /\ UNCHANGED keyFile
  <2>1. nameFile' \in [DKeys -> Names \cup {EmptyName}] /\ DiskSound'
    BY <1>0, <1>2, NameWrittenSound, Zenon
  <2> QED  BY <1>0, <1>t, <1>2, <2>1, FinishInv, Zenon
<1>3. CASE /\ pc = "build" /\ UNCHANGED nameFile
           /\ keyFile' = [keyFile EXCEPT ![DiscoveryKey(cur.key)] = cur.key]
  <2>1. keyFile' \in [DKeys -> Keys \cup {None}] /\ DiskSound'
    BY <1>0, <1>3, KeyWrittenSound, Zenon
  <2> QED  BY <1>0, <1>t, <1>3, <2>1, FinishInv, Zenon
<1> QED  BY <1>1, <1>2, <1>3, Zenon DEF IoError

\* FeedMap::insert of a key that is not yet open.
LEMMA InsertSound ==
    ASSUME StoreInv, pc = "build", UNCHANGED masterFile,
           Insert(cur.key, cur.writable, cur.name)
    PROVE  /\ FeedMapTypeOK'
           /\ MapSound'
           /\ DOMAIN keys' = DOMAIN keys \cup {cur.key}
           /\ \A i \in DOMAIN feeds : i \in DOMAIN feeds' /\ feeds'[i] = feeds[i]
<1> DEFINE id == NextId
           key == cur.key
           f == [key |-> cur.key, writable |-> cur.writable]
<1>0. /\ TypeOK /\ FeedMapTypeOK /\ MapSound /\ IndexesAgree
      /\ cur \in Pairs /\ key \in Keys /\ cur.writable \in BOOLEAN
      /\ cur.name \in Names \cup {None}
      /\ DiscoveryKey(key) \in DKeys
      /\ key \notin DOMAIN keys
      /\ cur.name = None => key \notin DerivedKeys
      /\ cur.name # None => key = DeriveKey(masterFile, cur.name) /\ cur.writable
    BY CurFacts, Zenon DEF StoreInv, TypeOK, MapSound, OperationSound, Busy, Pairs
<1>1. id \in Nat /\ id \notin DOMAIN feeds /\ f \in Feed
    BY <1>0, NextIdFacts, Zenon DEF MapSound, Feed
<1>2. /\ DOMAIN feeds' = DOMAIN feeds \cup {id} /\ feeds'[id] = f
      /\ \A i \in DOMAIN feeds : feeds'[i] = feeds[i]
  <2>1. feeds' = MapInsert(feeds, id, f)
    BY Zenon DEF Insert
  <2> QED  BY <1>1, <2>1, Zenon DEF MapInsert
<1>3. /\ DOMAIN keys' = DOMAIN keys \cup {key} /\ keys'[key] = id
      /\ \A k \in DOMAIN keys : keys'[k] = keys[k]
  <2>1. keys' = MapInsert(keys, key, id)
    BY Zenon DEF Insert
  <2> QED  BY <1>0, <2>1, Zenon DEF MapInsert
<1>f. f.key = key /\ f.writable = cur.writable
    BY Zenon
<1>i. \A i \in DOMAIN feeds :
        /\ feeds[i].key \in DOMAIN keys /\ keys[feeds[i].key] = i
        /\ DiscoveryKey(feeds[i].key) \in DOMAIN dkeys
        /\ dkeys[DiscoveryKey(feeds[i].key)] = i
    BY <1>0, Zenon DEF IndexesAgree
<1>k. \A k \in DOMAIN keys : keys[k] \in DOMAIN feeds /\ feeds[keys[k]].key = k
    BY <1>0, Zenon DEF IndexesAgree, Finds
<1>d. \A d \in DOMAIN dkeys :
        dkeys[d] \in DOMAIN feeds /\ DiscoveryKey(feeds[dkeys[d]].key) = d
    BY <1>0, Zenon DEF IndexesAgree, Finds
<1>n. \A n \in DOMAIN names :
        /\ names[n] \in DOMAIN feeds
        /\ names[n] \in DOMAIN names_rev /\ names_rev[names[n]] = n
        /\ feeds[names[n]].key = DeriveKey(masterFile, n)
    BY <1>0, Zenon DEF IndexesAgree, Finds, MapSound
<1>r. \A i \in DOMAIN names_rev : names_rev[i] \in DOMAIN names /\ names[names_rev[i]] = i
    BY <1>0, Zenon DEF IndexesAgree
<1>w. \A i \in DOMAIN feeds :
        feeds[i].key \in DerivedKeys => feeds[i].writable /\ i \in DOMAIN names_rev
    BY <1>0, Zenon DEF MapSound
<1>e. key \in DerivedKeys => cur.name # None /\ cur.writable
    BY <1>0, Zenon
<1>c. \A i \in DOMAIN feeds : feeds[i].key # key
    BY <1>0, <1>i, Zenon
<1>4. DiscoveryKey(key) \notin DOMAIN dkeys
  <2> SUFFICES ASSUME DiscoveryKey(key) \in DOMAIN dkeys PROVE FALSE
    BY Zenon
  <2> DEFINE i == dkeys[DiscoveryKey(key)]
  <2>1. i \in DOMAIN feeds /\ DiscoveryKey(feeds[i].key) = DiscoveryKey(key)
    BY <1>d, Zenon
  <2>2. feeds[i].key = key
    BY <2>1, DiscoveryKeyInjective, Zenon
  <2> QED  BY <1>c, <2>1, <2>2, Zenon
<1>5. /\ DOMAIN dkeys' = DOMAIN dkeys \cup {DiscoveryKey(key)}
      /\ dkeys'[DiscoveryKey(key)] = id
      /\ \A d \in DOMAIN dkeys : dkeys'[d] = dkeys[d]
  <2>1. dkeys' = MapInsert(dkeys, DiscoveryKey(key), id)
    BY Zenon DEF Insert
  <2> QED  BY <1>4, <2>1, Zenon DEF MapInsert
<1>6. cur.name # None => cur.name \notin DOMAIN names
  <2> SUFFICES ASSUME cur.name # None, cur.name \in DOMAIN names PROVE FALSE
    BY Zenon
  <2>1. feeds[names[cur.name]].key = key /\ names[cur.name] \in DOMAIN feeds
    BY <1>0, <1>n, Zenon
  <2> QED  BY <1>c, <2>1, Zenon
<1>7. id \notin DOMAIN names_rev
    BY <1>1, <1>n, <1>r, Zenon
<1>8. cur.name # None =>
      /\ DOMAIN names' = DOMAIN names \cup {cur.name} /\ names'[cur.name] = id
      /\ \A n \in DOMAIN names : names'[n] = names[n]
      /\ DOMAIN names_rev' = DOMAIN names_rev \cup {id}
      /\ names_rev'[id] = cur.name
      /\ \A i \in DOMAIN names_rev : names_rev'[i] = names_rev[i]
  <2> SUFFICES ASSUME cur.name # None
               PROVE  <1>8!2
    BY Zenon
  <2>1. /\ names' = MapInsert(names, cur.name, id)
        /\ names_rev' = MapInsert(names_rev, id, cur.name)
    BY Zenon DEF Insert
  <2> QED  BY <1>6, <1>7, <2>1, Zenon DEF MapInsert
<1>9. cur.name = None => UNCHANGED <<names, names_rev>>
    BY Zenon DEF Insert
<1>10. FeedMapTypeOK'
  <2>1. /\ IsMap(feeds', Nat, Feed) /\ IsMap(keys', Keys, Nat)
        /\ IsMap(dkeys', DKeys, Nat)
    BY <1>0, <1>1, MapInsertType, Zenon DEF FeedMapTypeOK, Insert
  <2>2. IsMap(names', Names, Nat) /\ IsMap(names_rev', Nat, Names)
    BY <1>0, <1>1, MapInsertType DEF FeedMapTypeOK, Insert
  <2> QED  BY <2>1, <2>2, Zenon DEF FeedMapTypeOK
<1>11. MapSound'
  <2>0. IsFiniteSet(DOMAIN feeds) /\ DOMAIN feeds = 0 .. id - 1
    BY <1>0, Zenon DEF MapSound
  <2>1. IsFiniteSet(DOMAIN feeds') /\ NextId' = id + 1
    <3>1. /\ IsFiniteSet(DOMAIN feeds \cup {id})
          /\ Cardinality(DOMAIN feeds \cup {id}) = Cardinality(DOMAIN feeds) + 1
      BY <1>1, <2>0, FS_AddElement, Zenon
    <3> QED  BY <1>2, <3>1, Zenon DEF NextId
  <2>2. DOMAIN feeds' = 0 .. NextId' - 1
    <3>1. 0 .. (id + 1) - 1 = (0 .. id - 1) \cup {id}
      BY <1>1
    <3> QED  BY <1>2, <2>0, <2>1, <3>1, Zenon
  <2>3. IndexesAgree'
    <3>1. ASSUME NEW i \in DOMAIN feeds'
          PROVE  /\ feeds'[i].key \in DOMAIN keys' /\ keys'[feeds'[i].key] = i
                 /\ DiscoveryKey(feeds'[i].key) \in DOMAIN dkeys'
                 /\ dkeys'[DiscoveryKey(feeds'[i].key)] = i
      <4>1. CASE i = id
        BY <1>2, <1>3, <1>5, <1>f, <4>1, Zenon
      <4>2. CASE i \in DOMAIN feeds
        <5>1. /\ feeds'[i] = feeds[i]
              /\ feeds[i].key \in DOMAIN keys /\ keys[feeds[i].key] = i
              /\ DiscoveryKey(feeds[i].key) \in DOMAIN dkeys
              /\ dkeys[DiscoveryKey(feeds[i].key)] = i
          BY <1>2, <1>i, <4>2, Zenon
        <5>2. /\ feeds[i].key \in DOMAIN keys'
              /\ keys'[feeds[i].key] = keys[feeds[i].key]
          BY <1>3, <5>1, Zenon
        <5>3. /\ DiscoveryKey(feeds[i].key) \in DOMAIN dkeys'
              /\ dkeys'[DiscoveryKey(feeds[i].key)] = dkeys[DiscoveryKey(feeds[i].key)]
          BY <1>5, <5>1, Zenon
        <5> QED  BY <5>1, <5>2, <5>3, Zenon
      <4> QED  BY <1>2, <4>1, <4>2, Zenon
    <3>2. ASSUME NEW k \in DOMAIN keys'
          PROVE  keys'[k] \in DOMAIN feeds' /\ feeds'[keys'[k]].key = k
      <4>1. CASE k = key
        BY <1>2, <1>3, <1>f, <4>1, Zenon
      <4>2. CASE k \in DOMAIN keys
        BY <1>2, <1>3, <1>k, <4>2, ZenonT(30)
      <4> QED  BY <1>3, <4>1, <4>2, Zenon
    <3>3. ASSUME NEW d \in DOMAIN dkeys'
          PROVE  /\ dkeys'[d] \in DOMAIN feeds'
                 /\ DiscoveryKey(feeds'[dkeys'[d]].key) = d
      <4>1. CASE d = DiscoveryKey(key)
        BY <1>2, <1>5, <1>f, <4>1, Zenon
      <4>2. CASE d \in DOMAIN dkeys
        BY <1>2, <1>5, <1>d, <4>2, Zenon
      <4> QED  BY <1>5, <4>1, <4>2, Zenon
    <3>4. ASSUME NEW n \in DOMAIN names'
          PROVE  /\ names'[n] \in DOMAIN feeds'
                 /\ names'[n] \in DOMAIN names_rev' /\ names_rev'[names'[n]] = n
      <4>1. CASE cur.name = None
        BY <1>2, <1>9, <1>n, <4>1, Zenon
      <4>2. CASE cur.name # None /\ n = cur.name
        BY <1>2, <1>8, <4>2, Zenon
      <4>3. CASE cur.name # None /\ n \in DOMAIN names
        <5>1. /\ names[n] \in DOMAIN feeds /\ names[n] \in DOMAIN names_rev
              /\ names_rev[names[n]] = n
          BY <1>n, <4>3, Zenon
        <5>2. names'[n] = names[n] /\ names[n] \in DOMAIN feeds'
          BY <1>2, <1>8, <4>3, <5>1, Zenon
        <5>3. /\ names[n] \in DOMAIN names_rev'
              /\ names_rev'[names[n]] = names_rev[names[n]]
          BY <1>8, <4>3, <5>1, Zenon
        <5> QED  BY <5>1, <5>2, <5>3, Zenon
      <4> QED  BY <1>8, <4>1, <4>2, <4>3, Zenon
    <3>5. ASSUME NEW i \in DOMAIN names_rev'
          PROVE  names_rev'[i] \in DOMAIN names' /\ names'[names_rev'[i]] = i
      <4>1. CASE cur.name = None
        BY <1>9, <1>r, <4>1, Zenon
      <4>2. CASE cur.name # None /\ i = id
        BY <1>8, <4>2, Zenon
      <4>3. CASE cur.name # None /\ i \in DOMAIN names_rev
        <5>1. names_rev[i] \in DOMAIN names /\ names[names_rev[i]] = i
          BY <1>r, <4>3, Zenon
        <5>2. names_rev'[i] = names_rev[i] /\ names'[names_rev[i]] = names[names_rev[i]]
          BY <1>8, <4>3, <5>1, Zenon
        <5>3. names_rev[i] \in DOMAIN names'
          BY <1>8, <4>3, <5>1, Zenon
        <5> QED  BY <5>1, <5>2, <5>3, Zenon
      <4>4. ASSUME cur.name # None
            PROVE  i = id \/ i \in DOMAIN names_rev
        <5>1. i \in DOMAIN names_rev \cup {id}
          BY <1>8, <4>4, Zenon
        <5> QED  BY <5>1, Zenon
      <4> QED  BY <4>1, <4>2, <4>3, <4>4, Zenon
    <3> QED  BY <3>1, <3>2, <3>3, <3>4, <3>5, Zenon DEF IndexesAgree, Finds
  <2>4. ASSUME NEW i \in DOMAIN feeds', feeds'[i].key \in DerivedKeys
        PROVE  feeds'[i].writable /\ i \in DOMAIN names_rev'
    <3>1. CASE i = id
      BY <1>2, <1>8, <1>e, <1>f, <2>4, <3>1, Zenon
    <3>2. CASE i \in DOMAIN feeds
      BY <1>2, <1>8, <1>9, <1>w, <2>4, <3>2, Zenon
    <3> QED  BY <1>2, <3>1, <3>2, Zenon
  <2>5. ASSUME NEW n \in DOMAIN names'
        PROVE  feeds'[names'[n]].key = DeriveKey(masterFile, n)
    <3>1. CASE cur.name = None
      BY <1>2, <1>9, <1>n, <3>1, ZenonT(30)
    <3>2. CASE cur.name # None /\ n = cur.name
      BY <1>0, <1>2, <1>8, <1>f, <3>2, Zenon
    <3>3. CASE cur.name # None /\ n \in DOMAIN names
      <4>1. names[n] \in DOMAIN feeds /\ feeds[names[n]].key = DeriveKey(masterFile, n)
        BY <1>n, <3>3, Zenon
      <4>2. names'[n] = names[n] /\ feeds'[names[n]] = feeds[names[n]]
        BY <1>2, <1>8, <3>3, <4>1, Zenon
      <4> QED  BY <4>1, <4>2, Zenon
    <3> QED  BY <1>8, <3>1, <3>2, <3>3, Zenon
  <2> QED  BY <2>1, <2>2, <2>3, <2>4, <2>5, Zenon DEF MapSound
<1> QED  BY <1>2, <1>3, <1>10, <1>11, Zenon

LEMMA BuildInv ==
    ASSUME StoreInv, Build
    PROVE  StoreInv'
<1>0. /\ UNCHANGED <<masterFile, nameFile, master>>
      /\ UNCHANGED <<subscribers, sent, taken, since, dropped>>
      /\ UNCHANGED <<req, cur, notified, ret>>
      /\ pc = "build" /\ pc' = "emit"
      /\ keyFile' = [keyFile EXCEPT ![DiscoveryKey(cur.key)] = cur.key]
      /\ known' = known \cup {cur.key}
      /\ Insert(cur.key, cur.writable, cur.name)
    BY Zenon DEF Build, subVars
<1>d. keyFile' \in [DKeys -> Keys \cup {None}] /\ DiskSound'
    BY <1>0, KeyWrittenSound, Zenon
<1>m. /\ FeedMapTypeOK' /\ MapSound'
      /\ DOMAIN keys' = DOMAIN keys \cup {cur.key}
      /\ \A i \in DOMAIN feeds : i \in DOMAIN feeds' /\ feeds'[i] = feeds[i]
    BY <1>0, InsertSound, Zenon
<1>1. TypeOK'
  <2>1. cur.key \in Keys
    BY <1>0, CurFacts, Zenon DEF Busy
  <2> QED  BY <1>0, <1>d, <1>m, <2>1, Zenon DEF StoreInv, TypeOK, Busy
<1>2. MemorySound'
    BY <1>0, Zenon DEF StoreInv, MemorySound
<1>3. OperationSound'
    BY <1>0, <1>m, Zenon DEF StoreInv, OperationSound, Busy, Answers, NameOf
<1>4. RequestHonoured'
    BY <1>0, <1>m, Zenon DEF StoreInv, RequestHonoured
<1> QED  BY <1>d, <1>m, <1>1, <1>2, <1>3, <1>4, Zenon DEF StoreInv

-----------------------------------------------------------------------------
(* Requests.                                                               *)

\* open_feed(Some(key), None), for a key that callers know or a key file
\* holds: if it is one of this store's, its name is on disk.
LEMMA OpenByKeyInv ==
    ASSUME StoreInv, SoundStorage, pc = "idle", NEW r \in Requests,
           NEW k \in Keys, OpenByKey(r, k),
           k \in known \/ keyFile[DiscoveryKey(k)] # None,
           r.kind \in {"key", "dkey"},
           r.kind = "key" => k = r.arg,
           r.kind = "dkey" => DiscoveryKey(k) = r.arg
    PROVE  StoreInv'
<1> DEFINE name == NameOf(k)
<1>0. /\ TypeOK /\ MapSound /\ IndexesAgree
      /\ master = masterFile /\ masterFile # None /\ masterFile \in MasterKeys
    BY Zenon DEF StoreInv, MapSound, MemorySound, TypeOK
<1>1. CASE Finds(keys, k) /\ Reply(r, "feed", keys[k])
  <2>1. /\ keys[k] \in Nat /\ keys[k] \in DOMAIN feeds
        /\ feeds[keys[k]].key = k
    BY <1>0, <1>1, Zenon DEF Finds, IndexesAgree, TypeOK, FeedMapTypeOK, IsMap
  <2>2. Answers(feeds[keys[k]], r)
    BY <2>1, Zenon DEF Answers
  <2> QED  BY <1>1, <2>1, <2>2, ReplyInv, Zenon
<1>2. ASSUME ~Finds(keys, k)
      PROVE  k \notin DOMAIN keys
    BY <1>0, <1>2, Zenon DEF IndexesAgree
<1>3. CASE ~Finds(keys, k) /\ name # EmptyName /\ OpenFeed(r, NamedPair(name))
  <2>1. name \in Names /\ k = DeriveKey(masterFile, name)
    BY <1>0, <1>3, DiscoveryKeyType, Zenon DEF StoreInv, DiskSound, TypeOK, NameOf
  <2>2. /\ NamedPair(name).key = k /\ NamedPair(name).writable
        /\ NamedPair(name).name = name
        /\ NamedPair(name) \in Pairs
    BY <1>0, <2>1, Zenon DEF NamedPair, Pairs
  <2>3. Answers(NamedPair(name), r)
    BY <2>2, Zenon DEF Answers
  <2>4. name # None
    BY <2>1, NoneAssumption, Zenon
  <2> QED  BY <1>2, <1>3, <2>1, <2>2, <2>3, <2>4, OpenFeedInv, Zenon
<1>4. CASE /\ ~Finds(keys, k) /\ name = EmptyName
           /\ OpenFeed(r, [key |-> k, writable |-> FALSE, name |-> None])
  <2> DEFINE p == [key |-> k, writable |-> FALSE, name |-> None]
  <2>1. p \in Pairs /\ p.key = k /\ p.name = None
    BY Zenon DEF Pairs
  <2>2. k \notin DerivedKeys
    BY <1>4, Zenon DEF StoreInv, DiskSound
  <2>3. Answers(p, r)
    BY <2>1, Zenon DEF Answers
  <2> HIDE DEF p
  <2>4. OpenFeed(r, p)
    BY <1>4, Zenon DEF p
  <2> QED  BY <1>2, <1>4, <2>1, <2>2, <2>3, <2>4, OpenFeedInv, Zenon
<1>5. CASE ~Finds(keys, k) /\ Reply(r, "err", 0)
    BY <1>5, ReplyInv, Zenon
<1> QED  BY <1>1, <1>3, <1>4, <1>5, Zenon DEF OpenByKey, NameOf, SoundStorage

LEMMA GetByKeyInv ==
    ASSUME StoreInv, SoundStorage, NEW k \in Keys, GetByKey(k)
    PROVE  StoreInv'
<1> DEFINE r == [kind |-> "key", arg |-> k]
<1>1. r \in Requests /\ r.kind = "key" /\ r.arg = k
    BY Zenon DEF Requests
<1> HIDE DEF r
<1>2. pc = "idle" /\ k \in known /\ OpenByKey(r, k)
    BY Zenon DEF GetByKey, r
<1> QED  BY <1>1, <1>2, OpenByKeyInv, Zenon

LEMMA GetByDkeyInv ==
    ASSUME StoreInv, SoundStorage, NEW k \in Keys, GetByDkey(k)
    PROVE  StoreInv'
<1> DEFINE d == DiscoveryKey(k)
           r == [kind |-> "dkey", arg |-> d]
<1>1. r \in Requests /\ r.kind = "dkey" /\ r.arg = d
    BY DiscoveryKeyType, Zenon DEF Requests
<1>2. pc = "idle" /\ k \in known
    BY Zenon DEF GetByDkey
<1>3. CASE Finds(dkeys, d) /\ Reply(r, "feed", dkeys[d])
  <2>1. /\ dkeys[d] \in Nat /\ dkeys[d] \in DOMAIN feeds
        /\ DiscoveryKey(feeds[dkeys[d]].key) = d
    BY <1>3, Zenon DEF Finds, StoreInv, MapSound, IndexesAgree, TypeOK, FeedMapTypeOK,
                IsMap
  <2>2. Answers(feeds[dkeys[d]], r)
    BY <1>1, <2>1, Zenon DEF Answers
  <2> QED  BY <1>1, <1>2, <1>3, <2>1, <2>2, ReplyInv, Zenon
<1>4. CASE Reply(r, "none", 0)
    BY <1>1, <1>2, <1>4, ReplyInv, Zenon
<1>5. CASE Reply(r, "err", 0)
    BY <1>1, <1>2, <1>5, ReplyInv, Zenon
<1>6. CASE keyFile[d] # None /\ OpenByKey(r, keyFile[d])
  <2>1. keyFile[d] = k
    BY <1>6, Zenon DEF StoreInv, DiskSound
  <2>2. OpenByKey(r, k)
    BY <1>6, <2>1, Zenon
  <2> QED  BY <1>1, <1>2, <1>6, <2>2, OpenByKeyInv, Zenon
<1> QED  BY <1>3, <1>4, <1>5, <1>6, Zenon DEF GetByDkey

LEMMA GetByNameInv ==
    ASSUME StoreInv, NEW n \in Names, GetByName(n)
    PROVE  StoreInv'
<1> DEFINE r == [kind |-> "name", arg |-> n]
<1>0. /\ TypeOK /\ MapSound /\ IndexesAgree /\ pc = "idle"
      /\ master = masterFile /\ masterFile # None /\ masterFile \in MasterKeys
    BY Zenon DEF GetByName, StoreInv, MapSound, MemorySound, TypeOK
<1>1. r \in Requests /\ r.kind = "name" /\ r.arg = n
    BY Zenon DEF Requests
<1>k. DeriveKey(masterFile, n) \in DerivedKeys /\ DeriveKey(masterFile, n) \in Keys
    BY <1>0, DeriveKeyType, Zenon
<1>2. CASE Finds(names, n) /\ Reply(r, "feed", names[n])
  <2>1. /\ names[n] \in Nat /\ names[n] \in DOMAIN feeds
        /\ feeds[names[n]].key = DeriveKey(masterFile, n)
    BY <1>0, <1>2, Zenon DEF Finds, MapSound, TypeOK, FeedMapTypeOK, IsMap
  <2>2. Answers(feeds[names[n]], r)
    BY <1>0, <1>1, <1>k, <2>1, Zenon DEF Answers, MapSound
  <2> QED  BY <1>0, <1>1, <1>2, <2>1, <2>2, ReplyInv, Zenon
<1>3. CASE ~Finds(names, n) /\ OpenFeed(r, NamedPair(n))
  <2>1. /\ NamedPair(n).key = DeriveKey(masterFile, n) /\ NamedPair(n).writable
        /\ NamedPair(n).name = n
        /\ NamedPair(n) \in Pairs
    BY <1>0, <1>k, Zenon DEF NamedPair, Pairs
  <2>2. Answers(NamedPair(n), r)
    BY <1>1, <2>1, Zenon DEF Answers
  <2>3. n # None
    BY NoneAssumption, Zenon
  <2>4. DeriveKey(masterFile, n) \notin DOMAIN keys
    <3> SUFFICES ASSUME DeriveKey(masterFile, n) \in DOMAIN keys
                 PROVE  FALSE
      BY Zenon
    <3> DEFINE i == keys[DeriveKey(masterFile, n)]
    <3>1. i \in DOMAIN feeds /\ feeds[i].key = DeriveKey(masterFile, n)
      BY <1>0, Zenon DEF IndexesAgree, Finds
    <3>2. i \in DOMAIN names_rev
      BY <1>0, <1>k, <3>1, Zenon DEF MapSound
    <3>3. names_rev[i] \in DOMAIN names /\ names[names_rev[i]] = i
      BY <1>0, <3>2, Zenon DEF IndexesAgree
    <3>4. feeds[i].key = DeriveKey(masterFile, names_rev[i])
      BY <1>0, <3>3, Zenon DEF MapSound
    <3>5. names_rev[i] = n
      BY <3>1, <3>4, DeriveKeyInjective, Zenon
    <3> QED  BY <1>0, <1>3, <3>3, <3>5, ZenonT(30) DEF IndexesAgree
  <2> QED  BY <1>0, <1>1, <1>3, <2>1, <2>2, <2>3, <2>4, OpenFeedInv, Zenon
<1> QED  BY <1>2, <1>3, Zenon DEF GetByName

-----------------------------------------------------------------------------
(* Events.                                                                 *)

LEMMA EmitInv ==
    ASSUME StoreInv, Emit \/ Flush
    PROVE  StoreInv'
<1>0. /\ UNCHANGED <<feeds, keys, dkeys, names, names_rev>>
      /\ UNCHANGED <<masterFile, nameFile, keyFile, master, known>>
      /\ UNCHANGED <<subscribers, taken, since, dropped>>
      /\ UNCHANGED <<req, cur, ret>>
      /\ pc \in {"emit", "flush"} /\ pc' \in {"emit", "flush"}
      /\ notified' \in Nat
      /\ cur \in Pairs
    BY CurFacts
    DEF Emit, Flush, feedMapVars, diskVars, subVars, Busy, StoreInv, TypeOK
<1>1. sent' \in [Subscribers -> Seq(Nat)]
  <2>1. CASE Flush
    BY <2>1, Zenon DEF Flush, subVars, StoreInv, TypeOK
  <2>2. CASE Emit
    <3>1. keys[cur.key] \in Nat
      BY <1>0, Zenon DEF StoreInv, OperationSound, Busy, TypeOK, FeedMapTypeOK, IsMap
    <3>2. notified + 1 \in 1 .. Len(subscribers)
      BY <2>2 DEF Emit, StoreInv, TypeOK
    <3>3. subscribers[notified + 1] \in Subscribers
      BY <3>2 DEF StoreInv, TypeOK
    <3>4. /\ sent \in [Subscribers -> Seq(Nat)]
          /\ sent' = [sent EXCEPT ![subscribers[notified + 1]] =
                                      Append(@, keys[cur.key])]
      BY <2>2, Zenon DEF Emit, StoreInv, TypeOK
    <3> QED  BY <3>1, <3>3, <3>4
  <2> QED  BY <2>1, <2>2, Zenon
<1>2. TypeOK'
    BY <1>0, <1>1, Zenon DEF StoreInv, TypeOK, FeedMapTypeOK, Busy
<1>3. MemorySound'
    BY <1>0, Zenon DEF StoreInv, MemorySound
<1>4. DiskSound'
    BY <1>0, Zenon DEF StoreInv, DiskSound, NameOf
<1>5. OperationSound'
    BY <1>0, Zenon DEF StoreInv, OperationSound, Busy, Answers, NameOf
<1>6. MapSound'
    BY <1>0, Zenon DEF StoreInv, MapSound, IndexesAgree, NextId, Finds
<1>7. RequestHonoured'
    BY <1>0, Zenon DEF StoreInv, RequestHonoured
<1> QED  BY <1>2, <1>3, <1>4, <1>5, <1>6, <1>7, Zenon DEF StoreInv

LEMMA EmitEndInv ==
    ASSUME StoreInv, EmitPanics \/ EmitDone
    PROVE  StoreInv'
<1>0. /\ UNCHANGED <<feedMapVars, masterFile, nameFile, keyFile, master,
                      subVars, known>>
      /\ pc = "emit" /\ pc \in Busy
    BY Zenon DEF EmitPanics, EmitDone, diskVars, Busy
<1>1. /\ nameFile' \in [DKeys -> Names \cup {EmptyName}]
      /\ keyFile' \in [DKeys -> Keys \cup {None}]
      /\ DiskSound'
    BY <1>0, Zenon DEF StoreInv, TypeOK, DiskSound, NameOf
<1>2. CASE EmitPanics
    BY <1>0, <1>1, <1>2, FinishInv, Zenon DEF EmitPanics
<1>3. CASE EmitDone
  <2> DEFINE f == keys[cur.key]
  <2>1. f \in Nat /\ f \in DOMAIN feeds /\ feeds[f].key = cur.key
    BY <1>0, Zenon DEF StoreInv, OperationSound, MapSound, IndexesAgree, Finds, TypeOK,
                FeedMapTypeOK, IsMap
  <2>2. Answers(cur, req)
    BY <1>0, Zenon DEF StoreInv, OperationSound
  <2>3. req.kind = "name" => feeds[f].writable
    <3>1. SUFFICES ASSUME req.kind = "name"
                   PROVE  cur.key \in DerivedKeys
      BY <2>1, Zenon DEF StoreInv, MapSound
    <3>2. cur.key = DeriveKey(masterFile, req.arg)
      BY <2>2, <3>1, Zenon DEF Answers
    <3>3. req.arg \in Names /\ masterFile \in MasterKeys
      BY <3>1, <1>0, CurFacts DEF StoreInv, TypeOK, Requests, NoRequest
    <3> QED  BY <3>2, <3>3, DeriveKeyType, Zenon
  <2>4. Answers(feeds[f], req)
    BY <2>1, <2>2, <2>3, Zenon DEF Answers
  <2> QED  BY <1>0, <1>1, <1>3, <2>1, <2>4, FinishInv, Zenon DEF EmitDone
<1> QED  BY <1>2, <1>3, Zenon

-----------------------------------------------------------------------------
(* The theorems.                                                           *)

LEMMA StepInv ==
    ASSUME SoundStorage, StoreInv, [Next]_vars
    PROVE  StoreInv'
<1>1. CASE UNCHANGED vars
  <2>1. TypeOK'
    BY <1>1, Zenon DEF vars, feedMapVars, diskVars, subVars, opVars, StoreInv, TypeOK,
                FeedMapTypeOK
  <2>2. StoreCore'
    BY <1>1, CoreFrame, Zenon DEF vars, opVars, StoreInv, StoreCore
  <2> QED  BY <2>1, <2>2, Zenon DEF StoreInv, StoreCore
<1>2. CASE Open
    BY <1>2, OpenInv, Zenon
<1>3. CASE Crash
    BY <1>3, CrashInv
<1>4. CASE \E s \in Subscribers : Subscribe(s) \/ Receive(s) \/ DropReceiver(s)
    BY <1>4, SubscriberInv, Zenon
<1>5. CASE \E k \in Keys : GetByKey(k) \/ GetByDkey(k)
    BY <1>5, GetByKeyInv, GetByDkeyInv, Zenon
<1>6. CASE \E n \in Names : GetByName(n)
    BY <1>6, GetByNameInv, Zenon
<1>7. CASE OpenFeedStep
    BY <1>7, WriteNameInv, BuildInv, IoErrorInv, EmitInv, EmitEndInv
, Zenon DEF OpenFeedStep
<1> QED  BY <1>1, <1>2, <1>3, <1>4, <1>5, <1>6, <1>7, Zenon DEF Next

\* StoreInv holds in every state the store can reach, through any sequence of
\* requests, I/O errors and restarts, if callers do not use the empty name
\* and an existing master key can be read.
THEOREM StoreInvariant ==
    ASSUME SoundStorage
    PROVE  Spec => []StoreInv
<1>1. Init => StoreInv
    BY InitInv, Zenon
<1>2. StoreInv /\ [Next]_vars => StoreInv'
    BY StepInv, Zenon
<1> QED  BY <1>1, <1>2, PTL DEF Spec

\* Type correctness of the store.
THEOREM TypeCorrect ==
    ASSUME SoundStorage
    PROVE  Spec => []TypeOK
<1>1. StoreInv => TypeOK
    BY Zenon DEF StoreInv
<1> QED  BY <1>1, StoreInvariant, PTL

\* The store never holds two Feed objects for one public key, that is, for
\* one set of files (open_feed, corestore.rs:223-277).
THEOREM FeedsAreUnique ==
    ASSUME SoundStorage
    PROVE  Spec => []OneFeedPerKey
<1>1. StoreInv => OneFeedPerKey
    BY DEF StoreInv, MapSound, IndexesAgree, OneFeedPerKey
<1> QED  BY <1>1, StoreInvariant, PTL

\* Every request is answered with the feed it asks for (get_by_key,
\* get_by_name and get_by_dkey, corestore.rs:183-214).
THEOREM RequestsAreHonoured ==
    ASSUME SoundStorage
    PROVE  Spec => []RequestHonoured
<1>1. StoreInv => RequestHonoured
    BY Zenon DEF StoreInv
<1> QED  BY <1>1, StoreInvariant, PTL

\* A feed of this store is opened writable however it is asked for, also
\* after a restart (read_name in open_feed, corestore.rs:236-244).
THEOREM OwnFeedsAreWritable ==
    ASSUME SoundStorage
    PROVE  Spec => []NamedFeedsWritable
<1>1. StoreInv => NamedFeedsWritable
    BY Zenon DEF StoreInv, MapSound, NamedFeedsWritable
<1> QED  BY <1>1, StoreInvariant, PTL

\* The indexes of the open feeds always agree (FeedMap::insert).
THEOREM IndexesAlwaysAgree ==
    ASSUME SoundStorage
    PROVE  Spec => []IndexesAgree
<1>1. StoreInv => IndexesAgree
    BY Zenon DEF StoreInv, MapSound
<1> QED  BY <1>1, StoreInvariant, PTL

LEMMA StepKeepsFiles ==
    ASSUME SoundStorage, StoreInv, [Next]_vars
    PROVE  [FilesKept]_vars
<1> SUFFICES ASSUME Next
             PROVE  FilesKept
    BY Zenon
<1>1. CASE UNCHANGED diskVars
    BY <1>1, Zenon DEF diskVars, FilesKept
<1>2. CASE Open
    BY <1>2, Zenon DEF Open, FilesKept, SoundStorage
<1>n. ASSUME pc = "name", nameFile' = NameWritten, UNCHANGED <<masterFile, keyFile>>
      PROVE  FilesKept
  <2>1. ASSUME NEW d \in DKeys, nameFile[d] # EmptyName
        PROVE  nameFile'[d] = nameFile[d]
    BY <1>n, <2>1, Zenon DEF NameWritten, StoreInv, TypeOK
  <2> QED  BY <1>n, <2>1, Zenon DEF FilesKept
<1>k. ASSUME pc = "build", UNCHANGED <<masterFile, nameFile>>,
             keyFile' = [keyFile EXCEPT ![DiscoveryKey(cur.key)] = cur.key]
      PROVE  FilesKept
  <2>1. ASSUME NEW d \in DKeys, keyFile[d] # None
        PROVE  keyFile'[d] = keyFile[d]
    <3>1. cur.key \in Keys
      BY <1>k, CurFacts, Zenon DEF Busy
    <3>2. d = DiscoveryKey(cur.key) => keyFile[d] = cur.key
      BY <2>1, <3>1, Zenon DEF StoreInv, DiskSound
    <3> QED  BY <1>k, <3>2, Zenon DEF StoreInv, TypeOK
  <2> QED  BY <1>k, <2>1, Zenon DEF FilesKept
<1>3. CASE WriteName
    BY <1>3, <1>n, Zenon DEF WriteName
<1>4. CASE Build
    BY <1>4, <1>k, Zenon DEF Build
<1>5. CASE IoError
  <2>1. CASE UNCHANGED <<nameFile, keyFile>>
    BY <1>5, <2>1, Zenon DEF IoError, FilesKept
  <2>2. CASE pc = "name" /\ nameFile' = NameWritten /\ UNCHANGED keyFile
    BY <1>5, <2>2, <1>n, Zenon DEF IoError
  <2>3. CASE /\ pc = "build" /\ UNCHANGED nameFile
             /\ keyFile' = [keyFile EXCEPT ![DiscoveryKey(cur.key)] = cur.key]
    BY <1>5, <2>3, <1>k, Zenon DEF IoError
  <2> QED  BY <1>5, <2>1, <2>2, <2>3, Zenon DEF IoError
<1>6. CASE Crash
    BY <1>6, <1>1, Zenon DEF Crash
<1>7. CASE \E s \in Subscribers : Subscribe(s) \/ Receive(s) \/ DropReceiver(s)
    BY <1>7, <1>1, Zenon DEF Subscribe, Receive, DropReceiver
<1>8. CASE \E k \in Keys : GetByKey(k) \/ GetByDkey(k)
    BY <1>8, <1>1, Zenon DEF GetByKey, GetByDkey, OpenByKey, Reply, OpenFeed
<1>9. CASE \E n \in Names : GetByName(n)
    BY <1>9, <1>1, Zenon DEF GetByName, Reply, OpenFeed
<1>10. CASE Emit \/ Flush \/ EmitPanics \/ EmitDone
    BY <1>10, <1>1, Zenon DEF Emit, Flush, EmitPanics, EmitDone
<1> QED  BY <1>2, <1>3, <1>4, <1>5, <1>6, <1>7, <1>8, <1>9, <1>10
, Zenon DEF Next, OpenFeedStep

\* A file once written keeps its content, through I/O errors and restarts
\* (with_storage_path and write_name_if_empty, corestore.rs:148-167, 309-319).
THEOREM FilesAreStable ==
    ASSUME SoundStorage
    PROVE  Spec => FilesStable
<1>1. StoreInv /\ [Next]_vars => [FilesKept]_vars
    BY StepKeepsFiles, Zenon
<1> QED  BY <1>1, StoreInvariant, PTL DEF Spec, FilesStable

-----------------------------------------------------------------------------
(* EventsInv is inductive relative to StoreInv, for any number of          *)
(* subscribers and any size of their channels.                             *)

\* The facts about types that the steps below use.
LEMMA EventTypes ==
    ASSUME StoreInv
    PROVE  /\ subscribers \in Seq(Subscribers)
           /\ sent \in [Subscribers -> Seq(Nat)]
           /\ since \in [Subscribers -> Nat]
           /\ notified \in Nat
           /\ NextId \in Nat
           /\ DOMAIN subscribers = 1 .. Len(subscribers)
           /\ \A i \in DOMAIN subscribers : subscribers[i] \in Subscribers
BY NextIdFacts DEF StoreInv, TypeOK, MapSound

\* Steps that change neither the feeds nor what was sent, and stay outside
\* emit() or are its end, lose no event.
LEMMA QuietStep ==
    ASSUME StoreInv, EventsInv,
           UNCHANGED <<feeds, subscribers, sent, since, dropped>>,
           pc \notin {"emit", "flush"} \/ notified = Len(subscribers) \/ dropped # {},
           pc' \notin {"emit", "flush"}, notified' = 0
    PROVE  EventsInv'
<1>1. NextId' = NextId /\ pc' # "flush" /\ pc' # "emit"
    BY Zenon DEF NextId
<1>2. ASSUME NEW i \in DOMAIN subscribers, dropped = {}
      PROVE  Told(i)' = Told(i)
    BY <1>1, <1>2, EventTypes DEF Told, EventsInv
<1>3. NoEventLost'
    BY <1>1, <1>2, Zenon DEF EventsInv, NoEventLost, SeesEveryFeed
<1>4. notified' <= Len(subscribers')
    BY EventTypes
<1> QED  BY <1>1, <1>3, <1>4, Zenon DEF EventsInv

LEMMA SubscribeEvents ==
    ASSUME StoreInv, EventsInv, NEW s \in Subscribers, Subscribe(s)
    PROVE  EventsInv'
<1> DEFINE n == Len(subscribers)
<1>0. /\ UNCHANGED <<feeds, sent, dropped, pc, notified>>
      /\ pc = "idle" /\ notified = 0 /\ NextId' = NextId
      /\ subscribers' = Append(subscribers, s)
      /\ since' = [since EXCEPT ![s] = NextId]
      /\ sent[s] = <<>>
    BY Zenon DEF Subscribe, feedMapVars, opVars, EventsInv, NextId
<1>1. /\ DOMAIN subscribers' = 1 .. n + 1 /\ Len(subscribers') = n + 1
      /\ n \in Nat /\ subscribers'[n + 1] = s
      /\ \A i \in 1 .. n : subscribers'[i] = subscribers[i] /\ subscribers[i] # s
  <2>1. subscribers \in Seq(Subscribers) /\ DOMAIN subscribers = 1 .. n
    BY EventTypes, Zenon
  <2>2. \A i \in 1 .. n : subscribers[i] # s
    BY <2>1, Zenon DEF Subscribe
  <2>3. /\ DOMAIN subscribers' = 1 .. n + 1 /\ Len(subscribers') = n + 1
        /\ n \in Nat /\ subscribers'[n + 1] = s
        /\ \A i \in 1 .. n : subscribers'[i] = subscribers[i]
    BY <1>0, <2>1
  <2> QED  BY <2>2, <2>3, Zenon
<1>2. \A i, j \in DOMAIN subscribers' : subscribers'[i] = subscribers'[j] => i = j
  <2>1. \A i, j \in 1 .. n : subscribers[i] = subscribers[j] => i = j
    BY EventTypes, Zenon DEF EventsInv
  <2>2. \A i \in 1 .. n + 1 : i \in 1 .. n \/ i = n + 1
    BY <1>1
  <2> HIDE DEF n
  <2> QED  BY <1>1, <2>1, <2>2, Zenon
<1>3. \A t \in Subscribers :
        (\A i \in DOMAIN subscribers' : subscribers'[i] # t) => sent'[t] = <<>>
    BY <1>0, <1>1, EventTypes DEF EventsInv
<1>4. NoEventLost'
  <2> SUFFICES ASSUME dropped = {}, NEW i \in 1 .. n + 1
               PROVE  SeesEveryFeed(i)'
    BY <1>0, <1>1, Zenon DEF NoEventLost
  <2>1. Told(i)' = NextId /\ Told(i) = NextId
    BY <1>0, Zenon DEF Told
  <2>2. CASE i = n + 1
    BY <1>0, <1>1, <2>1, <2>2, EventTypes DEF SeesEveryFeed
  <2>3. CASE i \in 1 .. n
    <3>1. since'[subscribers'[i]] = since[subscribers[i]]
      BY <1>0, <1>1, <2>3, EventTypes, Zenon
    <3>2. SeesEveryFeed(i)
      BY <2>3, EventTypes, Zenon DEF EventsInv, NoEventLost
    <3> QED  BY <1>0, <1>1, <2>1, <2>3, <3>1, <3>2, Zenon DEF SeesEveryFeed
  <2> QED  BY <1>1, <2>2, <2>3
<1> QED  BY <1>0, <1>1, <1>2, <1>3, <1>4 DEF EventsInv

LEMMA EmitEvents ==
    ASSUME StoreInv, EventsInv, Emit
    PROVE  EventsInv'
<1> DEFINE s == subscribers[notified + 1]
<1>0. /\ UNCHANGED <<feeds, keys, subscribers, since, dropped, cur, notified>>
      /\ pc = "emit" /\ pc' = "flush" /\ NextId' = NextId
      /\ notified < Len(subscribers)
      /\ NextId > 0 /\ keys[cur.key] = NextId - 1
      /\ sent' = [sent EXCEPT ![s] = Append(@, NextId - 1)]
    BY Zenon DEF Emit, feedMapVars, EventsInv, NextId
<1>1. notified + 1 \in DOMAIN subscribers /\ s \in Subscribers
    BY <1>0, EventTypes
<1>2. \A t \in Subscribers : t # s => sent'[t] = sent[t]
    BY <1>0, <1>1, EventTypes, Zenon
<1>3. \A t \in Subscribers :
        (\A i \in DOMAIN subscribers' : subscribers'[i] # t) => sent'[t] = <<>>
    BY <1>0, <1>1, <1>2, Zenon DEF EventsInv
<1>4. NoEventLost'
  <2> SUFFICES ASSUME dropped = {}, NEW i \in DOMAIN subscribers
               PROVE  SeesEveryFeed(i)'
    BY <1>0, Zenon DEF NoEventLost
  <2>0. SeesEveryFeed(i)
    BY Zenon DEF EventsInv, NoEventLost
  <2>1. CASE i = notified + 1
    <3>1. Told(i) = NextId - 1 /\ Told(i)' = NextId
      BY <1>0, <2>1, EventTypes DEF Told
    <3>2. /\ sent[s] \in Seq(Nat) /\ NextId - 1 \in Nat
          /\ sent'[s] = Append(sent[s], NextId - 1)
      <4>1. NextId - 1 \in Nat
        <5>1. NextId \in Nat /\ NextId > 0
          BY <1>0, EventTypes, Zenon
        <5> QED  BY <5>1
      <4>2. sent \in [Subscribers -> Seq(Nat)]
        BY EventTypes, Zenon
      <4> QED  BY <1>0, <1>1, <4>1, <4>2, Zenon
    <3>3. /\ Len(sent'[s]) = Len(sent[s]) + 1
          /\ DOMAIN sent'[s] = 1 .. Len(sent[s]) + 1
          /\ sent'[s][Len(sent[s]) + 1] = NextId - 1
          /\ \A j \in 1 .. Len(sent[s]) : sent'[s][j] = sent[s][j]
      BY <3>2
    <3>4. /\ Len(sent[s]) = NextId - 1 - since[s]
          /\ \A j \in 1 .. Len(sent[s]) : sent[s][j] = since[s] + j - 1
      BY <2>0, <2>1, <3>1, <3>2 DEF SeesEveryFeed
    <3>5. Len(sent'[s]) = NextId - since[s]
      BY <1>1, <3>3, <3>4, EventTypes
    <3>6. ASSUME NEW j \in DOMAIN sent'[s]
          PROVE  sent'[s][j] = since[s] + j - 1
      <4>1. Len(sent[s]) \in Nat /\ since[s] \in Nat /\ NextId \in Nat
        BY <1>1, <3>2, EventTypes
      <4>2. j \in 1 .. Len(sent[s]) \/ j = Len(sent[s]) + 1
        BY <3>3, <4>1
      <4>3. CASE j \in 1 .. Len(sent[s])
        BY <3>3, <3>4, <4>3, Zenon
      <4>4. CASE j = Len(sent[s]) + 1
        BY <3>3, <3>4, <4>1, <4>4
      <4> QED  BY <4>2, <4>3, <4>4, Zenon
    <3> QED  BY <1>0, <2>1, <3>1, <3>5, <3>6, Zenon DEF SeesEveryFeed
  <2>2. CASE i # notified + 1
    <3>1. Told(i)' = Told(i)
      BY <1>0, <2>2, EventTypes, SMTT(30) DEF Told
    <3>2. subscribers[i] # s /\ subscribers[i] \in Subscribers
      BY <1>1, <2>2, EventTypes, Zenon DEF EventsInv
    <3> QED  BY <1>0, <1>2, <2>0, <3>1, <3>2, Zenon DEF SeesEveryFeed
  <2> QED  BY <2>1, <2>2, Zenon
<1> QED  BY <1>0, <1>3, <1>4, Zenon DEF EventsInv

LEMMA FlushEvents ==
    ASSUME StoreInv, EventsInv, Flush
    PROVE  EventsInv'
<1>0. /\ UNCHANGED <<feeds, keys, subscribers, sent, since, dropped, cur>>
      /\ pc = "flush" /\ pc' = "emit" /\ NextId' = NextId
      /\ notified' = notified + 1 /\ notified < Len(subscribers)
      /\ NextId > 0 /\ keys[cur.key] = NextId - 1
    BY Zenon DEF Flush, feedMapVars, subVars, EventsInv, NextId
<1>1. \A i \in DOMAIN subscribers : Told(i)' = Told(i)
    BY <1>0, EventTypes, Zenon DEF Told
<1>2. NoEventLost'
    BY <1>0, <1>1, Zenon DEF EventsInv, NoEventLost, SeesEveryFeed
<1>3. notified' <= Len(subscribers')
    BY <1>0, EventTypes
<1> QED  BY <1>0, <1>2, <1>3, Zenon DEF EventsInv

LEMMA BuildEvents ==
    ASSUME StoreInv, EventsInv, Build
    PROVE  EventsInv'
<1>0. /\ UNCHANGED <<subscribers, sent, since, dropped, cur, notified>>
      /\ pc = "build" /\ pc' = "emit" /\ notified = 0
      /\ Insert(cur.key, cur.writable, cur.name) /\ UNCHANGED masterFile
    BY Zenon DEF Build, subVars, EventsInv
<1>1. DOMAIN feeds' = DOMAIN feeds \cup {NextId} /\ keys'[cur.key] = NextId
    BY <1>0, Zenon DEF Insert, MapInsert
<1>2. NextId' = NextId + 1 /\ NextId \in Nat
    BY <1>1, NextIdFacts, FS_AddElement DEF NextId, StoreInv, MapSound
<1>3. \A i \in DOMAIN subscribers : Told(i)' = Told(i)
    BY <1>0, <1>2, EventTypes DEF Told
<1>4. NoEventLost'
    BY <1>0, <1>3, Zenon DEF EventsInv, NoEventLost, SeesEveryFeed
<1>5. NextId' > 0 /\ keys'[cur'.key] = NextId' - 1
    BY <1>0, <1>1, <1>2
<1> QED  BY <1>0, <1>4, <1>5, Zenon DEF EventsInv

LEMMA StepEvents ==
    ASSUME StoreInv, EventsInv, [Next]_vars
    PROVE  EventsInv'
<1> USE DEF feedMapVars, subVars, opVars
<1>1. CASE UNCHANGED vars
    BY <1>1, Zenon DEF vars, EventsInv, NextId, NoEventLost, SeesEveryFeed, Told
<1>2. CASE Open
    BY <1>2, QuietStep, Zenon DEF Open, EventsInv
<1>3. CASE Crash
    BY <1>3 DEF Crash, EventsInv, NoEventLost
<1>4. ASSUME NEW s \in Subscribers, Subscribe(s)
      PROVE  EventsInv'
    BY <1>4, SubscribeEvents, Zenon
<1>5. ASSUME NEW s \in Subscribers, Receive(s)
      PROVE  EventsInv'
    BY <1>5, Zenon DEF Receive, EventsInv, NextId, NoEventLost, SeesEveryFeed, Told
<1>6. ASSUME NEW s \in Subscribers, DropReceiver(s)
      PROVE  EventsInv'
    BY <1>6, Zenon DEF DropReceiver, EventsInv, NextId, NoEventLost
<1>r. ASSUME NEW r, NEW out, NEW f, pc = "idle", Reply(r, out, f)
      PROVE  EventsInv'
    BY <1>r, QuietStep, Zenon DEF Reply, EventsInv
<1>o. ASSUME NEW r, NEW p, pc = "idle", OpenFeed(r, p)
      PROVE  EventsInv'
    BY <1>o, QuietStep, Zenon DEF OpenFeed, EventsInv
<1>7. CASE \E k \in Keys : GetByKey(k) \/ GetByDkey(k)
    BY <1>7, <1>r, <1>o, Zenon DEF GetByKey, GetByDkey, OpenByKey
<1>8. CASE \E n \in Names : GetByName(n)
    BY <1>8, <1>r, <1>o, Zenon DEF GetByName
<1>9. CASE WriteName
    BY <1>9, QuietStep, Zenon DEF WriteName, EventsInv
<1>10. CASE IoError
    BY <1>10, QuietStep, Zenon DEF IoError, Finish
<1>11. CASE EmitPanics
    BY <1>11, QuietStep, Zenon DEF EmitPanics, Finish
<1>12. CASE EmitDone
    BY <1>12, QuietStep, Zenon DEF EmitDone, Finish
<1> QED
    BY <1>1, <1>2, <1>3, <1>4, <1>5, <1>6, <1>7, <1>8, <1>9, <1>10, <1>11,
       <1>12, EmitEvents, FlushEvents, BuildEvents
, Zenon DEF Next, OpenFeedStep

\* What emit() has told the subscribers, and what is left to tell, is what it
\* should be at every point of open_feed (corestore.rs:169-173 and 270-276).
THEOREM EventsInvariant ==
    ASSUME SoundStorage
    PROVE  Spec => []EventsInv
<1>1. Init => EventsInv
    BY DEF Init, EventsInv, NoEventLost
<1>2. StoreInv /\ EventsInv /\ [Next]_vars => EventsInv'
    BY StepEvents, Zenon
<1> QED  BY <1>1, <1>2, StoreInvariant, PTL DEF Spec

\* While no receiver was dropped, every subscriber is sent every feed opened
\* since it subscribed, once and in order, for any number of subscribers and
\* any channel size (emit, corestore.rs:169-173).
THEOREM NoEventIsLost ==
    ASSUME SoundStorage
    PROVE  Spec => []NoEventLost
<1>1. EventsInv => NoEventLost
    BY Zenon DEF EventsInv
<1> QED  BY <1>1, EventsInvariant, PTL
-----------------------------------------------------------------------------
(* The refinement of FeedStore.                                            *)

\* A step that leaves the files, the feeds and the answer alone is invisible.
LEMMA Invisible ==
    ASSUME UNCHANGED <<masterFile, keyFile, feeds, ret>>
    PROVE  UNCHANGED Promise!storeVars
BY Zenon DEF Promise!storeVars, NamingOf, StoredKeys, OpenKeys, AnswerGiven

\* While open_feed runs there is a request it serves.
Serving == pc \in Busy => req \in Requests

LEMMA RequestTypes ==
    /\ \A k \in Keys : [kind |-> "key", arg |-> k] \in Requests
    /\ \A n \in Names : [kind |-> "name", arg |-> n] \in Requests
    /\ \A k \in Keys : [kind |-> "dkey", arg |-> DiscoveryKey(k)] \in Requests
BY DiscoveryKeyType, Zenon DEF Requests

\* The feeds of an index are of the keys they are found under.
LEMMA OpenFacts ==
    ASSUME StoreInv
    PROVE  /\ \A k \in Keys : Finds(keys, k) =>
                 keys[k] \in DOMAIN feeds /\ feeds[keys[k]].key = k
           /\ \A i \in DOMAIN feeds : feeds[i].key \in Keys /\ feeds[i].key \in OpenKeys
           /\ ret.out = "feed" => ret.feed \in DOMAIN feeds
<1>1. \A k \in Keys : Finds(keys, k) => k \in DOMAIN keys /\ keys[k] \in DOMAIN feeds
    BY Zenon DEF Finds
<1>2. \A k \in DOMAIN keys : feeds[keys[k]].key = k
    BY Zenon DEF StoreInv, MapSound, IndexesAgree
<1>3. \A i \in DOMAIN feeds : feeds[i] \in Feed
    BY Zenon DEF StoreInv, TypeOK, FeedMapTypeOK, IsMap
<1>4. \A i \in DOMAIN feeds : feeds[i].key \in Keys /\ feeds[i].key \in OpenKeys
    BY <1>3, Zenon DEF Feed, OpenKeys
<1>5. ret.out = "feed" => ret.feed \in DOMAIN feeds
    BY Zenon DEF StoreInv, RequestHonoured
<1> QED  BY <1>1, <1>2, <1>4, <1>5, Zenon

\* An answer with an open feed that answers the request is Give.
LEMMA GiveStep ==
    ASSUME StoreInv, NEW r \in Requests, NEW i \in DOMAIN feeds,
           Promise!Asked(r, feeds[i].key), Answer(r, "feed", i),
           UNCHANGED <<masterFile, keyFile, feeds>>
    PROVE  Promise!Next
<1> DEFINE k == feeds[i].key
<1>1. k \in Keys /\ k \in OpenKeys
    BY OpenFacts, Zenon
<1>2. AnswerGiven' = [req |-> r, out |-> "feed", key |-> k]
    BY Zenon DEF Answer, AnswerGiven
<1>3. UNCHANGED <<NamingOf(masterFile), StoredKeys, OpenKeys>>
    BY Zenon DEF NamingOf, StoredKeys, OpenKeys
<1>4. Promise!Give(r, k)
    BY <1>1, <1>2, <1>3, Zenon DEF Promise!Give, Promise!Answer
<1> QED  BY <1>1, <1>4, Zenon DEF Promise!Next

\* An answer "err" is Fail, whether or not the key file was written.
LEMMA FailStep ==
    ASSUME NEW r \in Requests, NEW k \in Keys, Answer(r, "err", 0),
           UNCHANGED <<masterFile, feeds>>,
           StoredKeys' \in {StoredKeys, StoredKeys \cup {k}}
    PROVE  Promise!Next
<1>1. AnswerGiven' = [req |-> r, out |-> "err", key |-> None]
    BY Zenon DEF Answer, AnswerGiven
<1>2. UNCHANGED <<NamingOf(masterFile), OpenKeys>>
    BY Zenon DEF NamingOf, OpenKeys
<1>3. Promise!Fail(r, k)
    BY <1>1, <1>2, Zenon DEF Promise!Fail, Promise!Answer
<1> QED  BY <1>3, Zenon DEF Promise!Next

\* open_feed for a key: an answer from the index, the start of an open, or an
\* error.
LEMMA OpenByKeyStep ==
    ASSUME StoreInv, NEW r \in Requests, NEW k \in Keys, OpenByKey(r, k),
           Promise!Asked(r, k)
    PROVE  Promise!Next \/ UNCHANGED Promise!storeVars
<1>1. CASE Finds(keys, k) /\ Reply(r, "feed", keys[k])
  <2>1. keys[k] \in DOMAIN feeds /\ feeds[keys[k]].key = k
    BY <1>1, OpenFacts, Zenon
  <2> QED  BY <1>1, <2>1, GiveStep, Zenon DEF Reply, feedMapVars, diskVars
<1>2. CASE Reply(r, "err", 0)
  <2>1. StoredKeys' = StoredKeys
    BY <1>2, Zenon DEF Reply, diskVars, StoredKeys
  <2> QED  BY <1>2, <2>1, FailStep, Zenon DEF Reply, feedMapVars, diskVars
<1>3. ASSUME NEW p, OpenFeed(r, p)
      PROVE  UNCHANGED Promise!storeVars
    BY <1>3, Invisible, Zenon DEF OpenFeed, feedMapVars, diskVars
<1> QED  BY <1>1, <1>2, <1>3, Zenon DEF OpenByKey

\* A request by key.
LEMMA ByKeyStep ==
    ASSUME StoreInv, NEW k \in Keys, GetByKey(k)
    PROVE  Promise!Next \/ UNCHANGED Promise!storeVars
<1> DEFINE r == [kind |-> "key", arg |-> k]
<1>1. r \in Requests /\ Promise!Asked(r, k)
  BY RequestTypes, Zenon DEF Promise!Asked
<1>2. OpenByKey(r, k)
  BY Zenon DEF GetByKey
<1> QED  BY <1>1, <1>2, OpenByKeyStep, Zenon

\* A request by name.
LEMMA ByNameStep ==
    ASSUME StoreInv, NEW n \in Names, GetByName(n)
    PROVE  Promise!Next \/ UNCHANGED Promise!storeVars
<1> DEFINE r == [kind |-> "name", arg |-> n]
<1>1. r \in Requests
  BY RequestTypes, Zenon
<1>2. CASE Finds(names, n) /\ Reply(r, "feed", names[n])
  <2>1. names[n] \in DOMAIN feeds /\ feeds[names[n]].key = DeriveKey(masterFile, n)
    BY <1>2, Zenon DEF Finds, StoreInv, MapSound
  <2>2. masterFile # None
    BY Zenon DEF GetByName, StoreInv, MemorySound
  <2>3. Promise!Asked(r, feeds[names[n]].key)
    BY <2>1, <2>2, Zenon DEF Promise!Asked, NamingOf
  <2> QED  BY <1>1, <1>2, <2>1, <2>3, GiveStep, Zenon DEF Reply, feedMapVars, diskVars
<1>3. CASE OpenFeed(r, NamedPair(n))
  BY <1>3, Invisible, Zenon DEF OpenFeed, feedMapVars, diskVars
<1> QED  BY <1>2, <1>3, Zenon DEF GetByName

\* A request by discovery key.
LEMMA ByDkeyStep ==
    ASSUME StoreInv, NEW k \in Keys, GetByDkey(k)
    PROVE  Promise!Next \/ UNCHANGED Promise!storeVars
<1> DEFINE d == DiscoveryKey(k)
           r == [kind |-> "dkey", arg |-> d]
<1>1. r \in Requests /\ Promise!Asked(r, k)
  BY RequestTypes, Zenon DEF Promise!Asked
<1>2. CASE Finds(dkeys, d) /\ Reply(r, "feed", dkeys[d])
  <2>1. dkeys[d] \in DOMAIN feeds /\ DiscoveryKey(feeds[dkeys[d]].key) = d
    BY <1>2, Zenon DEF Finds, StoreInv, MapSound, IndexesAgree
  <2>2. Promise!Asked(r, feeds[dkeys[d]].key)
    BY <2>1, Zenon DEF Promise!Asked
  <2> QED  BY <1>1, <1>2, <2>1, <2>2, GiveStep, Zenon DEF Reply, feedMapVars, diskVars
<1>3. CASE ~Finds(dkeys, d) /\ Reply(r, "none", 0)
  <2>1. AnswerGiven' = [req |-> r, out |-> "none", key |-> None]
    BY <1>3, Zenon DEF Reply, Answer, AnswerGiven
  <2>2. UNCHANGED <<NamingOf(masterFile), StoredKeys, OpenKeys>>
    BY <1>3, Zenon DEF Reply, feedMapVars, diskVars, NamingOf, StoredKeys, OpenKeys
  <2>3. \A l \in OpenKeys : ~Promise!Asked(r, l)
    <3>1. \A i \in DOMAIN feeds : Finds(dkeys, DiscoveryKey(feeds[i].key))
      BY Zenon DEF Finds, StoreInv, MapSound, IndexesAgree
    <3>2. \A l \in OpenKeys : DiscoveryKey(l) # d
      BY <1>3, <3>1, Zenon DEF OpenKeys
    <3> QED  BY <3>2, Zenon DEF Promise!Asked
  <2>4. Promise!Deny(r)
    BY <2>1, <2>2, <2>3, Zenon DEF Promise!Deny, Promise!Answer
  <2> QED  BY <1>1, <2>4, Zenon DEF Promise!Next
<1>4. CASE Reply(r, "err", 0)
  <2>1. StoredKeys' = StoredKeys
    BY <1>4, Zenon DEF Reply, diskVars, StoredKeys
  <2> QED  BY <1>1, <1>4, <2>1, FailStep, Zenon DEF Reply, feedMapVars, diskVars
<1>5. CASE keyFile[d] # None /\ OpenByKey(r, keyFile[d])
  <2>1. keyFile[d] = k
    BY <1>5, Zenon DEF StoreInv, DiskSound
  <2> QED  BY <1>1, <1>5, <2>1, OpenByKeyStep, Zenon
<1> QED  BY <1>2, <1>3, <1>4, <1>5, Zenon DEF GetByDkey

\* The key file of a feed that is built makes the feed stored.
LEMMA StoredAfter ==
    ASSUME StoreInv, NEW k \in Keys,
           keyFile' = [keyFile EXCEPT ![DiscoveryKey(k)] = k]
    PROVE  StoredKeys' = StoredKeys \cup {k}
<1>1. keyFile \in [DKeys -> Keys \cup {None}] /\ k # None
    BY NoneAssumption, Zenon DEF StoreInv, TypeOK
<1>2. \A l \in Keys : l # k => DiscoveryKey(l) # DiscoveryKey(k)
    BY DiscoveryKeyInjective, Zenon
<1>3. \A l \in Keys : DiscoveryKey(l) \in DKeys
    BY DiscoveryKeyType, Zenon
<1>4. \A l \in Keys : keyFile'[DiscoveryKey(l)] =
                        IF l = k THEN k ELSE keyFile[DiscoveryKey(l)]
    BY <1>1, <1>2, <1>3, Zenon
<1> QED  BY <1>1, <1>4, Zenon DEF StoredKeys

\* The steps of open_feed.
LEMMA OpenFeedSteps ==
    ASSUME StoreInv, Serving, OpenFeedStep
    PROVE  Promise!Next \/ UNCHANGED Promise!storeVars
<1>0. pc \in Busy /\ req \in Requests /\ cur.key \in Keys
    BY CurFacts, Zenon DEF OpenFeedStep, WriteName, Build, IoError, Emit, Flush,
                    EmitPanics, EmitDone, Busy, Serving
<1>1. CASE WriteName
    BY <1>1, Invisible, Zenon DEF WriteName, feedMapVars
<1>2. CASE Build
  <2>1. StoredKeys' = StoredKeys \cup {cur.key}
    BY <1>0, <1>2, StoredAfter, Zenon DEF Build
  <2>2. NextId \notin DOMAIN feeds
    BY NextIdFacts, Zenon DEF StoreInv, MapSound
  <2>3. /\ DOMAIN feeds' = DOMAIN feeds \cup {NextId}
        /\ feeds'[NextId].key = cur.key
        /\ \A i \in DOMAIN feeds : feeds'[i] = feeds[i]
    BY <1>2, <2>2, Zenon DEF Build, Insert, MapInsert
  <2>4. OpenKeys' = OpenKeys \cup {cur.key}
    BY <2>3, Zenon DEF OpenKeys
  <2>5. cur.key \notin OpenKeys
    BY <1>0, <1>2 DEF Build, OpenKeys, StoreInv, OperationSound, MapSound, IndexesAgree
  <2>6. UNCHANGED <<NamingOf(masterFile), AnswerGiven>>
    BY <1>2, <2>3, OpenFacts, Zenon DEF Build, NamingOf, AnswerGiven
  <2>7. Promise!OpenFeed(cur.key)
    BY <2>1, <2>4, <2>5, <2>6, Zenon DEF Promise!OpenFeed
  <2> QED  BY <1>0, <2>7, Zenon DEF Promise!Next
<1>3. CASE IoError
  <2>1. StoredKeys' \in {StoredKeys, StoredKeys \cup {cur.key}}
    BY <1>0, <1>3, StoredAfter, Zenon DEF IoError, StoredKeys
  <2> QED  BY <1>0, <1>3, <2>1, FailStep, Zenon DEF IoError, Finish, feedMapVars
<1>4. CASE Emit \/ Flush
    BY <1>4, Invisible, Zenon DEF Emit, Flush, feedMapVars, diskVars
<1>5. CASE EmitPanics
  <2>1. StoredKeys' = StoredKeys
    BY <1>5, Zenon DEF EmitPanics, diskVars, StoredKeys
  <2> QED  BY <1>0, <1>5, <2>1, FailStep, Zenon DEF EmitPanics, Finish, feedMapVars, diskVars
<1>6. CASE EmitDone
  <2>1. cur.key \in DOMAIN keys
    BY <1>6, Zenon DEF EmitDone, StoreInv, OperationSound, Busy
  <2>2. keys[cur.key] \in DOMAIN feeds /\ feeds[keys[cur.key]].key = cur.key
    BY <2>1, Zenon DEF StoreInv, MapSound, IndexesAgree, Finds
  <2>3. masterFile # None /\ Answers(cur, req)
    BY <1>0, CurFacts, Zenon DEF StoreInv, OperationSound
  <2>4. Promise!Asked(req, cur.key)
    BY <1>0, <2>3, Zenon DEF Promise!Asked, Answers, Requests, NamingOf
  <2> QED  BY <1>0, <1>6, <2>2, <2>4, GiveStep, Zenon DEF EmitDone, Finish, feedMapVars, diskVars
<1> QED  BY <1>1, <1>2, <1>3, <1>4, <1>5, <1>6, Zenon DEF OpenFeedStep

\* Every step of Corestore is a step of FeedStore or a stutter.
LEMMA StepRefines ==
    ASSUME SoundStorage, StoreInv, Serving, [Next]_vars
    PROVE  [Promise!Next]_(Promise!storeVars)
<1>1. CASE UNCHANGED vars
    BY <1>1, Invisible, Zenon DEF vars, feedMapVars, diskVars
<1>2. CASE Open
  <2>1. UNCHANGED <<StoredKeys, OpenKeys, AnswerGiven>>
    BY <1>2, Zenon DEF Open, feedMapVars, StoredKeys, OpenKeys, AnswerGiven
  <2>2. CASE UNCHANGED masterFile
    BY <2>1, <2>2, Zenon DEF Promise!storeVars, NamingOf
  <2>3. CASE masterFile = None /\ masterFile' \in MasterKeys
    <3>1. NamingOf(masterFile) = None
      BY <2>3, Zenon DEF NamingOf
    <3>2. NamingOf(masterFile)' \in {NamingOf(m) : m \in MasterKeys}
      BY <2>3, Zenon DEF NamingOf
    <3>3. Promise!Create
      BY <2>1, <3>1, <3>2, Zenon DEF Promise!Create
    <3> QED  BY <3>3, Zenon DEF Promise!Next
  <2> QED  BY <1>2, <2>2, <2>3, Zenon DEF Open, SoundStorage
<1>3. CASE Crash
  <2>1. UNCHANGED <<NamingOf(masterFile), StoredKeys>>
    BY <1>3, Zenon DEF Crash, diskVars, NamingOf, StoredKeys
  <2>2. OpenKeys' = {}
    BY <1>3, EmptyMapFacts, Zenon DEF Crash, ResetFeedMap, OpenKeys
  <2>3. AnswerGiven' = [req |-> NoRequest, out |-> "none", key |-> None]
    BY <1>3, Zenon DEF Crash, NoAnswer, AnswerGiven
  <2>4. Promise!Restart
    BY <2>1, <2>2, <2>3, Zenon DEF Promise!Restart
  <2> QED  BY <2>4, Zenon DEF Promise!Next
<1>4. CASE \E s \in Subscribers : Subscribe(s) \/ Receive(s) \/ DropReceiver(s)
    BY <1>4, Invisible, Zenon DEF Subscribe, Receive, DropReceiver, feedMapVars, diskVars
<1>5. CASE \E k \in Keys : GetByKey(k) \/ GetByDkey(k)
    BY <1>5, ByKeyStep, ByDkeyStep, Zenon
<1>6. CASE \E n \in Names : GetByName(n)
    BY <1>6, ByNameStep, Zenon
<1>7. CASE OpenFeedStep
    BY <1>7, OpenFeedSteps, Zenon
<1> QED  BY <1>1, <1>2, <1>3, <1>4, <1>5, <1>6, <1>7, Zenon DEF Next

\* open_feed only runs on behalf of a request.
LEMMA ServingStep ==
    ASSUME StoreInv, Serving, [Next]_vars
    PROVE  Serving'
<1>1. CASE \E k \in Keys : GetByKey(k) \/ GetByDkey(k)
  <2>1. PICK k \in Keys : GetByKey(k) \/ GetByDkey(k)
    BY <1>1, Zenon
  <2>2. ASSUME NEW r \in Requests, NEW l, OpenByKey(r, l), pc = "idle"
        PROVE  pc' \in Busy => req' \in Requests
    BY <2>2, Zenon DEF OpenByKey, OpenFeed, Reply, opVars, Busy
  <2> QED  BY <2>1, <2>2, RequestTypes
, Zenon DEF GetByKey, GetByDkey, Reply, opVars, Serving, Busy
<1>2. CASE \E n \in Names : GetByName(n)
    BY <1>2, RequestTypes, Zenon DEF GetByName, OpenFeed, Reply, opVars, Serving, Busy
<1>3. CASE OpenFeedStep
    BY <1>3, Zenon DEF OpenFeedStep, WriteName, Build, IoError, Emit, Flush,
                EmitPanics, EmitDone, Finish, Serving, Busy
<1>4. CASE Open \/ Crash
    BY <1>4, Zenon DEF Open, Crash, Serving, Busy
<1>5. CASE \E s \in Subscribers : Subscribe(s) \/ Receive(s) \/ DropReceiver(s)
    BY <1>5, Zenon DEF Subscribe, Receive, DropReceiver, opVars, Serving, Busy
<1>6. CASE UNCHANGED vars
    BY <1>6, Zenon DEF vars, opVars, Serving
<1> QED  BY <1>1, <1>2, <1>3, <1>4, <1>5, <1>6, Zenon DEF Next

\* With storage whose master key can be read, the corestore implements the
\* abstract store, for all names, keys and subscribers.
THEOREM Refinement ==
    ASSUME SoundStorage
    PROVE  Spec => ImplementsFeedStore
<1>1. Init => Promise!Init
    BY EmptyMapFacts, DiscoveryKeyType
       DEF Init, InitFeedMap, Promise!Init, NamingOf, StoredKeys, OpenKeys,
           AnswerGiven, NoAnswer
<1>2. Init => Serving
    BY Zenon DEF Init, Serving, Busy
<1>3. StoreInv /\ Serving /\ [Next]_vars => Serving'
    BY ServingStep, Zenon
<1>4. StoreInv /\ Serving /\ [Next]_vars => [Promise!Next]_(Promise!storeVars)
    BY StepRefines, Zenon
<1>5. Spec => []StoreInv
    BY StoreInvariant, Zenon
<1> QED  BY <1>1, <1>2, <1>3, <1>4, <1>5, PTL DEF Spec, ImplementsFeedStore, Promise!Spec
=============================================================================

------------------------------- MODULE FeedMap -------------------------------
(***************************************************************************)
(* corestore/src/feed_map.rs: the feeds a store holds open, indexed by     *)
(* public key, discovery key and name.  Every hash map is a function whose *)
(* domain is the set of keys present.  An open feed (an ArcFeed) is known  *)
(* by its id; `feeds' gives the public key it was built with and whether   *)
(* it was built with a secret key.                                         *)
(***************************************************************************)
EXTENDS KeyDerivation, HashMap, Naturals, FiniteSets

VARIABLES feeds, keys, dkeys, names, names_rev

feedMapVars == <<feeds, keys, dkeys, names, names_rev>>

Feed == [key : Keys, writable : BOOLEAN]

FeedMapTypeOK ==
    /\ IsMap(feeds, Nat, Feed)
    /\ IsMap(keys, Keys, Nat)
    /\ IsMap(dkeys, DKeys, Nat)
    /\ IsMap(names, Names, Nat)
    /\ IsMap(names_rev, Nat, Names)

InitFeedMap ==
    /\ feeds = EmptyMap
    /\ keys = EmptyMap
    /\ dkeys = EmptyMap
    /\ names = EmptyMap
    /\ names_rev = EmptyMap

\* The map is dropped with the store and created anew when it is reopened.
ResetFeedMap ==
    /\ feeds' = EmptyMap
    /\ keys' = EmptyMap
    /\ dkeys' = EmptyMap
    /\ names' = EmptyMap
    /\ names_rev' = EmptyMap

\* get_key, get_dkey and get_name find a feed when the index has an id for
\* the argument and the id is that of an open feed; the feed is that id.
Finds(index, x) == x \in DOMAIN index /\ index[x] \in DOMAIN feeds

\* Mutant of NextId: the length of the wrong map.
NextIdFromNames == Cardinality(DOMAIN names)

NextId == Cardinality(DOMAIN feeds)

\* Mutant of Insert: the reverse name map is not kept.
InsertForgetsReverse(key, writable, name) ==
    /\ feeds' = MapInsert(feeds, NextId, [key |-> key, writable |-> writable])
    /\ keys' = MapInsert(keys, key, NextId)
    /\ dkeys' = MapInsert(dkeys, DiscoveryKey(key), NextId)
    /\ names' = IF name = None THEN names ELSE MapInsert(names, name, NextId)
    /\ UNCHANGED names_rev

\* Mutant of Insert: a feed without a name is indexed by name all the same.
InsertAlwaysNamed(key, writable, name) ==
    /\ feeds' = MapInsert(feeds, NextId, [key |-> key, writable |-> writable])
    /\ keys' = MapInsert(keys, key, NextId)
    /\ dkeys' = MapInsert(dkeys, DiscoveryKey(key), NextId)
    /\ names' = MapInsert(names, name, NextId)
    /\ names_rev' = MapInsert(names_rev, NextId, name)

\* insert: the new feed's id is the number of feeds already held.
Insert(key, writable, name) ==
    /\ feeds' = MapInsert(feeds, NextId, [key |-> key, writable |-> writable])
    /\ keys' = MapInsert(keys, key, NextId)
    /\ dkeys' = MapInsert(dkeys, DiscoveryKey(key), NextId)
    /\ \/ /\ name = None
          /\ UNCHANGED <<names, names_rev>>
       \/ /\ name # None
          /\ names' = MapInsert(names, name, NextId)
          /\ names_rev' = MapInsert(names_rev, NextId, name)
=============================================================================

---------------------------- MODULE CorestoreInv ----------------------------
(***************************************************************************)
(* The inductive invariant behind the safety properties of Corestore.  It  *)
(* holds when callers do not use the empty name, an existing master key    *)
(* file can be read and an existing name file be measured; MCCorestore     *)
(* checks it, CorestoreProofs proves it.                                   *)
(***************************************************************************)
EXTENDS Corestore

SoundStorage == EmptyName \notin Names /\ ~ReadFails

NameOf(k) == nameFile[DiscoveryKey(k)]

\* The store in memory works with the master key on disk, and a store that
\* is down holds nothing.
MemorySound ==
    /\ pc # "down" => master = masterFile /\ masterFile # None
    /\ pc = "down" => feeds = EmptyMap /\ names = EmptyMap /\ ret = NoAnswer
    /\ pc \in {"down", "idle"} => req = NoRequest

\* A name on disk derives, with the master key on disk, the key of its
\* directory; a key on disk is that of its directory; and the name of a feed
\* of this store reaches the disk before anyone can learn or find its key.
DiskSound ==
    /\ \A k \in Keys :
          NameOf(k) # EmptyName =>
              masterFile # None /\ k = DeriveKey(masterFile, NameOf(k))
    /\ \A k \in Keys :
          keyFile[DiscoveryKey(k)] # None => keyFile[DiscoveryKey(k)] = k
    /\ \A k \in DerivedKeys :
          k \in known \/ keyFile[DiscoveryKey(k)] # None => NameOf(k) # EmptyName

\* The key pair open_feed works on answers the request.
Answers(p, r) ==
    /\ r.kind = "key" => p.key = r.arg
    /\ r.kind = "dkey" => DiscoveryKey(p.key) = r.arg
    /\ r.kind = "name" => p.key = DeriveKey(masterFile, r.arg) /\ p.writable

\* The key pair is new to the store until it is inserted, answers the
\* request, and is either that of a name, on disk by the time the feed is
\* built, or a foreign one.
OperationSound ==
    pc \in Busy =>
        /\ cur \in Pairs
        /\ Answers(cur, req)
        /\ IF cur.name = None
           THEN pc # "name" /\ cur.key \notin DerivedKeys
           ELSE /\ cur.key = DeriveKey(masterFile, cur.name)
                /\ cur.writable
                /\ pc # "name" => NameOf(cur.key) # EmptyName
        /\ cur.key \in DOMAIN keys <=> pc \in {"emit", "flush"}

\* Ids are consecutive; the feeds of this store are writable and are the ones
\* the name index holds.
MapSound ==
    /\ IsFiniteSet(DOMAIN feeds)
    /\ DOMAIN feeds = 0 .. NextId - 1
    /\ IndexesAgree
    /\ \A i \in DOMAIN feeds :
          feeds[i].key \in DerivedKeys =>
              feeds[i].writable /\ i \in DOMAIN names_rev
    /\ \A n \in DOMAIN names : feeds[names[n]].key = DeriveKey(masterFile, n)

\* The inductive invariant.
StoreInv ==
    /\ TypeOK
    /\ MemorySound
    /\ DiskSound
    /\ OperationSound
    /\ MapSound
    /\ RequestHonoured

\* The inductive invariant behind NoEventLost: a subscriber is in the vector
\* once, it has been sent nothing before it subscribed, and what emit() is
\* sending is the feed opened last.
EventsInv ==
    /\ \A i, j \in DOMAIN subscribers : subscribers[i] = subscribers[j] => i = j
    /\ \A s \in Subscribers :
          (\A i \in DOMAIN subscribers : subscribers[i] # s) => sent[s] = <<>>
    /\ notified <= Len(subscribers)
    /\ pc = "flush" => notified < Len(subscribers)
    /\ IF pc \in {"emit", "flush"}
       THEN NextId > 0 /\ keys[cur.key] = NextId - 1
       ELSE notified = 0
    /\ NoEventLost
=============================================================================

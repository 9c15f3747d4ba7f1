------------------------------ MODULE Corestore ------------------------------
(***************************************************************************)
(* corestore/src/corestore.rs: the store of hypercore feeds.               *)
(*                                                                         *)
(* On disk the store keeps its master key and, in one directory per        *)
(* discovery key, the public key of the feed and the name it was created   *)
(* with.  In memory it keeps the feeds it has opened (FeedMap) and the     *)
(* subscribers to its events.  Every request runs under the write lock of  *)
(* Corestore::inner, so requests do not interleave with each other; they   *)
(* do interleave with crashes, with I/O errors and with the subscribers    *)
(* that drain the event channels.                                          *)
(*                                                                         *)
(*   pc = "down"   no store is open                                        *)
(*   pc = "idle"   the write lock is free                                  *)
(*   pc = "name"   open_feed is about to call write_name_if_empty          *)
(*   pc = "build"  open_feed is about to build and insert the feed         *)
(*   pc = "emit"   open_feed is sending Event::Feed to the subscribers     *)
(*   pc = "flush"  ... and waits for room in the channel it sent to last   *)
(***************************************************************************)
EXTENDS FeedMap, Sequences

CONSTANTS
    Subscribers,     \* tasks that may call Corestore::subscribe
    ChannelSize,     \* the buffer of a subscriber's channel (mpsc::channel)
    ReadFails        \* TRUE: an existing master key file may fail to be read,
                     \* an existing name file to be measured

ASSUME StoreAssumption ==
    /\ ChannelSize \in Nat
    /\ ReadFails \in BOOLEAN

VARIABLES
    masterFile,   \* the file "master_key": a master key or None
    nameFile,     \* discovery key -> content of the file "name"
    keyFile,      \* discovery key -> content of the file "key", or None
    master,       \* InnerCorestore::master_key, None while no store is open
    subscribers,  \* InnerCorestore::subscribers, in order of subscription
    sent,         \* subscriber -> ids of the feeds its channel was sent
    taken,        \* subscriber -> how many of them it has received
    since,        \* subscriber -> feeds open when it subscribed (history)
    dropped,      \* subscribers that have dropped their receiver
    pc,           \* where the holder of the write lock is
    req,          \* the request it serves
    cur,          \* the key pair and name open_feed settled on
    notified,     \* subscribers emit() has dealt with
    ret,          \* the request answered last, and its answer
    known         \* keys that callers can name: foreign ones, and those of
                  \* feeds the store has opened (history variable)

diskVars == <<masterFile, nameFile, keyFile>>
subVars == <<subscribers, sent, taken, since, dropped>>
opVars == <<pc, req, cur, notified>>
vars == <<feedMapVars, diskVars, master, subVars, opVars, ret, known>>

Requests ==
    [kind : {"key"}, arg : Keys] \cup [kind : {"name"}, arg : Names]
        \cup [kind : {"dkey"}, arg : DKeys]

NoRequest == [kind |-> "none", arg |-> None]

\* open_feed's (public_key, secret_key, generated_name).
Pairs == [key : Keys, writable : BOOLEAN, name : Names \cup {None}]

NoAnswer == [req |-> NoRequest, out |-> "none", feed |-> 0]

Busy == {"name", "build", "emit", "flush"}

TypeOK ==
    /\ FeedMapTypeOK
    /\ masterFile \in MasterKeys \cup {None}
    /\ nameFile \in [DKeys -> Names \cup {EmptyName}]
    /\ keyFile \in [DKeys -> Keys \cup {None}]
    /\ master \in MasterKeys \cup {None}
    /\ subscribers \in Seq(Subscribers)
    /\ sent \in [Subscribers -> Seq(Nat)]
    /\ taken \in [Subscribers -> Nat]
    /\ since \in [Subscribers -> Nat]
    /\ dropped \in SUBSET Subscribers
    /\ pc \in {"down", "idle"} \cup Busy
    /\ req \in Requests \cup {NoRequest}
    /\ cur \in Pairs \cup {None}
    /\ notified \in Nat
    /\ ret \in [req : Requests \cup {NoRequest},
                out : {"feed", "none", "err"}, feed : Nat]
    /\ known \in SUBSET Keys

Init ==
    /\ InitFeedMap
    /\ masterFile = None
    /\ nameFile = [d \in DKeys |-> EmptyName]
    /\ keyFile = [d \in DKeys |-> None]
    /\ master = None
    /\ subscribers = <<>>
    /\ sent = [s \in Subscribers |-> <<>>]
    /\ taken = [s \in Subscribers |-> 0]
    /\ since = [s \in Subscribers |-> 0]
    /\ dropped = {}
    /\ pc = "down"
    /\ req = NoRequest
    /\ cur = None
    /\ notified = 0
    /\ ret = NoAnswer
    /\ known = ForeignKeys \cup BadKeys

-----------------------------------------------------------------------------
(* Opening the store, and the process stopping at any point.               *)

\* Mutant of Open: the master key is generated anew every time.
OpenGenerates ==
    /\ pc = "down"
    /\ \E m \in MasterKeys : masterFile' = m /\ master' = m
    /\ pc' = "idle"
    /\ UNCHANGED <<feedMapVars, nameFile, keyFile, subVars, req, cur,
                   notified, ret, known>>

\* with_storage_path: any error of the read makes a new master key, which
\* is written over the file.
Open ==
    /\ pc = "down"
    /\ \/ /\ masterFile # None
          /\ master' = masterFile
          /\ UNCHANGED masterFile
       \/ /\ masterFile = None \/ ReadFails
          /\ \E m \in MasterKeys \ {masterFile} :
                /\ masterFile' = m
                /\ master' = m
    /\ pc' = "idle"
    /\ UNCHANGED <<feedMapVars, nameFile, keyFile, subVars, req, cur,
                   notified, ret, known>>

\* The process stops: memory is lost, the files are kept.
Crash ==
    /\ pc # "down"
    /\ ResetFeedMap
    /\ master' = None
    /\ subscribers' = <<>>
    /\ sent' = [s \in Subscribers |-> <<>>]
    /\ taken' = [s \in Subscribers |-> 0]
    /\ since' = [s \in Subscribers |-> 0]
    /\ dropped' = {}
    /\ pc' = "down"
    /\ req' = NoRequest
    /\ cur' = None
    /\ notified' = 0
    /\ ret' = NoAnswer
    /\ UNCHANGED <<diskVars, known>>

-----------------------------------------------------------------------------
(* Subscribers.                                                            *)

Subscribe(s) ==
    /\ pc = "idle"
    /\ \A i \in DOMAIN subscribers : subscribers[i] # s
    /\ subscribers' = Append(subscribers, s)
    /\ since' = [since EXCEPT ![s] = NextId]
    /\ UNCHANGED <<feedMapVars, diskVars, master, sent, taken, dropped,
                   opVars, ret, known>>

Unread(s) == Len(sent[s]) - taken[s]

\* The subscriber's task receives the next event; it needs no lock.
Receive(s) ==
    /\ s \notin dropped
    /\ Unread(s) > 0
    /\ taken' = [taken EXCEPT ![s] = @ + 1]
    /\ UNCHANGED <<feedMapVars, diskVars, master, subscribers, sent, since,
                   dropped, opVars, ret, known>>

\* The subscriber's task ends; its sender stays in the vector.
DropReceiver(s) ==
    /\ \E i \in DOMAIN subscribers : subscribers[i] = s
    /\ dropped' = dropped \cup {s}
    /\ UNCHANGED <<feedMapVars, diskVars, master, subscribers, sent, taken,
                   since, opVars, ret, known>>

-----------------------------------------------------------------------------
(* Requests.                                                               *)

Answer(r, out, feed) == ret' = [req |-> r, out |-> out, feed |-> feed]

\* The request is answered without opening a feed.
Reply(r, out, feed) ==
    /\ Answer(r, out, feed)
    /\ UNCHANGED <<feedMapVars, diskVars, master, subVars, opVars, known>>

\* Mutant of OpenFeed: the name is not written to disk.
OpenFeedSkipsName(r, p) ==
    /\ pc' = "build"
    /\ req' = r
    /\ cur' = p
    /\ UNCHANGED <<feedMapVars, diskVars, master, subVars, notified, ret,
                   known>>

\* open_feed goes on to open a feed with the key pair and name p.
OpenFeed(r, p) ==
    /\ pc' = IF p.name = None THEN "build" ELSE "name"
    /\ req' = r
    /\ cur' = p
    /\ UNCHANGED <<feedMapVars, diskVars, master, subVars, notified, ret,
                   known>>

\* generate_key_pair(Some(name))
NamedPair(name) ==
    [key |-> DeriveKey(master, name), writable |-> TRUE, name |-> name]

\* Mutant of OpenByKey: the feeds already open are not looked at.
OpenByKeyUncached(r, key) ==
    LET name == nameFile[DiscoveryKey(key)] IN
    \/ /\ name # EmptyName
       /\ OpenFeed(r, NamedPair(name))
    \/ /\ name = EmptyName
       /\ key \notin BadKeys
       /\ OpenFeed(r, [key |-> key, writable |-> FALSE, name |-> None])

\* open_feed(Some(key), None) on behalf of the request r: a name found on
\* disk takes over from the key.  It fails when the name file cannot be
\* opened or read, or when the bytes are not a public key.  A name file whose
\* length cannot be told counts as empty.
OpenByKey(r, key) ==
    LET name == nameFile[DiscoveryKey(key)] IN
    \/ /\ Finds(keys, key)
       /\ Reply(r, "feed", keys[key])
    \/ /\ ~Finds(keys, key)
       /\ name # EmptyName
       /\ OpenFeed(r, NamedPair(name))
    \/ /\ ~Finds(keys, key)
       /\ name = EmptyName \/ ReadFails
       /\ key \notin BadKeys
       /\ OpenFeed(r, [key |-> key, writable |-> FALSE, name |-> None])
    \/ /\ ~Finds(keys, key)
       /\ Reply(r, "err", 0)

GetByKey(key) ==
    /\ pc = "idle"
    /\ key \in known
    /\ OpenByKey([kind |-> "key", arg |-> key], key)

GetByName(name) ==
    LET r == [kind |-> "name", arg |-> name] IN
    /\ pc = "idle"
    /\ \/ /\ Finds(names, name)
          /\ Reply(r, "feed", names[name])
       \/ /\ ~Finds(names, name)
          /\ OpenFeed(r, NamedPair(name))

\* The discovery keys of known keys are the ones peers can ask for.  The
\* request fails when the key file cannot be opened; when it cannot be read,
\* whether it is empty or not, the answer is that there is no feed.
GetByDkey(key) ==
    LET d == DiscoveryKey(key)
        r == [kind |-> "dkey", arg |-> d] IN
    /\ pc = "idle"
    /\ key \in known
    /\ \/ /\ Finds(dkeys, d)
          /\ Reply(r, "feed", dkeys[d])
       \/ /\ ~Finds(dkeys, d)
          /\ \E out \in {"none", "err"} : Reply(r, out, 0)
       \/ /\ ~Finds(dkeys, d)
          /\ keyFile[d] # None
          /\ OpenByKey(r, keyFile[d])

-----------------------------------------------------------------------------
(* The rest of open_feed.                                                  *)

\* The lock is released and the caller gets its answer.
Finish(out, feed) ==
    /\ pc' = "idle"
    /\ req' = NoRequest
    /\ cur' = None
    /\ notified' = 0
    /\ Answer(req, out, feed)

\* write_name_if_empty: a name already there is kept.
NameWritten ==
    [nameFile EXCEPT ![DiscoveryKey(cur.key)] =
        IF @ = EmptyName THEN cur.name ELSE @]

WriteName ==
    /\ pc = "name"
    /\ nameFile' = NameWritten
    /\ pc' = "build"
    /\ UNCHANGED <<feedMapVars, masterFile, keyFile, master, subVars, req,
                   cur, notified, ret, known>>

\* Feed::builder(...).build() stores the public key with the feed; the feed
\* is inserted and from then on others can see it.
Build ==
    /\ pc = "build"
    /\ keyFile' = [keyFile EXCEPT ![DiscoveryKey(cur.key)] = cur.key]
    /\ Insert(cur.key, cur.writable, cur.name)
    /\ known' = known \cup {cur.key}
    /\ pc' = "emit"
    /\ UNCHANGED <<masterFile, nameFile, master, subVars, req, cur, notified,
                   ret>>

\* An I/O error (or the panic of an unwrap) while the name is written or the
\* feed is built: the file may have been written all the same.
IoError ==
    LET d == DiscoveryKey(cur.key) IN
    /\ \/ /\ pc = "name"
          /\ nameFile' \in {nameFile, NameWritten}
          /\ UNCHANGED keyFile
       \/ /\ pc = "build"
          /\ keyFile' \in {keyFile, [keyFile EXCEPT ![d] = cur.key]}
          /\ UNCHANGED nameFile
    /\ Finish("err", 0)
    /\ UNCHANGED <<feedMapVars, masterFile, master, subVars, known>>

\* Mutant of Emit: try_send, which loses the event when the channel is full.
EmitTries ==
    /\ pc = "emit"
    /\ notified < Len(subscribers)
    /\ LET s == subscribers[notified + 1] IN
         /\ s \notin dropped
         /\ sent' = IF Unread(s) >= ChannelSize THEN sent
                    ELSE [sent EXCEPT ![s] = Append(@, keys[cur.key])]
    /\ pc' = "flush"
    /\ UNCHANGED <<feedMapVars, diskVars, master, subscribers, taken, since,
                   dropped, req, cur, notified, ret, known>>

\* emit serves one subscriber after the other.  The channel takes the event
\* at once; send() then waits until the buffer holds no more than its size.
Emit ==
    /\ pc = "emit"
    /\ notified < Len(subscribers)
    /\ LET s == subscribers[notified + 1] IN
         /\ s \notin dropped
         /\ sent' = [sent EXCEPT ![s] = Append(@, keys[cur.key])]
    /\ pc' = "flush"
    /\ UNCHANGED <<feedMapVars, diskVars, master, subscribers, taken, since,
                   dropped, req, cur, notified, ret, known>>

\* Mutant of Flush: only the receiver taking an event makes room.
FlushWaits ==
    /\ pc = "flush"
    /\ Unread(subscribers[notified + 1]) <= ChannelSize
    /\ notified' = notified + 1
    /\ pc' = "emit"
    /\ UNCHANGED <<feedMapVars, diskVars, master, subVars, req, cur, ret,
                   known>>

\* A receiver that goes away while send() waits counts as flushed.
Flush ==
    /\ pc = "flush"
    /\ LET s == subscribers[notified + 1] IN
         Unread(s) <= ChannelSize \/ s \in dropped
    /\ notified' = notified + 1
    /\ pc' = "emit"
    /\ UNCHANGED <<feedMapVars, diskVars, master, subVars, req, cur, ret,
                   known>>

\* send().await.unwrap() on a channel whose receiver is already gone.
EmitPanics ==
    /\ pc = "emit"
    /\ notified < Len(subscribers)
    /\ subscribers[notified + 1] \in dropped
    /\ Finish("err", 0)
    /\ UNCHANGED <<feedMapVars, diskVars, master, subVars, known>>

EmitDone ==
    /\ pc = "emit"
    /\ notified = Len(subscribers)
    /\ Finish("feed", keys[cur.key])
    /\ UNCHANGED <<feedMapVars, diskVars, master, subVars, known>>

-----------------------------------------------------------------------------
OpenFeedStep ==
    WriteName \/ Build \/ IoError \/ Emit \/ Flush \/ EmitPanics \/ EmitDone

Next ==
    \/ Open
    \/ Crash
    \/ \E s \in Subscribers : Subscribe(s) \/ Receive(s) \/ DropReceiver(s)
    \/ \E k \in Keys : GetByKey(k) \/ GetByDkey(k)
    \/ \E n \in Names : GetByName(n)
    \/ OpenFeedStep

Spec == Init /\ [][Next]_vars

\* The task that holds the lock keeps running.  Nothing makes a subscriber
\* poll its channel: replicate_corestore's loop does not while it waits for
\* the lock itself (replicate.rs:34).
FairSpec == Spec /\ WF_vars(OpenFeedStep)

-----------------------------------------------------------------------------
(* Properties.                                                             *)

\* No two open Feed objects share a public key, whatever mixture of key,
\* name and discovery key requests, restarts and I/O errors led to them: two
\* Feed objects on the same files would overwrite each other's blocks.
\* (open_feed's two cache lookups, corestore.rs:224-229)
OneFeedPerKey ==
    \A i, j \in DOMAIN feeds : feeds[i].key = feeds[j].key => i = j

\* The indexes and the feeds agree: an open feed is found under its key and
\* its discovery key, no index leads elsewhere, and the two name maps are
\* inverse to each other.  (feed_map.rs:37-50)
IndexesAgree ==
    /\ \A i \in DOMAIN feeds :
          LET k == feeds[i].key IN
          /\ k \in DOMAIN keys /\ keys[k] = i
          /\ DiscoveryKey(k) \in DOMAIN dkeys /\ dkeys[DiscoveryKey(k)] = i
    /\ \A k \in DOMAIN keys : Finds(keys, k) /\ feeds[keys[k]].key = k
    /\ \A d \in DOMAIN dkeys :
          Finds(dkeys, d) /\ DiscoveryKey(feeds[dkeys[d]].key) = d
    /\ \A n \in DOMAIN names :
          /\ Finds(names, n)
          /\ names[n] \in DOMAIN names_rev /\ names_rev[names[n]] = n
    /\ \A i \in DOMAIN names_rev :
          names_rev[i] \in DOMAIN names /\ names[names_rev[i]] = i

\* The feed a request is answered with is the one it asked for: the feed of
\* that public key or discovery key, or the writable feed of that name.
\* (doc comments at corestore.rs:62, 67 and 75)
RequestHonoured ==
    ret.out = "feed" =>
        /\ ret.feed \in DOMAIN feeds
        /\ LET f == feeds[ret.feed] IN
             /\ ret.req.kind = "key" => f.key = ret.req.arg
             /\ ret.req.kind = "dkey" => DiscoveryKey(f.key) = ret.req.arg
             /\ ret.req.kind = "name" =>
                   f.key = DeriveKey(master, ret.req.arg) /\ f.writable

\* A feed that belongs to this store is opened writable however it is asked
\* for, also after a restart: open_feed looks for a name on disk when it is
\* given a key only (corestore.rs:236-244), and the name gives the secret.
NamedFeedsWritable ==
    \A i \in DOMAIN feeds : feeds[i].key \in DerivedKeys => feeds[i].writable

\* A file once written keeps its content: the master key is never replaced,
\* a name is written once, a feed's directory holds one public key.
\* (corestore.rs:151-159 and 309-319)
FilesKept ==
    /\ masterFile # None => masterFile' = masterFile
    /\ \A d \in DKeys :
          /\ nameFile[d] # EmptyName => nameFile'[d] = nameFile[d]
          /\ keyFile[d] # None => keyFile'[d] = keyFile[d]

FilesStable == [][FilesKept]_vars

\* How many of the open feeds the i-th subscriber has been told of by now.
Told(i) ==
    IF \/ pc = "emit" /\ notified < i
       \/ pc = "flush" /\ notified + 1 < i
    THEN NextId - 1 ELSE NextId

\* The events sent to the i-th subscriber are the feeds opened since it
\* subscribed, in the order they were opened, each of them once.
SeesEveryFeed(i) ==
    LET s == subscribers[i] IN
    /\ Len(sent[s]) = Told(i) - since[s]
    /\ \A j \in DOMAIN sent[s] : sent[s][j] = since[s] + j - 1

\* While no receiver has been dropped, no subscriber misses a feed, sees one
\* twice or sees them out of order, however long emit waits for room.
\* (emit, corestore.rs:169-173)
NoEventLost ==
    dropped = {} => \A i \in DOMAIN subscribers : SeesEveryFeed(i)

\* emit waits for room in the channel of a subscriber that is still there.
WaitsForRoom ==
    /\ pc = "flush"
    /\ LET s == subscribers[notified + 1] IN
         Unread(s) > ChannelSize /\ s \notin dropped

\* Every request that opens a feed is answered or ends with the process, and
\* gives the write lock back, unless it waits for ever for one subscriber that
\* lives and takes no more events: a receiver that goes away while send()
\* waits, or before it, cannot block the store (emit, corestore.rs:169-173).
RequestsEnd == (pc \in Busy) ~> (pc \notin Busy \/ []WaitsForRoom)
=============================================================================

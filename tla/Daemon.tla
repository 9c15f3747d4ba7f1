------------------------------- MODULE Daemon -------------------------------
(***************************************************************************)
(* The tasks that server/src/lib.rs runs side by side in one daemon, and   *)
(* the state they share:                                                   *)
(*                                                                         *)
(*   rpc::run_rpc          clients open feeds in the corestore             *)
(*   replicate_corestore   (corestore/src/replicate.rs) adds the feeds of  *)
(*                         the corestore to the replicator                 *)
(*   network::run          (server/src/network.rs) announces the feeds of  *)
(*                         the replicator on the DHT                       *)
(*   Replicator::run_peer  reports the discovery keys that remote peers    *)
(*                         ask for, and opens every feed on a handshake    *)
(*   sessions and peers    lock a feed to read it, append to it, serve it  *)
(*                                                                         *)
(* The corestore is the abstraction of module Corestore that matters here: *)
(* a lock, the feeds that are open, the feeds on disk, and one subscriber; *)
(* its I/O errors and crashes are left to that module.                     *)
(***************************************************************************)
EXTENDS Naturals, Sequences, FiniteSets

CONSTANTS
    Feeds,        \* feeds, each standing for its key and discovery key
    ChannelSize,  \* buffer of the corestore's event channel (100)
    MaxAsks,      \* bound: discovery keys asked for by remote peers
    None

ASSUME DaemonAssumption ==
    /\ {ChannelSize, MaxAsks} \subseteq Nat
    /\ None \notin Feeds

VARIABLES
    onDisk,      \* feeds that have files
    opened,      \* feeds open in the corestore
    lock,        \* holder of the corestore's lock: "free", "client" or "task"
                 \* (write), "iter" (the read lock of a FeedsIterator)
    storeSub,    \* the replicate task has subscribed to the corestore
    storeEvents, \* that subscription's channel
    late,        \* feeds opened since it subscribed (history)
    pc,          \* where the replicate task is
    todo,        \* feeds the replicate task has still to iterate over
    adding,      \* the feed it has called add_feed with
    asked,       \* the discovery key it handles
    held,        \* feeds whose lock a session or a peer holds
    feeds,       \* Replicator::feeds
    greeting,    \* a handshake holds the lock of Replicator::feeds
    toOpen,      \* feeds that handshake has still to open
    adds,        \* feed -> how often add_feed was called for it (history)
    repSub,      \* the replicate task has subscribed to the replicator
    repEvents,   \* that subscription's channel (unbounded)
    netSub,      \* the network task has subscribed to the replicator
    netEvents,   \* that subscription's channel (unbounded)
    announced,   \* feeds configured on the swarm
    asks         \* discovery keys asked for so far

storeVars == <<onDisk, opened, lock, storeSub, storeEvents, late>>
taskVars == <<pc, todo, adding, asked>>
lockVars == <<held, greeting, toOpen>>
repVars == <<feeds, adds, repSub, repEvents, netEvents>>
netVars == <<netSub, announced>>
vars == <<storeVars, taskVars, lockVars, repVars, netVars, asks>>

FeedEvent(f) == [type |-> "feed", feed |-> f]
DkeyEvent(f) == [type |-> "dkey", feed |-> f]

ReplicatorEvents == {FeedEvent(f) : f \in Feeds} \cup {DkeyEvent(f) : f \in Feeds}

TypeOK ==
    /\ onDisk \in SUBSET Feeds
    /\ opened \in SUBSET onDisk
    /\ lock \in {"free", "client", "task", "iter"}
    /\ storeSub \in BOOLEAN
    /\ storeEvents \in Seq(Feeds)
    /\ late \in SUBSET opened
    /\ pc \in {"start", "iter", "key", "insert", "subscribe", "subscribe_rep",
               "loop", "dkey"}
    /\ todo \in SUBSET Feeds
    /\ adding \in Feeds \cup {None}
    /\ asked \in Feeds \cup {None}
    /\ held \in SUBSET Feeds
    /\ feeds \in SUBSET Feeds
    /\ greeting \in BOOLEAN
    /\ toOpen \in SUBSET Feeds
    /\ adds \in [Feeds -> Nat]
    /\ repSub \in BOOLEAN
    /\ repEvents \in Seq(ReplicatorEvents)
    /\ netSub \in BOOLEAN
    /\ netEvents \in Seq(ReplicatorEvents)
    /\ announced \in SUBSET Feeds
    /\ asks \in 0 .. MaxAsks

InitWith(subscribed) ==
    /\ onDisk \in SUBSET Feeds
    /\ opened = {}
    /\ lock = "free"
    /\ storeSub = subscribed
    /\ storeEvents = <<>>
    /\ late = {}
    /\ pc = "start"
    /\ todo = {}
    /\ adding = None
    /\ asked = None
    /\ held = {}
    /\ feeds = {}
    /\ greeting = FALSE
    /\ toOpen = {}
    /\ adds = [f \in Feeds |-> 0]
    /\ repSub = FALSE
    /\ repEvents = <<>>
    /\ netSub = FALSE
    /\ netEvents = <<>>
    /\ announced = {}
    /\ asks = 0

\* Mutant of Init: the subscription is there before the iteration.
InitSubscribed == InitWith(TRUE)

\* A corestore that was just opened: some feeds are on disk, none is open.
Init == InitWith(FALSE)

-----------------------------------------------------------------------------
(* The corestore.                                                          *)

\* Mutant of OpenFeed: only feeds that are created are reported.
OpenFeedQuiet(f, holder) ==
    /\ onDisk' = onDisk \cup {f}
    /\ opened' = opened \cup {f}
    /\ lock' = holder
    /\ storeEvents' = IF storeSub /\ f \notin onDisk THEN Append(storeEvents, f)
                      ELSE storeEvents
    /\ late' = IF storeSub THEN late \cup {f} ELSE late
    /\ UNCHANGED storeSub

\* open_feed for a feed that is not open, up to the send of its event; the
\* lock is kept until the channel holds no more than its size.
OpenFeed(f, holder) ==
    /\ onDisk' = onDisk \cup {f}
    /\ opened' = opened \cup {f}
    /\ lock' = holder
    /\ storeEvents' = IF storeSub THEN Append(storeEvents, f) ELSE storeEvents
    /\ late' = IF storeSub THEN late \cup {f} ELSE late
    /\ UNCHANGED storeSub

Flushed == Len(storeEvents) <= ChannelSize

Unlock ==
    /\ lock' = "free"
    /\ UNCHANGED <<onDisk, opened, storeSub, storeEvents, late>>

\* A client's get_by_key or get_by_name for a feed that is not open yet.
ClientOpens(f) ==
    /\ lock = "free"
    /\ f \notin opened
    /\ OpenFeed(f, "client")
    /\ UNCHANGED <<taskVars, lockVars, repVars, netVars, asks>>

ClientDone ==
    /\ lock = "client"
    /\ Flushed
    /\ Unlock
    /\ UNCHANGED <<taskVars, lockVars, repVars, netVars, asks>>

-----------------------------------------------------------------------------
(* The replicator.                                                         *)

\* Mutant of Emit: only the first subscriber gets the event.
EmitFirstOnly(e) ==
    /\ repEvents' = IF repSub THEN Append(repEvents, e) ELSE repEvents
    /\ netEvents' = IF netSub /\ ~repSub THEN Append(netEvents, e) ELSE netEvents

\* Replicator::emit, to the subscribers there are; the channels never fill.
Emit(e) ==
    /\ repEvents' = IF repSub THEN Append(repEvents, e) ELSE repEvents
    /\ netEvents' = IF netSub THEN Append(netEvents, e) ELSE netEvents

\* run_peer: a remote peer opened a channel this side has no key for.
RemoteAsks(f) ==
    /\ asks < MaxAsks
    /\ asks' = asks + 1
    /\ Emit(DkeyEvent(f))
    /\ UNCHANGED <<storeVars, taskVars, lockVars, feeds, adds, repSub, netVars>>

\* A session or a peer works on an open feed and keeps it locked meanwhile.
LockFeed(f) ==
    /\ f \in opened \ held
    /\ held' = held \cup {f}
    /\ UNCHANGED <<storeVars, taskVars, greeting, toOpen, repVars, netVars, asks>>

UnlockFeed(f) ==
    /\ f \in held
    /\ held' = held \ {f}
    /\ UNCHANGED <<storeVars, taskVars, greeting, toOpen, repVars, netVars, asks>>

\* The Handshake arm of run_peer locks the replicator's feeds, then each feed
\* in turn for as long as it takes to read its key.
HandshakeBegin ==
    /\ ~greeting
    /\ greeting' = TRUE
    /\ toOpen' = feeds
    /\ UNCHANGED <<storeVars, taskVars, held, repVars, netVars, asks>>

HandshakeOpen(f) ==
    /\ f \in toOpen \ held
    /\ toOpen' = toOpen \ {f}
    /\ UNCHANGED <<storeVars, taskVars, held, greeting, repVars, netVars, asks>>

HandshakeEnd ==
    /\ greeting
    /\ toOpen = {}
    /\ greeting' = FALSE
    /\ UNCHANGED <<storeVars, taskVars, held, toOpen, repVars, netVars, asks>>

-----------------------------------------------------------------------------
(* replicate_corestore.                                                    *)

\* corestore.feeds(): the read lock is held until the loop is over.
IterBegin ==
    /\ pc = "start"
    /\ lock = "free"
    /\ lock' = "iter"
    /\ pc' = "iter"
    /\ todo' = opened
    /\ UNCHANGED <<onDisk, opened, storeSub, storeEvents, late, adding, asked,
                   lockVars, repVars, netVars, asks>>

IterAdd ==
    /\ pc = "iter"
    /\ adding' \in todo
    /\ todo' = todo \ {adding'}
    /\ pc' = "key"
    /\ UNCHANGED <<storeVars, asked, lockVars, repVars, netVars, asks>>

\* Mutant of IterEnd: the iterator lives until the task ends.
IterEndKeepsLock ==
    /\ pc = "iter"
    /\ todo = {}
    /\ pc' = "subscribe"
    /\ UNCHANGED <<storeVars, todo, adding, asked, lockVars, repVars, netVars,
                   asks>>

IterEnd ==
    /\ pc = "iter"
    /\ todo = {}
    /\ pc' = "subscribe"
    /\ Unlock
    /\ UNCHANGED <<todo, adding, asked, lockVars, repVars, netVars, asks>>

\* add_feed waits for the feed's lock to read its key, ...
AddFeedKey ==
    /\ pc = "key"
    /\ adding \notin held
    /\ pc' = "insert"
    /\ UNCHANGED <<storeVars, todo, adding, asked, lockVars, repVars, netVars,
                   asks>>

\* ... and for the replicator's, which it keeps until the event is sent.
AddFeed ==
    /\ pc = "insert"
    /\ ~greeting
    /\ feeds' = feeds \cup {adding}
    /\ adds' = [adds EXCEPT ![adding] = @ + 1]
    /\ Emit(FeedEvent(adding))
    /\ adding' = None
    /\ pc' = IF storeSub THEN "loop" ELSE "iter"
    /\ UNCHANGED <<storeVars, todo, asked, lockVars, repSub, netVars, asks>>

SubscribeStore ==
    /\ pc = "subscribe"
    /\ lock = "free"
    /\ storeSub' = TRUE
    /\ pc' = "subscribe_rep"
    /\ UNCHANGED <<onDisk, opened, lock, storeEvents, late, todo, adding, asked,
                   lockVars, repVars, netVars, asks>>

SubscribeReplicator ==
    /\ pc = "subscribe_rep"
    /\ repSub' = TRUE
    /\ pc' = "loop"
    /\ UNCHANGED <<storeVars, todo, adding, asked, lockVars, feeds, adds,
                   repEvents, netEvents, netVars, asks>>

\* CorestoreEvent::Feed
OnFeed ==
    /\ pc = "loop"
    /\ storeEvents # <<>>
    /\ storeEvents' = Tail(storeEvents)
    /\ adding' = Head(storeEvents)
    /\ pc' = "key"
    /\ UNCHANGED <<onDisk, opened, lock, storeSub, late, todo, asked, lockVars,
                   repVars, netVars, asks>>

\* ReplicatorEvent: a discovery key is looked up, the rest is ignored.
OnReplicatorEvent ==
    /\ pc = "loop"
    /\ repEvents # <<>>
    /\ repEvents' = Tail(repEvents)
    /\ LET e == Head(repEvents) IN
         \/ /\ e.type = "dkey"
            /\ pc' = "dkey"
            /\ asked' = e.feed
         \/ /\ e.type = "feed"
            /\ UNCHANGED <<pc, asked>>
    /\ UNCHANGED <<storeVars, todo, adding, lockVars, feeds, adds, repSub,
                   netEvents, netVars, asks>>

\* get_by_dkey for a feed that is open already or that is not on disk.
DkeyNothing ==
    /\ pc = "dkey"
    /\ lock = "free"
    /\ asked \in opened \/ asked \notin onDisk
    /\ pc' = "loop"
    /\ asked' = None
    /\ UNCHANGED <<storeVars, todo, adding, lockVars, repVars, netVars, asks>>

\* get_by_dkey for a feed on disk.
DkeyOpens ==
    /\ pc = "dkey"
    /\ lock = "free"
    /\ asked \in onDisk \ opened
    /\ OpenFeed(asked, "task")
    /\ UNCHANGED <<taskVars, lockVars, repVars, netVars, asks>>

DkeyDone ==
    /\ pc = "dkey"
    /\ lock = "task"
    /\ Flushed
    /\ Unlock
    /\ pc' = "loop"
    /\ asked' = None
    /\ UNCHANGED <<todo, adding, lockVars, repVars, netVars, asks>>

-----------------------------------------------------------------------------
(* network::run.                                                           *)

\* After Hyperswarm::bind.
NetSubscribe ==
    /\ ~netSub
    /\ netSub' = TRUE
    /\ UNCHANGED <<storeVars, taskVars, lockVars, repVars, announced, asks>>

NetEvent ==
    /\ netEvents # <<>>
    /\ netEvents' = Tail(netEvents)
    /\ LET e == Head(netEvents) IN
         announced' = IF e.type = "feed" THEN announced \cup {e.feed}
                      ELSE announced
    /\ UNCHANGED <<storeVars, taskVars, lockVars, feeds, adds, repSub,
                   repEvents, netSub, asks>>

-----------------------------------------------------------------------------
ReplicateTask ==
    \/ IterBegin \/ IterAdd \/ IterEnd
    \/ AddFeedKey \/ AddFeed
    \/ SubscribeStore \/ SubscribeReplicator
    \/ OnFeed \/ OnReplicatorEvent
    \/ DkeyNothing \/ DkeyOpens \/ DkeyDone

NetworkTask == NetSubscribe \/ NetEvent

Locking ==
    \/ \E f \in Feeds : LockFeed(f) \/ UnlockFeed(f) \/ HandshakeOpen(f)
    \/ HandshakeBegin \/ HandshakeEnd

Next ==
    \/ \E f \in Feeds : ClientOpens(f) \/ RemoteAsks(f)
    \/ ClientDone
    \/ ReplicateTask
    \/ NetworkTask
    \/ Locking

Spec == Init /\ [][Next]_vars

\* Every task is scheduled again when what it waits for is there.  The merged
\* stream of replicate_corestore polls both of its inputs.  Who holds a feed's
\* lock gives it back, and async-std's mutexes let nobody starve who waits.
FairSpec ==
    /\ Spec
    /\ WF_vars(ClientDone)
    /\ WF_vars(ReplicateTask)
    /\ WF_vars(OnFeed)
    /\ WF_vars(NetworkTask)
    /\ SF_vars(AddFeedKey)
    /\ SF_vars(AddFeed)
    /\ \A f \in Feeds : WF_vars(UnlockFeed(f)) /\ SF_vars(HandshakeOpen(f))
    /\ WF_vars(HandshakeEnd)

-----------------------------------------------------------------------------
(* Properties.                                                             *)

\* A feed is added to the replicator at most once: add_feed would replace its
\* PeeredFeed and forget the peers that replicate it (replicator lib.rs:57-64).
AddedOnce == \A f \in Feeds : adds[f] <= 1

\* A feed opened since replicate_corestore subscribed is never forgotten: it
\* is in the replicator, or being added, or its event is in the channel, also
\* while the lock is held for a full channel (emit, corestore.rs:169-173;
\* replicate.rs:36-38).
LateFeedsKept ==
    \A f \in late :
        f \in feeds \/ f = adding \/ \E i \in DOMAIN storeEvents : storeEvents[i] = f

\* The inductive invariant behind AddedOnce and LateFeedsKept: a feed is in
\* one place on its way from the corestore to the replicator.  It is still to
\* be iterated over, or its event is in the channel, or add_feed has it, or it
\* was added.
TaskInv ==
    /\ \A f \in Feeds : adds[f] = IF f \in feeds THEN 1 ELSE 0
    /\ feeds \subseteq opened
    /\ todo \subseteq opened \ feeds
    /\ storeSub \/ pc \in {"start", "subscribe"} => todo = {}
    /\ pc \in {"key", "insert"} <=> adding # None
    /\ adding # None => adding \in opened \ (feeds \cup todo)
    /\ pc = "start" => feeds = {}
    /\ pc \in {"start", "iter", "subscribe"} => ~storeSub
    /\ pc \in {"subscribe_rep", "loop", "dkey"} => storeSub
    /\ ~storeSub => storeEvents = <<>>
    /\ \A i \in DOMAIN storeEvents :
          storeEvents[i] \in opened \ (feeds \cup todo \cup {adding})
    /\ \A i, j \in DOMAIN storeEvents : storeEvents[i] = storeEvents[j] => i = j
    /\ LateFeedsKept

\* The same with the types, among them that only feeds on disk are open.
DaemonInv == TypeOK /\ TaskInv

\* A feed that is on its way to the replicator.
OnItsWay(f) == f \in late \ feeds \/ f \in todo \/ f = adding

\* A feed that network::run has announced or has still to be told of.
Due(f) ==
    \/ f \in announced
    \/ \E i \in DOMAIN netEvents : netEvents[i] = FeedEvent(f)
    \/ netSub /\ OnItsWay(f)

\* No step loses the announcement of a feed, on its way through two channels
\* and two tasks: the safety half of AddedFeedsAnnounced (add_feed, replicator
\* lib.rs:57-64; network.rs:22-30).
AnnouncementsKept == [][\A f \in Feeds : Due(f) => Due(f)']_vars

\* The one way the daemon hangs, which run daemon_full shows: the channel is
\* too full for the holder of the corestore's lock to go on, and the task that
\* drains it is inside get_by_dkey, which wants or has the lock.
Hung == pc = "dkey" /\ lock # "free" /\ ~Flushed

\* Every feed opened after replicate_corestore subscribed is added to the
\* replicator, whether a client or a remote peer had it opened, and however
\* full the channel is meanwhile, unless the daemon hangs in a lookup.
LateFeedsAdded == \A f \in Feeds : (f \in late) ~> (f \in feeds \/ Hung)

\* Every feed whose add_feed is still to come when network::run subscribes,
\* from the iteration or from an event, is announced, unless the daemon hangs
\* in a lookup.  Feeds added before that are not (network.rs:12).
AddedFeedsAnnounced ==
    \A f \in Feeds : (netSub /\ OnItsWay(f)) ~> (f \in announced \/ Hung)

\* The corestore's lock is released again, although a full channel, a feed's
\* lock and the replicator's keep its holders waiting (corestore.rs:171 under
\* :64, replicator lib.rs:58 and 61 under replicate.rs:12): a lookup with a
\* full channel is the only cycle of these tasks.
LockReleased == []<>(lock = "free" \/ Hung)

\* A feed on disk that a remote peer asks for is opened and added: "If it
\* exists, it will be added to the protocol through CorestoreEvent::Feed",
\* replicate.rs:31-33.
AskedFeedsAdded ==
    \A f \in Feeds :
        (pc = "dkey" /\ asked = f /\ f \in onDisk \ opened) ~> (f \in feeds)

\* "Replicate all feeds in a corestore with peers", replicate.rs:6: every feed
\* open in the corestore is added to the replicator.
EveryFeedAdded == \A f \in Feeds : (f \in opened) ~> (f \in feeds)
=============================================================================

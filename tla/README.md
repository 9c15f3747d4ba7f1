# hyperspace-rs in TLA+

A verification development for the crates `corestore`, `replicator`, `server`
and `client`: TLA+ modules translated from the source, TLC configurations for
small instances, and TLAPS proofs for all instances. `PROJECT.json` lists the
components, the runs, the lines every definition stands for, the hazards of the
code, the findings and the theorems.

## 1. The system

A daemon keeps hypercores (append-only logs, "feeds") on disk, lets clients use
them over a socket and replicates them with other daemons.

| part | state | operations | talks to |
|---|---|---|---|
| `corestore/feed_map.rs` | five maps: feeds by id, ids by key, discovery key and name, names by id | `get_key`, `get_dkey`, `get_name`, `insert` | the corestore |
| `corestore/corestore.rs` | files `master_key`, and `name` and `key` per feed; open feeds; event channels | `open`, `get_by_key/name/dkey`, `subscribe`, `feeds` | disk, hypercore, subscribers |
| `corestore/replicate.rs` | position in the task, two subscriptions | iterate, subscribe twice, event loop | corestore, replicator |
| `replicator/lib.rs` | feeds by discovery key, subscribers, one task per connection | `add_feed`, `add_stream`, `run_peer`, `subscribe` | hypercore-protocol, peers |
| `replicator/peer.rs` | one object per feed and connection: `remote_want`, statistics | `run`, `on_open/want/have/request/data`, feed events | hypercore, its channel |
| `server/lib.rs`, `network.rs` | tasks side by side; swarm configuration | `listen`, `network::run` | replicator, hyperswarm |
| `server/rpc` | a table of open cores per session | `open`, `get`, `append`, `notify_loop` | corestore, client |
| `client/session.rs`, `freemap.rs` | sessions by id and name; length and listeners per core | `open_by_key/name`, `append`, `get`, `seek`, `on_append`, `on_download` | server |
| `client/stream.rs` | position of a stream, futures under way | `poll_next`, `poll_read`, `poll_seek` | client session |

What makes it hard: requests that hold the corestore's lock while they wait for
room in an event channel; tasks that subscribe to something others are changing
already; keys and discovery keys that have the same type; files of which only
some are written when the process stops; two peers whose announcements, requests
and blocks cross, on connections that break and come back; client tasks that find
each other's half-made sessions; answers and notifications that overtake each
other; a lock that is kept while a notification waits for room in a listener's
channel; futures that are dropped half way.

## 2. Modules

| module | models | state and actions |
|---|---|---|
| `KeyDerivation` | `generate_key_pair`, `discovery_key` | keys as terms: equal exactly when their inputs are |
| `HashMap` | `HashMap::new`, `insert` | finite functions, used by the two map modules |
| `FeedMap` | `feed_map.rs` | the five maps; `Insert` |
| `Corestore` | `corestore.rs` | the three kinds of files, memory, subscribers; one action per step of `open_feed`, with `Crash` and `IoError` between the steps |
| `CorestoreInv` | - | the inductive invariants `StoreInv`, `EventsInv` |
| `Daemon` | `replicate.rs`, `server/lib.rs`, `network.rs`, the clients' opens | the corestore's lock and event channel, the two tasks, the replicator's events |
| `Replicator` | `replicator/lib.rs` | one connection of two sides: handshake, opens, channels, `add_feed` at any time |
| `Peer` | `peer.rs`, `append` of the server's session | a network of nodes that replicate one feed: message queues, feed events, lost connections |
| `FeedStore` | what callers of a corestore rely on | names, stored and open feeds, the last answer; no files, indexes or locks |
| `StoreRefinement` | - | `Corestore` as an implementation of `FeedStore` (`ImplementsFeedStore`) |
| `FeedReplication` | what the nodes of a network rely on | per node a length and the blocks it holds; no messages, connections or failures |
| `PeerRefinement` | - | `Peer` as an implementation of `FeedReplication` (`ImplementsReplication`), and what is on its way to a reader (`WayInv`) |
| `NamedMap` | `freemap.rs` | the client's sessions by id and by name; `InsertWithName`, `SetName` |
| `RemoteCorestore` | `open_by_key`, `open_by_name`, `open`, `append` of the client; `open`, `append` of the server's session | one process per calling task, the `InnerHypercore`s, the server's table of cores and its notify loops |
| `RemoteHypercore` | one feed as client and server share it: `open`, `append`, `get`, `notify_loop`, `on_append`, `on_download`, `emit` | the feed, loops and their notifications, the client's length, lock and listeners |
| `ReadStream` | `ReadStream` of `stream.rs` | what its future waits for, its index; `PollNext` |
| `ByteStream` | `ByteStream` of `stream.rs` | `State`, `seq`, `block_offset`; `poll_seek` and `poll_read` by the state they find, calls dropped at any await |
| `ClientStreams` | - | composes the two streams with `RemoteHypercore`; `StreamsInv` |
| `MC*` | - | the instances TLC checks |
| `*Proofs`, `ClientStreamsLemmas` | - | the theorems and lemmas |

How they fit together: `Daemon` uses the part of `Corestore` that its tasks see
(a lock that is held until the subscriber's channel has room, the feeds open and
on disk), and of `Peer` and the server's sessions that they lock feeds.
`Replicator` sums up what `Daemon` does with a discovery key in the action
`LookupAdds`. A `Peer` runs on each channel for which `Replicator` counts one in
`peers`. `RemoteCorestore` is about which feed a session, an id and a message
belong to; `RemoteHypercore` takes one session and is about the lengths, blocks
and events that pass through it, with `ReadStream` and `ByteStream` as its
users.

### Correspondence with the code

- *Locks.* A handler that keeps one lock from its first access to its last is
  one action. `open_feed` is split, because it can fail, or the process can stop,
  between its writes, and because subscribers run while `emit` waits. `add_feed` is
  split where it waits: for the feed's lock (`AddFeedKey`) and for the replicator's
  (`AddFeed`), which a handshake holds while it waits for feeds in turn
  (`HandshakeOpen`). `on_request` sends the Data (`OnRequest`) and counts it in a
  second step (`AddUploaded`), with the feed locked meanwhile.
- *Channels* (`futures::channel::mpsc`, external). `send` puts the event into the
  queue at once and then waits until the queue is back to its size (`Emit`,
  `Flush`). A receiver that is gone before the `send` makes it fail, which the
  `unwrap` turns into a panic (`EmitPanics`); one that goes away during the wait
  ends the wait.
- *Files.* A write happens or does not; a write that reports an error may have
  happened. Writes cut short in the middle are not modelled. The name file has
  length 0 until it is written, which is also what the empty name looks like.
- *Errors.* `RandomAccessDisk` may fail at every place where the code has a `?`.
  Where the code goes on after an error, so does the model: a key file that cannot
  be read is a feed that is not there (`corestore.rs:211`), and under the constant
  `ReadFails` an unreadable master key is replaced (`:153`) and a name whose length
  cannot be had is no name (`:300`).
- *hypercore* (external) is, per node, a length and a set of blocks. `put` of a
  block may raise the length to anything the proof covers. A node that does not
  hold a block may or may not have a proof for it, and the other side may or may
  not take a proof without a value (`Fails`).
- *hypercore-protocol* (external) reports a channel once both sides have opened
  the same discovery key, and the discovery key alone if only the remote has.
  Its channels are taken as unbounded and ordered until the connection is lost.
  Whether the `Open` message reaches the Peer's channel is left to the constant
  `OpenSeen`.
- *hrpc* (external) gives each request a task of its own on the server, and each
  notification one on the client. Requests, answers and notifications are
  therefore applied in any order, except that a `notify_loop` sends its next
  notification after the last one was handled. A request may fail, and so may a
  notification, which ends its loop (`NotifyFails`).
- *The client's lock* is a `parking_lot` lock, which `on_append` and `on_download`
  keep over the `await` of `emit`. `Handle` takes it and puts the event into every
  listener's channel; `Unlock` needs room in all of them. All that reads or writes
  `InnerHypercore` waits meanwhile, and keeps its thread of the executor: once as
  many tasks wait as there are `Threads`, the holder may never be polled again.
  `LockedUp` is that state, or the one where the lock is held for a stream that
  waits for it itself. `resource_id`, `byte_length` and `writable` of
  the client decide nothing and have no variable.
- *Sessions.* `insert_with_name`, `set_id` and `open` are separate steps, with the
  other tasks in between. A session has the id 0 before `set_id`.
- *Futures* may be dropped whenever they are pending (`DropCall`): a `ByteStream`
  keeps the future of its state, so that a later call goes on with it. A panic of
  an `unwrap`, `unreachable!()` or `unimplemented!()` (`SeekEnd`) is a state from which
  nothing more happens.
- *Seeks.* `SeekFrom::Current` counts from `byte_offset`, the place of the last seek,
  which reads do not advance, and wraps below 0 (`SeekTargets`, with `Word` for 2^64).
- `FeedMap::_remove` has no caller. `Peer::remote_ack` is never set, and several
  of its fields are written and never read; they have no variable.

## 3. Runs

### Passing

| run | instance | shows |
|---|---|---|
| `store_requests` | 2 master keys, 1 name, 1 foreign key, 1 invalid key, 2 subscribers, channels of 1; 135 405 states | one `Feed` object per key (`OneFeedPerKey`), indexes that agree, right answers, feeds of this store writable after any restart, files that never change (`FilesStable`), no event lost or doubled (`NoEventLost`), requests that end unless a subscriber leaves its full channel full for ever (`RequestsEnd`), the refinement of `FeedStore` (`ImplementsFeedStore`), and the inductive invariants |
| `peer_pair` | writer and reader, 3 blocks, 1 lost connection; 63 184 states | requests can be served and no peer fails (`RequestsServable`); when each append is announced before the next, what a connected reader misses is always on its way (`WayInv`) and it gets everything (`Converges`) |
| `peer_readers` | two readers with parts of the feed, the writer away and appending, 3 blocks, 1 lost connection; 121 401 states | where a node announces what it does not hold and peers fail, the statistics of both ends still agree once what was sent is counted (`StatsInv`), a Data still names what its sender has (`SpreadInv`), and the peers implement `FeedReplication` (`ImplementsReplication`) |
| `daemon_tasks` | 2 feeds, channel of 1, 1 lookup; 69 748 states | each feed is added once (`AddedOnce`); no feed opened after the subscription is forgotten (`LateFeedsKept`, part of `DaemonInv`), no step loses an announcement (`AnnouncementsKept`); those feeds are added (`LateFeedsAdded`), what is added after the network task subscribed is announced (`AddedFeedsAnnounced`), and the corestore's lock is released (`LockReleased`), all three unless a lookup meets the full channel (`Hung`, the state `daemon_full` is about) |
| `replicator_connections` | 2 sides, 1 feed, 2 connections; 2 726 states | at most one Peer per feed and side, and only on a channel both opened by its key (`PeersAgree`); feeds known before the handshake are on their way to a Peer (`EarlyInv`, part of `ReplicatorInv`) and get it (`EarlyFeedsReplicate`) |
| `client_opens` | 3 tasks, 1 name, 1 foreign key; 153 812 states up to symmetry | a call returns the feed it asked for (`ReturnsRightFeed`), notifications reach the feed they are about (`NotifiesRightFeed`), appends too unless the session was opened under the id 0 (`AppendsToRightFeed`), and `SessionsInv` |
| `client_streams` | 1 open, 1 append of up to 2 blocks, other appends and downloads, 1 stream or byte reader, blocks of 2 and 0 bytes, listener channels of 0, 2 threads; 162 295 states | the length is never too large, and right once a running loop has told everything (`KnownLength`, `QuietLength`); streams give all blocks known while they ran and stay below their end (`GivesAllKnown`; `StaysBelowEnd` is part of `StreamsInv`), end unless the feed grows for ever (`StreamsEnd`), and are woken by what is on its way, which no step loses unless the loop ends (`Woken`, `WakeUpsKept`); bytes come in order through dropped calls (`ReadsInPlace`), and calls return (`CallsReturn`); listeners' channels stay bounded (`ListenersBounded`, part of `StreamsInv`). The liveness properties claim nothing once the client is `LockedUp` |

The inductive invariants `StoreInv`, `DaemonInv`, `ReplicatorInv`, `StatsInv`,
`SessionsInv` and `StreamsInv` contain the type invariant of their module.

### Violations: what the code does and its comments deny

| run | what happens |
|---|---|
| `store_master_key` | a master key file that cannot be read once is overwritten; names on disk then derive other keys, and a request by key gets another feed |
| `peer_batch` | for each `Append` event the *current* last block is announced, so the first blocks of a batch are never replicated on the connection |
| `daemon_missed` | a feed opened between the iteration and `subscribe` is never added to the replicator |
| `daemon_full` | the only task that drains the corestore's channel waits for room in it (its own `get_by_dkey`), or for the lock of a client that does |
| `replicator_late` | the event for a new feed carries a discovery key, which `run_peer` opens as if it were a public key: the feed is not replicated before the next connection |

Three more disagreements are in the models and not runs of their own; the
hazards name their lines. `get_by_name("")` makes a feed that is read-only when
it is opened by key after a restart (excluded by `SoundStorage`). `emit` panics at
a subscriber that is gone (`EmitPanics`), and `NoEventLost` claims nothing after
that. A client's stream that waits for the lock while its own full channel keeps
the lock taken is stuck for good, and so are all tasks once every thread waits
(`LockedUp`): the liveness properties of `client_streams` except these states.

### Bounds

The identity of a key, name or feed matters only where two of them can be
confused: one derived, one foreign and one invalid key, and two subscribers (one
that goes away in front of one that stays), give all the cases of `open_feed` and
`emit`. A second master key is there so that a lost one could be noticed. A
channel of size 1 is full after two feeds, in `Corestore` and in `Daemon` (the
code's is 100). `Peer` has a feed of
3 blocks, so that there are a first, a last and one that is neither, and readers
start with any part of it; the Want covers the whole
feed, as 1024 * 1024 blocks do in practice. The feeds of a connection do not
influence each other, so `Replicator` has one; the proofs cover any number.
In `RemoteCorestore` two tasks race for one session and a third for another one
that may get mixed up with it; a name and its key are two ways to the same feed.
In `ClientStreams` a listener's channel of size 0 is full with its first event
(the code's 100 only takes longer), the blocks include an empty one and one that
is read in two parts, and a stream has no end or one before that of the feed.
Seeks go to one place from the start and one step back, which from the start wraps
to a place past the feed. With two threads the client runs out of them, or not,
within the run. The run has one notify loop and one reader; the proofs of
`StreamsInv`, `QuietLength` and `WakeUpsKept` cover any number of loops, appenders,
readers and blocks, any sizes and ends. That readers contend for the lock is
therefore proved about, but the liveness properties are checked for one reader.
`MaxLen`, `MaxBatch`, `MaxDrops`, `MaxAsks` and `MaxConns` are bounds of the
models and stand in the guards.

Deadlock is checked for the store. The other systems come to rest when the
bounded inputs are used up, so it is not checked there; liveness properties say
what must have happened by then.

### Fairness

- `Corestore`: the task that holds the lock keeps running (an executor polls a
  woken task). Nothing forces requests, opens, or a subscriber to read its channel:
  the loop of `replicate_corestore` does not while it waits for the lock itself.
- `Daemon`: each task is scheduled when it can go on. The merged stream of
  `replicate_corestore` polls both inputs in turn, hence fairness of `OnFeed` on
  its own. The locks of async-std queue their waiters, hence strong fairness for a
  task that waits for one which others take again and again. Who holds a feed's lock
  gives it back, which for a peer depends on hypercore-protocol's channels (a hazard
  with a note).
- `Peer`: `select` in `run` yields messages and feed events alike, hence fairness
  of `OnFeedEvent` on its own. A lost connection is made again, which the swarm
  does; nothing forces it to break or the writer to append.
- `ClientStreams`: the server answers or fails requests, hrpc delivers, the tasks
  of the client that handle answers and notifications run when the lock lets them,
  and a stream's consumer keeps polling. Nobody is forced to open, append, download,
  read or seek, and a dropped call need not be repeated. A task that waits for the
  lock blocks its thread, so this fairness is only granted until `LockedUp`.
- `Replicator`: the connection's task keeps polling and the corestore answers
  lookups. No connection is forced to end.

## 4. Proofs

Each module `X` has its theorems in `XProofs`; those of `StoreRefinement` are at
the end of `CorestoreProofs`, and the steps of the core that
`ClientStreamsProofs` rests on are in `ClientStreamsLemmas`. All follow one
pattern: an inductive invariant, checked with TLC first, one lemma per action, and
a temporal step at the end.

- `CorestoreProofs`. Assumption `SoundStorage`: callers do not use the empty name
  (`corestore.rs:301` takes it for no name), an existing master key file can be
  read (`corestore.rs:153` would replace it; the run `store_master_key` shows what
  follows), and the length of a name file can be had (`corestore.rs:300`). That the
  master key is never replaced is thus assumed of the disk, not shown. The
  properties alone are not inductive: that a feed opened by key is the one asked
  for depends on the name file, whose content must derive the key of its
  directory (`DiskSound`), which depends on the master key in memory being that
  on disk (`MemorySound`) and on what the request under way will write
  (`OperationSound`). The central fact is an order of writes: the name of a feed
  of this store is on disk before its key is in a file or known to a caller.
  From `StoreInv` follow `OneFeedPerKey`, `IndexesAgree`, `RequestHonoured`,
  `NamedFeedsWritable` and `FilesStable`. `EventsInv` adds that `emit` is sending
  the feed with the highest id, which gives `NoEventLost` for every channel size
  and number of subscribers.
  The refinement (`Refinement`): under `SoundStorage` too, each step of `Corestore` is a
  step of `FeedStore` or leaves its variables alone: the build of a feed is
  `OpenFeed`, an answer is `Give`, `Deny` or `Fail`, a crash is `Restart`. `StoreInv`
  is needed to see that a feed that is built was not open, and that the feed given
  is the one asked for. `Deny` answers only a lookup by discovery key, and never for
  an open feed; for a stored one it may, because a read error is answered so.
- `DaemonProofs`. No assumption. `DaemonInv`: a feed on its way to the replicator
  is in exactly one place (still to be iterated over, in the channel, being added, or
  added).
  `AddedOnce` and `LateFeedsKept` follow. `AnnouncementsKept`, an action property,
  follows an announcement from the corestore's event to the network task's: `add_feed`
  puts the second in the channel in the step that inserts the feed, and until then
  the feed is the one being added.
- `PeerProofs`. `PeerInv` assumes `StarTopology`, that each connection has the
  writer at one end: only written blocks are announced, only the writer is asked
  for them, and no reader is ahead of the writer. `RequestsServable` follows for
  any number of readers, any batches and any lost connections. Without the
  assumption it is false: a reader announces its last block without looking
  whether it holds it (`peer.rs:237`). `StatsInv` holds in any network, where peers
  may fail: a connection is closed at both ends with nothing on the way, so that
  new counters meet an empty channel. Lemmas on the number of `Data` messages in a
  queue (one more when one is sent, one less when one is taken) give `StatsAgree`,
  that what one end has sent (counted as uploaded, or about to be) the other has
  downloaded or has still to receive.
- `PeerRefinementProofs`, first part, for any network and with peers that fail:
  each step of `Peer` is a step of `FeedReplication` or leaves lengths and blocks
  alone. `OnData` is `Copy` or `Hear`, and the one hard fact is that what a Data
  names its sender still has when the Data arrives (`SpreadInv`), although its length
  and blocks have changed since. So blocks spread only along connections and
  from nodes that hold them, and none is ever lost.
- `PeerRefinementProofs`, second part, assumes `StarTopology`, `Spaced` (an append
  waits until the one before has been announced) and `MaxBatch <= 1`. `WayInv`: each
  block a connected reader misses is asked for by a Want, announced, requested, sent,
  or the last block with its Append event still to be handled. The proof follows a
  block from one of these forms to the next, handler by handler; it needs `PeerInv`
  (a request reaches a node that can serve it), `StatsInv` (a new connection starts
  empty) and that the writer's end subscribes to the feed before it answers the
  Want. Hence `SilentIsComplete`: a reader whose connection has fallen silent holds
  all that is written. This is the safety half of `Converges`; that connections do
  fall silent is left to TLC. The last two assumptions are needed: of a batch
  only the last block is announced (the run `peer_batch`), and so it is when a second
  append comes before the event of the first is handled (`peer.rs:136`). Both results
  are about the blocks in the range of the one Want the code sends.
- `ReplicatorProofs`. Two sides, any feeds. `ReplicatorInv`: an Open is on the
  way or known, never both (`ConnectionsInv`), and a channel is reported only once,
  so `PeersAgree`. `EarlyInv` is the converse: no Open is lost, and a feed that was
  there before the handshake is open and, once both sides have it open, has its
  Channel event or its Peer. `SettledReplicates` follows: a connection with nothing
  under way replicates those feeds. It needs `ConnectionsInv`, by which a channel that
  is handled has no Peer yet.
- `RemoteCorestoreProofs`. No assumption but that names, keys and `None` differ.
  `SessionsInv`: ids are consecutive and each belongs to one session
  (`SessionsSound`); a session has no id or its own, and the key or name its creator
  asked for (`CoresSound`); what a task has sent or received is about the feed it
  asked for (`TasksSound`); the server's ids except 0 are those of the sessions
  (`ServerSound`). The id 0 is the hard part: several feeds may be opened as 0 by
  tasks that overtook others, so everything about it is excepted, and the proof
  shows that nothing else is touched by it.
- `ClientStreamsProofs`. No assumption on the order of answers. `StreamsInv`: no
  length on its way is above the feed's (`LengthsSound`); the last notification
  of a running loop tells the length of a writable feed (`LoopsSound`); a
  channel is above its size only while the lock is held (`ListenersSound`); a
  stream's get is for the block it is at (`StreamSound`), a byte reader's offset
  is inside its block (`ByteSound`). `GivesAllKnown` needs `least`, the smallest
  length the client has believed since the stream began, because the length may
  be set back. `WakeUpsKept` is an action property: what wakes a stream is an
  event of the feed, then a notification, then an event in the channel, and each
  step that ends one form makes the next, except the one that ends a loop. It
  needs that a stream that waits is among the listeners, and that the lock is
  held only for a notification that is in the channels already.

Only model-checked: the liveness properties (`RequestsEnd`, `Converges`,
`LateFeedsAdded`, `AddedFeedsAnnounced`, `LockReleased`, `EarlyFeedsReplicate`,
`StreamsEnd`, `Woken`, `CallsReturn`), which are out of the prover's reach. For five of
them the safety half is proved, which says that the thing waited for is not lost:
`LateFeedsKept` (`LateFeedsAdded`), `AnnouncementsKept` (`AddedFeedsAnnounced`), `WayInv`
and `SilentIsComplete` (`Converges`), `EarlyInv` and `SettledReplicates`
(`EarlyFeedsReplicate`), `WakeUpsKept` (`Woken`). What is left to TLC is that the steps
on the way are taken.

## 5. Not modelled

- Errors of hyperswarm, and the first failing task ending the others
  (`server/lib.rs`).
- The capacity of hypercore-protocol's command and message channels: the
  hazards that depend on it are listed with a note.
- `Replicator::stats` and `join_all`, which only read and wait.
- Feeds that are on disk and not open at startup are not iterated over
  (`Daemon`'s `Init`); they are opened on request, which is modelled.
- A consumer that drops a `ReadStream` before its end.
- The methods of the server's session that only answer (`Network`).
- Generated RPC code, sockets, option parsing and the command line programs.
- `Daemon` and `Replicator` are not composed: `LookupAdds` of `Replicator` stands
  for the lookup that `Daemon` models step by step.

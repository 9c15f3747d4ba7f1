-------------------------------- MODULE Peer --------------------------------
(***************************************************************************)
(* replicator/src/peer.rs: the replication of one feed between nodes.      *)
(*                                                                         *)
(* A peer <<n, m>> is the Peer object that node n runs for its channel to  *)
(* node m.  Channels are reliable and ordered until the connection is      *)
(* lost, when both ends and all that was in flight go away.  A handler     *)
(* holds the lock of the feed from its first look at it to its end, so     *)
(* each is one action.  The exception is on_request: when it waits for the *)
(* lock of the statistics its Data is on the way already, and the feed is  *)
(* still locked.  The feed itself (hypercore) is external: it is the set   *)
(* of blocks a node holds and its length.  A length comes with a proof, so *)
(* a node may know a length without holding all the blocks below it.       *)
(***************************************************************************)
EXTENDS Naturals, Sequences, FiniteSets

CONSTANTS
    Nodes,
    Writer,    \* the node with the secret key
    Links,     \* the pairs of nodes that are connected, in both directions
    MaxLen,    \* bound: blocks the feed may reach
    MaxBatch,  \* blocks one append request may carry
    Spaced,    \* TRUE: an append waits until the one before was announced
    OpenSeen,  \* TRUE: a channel passes the Open that opened it on to its peer
    WantLen,   \* blocks a Want asks about (1024 * 1024 in send_wants)
    MaxDrops   \* bound: lost connections

ASSUME PeerAssumption ==
    /\ Writer \in Nodes
    /\ Links \subseteq (Nodes \X Nodes)
    /\ \A l \in Links : l[1] # l[2] /\ <<l[2], l[1]>> \in Links
    /\ {MaxLen, MaxBatch, WantLen, MaxDrops} \subseteq Nat
    /\ {Spaced, OpenSeen} \subseteq BOOLEAN

VARIABLES
    len,          \* node -> feed.len()
    has,          \* node -> indexes of the blocks it holds
    status,       \* peer -> "init", "running", "dead" (run() failed), "closed"
    remote_want,  \* peer -> Peer::remote_want
    inbox,        \* peer -> messages on the way to it or not yet handled
    events,       \* peer -> events of its node's feed not yet handled
    counting,     \* peers whose on_request has sent its Data, not counted yet
    uploaded,     \* peer -> Stats::uploaded_blocks
    downloaded,   \* peer -> Stats::downloaded_blocks
    drops         \* connections lost so far

vars == <<len, has, status, remote_want, inbox, events, counting, uploaded,
          downloaded, drops>>

Indexes == 0 .. MaxLen - 1

Peers == Links

Other(p) == <<p[2], p[1]>>

Open == [type |-> "open"]
Want == [type |-> "want"]
Have(i) == [type |-> "have", start |-> i]
Bits(S) == [type |-> "bits", set |-> S]
Request(i) == [type |-> "request", index |-> i]
\* A block (or, if full is FALSE, no value) with the proof that fixes the
\* length of the sender's feed.
Data(i, full, l) == [type |-> "data", index |-> i, full |-> full, len |-> l]

Messages ==
    {Open, Want} \cup {Have(i) : i \in Indexes} \cup {Bits(S) : S \in SUBSET Indexes}
        \cup {Request(i) : i \in Indexes}
        \cup {Data(b[1], b[2], b[3]) : b \in Indexes \X BOOLEAN \X (0 .. MaxLen)}

Appended == [type |-> "append"]
Download(i) == [type |-> "download", index |-> i]

FeedEvents == {Appended} \cup {Download(i) : i \in Indexes}

TypeOK ==
    /\ len \in [Nodes -> 0 .. MaxLen]
    /\ has \in [Nodes -> SUBSET Indexes]
    /\ status \in [Peers -> {"init", "running", "dead", "closed"}]
    /\ remote_want \in [Peers -> BOOLEAN]
    /\ inbox \in [Peers -> Seq(Messages)]
    /\ events \in [Peers -> Seq(FeedEvents)]
    /\ counting \in SUBSET Peers
    /\ uploaded \in [Peers -> Nat]
    /\ downloaded \in [Peers -> Nat]
    /\ drops \in 0 .. MaxDrops

\* The channels are open on both sides.  The writer may have a feed of any
\* length already, and the others what they got over earlier connections:
\* any of its blocks, and a length some proof came with.
Init ==
    /\ len \in [Nodes -> 0 .. MaxLen]
    /\ \A n \in Nodes : len[n] <= len[Writer]
    /\ has \in [Nodes -> SUBSET Indexes]
    /\ \A n \in Nodes : has[n] \subseteq 0 .. len[n] - 1
    /\ has[Writer] = 0 .. len[Writer] - 1
    /\ status = [p \in Peers |-> "init"]
    /\ remote_want = [p \in Peers |-> FALSE]
    /\ inbox = [p \in Peers |-> IF OpenSeen THEN <<Open>> ELSE <<>>]
    /\ events = [p \in Peers |-> <<>>]
    /\ counting = {}
    /\ uploaded = [p \in Peers |-> 0]
    /\ downloaded = [p \in Peers |-> 0]
    /\ drops = 0

-----------------------------------------------------------------------------
(* Messages and events.                                                    *)

\* Peer p sends the messages out.
Send(p, out) == inbox' = [inbox EXCEPT ![Other(p)] = @ \o out]

\* Peer p takes its next message and sends the messages out.
Handle(p, out) ==
    inbox' = [inbox EXCEPT ![p] = Tail(@), ![Other(p)] = @ \o out]

\* Peer p waits for an event in run().
Waits(p) == status[p] = "running" /\ p \notin counting

\* ... and its next message has the given type.
Gets(p, type) == Waits(p) /\ inbox[p] # <<>> /\ Head(inbox[p]).type = type

\* The feed of node n is locked by an on_request that has not ended.
Locked(n) == \E q \in counting : q[1] = n

\* Feed::subscribe: the running peers of node n get the events evs.
Notify(n, evs) ==
    events' = [p \in Peers |-> IF p[1] = n /\ status[p] = "running"
                               THEN events[p] \o evs ELSE events[p]]

\* The members of S in ascending order, as the one element of a set.
Ascending(S) ==
    {s \in [1 .. Cardinality(S) -> S] : \A i, j \in DOMAIN s : i < j => s[i] < s[j]}

Requests(s) == [i \in DOMAIN s |-> Request(s[i])]

-----------------------------------------------------------------------------
(* The writer appends: one Append event for each block of the batch, all   *)
(* of them emitted while the feed is locked (server session's append).     *)

Announced ==
    \A p \in Peers : p[1] = Writer => \A i \in DOMAIN events[p] : events[p][i] # Appended

AppendBlocks(k) ==
    LET l == len[Writer] + k IN
    /\ l <= MaxLen
    /\ ~Locked(Writer)
    /\ Spaced => Announced
    /\ len' = [len EXCEPT ![Writer] = l]
    /\ has' = [has EXCEPT ![Writer] = 0 .. l - 1]
    /\ Notify(Writer, [i \in 1 .. k |-> Appended])
    /\ UNCHANGED <<status, remote_want, inbox, counting, uploaded, downloaded,
                   drops>>

-----------------------------------------------------------------------------
(* run() and its handlers.                                                 *)

\* run: subscribe to the feed, then on_open.
Start(p) ==
    /\ status[p] = "init"
    /\ ~Locked(p[1])
    /\ status' = [status EXCEPT ![p] = "running"]
    /\ Send(p, <<Want>>)
    /\ UNCHANGED <<len, has, remote_want, events, counting, uploaded,
                   downloaded, drops>>

OnOpen(p) ==
    /\ Gets(p, "open")
    /\ Handle(p, <<Want>>)
    /\ UNCHANGED <<len, has, status, remote_want, events, counting, uploaded,
                   downloaded, drops>>

\* Mutant of OnWant: the length is announced, not the index of the last block.
OnWantPastEnd(p) ==
    LET n == p[1]
        last == IF ~remote_want[p] /\ len[n] > 0 THEN <<Have(len[n])>> ELSE <<>>
    IN
    /\ Gets(p, "want")
    /\ ~Locked(p[1])
    /\ Handle(p, last \o <<Bits(has[n] \cap 0 .. WantLen - 1)>>)
    /\ remote_want' = [remote_want EXCEPT ![p] = TRUE]
    /\ UNCHANGED <<len, has, status, events, counting, uploaded, downloaded,
                   drops>>

\* on_want: the last block first, unless a Want was answered before, then
\* the bitfield of the range that was asked about.
OnWant(p) ==
    LET n == p[1]
        last == IF ~remote_want[p] /\ len[n] > 0 THEN <<Have(len[n] - 1)>> ELSE <<>>
    IN
    /\ Gets(p, "want")
    /\ ~Locked(p[1])
    /\ Handle(p, last \o <<Bits(has[n] \cap 0 .. WantLen - 1)>>)
    /\ remote_want' = [remote_want EXCEPT ![p] = TRUE]
    /\ UNCHANGED <<len, has, status, events, counting, uploaded, downloaded,
                   drops>>

\* on_have: requests for what is announced and not held.
OnHave(p) ==
    /\ \/ /\ Gets(p, "have")
          /\ \E s \in Ascending({Head(inbox[p]).start} \ has[p[1]]) :
                Handle(p, Requests(s))
       \/ /\ Gets(p, "bits")
          /\ \E s \in Ascending(Head(inbox[p]).set \ has[p[1]]) :
                Handle(p, Requests(s))
    /\ ~Locked(p[1])
    /\ UNCHANGED <<len, has, status, remote_want, events, counting, uploaded,
                   downloaded, drops>>

\* Mutant of OnRequest: the reply carries the block, held or not.
OnRequestAlwaysFull(p) ==
    LET n == p[1]
        i == Head(inbox[p]).index IN
    /\ Gets(p, "request")
    /\ ~Locked(p[1])
    /\ Handle(p, <<Data(i, TRUE, len[n])>>)
    /\ counting' = counting \cup {p}
    /\ UNCHANGED <<len, has, status, remote_want, events, uploaded,
                   downloaded, drops>>

\* on_request up to the statistics: the block, or a Data without value if the
\* node does not hold it.
OnRequest(p) ==
    LET n == p[1]
        i == Head(inbox[p]).index IN
    /\ Gets(p, "request")
    /\ ~Locked(p[1])
    /\ Handle(p, <<Data(i, i \in has[n], len[n])>>)
    /\ counting' = counting \cup {p}
    /\ UNCHANGED <<len, has, status, remote_want, events, uploaded,
                   downloaded, drops>>

\* The rest of on_request: the statistics are free, the upload is counted and
\* the feed unlocked.
AddUploaded(p) ==
    /\ p \in counting
    /\ counting' = counting \ {p}
    /\ uploaded' = [uploaded EXCEPT ![p] = @ + 1]
    /\ UNCHANGED <<len, has, status, remote_want, inbox, events, downloaded,
                   drops>>

\* Mutant of OnData: a block that was held already is not counted.
OnDataCountsNew(p) ==
    LET n == p[1]
        d == Head(inbox[p]) IN
    /\ Gets(p, "data")
    /\ ~Locked(p[1])
    /\ Handle(p, <<>>)
    /\ has' = [has EXCEPT ![n] = IF d.full THEN @ \cup {d.index} ELSE @]
    /\ \E l \in (d.index + 1) .. d.len :
          len' = [len EXCEPT ![n] = IF l > @ THEN l ELSE @]
    /\ \/ d.full /\ Notify(n, <<Download(d.index)>>)
       \/ (~d.full \/ d.index \in has[n]) /\ UNCHANGED events
    /\ downloaded' = IF d.index \in has[n] THEN downloaded
                     ELSE [downloaded EXCEPT ![p] = @ + 1]
    /\ UNCHANGED <<status, remote_want, counting, uploaded, drops>>

\* on_data: put stores the block, the length may grow up to the one the
\* proof fixes, and each of the node's peers learns of a new block.
OnData(p) ==
    LET n == p[1]
        d == Head(inbox[p]) IN
    /\ Gets(p, "data")
    /\ ~Locked(p[1])
    /\ Handle(p, <<>>)
    /\ has' = [has EXCEPT ![n] = IF d.full THEN @ \cup {d.index} ELSE @]
    /\ \E l \in (d.index + 1) .. d.len :
          len' = [len EXCEPT ![n] = IF l > @ THEN l ELSE @]
    /\ \/ /\ d.full
          /\ Notify(n, <<Download(d.index)>>)
       \/ /\ ~d.full \/ d.index \in has[n]
          /\ UNCHANGED events
    /\ downloaded' = [downloaded EXCEPT ![p] = @ + 1]
    /\ UNCHANGED <<status, remote_want, counting, uploaded, drops>>

\* A block that is not held may have no proof either, and a proof without a
\* value may be refused: the `?' ends run() and the peer is gone.
Fails(p) ==
    /\ \/ Gets(p, "request") /\ Head(inbox[p]).index \notin has[p[1]]
       \/ Gets(p, "data") /\ ~Head(inbox[p]).full
    /\ ~Locked(p[1])
    /\ Handle(p, <<>>)
    /\ status' = [status EXCEPT ![p] = "dead"]
    /\ events' = [events EXCEPT ![p] = <<>>]
    /\ UNCHANGED <<len, has, remote_want, counting, uploaded, downloaded,
                   drops>>

\* Mutant of OnFeedEvent: the length is announced after an append.
OnFeedEventPastEnd(p) ==
    /\ Waits(p)
    /\ events[p] # <<>>
    /\ LET e == Head(events[p]) IN
         \/ e.type = "download" /\ Send(p, <<Have(e.index)>>)
         \/ e.type = "append" /\ ~Locked(p[1]) /\ Send(p, <<Have(len[p[1]])>>)
    /\ events' = [events EXCEPT ![p] = Tail(@)]
    /\ UNCHANGED <<len, has, status, remote_want, counting, uploaded,
                   downloaded, drops>>

\* Mutant of OnFeedEvent: an append is not announced.
OnFeedEventDownloadsOnly(p) ==
    /\ Waits(p)
    /\ events[p] # <<>>
    /\ LET e == Head(events[p]) IN
         \/ e.type = "download" /\ Send(p, <<Have(e.index)>>)
         \/ e.type = "append" /\ ~Locked(p[1]) /\ UNCHANGED inbox
    /\ events' = [events EXCEPT ![p] = Tail(@)]
    /\ UNCHANGED <<len, has, status, remote_want, counting, uploaded,
                   downloaded, drops>>

\* The arm Event::Feed: a block that was downloaded is announced, and after
\* an append the block that is the last one by now.
OnFeedEvent(p) ==
    /\ Waits(p)
    /\ events[p] # <<>>
    /\ LET e == Head(events[p]) IN
         \/ e.type = "download" /\ Send(p, <<Have(e.index)>>)
         \/ e.type = "append" /\ ~Locked(p[1]) /\ Send(p, <<Have(len[p[1]] - 1)>>)
    /\ events' = [events EXCEPT ![p] = Tail(@)]
    /\ UNCHANGED <<len, has, status, remote_want, counting, uploaded,
                   downloaded, drops>>

-----------------------------------------------------------------------------
(* Connections.  Replicator::add_stream makes new Peer objects for a new   *)
(* connection.                                                             *)

Ends(p) == {p, Other(p)}

\* An upload not counted yet goes to the statistics of the old connection.
Disconnect(p) ==
    /\ status[p] # "closed"
    /\ drops < MaxDrops
    /\ drops' = drops + 1
    /\ status' = [q \in Peers |-> IF q \in Ends(p) THEN "closed" ELSE status[q]]
    /\ inbox' = [q \in Peers |-> IF q \in Ends(p) THEN <<>> ELSE inbox[q]]
    /\ events' = [q \in Peers |-> IF q \in Ends(p) THEN <<>> ELSE events[q]]
    /\ counting' = counting \ Ends(p)
    /\ UNCHANGED <<len, has, remote_want, uploaded, downloaded>>

\* Peer::new and add_peer, on both sides.
Reconnect(p) ==
    /\ status[p] = "closed"
    /\ status' = [q \in Peers |-> IF q \in Ends(p) THEN "init" ELSE status[q]]
    /\ remote_want' = [q \in Peers |-> q \notin Ends(p) /\ remote_want[q]]
    /\ uploaded' = [q \in Peers |-> IF q \in Ends(p) THEN 0 ELSE uploaded[q]]
    /\ downloaded' = [q \in Peers |-> IF q \in Ends(p) THEN 0 ELSE downloaded[q]]
    /\ inbox' = [q \in Peers |-> IF q \in Ends(p) /\ OpenSeen THEN <<Open>>
                                 ELSE inbox[q]]
    /\ UNCHANGED <<len, has, events, counting, drops>>

-----------------------------------------------------------------------------
Run(p) ==
    \/ Start(p)
    \/ OnOpen(p)
    \/ OnWant(p)
    \/ OnHave(p)
    \/ OnRequest(p)
    \/ AddUploaded(p)
    \/ OnData(p)
    \/ Fails(p)
    \/ OnFeedEvent(p)

Next ==
    \/ \E k \in 1 .. MaxBatch : AppendBlocks(k)
    \/ \E p \in Peers : Run(p) \/ Disconnect(p) \/ Reconnect(p)

Spec == Init /\ [][Next]_vars

\* Every peer's task keeps running: events.next() yields messages and feed
\* events alike, so neither kind waits for ever.  A lost connection is made
\* again.
FairSpec ==
    /\ Spec
    /\ \A p \in Peers :
          /\ WF_vars(Run(p))
          /\ WF_vars(OnFeedEvent(p))
          /\ WF_vars(Reconnect(p))

-----------------------------------------------------------------------------
(* Properties.                                                             *)

\* A block is only ever requested from a node that holds it, so that the
\* value and the proof exist and no run() ends with an error: what a peer
\* announces (on_want, send_have) and is asked for (on_have) it can serve
\* (on_request, peer.rs:304-331).
RequestsServable ==
    \A p \in Peers :
        /\ status[p] # "dead"
        /\ \A i \in DOMAIN inbox[p] :
              inbox[p][i].type = "request" => inbox[p][i].index \in has[p[1]]

InFlight(p) == Cardinality({i \in DOMAIN inbox[p] : inbox[p][i].type = "data"})

\* The Data peer p has sent: those counted, and one that is about to be.
Sent(p) == uploaded[p] + (IF p \in counting THEN 1 ELSE 0)

\* The statistics of the two ends agree, but for one block: what one end has
\* sent, counted or about to be counted (on_request counts after it has sent,
\* peer.rs:324-328), the other has counted as downloaded or has still to
\* receive (on_data).  Through duplicates, lost connections and resets.
StatsAgree ==
    \A p \in Peers : (\A q \in Ends(p) : status[q] \in {"init", "running"}) =>
        Sent(p) = downloaded[Other(p)] + InFlight(Other(p))

\* Only the writer's own peers hear of appends, and only of ones that happened.
FeedEventsOf(p) ==
    {Download(i) : i \in Indexes}
        \cup (IF p[1] = Writer /\ len[Writer] > 0 THEN {Appended} ELSE {})

ClosedIsEmpty ==
    \A p \in Peers : status[p] = "closed" =>
        status[Other(p)] = "closed" /\ inbox[p] = <<>> /\ p \notin counting

\* The inductive invariant behind StatsAgree, for any network: a connection is
\* closed at both ends with nothing left on the way or to be counted, so that
\* the counters Peer::new sets to zero meet an empty channel.
StatsInv ==
    /\ TypeOK
    /\ \A p \in Peers : events[p] \in Seq(FeedEventsOf(p))
    /\ ClosedIsEmpty
    /\ StatsAgree

\* Every connection has the writer at one of its ends.
StarTopology == \A l \in Links : Writer \in {l[1], l[2]}

Written == 0 .. len[Writer] - 1

\* What can be in the inbox of peer p in a star: only written blocks are
\* announced, only the writer is asked for them, and it sends them.
SoundMessages(p) ==
    {Open, Want} \cup {Have(i) : i \in Written} \cup {Bits(S) : S \in SUBSET Written}
        \cup {Request(i) : i \in IF p[1] = Writer THEN Written ELSE {}}
        \cup {Data(b[1], TRUE, b[2]) : b \in Written \X (0 .. len[Writer])}

SoundEvents(p) ==
    {Download(i) : i \in Written}
        \cup (IF p[1] = Writer /\ len[Writer] > 0 THEN {Appended} ELSE {})

\* The inductive invariant behind RequestsServable, for star topologies: a
\* reader is never ahead of the writer, and all that is on the way is sound.
PeerInv ==
    /\ len \in [Nodes -> 0 .. MaxLen]
    /\ has \in [Nodes -> SUBSET Written]
    /\ has[Writer] = Written
    /\ \A n \in Nodes : len[n] <= len[Writer]
    /\ status \in [Peers -> {"init", "running", "closed"}]
    /\ remote_want \in [Peers -> BOOLEAN]
    /\ inbox = [p \in Peers |-> inbox[p]]
    /\ events = [p \in Peers |-> events[p]]
    /\ \A p \in Peers : inbox[p] \in Seq(SoundMessages(p))
    /\ \A p \in Peers : events[p] \in Seq(SoundEvents(p))
    /\ counting \in SUBSET Peers
    /\ uploaded \in [Peers -> Nat]
    /\ downloaded \in [Peers -> Nat]
    /\ drops \in 0 .. MaxDrops

\* Once the writer stops appending, every node ends up with all its blocks,
\* whatever the order of messages and events and the connections lost.
\* ("Replicate a set of hypercores over a set of connections", lib.rs:1)
Converges == <>[](\A n \in Nodes : has[n] = has[Writer])
=============================================================================

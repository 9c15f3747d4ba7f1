----------------------------- MODULE Replicator -----------------------------
(***************************************************************************)
(* replicator/src/lib.rs: one connection between the replicators of two    *)
(* sides, from the handshake to the channels on which Peer objects run.    *)
(*                                                                         *)
(* The protocol (hypercore-protocol) is external: a side opens a key, the  *)
(* other side is told its discovery key, and once both have opened the     *)
(* same key each gets a Channel event; a side that is told of a discovery  *)
(* key it has not opened gets a DiscoveryKey event.  What the corestore    *)
(* does with that event is the subject of module Daemon; here it opens the *)
(* feed if it is on disk and adds it to the replicator.                    *)
(***************************************************************************)
EXTENDS Naturals, FiniteSets

CONSTANTS
    Sides,    \* the two ends of the connection
    Feeds,    \* the public keys of feeds
    MaxConns  \* bound: connections made one after the other

ASSUME ReplicatorAssumption ==
    /\ \E s, t \in Sides : s # t /\ Sides = {s, t}
    /\ MaxConns \in Nat

VARIABLES
    feeds,      \* side -> keys of the feeds in Replicator::feeds
    onDisk,     \* side -> keys of feeds its corestore could open
    conns,      \* connections made so far
    status,     \* side -> "new", "subscribed", "handshaken" (remote_public_key)
    events,     \* side -> discovery keys of ReplicatorEvent::Feed to handle
    channels,   \* side -> channels of ProtocolEvent::Channel to handle
    dkeys,      \* side -> keys of ProtocolEvent::DiscoveryKey to handle
    lookups,    \* side -> discovery keys its corestore is to look up
    opens,      \* side -> channels opened by this side
    wire,       \* side -> channels opened by the other side, on the way here
    remote,     \* side -> channels this side knows the other side opened
    peers,      \* side -> channel -> Peer objects that add_peer has started
    early       \* side -> feeds added before its handshake (history)

connVars == <<conns, status, opens, wire, remote, early>>
vars == <<feeds, onDisk, connVars, events, channels, dkeys, lookups, peers>>

\* Discovery keys have the type of keys, and nothing keeps one from being
\* passed where a key is expected.
DiscoveryKey(key) == [dkey_of |-> key]

DKeys == {DiscoveryKey(k) : k \in Feeds}

\* The channels that keys, and discovery keys taken for keys, lead to.
Channels == DKeys \cup {DiscoveryKey(d) : d \in DKeys}

Remote(s) == CHOOSE t \in Sides : t # s

TypeOK ==
    /\ feeds \in [Sides -> SUBSET Feeds]
    /\ onDisk \in [Sides -> SUBSET Feeds]
    /\ conns \in 0 .. MaxConns
    /\ status \in [Sides -> {"new", "subscribed", "handshaken"}]
    /\ events \in [Sides -> SUBSET DKeys]
    /\ {channels, dkeys, lookups, opens, wire, remote} \subseteq
           [Sides -> SUBSET Channels]
    /\ peers \in [Sides -> [Channels -> Nat]]
    /\ early \in [Sides -> SUBSET Feeds]

Nothing == [s \in Sides |-> {}]
NoPeers == [s \in Sides |-> [c \in Channels |-> 0]]

Init ==
    /\ feeds = Nothing
    /\ onDisk \in [Sides -> SUBSET Feeds]
    /\ conns = 0
    /\ status = [s \in Sides |-> "new"]
    /\ events = Nothing
    /\ channels = Nothing
    /\ dkeys = Nothing
    /\ lookups = Nothing
    /\ opens = Nothing
    /\ wire = Nothing
    /\ remote = Nothing
    /\ peers = NoPeers
    /\ early = Nothing

-----------------------------------------------------------------------------
(* The protocol.                                                           *)

\* proto_command.open for each of the given keys.
ProtocolOpen(s, keys) ==
    LET new == {DiscoveryKey(k) : k \in keys} \ opens[s] IN
    /\ opens' = [opens EXCEPT ![s] = @ \cup new]
    /\ wire' = [wire EXCEPT ![Remote(s)] = @ \cup new]
    /\ channels' = [channels EXCEPT ![s] = @ \cup (new \cap remote[s])]

\* The other side's Open message for channel c arrives.
Arrives(s, c) ==
    /\ status[s] = "handshaken"
    /\ c \in wire[s]
    /\ wire' = [wire EXCEPT ![s] = @ \ {c}]
    /\ remote' = [remote EXCEPT ![s] = @ \cup {c}]
    /\ \/ /\ c \in opens[s]
          /\ channels' = [channels EXCEPT ![s] = @ \cup {c}]
          /\ UNCHANGED dkeys
       \/ /\ c \notin opens[s]
          /\ dkeys' = [dkeys EXCEPT ![s] = @ \cup {c}]
          /\ UNCHANGED channels
    /\ UNCHANGED <<feeds, onDisk, conns, status, events, lookups, opens, peers,
                   early>>

\* Mutant of NewConnection: the Peers of the lost connection are kept.
NewConnectionKeepsPeers ==
    /\ conns < MaxConns
    /\ conns' = conns + 1
    /\ status' = [s \in Sides |-> "new"]
    /\ events' = Nothing
    /\ channels' = Nothing
    /\ dkeys' = Nothing
    /\ opens' = Nothing
    /\ wire' = Nothing
    /\ remote' = Nothing
    /\ early' = Nothing
    /\ UNCHANGED <<feeds, onDisk, lookups, peers>>

\* The connection is lost and a new one is made: add_stream, add_io.
NewConnection ==
    /\ conns < MaxConns
    /\ conns' = conns + 1
    /\ status' = [s \in Sides |-> "new"]
    /\ events' = Nothing
    /\ channels' = Nothing
    /\ dkeys' = Nothing
    /\ opens' = Nothing
    /\ wire' = Nothing
    /\ remote' = Nothing
    /\ peers' = NoPeers
    /\ early' = Nothing
    /\ UNCHANGED <<feeds, onDisk, lookups>>

-----------------------------------------------------------------------------
(* Replicator::add_feed, called for a feed that a client opens, or for one *)
(* that the corestore found when it looked up a discovery key.             *)

AddFeed(s, k) ==
    /\ k \notin feeds[s]
    /\ feeds' = [feeds EXCEPT ![s] = @ \cup {k}]
    /\ onDisk' = [onDisk EXCEPT ![s] = @ \cup {k}]
    /\ events' = IF status[s] = "new" THEN events
                 ELSE [events EXCEPT ![s] = @ \cup {DiscoveryKey(k)}]
    /\ UNCHANGED <<connVars, channels, dkeys, peers>>

ClientAdds(s, k) == AddFeed(s, k) /\ UNCHANGED lookups

LookupAdds(s, k) ==
    /\ DiscoveryKey(k) \in lookups[s]
    /\ k \in onDisk[s]
    /\ lookups' = [lookups EXCEPT ![s] = @ \ {DiscoveryKey(k)}]
    /\ AddFeed(s, k)

-----------------------------------------------------------------------------
(* run_peer.                                                               *)

Subscribe(s) ==
    /\ status[s] = "new"
    /\ status' = [status EXCEPT ![s] = "subscribed"]
    /\ UNCHANGED <<feeds, onDisk, conns, events, channels, dkeys, lookups, opens,
                   wire, remote, peers, early>>

\* Mutant of OnHandshake: the map's keys, the discovery keys, are opened.
OnHandshakeOpensDkey(s) ==
    /\ status[s] = "subscribed"
    /\ status' = [status EXCEPT ![s] = "handshaken"]
    /\ early' = [early EXCEPT ![s] = feeds[s]]
    /\ ProtocolOpen(s, {DiscoveryKey(k) : k \in feeds[s]})
    /\ UNCHANGED <<feeds, onDisk, conns, events, dkeys, lookups, remote, peers>>

\* ProtocolEvent::Handshake: every feed is opened by its public key.
OnHandshake(s) ==
    /\ status[s] = "subscribed"
    /\ status' = [status EXCEPT ![s] = "handshaken"]
    /\ early' = [early EXCEPT ![s] = feeds[s]]
    /\ ProtocolOpen(s, feeds[s])
    /\ UNCHANGED <<feeds, onDisk, conns, events, dkeys, lookups, remote, peers>>

\* Mutant of OnChannel: a Peer is started whether the feed is known or not.
OnChannelAlways(s, c) ==
    /\ c \in channels[s]
    /\ channels' = [channels EXCEPT ![s] = @ \ {c}]
    /\ peers' = [peers EXCEPT ![s][c] = @ + 1]
    /\ UNCHANGED <<feeds, onDisk, connVars, events, dkeys, lookups>>

\* ProtocolEvent::Channel: a Peer is started if the feed is known.
OnChannel(s, c) ==
    /\ c \in channels[s]
    /\ channels' = [channels EXCEPT ![s] = @ \ {c}]
    /\ peers' = IF \E k \in feeds[s] : DiscoveryKey(k) = c
                THEN [peers EXCEPT ![s][c] = @ + 1] ELSE peers
    /\ UNCHANGED <<feeds, onDisk, connVars, events, dkeys, lookups>>

\* ProtocolEvent::DiscoveryKey: passed on to the replicator's subscribers.
OnDiscoveryKey(s, c) ==
    /\ c \in dkeys[s]
    /\ dkeys' = [dkeys EXCEPT ![s] = @ \ {c}]
    /\ lookups' = [lookups EXCEPT ![s] = @ \cup {c}]
    /\ UNCHANGED <<feeds, onDisk, connVars, events, channels, peers>>

\* ReplicatorEvent::Feed(key): after the handshake the discovery key that
\* the event carries is opened.
OnFeed(s, d) ==
    /\ status[s] # "new"
    /\ d \in events[s]
    /\ events' = [events EXCEPT ![s] = @ \ {d}]
    /\ \/ /\ status[s] = "handshaken"
          /\ ProtocolOpen(s, {d})
       \/ /\ status[s] = "subscribed"
          /\ UNCHANGED <<opens, wire, channels>>
    /\ UNCHANGED <<feeds, onDisk, conns, status, dkeys, lookups, remote, peers,
                   early>>

-----------------------------------------------------------------------------
Task(s) ==
    \/ Subscribe(s)
    \/ OnHandshake(s)
    \/ \E c \in Channels : Arrives(s, c) \/ OnChannel(s, c) \/ OnDiscoveryKey(s, c)
    \/ \E d \in DKeys : OnFeed(s, d)

Next ==
    \/ NewConnection
    \/ \E s \in Sides : Task(s)
    \/ \E s \in Sides, k \in Feeds : ClientAdds(s, k) \/ LookupAdds(s, k)

Spec == Init /\ [][Next]_vars

\* The task of a connection keeps polling its merged stream, and the
\* corestore answers its lookups.
FairSpec ==
    /\ Spec
    /\ \A s \in Sides : WF_vars(Task(s))
    /\ \A s \in Sides, k \in Feeds : WF_vars(LookupAdds(s, k))

-----------------------------------------------------------------------------
(* Properties.                                                             *)

Replicates(s, k) == peers[s][DiscoveryKey(k)] = 1

\* A feed has at most one Peer on a connection, and it has one only if the
\* replicator has the feed and both sides have opened it by its public key,
\* however their opens, the lookups and the handshakes interleave
\* (lib.rs:133-150).
PeersAgree ==
    \A s \in Sides : \A k \in Feeds :
        LET c == DiscoveryKey(k) IN
        /\ peers[s][c] <= 1
        /\ peers[s][c] = 1 => /\ k \in feeds[s]
                              /\ c \in opens[s] \cap opens[Remote(s)]

\* The inductive invariant behind PeersAgree: a channel both sides opened is
\* reported once, and gets its Peer when the report is handled.
ConnectionsInv ==
    \A s \in Sides :
        /\ wire[s] \cap remote[s] = {}
        /\ wire[s] \cup remote[s] \subseteq opens[Remote(s)]
        /\ channels[s] \subseteq opens[s] \cap remote[s]
        /\ \A c \in Channels :
              /\ peers[s][c] \in {0, 1}
              /\ c \in channels[s] => peers[s][c] = 0
              /\ peers[s][c] = 1 => /\ c \in opens[s] \cap remote[s]
                                    /\ \E k \in feeds[s] : DiscoveryKey(k) = c

\* What a side has opened is on its way to the other side or known there, and a
\* feed that a side had before its handshake is opened by it and, once both
\* sides have it open, about to get its Peer or has it: nothing between the
\* handshake and add_peer is lost (lib.rs:133-150).
EarlyInv ==
    \A s \in Sides :
        /\ status[s] # "handshaken" => opens[s] = {} /\ early[s] = {}
        /\ opens[s] \subseteq wire[Remote(s)] \cup remote[Remote(s)]
        /\ early[s] \subseteq feeds[s]
        /\ \A k \in early[s] :
              LET c == DiscoveryKey(k) IN
              /\ c \in opens[s]
              /\ c \in remote[s] => c \in channels[s] \/ Replicates(s, k)

\* All of it, with the types: among them, events carry discovery keys.
ReplicatorInv == TypeOK /\ ConnectionsInv /\ EarlyInv

\* When a connection has settled, with no Open on its way and no channel to
\* handle, each feed that both sides had before their handshakes is replicated
\* by both: the safety half of EarlyFeedsReplicate (run_peer, lib.rs:133-150).
SettledReplicates ==
    (\A s \in Sides : wire[s] = {} /\ channels[s] = {}) =>
        \A k \in Feeds :
            (\A s \in Sides : k \in early[s]) => \A s \in Sides : Replicates(s, k)

\* A feed both sides had before their handshakes is replicated by both.
EarlyFeedsReplicate ==
    \A k \in Feeds :
        (\A s \in Sides : k \in early[s])
            ~> (\A s \in Sides : Replicates(s, k)) \/ (\E s \in Sides : k \notin early[s])

\* A feed on both sides of a connection is replicated, also if it is added
\* while the connection lasts: "it will be added to the protocol through
\* CorestoreEvent::Feed", replicate.rs:31-33.
EveryFeedReplicates ==
    \A k \in Feeds :
        (\A s \in Sides : k \in feeds[s]) ~> (\A s \in Sides : Replicates(s, k))
=============================================================================

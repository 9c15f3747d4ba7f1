-------------------------- MODULE ReplicatorProofs --------------------------
(***************************************************************************)
(* TypeOK, ConnectionsInv and, with them, EarlyInv are inductive, for any  *)
(* set of feeds and any number of connections made one after the other.    *)
(***************************************************************************)
EXTENDS Replicator, TLAPS

LEMMA RemoteFacts ==
    ASSUME NEW s \in Sides
    PROVE  Remote(s) \in Sides /\ Remote(s) # s /\ Remote(Remote(s)) = s
<1>1. PICK a \in Sides, b \in Sides : a # b /\ Sides = {a, b}
    BY ReplicatorAssumption
<1>2. ASSUME NEW t \in Sides
      PROVE  Remote(t) \in Sides /\ Remote(t) # t
  <2>1. \E u \in Sides : u # t
    BY <1>1
  <2> QED  BY <2>1 DEF Remote
<1>3. Remote(s) \in Sides /\ Remote(s) # s
    BY <1>2
<1>4. Remote(Remote(s)) \in Sides /\ Remote(Remote(s)) # Remote(s)
    BY <1>2, <1>3
<1> QED  BY <1>1, <1>3, <1>4

LEMMA ChannelFacts ==
    /\ \A k \in Feeds : DiscoveryKey(k) \in DKeys
    /\ \A k \in Feeds \cup DKeys : DiscoveryKey(k) \in Channels
    /\ DKeys \subseteq Channels
    /\ \A k, l : DiscoveryKey(k) = DiscoveryKey(l) => k = l
<1>1. \A k, l : DiscoveryKey(k) = DiscoveryKey(l) => k = l
    BY DEF DiscoveryKey
<1>2. \A k \in Feeds : DiscoveryKey(k) \in DKeys
    BY DEF DKeys
<1>3. DKeys \subseteq Channels
    BY DEF Channels
<1>4. \A k \in DKeys : DiscoveryKey(k) \in Channels
    BY DEF Channels
<1> QED  BY <1>1, <1>2, <1>3, <1>4

\* The sets of channels in TypeOK, one by one.
LEMMA ChannelTypes ==
    TypeOK <=> /\ feeds \in [Sides -> SUBSET Feeds]
               /\ onDisk \in [Sides -> SUBSET Feeds]
               /\ conns \in 0 .. MaxConns
               /\ status \in [Sides -> {"new", "subscribed", "handshaken"}]
               /\ events \in [Sides -> SUBSET DKeys]
               /\ channels \in [Sides -> SUBSET Channels]
               /\ dkeys \in [Sides -> SUBSET Channels]
               /\ lookups \in [Sides -> SUBSET Channels]
               /\ opens \in [Sides -> SUBSET Channels]
               /\ wire \in [Sides -> SUBSET Channels]
               /\ remote \in [Sides -> SUBSET Channels]
               /\ peers \in [Sides -> [Channels -> Nat]]
               /\ early \in [Sides -> SUBSET Feeds]
BY DEF TypeOK

-----------------------------------------------------------------------------
\* proto_command.open keeps the types, and what the two sides know of each
\* other's opens.
LEMMA OpenType ==
    ASSUME TypeOK, NEW s \in Sides, NEW ks \in SUBSET (Feeds \cup DKeys),
           ProtocolOpen(s, ks)
    PROVE  /\ opens' \in [Sides -> SUBSET Channels]
           /\ wire' \in [Sides -> SUBSET Channels]
           /\ channels' \in [Sides -> SUBSET Channels]
<1> DEFINE new == {DiscoveryKey(k) : k \in ks} \ opens[s]
<1>1. new \subseteq Channels
    BY ChannelFacts
<1>2. /\ opens' = [opens EXCEPT ![s] = @ \cup new]
      /\ wire' = [wire EXCEPT ![Remote(s)] = @ \cup new]
      /\ channels' = [channels EXCEPT ![s] = @ \cup (new \cap remote[s])]
    BY DEF ProtocolOpen
<1> HIDE DEF new
<1> QED  BY <1>1, <1>2, RemoteFacts, ChannelTypes

LEMMA OpenInv ==
    ASSUME TypeOK, ConnectionsInv, NEW s \in Sides, NEW ks, ProtocolOpen(s, ks),
           UNCHANGED <<feeds, remote, peers>>
    PROVE  ConnectionsInv'
<1> DEFINE new == {DiscoveryKey(k) : k \in ks} \ opens[s]
           r == Remote(s)
<1>1. /\ opens' = [opens EXCEPT ![s] = @ \cup new]
      /\ wire' = [wire EXCEPT ![r] = @ \cup new]
      /\ channels' = [channels EXCEPT ![s] = @ \cup (new \cap remote[s])]
      /\ new \cap opens[s] = {}
    BY DEF ProtocolOpen
<1>2. /\ r \in Sides /\ r # s /\ Remote(r) = s
      /\ \A t \in Sides : t = s \/ t = r
    BY RemoteFacts, ReplicatorAssumption
<1> HIDE DEF new, r
<1>3. /\ opens'[s] = opens[s] \cup new /\ opens'[r] = opens[r]
      /\ wire'[r] = wire[r] \cup new /\ wire'[s] = wire[s]
      /\ channels'[s] = channels[s] \cup (new \cap remote[s])
      /\ channels'[r] = channels[r]
    BY <1>1, <1>2, ChannelTypes
<1>4. Remote(s) = r
    BY DEF r
<1>5. \A t \in Sides : wire'[t] \cap remote'[t] = {}
    BY <1>1, <1>2, <1>3 DEF ConnectionsInv
<1>6. \A t \in Sides : wire'[t] \cup remote'[t] \subseteq opens'[Remote(t)]
    BY <1>2, <1>3, <1>4 DEF ConnectionsInv
<1>7. \A t \in Sides : channels'[t] \subseteq opens'[t] \cap remote'[t]
    BY <1>2, <1>3 DEF ConnectionsInv
<1>8. \A t \in Sides : \A c \in Channels : c \in channels'[t] => peers'[t][c] = 0
    BY <1>1, <1>2, <1>3 DEF ConnectionsInv
<1>9. \A t \in Sides : opens[t] \subseteq opens'[t]
    BY <1>2, <1>3
<1> QED  BY <1>5, <1>6, <1>7, <1>8, <1>9 DEF ConnectionsInv

-----------------------------------------------------------------------------
LEMMA TypeStep ==
    ASSUME TypeOK, [Next]_vars
    PROVE  TypeOK'
<1> USE DEF connVars
<1>1. CASE UNCHANGED vars
    BY <1>1 DEF vars, TypeOK
<1>2. CASE NewConnection
  <2>1. conns' \in 0 .. MaxConns
    BY <1>2, ReplicatorAssumption DEF NewConnection, TypeOK
  <2> QED  BY <1>2, <2>1 DEF NewConnection, TypeOK, Nothing, NoPeers
<1>3. ASSUME NEW s \in Sides, NEW k \in Feeds, ClientAdds(s, k) \/ LookupAdds(s, k)
      PROVE  TypeOK'
  <2>1. lookups' \in [Sides -> SUBSET Channels]
    BY <1>3, ChannelTypes, SMTT(20) DEF ClientAdds, LookupAdds
  <2>2. AddFeed(s, k)
    BY <1>3 DEF ClientAdds, LookupAdds
  <2>3. events' \in [Sides -> SUBSET DKeys]
    BY <2>2, ChannelFacts, ChannelTypes DEF AddFeed
  <2> QED  BY <2>1, <2>2, <2>3 DEF AddFeed, TypeOK
<1>4. ASSUME NEW s \in Sides, Subscribe(s)
      PROVE  TypeOK'
    BY <1>4 DEF Subscribe, TypeOK
<1>5. ASSUME NEW s \in Sides, OnHandshake(s)
      PROVE  TypeOK'
  <2>1. feeds[s] \in SUBSET Feeds
    BY DEF TypeOK
  <2>2. /\ opens' \in [Sides -> SUBSET Channels]
        /\ wire' \in [Sides -> SUBSET Channels]
        /\ channels' \in [Sides -> SUBSET Channels]
    BY <1>5, <2>1, OpenType DEF OnHandshake
  <2> QED  BY <1>5, <2>1, <2>2, ZenonT(30) DEF OnHandshake, TypeOK
<1>6. ASSUME NEW s \in Sides, NEW c \in Channels, Arrives(s, c)
      PROVE  TypeOK'
  <2>1. wire' = [wire EXCEPT ![s] = @ \ {c}] /\ remote' = [remote EXCEPT ![s] = @ \cup {c}]
    BY <1>6 DEF Arrives
  <2>2. wire' \in [Sides -> SUBSET Channels] /\ remote' \in [Sides -> SUBSET Channels]
    BY <2>1, ChannelTypes
  <2>3. \/ channels' = [channels EXCEPT ![s] = @ \cup {c}] /\ UNCHANGED dkeys
        \/ dkeys' = [dkeys EXCEPT ![s] = @ \cup {c}] /\ UNCHANGED channels
    BY <1>6 DEF Arrives
  <2>4. channels' \in [Sides -> SUBSET Channels] /\ dkeys' \in [Sides -> SUBSET Channels]
    <3>1. CASE UNCHANGED dkeys /\ channels' = [channels EXCEPT ![s] = @ \cup {c}]
      BY <3>1, ChannelTypes
    <3>2. CASE UNCHANGED channels /\ dkeys' = [dkeys EXCEPT ![s] = @ \cup {c}]
      BY <3>2, ChannelTypes
    <3> QED  BY <2>3, <3>1, <3>2
  <2> QED  BY <1>6, <2>2, <2>4 DEF Arrives, TypeOK
<1>7. ASSUME NEW s \in Sides, NEW c \in Channels, OnDiscoveryKey(s, c)
      PROVE  TypeOK'
  <2>1. /\ dkeys' = [dkeys EXCEPT ![s] = @ \ {c}]
        /\ lookups' = [lookups EXCEPT ![s] = @ \cup {c}]
    BY <1>7 DEF OnDiscoveryKey
  <2>2. dkeys' \in [Sides -> SUBSET Channels] /\ lookups' \in [Sides -> SUBSET Channels]
    BY <2>1, ChannelTypes
  <2> QED  BY <1>7, <2>2 DEF OnDiscoveryKey, TypeOK
<1>8. ASSUME NEW s \in Sides, NEW c \in Channels, OnChannel(s, c)
      PROVE  TypeOK'
  <2>1. peers' \in [Sides -> [Channels -> Nat]]
    BY <1>8 DEF OnChannel, TypeOK
  <2> QED  BY <1>8, <2>1 DEF OnChannel, TypeOK
<1>9. ASSUME NEW s \in Sides, NEW d \in DKeys, OnFeed(s, d)
      PROVE  TypeOK'
  <2>1. /\ opens' \in [Sides -> SUBSET Channels]
        /\ wire' \in [Sides -> SUBSET Channels]
        /\ channels' \in [Sides -> SUBSET Channels]
    BY <1>9, OpenType, ChannelTypes DEF OnFeed
  <2> QED  BY <1>9, <2>1, ZenonT(30) DEF OnFeed, TypeOK
<1> QED
    BY <1>1, <1>2, <1>3, <1>4, <1>5, <1>6, <1>7, <1>8, <1>9 DEF Next, Task

\* Every variable of a connection keeps its type: the only keys it deals with
\* are those of feeds and, once, discovery keys taken for keys (lib.rs:160).
THEOREM TypeCorrect == Spec => []TypeOK
<1>1. Init => TypeOK
    BY ReplicatorAssumption DEF Init, TypeOK, Nothing, NoPeers
<1> QED  BY <1>1, TypeStep, PTL DEF Spec

-----------------------------------------------------------------------------
LEMMA ArrivesInv ==
    ASSUME TypeOK, ConnectionsInv, NEW s \in Sides, NEW c \in Channels, Arrives(s, c)
    PROVE  ConnectionsInv'
<1>1. /\ wire'[s] = wire[s] \ {c} /\ remote'[s] = remote[s] \cup {c}
      /\ \A t \in Sides \ {s} : wire'[t] = wire[t] /\ remote'[t] = remote[t]
      /\ c \in wire[s] /\ UNCHANGED <<feeds, opens, peers>>
    BY ChannelTypes DEF Arrives
<1>2. /\ channels'[s] \subseteq channels[s] \cup ({c} \cap opens[s])
      /\ \A t \in Sides \ {s} : channels'[t] = channels[t]
    BY ChannelTypes DEF Arrives
<1>3. c \notin remote[s] /\ peers[s][c] = 0
    BY <1>1 DEF ConnectionsInv
<1>4. ASSUME NEW t \in Sides
      PROVE  /\ wire'[t] \cap remote'[t] = {}
             /\ wire'[t] \cup remote'[t] \subseteq opens'[Remote(t)]
             /\ channels'[t] \subseteq opens'[t] \cap remote'[t]
             /\ remote[t] \subseteq remote'[t]
             /\ \A b \in Channels : b \in channels'[t] => peers'[t][b] = 0
  <2>1. CASE t = s
    BY <1>1, <1>2, <1>3, <2>1 DEF ConnectionsInv
  <2>2. CASE t # s
    BY <1>1, <1>2, <2>2 DEF ConnectionsInv
  <2> QED  BY <2>1, <2>2
<1> QED  BY <1>1, <1>4 DEF ConnectionsInv

LEMMA OnChannelInv ==
    ASSUME TypeOK, ConnectionsInv, NEW s \in Sides, NEW c \in Channels, OnChannel(s, c)
    PROVE  ConnectionsInv'
<1>1. /\ UNCHANGED <<feeds, opens, wire, remote>>
      /\ c \in channels[s] /\ peers[s][c] = 0
      /\ channels'[s] = channels[s] \ {c}
      /\ \A t \in Sides \ {s} : channels'[t] = channels[t]
    BY ChannelTypes DEF OnChannel, connVars, ConnectionsInv
<1>2. \A t \in Sides, b \in Channels :
        t # s \/ b # c => peers'[t][b] = peers[t][b]
    BY ChannelTypes DEF OnChannel
<1>3. \/ peers'[s][c] = 0
      \/ peers'[s][c] = 1 /\ \E k \in feeds[s] : DiscoveryKey(k) = c
    BY <1>1, ChannelTypes DEF OnChannel
<1>4. ASSUME NEW t \in Sides, NEW b \in Channels
      PROVE  /\ peers'[t][b] \in {0, 1}
             /\ b \in channels'[t] => peers'[t][b] = 0
             /\ peers'[t][b] = 1 => /\ b \in opens[t] \cap remote[t]
                                    /\ \E k \in feeds[t] : DiscoveryKey(k) = b
  <2>1. CASE t = s /\ b = c
    BY <1>1, <1>3, <2>1 DEF ConnectionsInv
  <2>2. CASE t # s \/ b # c
    BY <1>1, <1>2, <2>2 DEF ConnectionsInv
  <2> QED  BY <2>1, <2>2
<1>5. \A t \in Sides : channels'[t] \subseteq channels[t]
    BY <1>1
<1> QED  BY <1>1, <1>4, <1>5 DEF ConnectionsInv

LEMMA InvStep ==
    ASSUME TypeOK, ConnectionsInv, [Next]_vars
    PROVE  ConnectionsInv'
<1> USE DEF connVars
<1>1. CASE UNCHANGED vars
    BY <1>1 DEF vars, ConnectionsInv
<1>2. CASE NewConnection
    BY <1>2, RemoteFacts DEF NewConnection, Nothing, NoPeers, ConnectionsInv
<1>3. ASSUME NEW s \in Sides, NEW k \in Feeds, ClientAdds(s, k) \/ LookupAdds(s, k)
      PROVE  ConnectionsInv'
  <2>1. /\ UNCHANGED <<opens, wire, remote, channels, peers>>
        /\ feeds' = [feeds EXCEPT ![s] = @ \cup {k}]
    BY <1>3 DEF ClientAdds, LookupAdds, AddFeed
  <2>2. \A t \in Sides : feeds[t] \subseteq feeds'[t]
    BY <2>1, ChannelTypes
  <2> QED  BY <2>1, <2>2 DEF ConnectionsInv
<1>4. ASSUME NEW s \in Sides, Subscribe(s)
      PROVE  ConnectionsInv'
    BY <1>4 DEF Subscribe, ConnectionsInv
<1>5. ASSUME NEW s \in Sides, OnHandshake(s)
      PROVE  ConnectionsInv'
    BY <1>5, OpenInv DEF OnHandshake
<1>6. ASSUME NEW s \in Sides, NEW c \in Channels, OnDiscoveryKey(s, c)
      PROVE  ConnectionsInv'
    BY <1>6 DEF OnDiscoveryKey, ConnectionsInv
<1>7. ASSUME NEW s \in Sides, NEW d \in DKeys, OnFeed(s, d)
      PROVE  ConnectionsInv'
  <2>1. CASE UNCHANGED <<opens, wire, channels>>
    BY <1>7, <2>1 DEF OnFeed, ConnectionsInv
  <2>2. CASE ProtocolOpen(s, {d})
    BY <1>7, <2>2, OpenInv DEF OnFeed
  <2> QED  BY <1>7, <2>1, <2>2 DEF OnFeed
<1> QED
    BY <1>1, <1>2, <1>3, <1>4, <1>5, <1>6, <1>7, ArrivesInv, OnChannelInv
    DEF Next, Task

-----------------------------------------------------------------------------
\* What one side's open does to EarlyInv, apart from a new value of `early'.
LEMMA OpenEarly ==
    ASSUME TypeOK, ConnectionsInv, EarlyInv, NEW s \in Sides, NEW ks,
           ProtocolOpen(s, ks), UNCHANGED <<remote, peers>>
    PROVE  \A t \in Sides :
             /\ opens'[t] \subseteq wire'[Remote(t)] \cup remote'[Remote(t)]
             /\ opens[t] \subseteq opens'[t] /\ channels[t] \subseteq channels'[t]
             /\ (opens'[t] \ opens[t]) \cap remote[t] \subseteq channels'[t]
             /\ t # s => opens'[t] = opens[t]
<1> DEFINE new == {DiscoveryKey(k) : k \in ks} \ opens[s]
           r == Remote(s)
<1>1. /\ opens' = [opens EXCEPT ![s] = @ \cup new]
      /\ wire' = [wire EXCEPT ![r] = @ \cup new]
      /\ channels' = [channels EXCEPT ![s] = @ \cup (new \cap remote[s])]
    BY DEF ProtocolOpen
<1>2. /\ r \in Sides /\ r # s /\ Remote(r) = s /\ Remote(s) = r
      /\ \A t \in Sides : t = s \/ t = r
    BY RemoteFacts, ReplicatorAssumption
<1> HIDE DEF new, r
<1>3. /\ opens'[s] = opens[s] \cup new /\ opens'[r] = opens[r]
      /\ wire'[r] = wire[r] \cup new /\ wire'[s] = wire[s]
      /\ channels'[s] = channels[s] \cup (new \cap remote[s])
      /\ channels'[r] = channels[r]
    BY <1>1, <1>2, ChannelTypes
<1>4. \A t \in Sides : opens[t] \subseteq wire[Remote(t)] \cup remote[Remote(t)]
    BY Zenon DEF EarlyInv
<1>5. /\ opens'[s] \subseteq wire'[r] \cup remote'[r]
      /\ opens'[r] \subseteq wire'[s] \cup remote'[s]
    BY <1>2, <1>3, <1>4
<1> QED  BY <1>2, <1>3, <1>5

LEMMA HandshakeEarly ==
    ASSUME TypeOK, ConnectionsInv, EarlyInv, NEW s \in Sides, OnHandshake(s)
    PROVE  EarlyInv'
<1>1. /\ ProtocolOpen(s, feeds[s]) /\ UNCHANGED <<feeds, remote, peers>>
      /\ status' = [status EXCEPT ![s] = "handshaken"]
      /\ early' = [early EXCEPT ![s] = feeds[s]]
      /\ opens[s] = {}
    BY Zenon DEF OnHandshake, EarlyInv
<1>2. /\ status'[s] = "handshaken" /\ early'[s] = feeds[s]
      /\ \A t \in Sides \ {s} : status'[t] = status[t] /\ early'[t] = early[t]
    BY <1>1, ChannelTypes
<1>3. \A t \in Sides :
        /\ opens'[t] \subseteq wire'[Remote(t)] \cup remote'[Remote(t)]
        /\ opens[t] \subseteq opens'[t] /\ channels[t] \subseteq channels'[t]
        /\ (opens'[t] \ opens[t]) \cap remote[t] \subseteq channels'[t]
        /\ t # s => opens'[t] = opens[t]
    BY <1>1, OpenEarly, Zenon
<1>4. \A k \in feeds[s] : DiscoveryKey(k) \in opens'[s]
    BY <1>1, ChannelTypes DEF ProtocolOpen
<1>5. ASSUME NEW t \in Sides
      PROVE  /\ status'[t] # "handshaken" => opens'[t] = {} /\ early'[t] = {}
             /\ early'[t] \subseteq feeds'[t]
             /\ \A k \in early'[t] :
                   /\ DiscoveryKey(k) \in opens'[t]
                   /\ DiscoveryKey(k) \in remote'[t] =>
                         DiscoveryKey(k) \in channels'[t] \/ Replicates(t, k)'
  <2>1. CASE t = s
    BY <1>1, <1>2, <1>3, <1>4, <2>1
  <2>2. CASE t # s
    BY <1>1, <1>2, <1>3, <2>2 DEF EarlyInv, Replicates
  <2> QED  BY <2>1, <2>2
<1> QED  BY <1>3, <1>5, Zenon DEF EarlyInv

LEMMA OnFeedEarly ==
    ASSUME TypeOK, ConnectionsInv, EarlyInv, NEW s \in Sides, NEW d \in DKeys,
           OnFeed(s, d)
    PROVE  EarlyInv'
<1>1. UNCHANGED <<feeds, status, remote, peers, early>>
    BY Zenon DEF OnFeed
<1>2. CASE UNCHANGED <<opens, wire, channels>>
    BY <1>1, <1>2, Zenon DEF EarlyInv, Replicates
<1>3. CASE status[s] = "handshaken" /\ ProtocolOpen(s, {d})
  <2>1. \A t \in Sides :
          /\ opens'[t] \subseteq wire'[Remote(t)] \cup remote'[Remote(t)]
          /\ opens[t] \subseteq opens'[t] /\ channels[t] \subseteq channels'[t]
          /\ (opens'[t] \ opens[t]) \cap remote[t] \subseteq channels'[t]
          /\ t # s => opens'[t] = opens[t]
    BY <1>1, <1>3, OpenEarly, Zenon
  <2> QED  BY <1>1, <1>3, <2>1 DEF EarlyInv, Replicates
<1> QED  BY <1>2, <1>3, Zenon DEF OnFeed

LEMMA ArrivesEarly ==
    ASSUME TypeOK, ConnectionsInv, EarlyInv, NEW s \in Sides, NEW c \in Channels,
           Arrives(s, c)
    PROVE  EarlyInv'
<1>1. /\ wire'[s] = wire[s] \ {c} /\ remote'[s] = remote[s] \cup {c}
      /\ \A t \in Sides \ {s} : wire'[t] = wire[t] /\ remote'[t] = remote[t]
      /\ UNCHANGED <<feeds, status, opens, peers, early>>
    BY ChannelTypes DEF Arrives
<1>2. /\ \A t \in Sides : channels[t] \subseteq channels'[t]
      /\ c \in opens[s] => c \in channels'[s]
  <2>1. channels \in [Sides -> SUBSET Channels]
    BY ChannelTypes, Zenon
  <2>2. CASE c \in opens[s]
    <3>1. channels' = [channels EXCEPT ![s] = @ \cup {c}]
      BY <2>2, Zenon DEF Arrives
    <3> QED  BY <2>1, <3>1
  <2>3. CASE c \notin opens[s]
    BY <2>3, Zenon DEF Arrives
  <2> QED  BY <2>2, <2>3, Zenon
<1>3. \A t \in Sides : wire[t] \cup remote[t] \subseteq wire'[t] \cup remote'[t]
    BY <1>1
<1>4. \A t \in Sides : opens'[t] \subseteq wire'[Remote(t)] \cup remote'[Remote(t)]
    BY <1>1, <1>3, RemoteFacts DEF EarlyInv
<1>5. ASSUME NEW t \in Sides, NEW k \in early[t], DiscoveryKey(k) \in remote'[t]
      PROVE  DiscoveryKey(k) \in channels'[t] \/ Replicates(t, k)'
    BY <1>1, <1>2, <1>5 DEF EarlyInv, Replicates
<1> QED  BY <1>1, <1>4, <1>5, Zenon DEF EarlyInv

LEMMA OnChannelEarly ==
    ASSUME TypeOK, ConnectionsInv, EarlyInv, NEW s \in Sides, NEW c \in Channels,
           OnChannel(s, c)
    PROVE  EarlyInv'
<1>1. /\ UNCHANGED <<feeds, status, opens, wire, remote, early>>
      /\ peers[s][c] = 0
      /\ \A t \in Sides : channels[t] \ {c} \subseteq channels'[t]
      /\ \A t \in Sides \ {s} : channels'[t] = channels[t]
    BY ChannelTypes DEF OnChannel, connVars, ConnectionsInv
<1>2. \A t \in Sides, b \in Channels : t # s \/ b # c => peers'[t][b] = peers[t][b]
    BY ChannelTypes DEF OnChannel
<1>3. (\E k \in feeds[s] : DiscoveryKey(k) = c) => peers'[s][c] = 1
    BY <1>1, ChannelTypes DEF OnChannel
<1>4. ASSUME NEW t \in Sides, NEW k \in early[t], DiscoveryKey(k) \in remote[t]
      PROVE  DiscoveryKey(k) \in channels'[t] \/ Replicates(t, k)'
  <2>1. /\ k \in feeds[t] /\ DiscoveryKey(k) \in Channels
        /\ DiscoveryKey(k) \in channels[t] \/ peers[t][DiscoveryKey(k)] = 1
    BY <1>4, ChannelFacts, ChannelTypes DEF EarlyInv, Replicates
  <2>2. CASE t = s /\ DiscoveryKey(k) = c
    BY <1>3, <2>1, <2>2, Zenon DEF Replicates
  <2>3. CASE t # s \/ DiscoveryKey(k) # c
    BY <1>1, <1>2, <2>1, <2>3 DEF Replicates
  <2> QED  BY <2>2, <2>3, Zenon
<1> QED  BY <1>1, <1>4, Zenon DEF EarlyInv

LEMMA EarlyStep ==
    ASSUME TypeOK, ConnectionsInv, EarlyInv, [Next]_vars
    PROVE  EarlyInv'
<1> USE DEF connVars
<1>1. CASE UNCHANGED vars
    BY <1>1, Zenon DEF vars, EarlyInv, Replicates
<1>2. CASE NewConnection
    BY <1>2, RemoteFacts DEF NewConnection, Nothing, EarlyInv
<1>3. ASSUME NEW s \in Sides, NEW k \in Feeds, ClientAdds(s, k) \/ LookupAdds(s, k)
      PROVE  EarlyInv'
  <2>1. /\ UNCHANGED <<status, opens, wire, remote, channels, peers, early>>
        /\ feeds' = [feeds EXCEPT ![s] = @ \cup {k}]
    BY <1>3, Zenon DEF ClientAdds, LookupAdds, AddFeed
  <2>2. \A t \in Sides : feeds[t] \subseteq feeds'[t]
    BY <2>1, ChannelTypes
  <2> QED  BY <2>1, <2>2, Zenon DEF EarlyInv, Replicates
<1>4. ASSUME NEW s \in Sides, Subscribe(s)
      PROVE  EarlyInv'
  <2>1. /\ UNCHANGED <<feeds, opens, wire, remote, channels, peers, early>>
        /\ \A t \in Sides : status[t] = "handshaken" => status'[t] = "handshaken"
    BY <1>4, ChannelTypes DEF Subscribe
  <2> QED  BY <2>1, Zenon DEF EarlyInv, Replicates
<1>5. ASSUME NEW s \in Sides, NEW c \in Channels, OnDiscoveryKey(s, c)
      PROVE  EarlyInv'
    BY <1>5, Zenon DEF OnDiscoveryKey, EarlyInv, Replicates
<1> QED
    BY <1>1, <1>2, <1>3, <1>4, <1>5, HandshakeEarly, OnFeedEarly, ArrivesEarly,
       OnChannelEarly, Zenon
    DEF Next, Task

\* However opens, lookups and handshakes interleave, a channel that both sides
\* opened is reported to each of them once, and what both have opened for a
\* feed they had before the handshake gets its Peer (run_peer, lib.rs:133-150).
THEOREM ReplicatorInvariant == Spec => []ReplicatorInv
<1>1. Init => ConnectionsInv
    BY RemoteFacts DEF Init, Nothing, NoPeers, ConnectionsInv
<1>2. Init => EarlyInv
    BY DEF Init, Nothing, EarlyInv
<1>3. TypeOK /\ ConnectionsInv /\ EarlyInv <=> ReplicatorInv
    BY Zenon DEF ReplicatorInv
<1> QED  BY <1>1, <1>2, <1>3, InvStep, EarlyStep, TypeCorrect, PTL DEF Spec

\* A feed has at most one Peer on a connection, and only if both sides have
\* opened it by its public key (run_peer, lib.rs:133-150).
THEOREM PeersAlwaysAgree == Spec => []PeersAgree
<1>1. ReplicatorInv => PeersAgree
  <2> SUFFICES ASSUME ReplicatorInv, NEW s \in Sides, NEW k \in Feeds
               PROVE  LET c == DiscoveryKey(k) IN
                      /\ peers[s][c] <= 1
                      /\ peers[s][c] = 1 => /\ k \in feeds[s]
                                            /\ c \in opens[s] \cap opens[Remote(s)]
    BY DEF PeersAgree
  <2>1. DiscoveryKey(k) \in Channels /\ \A l : DiscoveryKey(l) = DiscoveryKey(k) => l = k
    BY ChannelFacts
  <2> QED  BY <2>1 DEF ReplicatorInv, ConnectionsInv
<1> QED  BY <1>1, ReplicatorInvariant, PTL

\* A settled connection replicates, on both sides, every feed that both had
\* before their handshakes (run_peer, lib.rs:133-150).
THEOREM SettledConnectionsReplicate == Spec => []SettledReplicates
<1>1. ReplicatorInv => SettledReplicates
  <2> SUFFICES ASSUME ReplicatorInv, NEW k \in Feeds, NEW s \in Sides,
                      \A t \in Sides : wire[t] = {} /\ channels[t] = {} /\ k \in early[t]
               PROVE  Replicates(s, k)
    BY Zenon DEF SettledReplicates
  <2>1. /\ Remote(s) \in Sides /\ Remote(Remote(s)) = s
        /\ EarlyInv
    BY RemoteFacts, Zenon DEF ReplicatorInv
  <2>2. DiscoveryKey(k) \in opens[Remote(s)]
    BY <2>1, Zenon DEF EarlyInv
  <2>3. opens[Remote(s)] \subseteq wire[s] \cup remote[s]
    BY <2>1, Zenon DEF EarlyInv
  <2>4. DiscoveryKey(k) \in remote[s]
    BY <2>2, <2>3
  <2> QED  BY <2>1, <2>4 DEF EarlyInv
<1> QED  BY <1>1, ReplicatorInvariant, PTL
=============================================================================

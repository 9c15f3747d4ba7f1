----------------------------- MODULE PeerProofs -----------------------------
(***************************************************************************)
(* Two inductive invariants of Peer, for any number of nodes, any length,  *)
(* any batches of appends, any range of a Want and any number of lost      *)
(* connections: PeerInv in every star topology, and StatsInv in every      *)
(* network.                                                                *)
(***************************************************************************)
EXTENDS Peer, FiniteSetTheorems, TLAPS

LEMMA PeerFacts ==
    ASSUME NEW p \in Peers
    PROVE  /\ p[1] \in Nodes /\ p[2] \in Nodes
           /\ Other(p) \in Peers
           /\ Other(p) # p
           /\ Other(p)[1] = p[2]
BY PeerAssumption, Zenon DEF Peers, Other

LEMMA StarFacts ==
    ASSUME StarTopology, NEW p \in Peers, p[1] # Writer
    PROVE  Other(p)[1] = Writer
BY Zenon DEF StarTopology, Peers, Other

LEMMA LenFacts ==
    ASSUME PeerInv
    PROVE  /\ len[Writer] \in 0 .. MaxLen /\ MaxLen \in Nat
           /\ \A n \in Nodes : len[n] \in 0 .. MaxLen /\ len[n] <= len[Writer]
           /\ Written \subseteq Indexes
<1>1. MaxLen \in Nat /\ Writer \in Nodes
    BY PeerAssumption, Zenon
<1> QED  BY <1>1 DEF PeerInv, Written, Indexes

\* What a message that can be on its way carries.
LEMMA MessageShape ==
    ASSUME NEW p \in Peers, NEW m \in SoundMessages(p)
    PROVE  /\ m.type = "have" => m.start \in Written
           /\ m.type = "bits" => m.set \in SUBSET Written
           /\ m.type = "request" => p[1] = Writer /\ m.index \in Written
           /\ m.type = "data" => /\ m.full = TRUE
                                 /\ m.index \in Written
                                 /\ m.len \in 0 .. len[Writer]
<1> DEFINE Asked == IF p[1] = Writer THEN Written ELSE {}
<1>1. CASE m \in {Open, Want}
    BY <1>1 DEF Open, Want
<1>2. CASE m \in {Have(i) : i \in Written}
    BY <1>2 DEF Have
<1>3. CASE m \in {Bits(S) : S \in SUBSET Written}
    BY <1>3 DEF Bits
<1>4. CASE m \in {Request(i) : i \in Asked}
    BY <1>4 DEF Request
<1>5. CASE m \in {Data(b[1], TRUE, b[2]) : b \in Written \X (0 .. len[Writer])}
    BY <1>5 DEF Data
<1> QED  BY <1>1, <1>2, <1>3, <1>4, <1>5, Zenon DEF SoundMessages

LEMMA DataSound ==
    ASSUME NEW p, NEW i \in Written, NEW l \in 0 .. len[Writer]
    PROVE  Data(i, TRUE, l) \in SoundMessages(p)
<1>1. PICK b \in Written \X (0 .. len[Writer]) : b[1] = i /\ b[2] = l
  <2>1. <<i, l>> \in Written \X (0 .. len[Writer]) /\ <<i, l>>[1] = i /\ <<i, l>>[2] = l
    BY Zenon
  <2> QED  BY <2>1, Zenon
<1>2. Data(i, TRUE, l) = Data(b[1], TRUE, b[2])
    BY <1>1, Zenon
<1> QED  BY <1>2, Zenon DEF SoundMessages

\* A feed that grows keeps every message and event sound.
LEMMA Monotone ==
    ASSUME len[Writer] \in Nat, len'[Writer] \in Nat, len[Writer] <= len'[Writer]
    PROVE  /\ Written \subseteq Written'
           /\ \A p \in Peers : SoundMessages(p) \subseteq SoundMessages(p)'
           /\ \A p \in Peers : SoundEvents(p) \subseteq SoundEvents(p)'
<1>1. Written \subseteq Written' /\ 0 .. len[Writer] \subseteq 0 .. len'[Writer]
    BY DEF Written
<1>2. ASSUME NEW p \in Peers, NEW m \in SoundMessages(p)
      PROVE  m \in SoundMessages(p)'
  <2> DEFINE Asked == IF p[1] = Writer THEN Written ELSE {}
  <2>1. CASE m \in {Open, Want}
    BY <2>1, Zenon DEF SoundMessages
  <2>2. CASE m \in {Have(i) : i \in Written}
    BY <1>1, <2>2, Zenon DEF SoundMessages
  <2>3. CASE m \in {Bits(S) : S \in SUBSET Written}
    BY <1>1, <2>3, Zenon DEF SoundMessages
  <2>4. CASE m \in {Request(i) : i \in Asked}
    BY <1>1, <2>4, Zenon DEF SoundMessages
  <2>5. CASE m \in {Data(b[1], TRUE, b[2]) : b \in Written \X (0 .. len[Writer])}
    BY <1>1, <2>5, Zenon DEF SoundMessages
  <2> QED  BY <2>1, <2>2, <2>3, <2>4, <2>5, Zenon DEF SoundMessages
<1>3. ASSUME NEW p \in Peers, NEW e \in SoundEvents(p)
      PROVE  e \in SoundEvents(p)'
    BY <1>1, <1>3 DEF SoundEvents
<1> QED  BY <1>1, <1>2, <1>3, Zenon

LEMMA GrowSeq ==
    ASSUME NEW S, NEW T, S \subseteq T, NEW s \in Seq(S)
    PROVE  s \in Seq(T)
OBVIOUS

LEMMA FunctionSeq ==
    ASSUME NEW S, NEW n \in Nat, NEW f \in [1 .. n -> S]
    PROVE  f \in Seq(S)
OBVIOUS

LEMMA HandleSound ==
    ASSUME PeerInv, NEW p \in Peers, inbox[p] # <<>>,
           NEW out \in Seq(SoundMessages(Other(p))), Handle(p, out)
    PROVE  /\ inbox' = [q \in Peers |-> inbox'[q]]
           /\ \A q \in Peers : inbox'[q] \in Seq(SoundMessages(q))
<1>1. inbox[p] \in Seq(SoundMessages(p)) /\ inbox[Other(p)] \in Seq(SoundMessages(Other(p)))
    BY PeerFacts, Zenon DEF PeerInv
<1>2. Tail(inbox[p]) \in Seq(SoundMessages(p))
    BY <1>1
<1>3. inbox[Other(p)] \o out \in Seq(SoundMessages(Other(p)))
    BY <1>1
<1> QED  BY <1>2, <1>3, PeerFacts, Zenon DEF Handle, PeerInv

LEMMA SendSound ==
    ASSUME PeerInv, NEW p \in Peers,
           NEW out \in Seq(SoundMessages(Other(p))), Send(p, out)
    PROVE  /\ inbox' = [q \in Peers |-> inbox'[q]]
           /\ \A q \in Peers : inbox'[q] \in Seq(SoundMessages(q))
<1>1. inbox[Other(p)] \o out \in Seq(SoundMessages(Other(p)))
    BY PeerFacts DEF PeerInv
<1> QED  BY <1>1, PeerFacts, Zenon DEF Send, PeerInv

\* The message a peer is about to handle is sound.
LEMMA HeadSound ==
    ASSUME PeerInv, NEW p \in Peers, inbox[p] # <<>>
    PROVE  Head(inbox[p]) \in SoundMessages(p)
BY DEF PeerInv

\* The feeds are left alone: what is sound stays what it is.
LEMMA SameFeeds ==
    ASSUME UNCHANGED len
    PROVE  /\ Written' = Written
           /\ \A p \in Peers : SoundMessages(p)' = SoundMessages(p)
           /\ \A p \in Peers : SoundEvents(p)' = SoundEvents(p)
BY Zenon DEF Written, SoundMessages, SoundEvents

\* A handler that only receives and sends.
LEMMA MessageStep ==
    ASSUME PeerInv, UNCHANGED <<len, has, events, drops>>,
           counting' \in SUBSET Peers,
           inbox' = [q \in Peers |-> inbox'[q]],
           \A q \in Peers : inbox'[q] \in Seq(SoundMessages(q)),
           status' \in [Peers -> {"init", "running", "closed"}],
           remote_want' \in [Peers -> BOOLEAN],
           uploaded' \in [Peers -> Nat],
           downloaded' \in [Peers -> Nat]
    PROVE  PeerInv'
BY SameFeeds, Zenon DEF PeerInv

-----------------------------------------------------------------------------
LEMMA StartInv ==
    ASSUME PeerInv, NEW p \in Peers, Start(p)
    PROVE  PeerInv'
<1>1. <<Want>> \in Seq(SoundMessages(Other(p)))
    BY DEF SoundMessages
<1> QED  BY <1>1, SendSound, MessageStep, Zenon DEF Start, PeerInv

LEMMA OnOpenInv ==
    ASSUME PeerInv, NEW p \in Peers, OnOpen(p)
    PROVE  PeerInv'
<1>1. <<Want>> \in Seq(SoundMessages(Other(p)))
    BY DEF SoundMessages
<1> QED  BY <1>1, HandleSound, MessageStep, Zenon DEF OnOpen, Gets, Waits, PeerInv

LEMMA OnWantInv ==
    ASSUME PeerInv, NEW p \in Peers, OnWant(p)
    PROVE  PeerInv'
<1> DEFINE n == p[1]
           last == IF ~remote_want[p] /\ len[n] > 0 THEN <<Have(len[n] - 1)>> ELSE <<>>
           bits == Bits(has[n] \cap 0 .. WantLen - 1)
<1>1. last \in Seq(SoundMessages(Other(p)))
  <2>1. len[n] > 0 => len[n] - 1 \in Written
    BY PeerFacts, LenFacts DEF Written
  <2>2. len[n] > 0 => Have(len[n] - 1) \in SoundMessages(Other(p))
    BY <2>1, Zenon DEF SoundMessages
  <2> QED  BY <2>2
<1>2. <<bits>> \in Seq(SoundMessages(Other(p)))
  <2>1. has[n] \cap 0 .. WantLen - 1 \in SUBSET Written
    BY PeerFacts, Zenon DEF PeerInv
  <2>2. bits \in SoundMessages(Other(p))
    BY <2>1, Zenon DEF SoundMessages
  <2> HIDE DEF bits
  <2> QED  BY <2>2
<1>3. last \o <<bits>> \in Seq(SoundMessages(Other(p)))
    BY <1>1, <1>2
<1>4. Handle(p, last \o <<bits>>) /\ inbox[p] # <<>>
    BY Zenon DEF OnWant, Gets, Waits
<1>5. remote_want' \in [Peers -> BOOLEAN]
    BY Zenon DEF OnWant, PeerInv
<1> HIDE DEF last, bits
<1> QED  BY <1>3, <1>4, <1>5, HandleSound, MessageStep, Zenon DEF OnWant, PeerInv

\* Requests for blocks that are announced go to the writer, or there are none.
LEMMA RequestsSound ==
    ASSUME PeerInv, StarTopology, NEW p \in Peers,
           NEW S \in SUBSET Written, NEW s \in Ascending(S \ has[p[1]])
    PROVE  Requests(s) \in Seq(SoundMessages(Other(p)))
<1> DEFINE W == S \ has[p[1]]
<1>1. IsFiniteSet(W) /\ Cardinality(W) \in Nat
  <2>1. IsFiniteSet(Written)
    BY LenFacts, FS_Interval DEF Written
  <2> QED  BY <2>1, FS_Subset, FS_CardinalityType, Zenon
<1>2. s \in [1 .. Cardinality(W) -> W]
    BY Zenon DEF Ascending
<1>3. CASE p[1] = Writer
  <2>1. W = {}
    BY <1>3, Zenon DEF PeerInv
  <2>2. DOMAIN s = {}
    BY <1>2, <2>1, FS_EmptySet, Zenon
  <2> QED  BY <2>2 DEF Requests
<1>4. CASE p[1] # Writer
  <2>1. \A i \in W : Request(i) \in SoundMessages(Other(p))
    BY <1>4, StarFacts, Zenon DEF SoundMessages
  <2>2. Requests(s) \in [1 .. Cardinality(W) -> SoundMessages(Other(p))]
    BY <1>2, <2>1, Zenon DEF Requests
  <2> QED  BY <1>1, <2>2, FunctionSeq, Zenon
<1> QED  BY <1>3, <1>4, Zenon

LEMMA OnHaveInv ==
    ASSUME PeerInv, StarTopology, NEW p \in Peers, OnHave(p)
    PROVE  PeerInv'
<1> DEFINE m == Head(inbox[p])
<1>1. inbox[p] # <<>> /\ m \in SoundMessages(p)
    BY HeadSound, Zenon DEF OnHave, Gets, Waits
<1>2. ASSUME NEW S \in SUBSET Written, NEW s \in Ascending(S \ has[p[1]]),
             Handle(p, Requests(s))
      PROVE  PeerInv'
  <2>1. Requests(s) \in Seq(SoundMessages(Other(p)))
    BY RequestsSound, Zenon
  <2> QED  BY <1>1, <1>2, <2>1, HandleSound, MessageStep, Zenon DEF OnHave, PeerInv
<1>3. CASE m.type = "have"
  <2>1. {m.start} \in SUBSET Written
    BY <1>1, <1>3, MessageShape, Zenon
  <2> QED  BY <1>2, <1>3, <2>1, Zenon DEF OnHave, Gets, Waits
<1>4. CASE m.type = "bits"
  <2>1. m.set \in SUBSET Written
    BY <1>1, <1>4, MessageShape, Zenon
  <2> QED  BY <1>2, <1>4, <2>1, Zenon DEF OnHave, Gets, Waits
<1> QED  BY <1>3, <1>4, Zenon DEF OnHave, Gets, Waits

LEMMA OnRequestInv ==
    ASSUME PeerInv, NEW p \in Peers, OnRequest(p)
    PROVE  PeerInv'
<1> DEFINE i == Head(inbox[p]).index
           d == Data(i, i \in has[p[1]], len[p[1]])
<1>1. inbox[p] # <<>> /\ p[1] = Writer /\ i \in Written
    BY HeadSound, MessageShape, Zenon DEF OnRequest, Gets, Waits
<1>2. (i \in has[p[1]]) = TRUE
    BY <1>1, Zenon DEF PeerInv
<1>3. <<d>> \in Seq(SoundMessages(Other(p)))
  <2>1. d = Data(i, TRUE, len[Writer])
    BY <1>1, <1>2, Zenon
  <2>2. len[Writer] \in 0 .. len[Writer]
    BY LenFacts
  <2>3. d \in SoundMessages(Other(p))
    BY <1>1, <2>1, <2>2, DataSound, Zenon
  <2> HIDE DEF d
  <2> QED  BY <2>3
<1>4. Handle(p, <<d>>)
    BY Zenon DEF OnRequest
<1>5. counting' \in SUBSET Peers
    BY Zenon DEF OnRequest, PeerInv
<1> HIDE DEF d
<1> QED  BY <1>1, <1>3, <1>4, <1>5, HandleSound, MessageStep, Zenon DEF OnRequest, PeerInv

LEMMA AddUploadedInv ==
    ASSUME PeerInv, NEW p \in Peers, AddUploaded(p)
    PROVE  PeerInv'
<1>1. uploaded' \in [Peers -> Nat]
    BY DEF AddUploaded, PeerInv
<1> QED  BY <1>1, SameFeeds, Zenon DEF AddUploaded, PeerInv

\* Feed::subscribe gives sound events to the peers.
LEMMA NotifySound ==
    ASSUME PeerInv, NEW n \in Nodes, NEW evs, Notify(n, evs),
           len'[Writer] \in Nat, len[Writer] <= len'[Writer],
           \A p \in Peers : p[1] = n => evs \in Seq(SoundEvents(p)')
    PROVE  /\ events' = [q \in Peers |-> events'[q]]
           /\ \A p \in Peers : events'[p] \in Seq(SoundEvents(p)')
<1>1. len[Writer] \in Nat
    BY LenFacts
<1>2. ASSUME NEW p \in Peers
      PROVE  events[p] \in Seq(SoundEvents(p)')
    BY <1>1, Monotone, GrowSeq, Zenon DEF PeerInv
<1>3. ASSUME NEW p \in Peers, p[1] = n
      PROVE  events[p] \o evs \in Seq(SoundEvents(p)')
    BY <1>2, <1>3
<1> QED  BY <1>2, <1>3, Zenon DEF Notify

LEMMA OnDataInv ==
    ASSUME PeerInv, NEW p \in Peers, OnData(p)
    PROVE  PeerInv'
<1> DEFINE n == p[1]
           d == Head(inbox[p])
<1>1. /\ inbox[p] # <<>> /\ n \in Nodes /\ Writer \in Nodes
      /\ d.full = TRUE /\ d.index \in Written /\ d.len \in 0 .. len[Writer]
    BY HeadSound, MessageShape, PeerFacts, PeerAssumption, Zenon DEF OnData, Gets, Waits
<1>2. PICK l \in (d.index + 1) .. d.len :
        len' = [len EXCEPT ![n] = IF l > @ THEN l ELSE @]
    BY Zenon DEF OnData
<1>3. l \in Nat /\ l <= len[Writer] /\ l <= MaxLen
    BY <1>1, <1>2, LenFacts DEF Written
<1>4. /\ len' \in [Nodes -> 0 .. MaxLen]
      /\ len'[Writer] = len[Writer]
      /\ \A k \in Nodes : len'[k] <= len'[Writer]
    BY <1>1, <1>2, <1>3, LenFacts DEF PeerInv
<1>5. /\ Written' = Written
      /\ \A q \in Peers : SoundMessages(q)' = SoundMessages(q)
      /\ \A q \in Peers : SoundEvents(q)' = SoundEvents(q)
    BY <1>4, Zenon DEF Written, SoundMessages, SoundEvents
<1>6. has' \in [Nodes -> SUBSET Written] /\ has'[Writer] = Written
    BY <1>1 DEF OnData, PeerInv
<1>7. /\ inbox' = [q \in Peers |-> inbox'[q]]
      /\ \A q \in Peers : inbox'[q] \in Seq(SoundMessages(q))
  <2>1. <<>> \in Seq(SoundMessages(Other(p))) /\ Handle(p, <<>>)
    BY DEF OnData
  <2> QED  BY <1>1, <2>1, HandleSound, Zenon
<1>8. /\ events' = [q \in Peers |-> events'[q]]
      /\ \A q \in Peers : events'[q] \in Seq(SoundEvents(q))
  <2>1. CASE UNCHANGED events
    BY <2>1, Zenon DEF PeerInv
  <2>2. CASE Notify(n, <<Download(d.index)>>)
    <3>1. \A q \in Peers : <<Download(d.index)>> \in Seq(SoundEvents(q)')
      BY <1>1, <1>5 DEF SoundEvents
    <3>2. len'[Writer] \in Nat /\ len[Writer] <= len'[Writer]
      BY <1>4, LenFacts
    <3>3. events' = [q \in Peers |-> events'[q]] /\ \A q \in Peers : events'[q] \in Seq(SoundEvents(q)')
      BY <1>1, <2>2, <3>1, <3>2, NotifySound, Zenon
    <3> QED  BY <1>5, <3>3, Zenon
  <2> QED  BY <2>1, <2>2, Zenon DEF OnData
<1>9. downloaded' \in [Peers -> Nat]
    BY DEF OnData, PeerInv
<1> QED  BY <1>4, <1>5, <1>6, <1>7, <1>8, <1>9, Zenon DEF OnData, PeerInv

LEMMA OnFeedEventInv ==
    ASSUME PeerInv, NEW p \in Peers, OnFeedEvent(p)
    PROVE  PeerInv'
<1> DEFINE e == Head(events[p])
<1>1. events[p] # <<>> /\ e \in SoundEvents(p) /\ events[p] \in Seq(SoundEvents(p))
    BY DEF OnFeedEvent, Waits, PeerInv
<1>2. ASSUME NEW i \in Written, Send(p, <<Have(i)>>)
      PROVE  /\ inbox' = [q \in Peers |-> inbox'[q]]
             /\ \A q \in Peers : inbox'[q] \in Seq(SoundMessages(q))
  <2>0. Have(i) \in SoundMessages(Other(p))
    BY Zenon DEF SoundMessages
  <2>1. <<Have(i)>> \in Seq(SoundMessages(Other(p)))
    BY <2>0
  <2> QED  BY <1>2, <2>1, SendSound, Zenon
<1>3. e.type = "download" => e.index \in Written
    BY <1>1 DEF SoundEvents, Download, Appended
<1>4. e.type = "append" => len[p[1]] - 1 \in Written
    BY <1>1, LenFacts DEF SoundEvents, Download, Appended, Written
<1>5. /\ inbox' = [q \in Peers |-> inbox'[q]]
      /\ \A q \in Peers : inbox'[q] \in Seq(SoundMessages(q))
    BY <1>2, <1>3, <1>4, Zenon DEF OnFeedEvent
<1>6. /\ events' = [q \in Peers |-> events'[q]]
      /\ \A q \in Peers : events'[q] \in Seq(SoundEvents(q))
  <2>1. Tail(events[p]) \in Seq(SoundEvents(p))
    BY <1>1
  <2>2. events' = [events EXCEPT ![p] = Tail(events[p])]
    BY Zenon DEF OnFeedEvent
  <2>3. /\ events = [q \in Peers |-> events[q]]
        /\ \A q \in Peers : events[q] \in Seq(SoundEvents(q))
    BY Zenon DEF PeerInv
  <2>4. DOMAIN events = Peers
    BY <2>3, Zenon
  <2>5. events' = [q \in Peers |-> IF q = p THEN Tail(events[p]) ELSE events[q]]
    BY <2>2, <2>4, Zenon
  <2> QED  BY <2>1, <2>3, <2>5, Zenon
<1> QED  BY <1>5, <1>6, SameFeeds, Zenon DEF OnFeedEvent, Waits, PeerInv

LEMMA AppendInv ==
    ASSUME PeerInv, NEW k \in 1 .. MaxBatch, AppendBlocks(k)
    PROVE  PeerInv'
<1> DEFINE l == len[Writer] + k
<1>0. MaxBatch \in Nat /\ Writer \in Nodes /\ k \in Nat /\ k > 0
    BY PeerAssumption
<1>1. l \in 1 .. MaxLen /\ len[Writer] < l
    BY <1>0, LenFacts DEF AppendBlocks
<1>2. /\ len' \in [Nodes -> 0 .. MaxLen] /\ len'[Writer] = l
      /\ \A n \in Nodes : len'[n] <= l
  <2>1. len' = [len EXCEPT ![Writer] = l] /\ len \in [Nodes -> 0 .. MaxLen]
    BY Zenon DEF AppendBlocks, PeerInv
  <2> HIDE DEF l
  <2> QED  BY <1>0, <1>1, <2>1, LenFacts
<1>3. /\ Written' = 0 .. l - 1 /\ Written \subseteq Written'
      /\ \A p \in Peers : SoundMessages(p) \subseteq SoundMessages(p)'
    BY <1>1, <1>2, LenFacts, Monotone DEF Written
<1>4. has' \in [Nodes -> SUBSET Written'] /\ has'[Writer] = Written'
    BY <1>0, <1>3, Zenon DEF AppendBlocks, PeerInv
<1>5. \A p \in Peers : inbox'[p] \in Seq(SoundMessages(p)')
    BY <1>3, GrowSeq, Zenon DEF AppendBlocks, PeerInv
<1>6. events' = [q \in Peers |-> events'[q]] /\ \A p \in Peers : events'[p] \in Seq(SoundEvents(p)')
  <2>1. \A p \in Peers : p[1] = Writer => Appended \in SoundEvents(p)'
    BY <1>1, <1>2 DEF SoundEvents
  <2>2. \A p \in Peers : p[1] = Writer =>
            [i \in 1 .. k |-> Appended] \in Seq(SoundEvents(p)')
    BY <1>0, <2>1
  <2>3. Notify(Writer, [i \in 1 .. k |-> Appended])
    BY Zenon DEF AppendBlocks
  <2>4. len'[Writer] \in Nat /\ len[Writer] <= len'[Writer]
    BY <1>1, <1>2, LenFacts
  <2> QED  BY <1>0, <2>2, <2>3, <2>4, NotifySound, Zenon
<1> QED  BY <1>2, <1>4, <1>5, <1>6, Zenon DEF AppendBlocks, PeerInv

LEMMA ConnectionInv ==
    ASSUME PeerInv, NEW p \in Peers, Disconnect(p) \/ Reconnect(p)
    PROVE  PeerInv'
<1>1. CASE Disconnect(p)
  <2>1. drops' \in 0 .. MaxDrops
    BY <1>1, PeerAssumption DEF Disconnect, PeerInv
  <2> QED  BY <1>1, <2>1, SameFeeds DEF Disconnect, PeerInv
<1>2. CASE Reconnect(p)
  <2>1. \A q \in Peers : <<Open>> \in Seq(SoundMessages(q))
    BY DEF SoundMessages
  <2> QED  BY <1>2, <2>1, SameFeeds, Zenon DEF Reconnect, PeerInv
<1> QED  BY <1>1, <1>2, Zenon

LEMMA NeverFails ==
    ASSUME PeerInv, NEW p \in Peers
    PROVE  ~Fails(p)
BY HeadSound, MessageShape, Zenon DEF Fails, Gets, Waits, PeerInv

LEMMA InitInv ==
    ASSUME Init
    PROVE  PeerInv
<1>1. /\ len \in [Nodes -> 0 .. MaxLen]
      /\ has \in [Nodes -> SUBSET Indexes]
      /\ \A n \in Nodes : len[n] <= len[Writer] /\ has[n] \subseteq 0 .. len[n] - 1
      /\ has[Writer] = Written
    BY Zenon DEF Init, Written
<1>2. MaxLen \in Nat /\ MaxDrops \in Nat /\ Writer \in Nodes
    BY PeerAssumption, Zenon
<1>3. ASSUME NEW n \in Nodes
      PROVE  has[n] \subseteq Written
    BY <1>1, <1>2, <1>3 DEF Written
<1>4. has \in [Nodes -> SUBSET Written]
    BY <1>1, <1>3, Zenon
<1>5. \A p \in Peers : inbox[p] \in Seq(SoundMessages(p))
  <2>1. \A p \in Peers : Open \in SoundMessages(p)
    BY Zenon DEF SoundMessages
  <2> SUFFICES ASSUME NEW p \in Peers PROVE inbox[p] \in Seq(SoundMessages(p))
    BY Zenon
  <2>2. inbox[p] = <<>> \/ inbox[p] = <<Open>>
    BY Zenon DEF Init
  <2>3. Open \in SoundMessages(p)
    BY <2>1, Zenon
  <2>4. <<Open>> \in Seq(SoundMessages(p)) /\ <<>> \in Seq(SoundMessages(p))
    BY <2>3
  <2> QED  BY <2>2, <2>4, Zenon
<1>6. drops \in 0 .. MaxDrops
    BY <1>2 DEF Init
<1> QED  BY <1>1, <1>4, <1>5, <1>6 DEF Init, PeerInv

\* In a star, whatever the order of messages, events, appends and lost
\* connections, the invariant holds.
THEOREM PeerInvariant ==
    ASSUME StarTopology
    PROVE  Spec => []PeerInv
<1>1. PeerInv /\ [Next]_vars => PeerInv'
  <2> SUFFICES ASSUME PeerInv, [Next]_vars PROVE PeerInv'
    BY Zenon
  <2>1. CASE UNCHANGED vars
    BY <2>1, SameFeeds, Zenon DEF vars, PeerInv
  <2>2. ASSUME NEW p \in Peers, Run(p)
        PROVE  PeerInv'
    BY <2>2, StartInv, OnOpenInv, OnWantInv, OnHaveInv, OnRequestInv, AddUploadedInv,
       OnDataInv, OnFeedEventInv, NeverFails, Zenon
       DEF Run
  <2> QED  BY <2>1, <2>2, AppendInv, ConnectionInv, Zenon DEF Next
<1> QED  BY <1>1, InitInv, PTL DEF Spec

\* In a star a block is only requested from the writer, which holds it, and
\* no peer's run() ends with an error (on_request, peer.rs:304-331).
THEOREM RequestsAreServable ==
    ASSUME StarTopology
    PROVE  Spec => []RequestsServable
<1>1. PeerInv => RequestsServable
  <2> SUFFICES ASSUME PeerInv, NEW p \in Peers, NEW i \in DOMAIN inbox[p],
                      inbox[p][i].type = "request"
               PROVE  inbox[p][i].index \in has[p[1]]
    BY Zenon DEF PeerInv, RequestsServable
  <2>1. inbox[p][i] \in SoundMessages(p)
    BY DEF PeerInv
  <2> QED  BY <2>1, MessageShape, Zenon DEF PeerInv
<1> QED  BY <1>1, PeerInvariant, PTL
-----------------------------------------------------------------------------
(* The statistics of two ends, in any network.                             *)

DataIn(s) == {i \in DOMAIN s : s[i].type = "data"}

\* The blocks on their way in a channel can be counted.
LEMMA DataFinite ==
    ASSUME NEW S, NEW s \in Seq(S)
    PROVE  IsFiniteSet(DataIn(s)) /\ Cardinality(DataIn(s)) \in Nat
<1>1. IsFiniteSet(1 .. Len(s)) /\ DataIn(s) \in SUBSET (1 .. Len(s))
    BY FS_Interval DEF DataIn
<1> QED  BY <1>1, FS_Subset, FS_CardinalityType, Zenon

\* A message other than Data leaves the count alone.
LEMMA DataKept ==
    ASSUME NEW S, NEW s \in Seq(S), NEW t \in Seq(S),
           \A i \in DOMAIN t : t[i].type # "data"
    PROVE  DataIn(s \o t) = DataIn(s)
BY DEF DataIn

\* A Data that is sent adds one (on_request).
LEMMA DataSent ==
    ASSUME NEW S, NEW s \in Seq(S), NEW d \in S, d.type = "data"
    PROVE  Cardinality(DataIn(s \o <<d>>)) = Cardinality(DataIn(s)) + 1
<1>1. DataIn(s \o <<d>>) = DataIn(s) \cup {Len(s) + 1}
    BY DEF DataIn
<1>2. Len(s) + 1 \notin DataIn(s)
    BY DEF DataIn
<1> QED  BY <1>1, <1>2, DataFinite, FS_AddElement, Zenon

\* A message that is taken takes one away if it is a Data (on_data).
LEMMA DataTaken ==
    ASSUME NEW S, NEW s \in Seq(S), s # <<>>
    PROVE  Cardinality(DataIn(s)) =
             Cardinality(DataIn(Tail(s))) + IF Head(s).type = "data" THEN 1 ELSE 0
<1> DEFINE T == DataIn(Tail(s))
           U == {i \in DataIn(s) : i # 1}
           f == [i \in T |-> i + 1]
<1>1. Tail(s) \in Seq(S) /\ Len(Tail(s)) = Len(s) - 1 /\ Len(s) \in Nat \ {0}
    OBVIOUS
<1>2. \A i \in 1 .. Len(s) - 1 : Tail(s)[i] = s[i + 1]
    BY <1>1
<1>3. T = {i \in 1 .. Len(s) - 1 : s[i + 1].type = "data"}
    BY <1>1, <1>2 DEF DataIn
<1>4. U = {i \in 2 .. Len(s) : s[i].type = "data"}
    BY <1>1 DEF DataIn
<1>5. f \in Bijection(T, U)
  <2>1. f \in [T -> U]
    BY <1>1, <1>3, <1>4
  <2>2. \A i, j \in T : f[i] = f[j] => i = j
    BY <1>1, <1>3
  <2>3. ASSUME NEW u \in U
        PROVE  \E i \in T : f[i] = u
    <3>1. u - 1 \in T /\ f[u - 1] = u
      BY <1>1, <1>3, <1>4
    <3> QED  BY <3>1, Zenon
  <2> HIDE DEF f, T, U
  <2>4. f \in Injection(T, U)
    BY <2>1, <2>2, Zenon DEF Injection, IsInjective
  <2>5. f \in Surjection(T, U)
    BY <2>1, <2>3, Zenon DEF Surjection
  <2> QED  BY <2>4, <2>5, Zenon DEF Bijection
<1>6. Cardinality(U) = Cardinality(T) /\ IsFiniteSet(U)
    BY <1>1, <1>5, DataFinite, FS_Bijection, Zenon DEF ExistsBijection
<1>7. CASE Head(s).type = "data"
  <2>1. DataIn(s) = U \cup {1} /\ 1 \notin U
    BY <1>1, <1>7 DEF DataIn
  <2> QED  BY <1>6, <1>7, <2>1, FS_AddElement, Zenon
<1>8. CASE Head(s).type # "data"
  <2>1. DataIn(s) = U
    BY <1>1, <1>8 DEF DataIn
  <2>2. Cardinality(T) \in Nat
    BY <1>1, DataFinite, Zenon
  <2> HIDE DEF T, U
  <2>3. Cardinality(DataIn(s)) = Cardinality(T) + 0
    BY <1>6, <2>1, <2>2
  <2> QED  BY <1>8, <2>3, Zenon DEF T
<1> QED  BY <1>7, <1>8, Zenon

LEMMA FlightFacts ==
    ASSUME StatsInv, NEW p \in Peers
    PROVE  /\ InFlight(p) = Cardinality(DataIn(inbox[p]))
           /\ InFlight(p) \in Nat
<1>1. inbox[p] \in Seq(Messages)
    BY Zenon DEF StatsInv, TypeOK
<1> QED  BY <1>1, DataFinite, Zenon DEF InFlight, DataIn

LEMMA EndFacts ==
    ASSUME NEW p \in Peers
    PROVE  /\ Other(p) \in Peers /\ Other(p) # p
           /\ Other(Other(p)) = p /\ Ends(p) = {p, Other(p)}
           /\ \A q \in Peers : Other(q) \in Ends(p) <=> q \in Ends(p)
BY PeerAssumption DEF Peers, Other, Ends

LEMMA SentFacts ==
    ASSUME StatsInv, NEW p \in Peers
    PROVE  Sent(p) \in Nat
BY DEF StatsInv, TypeOK, Sent

\* A step of a live peer that takes and counts r blocks from its channel and
\* sends k keeps the ends in agreement.
LEMMA CountedStep ==
    ASSUME StatsInv, NEW p \in Peers, status[p] \in {"init", "running"},
           NEW r \in {0, 1}, NEW k \in {0, 1},
           \A q \in Peers : q \notin Ends(p) => inbox'[q] = inbox[q],
           InFlight(p)' \in Nat, InFlight(p) = InFlight(p)' + r,
           InFlight(Other(p))' = InFlight(Other(p)) + k,
           Sent(p)' = Sent(p) + k, \A q \in Peers : q # p => Sent(q)' = Sent(q),
           downloaded' = [downloaded EXCEPT ![p] = @ + r],
           counting' \subseteq counting \cup {p},
           \A q \in Peers : status'[q] = status[q] \/ (q = p /\ status'[q] = "running")
    PROVE  StatsAgree' /\ ClosedIsEmpty'
<1> DEFINE o == Other(p)
<1>1. /\ o \in Peers /\ o # p /\ Other(o) = p /\ Ends(p) = {p, o}
      /\ \A q \in Peers : Other(q) \in Ends(p) <=> q \in Ends(p)
    BY EndFacts, Zenon
<1>2. downloaded \in [Peers -> Nat] /\ \A q \in Peers : Sent(q) \in Nat
    BY SentFacts, Zenon DEF StatsInv, TypeOK
<1>3. status[o] # "closed"
    BY <1>1, Zenon DEF StatsInv, ClosedIsEmpty
<1>4. ClosedIsEmpty'
  <2> SUFFICES ASSUME NEW q \in Peers, status'[q] = "closed"
               PROVE  status'[Other(q)] = "closed" /\ inbox'[q] = <<>> /\ q \notin counting'
    BY Zenon DEF ClosedIsEmpty
  <2>1. status[q] = "closed" /\ q \notin Ends(p)
    BY <1>1, <1>3, Zenon
  <2>2. /\ status[Other(q)] = "closed" /\ inbox[q] = <<>> /\ Other(q) # p
        /\ q \notin counting /\ q # p
    BY <1>1, <2>1, Zenon DEF StatsInv, ClosedIsEmpty
  <2>3. Other(q) \in Peers
    BY EndFacts, Zenon
  <2> QED  BY <2>1, <2>2, <2>3, Zenon
<1>5. StatsAgree'
  <2> SUFFICES ASSUME NEW q \in Peers,
                      \A e \in Ends(q) : status'[e] \in {"init", "running"}
               PROVE  Sent(q)' = downloaded'[Other(q)] + InFlight(Other(q))'
    BY Zenon DEF StatsAgree
  <2>0. /\ Other(q) \in Peers /\ Ends(q) = {q, Other(q)}
        /\ InFlight(Other(q)) \in Nat /\ InFlight(p) \in Nat
    BY EndFacts, FlightFacts, Zenon
  <2>1. Sent(q) = downloaded[Other(q)] + InFlight(Other(q))
    <3>1. \A e \in Ends(q) : status[e] \in {"init", "running"}
      BY <2>0, Zenon
    <3> QED  BY <3>1, Zenon DEF StatsInv, StatsAgree
  <2>2. CASE q = p
    <3>1. InFlight(Other(q))' = InFlight(Other(q)) + k /\ downloaded'[o] = downloaded[o]
      BY <1>1, <1>2, <2>2, Zenon
    <3>2. Sent(q)' = Sent(q) + k
      BY <1>2, <2>2, Zenon
    <3> QED  BY <1>1, <1>2, <2>0, <2>1, <2>2, <3>1, <3>2
  <2>3. CASE q = o
    <3>1. InFlight(Other(q)) = InFlight(p)' + r /\ downloaded'[p] = downloaded[p] + r
      BY <1>1, <1>2, <2>3, Zenon
    <3>2. Sent(q)' = Sent(q)
      BY <1>1, <1>2, <2>3, Zenon
    <3> QED  BY <1>1, <1>2, <2>0, <2>1, <2>3, <3>1, <3>2
  <2>4. CASE q \notin Ends(p)
    <3>1. Other(q) \notin Ends(p)
      BY <1>1, <2>4, Zenon
    <3>2. InFlight(Other(q))' = InFlight(Other(q))
      BY <2>0, <3>1, ZenonT(30) DEF InFlight
    <3>3. Sent(q)' = Sent(q) /\ downloaded'[Other(q)] = downloaded[Other(q)]
      BY <1>1, <1>2, <2>0, <2>4, <3>1
    <3> QED  BY <2>1, <3>2, <3>3, Zenon
  <2> QED  BY <1>1, <2>2, <2>3, <2>4, Zenon
<1> QED  BY <1>4, <1>5, Zenon

\* What a message of any network carries.
LEMMA MessageParts ==
    ASSUME NEW m \in Messages
    PROVE  /\ m.type = "have" => m.start \in Indexes
           /\ m.type = "bits" => m.set \in SUBSET Indexes
           /\ m.type = "request" => m.index \in Indexes
           /\ m.type = "data" => /\ m.index \in Indexes
                                 /\ m.full \in BOOLEAN
                                 /\ m.len \in 0 .. MaxLen
<1> DEFINE Blocks == Indexes \X BOOLEAN \X (0 .. MaxLen)
<1>1. CASE m \in {Open, Want}
    BY <1>1 DEF Open, Want
<1>2. CASE m \in {Have(i) : i \in Indexes}
    BY <1>2 DEF Have
<1>3. CASE m \in {Bits(S) : S \in SUBSET Indexes}
    BY <1>3 DEF Bits
<1>4. CASE m \in {Request(i) : i \in Indexes}
    BY <1>4 DEF Request
<1>5. CASE m \in {Data(b[1], b[2], b[3]) : b \in Blocks}
  <2>1. PICK b \in Blocks : m = Data(b[1], b[2], b[3])
    BY <1>5, Zenon
  <2>2. m.type = "data" /\ m.index = b[1] /\ m.full = b[2] /\ m.len = b[3]
    BY <2>1, Zenon DEF Data
  <2> QED  BY <2>1, <2>2, Zenon
<1> QED  BY <1>1, <1>2, <1>3, <1>4, <1>5, Zenon DEF Messages

LEMMA DataMessage ==
    ASSUME NEW i \in Indexes, NEW full \in BOOLEAN, NEW l \in 0 .. MaxLen
    PROVE  Data(i, full, l) \in Messages
<1>1. <<i, full, l>> \in Indexes \X BOOLEAN \X (0 .. MaxLen)
    BY Zenon
<1>2. \E b \in Indexes \X BOOLEAN \X (0 .. MaxLen) : Data(i, full, l) = Data(b[1], b[2], b[3])
  <2>1. Data(i, full, l) = Data(<<i, full, l>>[1], <<i, full, l>>[2], <<i, full, l>>[3])
    BY Zenon
  <2> QED  BY <1>1, <2>1, Zenon
<1> QED  BY <1>2, Zenon DEF Messages

\* A handler that takes a message other than Data and sends other ones.
LEMMA TakeAndSend ==
    ASSUME StatsInv, NEW p \in Peers, inbox[p] # <<>>,
           NEW out \in Seq(Messages), Handle(p, out)
    PROVE  /\ inbox' \in [Peers -> Seq(Messages)]
           /\ \A q \in Peers : q \notin Ends(p) => inbox'[q] = inbox[q]
           /\ InFlight(p)' = Cardinality(DataIn(Tail(inbox[p])))
           /\ InFlight(p)' \in Nat
           /\ InFlight(p) = InFlight(p)' + IF Head(inbox[p]).type = "data" THEN 1 ELSE 0
           /\ InFlight(Other(p))' = Cardinality(DataIn(inbox[Other(p)] \o out))
<1> DEFINE o == Other(p)
<1>1. o \in Peers /\ o # p /\ Ends(p) = {p, o}
    BY EndFacts, Zenon
<1>2. inbox \in [Peers -> Seq(Messages)]
    BY Zenon DEF StatsInv, TypeOK
<1>3. inbox[p] \in Seq(Messages) /\ Tail(inbox[p]) \in Seq(Messages)
      /\ inbox[o] \o out \in Seq(Messages)
    BY <1>1, <1>2
<1>4. inbox' = [q \in Peers |-> IF q = p THEN Tail(inbox[p])
                                ELSE IF q = o THEN inbox[o] \o out ELSE inbox[q]]
  <2>1. inbox' = [inbox EXCEPT ![p] = Tail(inbox[p]), ![o] = inbox[o] \o out]
    BY <1>1, <1>2, Zenon DEF Handle
  <2> HIDE DEF o
  <2> QED  BY <1>1, <1>2, <2>1, Zenon
<1>5. inbox' \in [Peers -> Seq(Messages)]
    BY <1>2, <1>3, <1>4, Zenon
<1>6. inbox'[p] = Tail(inbox[p]) /\ inbox'[o] = inbox[o] \o out
    BY <1>1, <1>4, Zenon
<1>7. \A q \in Peers : q \notin Ends(p) => inbox'[q] = inbox[q]
    BY <1>1, <1>4, Zenon
<1>8. InFlight(p)' = Cardinality(DataIn(Tail(inbox[p])))
    BY <1>6, Zenon DEF InFlight, DataIn
<1>9. InFlight(o)' = Cardinality(DataIn(inbox[o] \o out))
    BY <1>6, Zenon DEF InFlight, DataIn
<1>10. /\ InFlight(p)' \in Nat
       /\ InFlight(p) = InFlight(p)' + IF Head(inbox[p]).type = "data" THEN 1 ELSE 0
    BY <1>3, <1>8, FlightFacts, DataFinite, DataTaken, Zenon
<1> QED  BY <1>5, <1>7, <1>8, <1>9, <1>10, Zenon

\* A step that only sends, other messages than Data.
LEMMA SendOnly ==
    ASSUME StatsInv, NEW p \in Peers, NEW out \in Seq(Messages), Send(p, out),
           \A i \in DOMAIN out : out[i].type # "data"
    PROVE  /\ inbox' \in [Peers -> Seq(Messages)]
           /\ \A q \in Peers : q \notin Ends(p) => inbox'[q] = inbox[q]
           /\ InFlight(p)' = InFlight(p)
           /\ InFlight(Other(p))' = InFlight(Other(p))
<1> DEFINE o == Other(p)
<1>1. o \in Peers /\ o # p /\ Ends(p) = {p, o}
    BY EndFacts, Zenon
<1>2. inbox \in [Peers -> Seq(Messages)]
    BY Zenon DEF StatsInv, TypeOK
<1>3. inbox[o] \in Seq(Messages) /\ inbox[o] \o out \in Seq(Messages)
    BY <1>1, <1>2
<1>4. inbox' = [q \in Peers |-> IF q = o THEN inbox[o] \o out ELSE inbox[q]]
    BY <1>1, <1>2, Zenon DEF Send
<1>5. DataIn(inbox[o] \o out) = DataIn(inbox[o])
    BY <1>3, DataKept, Zenon
<1>6. inbox'[p] = inbox[p] /\ inbox'[o] = inbox[o] \o out
    BY <1>1, <1>4, Zenon
<1>7. InFlight(p)' = InFlight(p)
    BY <1>6, Zenon DEF InFlight
<1>8. InFlight(o)' = InFlight(o)
    BY <1>5, <1>6, Zenon DEF InFlight, DataIn
<1>9. inbox' \in [Peers -> Seq(Messages)] /\ \A q \in Peers : q \notin Ends(p) => inbox'[q] = inbox[q]
    BY <1>1, <1>2, <1>3, <1>4, Zenon
<1> QED  BY <1>7, <1>8, <1>9, Zenon

\* A step that neither uploads nor downloads a block.
LEMMA QuietStep ==
    ASSUME StatsInv, NEW p \in Peers, status[p] \in {"init", "running"},
           inbox' \in [Peers -> Seq(Messages)],
           \A q \in Peers : q \notin Ends(p) => inbox'[q] = inbox[q],
           InFlight(p)' = InFlight(p), InFlight(Other(p))' = InFlight(Other(p)),
           UNCHANGED <<len, has, counting, uploaded, downloaded, drops>>,
           status' = status \/ status' = [status EXCEPT ![p] = "running"],
           remote_want' \in [Peers -> BOOLEAN],
           events' \in [Peers -> Seq(FeedEvents)],
           \A q \in Peers : events'[q] \in Seq(FeedEventsOf(q))
    PROVE  StatsInv'
<1>1. status \in [Peers -> {"init", "running", "dead", "closed"}]
    BY Zenon DEF StatsInv, TypeOK
<1>2. /\ status' \in [Peers -> {"init", "running", "dead", "closed"}]
      /\ \A q \in Peers : status'[q] = status[q] \/ (q = p /\ status'[q] = "running")
    BY <1>1, Zenon
<1>3. TypeOK'
    BY <1>2, Zenon DEF StatsInv, TypeOK
<1>4. \A q \in Peers : FeedEventsOf(q)' = FeedEventsOf(q)
    BY Zenon DEF FeedEventsOf
<1>5. uploaded \in [Peers -> Nat] /\ downloaded \in [Peers -> Nat]
    BY Zenon DEF StatsInv, TypeOK
<1>6. /\ Sent(p)' = Sent(p) + 0 /\ \A q \in Peers : q # p => Sent(q)' = Sent(q)
      /\ downloaded' = [downloaded EXCEPT ![p] = @ + 0]
      /\ counting' \subseteq counting \cup {p}
    BY <1>5, SentFacts DEF Sent
<1>7. /\ InFlight(p)' \in Nat /\ InFlight(p) = InFlight(p)' + 0
      /\ InFlight(Other(p))' = InFlight(Other(p)) + 0
    BY FlightFacts, EndFacts
<1>8. StatsAgree' /\ ClosedIsEmpty'
  <2>1. 0 \in {0, 1}
    BY Zenon
  <2> QED  BY <1>2, <1>6, <1>7, <2>1, CountedStep, Zenon
<1> QED  BY <1>3, <1>4, <1>8, Zenon DEF StatsInv

\* A handler that takes a message other than Data and sends other ones.
LEMMA QuietHandler ==
    ASSUME StatsInv, NEW p \in Peers, NEW type, type # "data", Gets(p, type),
           NEW out \in Seq(Messages), Handle(p, out),
           \A i \in DOMAIN out : out[i].type # "data",
           UNCHANGED <<len, has, status, events, counting, uploaded, downloaded, drops>>,
           remote_want' \in [Peers -> BOOLEAN]
    PROVE  StatsInv'
<1>1. inbox[p] # <<>> /\ status[p] = "running" /\ Head(inbox[p]).type # "data"
    BY Zenon DEF Gets, Waits
<1>2. Other(p) \in Peers /\ inbox[Other(p)] \in Seq(Messages)
    BY EndFacts DEF StatsInv, TypeOK
<1>3. /\ inbox' \in [Peers -> Seq(Messages)]
      /\ \A q \in Peers : q \notin Ends(p) => inbox'[q] = inbox[q]
      /\ InFlight(p)' \in Nat
      /\ InFlight(p) = InFlight(p)' + IF Head(inbox[p]).type = "data" THEN 1 ELSE 0
      /\ InFlight(Other(p))' = Cardinality(DataIn(inbox[Other(p)] \o out))
    BY <1>1, TakeAndSend, Zenon
<1>4. InFlight(p)' = InFlight(p)
    BY <1>1, <1>3
<1>5. InFlight(Other(p))' = InFlight(Other(p))
    BY <1>2, <1>3, DataKept, FlightFacts, Zenon
<1>6. events' \in [Peers -> Seq(FeedEvents)] /\ \A q \in Peers : events'[q] \in Seq(FeedEventsOf(q))
    BY Zenon DEF StatsInv, TypeOK
<1> QED  BY <1>1, <1>3, <1>4, <1>5, <1>6, QuietStep, Zenon

LEMMA StartStats ==
    ASSUME StatsInv, NEW p \in Peers, Start(p)
    PROVE  StatsInv'
<1>1. <<Want>> \in Seq(Messages) /\ \A i \in DOMAIN <<Want>> : <<Want>>[i].type # "data"
    BY DEF Messages, Want
<1>2. /\ inbox' \in [Peers -> Seq(Messages)]
      /\ \A q \in Peers : q \notin Ends(p) => inbox'[q] = inbox[q]
      /\ InFlight(p)' = InFlight(p)
      /\ InFlight(Other(p))' = InFlight(Other(p))
    BY <1>1, SendOnly, Zenon DEF Start
<1>3. /\ remote_want' \in [Peers -> BOOLEAN] /\ events' \in [Peers -> Seq(FeedEvents)]
      /\ \A q \in Peers : events'[q] \in Seq(FeedEventsOf(q))
    BY Zenon DEF Start, StatsInv, TypeOK
<1>4. status[p] \in {"init", "running"}
    BY Zenon DEF Start
<1> QED  BY <1>2, <1>3, <1>4, QuietStep, Zenon DEF Start

LEMMA OnOpenStats ==
    ASSUME StatsInv, NEW p \in Peers, OnOpen(p)
    PROVE  StatsInv'
<1>1. <<Want>> \in Seq(Messages) /\ \A i \in DOMAIN <<Want>> : <<Want>>[i].type # "data"
    BY DEF Messages, Want
<1>2. remote_want' \in [Peers -> BOOLEAN]
    BY Zenon DEF OnOpen, StatsInv, TypeOK
<1> QED  BY <1>1, <1>2, QuietHandler, Zenon DEF OnOpen

\* What on_want answers: messages other than Data, the bitfield among them.
LEMMA WantReply ==
    ASSUME StatsInv, NEW p \in Peers, OnWant(p)
    PROVE  \E out \in Seq(Messages) :
              /\ Handle(p, out)
              /\ \A i \in DOMAIN out : out[i].type # "data"
              /\ \E i \in DOMAIN out : out[i] = Bits(has[p[1]] \cap 0 .. WantLen - 1)
<1> DEFINE n == p[1]
           last == IF ~remote_want[p] /\ len[n] > 0 THEN <<Have(len[n] - 1)>> ELSE <<>>
           bits == Bits(has[n] \cap 0 .. WantLen - 1)
<1>1. n \in Nodes /\ MaxLen \in Nat /\ len[n] \in 0 .. MaxLen /\ has[n] \in SUBSET Indexes
    BY PeerFacts, PeerAssumption, Zenon DEF StatsInv, TypeOK
<1>2. /\ last \in Seq(Messages)
      /\ \A i \in DOMAIN last : last[i].type # "data"
  <2>1. len[n] > 0 => len[n] - 1 \in Indexes
    BY <1>1 DEF Indexes
  <2>2. len[n] > 0 => Have(len[n] - 1) \in Messages
    BY <2>1, Zenon DEF Messages
  <2>3. Have(len[n] - 1).type # "data"
    BY Zenon DEF Have
  <2> HIDE DEF n
  <2> QED  BY <2>2, <2>3
<1>3. bits \in Messages /\ bits.type # "data"
  <2>1. has[n] \cap 0 .. WantLen - 1 \in SUBSET Indexes
    BY <1>1, Zenon
  <2>2. bits \in Messages
    BY <2>1, Zenon DEF Messages
  <2> QED  BY <2>2, Zenon DEF Bits
<1> DEFINE out == last \o <<bits>>
<1>4. /\ out \in Seq(Messages)
      /\ \A i \in DOMAIN out : out[i].type # "data"
      /\ Len(out) \in DOMAIN out /\ out[Len(out)] = bits
  <2> HIDE DEF last, bits
  <2> QED  BY <1>2, <1>3
<1>5. Handle(p, out)
    BY Zenon DEF OnWant
<1> HIDE DEF out
<1> QED  BY <1>4, <1>5, Zenon

LEMMA OnWantStats ==
    ASSUME StatsInv, NEW p \in Peers, OnWant(p)
    PROVE  StatsInv'
<1>1. remote_want' \in [Peers -> BOOLEAN]
    BY Zenon DEF OnWant, StatsInv, TypeOK
<1> QED  BY <1>1, WantReply, QuietHandler, Zenon DEF OnWant

\* What on_have answers: requests for the announced blocks that are not held.
LEMMA HaveReply ==
    ASSUME StatsInv, NEW p \in Peers, OnHave(p)
    PROVE  \E S \in SUBSET Indexes : \E s \in Ascending(S \ has[p[1]]) :
              /\ Head(inbox[p]).type = "have" => S = {Head(inbox[p]).start}
              /\ Head(inbox[p]).type = "bits" => S = Head(inbox[p]).set
              /\ Handle(p, Requests(s))
              /\ Requests(s) \in Seq(Messages)
              /\ \A i \in DOMAIN Requests(s) : Requests(s)[i].type # "data"
<1> DEFINE m == Head(inbox[p])
<1>1. ASSUME NEW S \in SUBSET Indexes, NEW s \in Ascending(S \ has[p[1]])
      PROVE  /\ Requests(s) \in Seq(Messages)
             /\ \A i \in DOMAIN Requests(s) : Requests(s)[i].type # "data"
  <2> DEFINE W == S \ has[p[1]]
  <2>1. Cardinality(W) \in Nat
    <3>1. IsFiniteSet(Indexes)
      BY FS_Interval, PeerAssumption DEF Indexes
    <3> QED  BY <3>1, FS_Subset, FS_CardinalityType, Zenon
  <2>2. s \in [1 .. Cardinality(W) -> W]
    BY Zenon DEF Ascending
  <2>3. \A i \in W : Request(i) \in Messages
    BY Zenon DEF Messages
  <2>4. Requests(s) \in [1 .. Cardinality(W) -> Messages]
    BY <2>2, <2>3, Zenon DEF Requests
  <2> QED  BY <2>1, <2>4, FunctionSeq, Zenon DEF Requests, Request
<1>2. m \in Messages
    BY DEF OnHave, Gets, Waits, StatsInv, TypeOK
<1>3. CASE Gets(p, "have")
  <2>1. {m.start} \in SUBSET Indexes /\ m.type = "have"
    BY <1>2, <1>3, MessageParts, Zenon DEF Gets, Waits
  <2>2. PICK s \in Ascending({m.start} \ has[p[1]]) : Handle(p, Requests(s))
    BY <1>3, Zenon DEF OnHave, Gets, Waits
  <2> QED  BY <1>1, <2>1, <2>2, Zenon
<1>4. CASE Gets(p, "bits")
  <2>1. m.set \in SUBSET Indexes /\ m.type = "bits"
    BY <1>2, <1>4, MessageParts, Zenon DEF Gets, Waits
  <2>2. PICK s \in Ascending(m.set \ has[p[1]]) : Handle(p, Requests(s))
    BY <1>4, Zenon DEF OnHave, Gets, Waits
  <2> QED  BY <1>1, <2>1, <2>2, Zenon
<1> QED  BY <1>3, <1>4, Zenon DEF OnHave

LEMMA OnHaveStats ==
    ASSUME StatsInv, NEW p \in Peers, OnHave(p)
    PROVE  StatsInv'
<1>1. remote_want' \in [Peers -> BOOLEAN]
    BY Zenon DEF OnHave, StatsInv, TypeOK
<1>2. PICK out \in Seq(Messages) : Handle(p, out) /\ \A i \in DOMAIN out : out[i].type # "data"
    BY HaveReply, Zenon
<1>3. \E type \in {"have", "bits"} : Gets(p, type)
    BY Zenon DEF OnHave
<1> QED  BY <1>1, <1>2, <1>3, QuietHandler, Zenon DEF OnHave

LEMMA OnRequestStats ==
    ASSUME StatsInv, NEW p \in Peers, OnRequest(p)
    PROVE  StatsInv'
<1> DEFINE o == Other(p)
           i == Head(inbox[p]).index
           d == Data(i, i \in has[p[1]], len[p[1]])
<1>1. /\ inbox[p] # <<>> /\ status[p] = "running" /\ Head(inbox[p]).type = "request"
      /\ Head(inbox[p]) \in Messages /\ p \notin counting
    BY DEF OnRequest, Gets, Waits, StatsInv, TypeOK
<1>2. d \in Messages /\ d.type = "data"
  <2>1. i \in Indexes /\ len[p[1]] \in 0 .. MaxLen
    BY <1>1, MessageParts, PeerFacts, Zenon DEF StatsInv, TypeOK
  <2>2. (i \in has[p[1]]) \in BOOLEAN
    OBVIOUS
  <2> QED  BY <2>1, <2>2, DataMessage, Zenon DEF Data
<1>3. o \in Peers /\ inbox[o] \in Seq(Messages)
    BY EndFacts, Zenon DEF StatsInv, TypeOK
<1>4. Handle(p, <<d>>)
    BY DEF OnRequest
<1> HIDE DEF d
<1>5. /\ inbox' \in [Peers -> Seq(Messages)]
      /\ \A q \in Peers : q \notin Ends(p) => inbox'[q] = inbox[q]
      /\ InFlight(p)' \in Nat
      /\ InFlight(p) = InFlight(p)' + IF Head(inbox[p]).type = "data" THEN 1 ELSE 0
      /\ InFlight(o)' = Cardinality(DataIn(inbox[o] \o <<d>>))
  <2>1. <<d>> \in Seq(Messages)
    BY <1>2
  <2> QED  BY <1>1, <1>4, <2>1, TakeAndSend, Zenon
<1>6. InFlight(p) = InFlight(p)' + 0
    BY <1>1, <1>5, Zenon
<1>7. InFlight(o)' = InFlight(o) + 1
    BY <1>2, <1>3, <1>5, DataSent, FlightFacts
<1>8. uploaded \in [Peers -> Nat] /\ downloaded \in [Peers -> Nat]
    BY Zenon DEF StatsInv, TypeOK
<1>9. /\ Sent(p)' = Sent(p) + 1 /\ \A q \in Peers : q # p => Sent(q)' = Sent(q)
      /\ downloaded' = [downloaded EXCEPT ![p] = @ + 0]
      /\ counting' \subseteq counting \cup {p}
    BY <1>1, <1>8 DEF OnRequest, Sent
<1>10. StatsAgree' /\ ClosedIsEmpty'
  <2>1. /\ 0 \in {0, 1} /\ 1 \in {0, 1} /\ status[p] \in {"init", "running"}
        /\ \A q \in Peers : status'[q] = status[q] \/ (q = p /\ status'[q] = "running")
    BY <1>1, Zenon DEF OnRequest
  <2> QED  BY <1>5, <1>6, <1>7, <1>9, <2>1, CountedStep, Zenon
<1>11. TypeOK'
  <2>1. counting' \in SUBSET Peers
    BY Zenon DEF OnRequest, StatsInv, TypeOK
  <2> QED  BY <1>5, <2>1, Zenon DEF OnRequest, StatsInv, TypeOK
<1>12. \A q \in Peers : events'[q] \in Seq(FeedEventsOf(q)')
    BY Zenon DEF OnRequest, StatsInv, FeedEventsOf
<1> QED  BY <1>10, <1>11, <1>12, Zenon DEF StatsInv

\* The upload is counted: what was sent is what is counted.
LEMMA AddUploadedStats ==
    ASSUME StatsInv, NEW p \in Peers, AddUploaded(p)
    PROVE  StatsInv'
<1>1. uploaded \in [Peers -> Nat] /\ counting \in SUBSET Peers
    BY Zenon DEF StatsInv, TypeOK
<1>2. uploaded' \in [Peers -> Nat] /\ counting' \in SUBSET Peers
    BY <1>1 DEF AddUploaded
<1>3. TypeOK'
    BY <1>2, Zenon DEF AddUploaded, StatsInv, TypeOK
<1>4. \A q \in Peers : Sent(q)' = Sent(q) /\ InFlight(q)' = InFlight(q)
    BY <1>1 DEF AddUploaded, Sent, InFlight
<1>5. StatsAgree'
    BY <1>4, EndFacts DEF AddUploaded, StatsInv, StatsAgree
<1>6. ClosedIsEmpty'
    BY Zenon DEF AddUploaded, StatsInv, ClosedIsEmpty
<1>7. \A q \in Peers : events'[q] \in Seq(FeedEventsOf(q)')
    BY Zenon DEF AddUploaded, StatsInv, FeedEventsOf
<1> QED  BY <1>3, <1>5, <1>6, <1>7, Zenon DEF StatsInv

\* What the writer's peers hear of stays true when the feeds grow.
LEMMA NotifyStats ==
    ASSUME StatsInv, NEW n \in Nodes, NEW evs, Notify(n, evs),
           len' \in [Nodes -> 0 .. MaxLen], len[Writer] <= len'[Writer],
           \A q \in Peers : q[1] = n => evs \in Seq(FeedEventsOf(q)')
    PROVE  /\ events' \in [Peers -> Seq(FeedEvents)]
           /\ \A q \in Peers : events'[q] \in Seq(FeedEventsOf(q)')
<1>1. MaxLen \in Nat /\ Writer \in Nodes /\ len[Writer] \in 0 .. MaxLen
    BY PeerAssumption, Zenon DEF StatsInv, TypeOK
<1>2. \A q \in Peers : FeedEventsOf(q) \subseteq FeedEventsOf(q)'
    BY <1>1 DEF FeedEventsOf
<1>3. \A q \in Peers : events[q] \in Seq(FeedEventsOf(q)')
    BY <1>2, GrowSeq, Zenon DEF StatsInv
<1>4. \A q \in Peers : events'[q] \in Seq(FeedEventsOf(q)')
  <2> SUFFICES ASSUME NEW q \in Peers
               PROVE  events'[q] \in Seq(FeedEventsOf(q)')
    BY Zenon
  <2>1. q[1] = n => events[q] \o evs \in Seq(FeedEventsOf(q)')
    BY <1>3
  <2> QED  BY <1>3, <2>1, Zenon DEF Notify
<1>5. \A q \in Peers : FeedEventsOf(q)' \subseteq FeedEvents
    BY Zenon DEF FeedEventsOf, FeedEvents
<1>6. \A q \in Peers : events'[q] \in Seq(FeedEvents)
    BY <1>4, <1>5, GrowSeq, Zenon
<1> QED  BY <1>4, <1>6, Zenon DEF Notify

LEMMA OnDataStats ==
    ASSUME StatsInv, NEW p \in Peers, OnData(p)
    PROVE  StatsInv'
<1> DEFINE n == p[1]
           o == Other(p)
           d == Head(inbox[p])
<1>1. /\ inbox[p] # <<>> /\ status[p] = "running" /\ d.type = "data" /\ d \in Messages
    BY DEF OnData, Gets, Waits, StatsInv, TypeOK
<1>2. /\ d.index \in Indexes /\ d.len \in 0 .. MaxLen /\ n \in Nodes /\ MaxLen \in Nat
      /\ Writer \in Nodes
    BY <1>1, MessageParts, PeerFacts, PeerAssumption, Zenon
<1>3. o \in Peers /\ inbox[o] \in Seq(Messages)
    BY EndFacts DEF StatsInv, TypeOK
<1>4. /\ inbox' \in [Peers -> Seq(Messages)]
      /\ \A q \in Peers : q \notin Ends(p) => inbox'[q] = inbox[q]
      /\ InFlight(p)' \in Nat
      /\ InFlight(p) = InFlight(p)' + IF d.type = "data" THEN 1 ELSE 0
      /\ InFlight(o)' = Cardinality(DataIn(inbox[o] \o <<>>))
  <2>1. <<>> \in Seq(Messages) /\ Handle(p, <<>>)
    BY DEF OnData
  <2> QED  BY <1>1, <2>1, TakeAndSend, Zenon
<1>5. InFlight(p) = InFlight(p)' + 1
    BY <1>1, <1>4, Zenon
<1>6. InFlight(o)' = InFlight(o) + 0
  <2>1. inbox[o] \o <<>> = inbox[o]
    BY <1>3
  <2> QED  BY <1>3, <1>4, <2>1, FlightFacts
<1>7. uploaded \in [Peers -> Nat] /\ downloaded \in [Peers -> Nat]
    BY DEF StatsInv, TypeOK
<1>8. /\ Sent(p)' = Sent(p) + 0 /\ \A q \in Peers : q # p => Sent(q)' = Sent(q)
      /\ downloaded' = [downloaded EXCEPT ![p] = @ + 1]
      /\ counting' \subseteq counting \cup {p}
    BY <1>7, SentFacts DEF OnData, Sent
<1>9. StatsAgree' /\ ClosedIsEmpty'
  <2>1. /\ 0 \in {0, 1} /\ 1 \in {0, 1} /\ status[p] \in {"init", "running"}
        /\ \A q \in Peers : status'[q] = status[q] \/ (q = p /\ status'[q] = "running")
    BY <1>1, Zenon DEF OnData
  <2> QED  BY <1>4, <1>5, <1>6, <1>8, <2>1, CountedStep, Zenon
<1>10. len' \in [Nodes -> 0 .. MaxLen] /\ len[Writer] <= len'[Writer]
  <2>1. len \in [Nodes -> 0 .. MaxLen]
    BY Zenon DEF StatsInv, TypeOK
  <2>2. PICK l \in (d.index + 1) .. d.len :
          len' = [len EXCEPT ![n] = IF l > @ THEN l ELSE @]
    BY Zenon DEF OnData
  <2>3. l \in 0 .. MaxLen
    BY <1>2, <2>2 DEF Indexes
  <2> HIDE DEF n, d
  <2> QED  BY <1>2, <2>1, <2>2, <2>3
<1>11. has' \in [Nodes -> SUBSET Indexes]
    BY <1>2, Zenon DEF OnData, StatsInv, TypeOK
<1>12. events' \in [Peers -> Seq(FeedEvents)] /\ \A q \in Peers : events'[q] \in Seq(FeedEventsOf(q)')
  <2>1. CASE UNCHANGED events
    <3>1. MaxLen \in Nat /\ len[Writer] \in 0 .. MaxLen /\ len'[Writer] \in 0 .. MaxLen
      BY <1>2, <1>10, Zenon DEF StatsInv, TypeOK
    <3>2. \A q \in Peers : FeedEventsOf(q) \subseteq FeedEventsOf(q)'
      BY <1>10, <3>1 DEF FeedEventsOf
    <3> QED  BY <2>1, <3>2, GrowSeq DEF StatsInv, TypeOK
  <2>2. CASE Notify(n, <<Download(d.index)>>)
    <3>1. \A q \in Peers : Download(d.index) \in FeedEventsOf(q)'
      BY <1>2, Zenon DEF FeedEventsOf
    <3>2. \A q \in Peers : <<Download(d.index)>> \in Seq(FeedEventsOf(q)')
      BY <3>1
    <3> QED  BY <1>2, <1>10, <2>2, <3>2, NotifyStats, Zenon
  <2> QED  BY <2>1, <2>2, Zenon DEF OnData
<1>13. uploaded' \in [Peers -> Nat] /\ downloaded' \in [Peers -> Nat]
    BY <1>7, <1>8 DEF OnData
<1>14. TypeOK'
    BY <1>4, <1>10, <1>11, <1>12, <1>13, Zenon DEF OnData, StatsInv, TypeOK
<1> QED  BY <1>9, <1>12, <1>14, ZenonT(30) DEF StatsInv

\* A peer that fails takes its connection out of the account.
LEMMA FailsStats ==
    ASSUME StatsInv, NEW p \in Peers, Fails(p)
    PROVE  StatsInv'
<1>1. inbox[p] # <<>> /\ status[p] = "running"
    BY Zenon DEF Fails, Gets, Waits
<1>2. /\ inbox' \in [Peers -> Seq(Messages)]
      /\ \A q \in Peers : q \notin Ends(p) => inbox'[q] = inbox[q]
  <2>1. <<>> \in Seq(Messages) /\ Handle(p, <<>>)
    BY DEF Fails
  <2> QED  BY <1>1, <2>1, TakeAndSend, Zenon
<1>3. /\ Other(p) \in Peers /\ Other(p) # p /\ Ends(p) = {p, Other(p)}
      /\ Other(Other(p)) = p
      /\ \A q \in Peers : Other(q) \in Peers /\ Ends(q) = {q, Other(q)}
      /\ \A q \in Peers : Other(q) \in Ends(p) <=> q \in Ends(p)
    BY EndFacts, Zenon
<1>4. /\ status \in [Peers -> {"init", "running", "dead", "closed"}]
      /\ events \in [Peers -> Seq(FeedEvents)]
    BY Zenon DEF StatsInv, TypeOK
<1>5. /\ status' \in [Peers -> {"init", "running", "dead", "closed"}]
      /\ status'[p] = "dead"
      /\ \A q \in Peers : q # p => status'[q] = status[q]
    BY <1>4, Zenon DEF Fails
<1>6. /\ events' \in [Peers -> Seq(FeedEvents)]
      /\ \A q \in Peers : events'[q] = <<>> \/ events'[q] = events[q]
    BY <1>4 DEF Fails
<1>7. \A q \in Peers : events'[q] \in Seq(FeedEventsOf(q)')
  <2>1. \A q \in Peers : FeedEventsOf(q)' = FeedEventsOf(q)
    BY Zenon DEF Fails, FeedEventsOf
  <2>2. \A q \in Peers : <<>> \in Seq(FeedEventsOf(q)) /\ events[q] \in Seq(FeedEventsOf(q))
    BY DEF StatsInv
  <2> QED  BY <1>6, <2>1, <2>2, Zenon
<1>8. TypeOK'
    BY <1>2, <1>5, <1>6, Zenon DEF Fails, StatsInv, TypeOK
<1>9. ClosedIsEmpty'
  <2> SUFFICES ASSUME NEW q \in Peers, status'[q] = "closed"
               PROVE  status'[Other(q)] = "closed" /\ inbox'[q] = <<>> /\ q \notin counting'
    BY Zenon DEF ClosedIsEmpty
  <2>1. q # p /\ status[q] = "closed"
    BY <1>5, Zenon
  <2>2. status[Other(q)] = "closed" /\ inbox[q] = <<>> /\ q \notin counting'
    BY <2>1, Zenon DEF StatsInv, ClosedIsEmpty, Fails
  <2>3. Other(q) # p /\ q \notin Ends(p)
    BY <1>1, <1>3, <2>1, <2>2, Zenon
  <2> QED  BY <1>2, <1>3, <1>5, <2>2, <2>3, Zenon
<1>10. StatsAgree'
  <2> SUFFICES ASSUME NEW q \in Peers,
                      \A e \in Ends(q) : status'[e] \in {"init", "running"}
               PROVE  Sent(q)' = downloaded'[Other(q)] + InFlight(Other(q))'
    BY Zenon DEF StatsAgree
  <2>1. q # p /\ Other(q) # p /\ Other(q) \in Peers
    BY <1>3, <1>5
  <2>2. Other(q) \notin Ends(p)
    BY <1>3, <2>1, Zenon
  <2>3. InFlight(Other(q))' = InFlight(Other(q))
    BY <1>2, <2>1, <2>2, Zenon DEF InFlight
  <2>4. \A e \in Ends(q) : status[e] \in {"init", "running"}
    BY <1>3, <1>5, <2>1
  <2>5. Sent(q) = downloaded[Other(q)] + InFlight(Other(q))
    BY <2>4, Zenon DEF StatsInv, StatsAgree
  <2> QED  BY <2>3, <2>5, Zenon DEF Fails, Sent
<1> QED  BY <1>7, <1>8, <1>9, <1>10, Zenon DEF StatsInv

LEMMA OnFeedEventStats ==
    ASSUME StatsInv, NEW p \in Peers, OnFeedEvent(p)
    PROVE  StatsInv'
<1> DEFINE e == Head(events[p])
<1>1. /\ events[p] # <<>> /\ status[p] = "running"
      /\ events[p] \in Seq(FeedEventsOf(p)) /\ e \in FeedEventsOf(p)
    BY DEF OnFeedEvent, Waits, StatsInv
<1>2. ASSUME NEW i \in Indexes, Send(p, <<Have(i)>>)
      PROVE  /\ inbox' \in [Peers -> Seq(Messages)]
             /\ \A q \in Peers : q \notin Ends(p) => inbox'[q] = inbox[q]
             /\ InFlight(p)' = InFlight(p)
             /\ InFlight(Other(p))' = InFlight(Other(p))
  <2>1. Have(i) \in Messages
    BY Zenon DEF Messages
  <2>2. /\ <<Have(i)>> \in Seq(Messages)
        /\ \A j \in DOMAIN <<Have(i)>> : <<Have(i)>>[j].type # "data"
    BY <2>1 DEF Have
  <2> QED  BY <1>2, <2>2, SendOnly, Zenon
<1>3. e.type = "download" => e.index \in Indexes
    BY <1>1 DEF FeedEventsOf, Download, Appended
<1>4. e.type = "append" => len[p[1]] - 1 \in Indexes
  <2>1. e.type = "append" => p[1] = Writer /\ len[Writer] > 0
    BY <1>1 DEF FeedEventsOf, Download, Appended
  <2>2. Writer \in Nodes /\ MaxLen \in Nat /\ len[Writer] \in 0 .. MaxLen
    BY PeerAssumption, Zenon DEF StatsInv, TypeOK
  <2> QED  BY <2>1, <2>2 DEF Indexes
<1>5. /\ inbox' \in [Peers -> Seq(Messages)]
      /\ \A q \in Peers : q \notin Ends(p) => inbox'[q] = inbox[q]
      /\ InFlight(p)' = InFlight(p)
      /\ InFlight(Other(p))' = InFlight(Other(p))
    BY <1>2, <1>3, <1>4, Zenon DEF OnFeedEvent
<1>6. /\ events' \in [Peers -> Seq(FeedEvents)]
      /\ \A q \in Peers : events'[q] \in Seq(FeedEventsOf(q))
  <2>1. events \in [Peers -> Seq(FeedEvents)] /\ \A q \in Peers : events[q] \in Seq(FeedEventsOf(q))
    BY Zenon DEF StatsInv, TypeOK
  <2>2. Tail(events[p]) \in Seq(FeedEventsOf(p)) /\ Tail(events[p]) \in Seq(FeedEvents)
    BY <1>1, <2>1
  <2>3. events' = [events EXCEPT ![p] = Tail(events[p])]
    BY DEF OnFeedEvent
  <2> QED  BY <2>1, <2>2, <2>3, Zenon
<1>7. remote_want' \in [Peers -> BOOLEAN]
    BY Zenon DEF OnFeedEvent, StatsInv, TypeOK
<1>8. status[p] \in {"init", "running"}
    BY <1>1, Zenon
<1> QED  BY <1>5, <1>6, <1>7, <1>8, QuietStep, Zenon DEF OnFeedEvent

LEMMA AppendStats ==
    ASSUME StatsInv, NEW k \in 1 .. MaxBatch, AppendBlocks(k)
    PROVE  StatsInv'
<1> DEFINE l == len[Writer] + k
<1>1. /\ k \in Nat \ {0} /\ MaxLen \in Nat /\ Writer \in Nodes
      /\ len \in [Nodes -> 0 .. MaxLen] /\ len[Writer] \in 0 .. MaxLen
    BY PeerAssumption DEF StatsInv, TypeOK
<1>2. l \in 1 .. MaxLen
    BY <1>1 DEF AppendBlocks
<1>3. len' \in [Nodes -> 0 .. MaxLen] /\ len'[Writer] = l
    BY <1>1, <1>2 DEF AppendBlocks
<1>4. has' \in [Nodes -> SUBSET Indexes]
  <2>1. 0 .. l - 1 \in SUBSET Indexes
    <3> HIDE DEF l
    <3>1. \A i \in 0 .. l - 1 : i \in 0 .. MaxLen - 1
      BY <1>1, <1>2
    <3> QED  BY <3>1, Zenon DEF Indexes
  <2> QED  BY <2>1, Zenon DEF AppendBlocks, StatsInv, TypeOK
<1>5. events' \in [Peers -> Seq(FeedEvents)] /\ \A q \in Peers : events'[q] \in Seq(FeedEventsOf(q)')
  <2>1. \A q \in Peers : q[1] = Writer => Appended \in FeedEventsOf(q)'
    BY <1>2, <1>3 DEF FeedEventsOf
  <2>2. \A q \in Peers : q[1] = Writer =>
            [i \in 1 .. k |-> Appended] \in Seq(FeedEventsOf(q)')
    BY <1>1, <2>1
  <2>3. Notify(Writer, [i \in 1 .. k |-> Appended])
    BY DEF AppendBlocks
  <2>4. len[Writer] <= len'[Writer]
    BY <1>1, <1>3
  <2> QED  BY <1>1, <1>3, <2>2, <2>3, <2>4, NotifyStats, Zenon
<1>6. TypeOK'
    BY <1>3, <1>4, <1>5, Zenon DEF AppendBlocks, StatsInv, TypeOK
<1>7. StatsAgree'
    BY DEF AppendBlocks, StatsInv, StatsAgree, InFlight, Sent
<1> QED  BY <1>5, <1>6, <1>7, Zenon DEF AppendBlocks, StatsInv, ClosedIsEmpty

\* A lost connection is closed at both ends; a new one starts its counters
\* at zero, with no block on the way.
LEMMA ConnectionStats ==
    ASSUME StatsInv, NEW p \in Peers, Disconnect(p) \/ Reconnect(p)
    PROVE  StatsInv'
<1>1. \A q \in Peers : /\ Other(q) \in Peers /\ Ends(q) = {q, Other(q)}
                       /\ Other(q) \in Ends(p) <=> q \in Ends(p)
    BY EndFacts, Zenon
<1>2. \A q \in Peers : FeedEventsOf(q)' = FeedEventsOf(q)
    BY Zenon DEF Disconnect, Reconnect, FeedEventsOf
<1>3. ASSUME NEW q \in Peers, q \notin Ends(p),
             status'[q] = status[q], status'[Other(q)] = status[Other(q)],
             Sent(q)' = Sent(q), downloaded'[Other(q)] = downloaded[Other(q)],
             inbox'[Other(q)] = inbox[Other(q)],
             \A e \in Ends(q) : status'[e] \in {"init", "running"}
      PROVE  Sent(q)' = downloaded'[Other(q)] + InFlight(Other(q))'
  <2>1. InFlight(Other(q))' = InFlight(Other(q))
    BY <1>3, Zenon DEF InFlight
  <2>2. \A e \in Ends(q) : status[e] \in {"init", "running"}
    BY <1>1, <1>3
  <2>3. Sent(q) = downloaded[Other(q)] + InFlight(Other(q))
    BY <2>2, Zenon DEF StatsInv, StatsAgree
  <2> QED  BY <1>3, <2>1, <2>3, Zenon
<1>4. CASE Disconnect(p)
  <2>1. drops' \in 0 .. MaxDrops
    BY <1>4, PeerAssumption DEF Disconnect, StatsInv, TypeOK
  <2>2. \A q \in Peers : <<>> \in Seq(FeedEventsOf(q)) /\ events[q] \in Seq(FeedEventsOf(q))
    BY DEF StatsInv
  <2>3. status' \in [Peers -> {"init", "running", "dead", "closed"}]
    BY <1>4, Zenon DEF Disconnect, StatsInv, TypeOK
  <2>4. inbox' \in [Peers -> Seq(Messages)] /\ events' \in [Peers -> Seq(FeedEvents)]
    BY <1>4 DEF Disconnect, StatsInv, TypeOK
  <2>5. TypeOK'
    BY <1>4, <2>1, <2>3, <2>4, Zenon DEF Disconnect, StatsInv, TypeOK
  <2>6. \A q \in Peers : events'[q] \in Seq(FeedEventsOf(q)')
    BY <1>2, <1>4, <2>2, Zenon DEF Disconnect
  <2>7. ClosedIsEmpty'
    BY <1>1, <1>4, Zenon DEF Disconnect, StatsInv, ClosedIsEmpty
  <2>8. ASSUME NEW q \in Peers, \A e \in Ends(q) : status'[e] \in {"init", "running"}
        PROVE  Sent(q)' = downloaded'[Other(q)] + InFlight(Other(q))'
    <3>1. q \notin Ends(p) /\ Other(q) \notin Ends(p)
      BY <1>1, <1>4, <2>8, Zenon DEF Disconnect
    <3>2. Sent(q)' = Sent(q)
      BY <1>4, <3>1, Zenon DEF Disconnect, Sent
    <3> QED  BY <1>1, <1>3, <1>4, <2>8, <3>1, <3>2, Zenon DEF Disconnect
  <2>9. StatsAgree'
    BY <2>8, Zenon DEF StatsAgree
  <2> QED  BY <2>5, <2>6, <2>7, <2>9, Zenon DEF StatsInv
<1>5. CASE Reconnect(p)
  <2>1. \A q \in Peers : q \in Ends(p) => inbox[q] = <<>> /\ q \notin counting
    <3>1. p \in Peers /\ status[p] = "closed" /\ Other(p) \in Peers /\ Other(Other(p)) = p
      BY <1>5, EndFacts, Zenon DEF Reconnect
    <3> QED  BY <1>1, <3>1, Zenon DEF StatsInv, ClosedIsEmpty
  <2>2. <<Open>> \in Seq(Messages)
    BY DEF Messages
  <2>3. inbox' \in [Peers -> Seq(Messages)]
    BY <1>5, <2>2, Zenon DEF Reconnect, StatsInv, TypeOK
  <2>4. status' \in [Peers -> {"init", "running", "dead", "closed"}]
    BY <1>5, Zenon DEF Reconnect, StatsInv, TypeOK
  <2>5. remote_want' \in [Peers -> BOOLEAN]
    BY <1>5, Zenon DEF Reconnect
  <2>6. uploaded' \in [Peers -> Nat] /\ downloaded' \in [Peers -> Nat]
    BY <1>5, Zenon DEF Reconnect, StatsInv, TypeOK
  <2>7. TypeOK'
    BY <1>5, <2>3, <2>4, <2>5, <2>6, Zenon DEF Reconnect, StatsInv, TypeOK
  <2>8. \A q \in Peers : events'[q] \in Seq(FeedEventsOf(q)')
    BY <1>2, <1>5, Zenon DEF Reconnect, StatsInv
  <2>9. ClosedIsEmpty'
    BY <1>1, <1>5, Zenon DEF Reconnect, StatsInv, ClosedIsEmpty
  <2>10. ASSUME NEW q \in Peers, \A e \in Ends(q) : status'[e] \in {"init", "running"}
         PROVE  Sent(q)' = downloaded'[Other(q)] + InFlight(Other(q))'
    <3>1. CASE q \in Ends(p)
      <4> DEFINE o == Other(q)
      <4>1. o \in Peers /\ o \in Ends(p) /\ uploaded'[q] = 0 /\ downloaded'[o] = 0
        BY <1>1, <1>5, <3>1, Zenon DEF Reconnect
      <4>5. Sent(q)' = 0
        BY <1>5, <2>1, <3>1, <4>1 DEF Reconnect, Sent
      <4>2. inbox'[o] = <<>> \/ inbox'[o] = <<Open>>
        BY <1>5, <2>1, <4>1, Zenon DEF Reconnect
      <4>3. {i \in DOMAIN inbox'[o] : inbox'[o][i].type = "data"} = {}
        BY <4>2 DEF Open
      <4>4. InFlight(o)' = 0
        BY <4>3, FS_EmptySet, Zenon DEF InFlight
      <4> QED  BY <4>1, <4>4, <4>5
    <3>2. CASE q \notin Ends(p)
      <4>1. Other(q) \notin Ends(p) /\ Other(q) \in Peers
        BY <1>1, <3>2, Zenon
      <4>2. Sent(q)' = Sent(q)
        BY <1>5, <3>2, Zenon DEF Reconnect, Sent
      <4> QED  BY <1>3, <1>5, <2>10, <3>2, <4>1, <4>2, Zenon DEF Reconnect
    <3> QED  BY <3>1, <3>2, Zenon
  <2>11. StatsAgree'
    BY <2>10, Zenon DEF StatsAgree
  <2> QED  BY <2>7, <2>8, <2>9, <2>11 DEF StatsInv
<1> QED  BY <1>4, <1>5

LEMMA InitStats ==
    ASSUME Init
    PROVE  StatsInv
<1>1. \A q \in Peers : Other(q) \in Peers /\ Ends(q) = {q, Other(q)}
    BY EndFacts, Zenon
<1>2. <<Open>> \in Seq(Messages) /\ <<>> \in Seq(Messages)
    BY DEF Messages
<1>3. inbox \in [Peers -> Seq(Messages)] /\ events \in [Peers -> Seq(FeedEvents)]
    BY <1>2 DEF Init
<1>4. drops \in 0 .. MaxDrops
    BY PeerAssumption DEF Init
<1>5. TypeOK
    BY <1>3, <1>4, Zenon DEF Init, TypeOK
<1>6. \A q \in Peers : InFlight(q) = 0
  <2> SUFFICES ASSUME NEW q \in Peers PROVE InFlight(q) = 0
    BY Zenon
  <2>1. inbox[q] = <<>> \/ inbox[q] = <<Open>>
    BY DEF Init
  <2>2. {i \in DOMAIN inbox[q] : inbox[q][i].type = "data"} = {}
    BY <2>1 DEF Open
  <2> QED  BY <2>2, FS_EmptySet, Zenon DEF InFlight
<1>7. StatsAgree
    BY <1>1, <1>6 DEF Init, StatsAgree, Sent
<1> QED  BY <1>5, <1>7 DEF Init, StatsInv, ClosedIsEmpty

\* In any network, whatever the order of messages, events, appends, failures
\* and lost connections, the invariant of the statistics holds (peer.rs).
THEOREM StatsInvariant == Spec => []StatsInv
<1>1. StatsInv /\ [Next]_vars => StatsInv'
  <2> SUFFICES ASSUME StatsInv, [Next]_vars PROVE StatsInv'
    BY Zenon
  <2>1. CASE UNCHANGED vars
    <3>1. TypeOK' /\ \A q \in Peers : FeedEventsOf(q)' = FeedEventsOf(q)
      BY <2>1, Zenon DEF vars, StatsInv, TypeOK, FeedEventsOf
    <3>2. StatsAgree'
      <4>1. \A q \in Peers : InFlight(q)' = InFlight(q)
        BY <2>1, Zenon DEF vars, InFlight
      <4> QED  BY <2>1, <4>1, EndFacts DEF vars, StatsInv, StatsAgree, Sent
    <3> QED  BY <2>1, <3>1, <3>2, Zenon DEF vars, StatsInv, ClosedIsEmpty
  <2>2. ASSUME NEW p \in Peers, Run(p)
        PROVE  StatsInv'
    BY <2>2, StartStats, OnOpenStats, OnWantStats, OnHaveStats, OnRequestStats,
       AddUploadedStats, OnDataStats, OnFeedEventStats, FailsStats, Zenon
       DEF Run
  <2> QED  BY <2>1, <2>2, AppendStats, ConnectionStats, Zenon DEF Next
<1> QED  BY <1>1, InitStats, PTL DEF Spec

\* What one end has sent, counted as uploaded or about to be (on_request), the
\* other has counted as downloaded (on_data) or has still to receive.
THEOREM StatsAlwaysAgree == Spec => []StatsAgree
<1>1. StatsInv => StatsAgree
    BY Zenon DEF StatsInv
<1> QED  BY <1>1, StatsInvariant, PTL

\* Every variable of a peer keeps its type in any network; in particular no
\* index that on_want or on_have sends leaves the feed.
THEOREM TypeCorrect == Spec => []TypeOK
<1>1. StatsInv => TypeOK
    BY Zenon DEF StatsInv
<1> QED  BY <1>1, StatsInvariant, PTL
=============================================================================

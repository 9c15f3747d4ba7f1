------------------------ MODULE PeerRefinementProofs ------------------------
(***************************************************************************)
(* Peer implements FeedReplication in every network, and in every star     *)
(* each block a connected reader misses is on its way to it.  For any      *)
(* number of nodes, any length and any number of lost connections.         *)
(***************************************************************************)
EXTENDS PeerRefinement, PeerProofs

LEMMA RangeCat ==
    ASSUME NEW S, NEW s \in Seq(S), NEW t \in Seq(S)
    PROVE  Range(s \o t) = Range(s) \cup Range(t)
<1>1. Range(s \o t) \subseteq Range(s) \cup Range(t)
    BY DEF Range
<1>2. ASSUME NEW i \in DOMAIN s
      PROVE  s[i] \in Range(s \o t)
  <2>1. i \in DOMAIN (s \o t) /\ (s \o t)[i] = s[i]
    OBVIOUS
  <2> QED  BY <2>1, Zenon DEF Range
<1>3. ASSUME NEW i \in DOMAIN t
      PROVE  t[i] \in Range(s \o t)
  <2>1. Len(s) + i \in DOMAIN (s \o t) /\ (s \o t)[Len(s) + i] = t[i]
    OBVIOUS
  <2> QED  BY <2>1, Zenon DEF Range
<1> QED  BY <1>1, <1>2, <1>3, Zenon DEF Range

LEMMA RangeGrows ==
    ASSUME NEW S, NEW s \in Seq(S), NEW t \in Seq(S)
    PROVE  Range(s) \subseteq Range(s \o t)
BY RangeCat

LEMMA RangeHead ==
    ASSUME NEW S, NEW s \in Seq(S), s # <<>>
    PROVE  /\ Range(s) = {Head(s)} \cup Range(Tail(s))
           /\ Head(s) \in S
<1>1. /\ Tail(s) \in Seq(S) /\ Len(s) \in Nat \ {0} /\ DOMAIN s = 1 .. Len(s)
      /\ DOMAIN Tail(s) = 1 .. Len(s) - 1 /\ Head(s) = s[1] /\ Head(s) \in S
      /\ \A i \in 1 .. Len(s) - 1 : Tail(s)[i] = s[i + 1]
    OBVIOUS
<1>2. ASSUME NEW i \in DOMAIN s
      PROVE  s[i] \in {Head(s)} \cup Range(Tail(s))
  <2>1. CASE i = 1
    BY <1>1, <2>1, Zenon
  <2>2. CASE i # 1
    <3>1. i - 1 \in DOMAIN Tail(s) /\ Tail(s)[i - 1] = s[i]
      BY <1>1, <2>2
    <3>2. s[i] \in Range(Tail(s))
      BY <3>1, Zenon DEF Range
    <3> QED  BY <3>2, Zenon
  <2> QED  BY <2>1, <2>2, Zenon
<1>3. ASSUME NEW i \in DOMAIN Tail(s)
      PROVE  Tail(s)[i] \in Range(s)
  <2>1. i + 1 \in DOMAIN s /\ s[i + 1] = Tail(s)[i]
    BY <1>1
  <2> QED  BY <2>1, Zenon DEF Range
<1>4. s[1] \in Range(s)
  <2>1. 1 \in DOMAIN s
    BY <1>1
  <2> QED  BY <2>1, Zenon DEF Range
<1>5. Range(s) \subseteq {Head(s)} \cup Range(Tail(s))
    BY <1>2, Zenon DEF Range
<1>6. Range(Tail(s)) \subseteq Range(s)
    BY <1>3, Zenon DEF Range
<1> QED  BY <1>1, <1>4, <1>5, <1>6, Zenon

LEMMA RangeOne ==
    ASSUME NEW m
    PROVE  Range(<<m>>) = {m}
BY DEF Range

LEMMA RangeNone == <<>> \in Seq(Messages) /\ Range(<<>>) = {}
BY DEF Range

\* What a step of peer p does to the channels.
LEMMA HandleEffect ==
    ASSUME StatsInv, NEW p \in Peers, inbox[p] # <<>>, NEW out \in Seq(Messages), Handle(p, out)
    PROVE  /\ Head(inbox[p]) \in Messages
           /\ Range(inbox[p]) = {Head(inbox[p])} \cup Range(inbox'[p])
           /\ Range(inbox'[Other(p)]) = Range(inbox[Other(p)]) \cup Range(out)
           /\ \A q \in Peers : q \notin Ends(p) => inbox'[q] = inbox[q]
<1> DEFINE o == Other(p)
<1>1. o \in Peers /\ o # p /\ Ends(p) = {p, o}
    BY EndFacts, Zenon
<1>2. inbox \in [Peers -> Seq(Messages)]
    BY Zenon DEF StatsInv, TypeOK
<1>3. inbox[p] \in Seq(Messages)
    BY <1>2, Zenon
<1>4. inbox[o] \in Seq(Messages)
    BY <1>1, <1>2, Zenon
<1>5. inbox' = [inbox EXCEPT ![p] = Tail(inbox[p]), ![o] = inbox[o] \o out]
    BY <1>1, <1>2, Zenon DEF Handle
<1> HIDE DEF o
<1>6. /\ inbox'[p] = Tail(inbox[p]) /\ inbox'[o] = inbox[o] \o out
      /\ \A q \in Peers : q \notin Ends(p) => inbox'[q] = inbox[q]
    BY <1>1, <1>2, <1>5, Zenon
<1>7. /\ Range(inbox[p]) = {Head(inbox[p])} \cup Range(Tail(inbox[p]))
      /\ Head(inbox[p]) \in Messages
    BY <1>3, RangeHead, Zenon
<1>8. Range(inbox[o] \o out) = Range(inbox[o]) \cup Range(out)
    BY <1>4, RangeCat
<1> QED  BY <1>6, <1>7, <1>8, Zenon DEF o

LEMMA SendEffect ==
    ASSUME StatsInv, NEW p \in Peers, NEW out \in Seq(Messages), Send(p, out)
    PROVE  /\ inbox'[p] = inbox[p]
           /\ Range(inbox'[Other(p)]) = Range(inbox[Other(p)]) \cup Range(out)
           /\ \A q \in Peers : q \notin Ends(p) => inbox'[q] = inbox[q]
<1> DEFINE o == Other(p)
<1>1. o \in Peers /\ o # p /\ Ends(p) = {p, o}
    BY EndFacts, Zenon
<1>2. inbox \in [Peers -> Seq(Messages)]
    BY Zenon DEF StatsInv, TypeOK
<1>3. /\ inbox'[p] = inbox[p] /\ inbox'[o] = inbox[o] \o out
      /\ \A q \in Peers : q \notin Ends(p) => inbox'[q] = inbox[q]
    BY <1>1, <1>2, Zenon DEF Send
<1>4. inbox[o] \in Seq(Messages)
    BY <1>1, <1>2, Zenon
<1>5. Range(inbox[o] \o out) = Range(inbox[o]) \cup Range(out)
    BY <1>4, RangeCat
<1> QED  BY <1>3, <1>5, Zenon

-----------------------------------------------------------------------------
(* The refinement of FeedReplication.                                      *)

LEMMA FeedFacts ==
    ASSUME StatsInv, SpreadInv
    PROVE  /\ Writer \in Nodes /\ MaxLen \in Nat
           /\ len \in [Nodes -> 0 .. MaxLen] /\ has \in [Nodes -> SUBSET Indexes]
           /\ has[Writer] = 0 .. len[Writer] - 1
           /\ \A n \in Nodes : len[n] <= len[Writer] /\ has[n] \subseteq 0 .. len[n] - 1
BY PeerAssumption, Zenon DEF StatsInv, TypeOK, SpreadInv, Written

\* No node loses what it has, and every Data that is new names what its
\* sender has.
LEMMA SpreadStep ==
    ASSUME StatsInv, SpreadInv,
           len' \in [Nodes -> 0 .. MaxLen],
           \A n \in Nodes : len[n] <= len'[n] /\ has[n] \subseteq has'[n],
           has'[Writer] = 0 .. len'[Writer] - 1,
           \A n \in Nodes : len'[n] <= len'[Writer] /\ has'[n] \subseteq 0 .. len'[n] - 1,
           \A q \in Peers : \A m \in Range(inbox'[q]) :
              m.type = "data" => /\ m \in Messages
                                 /\ m \in Range(inbox[q]) \/ Backed(m, q[2])
    PROVE  SpreadInv'
<1>1. ASSUME NEW q \in Peers, NEW m \in Range(inbox'[q]), m.type = "data"
      PROVE  Backed(m, q[2])'
  <2>1. m \in Messages /\ Backed(m, q[2])
    BY <1>1, Zenon DEF SpreadInv
  <2>2. q[2] \in Nodes /\ MaxLen \in Nat /\ m.len \in 0 .. MaxLen
    BY <1>1, <2>1, PeerFacts, PeerAssumption, MessageParts, Zenon
  <2>3. len[q[2]] \in 0 .. MaxLen /\ len'[q[2]] \in 0 .. MaxLen /\ len[q[2]] <= len'[q[2]]
    BY <2>2, FeedFacts, Zenon
  <2>4. m.len <= len'[q[2]]
    BY <2>1, <2>2, <2>3 DEF Backed
  <2> QED  BY <2>1, <2>2, <2>4, Zenon DEF Backed
<1> QED  BY <1>1, Zenon DEF SpreadInv, Written

\* A step that leaves the feeds alone and sends no Data that is not backed.
LEMMA SpreadQuiet ==
    ASSUME StatsInv, SpreadInv, UNCHANGED <<len, has>>,
           \A q \in Peers : \A m \in Range(inbox'[q]) :
              m.type = "data" => m \in Range(inbox[q]) \/ Backed(m, q[2])
    PROVE  SpreadInv'
<1>1. ASSUME NEW q \in Peers, NEW m \in Range(inbox'[q]), m.type = "data"
      PROVE  Backed(m, q[2])'
    BY <1>1, Zenon DEF SpreadInv, Backed
<1> QED  BY <1>1, Zenon DEF SpreadInv, Written

LEMMA SpreadHandler ==
    ASSUME StatsInv, SpreadInv, NEW p \in Peers, inbox[p] # <<>>,
           NEW out \in Seq(Messages), Handle(p, out), UNCHANGED <<len, has>>,
           \A m \in Range(out) : m.type = "data" => Backed(m, p[1])
    PROVE  SpreadInv'
<1>1. Other(p) \in Peers /\ Other(p)[2] = p[1] /\ Ends(p) = {p, Other(p)}
    BY EndFacts, Zenon DEF Other
<1>2. ASSUME NEW q \in Peers, NEW m \in Range(inbox'[q]), m.type = "data"
      PROVE  m \in Range(inbox[q]) \/ Backed(m, q[2])
  <2>1. CASE q = Other(p)
    BY <1>1, <1>2, <2>1, HandleEffect
  <2>2. CASE q # Other(p)
    BY <1>1, <1>2, <2>2, HandleEffect
  <2> QED  BY <2>1, <2>2, Zenon
<1> QED  BY <1>2, SpreadQuiet, Zenon

LEMMA SpreadSender ==
    ASSUME StatsInv, SpreadInv, NEW p \in Peers,
           NEW out \in Seq(Messages), Send(p, out), UNCHANGED <<len, has>>,
           \A m \in Range(out) : m.type # "data"
    PROVE  SpreadInv'
<1>1. Other(p) \in Peers /\ Ends(p) = {p, Other(p)}
    BY EndFacts, Zenon
<1>2. ASSUME NEW q \in Peers, NEW m \in Range(inbox'[q]), m.type = "data"
      PROVE  m \in Range(inbox[q])
  <2>1. CASE q = Other(p)
    BY <1>1, <1>2, <2>1, SendEffect
  <2>2. CASE q # Other(p)
    BY <1>1, <1>2, <2>2, SendEffect, Zenon
  <2> QED  BY <2>1, <2>2, Zenon
<1> QED  BY <1>2, SpreadQuiet, Zenon

\* What on_request answers: a Data that names what the node has.
LEMMA RequestReply ==
    ASSUME StatsInv, NEW p \in Peers, OnRequest(p)
    PROVE  LET i == Head(inbox[p]).index
               d == Data(i, i \in has[p[1]], len[p[1]])
           IN  /\ inbox[p] # <<>> /\ Head(inbox[p]).type = "request"
               /\ <<d>> \in Seq(Messages) /\ Handle(p, <<d>>)
               /\ Range(<<d>>) = {d} /\ Backed(d, p[1])
               /\ d.type = "data" /\ d.index = i
<1> DEFINE i == Head(inbox[p]).index
           d == Data(i, i \in has[p[1]], len[p[1]])
<1>1. inbox[p] # <<>> /\ Head(inbox[p]).type = "request" /\ Head(inbox[p]) \in Messages
    BY DEF OnRequest, Gets, Waits, StatsInv, TypeOK
<1>2. i \in Indexes /\ len[p[1]] \in 0 .. MaxLen /\ MaxLen \in Nat
    BY <1>1, MessageParts, PeerFacts, PeerAssumption, Zenon DEF StatsInv, TypeOK
<1>3. (i \in has[p[1]]) \in BOOLEAN /\ len[p[1]] <= len[p[1]]
    BY <1>2
<1>4. d \in Messages
    BY <1>2, <1>3, DataMessage, Zenon
<1>5. d.type = "data" /\ d.index = i /\ d.full = (i \in has[p[1]]) /\ d.len = len[p[1]]
    BY Zenon DEF Data
<1>6. Handle(p, <<d>>)
    BY Zenon DEF OnRequest
<1> HIDE DEF d
<1>7. <<d>> \in Seq(Messages) /\ Range(<<d>>) = {d}
    BY <1>4, RangeOne
<1>8. Backed(d, p[1])
    BY <1>3, <1>5, Zenon DEF Backed
<1> QED  BY <1>1, <1>5, <1>6, <1>7, <1>8, Zenon DEF d

LEMMA OnRequestSpread ==
    ASSUME StatsInv, SpreadInv, NEW p \in Peers, OnRequest(p)
    PROVE  SpreadInv'
<1> DEFINE i == Head(inbox[p]).index
           d == Data(i, i \in has[p[1]], len[p[1]])
<1>1. /\ inbox[p] # <<>> /\ <<d>> \in Seq(Messages) /\ Handle(p, <<d>>)
      /\ Range(<<d>>) = {d} /\ Backed(d, p[1])
    BY RequestReply, Zenon
<1>2. UNCHANGED <<len, has>>
    BY Zenon DEF OnRequest
<1> HIDE DEF d
<1> QED  BY <1>1, <1>2, SpreadHandler, Zenon

LEMMA AddUploadedSpread ==
    ASSUME StatsInv, SpreadInv, NEW p \in Peers, AddUploaded(p)
    PROVE  SpreadInv'
<1>1. UNCHANGED <<len, has, inbox>>
    BY Zenon DEF AddUploaded
<1> QED  BY <1>1, SpreadQuiet, Zenon

LEMMA WantOut ==
    <<Want>> \in Seq(Messages) /\ Range(<<Want>>) = {Want} /\ Want.type = "want"
BY RangeOne DEF Messages, Want

LEMMA StartSpread ==
    ASSUME StatsInv, SpreadInv, NEW p \in Peers, Start(p)
    PROVE  SpreadInv'
BY WantOut, SpreadSender, Zenon DEF Start

LEMMA OnOpenSpread ==
    ASSUME StatsInv, SpreadInv, NEW p \in Peers, OnOpen(p)
    PROVE  SpreadInv'
BY WantOut, SpreadHandler, Zenon DEF OnOpen, Gets, Waits

LEMMA OnWantSpread ==
    ASSUME StatsInv, SpreadInv, NEW p \in Peers, OnWant(p)
    PROVE  SpreadInv'
<1>1. PICK out \in Seq(Messages) : Handle(p, out) /\ \A i \in DOMAIN out : out[i].type # "data"
    BY WantReply, Zenon
<1>2. \A m \in Range(out) : m.type # "data"
    BY <1>1, Zenon DEF Range
<1> QED  BY <1>1, <1>2, SpreadHandler, Zenon DEF OnWant, Gets, Waits

LEMMA OnHaveSpread ==
    ASSUME StatsInv, SpreadInv, NEW p \in Peers, OnHave(p)
    PROVE  SpreadInv'
<1>1. PICK out \in Seq(Messages) : Handle(p, out) /\ \A i \in DOMAIN out : out[i].type # "data"
    BY HaveReply, Zenon
<1>2. \A m \in Range(out) : m.type # "data"
    BY <1>1, Zenon DEF Range
<1> QED  BY <1>1, <1>2, SpreadHandler, Zenon DEF OnHave, Gets, Waits

LEMMA FailsSpread ==
    ASSUME StatsInv, SpreadInv, NEW p \in Peers, Fails(p)
    PROVE  SpreadInv'
BY RangeNone, SpreadHandler, Zenon DEF Fails, Gets, Waits

\* The arm Event::Feed announces one block of the feed.
LEMMA EventOut ==
    ASSUME StatsInv, NEW p \in Peers, OnFeedEvent(p)
    PROVE  \E i \in Indexes :
              /\ Send(p, <<Have(i)>>) /\ <<Have(i)>> \in Seq(Messages)
              /\ Range(<<Have(i)>>) = {Have(i)} /\ Have(i).type = "have"
              /\ Head(events[p]) = Appended => i = len[p[1]] - 1
<1> DEFINE e == Head(events[p])
<1>1. e \in FeedEventsOf(p)
    BY DEF OnFeedEvent, StatsInv
<1>2. e.type = "download" => e.index \in Indexes
    BY <1>1 DEF FeedEventsOf, Download, Appended
<1>3. e.type = "append" => len[p[1]] - 1 \in Indexes
  <2>1. e.type = "append" => p[1] = Writer /\ len[Writer] > 0
    BY <1>1 DEF FeedEventsOf, Download, Appended
  <2>2. Writer \in Nodes /\ MaxLen \in Nat /\ len[Writer] \in 0 .. MaxLen
    BY PeerAssumption, Zenon DEF StatsInv, TypeOK
  <2> QED  BY <2>1, <2>2 DEF Indexes
<1>4. e = Appended => e.type # "download"
    BY DEF Appended
<1>5. PICK i \in Indexes : Send(p, <<Have(i)>>) /\ (e = Appended => i = len[p[1]] - 1)
    BY <1>2, <1>3, <1>4, Zenon DEF OnFeedEvent
<1>6. Have(i) \in Messages /\ Have(i).type = "have"
    BY Zenon DEF Messages, Have
<1>7. <<Have(i)>> \in Seq(Messages) /\ Range(<<Have(i)>>) = {Have(i)}
    BY <1>6, RangeOne
<1> QED  BY <1>5, <1>6, <1>7, Zenon

LEMMA OnFeedEventSpread ==
    ASSUME StatsInv, SpreadInv, NEW p \in Peers, OnFeedEvent(p)
    PROVE  SpreadInv'
<1>1. PICK i \in Indexes : /\ Send(p, <<Have(i)>>) /\ <<Have(i)>> \in Seq(Messages)
                           /\ Range(<<Have(i)>>) = {Have(i)} /\ Have(i).type = "have"
    BY EventOut, Zenon
<1> QED  BY <1>1, SpreadSender, Zenon DEF OnFeedEvent

\* What on_data takes in: one block and a length its sender has, or only the
\* length.
LEMMA DataTakenIn ==
    ASSUME StatsInv, SpreadInv, NEW p \in Peers, OnData(p)
    PROVE  LET d == Head(inbox[p]) IN
           /\ inbox[p] # <<>> /\ d \in Messages /\ d.type = "data"
           /\ p[1] \in Nodes /\ p[2] \in Nodes
           /\ d.index \in Nat /\ d.len \in Nat /\ d.len <= len[p[2]]
           /\ d.full => d.index \in has[p[2]]
<1> DEFINE d == Head(inbox[p])
<1>1. inbox[p] # <<>> /\ d.type = "data" /\ inbox[p] \in Seq(Messages)
    BY Zenon DEF OnData, Gets, Waits, StatsInv, TypeOK
<1>2. d \in Messages /\ Range(inbox[p]) = {d} \cup Range(Tail(inbox[p]))
    BY <1>1, RangeHead, Zenon
<1>3. Backed(d, p[2])
    BY <1>1, <1>2, Zenon DEF SpreadInv
<1>4. d.index \in Indexes /\ d.len \in 0 .. MaxLen /\ MaxLen \in Nat
    BY <1>1, <1>2, MessageParts, PeerAssumption, Zenon
<1>5. d.index \in Nat /\ d.len \in Nat
    BY <1>4 DEF Indexes
<1> QED  BY <1>1, <1>2, <1>3, <1>5, PeerFacts, Zenon DEF Backed

LEMMA OnDataSpread ==
    ASSUME StatsInv, SpreadInv, NEW p \in Peers, OnData(p)
    PROVE  SpreadInv'
<1> DEFINE n == p[1]
           d == Head(inbox[p])
<1>1. /\ inbox[p] # <<>> /\ d \in Messages /\ d.type = "data"
      /\ n \in Nodes /\ p[2] \in Nodes
      /\ d.index \in Nat /\ d.len \in Nat /\ d.len <= len[p[2]]
      /\ d.full => d.index \in has[p[2]]
    BY DataTakenIn, Zenon
<1>2. PICK l \in (d.index + 1) .. d.len :
        len' = [len EXCEPT ![n] = IF l > @ THEN l ELSE @]
    BY Zenon DEF OnData
<1>3. has' = [has EXCEPT ![n] = IF d.full THEN @ \cup {d.index} ELSE @] /\ Handle(p, <<>>)
    BY Zenon DEF OnData
<1> HIDE DEF n, d
<1>4. /\ Writer \in Nodes /\ MaxLen \in Nat
      /\ len \in [Nodes -> 0 .. MaxLen] /\ has \in [Nodes -> SUBSET Indexes]
      /\ has[Writer] = 0 .. len[Writer] - 1
      /\ \A k \in Nodes : len[k] <= len[Writer] /\ has[k] \subseteq 0 .. len[k] - 1
    BY FeedFacts, Zenon
<1>5. l \in 0 .. MaxLen /\ l <= len[Writer] /\ d.index < l
  <2>1. len[p[2]] \in 0 .. MaxLen /\ len[Writer] \in 0 .. MaxLen /\ len[p[2]] <= len[Writer]
    BY <1>1, <1>4, Zenon
  <2> QED  BY <1>1, <1>2, <1>4, <2>1
<1>6. /\ \A k \in Nodes : len'[k] = IF k = n /\ l > len[n] THEN l ELSE len[k]
      /\ len' \in [Nodes -> 0 .. MaxLen]
    BY <1>1, <1>2, <1>4, <1>5, Zenon
<1>7. \A k \in Nodes : has'[k] = IF k = n /\ d.full THEN has[k] \cup {d.index} ELSE has[k]
    BY <1>1, <1>3, <1>4, Zenon
<1>8. /\ len'[Writer] = len[Writer]
      /\ \A k \in Nodes : len[k] <= len'[k] /\ len'[k] <= len'[Writer]
    BY <1>1, <1>4, <1>5, <1>6
<1>9. d.full => d.index \in 0 .. len[Writer] - 1
  <2>1. len[Writer] \in 0 .. MaxLen
    BY <1>4, Zenon
  <2> QED  BY <1>1, <1>4, <1>5, <2>1
<1>10. has'[Writer] = 0 .. len'[Writer] - 1
    BY <1>4, <1>7, <1>8, <1>9, Zenon
<1>11. ASSUME NEW k \in Nodes
       PROVE  has[k] \subseteq has'[k] /\ has'[k] \subseteq 0 .. len'[k] - 1
  <2>1. len[k] \in 0 .. MaxLen /\ len'[k] \in 0 .. MaxLen /\ len[k] <= len'[k]
    BY <1>4, <1>6, <1>8, Zenon
  <2>2. 0 .. len[k] - 1 \subseteq 0 .. len'[k] - 1
    BY <1>4, <2>1
  <2>3. k = n => d.index \in 0 .. len'[k] - 1
    <3>1. len'[k] = IF k = n /\ l > len[n] THEN l ELSE len[k]
      BY <1>6, Zenon
    <3> QED  BY <1>1, <1>4, <1>5, <2>1, <3>1
  <2>4. has[k] \subseteq 0 .. len'[k] - 1
    BY <1>4, <2>2, Zenon
  <2>5. CASE k = n /\ d.full
    <3>1. has'[k] = has[k] \cup {d.index}
      BY <1>7, <2>5, Zenon
    <3> QED  BY <2>3, <2>4, <2>5, <3>1, Zenon
  <2>6. CASE ~(k = n /\ d.full)
    BY <1>7, <2>4, <2>6, Zenon
  <2> QED  BY <2>5, <2>6, Zenon
<1>12. ASSUME NEW q \in Peers, NEW m \in Range(inbox'[q]), m.type = "data"
       PROVE  m \in Messages /\ m \in Range(inbox[q])
  <2>1. /\ Range(inbox[p]) = {d} \cup Range(inbox'[p])
        /\ Range(inbox'[Other(p)]) = Range(inbox[Other(p)]) \cup Range(<<>>)
        /\ \A k \in Peers : k \notin Ends(p) => inbox'[k] = inbox[k]
    BY <1>1, <1>3, RangeNone, HandleEffect, Zenon DEF d
  <2>2. Ends(p) = {p, Other(p)}
    BY EndFacts, Zenon
  <2>3. m \in Range(inbox[q])
    BY <1>12, <2>1, <2>2, RangeNone
  <2>4. inbox[q] \in Seq(Messages)
    BY Zenon DEF StatsInv, TypeOK
  <2>5. Range(inbox[q]) \subseteq Messages
    BY <2>4 DEF Range
  <2> QED  BY <2>3, <2>5, Zenon
<1> QED  BY <1>6, <1>8, <1>10, <1>11, <1>12, SpreadStep, Zenon

LEMMA AppendSpread ==
    ASSUME StatsInv, SpreadInv, NEW k \in 1 .. MaxBatch, AppendBlocks(k)
    PROVE  SpreadInv'
<1> DEFINE l == len[Writer] + k
<1>1. /\ Writer \in Nodes /\ MaxLen \in Nat
      /\ len \in [Nodes -> 0 .. MaxLen] /\ has \in [Nodes -> SUBSET Indexes]
      /\ has[Writer] = 0 .. len[Writer] - 1
      /\ \A n \in Nodes : len[n] <= len[Writer] /\ has[n] \subseteq 0 .. len[n] - 1
    BY FeedFacts, Zenon
<1>2. l \in 0 .. MaxLen /\ len[Writer] \in 0 .. MaxLen /\ len[Writer] < l
    BY <1>1, PeerAssumption DEF AppendBlocks
<1>3. len' = [len EXCEPT ![Writer] = l] /\ has' = [has EXCEPT ![Writer] = 0 .. l - 1]
    BY Zenon DEF AppendBlocks
<1> HIDE DEF l
<1>4. /\ len' \in [Nodes -> 0 .. MaxLen] /\ len'[Writer] = l
      /\ has'[Writer] = 0 .. l - 1
      /\ \A n \in Nodes \ {Writer} : len'[n] = len[n] /\ has'[n] = has[n]
    BY <1>1, <1>2, <1>3, Zenon
<1>5. 0 .. len[Writer] - 1 \subseteq 0 .. l - 1
    BY <1>2
<1>6. \A n \in Nodes : len[n] <= len'[n] /\ len'[n] <= len'[Writer]
  <2> SUFFICES ASSUME NEW n \in Nodes PROVE len[n] <= len'[n] /\ len'[n] <= len'[Writer]
    BY Zenon
  <2>1. len[n] \in 0 .. MaxLen /\ len[n] <= len[Writer] /\ (n # Writer => len'[n] = len[n])
    BY <1>1, <1>4, Zenon
  <2> QED  BY <1>1, <1>2, <1>4, <2>1
<1>7. \A n \in Nodes : has[n] \subseteq has'[n] /\ has'[n] \subseteq 0 .. len'[n] - 1
    BY <1>1, <1>4, <1>5, Zenon
<1>8. ASSUME NEW q \in Peers, NEW m \in Range(inbox'[q])
      PROVE  m \in Messages /\ m \in Range(inbox[q])
  <2>1. inbox[q] \in Seq(Messages) /\ inbox'[q] = inbox[q]
    BY Zenon DEF AppendBlocks, StatsInv, TypeOK
  <2>2. Range(inbox[q]) \subseteq Messages
    BY <2>1 DEF Range
  <2> QED  BY <1>8, <2>1, <2>2, Zenon
<1> QED  BY <1>4, <1>6, <1>7, <1>8, SpreadStep, Zenon

LEMMA ConnectionSpread ==
    ASSUME StatsInv, SpreadInv, NEW p \in Peers, Disconnect(p) \/ Reconnect(p)
    PROVE  SpreadInv'
<1>1. UNCHANGED <<len, has>>
    BY Zenon DEF Disconnect, Reconnect
<1>2. ASSUME NEW q \in Peers, NEW m \in Range(inbox'[q]), m.type = "data"
      PROVE  m \in Range(inbox[q])
  <2>1. inbox'[q] = <<>> \/ inbox'[q] = <<Open>> \/ inbox'[q] = inbox[q]
    BY Zenon DEF Disconnect, Reconnect
  <2>2. Range(<<>>) = {} /\ Range(<<Open>>) = {Open} /\ Open.type = "open"
    BY RangeOne, RangeNone, Zenon DEF Open
  <2> QED  BY <1>2, <2>1, <2>2, Zenon
<1> QED  BY <1>1, <1>2, SpreadQuiet, Zenon

LEMMA InitSpread ==
    ASSUME Init
    PROVE  SpreadInv
<1>1. ASSUME NEW q \in Peers, NEW m \in Range(inbox[q])
      PROVE  m.type # "data"
  <2>1. inbox[q] = <<>> \/ inbox[q] = <<Open>>
    BY Zenon DEF Init
  <2>2. Range(<<>>) = {} /\ Range(<<Open>>) = {Open} /\ Open.type = "open"
    BY RangeOne, RangeNone, Zenon DEF Open
  <2> QED  BY <1>1, <2>1, <2>2, Zenon
<1> QED  BY <1>1, Zenon DEF Init, SpreadInv, Written

LEMMA NextSpread ==
    ASSUME StatsInv, SpreadInv, [Next]_vars
    PROVE  SpreadInv'
<1>1. CASE UNCHANGED vars
  <2>1. UNCHANGED <<len, has, inbox>>
    BY <1>1, Zenon DEF vars
  <2> QED  BY <2>1, SpreadQuiet, Zenon
<1>2. ASSUME NEW p \in Peers, Run(p)
      PROVE  SpreadInv'
    BY <1>2, StartSpread, OnOpenSpread, OnWantSpread, OnHaveSpread, OnRequestSpread,
       AddUploadedSpread, OnDataSpread, OnFeedEventSpread, FailsSpread, Zenon
       DEF Run
<1> QED  BY <1>1, <1>2, AppendSpread, ConnectionSpread, Zenon DEF Next

\* In any network no node ever holds a block or knows a length the writer has
\* not written, and a Data on its way names what its sender has, whatever was
\* lost, sent twice or reordered (on_request, on_data).
THEOREM SpreadInvariant == Spec => []SpreadInv
<1>1. StatsInv /\ SpreadInv /\ [Next]_vars => SpreadInv'
    BY NextSpread, Zenon
<1> QED  BY <1>1, InitSpread, StatsInvariant, PTL DEF Spec

LEMMA InitReplicates ==
    ASSUME Init
    PROVE  R!Init
BY Zenon DEF Init, R!Init, Indexes

\* on_data copies a block from the node at the other end, or only a length.
LEMMA OnDataReplicates ==
    ASSUME StatsInv, SpreadInv, NEW p \in Peers, OnData(p)
    PROVE  R!Next
<1> DEFINE n == p[1]
           m == p[2]
           d == Head(inbox[p])
<1>1. /\ n \in Nodes /\ m \in Nodes
      /\ d.index \in Nat /\ d.len \in Nat /\ d.len <= len[m]
      /\ d.full => d.index \in has[m]
    BY DataTakenIn, Zenon
<1>2. PICK l \in (d.index + 1) .. d.len :
        len' = [len EXCEPT ![n] = IF l > @ THEN l ELSE @]
    BY Zenon DEF OnData
<1>3. has' = [has EXCEPT ![n] = IF d.full THEN @ \cup {d.index} ELSE @]
    BY Zenon DEF OnData
<1>4. len[m] \in Nat /\ has \in [Nodes -> SUBSET Indexes]
  <2>1. len[m] \in 0 .. MaxLen /\ has \in [Nodes -> SUBSET Indexes]
    BY <1>1, FeedFacts, Zenon
  <2> QED  BY <2>1, FeedFacts
<1> HIDE DEF n, m, d
<1>5. l \in d.index + 1 .. len[m] /\ l \in 1 .. len[m]
    BY <1>1, <1>2, <1>4
<1>6. R!Learns(n, l)
    BY <1>2, Zenon DEF R!Learns
<1>7. CASE d.full
  <2>1. has' = [has EXCEPT ![n] = @ \cup {d.index}]
    BY <1>3, <1>7, Zenon
  <2> QED  BY <1>1, <1>5, <1>6, <1>7, <2>1, Zenon DEF R!Next, R!Copy, Peers, n, m
<1>8. CASE ~d.full
  <2>1. UNCHANGED has
    BY <1>1, <1>3, <1>4, <1>8, Zenon
  <2> QED  BY <1>5, <1>6, <2>1, Zenon DEF R!Next, R!Hear, Peers, n, m
<1> QED  BY <1>7, <1>8, Zenon

LEMMA AppendReplicates ==
    ASSUME StatsInv, NEW k \in 1 .. MaxBatch, AppendBlocks(k)
    PROVE  R!Next
<1> DEFINE l == len[Writer] + k
<1>1. Writer \in Nodes /\ MaxLen \in Nat /\ MaxBatch \in Nat /\ len[Writer] \in 0 .. MaxLen
    BY PeerAssumption, Zenon DEF StatsInv, TypeOK
<1>2. l \in len[Writer] + 1 .. MaxLen
    BY <1>1 DEF AppendBlocks
<1>3. len' = [len EXCEPT ![Writer] = l] /\ has' = [has EXCEPT ![Writer] = 0 .. l - 1]
    BY Zenon DEF AppendBlocks
<1> HIDE DEF l
<1> QED  BY <1>2, <1>3, Zenon DEF R!Next, R!Append

LEMMA NextReplicates ==
    ASSUME StatsInv, SpreadInv, [Next]_vars
    PROVE  [R!Next]_<<len, has>>
<1>1. ASSUME NEW p \in Peers, Run(p)
      PROVE  R!Next \/ UNCHANGED <<len, has>>
    BY <1>1, OnDataReplicates, Zenon
       DEF Run, Start, OnOpen, OnWant, OnHave, OnRequest, AddUploaded, OnFeedEvent, Fails
<1>2. ASSUME NEW p \in Peers, Disconnect(p) \/ Reconnect(p)
      PROVE  UNCHANGED <<len, has>>
    BY <1>2, Zenon DEF Disconnect, Reconnect
<1>3. CASE UNCHANGED vars
    BY <1>3, Zenon DEF vars
<1> QED  BY <1>1, <1>2, <1>3, AppendReplicates, Zenon DEF Next

\* The peers of any network implement the abstract replication: only the
\* writer makes blocks, each other node gets them from a node it is connected
\* to that has them, and none is lost (peer.rs, run and its handlers).
THEOREM PeersReplicate == Spec => ImplementsReplication
<1>1. Init => R!Init
    BY InitReplicates, Zenon
<1>2. StatsInv /\ SpreadInv /\ [Next]_vars => [R!Next]_<<len, has>>
    BY NextReplicates, Zenon
<1> QED
    BY <1>1, <1>2, StatsInvariant, SpreadInvariant, PTL
    DEF Spec, ImplementsReplication, R!Spec

-----------------------------------------------------------------------------
(* In a star every missing block is on its way.                            *)

\* What WayInv says of the reader's end p of a connection.
WayOf(p) ==
    /\ status[p] # "closed" =>
          \A i \in Written \ has[p[1]] : i < WantLen => OnItsWay(p, i)
    /\ status[Other(p)] = "init" => Asking(p)

LEMMA WayEnds == WayInv <=> \A p \in Peers : p[2] = Writer => WayOf(p)
BY Zenon DEF WayInv, MissingOnItsWay, WayOf

\* A connection has one reader's end.
LEMMA ReaderEnd ==
    ASSUME StarTopology, NEW q \in Peers
    PROVE  /\ Other(q) \in Peers /\ Other(Other(q)) = q /\ Other(q) # q
           /\ Ends(q) = {q, Other(q)} /\ Ends(Other(q)) = {q, Other(q)}
           /\ Other(q)[1] = q[2] /\ Other(q)[2] = q[1]
           /\ q[1] \in Nodes /\ q[2] \in Nodes /\ q[1] # q[2]
           /\ q[1] = Writer \/ q[2] = Writer
<1>1. /\ Other(q) \in Peers /\ Other(Other(q)) = q /\ Other(q) # q /\ Ends(q) = {q, Other(q)}
      /\ Ends(Other(q)) = {Other(q), Other(Other(q))}
    BY EndFacts, Zenon
<1>2. q[1] = Writer \/ q[2] = Writer
    BY Zenon DEF StarTopology, Peers
<1>3. q[1] # q[2]
    BY PeerAssumption, Zenon DEF Peers
<1> QED  BY <1>1, <1>2, <1>3, PeerFacts, Zenon DEF Other

\* A step at one connection leaves the others as they were.
LEMMA WayFrame ==
    ASSUME WayInv, NEW p \in Peers, p[2] = Writer, WayOf(p)',
           len'[Writer] = len[Writer],
           \A n \in Nodes : has[n] \subseteq has'[n],
           \A q \in Peers : q \notin Ends(p) =>
              /\ status'[q] = status[q] /\ inbox'[q] = inbox[q]
              /\ Range(events[q]) \subseteq Range(events'[q])
    PROVE  WayInv'
<1> SUFFICES ASSUME NEW r \in Peers, r[2] = Writer
             PROVE  WayOf(r)'
    BY Zenon DEF WayInv, MissingOnItsWay, WayOf
<1>1. CASE r \in Ends(p)
  <2>1. r = p
    <3>1. Other(p)[2] # Writer
      BY PeerAssumption, Zenon DEF Peers, Other
    <3> QED  BY <1>1, <3>1, Zenon DEF Ends
  <2> QED  BY <2>1, Zenon
<1>2. CASE r \notin Ends(p)
  <2>1. Other(r) \notin Ends(p) /\ Other(r) \in Peers /\ r[1] \in Nodes
    BY <1>2, EndFacts, PeerFacts, Zenon
  <2>2. /\ status'[r] = status[r] /\ inbox'[r] = inbox[r]
        /\ status'[Other(r)] = status[Other(r)] /\ inbox'[Other(r)] = inbox[Other(r)]
        /\ Range(events[Other(r)]) \subseteq Range(events'[Other(r)])
    BY <1>2, <2>1, Zenon
  <2>3. WayOf(r) /\ Written' = Written /\ has[r[1]] \subseteq has'[r[1]]
    BY <2>1, WayEnds, Zenon DEF Written
  <2>4. Asking(r) => Asking(r)'
    BY <2>2, Zenon DEF Asking
  <2>5. \A i : OnItsWay(r, i) => OnItsWay(r, i)'
    BY <2>2, <2>4, Zenon DEF OnItsWay
  <2> QED  BY <2>2, <2>3, <2>4, <2>5, Zenon DEF WayOf
<1> QED  BY <1>1, <1>2, Zenon

LEMMA BringsType ==
    ASSUME NEW m, NEW i, Brings(m, i)
    PROVE  m.type \in {"have", "bits", "data"}
BY DEF Brings, Have

\* The reader handles a message h and sends the messages in O: what h announced
\* must be held by then or requested.
LEMMA ReaderHandles ==
    ASSUME NEW p \in Peers, WayOf(p), NEW h, NEW O,
           UNCHANGED status, len'[Writer] = len[Writer], has[p[1]] \subseteq has'[p[1]],
           Range(events[Other(p)]) \subseteq Range(events'[Other(p)]),
           Range(inbox[p]) = {h} \cup Range(inbox'[p]),
           Range(inbox'[Other(p)]) = Range(inbox[Other(p)]) \cup O,
           \A i \in Written \ has'[p[1]] : Brings(h, i) => Request(i) \in O
    PROVE  WayOf(p)'
<1>1. Written' = Written
    BY Zenon DEF Written
<1>2. Asking(p) => Asking(p)'
    BY Zenon DEF Asking
<1>3. ASSUME NEW i \in Written \ has'[p[1]], OnItsWay(p, i)
      PROVE  OnItsWay(p, i)'
  <2>1. CASE Asking(p)
    BY <1>2, <2>1, Zenon DEF OnItsWay
  <2>2. CASE \E m \in Range(inbox[p]) : Brings(m, i)
    <3>1. PICK m \in Range(inbox[p]) : Brings(m, i)
      BY <2>2, Zenon
    <3>2. CASE m = h
      <4>1. Request(i) \in Range(inbox'[Other(p)])
        BY <1>3, <3>1, <3>2, Zenon
      <4> QED  BY <4>1, Zenon DEF OnItsWay
    <3>3. CASE m \in Range(inbox'[p])
      BY <3>1, <3>3, Zenon DEF OnItsWay
    <3> QED  BY <3>1, <3>2, <3>3, Zenon
  <2>3. CASE Request(i) \in Range(inbox[Other(p)])
    BY <2>3, Zenon DEF OnItsWay
  <2>4. CASE i = len[Writer] - 1 /\ Appended \in Range(events[Other(p)])
    BY <2>4, Zenon DEF OnItsWay
  <2> QED  BY <1>3, <2>1, <2>2, <2>3, <2>4, Zenon DEF OnItsWay
<1> QED  BY <1>1, <1>2, <1>3, Zenon DEF WayOf

\* The writer handles a message h and sends the messages in O: a Want must be
\* answered with all blocks, a request with its block.
LEMMA WriterHandles ==
    ASSUME NEW p \in Peers, WayOf(p), NEW h, NEW O,
           UNCHANGED status, len'[Writer] = len[Writer], has'[p[1]] = has[p[1]],
           status[Other(p)] = "running",
           Range(events[Other(p)]) \subseteq Range(events'[Other(p)]),
           Range(inbox[Other(p)]) = {h} \cup Range(inbox'[Other(p)]),
           Range(inbox'[p]) = Range(inbox[p]) \cup O,
           \A i \in Written : h = Request(i) => \E m \in O : Brings(m, i),
           h = Want => \A i \in Written : i < WantLen => \E m \in O : Brings(m, i)
    PROVE  WayOf(p)'
<1>1. Written' = Written
    BY Zenon DEF Written
<1>2. ASSUME NEW i \in Written, i < WantLen, OnItsWay(p, i)
      PROVE  OnItsWay(p, i)'
  <2>1. (\E m \in O : Brings(m, i)) => OnItsWay(p, i)'
    BY Zenon DEF OnItsWay
  <2>2. CASE status[p] = "init"
    BY <2>2, Zenon DEF OnItsWay, Asking
  <2>3. CASE Want \in Range(inbox[Other(p)])
    BY <1>2, <2>1, <2>3, Zenon DEF OnItsWay, Asking
  <2>4. CASE \E m \in Range(inbox[p]) : Brings(m, i)
    BY <2>4, Zenon DEF OnItsWay
  <2>5. CASE Request(i) \in Range(inbox[Other(p)])
    BY <1>2, <2>1, <2>5, Zenon DEF OnItsWay
  <2>6. CASE i = len[Writer] - 1 /\ Appended \in Range(events[Other(p)])
    BY <2>6, Zenon DEF OnItsWay
  <2> QED  BY <1>2, <2>2, <2>3, <2>4, <2>5, <2>6, Zenon DEF OnItsWay, Asking
<1> QED  BY <1>1, <1>2, Zenon DEF WayOf

\* A handler that leaves the feeds and the events alone.
LEMMA HandlerWay ==
    ASSUME StarTopology, StatsInv, WayInv, NEW q \in Peers, NEW type, Gets(q, type),
           NEW out \in Seq(Messages), Handle(q, out),
           UNCHANGED <<len, has, status, events>>,
           q[2] = Writer => \A i \in Written \ has[q[1]] :
              Brings(Head(inbox[q]), i) => Request(i) \in Range(out),
           q[1] = Writer => \A i \in Written :
              (Head(inbox[q]) = Request(i) \/ (Head(inbox[q]) = Want /\ i < WantLen))
                 => \E m \in Range(out) : Brings(m, i)
    PROVE  WayInv'
<1> DEFINE h == Head(inbox[q])
           o == Other(q)
<1>1. inbox[q] # <<>> /\ status[q] = "running"
    BY Zenon DEF Gets, Waits
<1>2. /\ Range(inbox[q]) = {h} \cup Range(inbox'[q])
      /\ Range(inbox'[o]) = Range(inbox[o]) \cup Range(out)
      /\ \A r \in Peers : r \notin Ends(q) => inbox'[r] = inbox[r]
    BY <1>1, HandleEffect, Zenon
<1>3. /\ o \in Peers /\ Other(o) = q /\ Ends(q) = {q, o} /\ Ends(o) = {q, o}
      /\ o[2] = q[1] /\ (q[1] = Writer \/ q[2] = Writer)
    BY ReaderEnd, Zenon
<1>4. CASE q[2] = Writer
  <2>1. WayOf(q)
    BY <1>4, WayEnds, Zenon
  <2>2. WayOf(q)'
    BY <1>2, <1>4, <2>1, ReaderHandles, Zenon
  <2> QED  BY <1>2, <1>4, <2>2, WayFrame, Zenon
<1>5. CASE q[1] = Writer
  <2>1. WayOf(o) /\ o[2] = Writer
    BY <1>3, <1>5, WayEnds, Zenon
  <2>2. /\ \A i \in Written : h = Request(i) => \E m \in Range(out) : Brings(m, i)
        /\ h = Want => \A i \in Written : i < WantLen => \E m \in Range(out) : Brings(m, i)
    BY <1>5, Zenon
  <2> HIDE DEF o, h
  <2>3. WayOf(o)'
    BY <1>1, <1>2, <1>3, <2>1, <2>2, WriterHandles, Zenon
  <2> QED  BY <1>2, <1>3, <2>1, <2>3, WayFrame, ZenonT(30)
<1> QED  BY <1>3, <1>4, <1>5, Zenon

LEMMA OnOpenWay ==
    ASSUME StarTopology, StatsInv, WayInv, NEW q \in Peers, OnOpen(q)
    PROVE  WayInv'
<1>1. Head(inbox[q]).type = "open"
    BY Zenon DEF OnOpen, Gets, Waits
<1>2. \A i : ~Brings(Head(inbox[q]), i)
    BY <1>1, BringsType
<1>3. \A i : Head(inbox[q]) # Request(i) /\ Head(inbox[q]) # Want
    BY <1>1 DEF Request, Want
<1> QED  BY <1>2, <1>3, WantOut, HandlerWay, Zenon DEF OnOpen

LEMMA OnWantWay ==
    ASSUME StarTopology, PeerInv, StatsInv, WayInv, NEW q \in Peers, OnWant(q)
    PROVE  WayInv'
<1> DEFINE bits == Bits(has[q[1]] \cap 0 .. WantLen - 1)
<1>1. Head(inbox[q]).type = "want"
    BY Zenon DEF OnWant, Gets, Waits
<1>2. \A i : ~Brings(Head(inbox[q]), i)
    BY <1>1, BringsType
<1>3. \A i : Head(inbox[q]) # Request(i)
    BY <1>1 DEF Request
<1>4. PICK out \in Seq(Messages) : Handle(q, out) /\ \E i \in DOMAIN out : out[i] = bits
    BY WantReply, Zenon
<1>5. bits \in Range(out)
    BY <1>4, Zenon DEF Range
<1>6. ASSUME q[1] = Writer, NEW i \in Written, i < WantLen
      PROVE  Brings(bits, i)
  <2>1. i \in has[q[1]]
    BY <1>6, Zenon DEF PeerInv
  <2>2. i \in 0 .. WantLen - 1
    BY <1>6, PeerAssumption, LenFacts DEF Written
  <2> QED  BY <2>1, <2>2, Zenon DEF Brings, Bits
<1> HIDE DEF bits
<1> QED  BY <1>2, <1>3, <1>4, <1>5, <1>6, HandlerWay, Zenon DEF OnWant

\* A sequence of the members of a finite set of numbers in ascending order has
\* them all.
LEMMA AscendingAll ==
    ASSUME NEW S \in SUBSET Nat, IsFiniteSet(S), NEW s \in Ascending(S)
    PROVE  \A x \in S : \E i \in DOMAIN s : s[i] = x
<1> DEFINE c == Cardinality(S)
<1>1. c \in Nat
    BY FS_CardinalityType, Zenon
<1>2. s \in [1 .. c -> S] /\ \A i, j \in DOMAIN s : i < j => s[i] < s[j]
    BY Zenon DEF Ascending
<1> HIDE DEF c
<1>3. \A i, j \in 1 .. c : s[i] = s[j] => i = j
  <2> SUFFICES ASSUME NEW i \in 1 .. c, NEW j \in 1 .. c, s[i] = s[j], i # j PROVE FALSE
    BY Zenon
  <2>1. i < j \/ j < i
    BY <1>1
  <2>2. s[i] < s[j] \/ s[j] < s[i]
    BY <1>2, <2>1, Zenon
  <2>3. s[i] \in Nat /\ s[j] \in Nat
    BY <1>2, Zenon
  <2> QED  BY <2>2, <2>3
<1>4. s \in Injection(1 .. c, S)
    BY <1>2, <1>3, Zenon DEF Injection, IsInjective
<1>5. Cardinality(1 .. c) = c
    BY <1>1, FS_Interval
<1>6. s \in Surjection(1 .. c, S)
    BY <1>4, <1>5, FS_Injection, Zenon DEF c
<1> QED  BY <1>2, <1>6, Zenon DEF Surjection

LEMMA OnHaveWay ==
    ASSUME StarTopology, StatsInv, WayInv, NEW q \in Peers, OnHave(q)
    PROVE  WayInv'
<1> DEFINE h == Head(inbox[q])
<1>1. PICK S \in SUBSET Indexes : \E s \in Ascending(S \ has[q[1]]) :
              /\ h.type = "have" => S = {h.start}
              /\ h.type = "bits" => S = h.set
              /\ Handle(q, Requests(s))
              /\ Requests(s) \in Seq(Messages)
    BY HaveReply, Zenon
<1>2. PICK s \in Ascending(S \ has[q[1]]) :
              /\ h.type = "have" => S = {h.start}
              /\ h.type = "bits" => S = h.set
              /\ Handle(q, Requests(s))
              /\ Requests(s) \in Seq(Messages)
    BY <1>1, Zenon
<1>3. h.type = "have" \/ h.type = "bits"
    BY Zenon DEF OnHave, Gets, Waits
<1>4. ASSUME NEW i, Brings(h, i), i \notin has[q[1]]
      PROVE  Request(i) \in Range(Requests(s))
  <2>1. i \in S
    BY <1>2, <1>3, <1>4 DEF Brings, Have
  <2>2. S \ has[q[1]] \in SUBSET Nat /\ IsFiniteSet(S \ has[q[1]])
    <3>1. IsFiniteSet(Indexes)
      BY FS_Interval, PeerAssumption DEF Indexes
    <3>2. Indexes \subseteq Nat
      BY PeerAssumption DEF Indexes
    <3> QED  BY <3>1, <3>2, FS_Subset, Zenon
  <2>3. \A x \in S \ has[q[1]] : \E j \in DOMAIN s : s[j] = x
    BY <2>2, AscendingAll, Zenon
  <2>4. PICK j \in DOMAIN s : s[j] = i
    BY <1>4, <2>1, <2>3, Zenon
  <2>5. j \in DOMAIN Requests(s) /\ Requests(s)[j] = Request(i)
    BY <2>4, Zenon DEF Requests
  <2> QED  BY <2>5, Zenon DEF Range
<1>5. \A i : h # Request(i) /\ h # Want
    BY <1>3 DEF Request, Want
<1>6. \E type \in {"have", "bits"} : Gets(q, type)
    BY Zenon DEF OnHave
<1> QED  BY <1>2, <1>4, <1>5, <1>6, HandlerWay, Zenon DEF OnHave

LEMMA OnRequestWay ==
    ASSUME StarTopology, StatsInv, WayInv, NEW q \in Peers, OnRequest(q)
    PROVE  WayInv'
<1> DEFINE h == Head(inbox[q])
           d == Data(h.index, h.index \in has[q[1]], len[q[1]])
<1>1. /\ h.type = "request" /\ <<d>> \in Seq(Messages) /\ Handle(q, <<d>>)
      /\ Range(<<d>>) = {d} /\ d.type = "data" /\ d.index = h.index
    BY RequestReply, Zenon
<1> HIDE DEF d
<1>2. \A i : ~Brings(h, i) /\ h # Want
    BY <1>1, BringsType DEF Want
<1>3. \A i : h = Request(i) => Brings(d, i)
    BY <1>1 DEF Request, Brings
<1> QED  BY <1>1, <1>2, <1>3, HandlerWay, Zenon DEF OnRequest

LEMMA AddUploadedWay ==
    ASSUME WayInv, NEW q \in Peers, AddUploaded(q)
    PROVE  WayInv'
<1>1. \A p : Asking(p)' = Asking(p) /\ \A i : OnItsWay(p, i)' = OnItsWay(p, i)
    BY Zenon DEF AddUploaded, Asking, OnItsWay
<1> QED  BY <1>1, Zenon DEF AddUploaded, WayInv, MissingOnItsWay, Written

\* A step at one end that only sends: what it takes from the events of the
\* writer's end it announces.
LEMMA SenderWay ==
    ASSUME StarTopology, StatsInv, WayInv, NEW q \in Peers,
           NEW out \in Seq(Messages), Send(q, out), UNCHANGED <<len, has>>,
           status[q] # "closed", status' = [status EXCEPT ![q] = "running"],
           status[q] = "init" => Want \in Range(out),
           \A r \in Peers : r # q => events'[r] = events[r],
           q[1] = Writer /\ Appended \in Range(events[q]) =>
              Appended \in Range(events'[q]) \/ \E m \in Range(out) : Brings(m, len[Writer] - 1)
    PROVE  WayInv'
<1> DEFINE o == Other(q)
<1>1. /\ inbox'[q] = inbox[q]
      /\ Range(inbox'[o]) = Range(inbox[o]) \cup Range(out)
      /\ \A r \in Peers : r \notin Ends(q) => inbox'[r] = inbox[r]
    BY SendEffect, Zenon
<1>2. /\ o \in Peers /\ Other(o) = q /\ o # q /\ Ends(q) = {q, o} /\ Ends(o) = {q, o}
      /\ o[1] = q[2] /\ o[2] = q[1] /\ q[1] # q[2] /\ (q[1] = Writer \/ q[2] = Writer)
    BY ReaderEnd, Zenon
<1>3. /\ \A r \in Peers : r # q => status'[r] = status[r]
      /\ status'[q] = "running"
    BY Zenon DEF StatsInv, TypeOK
<1>4. Written' = Written
    BY Zenon DEF Written
<1> HIDE DEF o
<1>5. CASE q[2] = Writer
  <2>1. WayOf(q)
    BY <1>5, WayEnds, Zenon
  <2>2. Asking(q) => Asking(q)'
    BY <1>1, Zenon DEF Asking, o
  <2>3. \A i : OnItsWay(q, i) => OnItsWay(q, i)'
    <3>1. /\ Range(inbox[o]) \subseteq Range(inbox'[o]) /\ events'[o] = events[o]
      BY <1>1, <1>2, Zenon
    <3> QED  BY <1>1, <2>2, <3>1, Zenon DEF OnItsWay, o
  <2>4. WayOf(q)'
    <3>1. status'[o] = status[o]
      BY <1>2, <1>3, Zenon
    <3> QED  BY <1>4, <2>1, <2>2, <2>3, <3>1, Zenon DEF WayOf, o
  <2> QED  BY <1>1, <1>2, <1>3, <1>5, <2>4, WayFrame, Zenon
<1>6. CASE q[1] = Writer
  <2>1. WayOf(o) /\ o[2] = Writer
    BY <1>2, <1>6, WayEnds, Zenon
  <2>2. /\ status'[o] = status[o] /\ inbox'[q] = inbox[q] /\ Other(o) = q
        /\ Range(inbox[o]) \subseteq Range(inbox'[o])
    BY <1>1, <1>2, <1>3, Zenon
  <2>3. Asking(o) => Asking(o)'
    BY <2>2, Zenon DEF Asking
  <2>4. ASSUME NEW i, OnItsWay(o, i)
        PROVE  OnItsWay(o, i)'
    <3>1. CASE Asking(o)
      BY <2>3, <3>1, Zenon DEF OnItsWay
    <3>2. CASE \E m \in Range(inbox[o]) : Brings(m, i)
      BY <2>2, <3>2, Zenon DEF OnItsWay
    <3>3. CASE Request(i) \in Range(inbox[q])
      BY <2>2, <3>3, Zenon DEF OnItsWay
    <3>4. CASE i = len[Writer] - 1 /\ Appended \in Range(events[q])
      <4>1. CASE Appended \in Range(events'[q])
        BY <2>2, <3>4, <4>1, Zenon DEF OnItsWay
      <4>2. CASE \E m \in Range(out) : Brings(m, i)
        <5>1. \E m \in Range(inbox'[o]) : Brings(m, i)
          BY <1>1, <4>2, Zenon
        <5> QED  BY <5>1, Zenon DEF OnItsWay
      <4> QED  BY <1>6, <3>4, <4>1, <4>2, Zenon
    <3> QED  BY <2>2, <2>4, <3>1, <3>2, <3>3, <3>4, Zenon DEF OnItsWay
  <2>5. WayOf(o)'
    BY <1>3, <1>4, <2>1, <2>2, <2>4, Zenon DEF WayOf
  <2> QED  BY <1>1, <1>2, <1>3, <2>1, <2>5, WayFrame, Zenon
<1> QED  BY <1>2, <1>5, <1>6, Zenon

LEMMA StartWay ==
    ASSUME StarTopology, StatsInv, WayInv, NEW q \in Peers, Start(q)
    PROVE  WayInv'
BY WantOut, SenderWay, Zenon DEF Start

LEMMA OnFeedEventWay ==
    ASSUME StarTopology, StatsInv, WayInv, NEW q \in Peers, OnFeedEvent(q)
    PROVE  WayInv'
<1> DEFINE e == Head(events[q])
<1>1. PICK i \in Indexes : /\ Send(q, <<Have(i)>>) /\ <<Have(i)>> \in Seq(Messages)
                           /\ Range(<<Have(i)>>) = {Have(i)}
                           /\ e = Appended => i = len[q[1]] - 1
    BY EventOut, Zenon
<1>2. events \in [Peers -> Seq(FeedEvents)] /\ status \in [Peers -> {"init", "running", "dead", "closed"}]
    BY Zenon DEF StatsInv, TypeOK
<1>3. /\ status[q] = "running" /\ events[q] # <<>> /\ UNCHANGED <<len, has, status>>
      /\ events' = [events EXCEPT ![q] = Tail(@)]
    BY Zenon DEF OnFeedEvent, Waits
<1>4. status' = [status EXCEPT ![q] = "running"]
    BY <1>2, <1>3, Zenon
<1>5. events'[q] = Tail(events[q]) /\ \A r \in Peers : r # q => events'[r] = events[r]
    BY <1>2, <1>3, Zenon
<1>6. events[q] \in Seq(FeedEvents)
    BY <1>2, Zenon
<1>7. Range(events[q]) = {e} \cup Range(Tail(events[q]))
    BY <1>3, <1>6, RangeHead, Zenon
<1>8. ASSUME q[1] = Writer, Appended \in Range(events[q]), Appended \notin Range(events'[q])
      PROVE  \E m \in Range(<<Have(i)>>) : Brings(m, len[Writer] - 1)
  <2>1. e = Appended
    BY <1>5, <1>7, <1>8, Zenon
  <2> QED  BY <1>1, <1>8, <2>1, Zenon DEF Brings
<1>9. status[q] # "init" /\ status[q] # "closed"
    BY <1>3
<1> QED  BY <1>1, <1>3, <1>4, <1>5, <1>8, <1>9, SenderWay, Zenon

\* on_data at the reader stores what the message brought; at the writer it
\* changes nothing.
LEMMA OnDataWay ==
    ASSUME StarTopology, PeerInv, StatsInv, SpreadInv, WayInv, NEW q \in Peers, OnData(q)
    PROVE  WayInv'
<1> DEFINE n == q[1]
           d == Head(inbox[q])
           o == Other(q)
<1>1. /\ inbox[q] # <<>> /\ d.type = "data" /\ n \in Nodes
      /\ d.index \in Nat /\ d.len \in Nat /\ d.len <= len[q[2]]
    BY DataTakenIn, Zenon
<1>2. d.full = TRUE /\ d.index \in Written
    BY <1>1, HeadSound, MessageShape, Zenon
<1>3. /\ Range(inbox[q]) = {d} \cup Range(inbox'[q])
      /\ Range(inbox'[o]) = Range(inbox[o]) \cup Range(<<>>)
      /\ \A r \in Peers : r \notin Ends(q) => inbox'[r] = inbox[r]
  <2>1. Handle(q, <<>>)
    BY Zenon DEF OnData
  <2> QED  BY <1>1, <2>1, HandleEffect, RangeNone, Zenon
<1>4. /\ o \in Peers /\ Other(o) = q /\ o # q /\ Ends(q) = {q, o} /\ Ends(o) = {q, o}
      /\ o[1] = q[2] /\ o[2] = q[1] /\ q[1] # q[2] /\ (q[1] = Writer \/ q[2] = Writer)
      /\ q[2] \in Nodes
    BY ReaderEnd, Zenon
<1>5. has \in [Nodes -> SUBSET Indexes] /\ len \in [Nodes -> 0 .. MaxLen] /\ MaxLen \in Nat
      /\ Writer \in Nodes
    BY PeerAssumption, Zenon DEF StatsInv, TypeOK
<1>6. has' = [has EXCEPT ![n] = @ \cup {d.index}] /\ UNCHANGED status /\ status[q] = "running"
    BY <1>2, Zenon DEF OnData, Gets, Waits
<1>7. \A r \in Peers : Range(events[r]) \subseteq Range(events'[r])
  <2>1. CASE UNCHANGED events
    BY <2>1, Zenon
  <2>2. CASE Notify(n, <<Download(d.index)>>)
    <3>1. d.index \in Indexes
      BY <1>2, LenFacts, Zenon
    <3>2. Download(d.index) \in FeedEvents
      BY <3>1, Zenon DEF FeedEvents
    <3>3. <<Download(d.index)>> \in Seq(FeedEvents)
      BY <3>2
    <3>4. ASSUME NEW r \in Peers
          PROVE  Range(events[r]) \subseteq Range(events[r] \o <<Download(d.index)>>)
      <4>1. events[r] \in Seq(FeedEvents)
        BY Zenon DEF StatsInv, TypeOK
      <4> QED  BY <3>3, <4>1, RangeGrows, Zenon
    <3> QED  BY <2>2, <3>4, Zenon DEF Notify
  <2> QED  BY <2>1, <2>2, Zenon DEF OnData
<1>8. PICK l \in (d.index + 1) .. d.len :
        len' = [len EXCEPT ![n] = IF l > @ THEN l ELSE @]
    BY Zenon DEF OnData
<1>9. \E p \in {q, o} : p[2] = Writer
    BY <1>4, Zenon
<1> HIDE DEF n, d, o
<1>10. len'[Writer] = len[Writer]
  <2>1. len[q[2]] \in 0 .. MaxLen /\ len[Writer] \in 0 .. MaxLen /\ len[q[2]] <= len[Writer]
    BY <1>4, <1>5, LenFacts, Zenon
  <2>2. ~(l > len[Writer])
    BY <1>1, <1>5, <1>8, <2>1
  <2> QED  BY <1>1, <1>5, <1>8, <2>2, Zenon
<1>11. d.index \in has'[n] /\ \A k \in Nodes : has[k] \subseteq has'[k] /\ (k # n => has'[k] = has[k])
    BY <1>1, <1>5, <1>6, Zenon
<1>12. CASE q[2] = Writer
  <2>1. WayOf(q)
    BY <1>12, WayEnds, Zenon
  <2>2. \A i \in Written \ has'[n] : ~Brings(d, i)
    BY <1>1, <1>11 DEF Brings, Have
  <2>3. WayOf(q)'
    BY <1>1, <1>3, <1>4, <1>6, <1>7, <1>10, <1>11, <2>1, <2>2, ReaderHandles, Zenon DEF n, o
  <2> QED  BY <1>3, <1>6, <1>7, <1>10, <1>11, <1>12, <2>3, WayFrame, Zenon
<1>13. CASE q[1] = Writer
  <2>1. WayOf(o) /\ o[2] = Writer
    BY <1>4, <1>13, WayEnds, Zenon
  <2>2. (\A i \in Written : d = Request(i) => \E m \in Range(<<>>) : Brings(m, i)) /\ d # Want
    BY <1>1 DEF Request, Want
  <2>3. has'[o[1]] = has[o[1]]
    BY <1>4, <1>11, Zenon DEF n
  <2>4. WayOf(o)'
    BY <1>3, <1>4, <1>6, <1>7, <1>10, <2>1, <2>2, <2>3, WriterHandles, Zenon
  <2> QED  BY <1>3, <1>4, <1>6, <1>7, <1>10, <1>11, <2>1, <2>4, WayFrame, Zenon
<1> QED  BY <1>4, <1>12, <1>13, Zenon

\* An append while every earlier one is announced: the new block is the last,
\* and the writer's peers that run are told of it; the others will be asked.
LEMMA AppendWay ==
    ASSUME StarTopology, Spaced, PeerInv, StatsInv, WayInv, AppendBlocks(1)
    PROVE  WayInv'
<1>1. len[Writer] \in Nat /\ Writer \in Nodes /\ len \in [Nodes -> 0 .. MaxLen]
    BY PeerAssumption, LenFacts DEF PeerInv
<1>2. len'[Writer] = len[Writer] + 1 /\ UNCHANGED <<status, inbox>> /\ Announced
    BY <1>1, Zenon DEF AppendBlocks
<1>3. Written' = Written \cup {len[Writer]} /\ len[Writer] = len'[Writer] - 1
    BY <1>1, <1>2 DEF Written
<1> SUFFICES ASSUME NEW p \in Peers, p[2] = Writer
             PROVE  WayOf(p)'
    BY Zenon DEF WayInv, MissingOnItsWay, WayOf
<1> DEFINE w == Other(p)
<1>4. w \in Peers /\ w[1] = Writer /\ p[1] # Writer /\ p[1] \in Nodes /\ Other(w) = p
    BY ReaderEnd, Zenon
<1>5. has'[p[1]] = has[p[1]]
    BY <1>4, Zenon DEF AppendBlocks, PeerInv
<1>6. WayOf(p)
    BY WayEnds, Zenon
<1>7. Asking(p) => Asking(p)'
    BY <1>2, Zenon DEF Asking
<1>8. Appended \notin Range(events[w])
    BY <1>2, <1>4, Zenon DEF Announced, Range
<1>9. ASSUME NEW i, OnItsWay(p, i)
      PROVE  OnItsWay(p, i)'
    BY <1>2, <1>7, <1>8, <1>9, Zenon DEF OnItsWay
<1>10. ASSUME NEW i, i = len[Writer], status[p] # "closed"
       PROVE  OnItsWay(p, i)'
  <2>1. CASE status[w] = "running"
    <3> DEFINE evs == [j \in 1 .. 1 |-> Appended]
    <3>1. events'[w] = events[w] \o evs
      BY <1>4, <2>1, Zenon DEF AppendBlocks, Notify
    <3>2. events[w] \in Seq(FeedEvents)
      BY <1>4, ZenonT(30) DEF StatsInv, TypeOK
    <3>3. evs \in Seq(FeedEvents) /\ Range(evs) = {Appended}
      BY DEF FeedEvents, Range
    <3> HIDE DEF evs
    <3>4. Range(events[w] \o evs) = Range(events[w]) \cup Range(evs)
      BY <3>2, <3>3, RangeCat
    <3>5. Appended \in Range(events'[w])
      BY <3>1, <3>3, <3>4, Zenon
    <3>6. i = len'[Writer] - 1
      BY <1>3, <1>10, Zenon
    <3> QED  BY <3>5, <3>6, Zenon DEF OnItsWay
  <2>2. CASE status[w] = "init"
    BY <1>6, <1>7, <2>2, Zenon DEF WayOf, OnItsWay
  <2>3. CASE status[w] = "closed"
    BY <1>4, <1>10, <2>3, ZenonT(30) DEF StatsInv, ClosedIsEmpty
  <2> QED  BY <1>4, <2>1, <2>2, <2>3, Zenon DEF PeerInv
<1>11. ASSUME status'[p] # "closed", NEW i \in Written' \ has'[p[1]], i < WantLen
       PROVE  OnItsWay(p, i)'
  <2>1. CASE i \in Written
    BY <1>2, <1>5, <1>6, <1>9, <1>11, <2>1, Zenon DEF WayOf
  <2>2. CASE i = len[Writer]
    BY <1>2, <1>10, <1>11, <2>2, Zenon
  <2> QED  BY <1>3, <1>11, <2>1, <2>2, Zenon
<1> QED  BY <1>2, <1>6, <1>7, <1>11, Zenon DEF WayOf

LEMMA ConnectionWay ==
    ASSUME StarTopology, StatsInv, WayInv, NEW q \in Peers, Disconnect(q) \/ Reconnect(q)
    PROVE  WayInv'
<1> SUFFICES ASSUME NEW p \in Peers, p[2] = Writer
             PROVE  WayOf(p)'
    BY Zenon DEF WayInv, MissingOnItsWay, WayOf
<1>1. Other(p) \in Peers /\ (Other(p) \in Ends(q) <=> p \in Ends(q))
    BY EndFacts, Zenon
<1>2. CASE p \in Ends(q)
  <2>1. CASE Disconnect(q)
    <3>1. status'[p] = "closed" /\ status'[Other(p)] = "closed"
      BY <1>1, <1>2, <2>1, Zenon DEF Disconnect
    <3> QED  BY <3>1, Zenon DEF WayOf
  <2>2. CASE Reconnect(q)
    <3>1. status'[p] = "init"
      BY <1>2, <2>2, Zenon DEF Reconnect
    <3> QED  BY <3>1, Zenon DEF WayOf, OnItsWay, Asking
  <2> QED  BY <2>1, <2>2, Zenon
<1>3. CASE p \notin Ends(q)
  <2>1. /\ UNCHANGED <<len, has>>
        /\ \A r \in Peers : r \notin Ends(q) =>
              status'[r] = status[r] /\ inbox'[r] = inbox[r] /\ events'[r] = events[r]
    <3>1. CASE Disconnect(q)
      BY <3>1, Zenon DEF Disconnect
    <3>2. CASE Reconnect(q)
      BY <3>2, Zenon DEF Reconnect
    <3> QED  BY <3>1, <3>2, Zenon
  <2>2. WayOf(p)
    BY WayEnds, Zenon
  <2>3. /\ status'[p] = status[p] /\ inbox'[p] = inbox[p]
        /\ status'[Other(p)] = status[Other(p)] /\ inbox'[Other(p)] = inbox[Other(p)]
        /\ events'[Other(p)] = events[Other(p)]
    BY <1>1, <1>3, <2>1, Zenon
  <2>4. (Asking(p) => Asking(p)') /\ \A i : OnItsWay(p, i) => OnItsWay(p, i)'
    BY <2>1, <2>3, Zenon DEF Asking, OnItsWay
  <2> QED  BY <2>1, <2>2, <2>3, <2>4, Zenon DEF WayOf, Written
<1> QED  BY <1>2, <1>3, Zenon

LEMMA NextWay ==
    ASSUME StarTopology, Spaced, MaxBatch <= 1,
           PeerInv, StatsInv, SpreadInv, WayInv, [Next]_vars
    PROVE  WayInv'
<1>1. CASE UNCHANGED vars
  <2>1. \A p : Asking(p)' = Asking(p) /\ \A i : OnItsWay(p, i)' = OnItsWay(p, i)
    BY <1>1, Zenon DEF vars, Asking, OnItsWay
  <2> QED  BY <1>1, <2>1, Zenon DEF vars, WayInv, MissingOnItsWay, Written
<1>2. ASSUME NEW p \in Peers, Run(p)
      PROVE  WayInv'
    BY <1>2, StartWay, OnOpenWay, OnWantWay, OnHaveWay, OnRequestWay, AddUploadedWay,
       OnDataWay, OnFeedEventWay, NeverFails, Zenon
       DEF Run
<1>3. ASSUME NEW k \in 1 .. MaxBatch, AppendBlocks(k)
      PROVE  WayInv'
  <2>1. k = 1
    BY PeerAssumption
  <2> QED  BY <1>3, <2>1, AppendWay, Zenon
<1> QED  BY <1>1, <1>2, <1>3, ConnectionWay, Zenon DEF Next

LEMMA InitWay ==
    ASSUME Init
    PROVE  WayInv
<1>1. \A p \in Peers : Asking(p)
    BY Zenon DEF Init, Asking
<1> QED  BY <1>1, Zenon DEF WayInv, MissingOnItsWay, OnItsWay

\* In a star whose writer appends one block at a time, each announced before
\* the next, no block that a connected reader misses is ever forgotten.
THEOREM WayInvariant ==
    ASSUME StarTopology, Spaced, MaxBatch <= 1
    PROVE  Spec => []WayInv
<1>1. PeerInv /\ StatsInv /\ SpreadInv /\ WayInv /\ [Next]_vars => WayInv'
    BY NextWay, Zenon
<1>2. Spec => []PeerInv
    BY PeerInvariant, Zenon
<1> QED  BY <1>1, <1>2, InitWay, StatsInvariant, SpreadInvariant, PTL DEF Spec

\* There, a reader whose connection to the writer has fallen silent holds all
\* that is written, below the range of a Want: what is left of convergence
\* when the steps are taken (peer.rs, run).
THEOREM SilenceIsComplete ==
    ASSUME StarTopology, Spaced, MaxBatch <= 1
    PROVE  Spec => []SilentIsComplete
<1>1. WayInv => SilentIsComplete
  <2> SUFFICES ASSUME WayInv, NEW p \in Peers, p[2] = Writer, Silent(p),
                      NEW i \in Written, i < WantLen, i \notin has[p[1]]
               PROVE  FALSE
    BY Zenon DEF SilentIsComplete
  <2>1. OnItsWay(p, i)
    BY Zenon DEF WayInv, MissingOnItsWay, Silent
  <2>2. /\ status[p] = "running"
        /\ Range(inbox[p]) = {} /\ Range(inbox[Other(p)]) = {} /\ Range(events[Other(p)]) = {}
    BY RangeNone, Zenon DEF Silent
  <2> QED  BY <2>1, <2>2, Zenon DEF OnItsWay, Asking
<1>2. Spec => []WayInv
    BY WayInvariant, Zenon
<1> QED  BY <1>1, <1>2, PTL
=============================================================================

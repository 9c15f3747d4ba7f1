------------------------ MODULE ClientStreamsProofs ------------------------
(***************************************************************************)
(* The safety properties of ClientStreams, for any number of opens,        *)
(* appends and readers, any feed and any size of the listeners' channels.  *)
(***************************************************************************)
EXTENDS ClientStreamsLemmas

-----------------------------------------------------------------------------
(* The steps of a ReadStream.                                              *)

\* A step of a ReadStream keeps the invariant when it keeps the part that is
\* about this stream.
LEMMA StreamFrame ==
    ASSUME StreamsInv, NEW r \in Readers,
           UNCHANGED <<feedVars, loopVars, call, length, open, locked, setBy>>,
           UNCHANGED byteVars, bytes[r].state = "none",
           listening' \in SUBSET Readers, queue' \in [Readers -> Seq(FeedEvents)],
           ListenersSound', get' \in [Readers -> Gets], StreamTypeOK',
           \A q \in Readers : q # r =>
               /\ stream'[q] = stream[q] /\ given'[q] = given[q]
               /\ least'[q] = least[q] /\ get'[q] = get[q],
           StreamSound(r)',
           writable /\ stream'[r].at \in {"finished", "over"} /\ stream'[r].end = None
               => stream'[r].start + given'[r] >= least'[r]
    PROVE  StreamsInv'
<1>1. UNCHANGED <<bytes, calling, pos>>
    BY Zenon DEF byteVars
<1>2. ByteTypeOK' /\ ByteSound(r)'
    BY <1>1, ReaderFacts, Zenon DEF ByteTypeOK, ByteSound
<1>3. bytes'[r].state = "none"
    BY <1>1, Zenon
<1> QED  BY <1>1, <1>2, <1>3, ReaderFrame, Zenon

\* A new stream.
LEMMA ToStreamStep ==
    ASSUME StreamsInv, NEW r \in Readers, bytes[r].state = "none", UNCHANGED byteVars,
           NEW start \in Starts, NEW end \in Ends, NEW live \in BOOLEAN,
           ToStream(r, start, end, live)
    PROVE  StreamsInv'
<1> DEFINE s == [at |-> "get", index |-> start, start |-> start, end |-> end,
                 live |-> live]
<1>0. /\ stream[r].at = "none" /\ stream' = [stream EXCEPT ![r] = s]
      /\ get' = [get EXCEPT ![r] = Get("call", start)]
      /\ least' = [least EXCEPT ![r] = length]
      /\ UNCHANGED <<feedVars, loopVars, call, length, open, locked, setBy>>
      /\ UNCHANGED <<listening, queue, given>>
    BY Zenon DEF ToStream
<1>1. start \in Nat /\ end \in Ends \cup {None}
    BY StreamAssumption, Zenon
<1>2. /\ s \in StreamStates /\ s.at = "get" /\ s.index = start /\ s.start = start
      /\ s.end = end /\ s.live = live
    BY <1>1, Zenon DEF StreamStates
<1> HIDE DEF s
<1>3. /\ stream' \in [Readers -> StreamStates] /\ stream'[r] = s
      /\ get' \in [Readers -> Gets] /\ get'[r].at = "call" /\ get'[r].seq = start
      /\ least' \in [Readers -> 0 .. MaxLen] /\ least'[r] = length
      /\ \A q \in Readers : q # r =>
            /\ stream'[q] = stream[q] /\ given'[q] = given[q]
            /\ least'[q] = least[q] /\ get'[q] = get[q]
    BY <1>0, <1>1, <1>2, ReaderFacts, GetFacts
<1>4. StreamTypeOK'
    BY <1>0, <1>3, ReaderFacts, Zenon DEF StreamTypeOK
<1>5. ListenersSound'
    BY <1>0, ReaderFacts DEF ListenersSound, ListenersBounded, HasRoom, loopVars
<1>6. given[r] = 0 /\ length \in Nat /\ bytes'[r].state = "none"
    BY <1>0, ReaderFacts, ConstFacts DEF StreamSound, byteVars
<1>7. StreamSound(r)'
    BY <1>0, <1>1, <1>2, <1>3, <1>6 DEF StreamSound
<1> QED  BY <1>0, <1>2, <1>3, <1>4, <1>5, <1>7, ReaderFacts, StreamFrame, Zenon

\* A stream that is not made yet has no future to poll.
LEMMA StreamMade ==
    ASSUME StreamsInv, NEW r \in Readers, stream[r].at # "none"
    PROVE  bytes[r].state = "none"
BY ReaderFacts, Zenon DEF StreamSound

\* The first poll of onappend_get.
LEMMA StreamSubscribesStep ==
    ASSUME StreamsInv, NEW r \in Readers, UNCHANGED byteVars, StreamSubscribes(r)
    PROVE  StreamsInv'
<1>0. /\ stream[r].at = "subscribe" /\ stream' = [stream EXCEPT ![r].at = "wait"]
      /\ listening' = listening \cup {r}
      /\ UNCHANGED <<feedVars, loopVars, call, length, open, locked, setBy>>
      /\ UNCHANGED <<queue, get, given, least>>
    BY Zenon DEF StreamSubscribes
<1>1. /\ stream' \in [Readers -> StreamStates]
      /\ \A q \in Readers : q # r => stream'[q] = stream[q]
    BY <1>0, AtMoves, Zenon
<1>2. /\ stream'[r].at = "wait" /\ stream'[r].index = stream[r].index
      /\ stream'[r].start = stream[r].start /\ stream'[r].end = stream[r].end
      /\ stream'[r].live = stream[r].live
    BY <1>0, AtMoves, Zenon
<1>3. StreamTypeOK'
    BY <1>0, <1>1, ReaderFacts, Zenon DEF StreamTypeOK
<1>4. ListenersSound'
    BY <1>0, ReaderFacts DEF ListenersSound, ListenersBounded, HasRoom, loopVars
<1>5. bytes[r].state = "none" /\ bytes'[r].state = "none"
    BY <1>0, StreamMade DEF byteVars
<1>6. StreamSound(r)'
    BY <1>0, <1>2, <1>5, ReaderFacts DEF StreamSound, feedVars
<1> QED  BY <1>0, <1>1, <1>2, <1>3, <1>4, <1>5, <1>6, ReaderFacts, StreamFrame, Zenon

\* An event is taken from the channel.
LEMMA TakeEventStep ==
    ASSUME StreamsInv, NEW r \in Readers, UNCHANGED byteVars, TakeEvent(r)
    PROVE  StreamsInv'
<1>0. /\ stream[r].at = "wait" /\ queue[r] # <<>>
      /\ queue' = [queue EXCEPT ![r] = Tail(queue[r])]
      /\ \/ /\ stream' = [stream EXCEPT ![r].at = "get"]
            /\ get' = [get EXCEPT ![r] = Get("call", stream[r].index)]
         \/ UNCHANGED <<stream, get>>
      /\ UNCHANGED <<feedVars, loopVars, call, length, open, locked, setBy>>
      /\ UNCHANGED <<listening, given, least>>
    BY DEF TakeEvent
<1>1. queue' \in [Readers -> Seq(FeedEvents)] /\ Len(queue'[r]) = Len(queue[r]) - 1
  <2>1. queue[r] \in Seq(FeedEvents)
    BY ReaderFacts, Zenon
  <2>2. Tail(queue[r]) \in Seq(FeedEvents) /\ Len(Tail(queue[r])) = Len(queue[r]) - 1
    BY <1>0, <2>1
  <2> QED  BY <1>0, <2>2, ReaderFacts
<1>2. ListenersSound'
  <2>1. /\ locked # None => note[locked] # NoNote
        /\ r \in listening
        /\ \A q \in Readers \ listening : queue[q] = <<>>
      BY <1>0, ReaderFacts, Zenon DEF ListenersSound
  <2>2. \A q \in Readers : q # r => queue'[q] = queue[q]
      BY <1>0, ReaderFacts, Zenon
  <2>3. \A q \in Readers : queue[q] \in Seq(FeedEvents) /\ queue'[q] \in Seq(FeedEvents)
      BY <1>1, ReaderFacts, Zenon
  <2>4. \A q \in Readers : /\ Len(queue[q]) \in Nat /\ Len(queue'[q]) \in Nat
                           /\ Len(queue'[q]) <= Len(queue[q])
    <3>1. \A q \in Readers : Len(queue[q]) \in Nat /\ Len(queue'[q]) \in Nat
      BY <2>3
    <3> QED  BY <1>1, <2>2, <3>1
  <2>5. ListenersBounded'
    <3>1. \A q \in Readers : /\ Len(queue[q]) <= ListenerSize + 1
                             /\ ~(Len(queue[q]) <= ListenerSize) => locked # None
      BY <2>4, ReaderFacts, ConstFacts DEF ListenersSound, ListenersBounded, HasRoom
    <3>2. ASSUME NEW q \in Readers
          PROVE  /\ Len(queue'[q]) <= ListenerSize + 1
                 /\ ~(Len(queue'[q]) <= ListenerSize) => locked' # None
      <4>1. /\ Len(queue[q]) \in Nat /\ Len(queue'[q]) \in Nat
            /\ Len(queue'[q]) <= Len(queue[q]) /\ locked' = locked
            /\ ListenerSize \in Nat
        BY <1>0, <2>4, ConstFacts
      <4> QED  BY <3>1, <4>1
    <3> QED  BY <3>2 DEF ListenersBounded, HasRoom
  <2> QED  BY <1>0, <2>1, <2>2, <2>5 DEF ListenersSound, loopVars
<1>3. bytes[r].state = "none" /\ bytes'[r].state = "none"
    BY <1>0, StreamMade, Zenon DEF byteVars
<1>4. CASE UNCHANGED <<stream, get>>
  <2>1. StreamSound(r)' /\ StreamTypeOK'
    BY <1>0, <1>3, <1>4, ReaderFacts DEF StreamSound, StreamTypeOK, feedVars
  <2> QED  BY <1>0, <1>1, <1>2, <1>3, <1>4, <2>1, ReaderFacts, StreamFrame, Zenon
<1>5. CASE /\ stream' = [stream EXCEPT ![r].at = "get"]
           /\ get' = [get EXCEPT ![r] = Get("call", stream[r].index)]
  <2>1. /\ stream' \in [Readers -> StreamStates]
        /\ \A q \in Readers : q # r => stream'[q] = stream[q]
    BY <1>5, AtMoves, Zenon
  <2>2. /\ stream'[r].at = "get" /\ stream'[r].index = stream[r].index
        /\ stream'[r].start = stream[r].start /\ stream'[r].end = stream[r].end
        /\ stream'[r].live = stream[r].live /\ stream[r].index \in Nat
    BY <1>5, AtMoves, Zenon
  <2>3. /\ get' \in [Readers -> Gets] /\ get'[r].at = "call"
        /\ get'[r].seq = stream[r].index
        /\ \A q \in Readers : q # r => get'[q] = get[q]
    BY <1>5, <2>2, ReaderFacts, GetFacts
  <2>4. StreamTypeOK'
    BY <1>0, <2>1, ReaderFacts, Zenon DEF StreamTypeOK
  <2>5. StreamSound(r)'
    BY <1>0, <1>3, <2>2, <2>3, ReaderFacts DEF StreamSound, feedVars
  <2> QED  BY <1>0, <1>1, <1>2, <1>3, <2>1, <2>2, <2>3, <2>4, <2>5, ReaderFacts, StreamFrame, Zenon
<1> QED  BY <1>0, <1>4, <1>5, Zenon

\* The future is done.
LEMMA FutureDoneStep ==
    ASSUME StreamsInv, NEW r \in Readers, UNCHANGED byteVars, FutureDone(r)
    PROVE  StreamsInv'
<1>0. /\ stream[r].at = "get" /\ get[r].at \in {"block", "missing", "error"}
      /\ stream' = [stream EXCEPT ![r].at = "length"]
      /\ listening' = listening \ {r} /\ queue' = [queue EXCEPT ![r] = <<>>]
      /\ UNCHANGED <<feedVars, loopVars, call, length, open, locked, setBy>>
      /\ UNCHANGED <<get, given, least>>
    BY Zenon DEF FutureDone
<1>1. /\ stream' \in [Readers -> StreamStates]
      /\ \A q \in Readers : q # r => stream'[q] = stream[q]
    BY <1>0, AtMoves, Zenon
<1>2. /\ stream'[r].at = "length" /\ stream'[r].index = stream[r].index
      /\ stream'[r].start = stream[r].start /\ stream'[r].end = stream[r].end
      /\ stream'[r].live = stream[r].live
    BY <1>0, AtMoves, Zenon
<1>3. StreamTypeOK'
    BY <1>0, <1>1, ReaderFacts, Zenon DEF StreamTypeOK
<1>4. ListenersSound' /\ queue' \in [Readers -> Seq(FeedEvents)]
  <2>1. <<>> \in Seq(FeedEvents) /\ Len(<<>>) = 0
    OBVIOUS
  <2>2. /\ queue' \in [Readers -> Seq(FeedEvents)] /\ queue'[r] = <<>>
        /\ \A q \in Readers : q # r => queue'[q] = queue[q]
    BY <1>0, <2>1, ReaderFacts
  <2>3. Len(queue'[r]) <= ListenerSize + 1 /\ Len(queue'[r]) <= ListenerSize
    BY <2>1, <2>2, ConstFacts
  <2>4. ListenersBounded'
    BY <1>0, <2>2, <2>3, ReaderFacts, Zenon DEF ListenersSound, ListenersBounded, HasRoom
  <2> QED  BY <1>0, <2>2, <2>4, ReaderFacts, Zenon DEF ListenersSound, loopVars
<1>5. bytes[r].state = "none" /\ bytes'[r].state = "none"
    BY <1>0, StreamMade, Zenon DEF byteVars
<1>6. StreamSound(r)'
    BY <1>0, <1>2, <1>5, ReaderFacts DEF StreamSound, feedVars
<1> QED  BY <1>0, <1>1, <1>2, <1>3, <1>4, <1>5, <1>6, ReaderFacts, StreamFrame, Zenon

\* The item is given and the next future made.
LEMMA PollNextStep ==
    ASSUME StreamsInv, NEW r \in Readers, UNCHANGED byteVars, PollNext(r)
    PROVE  StreamsInv'
<1> DEFINE s == stream[r]
           last == IF s.end = None THEN length ELSE s.end
<1>0. PICK next \in {"over", "failed", "finished", "subscribe", "get"} :
      /\ s.at = "length"
      /\ get[r].at = "missing" => next = "over"
      /\ get[r].at = "error" => next = "failed"
      /\ get[r].at = "block" =>
            /\ last = s.index + 1 /\ ~s.live => next = "finished"
            /\ last = s.index + 1 /\ s.live => next = "subscribe"
            /\ last # s.index + 1 => next = "get"
      /\ stream' = [stream EXCEPT ![r].at = next, ![r].index = s.index + 1]
      /\ get' = [get EXCEPT ![r] = IF next = "get" THEN Get("call", s.index + 1)
                                                   ELSE Get("done", get[r].seq)]
      /\ given' = [given EXCEPT ![r] = IF get[r].at = "block" THEN given[r] + 1
                                                              ELSE given[r]]
      /\ UNCHANGED <<feedVars, loopVars, call, length, open, locked, setBy>>
      /\ UNCHANGED <<listening, queue, least>>
  <2> DEFINE atEnd == get[r].at = "block" /\ last = s.index + 1
             next == CASE get[r].at = "missing" -> "over"
                       [] get[r].at = "error" -> "failed"
                       [] atEnd /\ ~s.live -> "finished"
                       [] atEnd /\ s.live -> "subscribe"
                       [] OTHER -> "get"
  <2>1. s.live \in BOOLEAN
    BY ReaderFacts, Zenon DEF StreamStates
  <2>2. /\ next \in {"over", "failed", "finished", "subscribe", "get"}
        /\ get[r].at = "missing" => next = "over"
        /\ get[r].at = "error" => next = "failed"
        /\ get[r].at = "block" =>
              /\ last = s.index + 1 /\ ~s.live => next = "finished"
              /\ last = s.index + 1 /\ s.live => next = "subscribe"
              /\ last # s.index + 1 => next = "get"
    <3> HIDE DEF last, s
    <3>1. CASE get[r].at = "missing"
      BY <3>1, Zenon
    <3>2. CASE get[r].at = "error"
      BY <3>2, Zenon
    <3>3. CASE get[r].at = "block"
      BY <2>1, <3>3, Zenon
    <3>4. CASE get[r].at \notin {"missing", "error", "block"}
      BY <3>4, Zenon
    <3> QED  BY <3>1, <3>2, <3>3, <3>4
  <2>3. /\ s.at = "length"
        /\ stream' = [stream EXCEPT ![r].at = next, ![r].index = s.index + 1]
        /\ get' = [get EXCEPT ![r] = IF next = "get" THEN Get("call", s.index + 1)
                                                     ELSE Get("done", get[r].seq)]
        /\ given' = [given EXCEPT ![r] = IF get[r].at = "block" THEN given[r] + 1
                                                                ELSE given[r]]
        /\ UNCHANGED <<feedVars, loopVars, call, length, open, locked, setBy>>
        /\ UNCHANGED <<listening, queue, least>>
    BY Zenon DEF PollNext
  <2> HIDE DEF next, last, s
  <2> QED  BY <2>2, <2>3, Zenon
<1>1. /\ stream \in [Readers -> StreamStates] /\ given \in [Readers -> Nat]
      /\ s.index \in Nat /\ s.start \in Nat /\ given[r] \in Nat /\ get[r].seq \in Nat
      /\ s.live \in BOOLEAN /\ length \in Nat /\ s.end \in Nat \cup {None}
      /\ least[r] \in Nat
  <2>1. /\ stream \in [Readers -> StreamStates] /\ given \in [Readers -> Nat]
        /\ get[r] \in Gets /\ length \in 0 .. MaxLen /\ least[r] \in 0 .. MaxLen
    BY ReaderFacts, Zenon
  <2>2. /\ s.index \in Nat /\ s.start \in Nat /\ s.live \in BOOLEAN
        /\ s.end \in Ends \cup {None}
    BY <2>1, Zenon DEF StreamStates
  <2>3. s.end \in Nat \cup {None}
    BY <2>2, StreamAssumption, Zenon
  <2>4. get[r].seq \in Nat
    BY <2>1, Zenon DEF Gets
  <2> QED  BY <2>1, <2>2, <2>3, <2>4, ConstFacts
<1>2. /\ get[r].at \in {"block", "missing", "error"} /\ get[r].seq = s.index
      /\ s.index = s.start + given[r] /\ least[r] <= length
      /\ s.end # None /\ s.start < s.end /\ ~s.live => s.index < s.end
      /\ writable /\ get[r].at = "missing" => s.index >= least[r]
    BY <1>0, ReaderFacts, Zenon DEF StreamSound
<1>3. /\ stream' \in [Readers -> StreamStates]
      /\ stream'[r] = [s EXCEPT !.at = next, !.index = s.index + 1]
      /\ \A q \in Readers : q # r => stream'[q] = stream[q]
  <2>1. [s EXCEPT !.at = next, !.index = s.index + 1] \in StreamStates
    <3>1. s \in StreamStates /\ s.index + 1 \in Nat
      BY <1>1
    <3> HIDE DEF s
    <3> QED  BY <3>1, Zenon DEF StreamStates
  <2>2. stream' = [stream EXCEPT ![r] = [s EXCEPT !.at = next, !.index = s.index + 1]]
    BY <1>0, <1>1, Zenon DEF StreamStates
  <2> QED  BY <1>1, <2>1, <2>2
<1>4. /\ stream'[r].at = next /\ stream'[r].index = s.index + 1
      /\ stream'[r].start = s.start /\ stream'[r].end = s.end
      /\ stream'[r].live = s.live
    BY <1>1, <1>3 DEF StreamStates
<1>5. /\ get' \in [Readers -> Gets]
      /\ next = "get" => get'[r].at = "call" /\ get'[r].seq = s.index + 1
      /\ next # "get" => get'[r].at = "done"
      /\ \A q \in Readers : q # r => get'[q] = get[q]
  <2>1. /\ Get("call", s.index + 1) \in Gets /\ Get("done", get[r].seq) \in Gets
        /\ Get("call", s.index + 1).at = "call"
        /\ Get("call", s.index + 1).seq = s.index + 1
        /\ Get("done", get[r].seq).at = "done"
    BY <1>1, GetFacts
  <2> QED  BY <1>0, <2>1, ReaderFacts, Zenon
<1>6. /\ given' \in [Readers -> Nat]
      /\ get[r].at = "block" => given'[r] = given[r] + 1
      /\ get[r].at # "block" => given'[r] = given[r]
      /\ \A q \in Readers : q # r => given'[q] = given[q]
    BY <1>0, <1>1
<1>7. StreamTypeOK'
    BY <1>0, <1>3, <1>6, ReaderFacts, Zenon DEF StreamTypeOK
<1>8. ListenersSound'
    BY <1>0, ReaderFacts, Zenon DEF ListenersSound, ListenersBounded, HasRoom, loopVars
<1>9. bytes[r].state = "none" /\ bytes'[r].state = "none"
    BY <1>0, StreamMade DEF byteVars
<1>10. next \in {"finished", "subscribe", "get"} =>
          get[r].at = "block" /\ s.index + 1 = s.start + given'[r]
    BY <1>0, <1>1, <1>2, <1>6
<1>11. next = "get" /\ s.end # None /\ s.start < s.end /\ ~s.live
          => s.index + 1 < s.end
    BY <1>0, <1>1, <1>2, <1>10
<1>12. StreamSound(r)'
  <2>1. next = "subscribe" => s.live
    BY <1>0, <1>1, <1>10, Zenon
  <2> HIDE DEF s, last
  <2> QED  BY <1>0, <1>2, <1>4, <1>5, <1>9, <1>10, <1>11, <2>1 DEF StreamSound
<1>13. writable /\ next \in {"finished", "over"} /\ s.end = None
          => s.start + given'[r] >= least[r]
  <2>1. CASE next = "finished"
    <3>1. s.end = None => s.index + 1 = length
      BY <1>0, <1>1, <1>10, <2>1
    <3> QED  BY <1>1, <1>2, <1>10, <2>1, <3>1
  <2>2. CASE next = "over"
    <3>1. get[r].at = "missing"
      BY <1>0, <1>2, <2>2
    <3> QED  BY <1>2, <1>6, <3>1
  <2> QED  BY <2>1, <2>2, Zenon
<1> QED  BY <1>0, <1>3, <1>4, <1>5, <1>6, <1>7, <1>8, <1>9, <1>12, <1>13,
            ReaderFacts, StreamFrame, Zenon

-----------------------------------------------------------------------------
(* The steps of a ByteStream.                                              *)

\* A step of a ByteStream keeps the invariant when it keeps the part that is
\* about this stream.
LEMMA ByteFrame ==
    ASSUME StreamsInv, NEW r \in Readers,
           UNCHANGED <<feedVars, loopVars, call, length, open, locked, setBy>>,
           UNCHANGED <<listening, queue, streamVars>>, stream[r].at = "none",
           get' \in [Readers -> Gets], get'[r].at = "block" => get'[r].seq \in Indexes,
           ByteTypeOK', ByteSound(r)',
           \A q \in Readers : q # r =>
               bytes'[q] = bytes[q] /\ pos'[q] = pos[q] /\ get'[q] = get[q],
           bytes'[r].state \in {"Idle", "Reading", "Ready", "Finished"} =>
               /\ Offset[bytes'[r].seq] + bytes'[r].block_offset = pos'[r]
               /\ bytes'[r].state \in {"Reading", "Ready"} =>
                     get'[r].seq = bytes'[r].seq
    PROVE  StreamsInv'
<1>1. UNCHANGED <<stream, given, least>>
    BY Zenon DEF streamVars
<1>2. StreamTypeOK' /\ ListenersSound'
    BY <1>1, ReaderFacts, Zenon
       DEF StreamTypeOK, ListenersSound, ListenersBounded, HasRoom, loopVars
<1>3. StreamSound(r)'
    BY <1>1, ReaderFacts, Zenon DEF StreamSound
<1>4. /\ stream'[r].at = "none" /\ listening' \in SUBSET Readers
      /\ queue' \in [Readers -> Seq(FeedEvents)]
    BY <1>1, ReaderFacts, Zenon
<1> QED  BY <1>1, <1>2, <1>3, <1>4, ReaderFrame

\* What the invariant says of one ByteStream.
LEMMA ByteFacts ==
    ASSUME StreamsInv, NEW r \in Readers
    PROVE  LET b == bytes[r] IN
           /\ b.state \in ByteStates /\ b.seq \in 0 .. MaxLen
           /\ b.block_offset \in Nat /\ b.byte_offset \in Nat /\ pos[r] \in Nat
           /\ b.state \notin {"none"} => stream[r].at = "none"
           /\ get[r].at = "block" => get[r].seq \in Indexes
           /\ b.state \in {"Idle", "Reading", "Ready", "Finished"} =>
                 /\ Offset[b.seq] + b.block_offset = pos[r]
                 /\ b.state \in {"Reading", "Ready"} => get[r].seq = b.seq
<1>1. StreamSound(r) /\ ReadsInPlace
    BY ReaderFacts, Zenon DEF StreamsInv
<1>2. /\ bytes[r] \in [state : ByteStates, seq : 0 .. MaxLen,
                       block_offset : Nat, byte_offset : Nat]
      /\ pos[r] \in Nat
    BY ReaderFacts, Zenon
<1> QED  BY <1>1, <1>2, Zenon DEF StreamSound, ReadsInPlace

\* A step that only moves a ByteStream to another state, or sets where it
\* seeks to.
LEMMA StateStep ==
    ASSUME StreamsInv, NEW r \in Readers, UNCHANGED <<coreVars, streamVars, pos>>,
           stream[r].at = "none", calling' \in [Readers -> BOOLEAN],
           NEW state \in ByteStates, NEW to \in Nat,
           bytes' = [bytes EXCEPT ![r].state = state, ![r].byte_offset = to],
           \/ state = bytes[r].state
           \/ state \in {"Seeking", "panicked"}
           \/ state = "Finished" /\ bytes[r].state = "Reading"
           \/ state = "Idle" /\ bytes[r].state = "none"
    PROVE  StreamsInv'
<1>0. /\ UNCHANGED <<feedVars, loopVars, call, length, open, locked, setBy>>
      /\ UNCHANGED <<listening, queue, get>>
    BY Zenon DEF coreVars
<1>1. /\ bytes \in [Readers -> [state : ByteStates, seq : 0 .. MaxLen,
                                block_offset : Nat, byte_offset : Nat]]
      /\ ByteSound(r) /\ pos \in [Readers -> Nat] /\ get \in [Readers -> Gets]
    BY ReaderFacts, Zenon
<1> DEFINE c == [bytes[r] EXCEPT !.state = state, !.byte_offset = to]
<1>2. /\ c \in [state : ByteStates, seq : 0 .. MaxLen,
                block_offset : Nat, byte_offset : Nat]
      /\ c.state = state /\ c.seq = bytes[r].seq
      /\ c.block_offset = bytes[r].block_offset
    BY <1>1, Zenon
<1>3. bytes' = [bytes EXCEPT ![r] = c]
    BY <1>1, Zenon
<1> HIDE DEF c
<1>4. /\ bytes' \in [Readers -> [state : ByteStates, seq : 0 .. MaxLen,
                                 block_offset : Nat, byte_offset : Nat]]
      /\ bytes'[r] = c /\ \A q \in Readers : q # r => bytes'[q] = bytes[q]
    BY <1>1, <1>2, <1>3, ZenonT(30)
<1>5. ByteTypeOK'
    BY <1>1, <1>4, Zenon DEF ByteTypeOK
<1>6. /\ 0 \in Nat /\ Offset[0] = 0 /\ Size \in [Indexes -> Nat]
      /\ bytes[r].seq \in 0 .. MaxLen
    BY <1>1, ByteAssumption, Zenon
<1>7. ByteSound(r)'
  <2>1. CASE bytes[r].state = "none"
    <3>1. /\ bytes[r].seq = 0 /\ bytes[r].block_offset = 0 /\ pos[r] = 0
          /\ bytes[r].seq \in Indexes => 0 <= Size[bytes[r].seq]
      BY <1>1, <1>6, <2>1 DEF ByteSound
    <3> QED  BY <1>2, <1>4, <2>1, <3>1 DEF ByteSound
  <2>2. CASE bytes[r].state # "none"
    BY <1>1, <1>2, <1>4, <2>2 DEF ByteSound
  <2> QED  BY <2>1, <2>2
<1>8. bytes'[r].state \in {"Idle", "Reading", "Ready", "Finished"} =>
         /\ Offset[bytes'[r].seq] + bytes'[r].block_offset = pos'[r]
         /\ bytes'[r].state \in {"Reading", "Ready"} => get'[r].seq = bytes'[r].seq
  <2>1. CASE bytes[r].state = "none"
    <3>1. /\ bytes[r].seq = 0 /\ bytes[r].block_offset = 0 /\ pos[r] = 0
      BY <1>1, <2>1, Zenon DEF ByteSound
    <3> QED  BY <1>2, <1>4, <1>6, <2>1, <3>1
  <2>2. CASE bytes[r].state # "none"
    BY <1>0, <1>2, <1>4, <2>2, ByteFacts
  <2> QED  BY <2>1, <2>2, Zenon
<1>9. get[r].at = "block" => get[r].seq \in Indexes
    BY ByteFacts, Zenon
<1> QED  BY <1>0, <1>1, <1>4, <1>5, <1>7, <1>8, <1>9, ByteFrame

\* A seek is sent.
LEMMA SeekStep ==
    ASSUME StreamsInv, NEW r \in Readers, UNCHANGED streamVars, NEW to \in Nat,
           Seek(r, to)
    PROVE  StreamsInv'
<1>0. /\ bytes[r].state # "none"
      /\ bytes' = [bytes EXCEPT ![r].byte_offset =
                                   IF bytes[r].state = "Seeking" THEN @ ELSE to,
                                ![r].state = "Seeking"]
      /\ calling' = [calling EXCEPT ![r] = TRUE]
      /\ get' = [get EXCEPT ![r] = Get("none", 0)]
      /\ UNCHANGED <<feedVars, loopVars, call, length, open, locked, setBy>>
      /\ UNCHANGED <<listening, queue, pos>>
    BY Zenon DEF Seek, Begins
<1>1. /\ bytes \in [Readers -> [state : ByteStates, seq : 0 .. MaxLen,
                                block_offset : Nat, byte_offset : Nat]]
      /\ pos \in [Readers -> Nat] /\ get \in [Readers -> Gets]
      /\ calling \in [Readers -> BOOLEAN] /\ ByteSound(r)
    BY ReaderFacts, Zenon
<1>2. stream[r].at = "none"
    BY <1>0, ByteFacts, Zenon
<1>3. /\ get' \in [Readers -> Gets] /\ get'[r].at = "none"
      /\ \A q \in Readers : q # r => get'[q] = get[q]
  <2>1. 0 \in Nat
    OBVIOUS
  <2>2. Get("none", 0) \in Gets /\ Get("none", 0).at = "none"
    BY <2>1, Zenon DEF Get, Gets
  <2> QED  BY <1>0, <1>1, <2>2, Zenon
<1>4. /\ bytes' \in [Readers -> [state : ByteStates, seq : 0 .. MaxLen,
                                 block_offset : Nat, byte_offset : Nat]]
      /\ bytes'[r].state = "Seeking" /\ bytes'[r].seq = bytes[r].seq
      /\ bytes'[r].block_offset = bytes[r].block_offset
      /\ \A q \in Readers : q # r => bytes'[q] = bytes[q]
    BY <1>0, <1>1, ZenonT(30) DEF ByteStates
<1>5. ByteTypeOK'
    BY <1>0, <1>1, <1>4, Zenon DEF ByteTypeOK
<1>6. ByteSound(r)'
    BY <1>0, <1>1, <1>4, Zenon DEF ByteSound
<1> QED  BY <1>0, <1>2, <1>3, <1>4, <1>5, <1>6, ByteFrame

\* A seek is answered.
LEMMA SeekDoneStep ==
    ASSUME StreamsInv, NEW r \in Readers, UNCHANGED streamVars, SeekDone(r)
    PROVE  StreamsInv'
<1>0. PICK seq \in 0 .. MaxLen, offset \in 0 .. Offset[MaxLen] :
      /\ Finds(bytes[r].byte_offset, seq, offset)
      /\ bytes' = [bytes EXCEPT ![r].state = "Idle", ![r].seq = seq,
                                ![r].block_offset = offset]
    BY Zenon DEF SeekDone
<1>1. /\ bytes[r].state = "Seeking" /\ calling' = [calling EXCEPT ![r] = FALSE]
      /\ pos' = [pos EXCEPT ![r] = bytes[r].byte_offset]
      /\ UNCHANGED <<feedVars, loopVars, call, length, open, locked, setBy>>
      /\ UNCHANGED <<listening, queue, get>>
    BY Zenon DEF SeekDone, Returns, coreVars
<1>2. /\ bytes \in [Readers -> [state : ByteStates, seq : 0 .. MaxLen,
                                block_offset : Nat, byte_offset : Nat]]
      /\ pos \in [Readers -> Nat] /\ get \in [Readers -> Gets]
      /\ calling \in [Readers -> BOOLEAN]
    BY ReaderFacts, Zenon
<1>3. /\ bytes[r].byte_offset \in Nat /\ stream[r].at = "none"
      /\ get[r].at = "block" => get[r].seq \in Indexes
    BY <1>1, ByteFacts, Zenon
<1>4. offset \in Nat /\ MaxLen \notin Indexes
    BY ByteAssumption, ConstFacts DEF Indexes
<1> DEFINE c == [bytes[r] EXCEPT !.state = "Idle", !.seq = seq,
                                 !.block_offset = offset]
<1>5. /\ c \in [state : ByteStates, seq : 0 .. MaxLen,
                block_offset : Nat, byte_offset : Nat]
      /\ c.state = "Idle" /\ c.seq = seq /\ c.block_offset = offset
    BY <1>2, <1>4, Zenon DEF ByteStates
<1>6. bytes' = [bytes EXCEPT ![r] = c]
    BY <1>0, <1>2, Zenon
<1> HIDE DEF c
<1>7. /\ bytes' \in [Readers -> [state : ByteStates, seq : 0 .. MaxLen,
                                 block_offset : Nat, byte_offset : Nat]]
      /\ bytes'[r] = c /\ pos' \in [Readers -> Nat]
      /\ pos'[r] = bytes[r].byte_offset
      /\ \A q \in Readers : q # r => bytes'[q] = bytes[q] /\ pos'[q] = pos[q]
    BY <1>1, <1>2, <1>3, <1>5, <1>6
<1>8. ByteTypeOK'
    BY <1>1, <1>2, <1>7 DEF ByteTypeOK
<1>9. /\ IF seq \in Indexes THEN offset <= Size[seq] ELSE offset = 0
      /\ Offset[seq] + offset = bytes[r].byte_offset
  <2>1. CASE seq \in Indexes /\ offset < Size[seq]
                /\ Offset[seq] + offset = bytes[r].byte_offset
    <3>1. Size[seq] \in Nat
      BY <2>1, ByteAssumption
    <3> QED  BY <1>4, <2>1, <3>1
  <2>2. CASE seq = MaxLen /\ offset = 0 /\ bytes[r].byte_offset = Offset[MaxLen]
    <3>1. Offset[MaxLen] \in Nat
      BY ByteAssumption, ConstFacts
    <3> QED  BY <1>4, <2>2, <3>1
  <2> QED  BY <1>0, <2>1, <2>2 DEF Finds
<1>10. ByteSound(r)'
    BY <1>5, <1>7, <1>9, Zenon DEF ByteSound
<1> QED  BY <1>1, <1>2, <1>3, <1>5, <1>7, <1>8, <1>9, <1>10, ByteFrame, Zenon

\* A read sends a get.
LEMMA ReadIdleStep ==
    ASSUME StreamsInv, NEW r \in Readers, UNCHANGED streamVars, ReadIdle(r)
    PROVE  StreamsInv'
<1>0. /\ bytes[r].state = "Idle" /\ bytes' = [bytes EXCEPT ![r].state = "Reading"]
      /\ calling' = [calling EXCEPT ![r] = TRUE]
      /\ get' = [get EXCEPT ![r] = Get("call", bytes[r].seq)]
      /\ UNCHANGED <<feedVars, loopVars, call, length, open, locked, setBy>>
      /\ UNCHANGED <<listening, queue, pos>>
    BY Zenon DEF ReadIdle, Goto, Begins
<1>1. /\ bytes \in [Readers -> [state : ByteStates, seq : 0 .. MaxLen,
                                block_offset : Nat, byte_offset : Nat]]
      /\ pos \in [Readers -> Nat] /\ get \in [Readers -> Gets]
      /\ calling \in [Readers -> BOOLEAN] /\ ByteSound(r)
    BY ReaderFacts, Zenon
<1>2. /\ bytes[r].seq \in Nat /\ stream[r].at = "none"
      /\ Offset[bytes[r].seq] + bytes[r].block_offset = pos[r]
    BY <1>0, ByteFacts, ConstFacts
<1>3. /\ get' \in [Readers -> Gets] /\ get'[r].at = "call"
      /\ get'[r].seq = bytes[r].seq
      /\ \A q \in Readers : q # r => get'[q] = get[q]
    BY <1>0, <1>1, <1>2, GetFacts, Zenon
<1>4. /\ bytes' \in [Readers -> [state : ByteStates, seq : 0 .. MaxLen,
                                 block_offset : Nat, byte_offset : Nat]]
      /\ bytes'[r].state = "Reading" /\ bytes'[r].seq = bytes[r].seq
      /\ bytes'[r].block_offset = bytes[r].block_offset
      /\ \A q \in Readers : q # r => bytes'[q] = bytes[q]
    BY <1>0, <1>1, Zenon DEF ByteStates
<1>5. ByteTypeOK'
    BY <1>0, <1>1, <1>4, Zenon DEF ByteTypeOK
<1>6. ByteSound(r)'
    BY <1>0, <1>1, <1>4, Zenon DEF ByteSound
<1> QED  BY <1>0, <1>2, <1>3, <1>4, <1>5, <1>6, ByteFrame

\* Bytes of the block in hand are given.
LEMMA CopyStep ==
    ASSUME StreamsInv, NEW r \in Readers, NEW n \in 0 .. MaxRead, Copy(r, n),
           UNCHANGED <<coreVars, streamVars>>, calling' \in [Readers -> BOOLEAN],
           \/ bytes[r].state = "Ready"
           \/ bytes[r].state = "Reading" /\ get[r].at = "block"
    PROVE  StreamsInv'
<1> DEFINE b == bytes[r]
           rest == Size[get[r].seq] - b.block_offset
           k == IF n < rest THEN n ELSE rest
           idle == [b EXCEPT !.state = "Idle", !.seq = b.seq + 1, !.block_offset = 0]
           ready == [b EXCEPT !.state = "Ready", !.block_offset = b.block_offset + k]
<1>0. /\ bytes' = [bytes EXCEPT ![r] = IF k = rest THEN idle ELSE ready]
      /\ pos' = [pos EXCEPT ![r] = pos[r] + k]
      /\ UNCHANGED <<feedVars, loopVars, call, length, open, locked, setBy>>
      /\ UNCHANGED <<listening, queue, get>>
    BY Zenon DEF Copy, coreVars
<1>1. /\ bytes \in [Readers -> [state : ByteStates, seq : 0 .. MaxLen,
                                block_offset : Nat, byte_offset : Nat]]
      /\ pos \in [Readers -> Nat] /\ get \in [Readers -> Gets] /\ ByteSound(r)
    BY ReaderFacts, Zenon
<1>2. /\ b.seq \in 0 .. MaxLen /\ b.block_offset \in Nat /\ b.byte_offset \in Nat
      /\ pos[r] \in Nat /\ stream[r].at = "none" /\ get[r].seq = b.seq
      /\ get[r].at = "block" => get[r].seq \in Indexes
      /\ Offset[b.seq] + b.block_offset = pos[r]
    BY ByteFacts, Zenon
<1>3. b.seq \in Indexes /\ b.block_offset <= Size[b.seq]
    BY <1>1, <1>2, Zenon DEF ByteSound
<1>4. /\ Size[b.seq] \in Nat /\ Offset[b.seq] \in Nat /\ Offset[b.seq + 1] \in Nat
      /\ Offset[b.seq + 1] = Offset[b.seq] + Size[b.seq]
      /\ b.seq + 1 \in 0 .. MaxLen
      /\ b.seq + 1 \in Indexes => Size[b.seq + 1] \in Nat
    BY <1>3, SizeFacts, Zenon
<1>5. /\ rest \in Nat /\ k \in Nat /\ k <= rest
      /\ rest = Size[b.seq] - b.block_offset
    BY <1>2, <1>3, <1>4
<1>6. /\ idle \in [state : ByteStates, seq : 0 .. MaxLen,
                   block_offset : Nat, byte_offset : Nat]
      /\ idle.state = "Idle" /\ idle.seq = b.seq + 1 /\ idle.block_offset = 0
  <2> HIDE DEF k, rest
  <2> QED  BY <1>1, <1>4, Zenon DEF ByteStates
<1>7. /\ ready \in [state : ByteStates, seq : 0 .. MaxLen,
                    block_offset : Nat, byte_offset : Nat]
      /\ ready.state = "Ready" /\ ready.seq = b.seq
      /\ ready.block_offset = b.block_offset + k
  <2>1. b.block_offset + k \in Nat
    BY <1>2, <1>5
  <2> HIDE DEF k, rest
  <2> QED  BY <1>1, <2>1, Zenon DEF ByteStates
<1> HIDE DEF b, k, rest, idle, ready
<1>8. /\ bytes' \in [Readers -> [state : ByteStates, seq : 0 .. MaxLen,
                                 block_offset : Nat, byte_offset : Nat]]
      /\ bytes'[r] = IF k = rest THEN idle ELSE ready
      /\ pos' \in [Readers -> Nat] /\ pos'[r] = pos[r] + k
      /\ \A q \in Readers : q # r => bytes'[q] = bytes[q] /\ pos'[q] = pos[q]
    BY <1>0, <1>1, <1>2, <1>5, <1>6, <1>7
<1>9. ByteTypeOK'
    BY <1>1, <1>8, Zenon DEF ByteTypeOK
<1>10. CASE k = rest
  <2>1. bytes'[r] = idle /\ Offset[b.seq + 1] + 0 = pos'[r]
    BY <1>2, <1>4, <1>5, <1>8, <1>10
  <2>2. ByteSound(r)'
    BY <1>4, <1>6, <2>1 DEF ByteSound
  <2> QED  BY <1>0, <1>1, <1>2, <1>6, <1>8, <1>9, <2>1, <2>2, ByteFrame, SMTT(30)
<1>11. CASE k # rest
  <2>1. /\ bytes'[r] = ready /\ Offset[b.seq] + (b.block_offset + k) = pos'[r]
        /\ b.block_offset + k <= Size[b.seq]
    BY <1>2, <1>4, <1>5, <1>8, <1>11
  <2>2. ByteSound(r)'
    BY <1>3, <1>7, <2>1, Zenon DEF ByteSound
  <2> QED  BY <1>0, <1>1, <1>2, <1>7, <1>8, <1>9, <2>1, <2>2, ByteFrame, SMTT(30)
<1> QED  BY <1>10, <1>11, Zenon

\* Every step of a ByteStream keeps the invariant.
LEMMA ByteStepKeeps ==
    ASSUME StreamsInv, NEW r \in Readers, ByteStep(r)
    PROVE  StreamsInv'
<1>0. UNCHANGED streamVars
    BY Zenon DEF ByteStep
<1>1. /\ bytes \in [Readers -> [state : ByteStates, seq : 0 .. MaxLen,
                                block_offset : Nat, byte_offset : Nat]]
      /\ calling \in [Readers -> BOOLEAN] /\ bytes[r].state \in ByteStates
      /\ bytes[r].byte_offset \in Nat
      /\ bytes[r].state # "none" => stream[r].at = "none"
    BY ReaderFacts, ByteFacts, Zenon
<1>2. \A state : Goto(r, state) =>
          bytes' = [bytes EXCEPT ![r].state = state,
                                 ![r].byte_offset = bytes[r].byte_offset]
    BY <1>1, Zenon DEF Goto
<1>3. bytes = [bytes EXCEPT ![r].state = bytes[r].state,
                            ![r].byte_offset = bytes[r].byte_offset]
    BY <1>1, Zenon
<1>4. Begins(r) \/ Returns(r) => calling' \in [Readers -> BOOLEAN]
    BY <1>1, Zenon DEF Begins, Returns
<1>5. CASE stream[r].at = "none" /\ ToReader(r)
  <2>1. /\ UNCHANGED <<coreVars, calling, pos>> /\ bytes[r].state = "none"
        /\ Goto(r, "Idle") /\ "Idle" \in ByteStates
    BY <1>5, Zenon DEF ToReader, ByteStates
  <2> QED  BY <1>0, <1>1, <1>2, <1>5, <2>1, StateStep, Zenon
<1>6. ASSUME NEW to \in SeekTargets(r), Seek(r, to) PROVE StreamsInv'
  <2>1. to \in Nat
    BY <1>1, <1>6, ByteAssumption DEF SeekTargets
  <2> QED  BY <1>0, <1>6, <2>1, SeekStep, Zenon
<1>7. CASE ReadReading(r) \/ DropCall(r)
  <2>1. /\ UNCHANGED <<coreVars, bytes, pos>> /\ calling' \in [Readers -> BOOLEAN]
    BY <1>4, <1>7, Zenon DEF ReadReading, DropCall
  <2>2. UNCHANGED <<feedVars, loopVars, call, length, open, locked, setBy,
                    listening, queue, get, stream, given, least, bytes, pos>>
    BY <1>0, <2>1, Zenon DEF coreVars, streamVars
  <2>3. UNCHANGED <<writable, len, has, loop, events, note>>
    BY <2>2, Zenon DEF feedVars, loopVars
  <2>4. CoreInv'
    BY <2>2, <2>3, InvParts, Zenon
       DEF CoreInv, CoreTypeOK, LengthsSound, LoopsSound, ListenersSound,
           ListenersBounded, HasRoom
  <2>5. ReaderInv'
    <3>1. StreamTypeOK' /\ ByteTypeOK'
      BY <2>1, <2>2, InvParts, Zenon DEF ReaderInv, StreamTypeOK, ByteTypeOK
    <3>2. \A q \in Readers : StreamSound(q)'
      BY <2>2, <2>3, InvParts, SMTT(30) DEF ReaderInv, StreamSound
    <3>3. \A q \in Readers : ByteSound(q)'
      BY <2>2, <2>3, InvParts DEF ReaderInv, ByteSound
    <3>4. GivesAllKnown' /\ ReadsInPlace'
      BY <2>2, <2>3, InvParts DEF ReaderInv, GivesAllKnown, ReadsInPlace
    <3> QED  BY <3>1, <3>2, <3>3, <3>4, Zenon DEF ReaderInv
  <2> QED  BY <2>4, <2>5, Zenon DEF StreamsInv, CoreInv, ReaderInv, TypeOK
<1>8. CASE SeekEnd(r) \/ ReadSeeking(r) \/ SeekFails(r)
  <2>1. /\ UNCHANGED <<coreVars, pos>> /\ bytes[r].state # "none"
        /\ Goto(r, "panicked") /\ "panicked" \in ByteStates
        /\ calling' \in [Readers -> BOOLEAN]
    BY <1>1, <1>4, <1>8, Zenon DEF SeekEnd, ReadSeeking, SeekFails, ByteStates
  <2> QED  BY <1>0, <1>1, <1>2, <2>1, StateStep, Zenon
<1>9. ASSUME NEW n \in 0 .. MaxRead, ReadReady(r, n) PROVE StreamsInv'
  <2>1. /\ bytes[r].state = "Ready" /\ Copy(r, n) /\ UNCHANGED <<coreVars, calling>>
    BY <1>9, Zenon DEF ReadReady
  <2> QED  BY <1>0, <1>1, <2>1, CopyStep, Zenon
<1>10. ASSUME NEW n \in 0 .. MaxRead, GetDone(r, n) PROVE StreamsInv'
  <2>1. /\ bytes[r].state = "Reading" /\ UNCHANGED coreVars
        /\ calling' \in [Readers -> BOOLEAN]
        /\ \/ get[r].at = "block" /\ Copy(r, n)
           \/ Goto(r, "Finished") /\ UNCHANGED pos
           \/ Goto(r, "panicked") /\ UNCHANGED pos
    BY <1>4, <1>10, Zenon DEF GetDone
  <2>2. {"Finished", "panicked"} \subseteq ByteStates
    BY Zenon DEF ByteStates
  <2>3. CASE get[r].at = "block" /\ Copy(r, n)
    BY <1>0, <2>1, <2>3, CopyStep, Zenon
  <2>4. CASE Goto(r, "Finished") /\ UNCHANGED pos
    BY <1>0, <1>1, <1>2, <2>1, <2>2, <2>4, StateStep, Zenon
  <2>5. CASE Goto(r, "panicked") /\ UNCHANGED pos
    BY <1>0, <1>1, <1>2, <2>1, <2>2, <2>5, StateStep, Zenon
  <2> QED  BY <2>1, <2>3, <2>4, <2>5, Zenon
<1>11. CASE ReadIdle(r)
    BY <1>0, <1>11, ReadIdleStep, Zenon
<1>12. CASE SeekDone(r)
    BY <1>0, <1>12, SeekDoneStep
<1> QED  BY <1>5, <1>6, <1>7, <1>8, <1>9, <1>10, <1>11, <1>12, Zenon
       DEF ByteStep, ByteCall, ByteReturn

\* Every step of a ReadStream keeps the invariant.
LEMMA StreamStepKeeps ==
    ASSUME StreamsInv, NEW r \in Readers, StreamStep(r)
    PROVE  StreamsInv'
BY ToStreamStep, StreamSubscribesStep, TakeEventStep, FutureDoneStep, PollNextStep, Zenon
       DEF StreamStep, StreamNext

-----------------------------------------------------------------------------
(* The theorems.                                                           *)

\* The invariant holds when the opens are on their way.
LEMMA InitStreamsInv == Init => StreamsInv
<1> SUFFICES ASSUME Init PROVE StreamsInv
    BY Zenon
<1>0. /\ MaxLen \in Nat /\ ListenerSize \in Nat /\ Len(<<>>) = 0
      /\ <<>> \in Seq(FeedEvents) /\ DOMAIN <<>> = {}
    BY ConstFacts
<1>1. CoreTypeOK
  <2>1. /\ \A c \in Loops \cup Appenders :
              Call(IF c \in Loops THEN "request" ELSE "none", 0) \in Calls
        /\ Get("none", 0) \in Gets
    BY Zenon DEF Call, Calls, Get, Gets
  <2>2. has \in SUBSET Indexes
    BY <1>0 DEF Init, CoreInit, Indexes
  <2>3. /\ writable \in BOOLEAN /\ open \in BOOLEAN
        /\ len \in 0 .. MaxLen /\ length \in 0 .. MaxLen
        /\ locked \in Loops \cup {None} /\ setBy \in Loops \cup {None}
        /\ listening \in SUBSET Readers
    <3>1. writable \in BOOLEAN /\ open \in BOOLEAN
      BY Zenon DEF Init, CoreInit
    <3>2. len \in 0 .. MaxLen /\ length \in 0 .. MaxLen
      BY <1>0 DEF Init, CoreInit
    <3>3. /\ locked \in Loops \cup {None} /\ setBy \in Loops \cup {None}
          /\ listening \in SUBSET Readers
      BY Zenon DEF Init, CoreInit
    <3> QED  BY <3>1, <3>2, <3>3, Zenon
  <2>4. /\ loop \in [Loops -> {"none", "spawned", "subscribed"}]
        /\ events \in [Loops -> Seq(FeedEvents)] /\ note \in [Loops -> Notes]
    BY <1>0, NoteFacts, Zenon DEF Init, CoreInit
  <2>5. /\ call \in [Loops \cup Appenders -> Calls]
        /\ queue \in [Readers -> Seq(FeedEvents)] /\ get \in [Readers -> Gets]
    BY <1>0, <2>1, Zenon DEF Init, CoreInit
  <2> QED  BY <2>2, <2>3, <2>4, <2>5, Zenon DEF CoreTypeOK
<1>2. LengthsSound
  <2>1. \A c \in Loops \cup Appenders : call[c].kind # "answer"
    BY Zenon DEF Init, CoreInit, Call
  <2>2. \A l \in Loops : note[l].type = "none" /\ DOMAIN events[l] = {}
    BY <1>0, NoteFacts, Zenon DEF Init, CoreInit
  <2>3. /\ writable => has = 0 .. len - 1
        /\ length <= len
    BY <1>0 DEF Init, CoreInit
  <2> QED  BY <2>1, <2>2, <2>3, Zenon DEF LengthsSound
<1>3. LoopsSound
  <2>1. \A l \in Loops : /\ setBy # l /\ note[l] = NoNote /\ events[l] = <<>>
                         /\ DOMAIN events[l] = {} /\ loop[l] = "none"
    BY <1>0, ConstFacts, Zenon DEF Init, CoreInit
  <2> QED  BY <2>1, Zenon DEF LoopsSound
<1>4. ListenersSound
    BY <1>0 DEF Init, CoreInit, ListenersSound, ListenersBounded, HasRoom
<1>5. /\ \A r \in Readers : /\ stream[r].at = "none" /\ given[r] = 0 /\ least[r] = 0
                            /\ stream[r] \in StreamStates
      /\ stream \in [Readers -> StreamStates]
    BY Zenon DEF Init, StreamInit, StreamStates
<1>6. \A r \in Readers : /\ bytes[r].state = "none" /\ bytes[r].seq = 0
                         /\ bytes[r].block_offset = 0 /\ pos[r] = 0
    BY Zenon DEF Init, ByteInit
<1>7. StreamTypeOK /\ ByteTypeOK
  <2>0. 0 \in 0 .. MaxLen /\ 0 \in Nat
    BY <1>0
  <2>1. StreamTypeOK
    BY <1>5, <2>0, Zenon DEF Init, StreamInit, StreamTypeOK
  <2>2. [state |-> "none", seq |-> 0, block_offset |-> 0, byte_offset |-> 0]
           \in [state : ByteStates, seq : 0 .. MaxLen,
                block_offset : Nat, byte_offset : Nat]
    BY <1>0 DEF ByteStates
  <2>3. ByteTypeOK
    BY <2>2, Zenon DEF Init, ByteInit, ByteTypeOK
  <2> QED  BY <2>1, <2>3, Zenon
<1>8. ASSUME NEW r \in Readers PROVE StreamSound(r) /\ ByteSound(r)
  <2>1. get[r].at = "none" /\ length = 0
    BY Zenon DEF Init, CoreInit, Get
  <2> QED  BY <1>5, <1>6, <2>1 DEF StreamSound, ByteSound
<1>9. GivesAllKnown /\ ReadsInPlace
    BY <1>5, <1>6, Zenon DEF GivesAllKnown, ReadsInPlace
<1> QED  BY <1>1, <1>2, <1>3, <1>4, <1>7, <1>8, <1>9, Zenon DEF StreamsInv, TypeOK

\* A step that changes nothing keeps the invariant.
LEMMA StutterKeeps ==
    ASSUME StreamsInv, UNCHANGED vars
    PROVE  StreamsInv'
<1>1. /\ UNCHANGED <<call, length, open, locked, listening, queue, get, setBy>>
      /\ UNCHANGED <<writable, len, has, loop, events, note>>
      /\ UNCHANGED <<stream, given, least, bytes, calling, pos>>
    BY Zenon DEF vars, coreVars, feedVars, loopVars, streamVars, byteVars
<1>2. CoreInv'
    BY <1>1, InvParts, Zenon
       DEF CoreInv, CoreTypeOK, LengthsSound, LoopsSound, ListenersSound,
           ListenersBounded, HasRoom
<1>3. ReaderInv'
    BY <1>1, InvParts, ZenonT(30)
       DEF ReaderInv, StreamTypeOK, ByteTypeOK, StreamSound, ByteSound,
           GivesAllKnown, ReadsInPlace
<1> QED  BY <1>2, <1>3, Zenon DEF StreamsInv, CoreInv, ReaderInv, TypeOK

\* Lengths, notifications, listeners and streams stay in step, for any number
\* of opens, appends and readers and any feed: open, append, get, on_append,
\* on_download, subscribe and emit (client/src/session.rs:146-292), the
\* server's session (rpc/session.rs:55-177), and poll_next, poll_seek and
\* poll_read (client/src/stream.rs).
THEOREM StreamsInvariant == Spec => []StreamsInv
<1>1. ASSUME StreamsInv, Next PROVE StreamsInv'
    BY <1>1, CoreStep, StreamStepKeeps, ByteStepKeeps, Zenon DEF Next
<1> QED  BY <1>1, InitStreamsInv, StutterKeeps, PTL DEF Spec

\* The client never believes the feed to be longer than it is (on_append and
\* on_download, session.rs:233-253).
THEOREM KnownLengthAlways == Spec => []KnownLength
<1>1. StreamsInv => KnownLength
    BY Zenon DEF StreamsInv, LengthsSound, KnownLength
<1> QED  BY <1>1, StreamsInvariant, PTL

\* When the loop that set the length last still runs and has nothing more to
\* tell, the length is the feed's, however many loops there are (notify_loop, rpc/session.rs:107-140).
THEOREM QuietLengthAlways == Spec => []QuietLength
<1>1. StreamsInv => QuietLength
    BY Zenon DEF StreamsInv, LoopsSound, QuietLength
<1> QED  BY <1>1, StreamsInvariant, PTL

\* No listener's channel holds more than one event above its size
\* (emit, session.rs:289-292).
THEOREM ListenersBoundedAlways == Spec => []ListenersBounded
<1>1. StreamsInv => ListenersBounded
    BY Zenon DEF StreamsInv, ListenersSound
<1> QED  BY <1>1, StreamsInvariant, PTL

\* A stream that ends gave every block that was known while it ran, and one
\* that is not live stays below its end (poll_next, stream.rs:77-96).
THEOREM StreamsGiveAllKnown == Spec => [](GivesAllKnown /\ StaysBelowEnd)
<1>1. StreamsInv => GivesAllKnown
    BY Zenon DEF StreamsInv
<1>2. StreamsInv => StaysBelowEnd
    BY Zenon DEF StreamsInv, StreamSound, StaysBelowEnd
<1> QED  BY <1>1, <1>2, StreamsInvariant, PTL

\* Bytes are given in order and from where the last answered seek said, for
\* blocks of any sizes (poll_seek and poll_read, stream.rs:140-231).
THEOREM ReadsInPlaceAlways == Spec => []ReadsInPlace
<1>1. StreamsInv => ReadsInPlace
    BY Zenon DEF StreamsInv
<1> QED  BY <1>1, StreamsInvariant, PTL

-----------------------------------------------------------------------------
(* Wake-ups.                                                               *)

\* The channel of a stream that waits is among the listeners: it is dropped
\* only with the future.
WaitersListen == \A r \in Readers : stream[r].at = "wait" => r \in listening

LEMMA WaitersStep ==
    ASSUME StreamsInv, WaitersListen, [Next]_vars
    PROVE  WaitersListen'
<1>0. stream \in [Readers -> StreamStates]
    BY Zenon DEF StreamsInv, TypeOK, StreamTypeOK
<1>1. CASE UNCHANGED vars
    BY <1>1, Zenon DEF vars, coreVars, streamVars, WaitersListen
<1>2. CASE Core(CoreNext)
  <2>1. UNCHANGED <<listening, stream>>
    BY <1>2, Zenon
    DEF Core, CoreNext, OthersAppend, Downloaded, SpawnLoop, AnswerOpen, OpenReturns,
        LoopSubscribes, Notify, NotifyFails, Handle, Unlock, AppendCalled, ServeAppend,
        AppendReturns, SendGet, ServeGet, GetFails
  <2> QED  BY <2>1, Zenon DEF WaitersListen
<1>3. ASSUME NEW q \in Readers, ByteStep(q)
      PROVE  WaitersListen'
  <2>1. UNCHANGED <<listening, stream>>
    BY <1>3, Zenon
    DEF ByteStep, ToReader, ByteCall, ByteReturn, Seek, SeekEnd, ReadIdle, ReadReading,
        ReadSeeking, ReadReady, DropCall, SeekDone, SeekFails, GetDone, coreVars,
        streamVars
  <2> QED  BY <2>1, Zenon DEF WaitersListen
<1>4. ASSUME NEW q \in Readers, StreamStep(q)
      PROVE  WaitersListen'
  <2>1. \A r \in Readers : r # q => stream'[r] = stream[r] /\ (r \in listening => r \in listening')
    BY <1>0, <1>4
    DEF StreamStep, ToStream, StreamNext, StreamSubscribes, TakeEvent, FutureDone,
        PollNext
  <2>2. stream'[q].at = "wait" => q \in listening'
    <3>1. CASE StreamSubscribes(q)
      BY <3>1 DEF StreamSubscribes
    <3>2. CASE TakeEvent(q)
      BY <1>0, <3>2 DEF TakeEvent, WaitersListen
    <3>3. CASE FutureDone(q)
      BY <1>0, <3>3 DEF FutureDone, StreamStates
    <3>4. CASE PollNext(q)
      BY <1>0, <3>4 DEF PollNext, StreamStates
    <3>5. CASE \E start \in Starts, end \in Ends, live \in BOOLEAN :
                  ToStream(q, start, end, live)
      BY <1>0, <3>5 DEF ToStream, StreamStates
    <3> QED  BY <1>4, <3>1, <3>2, <3>3, <3>4, <3>5, Zenon DEF StreamStep, StreamNext
  <2> QED  BY <2>1, <2>2, ZenonT(30) DEF WaitersListen
<1> QED  BY <1>1, <1>2, <1>3, <1>4, Zenon DEF Next

\* What keeps a wake-up: notifications stay or reach the channel, events stay
\* or become notifications, and what is in the channel stays there.
LEMMA ToldKept ==
    ASSUME NEW r \in Readers, Told(r), stream'[r].index = stream[r].index,
           \A l \in Loops : note[l] # NoNote /\ locked # l =>
               \/ note'[l] = note[l] /\ locked' # l
               \/ \E i \in DOMAIN queue'[r] : queue'[r][i] = EventOf(note[l]),
           \A l \in Loops : \A i \in DOMAIN events[l] :
               \/ \E j \in DOMAIN events'[l] : events'[l][j] = events[l][i]
               \/ note'[l] # NoNote /\ locked' # l /\ EventOf(note'[l]) = events[l][i],
           \A i \in DOMAIN queue[r] :
               \E j \in DOMAIN queue'[r] : queue'[r][j] = queue[r][i]
    PROVE  Told(r)'
<1>1. CASE \E i \in DOMAIN queue[r] :
              queue[r][i] \in {Appended, Download(stream[r].index)}
    BY <1>1, Zenon DEF Told
<1>2. ASSUME NEW l \in Loops, note[l] # NoNote, locked # l,
             EventOf(note[l]) \in {Appended, Download(stream[r].index)}
      PROVE  Told(r)'
  <2>1. CASE note'[l] = note[l] /\ locked' # l
    <3>1. EventOf(note'[l]) \in {Appended, Download(stream'[r].index)}
      BY <1>2, <2>1, Zenon
    <3>2. Coming(r)'
      BY <1>2, <2>1, <3>1, Zenon DEF Coming, EventOf
    <3> QED  BY <3>2, Zenon DEF Told
  <2>2. CASE \E i \in DOMAIN queue'[r] : queue'[r][i] = EventOf(note[l])
    BY <1>2, <2>2, Zenon DEF Told
  <2> QED  BY <1>2, <2>1, <2>2, Zenon
<1>3. ASSUME NEW l \in Loops, NEW i \in DOMAIN events[l],
             events[l][i] \in {Appended, Download(stream[r].index)}
      PROVE  Told(r)'
  <2>1. CASE \E j \in DOMAIN events'[l] : events'[l][j] = events[l][i]
    BY <1>3, <2>1, Zenon DEF Told, Coming
  <2>2. CASE note'[l] # NoNote /\ locked' # l /\ EventOf(note'[l]) = events[l][i]
    <3>1. EventOf(note'[l]) \in {Appended, Download(stream'[r].index)}
      BY <1>3, <2>2, Zenon
    <3>2. Coming(r)'
      BY <2>2, <3>1, Zenon DEF Coming, EventOf
    <3> QED  BY <3>2, Zenon DEF Told
  <2> QED  BY <2>1, <2>2, Zenon
<1> QED  BY <1>1, <1>2, <1>3, Zenon DEF Told, Coming

\* A step that leaves the way of the events alone.
LEMMA ToldElsewhere ==
    ASSUME NEW r \in Readers, Told(r), stream'[r].index = stream[r].index,
           UNCHANGED <<note, locked, events>>, queue'[r] = queue[r]
    PROVE  Told(r)'
BY ToldKept, Zenon

\* What stays in a sequence that grows at its end or loses its head.
LEMMA ConcatKeeps ==
    ASSUME NEW S, NEW s \in Seq(S), NEW t \in Seq(S), NEW i \in DOMAIN s
    PROVE  i \in DOMAIN (s \o t) /\ (s \o t)[i] = s[i]
OBVIOUS

LEMMA AppendKeeps ==
    ASSUME NEW S, NEW s \in Seq(S), NEW e
    PROVE  /\ Len(s) + 1 \in DOMAIN Append(s, e) /\ Append(s, e)[Len(s) + 1] = e
           /\ \A i \in DOMAIN s : i \in DOMAIN Append(s, e) /\ Append(s, e)[i] = s[i]
OBVIOUS

LEMMA ConstantSeq ==
    ASSUME NEW S, NEW e \in S, NEW k \in Nat
    PROVE  [i \in 1 .. k |-> e] \in Seq(S)
OBVIOUS

LEMMA TailKeeps ==
    ASSUME NEW S, NEW s \in Seq(S), s # <<>>, NEW i \in DOMAIN s, i # 1
    PROVE  i - 1 \in DOMAIN Tail(s) /\ Tail(s)[i - 1] = s[i]
OBVIOUS

\* New events come behind the old ones.
LEMMA PublishTold ==
    ASSUME StreamsInv, NEW r \in Readers, Told(r), UNCHANGED <<stream, note, locked, queue>>,
           NEW evs \in Seq(FeedEvents), Publish(evs)
    PROVE  Told(r)'
<1>1. ASSUME NEW l \in Loops, NEW i \in DOMAIN events[l]
      PROVE  i \in DOMAIN events'[l] /\ events'[l][i] = events[l][i]
  <2>1. events[l] \in Seq(FeedEvents)
    BY Zenon DEF StreamsInv, TypeOK, CoreTypeOK
  <2>2. events'[l] = events[l] \/ events'[l] = events[l] \o evs
    BY Zenon DEF Publish
  <2>3. i \in DOMAIN (events[l] \o evs) /\ (events[l] \o evs)[i] = events[l][i]
    BY <2>1, ConcatKeeps, Zenon
  <2> QED  BY <2>2, <2>3
<1> QED  BY <1>1, ToldKept, Zenon

\* The loop makes a notification of its next event.
LEMMA NotifyTold ==
    ASSUME StreamsInv, NEW r \in Readers, Told(r), UNCHANGED stream,
           NEW l \in Loops, Notify(l)
    PROVE  Told(r)'
<1> DEFINE e == Head(events[l])
           m == IF e = Appended THEN Event("append", len) ELSE e
<1>1. /\ note' = [note EXCEPT ![l] = m] /\ events' = [events EXCEPT ![l] = Tail(events[l])]
      /\ UNCHANGED <<locked, queue>> /\ note[l] = NoNote /\ events[l] # <<>>
    BY Zenon DEF Notify
<1>2. /\ events \in [Loops -> Seq(FeedEvents)] /\ note \in [Loops -> Notes]
      /\ len \in 0 .. MaxLen
    BY Zenon DEF StreamsInv, TypeOK, CoreTypeOK
<1>3. locked # l
    BY <1>1, ConstFacts, Zenon DEF StreamsInv, ListenersSound
<1>4. e \in FeedEvents /\ e = events[l][1]
    BY <1>1, <1>2
<1>5. m # NoNote /\ EventOf(m) = e
    BY <1>2, <1>4, NoteFacts DEF EventOf
<1> HIDE DEF e, m
<1>6. ASSUME NEW i \in DOMAIN events[l]
      PROVE  events[l][i] = e \/ \E j \in DOMAIN events'[l] : events'[l][j] = events[l][i]
  <2>1. events[l] \in Seq(FeedEvents) /\ events'[l] = Tail(events[l])
    BY <1>1, <1>2, Zenon
  <2>2. CASE i # 1
    <3>1. i - 1 \in DOMAIN events'[l] /\ events'[l][i - 1] = events[l][i]
      BY <1>1, <2>1, <2>2, TailKeeps, Zenon
    <3> QED  BY <3>1, Zenon
  <2> QED  BY <1>4, <2>2, Zenon
<1>7. /\ note'[l] = m
      /\ \A k \in Loops : k # l => note'[k] = note[k] /\ events'[k] = events[k]
    BY <1>1, <1>2, Zenon
<1>8. \A k \in Loops : note[k] # NoNote /\ locked # k =>
         \/ note'[k] = note[k] /\ locked' # k
         \/ \E i \in DOMAIN queue'[r] : queue'[r][i] = EventOf(note[k])
    BY <1>1, <1>7, Zenon
<1>9. ASSUME NEW k \in Loops, NEW i \in DOMAIN events[k]
      PROVE  \/ \E j \in DOMAIN events'[k] : events'[k][j] = events[k][i]
             \/ note'[k] # NoNote /\ locked' # k /\ EventOf(note'[k]) = events[k][i]
  <2>1. CASE k # l
    BY <1>7, <2>1, Zenon
  <2>2. CASE k = l
    <3>1. note'[k] # NoNote /\ locked' # k /\ EventOf(note'[k]) = e
      BY <1>1, <1>3, <1>5, <1>7, <2>2
    <3>2. events[k][i] = e \/ \E j \in DOMAIN events'[k] : events'[k][j] = events[k][i]
      BY <1>6, <2>2
    <3> QED  BY <3>1, <3>2, Zenon
  <2> QED  BY <2>1, <2>2, Zenon
<1> QED  BY <1>1, <1>8, <1>9, ToldKept, Zenon

\* A notification is put into the channel of every listener.
LEMMA HandleTold ==
    ASSUME StreamsInv, NEW r \in Readers, r \in listening, Told(r), UNCHANGED stream,
           NEW l \in Loops, Handle(l)
    PROVE  Told(r)'
<1> DEFINE e == EventOf(note[l])
<1>1. /\ locked = None /\ UNCHANGED events
      /\ queue'[r] = Append(queue[r], e)
      /\ locked' = None \/ locked' = l
    BY Zenon DEF Handle
<1>2. note \in [Loops -> Notes] /\ queue[r] \in Seq(FeedEvents)
    BY Zenon DEF StreamsInv, TypeOK, CoreTypeOK
<1>3. \A k \in Loops : k # l => note'[k] = note[k] /\ locked' # k
    BY <1>1, <1>2, ConstFacts, Zenon DEF Handle
<1> HIDE DEF e
<1>4. /\ Len(queue[r]) + 1 \in DOMAIN queue'[r] /\ queue'[r][Len(queue[r]) + 1] = e
      /\ \A i \in DOMAIN queue[r] : i \in DOMAIN queue'[r] /\ queue'[r][i] = queue[r][i]
    BY <1>1, <1>2, AppendKeeps
<1>5. \A k \in Loops : note[k] # NoNote /\ locked # k =>
         \/ note'[k] = note[k] /\ locked' # k
         \/ \E i \in DOMAIN queue'[r] : queue'[r][i] = EventOf(note[k])
    BY <1>3, <1>4, Zenon DEF e
<1> QED  BY <1>1, <1>4, <1>5, ToldKept, Zenon

\* The notification that held the lock is in the channels already.
LEMMA UnlockTold ==
    ASSUME StreamsInv, NEW r \in Readers, Told(r), UNCHANGED stream,
           NEW l \in Loops, Unlock(l)
    PROVE  Told(r)'
<1>1. /\ locked = l /\ locked' = None /\ note' = [note EXCEPT ![l] = NoNote]
      /\ UNCHANGED <<events, queue>>
    BY Zenon DEF Unlock
<1>2. \A k \in Loops : k # l => note'[k] = note[k] /\ locked' # k
    BY <1>1, ConstFacts, Zenon DEF StreamsInv, TypeOK, CoreTypeOK
<1> QED  BY <1>1, <1>2, ToldKept, Zenon

\* Every step of the core.
LEMMA CoreTold ==
    ASSUME StreamsInv, NEW r \in Readers, r \in listening, Told(r), Core(CoreNext),
           ~LoopEnds
    PROVE  Told(r)'
<1>0. UNCHANGED stream /\ CoreNext
    BY Zenon DEF Core
<1>1. ASSUME UNCHANGED <<note, locked, events, queue>>
      PROVE  Told(r)'
    BY <1>0, <1>1, ToldElsewhere, Zenon
<1>2. ASSUME NEW k \in Nat, Grow(k), UNCHANGED <<locked, queue>>
      PROVE  Told(r)'
  <2>1. [i \in 1 .. k |-> Appended] \in Seq(FeedEvents)
    BY NoteFacts, ConstantSeq, Zenon
  <2> QED  BY <1>0, <1>2, <2>1, PublishTold, Zenon DEF Grow
<1>3. CASE OthersAppend \/ \E a \in Appenders : ServeAppend(a)
  <2>1. CASE OthersAppend
    <3>1. 1 \in Nat
      OBVIOUS
    <3> QED  BY <1>2, <2>1, <3>1, Zenon DEF OthersAppend
  <2>2. ASSUME NEW a \in Appenders, ServeAppend(a)
        PROVE  Told(r)'
    <3>1. call[a].n \in Nat /\ \A k \in 0 .. call[a].n - 1 : k \in Nat
      <4>1. call[a] \in Calls
        BY Zenon DEF StreamsInv, TypeOK, CoreTypeOK
      <4> QED  BY <4>1 DEF Calls
    <3>2. \/ UNCHANGED <<note, locked, events, queue>>
          \/ UNCHANGED <<locked, queue>> /\ \E k \in Nat : Grow(k)
      BY <2>2, <3>1, Zenon DEF ServeAppend, loopVars
    <3> QED  BY <1>1, <1>2, <3>2, Zenon
  <2> QED  BY <1>3, <2>1, <2>2, Zenon
<1>4. ASSUME NEW i \in Indexes, Downloaded(i)
      PROVE  Told(r)'
  <2>1. <<Download(i)>> \in Seq(FeedEvents)
    BY NoteFacts
  <2> QED  BY <1>0, <1>4, <2>1, PublishTold, Zenon DEF Downloaded
<1>5. CASE \E l \in Loops : Notify(l) \/ Handle(l) \/ Unlock(l)
    BY <1>0, <1>5, NotifyTold, HandleTold, UnlockTold, Zenon
<1>6. CASE \E l \in Loops : \/ SpawnLoop(l) \/ AnswerOpen(l) \/ OpenReturns(l)
                            \/ LoopSubscribes(l)
    BY <1>1, <1>6, Zenon DEF SpawnLoop, AnswerOpen, OpenReturns, LoopSubscribes, loopVars
<1>7. CASE \E a \in Appenders : \/ AppendReturns(a)
                                \/ \E n \in 1 .. MaxBatch : AppendCalled(a, n)
    BY <1>1, <1>7, Zenon DEF AppendReturns, AppendCalled, loopVars
<1>8. CASE \E q \in Readers : SendGet(q) \/ ServeGet(q) \/ GetFails(q)
    BY <1>1, <1>8, Zenon DEF SendGet, ServeGet, GetFails, loopVars
<1>9. \A l \in Loops : ~NotifyFails(l)
    BY Zenon DEF NotifyFails, LoopEnds, StreamsInv, TypeOK, CoreTypeOK
<1> QED  BY <1>0, <1>3, <1>4, <1>5, <1>6, <1>7, <1>8, <1>9, Zenon DEF CoreNext

\* The stream itself takes an event from its channel and, if that is not the
\* one it waits for, goes on waiting.
LEMMA TakeEventTold ==
    ASSUME StreamsInv, NEW r \in Readers, Told(r), TakeEvent(r), stream'[r].at = "wait"
    PROVE  Told(r)'
<1>1. /\ queue \in [Readers -> Seq(FeedEvents)] /\ stream \in [Readers -> StreamStates]
    BY Zenon DEF StreamsInv, TypeOK, CoreTypeOK, StreamTypeOK
<1>2. ~(stream' = [stream EXCEPT ![r].at = "get"])
    BY <1>1 DEF StreamStates
<1>3. /\ queue[r] # <<>> /\ queue'[r] = Tail(queue[r])
      /\ Head(queue[r]) \notin {Appended, Download(stream[r].index)}
      /\ UNCHANGED <<stream, note, events, locked>>
    BY <1>1, <1>2, Zenon DEF TakeEvent, loopVars
<1>4. CASE Coming(r)
    BY <1>3, <1>4, Zenon DEF Told, Coming
<1>5. ASSUME NEW i \in DOMAIN queue[r], queue[r][i] \in {Appended, Download(stream[r].index)}
      PROVE  Told(r)'
  <2>1. queue[r] \in Seq(FeedEvents)
    BY <1>1, Zenon
  <2>2. Head(queue[r]) = queue[r][1]
    BY <1>3, <2>1
  <2>3. i # 1
    BY <1>3, <1>5, <2>2, Zenon
  <2>4. i - 1 \in DOMAIN queue'[r] /\ queue'[r][i - 1] = queue[r][i]
    BY <1>3, <2>1, <2>3, TailKeeps, Zenon
  <2> QED  BY <1>3, <1>5, <2>4, Zenon DEF Told
<1> QED  BY <1>4, <1>5, Zenon DEF Told

\* Every step of the streams.
LEMMA StreamTold ==
    ASSUME StreamsInv, NEW r \in Readers, stream[r].at = "wait", Told(r),
           NEW q \in Readers, StreamStep(q), stream'[r].at = "wait"
    PROVE  Told(r)'
<1>1. /\ queue \in [Readers -> Seq(FeedEvents)] /\ stream \in [Readers -> StreamStates]
    BY Zenon DEF StreamsInv, TypeOK, CoreTypeOK, StreamTypeOK
<1>2. UNCHANGED <<note, events, locked>>
    BY Zenon DEF StreamStep, ToStream, StreamNext, StreamSubscribes, TakeEvent, FutureDone,
        PollNext, loopVars
<1>3. CASE r # q
  <2>1. stream'[r] = stream[r] /\ queue'[r] = queue[r]
    BY <1>1, <1>3
    DEF StreamStep, ToStream, StreamNext, StreamSubscribes, TakeEvent, FutureDone,
        PollNext
  <2> QED  BY <1>2, <2>1, ToldElsewhere, ZenonT(30)
<1>4. CASE r = q
  <2>1. TakeEvent(r)
    BY <1>4 DEF StreamStep, ToStream, StreamNext, StreamSubscribes, FutureDone, PollNext
  <2> QED  BY <2>1, TakeEventTold, ZenonT(30)
<1> QED  BY <1>3, <1>4, Zenon

\* While its notify loop runs, the wake-up of a waiting stream stays on its way
\* or in its channel, for any number of loops, appends and readers and any channel size (notify_loop,
\* rpc/session.rs:107-140; emit, session.rs:289-292; onappend_get,
\* stream.rs:27-41).
THEOREM WakeUpsAreKept == Spec => WakeUpsKept
<1>1. ASSUME StreamsInv, WaitersListen, [Next]_vars, NEW r \in Readers,
             stream[r].at = "wait", Told(r), stream'[r].at = "wait", ~LoopEnds
      PROVE  Told(r)'
  <2>1. r \in listening
    BY <1>1, Zenon DEF WaitersListen
  <2>2. CASE UNCHANGED vars
    BY <1>1, <2>2, ToldElsewhere, Zenon DEF vars, coreVars, streamVars, loopVars
  <2>3. CASE Core(CoreNext)
    BY <1>1, <2>1, <2>3, CoreTold, Zenon
  <2>4. ASSUME NEW q \in Readers, ByteStep(q)
        PROVE  Told(r)'
    <3>1. UNCHANGED <<stream, note, events, locked, queue>>
      BY <2>4, Zenon
      DEF ByteStep, ToReader, ByteCall, ByteReturn, Seek, SeekEnd, ReadIdle, ReadReading,
          ReadSeeking, ReadReady, DropCall, SeekDone, SeekFails, GetDone, coreVars,
          streamVars, loopVars
    <3> QED  BY <1>1, <3>1, ToldElsewhere, Zenon
  <2>5. ASSUME NEW q \in Readers, StreamStep(q)
        PROVE  Told(r)'
    BY <1>1, <2>5, StreamTold, Zenon
  <2> QED  BY <1>1, <2>2, <2>3, <2>4, <2>5, Zenon DEF Next
<1>2. StreamsInv /\ WaitersListen /\ [Next]_vars =>
        [\A r \in Readers :
            stream[r].at = "wait" /\ Told(r) =>
                stream'[r].at # "wait" \/ Told(r)' \/ LoopEnds]_vars
    BY <1>1, Zenon
<1>3. Init => WaitersListen
    BY DEF Init, StreamInit, WaitersListen
<1> QED  BY <1>2, <1>3, WaitersStep, StreamsInvariant, PTL DEF Spec, WakeUpsKept
=============================================================================

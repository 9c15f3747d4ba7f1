------------------------ MODULE ClientStreamsLemmas ------------------------
(***************************************************************************)
(* Lemmas for ClientStreamsProofs: the steps of the core and the server    *)
(* keep StreamsInv, and what it says of one reader.                        *)
(***************************************************************************)
EXTENDS ClientStreams, TLAPS

\* The part of the invariant that is about the core and the server.
CoreInv == CoreTypeOK /\ LengthsSound /\ LoopsSound /\ ListenersSound

\* The part that is about the streams.
ReaderInv ==
    /\ StreamTypeOK /\ ByteTypeOK
    /\ \A r \in Readers : StreamSound(r) /\ ByteSound(r)
    /\ GivesAllKnown /\ ReadsInPlace

\* The two parts make up the invariant.
LEMMA InvParts == StreamsInv <=> CoreInv /\ ReaderInv
BY Zenon DEF StreamsInv, CoreInv, ReaderInv, TypeOK

\* The values of the constants.
LEMMA ConstFacts ==
    /\ MaxLen \in Nat /\ MaxBatch \in Nat /\ ListenerSize \in Nat
    /\ None \notin Loops /\ None \notin Nat
    /\ \A l \in Loops : l \notin Appenders
BY CoreAssumption, StreamAssumption, Zenon

\* Notifications and events are told apart by their types.
LEMMA NoteFacts ==
    /\ NoNote \in Notes /\ NoNote.type = "none"
    /\ Appended \in FeedEvents /\ Appended.type = "append"
    /\ \A m \in Notes : /\ m.type \in {"none", "append", "download"}
                        /\ m = NoNote <=> m.type = "none"
                        /\ m.type = "append" => m.n \in 0 .. MaxLen
                        /\ m.type = "download" => m \in FeedEvents /\ m.n \in Indexes
    /\ \A e \in FeedEvents : /\ e = Appended <=> e.type = "append"
                             /\ e # Appended =>
                                   /\ e \in Notes /\ e.type = "download"
                                   /\ e.n \in Indexes
    /\ \A n \in 0 .. MaxLen : /\ Event("append", n) \in Notes
                              /\ Event("append", n).type = "append"
                              /\ Event("append", n).n = n
    /\ \A i \in Indexes : /\ Download(i) \in FeedEvents /\ Download(i) # Appended
                          /\ Download(i).type = "download" /\ Download(i).n = i
<1>1. \A t, n, u, k : /\ Event(t, n).type = t /\ Event(t, n).n = n
                      /\ Event(t, n) = Event(u, k) => t = u /\ n = k
  <2>1. \A t, n : Event(t, n).type = t /\ Event(t, n).n = n
    BY Zenon DEF Event
  <2> QED  BY <2>1
<1>2. NoNote = Event("none", 0) /\ Appended = Event("append", 0)
    BY Zenon DEF NoNote, Appended
<1>3. \A i : Download(i) = Event("download", i)
    BY Zenon DEF Download
<1>4. \A m \in Notes : \/ m = Event("none", 0)
                       \/ \E n \in 0 .. MaxLen : m = Event("append", n)
                       \/ \E i \in Indexes : m = Event("download", i)
    BY <1>2, <1>3, Zenon DEF Notes
<1>5. \A e \in FeedEvents : \/ e = Event("append", 0)
                            \/ \E i \in Indexes : e = Event("download", i)
    BY <1>2, <1>3, Zenon DEF FeedEvents
<1>6. /\ NoNote \in Notes /\ Appended \in FeedEvents
      /\ \A n \in 0 .. MaxLen : Event("append", n) \in Notes
      /\ \A i \in Indexes : /\ Event("download", i) \in Notes
                            /\ Event("download", i) \in FeedEvents
    BY <1>3, Zenon DEF Notes, FeedEvents
<1>7. \A m \in Notes : /\ m.type \in {"none", "append", "download"}
                       /\ m = NoNote <=> m.type = "none"
                       /\ m.type = "append" => m.n \in 0 .. MaxLen
                       /\ m.type = "download" => m \in FeedEvents /\ m.n \in Indexes
    BY <1>1, <1>2, <1>4, <1>6
<1>8. \A e \in FeedEvents : /\ e = Appended <=> e.type = "append"
                            /\ e # Appended => /\ e \in Notes /\ e.type = "download"
                                               /\ e.n \in Indexes
    BY <1>1, <1>2, <1>5, <1>6
<1>9. \A i \in Indexes : Download(i) # Appended
    BY <1>1, <1>2, <1>3, Zenon
<1> QED  BY <1>1, <1>2, <1>3, <1>6, <1>7, <1>8, <1>9, Zenon

\* What the two sequences of a concatenation contribute.
LEMMA ConcatFacts ==
    ASSUME NEW S, NEW s \in Seq(S), NEW t \in Seq(S)
    PROVE  /\ s \o t \in Seq(S)
           /\ s \o t = <<>> <=> s = <<>> /\ t = <<>>
           /\ \A i \in DOMAIN (s \o t) :
                 \/ i \in DOMAIN s /\ (s \o t)[i] = s[i]
                 \/ \E j \in DOMAIN t : (s \o t)[i] = t[j]
<1>1. s \o t \in Seq(S) /\ Len(s \o t) = Len(s) + Len(t)
    OBVIOUS
<1>2. s \o t = <<>> <=> s = <<>> /\ t = <<>>
    BY <1>1
<1>3. ASSUME NEW i \in DOMAIN (s \o t)
      PROVE  \/ i \in DOMAIN s /\ (s \o t)[i] = s[i]
             \/ \E j \in DOMAIN t : (s \o t)[i] = t[j]
  <2>1. CASE i <= Len(s)
    BY <2>1
  <2>2. CASE i > Len(s)
    <3>1. i - Len(s) \in DOMAIN t /\ (s \o t)[i] = t[i - Len(s)]
      BY <1>1, <2>2
    <3> QED  BY <3>1, Zenon
  <2> QED  BY <1>1, <2>1, <2>2
<1> QED  BY <1>1, <1>2, <1>3, Zenon

\* The events Publish adds.
LEMMA PublishFacts ==
    ASSUME CoreInv, NEW evs \in Seq(FeedEvents), Publish(evs)
    PROVE  /\ events' \in [Loops -> Seq(FeedEvents)]
           /\ \A l \in Loops :
                 /\ loop[l] # "subscribed" => events'[l] = events[l]
                 /\ loop[l] = "subscribed" =>
                       (events'[l] = <<>> <=> events[l] = <<>> /\ evs = <<>>)
                 /\ \A i \in DOMAIN events'[l] :
                       \/ i \in DOMAIN events[l] /\ events'[l][i] = events[l][i]
                       \/ \E j \in DOMAIN evs : events'[l][i] = evs[j]
<1>1. \A l \in Loops : events[l] \in Seq(FeedEvents)
    BY Zenon DEF CoreInv, CoreTypeOK
<1>2. ASSUME NEW l \in Loops
      PROVE  /\ events'[l] \in Seq(FeedEvents)
             /\ loop[l] # "subscribed" => events'[l] = events[l]
             /\ loop[l] = "subscribed" =>
                   (events'[l] = <<>> <=> events[l] = <<>> /\ evs = <<>>)
             /\ \A i \in DOMAIN events'[l] :
                   \/ i \in DOMAIN events[l] /\ events'[l][i] = events[l][i]
                   \/ \E j \in DOMAIN evs : events'[l][i] = evs[j]
  <2>1. CASE loop[l] # "subscribed"
    <3>1. events'[l] = events[l]
      BY <2>1, Zenon DEF Publish
    <3> QED  BY <1>1, <2>1, <3>1, Zenon
  <2>2. CASE loop[l] = "subscribed"
    <3>1. events'[l] = events[l] \o evs
      BY <2>2, Zenon DEF Publish
    <3> QED  BY <1>1, <2>2, <3>1, ConcatFacts
  <2> QED  BY <2>1, <2>2, Zenon
<1>3. events' \in [Loops -> Seq(FeedEvents)]
    BY <1>2, Zenon DEF Publish
<1> QED  BY <1>2, <1>3, Zenon

\* A step that only makes calls, answers them or gets blocks: the length is
\* left alone or set from an answer.
LEMMA QuietCore ==
    ASSUME CoreInv, UNCHANGED <<feedVars, loopVars, locked, listening, queue>>,
           call' \in [Loops \cup Appenders -> Calls],
           \A c \in Loops \cup Appenders :
               call'[c].kind = "answer" => call'[c].n <= len,
           \A l \in Loops : call'[l].kind = "request" => call[l].kind = "request",
           open' \in BOOLEAN, get' \in [Readers -> Gets],
           \/ UNCHANGED <<length, setBy>>
           \/ length' \in 0 .. MaxLen /\ length' <= len /\ setBy' = None
    PROVE  CoreInv'
<1>0. UNCHANGED <<writable, len, has, loop, events, note, locked, listening, queue>>
    BY Zenon DEF feedVars, loopVars
<1>1. CoreTypeOK'
    BY <1>0, Zenon DEF CoreInv, CoreTypeOK
<1>2. LengthsSound'
    BY <1>0, Zenon DEF CoreInv, LengthsSound
<1>3. LoopsSound'
    BY <1>0, ConstFacts DEF CoreInv, LoopsSound
<1>4. ListenersSound'
    BY <1>0, Zenon DEF CoreInv, ListenersSound, ListenersBounded, HasRoom
<1> QED  BY <1>1, <1>2, <1>3, <1>4, Zenon DEF CoreInv

\* The feed grows by k blocks.
LEMMA GrowCore ==
    ASSUME CoreInv, writable, NEW k \in Nat, Grow(k),
           UNCHANGED <<length, open, locked, listening, queue, get, setBy>>,
           call' \in [Loops \cup Appenders -> Calls],
           \A c \in Loops \cup Appenders :
               call'[c].kind = "answer" => call'[c].n <= len + k \/ call'[c] = call[c],
           \A l \in Loops : call'[l] = call[l]
    PROVE  CoreInv'
<1> DEFINE evs == [i \in 1 .. k |-> Appended]
<1>0. /\ len' = len + k /\ len' \in 0 .. MaxLen /\ has' = 0 .. len' - 1
      /\ Publish(evs) /\ UNCHANGED <<writable, loop, note>>
      /\ len \in Nat /\ len <= len'
    BY ConstFacts DEF Grow, CoreInv, CoreTypeOK
<1>1. /\ evs \in Seq(FeedEvents) /\ (evs = <<>> => k = 0)
      /\ \A j \in DOMAIN evs : evs[j] = Appended
    BY NoteFacts
<1> HIDE DEF evs
<1>2. /\ events' \in [Loops -> Seq(FeedEvents)]
      /\ \A l \in Loops :
            /\ loop[l] # "subscribed" => events'[l] = events[l]
            /\ loop[l] = "subscribed" =>
                  (events'[l] = <<>> <=> events[l] = <<>> /\ evs = <<>>)
            /\ \A i \in DOMAIN events'[l] :
                  \/ i \in DOMAIN events[l] /\ events'[l][i] = events[l][i]
                  \/ events'[l][i] = Appended
    BY <1>0, <1>1, PublishFacts
<1>3. CoreTypeOK'
  <2>1. has' \in SUBSET Indexes
    BY <1>0, ConstFacts DEF Indexes
  <2> QED  BY <1>0, <1>2, <2>1, Zenon DEF CoreInv, CoreTypeOK
<1>4. LengthsSound'
  <2>1. length' <= len' /\ length \in Nat
    BY <1>0 DEF CoreInv, LengthsSound, CoreTypeOK
  <2>2. \A c \in Loops \cup Appenders : call'[c].kind = "answer" => call'[c].n <= len'
    BY <1>0 DEF CoreInv, LengthsSound, CoreTypeOK, Calls
  <2>3. ASSUME NEW l \in Loops
        PROVE  /\ note'[l].type = "append" => note'[l].n <= len'
               /\ note'[l].type = "download" => note'[l].n < len'
               /\ \A i \in DOMAIN events'[l] :
                     events'[l][i] # Appended => events'[l][i].n < len'
    <3>1. note[l] \in Notes /\ events[l] \in Seq(FeedEvents)
      BY Zenon DEF CoreInv, CoreTypeOK
    <3>2. /\ note[l].type = "append" => note[l].n <= len /\ note[l].n \in Nat
          /\ note[l].type = "download" => note[l].n < len /\ note[l].n \in Nat
      BY <3>1, NoteFacts, ConstFacts DEF CoreInv, LengthsSound, Indexes
    <3>3. \A i \in DOMAIN events[l] : events[l][i] # Appended =>
             events[l][i].n < len /\ events[l][i].n \in Nat
      BY <3>1, NoteFacts, ConstFacts DEF CoreInv, LengthsSound, Indexes
    <3> QED  BY <1>0, <1>2, <3>2, <3>3
  <2> QED  BY <1>0, <2>1, <2>2, <2>3, Zenon DEF LengthsSound
<1>5. LoopsSound'
  <2> SUFFICES ASSUME NEW l \in Loops
               PROVE  /\ call'[l].kind = "request" => loop'[l] = "none"
                      /\ setBy' = l \/ note'[l] # NoNote \/ events'[l] # <<>> =>
                            loop'[l] \in {"subscribed", "ended"}
                      /\ loop'[l] = "ended" => events'[l] = <<>>
                      /\ \A i \in DOMAIN events'[l] : events'[l][i] = Appended
                      /\ note'[l] # NoNote => note'[l].type = "append"
                      /\ loop'[l] = "subscribed" =>
                         /\ note'[l] # NoNote /\ events'[l] = <<>> =>
                               note'[l].n = len'
                         /\ setBy' = l /\ (note'[l] = NoNote \/ locked' = l)
                               /\ events'[l] = <<>> => length' = len'
    BY Zenon DEF LoopsSound
  <2>1. \A i \in DOMAIN events[l] : events[l][i] = Appended
    BY Zenon DEF CoreInv, LoopsSound
  <2>2. CASE loop[l] = "subscribed"
    <3>1. events'[l] = <<>> => events[l] = <<>> /\ len' = len
      BY <1>0, <1>1, <1>2, <2>2
    <3> QED  BY <1>0, <1>2, <2>1, <2>2, <3>1, ZenonT(30) DEF CoreInv, LoopsSound
  <2>3. CASE loop[l] # "subscribed"
    BY <1>0, <1>2, <2>1, <2>3 DEF CoreInv, LoopsSound
  <2> QED  BY <2>2, <2>3, Zenon
<1>6. ListenersSound'
    BY <1>0, Zenon DEF CoreInv, ListenersSound, ListenersBounded, HasRoom
<1> QED  BY <1>3, <1>4, <1>5, <1>6, Zenon DEF CoreInv

\* A block is downloaded.
LEMMA DownloadedCore ==
    ASSUME CoreInv, NEW i \in Indexes, Downloaded(i)
    PROVE  CoreInv'
<1> DEFINE evs == <<Download(i)>>
<1>0. /\ len' \in 0 .. MaxLen /\ len <= len' /\ i < len' /\ ~writable
      /\ len \in Nat /\ i \in Nat /\ has' = has \cup {i} /\ Publish(evs)
      /\ UNCHANGED <<writable, loop, note, call, length, open, locked, listening,
                     queue, get, setBy>>
    BY ConstFacts DEF Downloaded, CoreInv, CoreTypeOK, Indexes
<1>1. /\ evs \in Seq(FeedEvents) /\ evs # <<>>
      /\ \A j \in DOMAIN evs : evs[j] = Download(i)
    BY NoteFacts
<1> HIDE DEF evs
<1>2. /\ events' \in [Loops -> Seq(FeedEvents)]
      /\ \A l \in Loops :
            /\ loop[l] # "subscribed" => events'[l] = events[l]
            /\ \A j \in DOMAIN events'[l] :
                  \/ j \in DOMAIN events[l] /\ events'[l][j] = events[l][j]
                  \/ events'[l][j] = Download(i)
    BY <1>0, <1>1, PublishFacts
<1>3. CoreTypeOK'
    BY <1>0, <1>2, Zenon DEF CoreInv, CoreTypeOK
<1>4. LengthsSound'
  <2>1. length' <= len' /\ length \in Nat
    BY <1>0 DEF CoreInv, LengthsSound, CoreTypeOK
  <2>2. \A c \in Loops \cup Appenders : call'[c].kind = "answer" => call'[c].n <= len'
    BY <1>0 DEF CoreInv, LengthsSound, CoreTypeOK, Calls
  <2>3. ASSUME NEW l \in Loops
        PROVE  /\ note'[l].type = "append" => note'[l].n <= len'
               /\ note'[l].type = "download" => note'[l].n < len'
               /\ \A j \in DOMAIN events'[l] :
                     events'[l][j] # Appended => events'[l][j].n < len'
    <3>1. note[l] \in Notes /\ events[l] \in Seq(FeedEvents)
      BY Zenon DEF CoreInv, CoreTypeOK
    <3>2. /\ note[l].type = "append" => note[l].n <= len /\ note[l].n \in Nat
          /\ note[l].type = "download" => note[l].n < len /\ note[l].n \in Nat
      BY <3>1, NoteFacts, ConstFacts DEF CoreInv, LengthsSound, Indexes
    <3>3. \A j \in DOMAIN events[l] : events[l][j] # Appended =>
             events[l][j].n < len /\ events[l][j].n \in Nat
      BY <3>1, NoteFacts, ConstFacts DEF CoreInv, LengthsSound, Indexes
    <3> QED  BY <1>0, <1>2, <3>2, <3>3, NoteFacts
  <2> QED  BY <1>0, <2>1, <2>2, <2>3, Zenon DEF LengthsSound
<1>5. LoopsSound'
    BY <1>0, <1>2, Zenon DEF CoreInv, LoopsSound
<1>6. ListenersSound'
    BY <1>0, Zenon DEF CoreInv, ListenersSound, ListenersBounded, HasRoom
<1> QED  BY <1>3, <1>4, <1>5, <1>6, Zenon DEF CoreInv

\* A loop is spawned, and subscribes.
LEMMA LoopStartsCore ==
    ASSUME CoreInv, NEW l \in Loops, SpawnLoop(l) \/ LoopSubscribes(l)
    PROVE  CoreInv'
<1>0. UNCHANGED <<writable, len, has, events, note, length, open, locked,
                  listening, queue, get, setBy>>
    BY Zenon DEF SpawnLoop, LoopSubscribes, feedVars
<1>1. /\ call' \in [Loops \cup Appenders -> Calls]
      /\ loop' \in [Loops -> {"none", "spawned", "subscribed", "ended"}]
      /\ \A k \in Loops : k # l => call'[k] = call[k] /\ loop'[k] = loop[k]
      /\ \A c \in Loops \cup Appenders : call'[c].kind = "answer" => call'[c] = call[c]
      /\ \/ loop[l] = "none" /\ loop'[l] = "spawned" /\ call'[l].kind = "opening"
         \/ /\ loop[l] = "spawned" /\ loop'[l] = "subscribed"
            /\ call'[l].kind # "request"
  <2>1. /\ loop \in [Loops -> {"none", "spawned", "subscribed", "ended"}]
        /\ call \in [Loops \cup Appenders -> Calls]
        /\ call[l].kind = "request" => loop[l] = "none"
    BY Zenon DEF CoreInv, CoreTypeOK, LoopsSound
  <2>2. CASE SpawnLoop(l)
    BY <2>1, <2>2 DEF SpawnLoop, Calls
  <2>3. CASE LoopSubscribes(l)
    BY <2>1, <2>3, Zenon DEF LoopSubscribes
  <2> QED  BY <2>2, <2>3, Zenon
<1>2. CoreTypeOK'
    BY <1>0, <1>1, Zenon DEF CoreInv, CoreTypeOK
<1>3. LengthsSound'
    BY <1>0, <1>1, Zenon DEF CoreInv, LengthsSound
<1>4. LoopsSound'
  <2>1. setBy # l /\ note[l] = NoNote /\ events[l] = <<>>
    BY <1>1, Zenon DEF CoreInv, LoopsSound
  <2> QED  BY <1>0, <1>1, <2>1 DEF CoreInv, LoopsSound
<1>5. ListenersSound'
    BY <1>0, Zenon DEF CoreInv, ListenersSound, ListenersBounded, HasRoom
<1> QED  BY <1>2, <1>3, <1>4, <1>5, Zenon DEF CoreInv

\* A loop turns an event into a notification.
LEMMA NotifyCore ==
    ASSUME CoreInv, NEW l \in Loops, Notify(l)
    PROVE  CoreInv'
<1> DEFINE e == Head(events[l])
           m == IF e = Appended THEN Event("append", len) ELSE e
<1>0. /\ UNCHANGED <<writable, len, has, loop, call, length, open, locked,
                     listening, queue, get, setBy>>
      /\ note[l] = NoNote /\ events[l] # <<>> /\ loop[l] = "subscribed"
    BY Zenon DEF Notify, feedVars, CoreInv, LoopsSound
<1>1. /\ events[l] \in Seq(FeedEvents) /\ note \in [Loops -> Notes]
      /\ events \in [Loops -> Seq(FeedEvents)] /\ len \in 0 .. MaxLen
    BY Zenon DEF CoreInv, CoreTypeOK
<1>2. /\ e \in FeedEvents /\ e = events[l][1] /\ 1 \in DOMAIN events[l]
      /\ Tail(events[l]) \in Seq(FeedEvents)
      /\ \A i \in DOMAIN Tail(events[l]) :
            i + 1 \in DOMAIN events[l] /\ Tail(events[l])[i] = events[l][i + 1]
    BY <1>0, <1>1
<1>3. /\ m \in Notes /\ m # NoNote
      /\ m.type = "append" => m.n = len
      /\ m.type = "download" => m = e /\ e # Appended
    BY <1>1, <1>2, NoteFacts
<1>4. /\ note' = [note EXCEPT ![l] = m]
      /\ events' = [events EXCEPT ![l] = Tail(events[l])]
    BY Zenon DEF Notify
<1> HIDE DEF m, e
<1>5. /\ note' \in [Loops -> Notes] /\ note'[l] = m
      /\ \A k \in Loops : k # l => note'[k] = note[k] /\ events'[k] = events[k]
      /\ events' \in [Loops -> Seq(FeedEvents)]
      /\ \A i \in DOMAIN events'[l] :
            i + 1 \in DOMAIN events[l] /\ events'[l][i] = events[l][i + 1]
    BY <1>1, <1>2, <1>3, <1>4, Zenon
<1>6. CoreTypeOK'
    BY <1>0, <1>5, Zenon DEF CoreInv, CoreTypeOK
<1>7. LengthsSound'
  <2>1. m.type = "append" => m.n <= len
    BY <1>1, <1>3, ConstFacts
  <2>2. m.type = "download" => m.n < len
    BY <1>2, <1>3, Zenon DEF CoreInv, LengthsSound
  <2>3. \A i \in DOMAIN events'[l] : events'[l][i] # Appended => events'[l][i].n < len
    BY <1>5, Zenon DEF CoreInv, LengthsSound
  <2> QED  BY <1>0, <1>5, <2>1, <2>2, <2>3, Zenon DEF CoreInv, LengthsSound
<1>8. LoopsSound'
  <2>1. locked # l
    BY <1>0, ConstFacts, Zenon DEF CoreInv, ListenersSound
  <2>2. writable => e = Appended /\ m.type = "append" /\ m.n = len
    <3>1. writable => e = Appended
      BY <1>2, Zenon DEF CoreInv, LoopsSound
    <3>2. m \in Notes => m.type \in {"append", "download"}
      BY <1>3, NoteFacts, Zenon
    <3> QED  BY <1>3, <3>1, <3>2, Zenon
  <2>3. writable => \A i \in DOMAIN events'[l] : events'[l][i] = Appended
    BY <1>5 DEF CoreInv, LoopsSound
  <2> QED  BY <1>0, <1>3, <1>5, <2>1, <2>2, <2>3, SMTT(30) DEF CoreInv, LoopsSound
<1>9. ListenersSound'
  <2>1. locked # None => note'[locked] # NoNote
    BY <1>0, <1>3, <1>5, Zenon DEF CoreInv, ListenersSound, CoreTypeOK
  <2> QED  BY <1>0, <2>1, Zenon DEF CoreInv, ListenersSound, ListenersBounded, HasRoom
<1> QED  BY <1>6, <1>7, <1>8, <1>9, Zenon DEF CoreInv

\* A loop ends, and takes at most its own notification with it.
LEMMA NotifyFailsCore ==
    ASSUME CoreInv, NEW l \in Loops, NotifyFails(l)
    PROVE  CoreInv'
<1>0. /\ UNCHANGED <<writable, len, has, call, length, open, locked, listening,
                     queue, get, setBy>>
      /\ loop[l] = "subscribed" /\ note[l] # NoNote
      /\ loop' = [loop EXCEPT ![l] = "ended"]
      /\ events' = [events EXCEPT ![l] = <<>>]
      /\ note' = note \/ (locked # l /\ note' = [note EXCEPT ![l] = NoNote])
    BY Zenon DEF NotifyFails, feedVars
<1>1. /\ loop \in [Loops -> {"none", "spawned", "subscribed", "ended"}]
      /\ events \in [Loops -> Seq(FeedEvents)] /\ note \in [Loops -> Notes]
    BY Zenon DEF CoreInv, CoreTypeOK
<1>2. /\ loop' \in [Loops -> {"none", "spawned", "subscribed", "ended"}]
      /\ loop'[l] = "ended" /\ events'[l] = <<>> /\ NoNote \in Notes
      /\ \A k \in Loops : k # l => /\ loop'[k] = loop[k] /\ events'[k] = events[k]
                                   /\ note'[k] = note[k]
      /\ note'[l] \in {note[l], NoNote} /\ (locked = l => note'[l] = note[l])
  <2>1. CASE note' = note
    BY <1>0, <1>1, <2>1, NoteFacts
  <2>2. CASE locked # l /\ note' = [note EXCEPT ![l] = NoNote]
    BY <1>0, <1>1, <2>2, NoteFacts
  <2> QED  BY <1>0, <2>1, <2>2, Zenon
<1>3. events' \in [Loops -> Seq(FeedEvents)] /\ note' \in [Loops -> Notes]
    BY <1>0, <1>1, <1>2, SMTT(30)
<1>4. \A k \in Loops : /\ note'[k] \in {note[k], NoNote}
                       /\ \A i \in DOMAIN events'[k] : /\ i \in DOMAIN events[k]
                                                       /\ events'[k][i] = events[k][i]
    BY <1>2
<1>5. CoreTypeOK'
    BY <1>0, <1>2, <1>3, Zenon DEF CoreInv, CoreTypeOK
<1>6. LengthsSound'
    BY <1>0, <1>4, NoteFacts DEF CoreInv, LengthsSound
<1>7. LoopsSound'
    BY <1>0, <1>2, <1>4, NoteFacts DEF CoreInv, LoopsSound
<1>8. ListenersSound'
  <2>1. locked # None => note'[locked] # NoNote
    BY <1>0, <1>2, Zenon DEF CoreInv, CoreTypeOK, ListenersSound
  <2> QED  BY <1>0, <2>1, Zenon DEF CoreInv, ListenersSound, ListenersBounded, HasRoom
<1> QED  BY <1>5, <1>6, <1>7, <1>8, Zenon DEF CoreInv

\* The length on_append and on_download set.
LEMMA LengthAfterFacts ==
    ASSUME CoreInv, NEW l \in Loops, note[l] # NoNote
    PROVE  /\ LengthAfter(note[l]) \in 0 .. MaxLen
           /\ LengthAfter(note[l]) <= len
           /\ note[l].type = "append" => LengthAfter(note[l]) = note[l].n
           /\ EventOf(note[l]) \in FeedEvents
<1>1. /\ note[l] \in Notes /\ len \in Nat /\ length \in Nat /\ len <= MaxLen
      /\ length <= len /\ length <= MaxLen
    BY ConstFacts DEF CoreInv, CoreTypeOK, LengthsSound
<1>2. /\ note[l].type \in {"append", "download"}
      /\ note[l].type = "append" => note[l].n \in 0 .. MaxLen /\ note[l].n <= len
      /\ note[l].type = "download" => note[l].n \in Nat /\ note[l].n < len
                                      /\ note[l] \in FeedEvents
    BY <1>1, NoteFacts, ConstFacts DEF CoreInv, LengthsSound, Indexes
<1> QED  BY <1>1, <1>2, NoteFacts, ConstFacts DEF LengthAfter, EventOf

\* A notification is handled.
LEMMA HandleCore ==
    ASSUME CoreInv, NEW l \in Loops, Handle(l)
    PROVE  CoreInv'
<1> DEFINE ev == EventOf(note[l])
<1>0. /\ UNCHANGED <<writable, len, has, loop, events, call, open, listening, get>>
      /\ note[l] # NoNote /\ locked = None /\ setBy' = l
      /\ length' = LengthAfter(note[l])
    BY Zenon DEF Handle, feedVars
<1>1. /\ length' \in 0 .. MaxLen /\ length' <= len
      /\ note[l].type = "append" => length' = note[l].n
      /\ ev \in FeedEvents
    BY <1>0, LengthAfterFacts, Zenon
<1>2. queue' = [r \in Readers |-> IF r \in listening THEN Append(queue[r], ev)
                                                     ELSE queue[r]]
    BY Zenon DEF Handle
<1>3. /\ queue \in [Readers -> Seq(FeedEvents)] /\ listening \in SUBSET Readers
      /\ note \in [Loops -> Notes]
    BY Zenon DEF CoreInv, CoreTypeOK
<1> HIDE DEF ev
<1>4. /\ queue' \in [Readers -> Seq(FeedEvents)]
      /\ \A r \in Readers : /\ r \in listening => Len(queue'[r]) = Len(queue[r]) + 1
                            /\ r \notin listening => queue'[r] = queue[r]
    BY <1>1, <1>2, <1>3
<1>5. \/ /\ \A r \in listening : Len(queue[r]) < ListenerSize
         /\ note' = [note EXCEPT ![l] = NoNote] /\ locked' = locked
      \/ /\ locked' = l /\ note' = note
    BY Zenon DEF Handle
<1>6. /\ note' \in [Loops -> Notes] /\ locked' \in Loops \cup {None}
      /\ \A k \in Loops : k # l => note'[k] = note[k]
      /\ locked' # None => locked' = l /\ note'[l] # NoNote
      /\ note'[l] = NoNote \/ note'[l] = note[l]
    BY <1>0, <1>3, <1>5, NoteFacts
<1>7. CoreTypeOK'
    BY <1>0, <1>1, <1>4, <1>6, Zenon DEF CoreInv, CoreTypeOK
<1>8. LengthsSound'
    BY <1>0, <1>1, <1>6, NoteFacts DEF CoreInv, LengthsSound
<1>9. LoopsSound'
  <2> SUFFICES ASSUME NEW k \in Loops
               PROVE  /\ call'[k].kind = "request" => loop'[k] = "none"
                      /\ setBy' = k \/ note'[k] # NoNote \/ events'[k] # <<>> =>
                            loop'[k] \in {"subscribed", "ended"}
                      /\ loop'[k] = "ended" => events'[k] = <<>>
                      /\ writable' =>
                         /\ \A i \in DOMAIN events'[k] : events'[k][i] = Appended
                         /\ note'[k] # NoNote => note'[k].type = "append"
                      /\ writable' /\ loop'[k] = "subscribed" =>
                         /\ note'[k] # NoNote /\ events'[k] = <<>> =>
                               note'[k].n = len'
                         /\ setBy' = k /\ (note'[k] = NoNote \/ locked' = k)
                               /\ events'[k] = <<>> => length' = len'
    BY Zenon DEF LoopsSound
  <2>1. CASE k = l
    BY <1>0, <1>1, <1>6, <2>1 DEF CoreInv, LoopsSound
  <2>2. CASE k # l
    BY <1>0, <1>6, <2>2 DEF CoreInv, LoopsSound
  <2> QED  BY <2>1, <2>2, Zenon
<1>10. ListenersSound'
  <2>1. \A r \in Readers : Len(queue[r]) \in Nat /\ Len(queue[r]) <= ListenerSize
    BY <1>0, <1>3, ConstFacts DEF CoreInv, ListenersSound, ListenersBounded, HasRoom
  <2>2. \A r \in Readers : /\ Len(queue'[r]) <= ListenerSize + 1
                           /\ ~(Len(queue'[r]) <= ListenerSize) => locked' # None
    BY <1>0, <1>3, <1>4, <1>5, <2>1, ConstFacts
  <2>3. \A r \in Readers \ listening' : queue'[r] = <<>>
    BY <1>0, <1>4 DEF CoreInv, ListenersSound
  <2> QED  BY <1>6, <2>2, <2>3 DEF ListenersSound, ListenersBounded, HasRoom
<1> QED  BY <1>7, <1>8, <1>9, <1>10 DEF CoreInv

\* The lock is released.
LEMMA UnlockCore ==
    ASSUME CoreInv, NEW l \in Loops, Unlock(l)
    PROVE  CoreInv'
<1>0. /\ UNCHANGED <<writable, len, has, loop, events, call, length, open,
                     listening, queue, get, setBy>>
      /\ locked = l /\ locked' = None /\ \A r \in listening : HasRoom(r)
      /\ note' = [note EXCEPT ![l] = NoNote]
    BY Zenon DEF Unlock, feedVars
<1>1. /\ note' \in [Loops -> Notes] /\ note'[l] = NoNote
      /\ \A k \in Loops : k # l => note'[k] = note[k]
    BY <1>0, NoteFacts DEF CoreInv, CoreTypeOK
<1>2. CoreTypeOK'
    BY <1>0, <1>1, Zenon DEF CoreInv, CoreTypeOK
<1>3. LengthsSound'
    BY <1>0, <1>1, NoteFacts DEF CoreInv, LengthsSound
<1>4. LoopsSound'
    BY <1>0, <1>1, ConstFacts DEF CoreInv, LoopsSound
<1>5. ListenersSound'
  <2>1. \A r \in Readers : Len(queue[r]) <= ListenerSize
    <3>1. \A r \in Readers \ listening : Len(queue[r]) = 0
      BY DEF CoreInv, ListenersSound
    <3> QED  BY <1>0, <3>1, ConstFacts DEF HasRoom
  <2> QED  BY <1>0, <2>1, Zenon DEF CoreInv, ListenersSound, ListenersBounded, HasRoom
<1> QED  BY <1>2, <1>3, <1>4, <1>5 DEF CoreInv

\* The calls of open and append, and their answers.
LEMMA CallsCore ==
    ASSUME CoreInv,
           \/ \E l \in Loops : AnswerOpen(l) \/ OpenReturns(l)
           \/ \E a \in Appenders : AppendReturns(a)
           \/ \E a \in Appenders, n \in 1 .. MaxBatch : AppendCalled(a, n)
    PROVE  CoreInv'
<1>1. /\ call \in [Loops \cup Appenders -> Calls] /\ len \in 0 .. MaxLen
      /\ open \in BOOLEAN /\ get \in [Readers -> Gets]
      /\ \A c \in Loops \cup Appenders : call[c].kind = "answer" =>
            call[c].n \in 0 .. MaxLen /\ call[c].n <= len
    BY ConstFacts DEF CoreInv, CoreTypeOK, LengthsSound, Calls
<1>2. ASSUME NEW l \in Loops, AnswerOpen(l) PROVE CoreInv'
  <2>1. /\ UNCHANGED <<feedVars, loopVars, locked, listening, queue>>
        /\ UNCHANGED <<length, open, get, setBy>>
        /\ call' = [call EXCEPT ![l] = Call("answer", len)]
    BY <1>2, Zenon DEF AnswerOpen
  <2>2. /\ Call("answer", len) \in Calls /\ Call("answer", len).n = len
        /\ Call("answer", len).kind = "answer"
    BY <1>1, ConstFacts DEF Calls, Call
  <2>3. /\ call' \in [Loops \cup Appenders -> Calls]
        /\ \A c \in Loops \cup Appenders : call'[c].kind = "answer" => call'[c].n <= len
        /\ \A k \in Loops : call'[k].kind = "request" => call[k].kind = "request"
    BY <1>1, <2>1, <2>2, ConstFacts
  <2> QED  BY <1>1, <2>1, <2>3, QuietCore, Zenon
<1>3. ASSUME NEW c \in Loops \cup Appenders,
             call' = [call EXCEPT ![c] = Call("done", 0)]
      PROVE  /\ call' \in [Loops \cup Appenders -> Calls]
             /\ \A d \in Loops \cup Appenders : call'[d].kind = "answer" => call'[d].n <= len
             /\ \A k \in Loops : call'[k].kind = "request" => call[k].kind = "request"
  <2>1. Call("done", 0) \in Calls /\ Call("done", 0).kind = "done"
    BY Zenon DEF Calls, Call
  <2> QED  BY <1>1, <1>3, <2>1, Zenon
<1>4. ASSUME NEW l \in Loops, OpenReturns(l) PROVE CoreInv'
  <2>1. /\ UNCHANGED <<feedVars, loopVars, locked, listening, queue, get>>
        /\ call' = [call EXCEPT ![l] = Call("done", 0)] /\ open' = TRUE
        /\ length' = call[l].n /\ call[l].kind = "answer" /\ setBy' = None
    BY <1>4, Zenon DEF OpenReturns
  <2> QED  BY <1>1, <1>3, <2>1, QuietCore, Zenon
<1>5. ASSUME NEW a \in Appenders, AppendReturns(a) PROVE CoreInv'
  <2>1. /\ UNCHANGED <<feedVars, loopVars, locked, listening, queue, get, open>>
        /\ call' = [call EXCEPT ![a] = Call("done", 0)]
        /\ \/ length' = call[a].n /\ call[a].kind = "answer" /\ setBy' = None
           \/ UNCHANGED <<length, setBy>>
    BY <1>5, Zenon DEF AppendReturns
  <2> QED  BY <1>1, <1>3, <2>1, QuietCore, Zenon
<1>6. ASSUME NEW a \in Appenders, NEW n \in 1 .. MaxBatch, AppendCalled(a, n)
      PROVE  CoreInv'
  <2>1. /\ UNCHANGED <<feedVars, loopVars, locked, listening, queue>>
        /\ UNCHANGED <<length, open, get, setBy>>
        /\ call' = [call EXCEPT ![a] = Call("request", n)]
    BY <1>6, Zenon DEF AppendCalled
  <2>2. Call("request", n) \in Calls /\ Call("request", n).kind = "request"
    BY <1>6 DEF Calls, Call
  <2>3. /\ call' \in [Loops \cup Appenders -> Calls]
        /\ \A c \in Loops \cup Appenders : call'[c].kind = "answer" => call'[c].n <= len
        /\ \A k \in Loops : call'[k].kind = "request" => call[k].kind = "request"
    BY <1>1, <2>1, <2>2, ConstFacts
  <2> QED  BY <1>1, <2>1, <2>3, QuietCore
<1> QED  BY <1>2, <1>4, <1>5, <1>6

\* An append on the server, whoever made it.
LEMMA AppendsCore ==
    ASSUME CoreInv, OthersAppend \/ \E a \in Appenders : ServeAppend(a)
    PROVE  CoreInv'
<1>1. /\ call \in [Loops \cup Appenders -> Calls] /\ len \in Nat
      /\ open \in BOOLEAN /\ get \in [Readers -> Gets]
      /\ \A c \in Loops \cup Appenders : call[c].kind = "answer" => call[c].n <= len
    BY ConstFacts DEF CoreInv, CoreTypeOK, LengthsSound
<1>2. CASE OthersAppend
  <2>1. /\ writable /\ Grow(1) /\ call' = call
        /\ UNCHANGED <<length, open, locked, listening, queue, get, setBy>>
    BY <1>2, Zenon DEF OthersAppend
  <2> QED  BY <1>1, <2>1, GrowCore, Zenon
<1>3. ASSUME NEW a \in Appenders, ServeAppend(a) PROVE CoreInv'
  <2> DEFINE n == call[a].n
  <2>0. /\ n \in Nat
        /\ UNCHANGED <<length, open, locked, listening, queue, get, setBy>>
    BY <1>1, <1>3, Zenon DEF ServeAppend, Calls
  <2>1. ASSUME NEW d \in Calls, NEW k \in Nat, d.kind = "answer" => d.n <= len + k,
               call' = [call EXCEPT ![a] = d]
        PROVE  /\ call' \in [Loops \cup Appenders -> Calls]
               /\ \A c \in Loops \cup Appenders : call'[c].kind = "answer" =>
                     call'[c].n <= len + k \/ call'[c] = call[c]
               /\ \A l \in Loops : call'[l] = call[l]
    BY <1>1, <2>1, ConstFacts, Zenon
  <2>2. /\ Call("error", 0) \in Calls /\ Call("error", 0).kind = "error"
        /\ Call("answer", len + n) \in Calls /\ Call("answer", len + n).n = len + n
    BY <1>1, <2>0 DEF Calls, Call
  <2> HIDE DEF n
  <2>3. CASE writable /\ Grow(n) /\ call' = [call EXCEPT ![a] = Call("answer", len + n)]
    <3>1. Call("answer", len + n).n <= len + n
      BY <1>1, <2>0, <2>2
    <3> QED  BY <2>0, <2>1, <2>2, <2>3, <3>1, GrowCore, Zenon
  <2>4. ASSUME writable, NEW k \in 0 .. n - 1, Grow(k),
               call' = [call EXCEPT ![a] = Call("error", 0)]
        PROVE  CoreInv'
    <3>1. k \in Nat
      BY <2>0, <2>4
    <3> QED  BY <2>0, <2>1, <2>2, <2>4, <3>1, GrowCore, Zenon
  <2>5. CASE UNCHANGED <<feedVars, loopVars>>
             /\ call' = [call EXCEPT ![a] = Call("error", 0)]
    <3>1. /\ call' \in [Loops \cup Appenders -> Calls]
          /\ \A c \in Loops \cup Appenders : call'[c].kind = "answer" => call'[c].n <= len
          /\ \A k \in Loops : call'[k].kind = "request" => call[k].kind = "request"
      BY <1>1, <2>2, <2>5, ConstFacts
    <3> QED  BY <1>1, <2>0, <2>5, <3>1, QuietCore, Zenon
  <2> QED  BY <1>3, <2>3, <2>4, <2>5, Zenon DEF ServeAppend, n
<1> QED  BY <1>2, <1>3, Zenon

\* How a get moves on.
GetMoves(r) ==
    /\ get[r].at \in {"call", "sent"} /\ get'[r].at \in {"sent", "block", "missing", "error"}
    /\ get'[r].seq = get[r].seq
    /\ get'[r].at = "block" => get[r].seq \in Indexes
    /\ writable /\ get'[r].at = "missing" => get[r].seq >= len

\* The get requests and their answers.
LEMMA GetsCore ==
    ASSUME CoreInv, NEW r \in Readers, SendGet(r) \/ ServeGet(r) \/ GetFails(r)
    PROVE  /\ CoreInv' /\ get' \in [Readers -> Gets] /\ GetMoves(r)
           /\ \A q \in Readers : q # r => get'[q] = get[q]
           /\ UNCHANGED <<writable, len, length>>
<1>1. /\ call \in [Loops \cup Appenders -> Calls] /\ len \in Nat
      /\ open \in BOOLEAN /\ get \in [Readers -> Gets] /\ has \in SUBSET Indexes
      /\ \A c \in Loops \cup Appenders : call[c].kind = "answer" => call[c].n <= len
      /\ writable => has = 0 .. len - 1
    BY ConstFacts DEF CoreInv, CoreTypeOK, LengthsSound
<1>2. /\ UNCHANGED <<feedVars, loopVars, locked, listening, queue>>
      /\ UNCHANGED <<call, length, open, setBy, writable, len>>
    BY Zenon DEF SendGet, ServeGet, GetFails, feedVars
<1>3. PICK at \in {"sent", "block", "missing", "error"} :
          /\ get' = [get EXCEPT ![r].at = at] /\ get[r].at \in {"call", "sent"}
          /\ at = "block" => get[r].seq \in has
          /\ at = "missing" => get[r].seq \notin has
    BY Zenon DEF SendGet, ServeGet, GetFails
<1>4. /\ get' \in [Readers -> Gets] /\ get'[r].at = at /\ get'[r].seq = get[r].seq
      /\ \A q \in Readers : q # r => get'[q] = get[q]
    BY <1>1, <1>3, Zenon DEF Gets
<1>5. get[r].seq \in Nat
    BY <1>1, Zenon DEF Gets
<1>6. writable /\ get'[r].at = "missing" => get[r].seq >= len
    BY <1>1, <1>3, <1>4, <1>5
<1>7. GetMoves(r)
    BY <1>1, <1>3, <1>4, <1>6, Zenon DEF GetMoves
<1>8. CoreInv'
    BY <1>1, <1>2, <1>4, QuietCore, Zenon
<1> QED  BY <1>2, <1>4, <1>7, <1>8

\* Every step of the core keeps its part of the invariant; a get is left
\* alone or moves on.
LEMMA CoreNextCore ==
    ASSUME CoreInv, CoreNext
    PROVE  /\ CoreInv' /\ UNCHANGED writable /\ get' \in [Readers -> Gets]
           /\ \A r \in Readers :
                 get'[r] = get[r] \/ (GetMoves(r) /\ UNCHANGED <<len, length>>)
<1>0. get \in [Readers -> Gets]
    BY Zenon DEF CoreInv, CoreTypeOK
<1>1. CASE \E r \in Readers : SendGet(r) \/ ServeGet(r) \/ GetFails(r)
    BY <1>1, GetsCore, Zenon
<1>2. CASE OthersAppend \/ \E a \in Appenders : ServeAppend(a)
  <2>1. UNCHANGED <<writable, get>>
    BY <1>2, Zenon DEF OthersAppend, ServeAppend, Grow, feedVars
  <2>2. CoreInv'
    BY <1>2, AppendsCore
  <2> QED  BY <1>0, <2>1, <2>2, Zenon
<1>3. CASE \/ \E l \in Loops : AnswerOpen(l) \/ OpenReturns(l)
           \/ \E a \in Appenders : AppendReturns(a)
           \/ \E a \in Appenders, n \in 1 .. MaxBatch : AppendCalled(a, n)
  <2>1. UNCHANGED <<writable, get>>
    BY <1>3, Zenon DEF AnswerOpen, OpenReturns, AppendReturns, AppendCalled, feedVars
  <2>2. CoreInv'
    BY <1>3, CallsCore
  <2> QED  BY <1>0, <2>1, <2>2
<1>4. CASE \E i \in Indexes : Downloaded(i)
  <2>1. UNCHANGED <<writable, get>>
    BY <1>4 DEF Downloaded
  <2>2. CoreInv'
    BY <1>4, DownloadedCore
  <2> QED  BY <1>0, <2>1, <2>2
<1>5. CASE \E l \in Loops : SpawnLoop(l) \/ LoopSubscribes(l)
  <2>1. UNCHANGED <<writable, get>>
    BY <1>5, Zenon DEF SpawnLoop, LoopSubscribes, feedVars
  <2>2. CoreInv'
    BY <1>5, LoopStartsCore
  <2> QED  BY <1>0, <2>1, <2>2
<1>6. CASE \E l \in Loops : Notify(l) \/ NotifyFails(l) \/ Handle(l) \/ Unlock(l)
  <2>1. UNCHANGED <<writable, get>>
    BY <1>6, Zenon DEF Notify, NotifyFails, Handle, Unlock, feedVars
  <2>2. CoreInv'
    BY <1>6, NotifyCore, NotifyFailsCore, HandleCore, UnlockCore
  <2> QED  BY <1>0, <2>1, <2>2
<1> QED  BY <1>1, <1>2, <1>3, <1>4, <1>5, <1>6 DEF CoreNext

\* ... and the part of the streams.
LEMMA CoreReaders ==
    ASSUME StreamsInv, CoreInv', UNCHANGED <<writable, stream, given, byteVars>>,
           NoteLength, get' \in [Readers -> Gets],
           \A r \in Readers :
               get'[r] = get[r] \/ (GetMoves(r) /\ UNCHANGED <<len, length>>)
    PROVE  ReaderInv'
<1>0. /\ UNCHANGED <<bytes, calling, pos>> /\ length' \in Nat /\ length' <= MaxLen
      /\ length <= len /\ len \in Nat /\ length \in Nat
  <2>1. UNCHANGED <<bytes, calling, pos>>
    BY Zenon DEF byteVars
  <2>2. CoreInv
    BY InvParts, Zenon
  <2>3. /\ length \in 0 .. MaxLen /\ length' \in 0 .. MaxLen
        /\ len \in 0 .. MaxLen /\ length <= len
    BY <2>2, Zenon DEF CoreInv, CoreTypeOK, LengthsSound
  <2> QED  BY ONLY <2>1, <2>3, ConstFacts, SMTT(30)
<1>1. \A r \in Readers : least[r] \in 0 .. MaxLen
    BY InvParts, ZenonT(30) DEF ReaderInv, StreamTypeOK
<1>2. /\ least' \in [Readers -> 0 .. MaxLen]
      /\ \A r \in Readers : least'[r] <= length' /\ least'[r] <= least[r]
  <2>1. NoteLength
    OBVIOUS
  <2> QED  BY ONLY <1>0, <1>1, <2>1, ConstFacts, SMTT(30) DEF NoteLength
<1>3. StreamTypeOK' /\ ByteTypeOK'
    BY <1>0, <1>2, InvParts, Zenon DEF ReaderInv, StreamTypeOK, ByteTypeOK
<1>4. ASSUME NEW r \in Readers PROVE StreamSound(r)'
  <2>1. /\ StreamSound(r) /\ get[r].seq \in Nat /\ least[r] \in Nat /\ least'[r] \in Nat
    <3>1. StreamSound(r) /\ get[r] \in Gets
      BY InvParts, Zenon DEF ReaderInv, CoreInv, CoreTypeOK
    <3>2. get[r].seq \in Nat
      BY <3>1 DEF Gets
    <3>3. least[r] \in 0 .. MaxLen /\ least'[r] \in 0 .. MaxLen
      BY <1>1, <1>2, Zenon
    <3> QED  BY <3>1, <3>2, <3>3
  <2>2. CASE get'[r] = get[r]
    BY <1>0, <1>2, <2>1, <2>2, SMTT(30) DEF StreamSound
  <2>3. CASE GetMoves(r) /\ UNCHANGED <<len, length>>
    <3>1. stream[r].at # "length"
      BY <2>1, <2>3, Zenon DEF StreamSound, GetMoves
    <3>2. writable /\ get'[r].at = "missing" => get[r].seq >= least'[r]
      BY <1>0, <1>2, <2>1, <2>3 DEF GetMoves, StreamSound
    <3> QED  BY <1>0, <1>2, <2>1, <2>3, <3>1, <3>2 DEF StreamSound, GetMoves
  <2> QED  BY <2>2, <2>3, Zenon
<1>5. \A r \in Readers : ByteSound(r)'
    BY <1>0, InvParts, Zenon DEF ReaderInv, ByteSound
<1>6. GivesAllKnown'
  <2>1. \A r \in Readers : stream[r].start + given[r] \in Nat
    BY InvParts DEF ReaderInv, StreamTypeOK, StreamStates
  <2>2. \A r \in Readers : least[r] \in Nat /\ least'[r] \in Nat
    BY <1>1, <1>2
  <2>3. \A r \in Readers : \A x \in Nat : x >= least[r] => x >= least'[r]
    BY <1>2, <2>2
  <2> QED  BY <2>1, <2>3, InvParts, Zenon DEF ReaderInv, GivesAllKnown
<1>7. ReadsInPlace'
  <2>1. \A r \in Readers : get'[r].seq = get[r].seq
    BY Zenon DEF GetMoves
  <2> QED  BY <1>0, <2>1, InvParts, Zenon DEF ReaderInv, ReadsInPlace
<1> QED  BY <1>3, <1>4, <1>5, <1>6, <1>7, SMTT(30) DEF ReaderInv

\* A step of a reader leaves the rest of the core alone, and what changes of
\* the other readers' state is nothing.
LEMMA ReaderFrame ==
    ASSUME StreamsInv, NEW r \in Readers,
           UNCHANGED <<feedVars, loopVars, call, length, open, locked, setBy>>,
           listening' \in SUBSET Readers, queue' \in [Readers -> Seq(FeedEvents)],
           get' \in [Readers -> Gets], ListenersSound', StreamTypeOK', ByteTypeOK',
           \A q \in Readers : q # r =>
               /\ stream'[q] = stream[q] /\ given'[q] = given[q] /\ least'[q] = least[q]
               /\ bytes'[q] = bytes[q] /\ pos'[q] = pos[q] /\ get'[q] = get[q],
           StreamSound(r)', ByteSound(r)',
           writable /\ stream'[r].at \in {"finished", "over"} /\ stream'[r].end = None
               => stream'[r].start + given'[r] >= least'[r],
           bytes'[r].state \in {"Idle", "Reading", "Ready", "Finished"} =>
               /\ Offset[bytes'[r].seq] + bytes'[r].block_offset = pos'[r]
               /\ bytes'[r].state \in {"Reading", "Ready"} =>
                     get'[r].seq = bytes'[r].seq
    PROVE  StreamsInv'
<1>0. UNCHANGED <<writable, len, has, loop, events, note, call, length, open,
                  locked, setBy>>
    BY Zenon DEF feedVars, loopVars
<1>1. CoreTypeOK'
    BY <1>0, InvParts, ZenonT(30) DEF CoreInv, CoreTypeOK
<1>2. LengthsSound' /\ LoopsSound'
    BY <1>0, InvParts DEF CoreInv, LengthsSound, LoopsSound
<1>3. ASSUME NEW q \in Readers PROVE StreamSound(q)' /\ ByteSound(q)'
  <2>1. CASE q = r
    BY <2>1, Zenon
  <2>2. CASE q # r
    <3>1. StreamSound(q) /\ ByteSound(q)
      BY InvParts, Zenon DEF ReaderInv
    <3>2. /\ UNCHANGED <<writable, length>> /\ stream'[q] = stream[q]
          /\ given'[q] = given[q] /\ least'[q] = least[q] /\ get'[q] = get[q]
          /\ bytes'[q] = bytes[q] /\ pos'[q] = pos[q]
      BY <1>0, <2>2, ZenonT(30)
    <3>3. StreamSound(q)'
      BY <3>1, <3>2, ZenonT(30) DEF StreamSound
    <3>4. ByteSound(q)'
      BY <3>1, <3>2, Zenon DEF ByteSound
    <3> QED  BY <3>3, <3>4, Zenon
  <2> QED  BY <2>1, <2>2, Zenon
<1>4. GivesAllKnown'
    BY <1>0, InvParts, Zenon DEF ReaderInv, GivesAllKnown
<1>5. ReadsInPlace'
    BY <1>0, InvParts, Zenon DEF ReaderInv, ReadsInPlace
<1>6. CoreInv' /\ ReaderInv'
    BY <1>1, <1>2, <1>3, <1>4, <1>5, Zenon DEF CoreInv, ReaderInv
<1> QED  BY <1>6, Zenon DEF StreamsInv, CoreInv, ReaderInv, TypeOK

\* Every step of the core keeps the invariant.
LEMMA CoreStep ==
    ASSUME StreamsInv, Core(CoreNext)
    PROVE  StreamsInv'
<1>1. /\ CoreInv /\ CoreNext /\ NoteLength
      /\ UNCHANGED <<stream, given, byteVars>>
    BY InvParts, Zenon DEF Core
<1>2. /\ CoreInv' /\ UNCHANGED writable /\ get' \in [Readers -> Gets]
      /\ \A r \in Readers :
            get'[r] = get[r] \/ (GetMoves(r) /\ UNCHANGED <<len, length>>)
    BY <1>1, CoreNextCore, Zenon
<1>3. ReaderInv'
    BY <1>1, <1>2, CoreReaders
<1> QED  BY <1>2, <1>3, Zenon DEF StreamsInv, CoreInv, ReaderInv, TypeOK

\* What the invariant says of one reader.
LEMMA ReaderFacts ==
    ASSUME StreamsInv, NEW r \in Readers
    PROVE  /\ stream \in [Readers -> StreamStates] /\ given \in [Readers -> Nat]
           /\ least \in [Readers -> 0 .. MaxLen] /\ length \in 0 .. MaxLen
           /\ get \in [Readers -> Gets] /\ listening \in SUBSET Readers
           /\ queue \in [Readers -> Seq(FeedEvents)]
           /\ bytes \in [Readers -> [state : ByteStates, seq : 0 .. MaxLen,
                                     block_offset : Nat, byte_offset : Nat]]
           /\ calling \in [Readers -> BOOLEAN] /\ pos \in [Readers -> Nat]
           /\ StreamSound(r) /\ ByteSound(r) /\ ListenersSound
BY Zenon DEF StreamsInv, TypeOK, CoreTypeOK, StreamTypeOK, ByteTypeOK

\* Gets are what Get makes.
LEMMA GetFacts ==
    \A seq \in Nat : \A at \in {"call", "done"} :
        Get(at, seq) \in Gets /\ Get(at, seq).at = at /\ Get(at, seq).seq = seq
BY Zenon DEF Get, Gets

\* Moving a stream to another place changes nothing else of it.
LEMMA AtMoves ==
    ASSUME StreamsInv, NEW r \in Readers,
           NEW a \in {"none", "get", "subscribe", "wait", "length", "finished",
                      "over", "failed"},
           stream' = [stream EXCEPT ![r].at = a]
    PROVE  /\ stream' \in [Readers -> StreamStates]
           /\ \A q \in Readers : q # r => stream'[q] = stream[q]
           /\ stream'[r].at = a /\ stream'[r].index = stream[r].index
           /\ stream'[r].start = stream[r].start /\ stream'[r].end = stream[r].end
           /\ stream'[r].live = stream[r].live /\ stream[r].index \in Nat
<1> DEFINE s == stream[r]
           moved == [s EXCEPT !.at = a]
<1>1. stream \in [Readers -> StreamStates]
    BY ReaderFacts, Zenon
<1>2. s \in StreamStates
    BY <1>1, Zenon
<1>3. stream' = [stream EXCEPT ![r] = moved]
    BY Zenon
<1> HIDE DEF s
<1>4. /\ moved \in StreamStates /\ moved.at = a /\ moved.index = s.index
      /\ moved.start = s.start /\ moved.end = s.end /\ moved.live = s.live
      /\ s.index \in Nat
    BY <1>2 DEF StreamStates
<1> HIDE DEF moved
<1>5. stream'[r] = moved /\ stream' \in [Readers -> StreamStates]
    BY <1>1, <1>3, <1>4, Zenon
<1>6. \A q \in Readers : q # r => stream'[q] = stream[q]
    BY <1>1, <1>3, Zenon
<1> QED  BY <1>4, <1>5, <1>6, Zenon DEF s

\* A block's size and the offsets at its two ends.
LEMMA SizeFacts ==
    ASSUME NEW i \in Indexes
    PROVE  /\ i \in Nat /\ i + 1 \in 0 .. MaxLen
           /\ Size[i] \in Nat /\ Offset[i] \in Nat /\ Offset[i + 1] \in Nat
           /\ Offset[i + 1] = Offset[i] + Size[i]
           /\ i + 1 \in Indexes => Size[i + 1] \in Nat
<1>1. i \in Nat /\ i \in 0 .. MaxLen /\ i + 1 \in 0 .. MaxLen
    BY ConstFacts DEF Indexes
<1> QED  BY <1>1, ByteAssumption, Zenon
=============================================================================

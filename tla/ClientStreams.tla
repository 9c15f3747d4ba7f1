---------------------------- MODULE ClientStreams ----------------------------
(***************************************************************************)
(* The streams of a client over one RemoteHypercore: each reader is made a *)
(* ReadStream or a ByteStream, and all of them share the core's lock and   *)
(* its listeners.                                                          *)
(***************************************************************************)
EXTENDS ReadStream, ByteStream

CONSTANT Threads  \* threads of the client's executor

ASSUME ThreadAssumption == Threads \in Nat

vars == <<coreVars, streamVars, byteVars>>

TypeOK == CoreTypeOK /\ StreamTypeOK /\ ByteTypeOK

Init == CoreInit /\ StreamInit /\ ByteInit

\* A step of the core: its actions leave the streams alone.
Core(A) == A /\ NoteLength /\ UNCHANGED <<stream, given, byteVars>>

StreamStep(r) ==
    /\ \/ /\ bytes[r].state = "none"
          /\ \E start \in Starts, end \in Ends, live \in BOOLEAN :
                ToStream(r, start, end, live)
       \/ StreamNext(r)
    /\ UNCHANGED byteVars

ByteStep(r) ==
    /\ \/ stream[r].at = "none" /\ ToReader(r)
       \/ ByteCall(r) \/ ByteReturn(r)
    /\ UNCHANGED streamVars

Next == Core(CoreNext) \/ \E r \in Readers : StreamStep(r) \/ ByteStep(r)

\* The server answers, hrpc delivers, and the client's tasks run; nobody need
\* append, download, or make a call.  The lock is parking_lot's, so a task that
\* waits for it keeps its thread: that the others run nevertheless is only so
\* while threads are left, and the liveness properties end with LockedUp.
Fairness ==
    /\ \A l \in Loops :
          /\ WF_vars(Core(SpawnLoop(l) \/ AnswerOpen(l) \/ OpenReturns(l)))
          /\ WF_vars(Core(LoopSubscribes(l) \/ Notify(l)))
          /\ WF_vars(Core(Handle(l) \/ Unlock(l)))
    /\ \A a \in Appenders : WF_vars(Core(ServeAppend(a) \/ AppendReturns(a)))
    /\ \A r \in Readers :
          /\ WF_vars(Core(SendGet(r) \/ ServeGet(r) \/ GetFails(r)))
          /\ WF_vars(StreamNext(r) /\ UNCHANGED byteVars)
          /\ WF_vars(ByteReturn(r) /\ UNCHANGED streamVars)

Spec == Init /\ [][Next]_vars

FairSpec == Spec /\ Fairness

-----------------------------------------------------------------------------
(* Properties.                                                             *)

\* The tasks of the client that wait for the lock, or may any time.
Waiting ==
    {<<"call", c>> : c \in {d \in Loops : call[d].kind = "answer"} \cup
                           {a \in Appenders : call[a].kind \in {"none", "answer"}}}
    \cup {<<"note", l>> : l \in {k \in Loops : note[k] # NoNote /\ locked # k}}
    \cup {<<"read", r>> : r \in
             {q \in Readers :
                 \/ get[q].at = "call"
                 \/ stream[q].at = "subscribe"
                 \/ stream[q].at = "length" /\ stream[q].end = None
                 \/ bytes[q].state \notin {"none", "panicked"} /\ ~calling[q]}}

\* The client has locked itself up: the lock is held for a receiver that itself
\* waits for it, to send its get, or every thread waits for the lock.
LockedUp ==
    \/ \E r \in listening :
          ~HasRoom(r) /\ stream[r].at = "get" /\ get[r].at = "call"
    \/ locked # None /\ Cardinality(Waiting) >= Threads

Connected == \A l \in Loops : loop[l] # "ended"

\* A stream that is not live ends.  One with an end does so however the feed
\* grows and its length moves meanwhile.  One without compares the length of
\* the moment with its index at each block, so it may follow a feed that grows
\* for ever, but no other one.  (poll_next, stream.rs:77-96)
StreamsEnd ==
    \A r \in Readers :
        LET reads == stream[r].at # "none" /\ ~stream[r].live
            ahead == stream[r].end # None /\ stream[r].start < stream[r].end IN
        /\ (reads /\ ahead) ~> (Ended(r) \/ LockedUp)
        /\ []<><<len' # len>>_vars \/ (reads ~> (Ended(r) \/ LockedUp))

\* A waiting stream is woken by every append that is on its way to the client
\* and by the download of its block, unless the notify loop fails.  One that
\* was told before the stream subscribed is not on its way any more, and does
\* not wake it.  (onappend_get, stream.rs:27-41)
Woken ==
    \A r \in Readers :
        (stream[r].at = "wait" /\ Coming(r)) ~>
            (stream[r].at # "wait" \/ LockedUp \/ ~Connected)

\* Every read and seek returns, panics or is dropped: no state of a ByteStream
\* waits for something that was given up.  (poll_read and poll_seek)
CallsReturn ==
    \A r \in Readers : calling[r] ~> (~calling[r] \/ LockedUp)

\* What ends the wait of a stream is on its way to the client or in the channel
\* of the stream.
Told(r) ==
    \/ Coming(r)
    \/ \E i \in DOMAIN queue[r] : queue[r][i] \in {Appended, Download(stream[r].index)}

LoopEnds == \E l \in Loops : loop[l] # "ended" /\ loop'[l] = "ended"

\* No step takes the wake-up of a waiting stream away without waking it, on its
\* way from the feed through a notify loop and a notification to the channel,
\* except the end of a notify loop: the safety half of Woken.  (notify_loop, rpc/session.rs:107-140; emit,
\* session.rs:289-292; onappend_get, stream.rs:27-41)
WakeUpsKept ==
    [][\A r \in Readers :
          stream[r].at = "wait" /\ Told(r) =>
              stream'[r].at # "wait" \/ Told(r)' \/ LoopEnds]_vars

-----------------------------------------------------------------------------
(* The inductive invariant behind the safety properties.                   *)

\* A writable feed holds all its blocks; no answer and no notification on its
\* way is about more blocks than the feed has.
LengthsSound ==
    /\ writable => has = 0 .. len - 1
    /\ length <= len
    /\ \A c \in Loops \cup Appenders : call[c].kind = "answer" => call[c].n <= len
    /\ \A l \in Loops :
          /\ note[l].type = "append" => note[l].n <= len
          /\ note[l].type = "download" => note[l].n < len
          /\ \A i \in DOMAIN events[l] :
                events[l][i] # Appended => events[l][i].n < len

\* The last notification of a running loop tells the length of the (writable)
\* feed.
LoopsSound ==
    \A l \in Loops :
        /\ call[l].kind = "request" => loop[l] = "none"
        /\ setBy = l \/ note[l] # NoNote \/ events[l] # <<>> =>
              loop[l] \in {"subscribed", "ended"}
        /\ loop[l] = "ended" => events[l] = <<>>
        /\ writable =>
              /\ \A i \in DOMAIN events[l] : events[l][i] = Appended
              /\ note[l] # NoNote => note[l].type = "append"
        /\ writable /\ loop[l] = "subscribed" =>
              /\ note[l] # NoNote /\ events[l] = <<>> => note[l].n = len
              /\ setBy = l /\ (note[l] = NoNote \/ locked = l) /\ events[l] = <<>>
                    => length = len

\* The lock is held for a notification, and keeps others out until there is
\* room again.
ListenersSound ==
    /\ locked # None => note[locked] # NoNote
    /\ \A r \in Readers \ listening : queue[r] = <<>>
    /\ ListenersBounded

\* A reader is a ReadStream or a ByteStream, and the get is for the block it
\* is at.
StreamSound(r) ==
    LET s == stream[r] IN
    /\ s.at = "none" \/ bytes[r].state = "none"
    /\ s.at = "none" => given[r] = 0
    /\ least[r] <= length
    /\ get[r].at = "block" => get[r].seq \in Indexes
    /\ s.at \in {"get", "length"} => get[r].seq = s.index
    /\ s.at = "length" => get[r].at \in {"block", "missing", "error"}
    /\ s.at \in {"subscribe", "wait"} => s.live
    /\ s.at \in {"get", "length", "subscribe", "wait"} =>
          s.index = s.start + given[r]
    /\ s.at \in {"get", "length"} /\ s.end # None /\ s.start < s.end /\ ~s.live
          => s.index < s.end
    /\ writable /\ s.at \in {"get", "length"} /\ get[r].at = "missing"
          => get[r].seq >= least[r]

\* The offset in the block in hand is inside it.
ByteSound(r) ==
    LET b == bytes[r] IN
    /\ b.state = "none" => b.seq = 0 /\ b.block_offset = 0 /\ pos[r] = 0
    /\ b.state \in {"Idle", "Reading", "Ready"} =>
          IF b.seq \in Indexes THEN b.block_offset <= Size[b.seq]
                               ELSE b.block_offset = 0
    /\ b.state = "Ready" => b.seq \in Indexes

\* Lengths, notifications, listeners and streams stay in step, however the
\* answers and notifications overtake each other.
\* (session.rs:146-292, rpc/session.rs:55-177, stream.rs:27-232)
StreamsInv ==
    /\ TypeOK
    /\ LengthsSound /\ LoopsSound /\ ListenersSound
    /\ \A r \in Readers : StreamSound(r) /\ ByteSound(r)
    /\ GivesAllKnown /\ ReadsInPlace
=============================================================================

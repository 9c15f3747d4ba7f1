----------------------------- MODULE ByteStream -----------------------------
(***************************************************************************)
(* client/src/stream.rs, ByteStream: the bytes of a feed, with poll_read   *)
(* and poll_seek.                                                          *)
(*                                                                         *)
(* A call starts with its first poll.  It owns the stream until it returns *)
(* or its caller drops it, which leaves the stream in the state it was in, *)
(* with the future of that state.  A panic leaves it unusable.  The block  *)
(* in hand, in Reading and Ready, is the one get[r] is about.              *)
(***************************************************************************)
EXTENDS RemoteHypercore, Integers

CONSTANTS
    Size,     \* block -> its length in bytes
    Offset,   \* block -> the bytes before it; block MaxLen is past the end
    Targets,  \* bound: the offsets of SeekFrom::Start
    Steps,    \* bound: those of SeekFrom::Current
    Word,     \* 2^64
    MaxRead   \* bound: bytes one read asks for

ASSUME ByteAssumption ==
    /\ Size \in [Indexes -> Nat] /\ MaxRead \in Nat
    /\ Offset \in [0 .. MaxLen -> Nat] /\ Offset[0] = 0
    /\ \A i \in Indexes : Offset[i + 1] = Offset[i] + Size[i]
    /\ Word \in Nat /\ Targets \subseteq Nat /\ Steps \subseteq -Word .. Word

VARIABLES
    bytes,    \* reader -> its ByteStream
    calling,  \* reader -> a read or a seek is under way
    pos       \* ghost: reader -> the offset of the next byte to be given

byteVars == <<bytes, calling, pos>>

ByteStates == {"none", "Idle", "Seeking", "Reading", "Ready", "Finished",
               "panicked"}

ByteTypeOK ==
    /\ bytes \in [Readers -> [state : ByteStates, seq : 0 .. MaxLen,
                              block_offset : Nat, byte_offset : Nat]]
    /\ calling \in [Readers -> BOOLEAN]
    /\ pos \in [Readers -> Nat]

ByteInit ==
    /\ bytes = [r \in Readers |-> [state |-> "none", seq |-> 0,
                                   block_offset |-> 0, byte_offset |-> 0]]
    /\ calling = [r \in Readers |-> FALSE]
    /\ pos = [r \in Readers |-> 0]

Goto(r, state) == bytes' = [bytes EXCEPT ![r].state = state]

\* ByteStream::new, through RemoteHypercore::to_reader.
ToReader(r) ==
    /\ open /\ bytes[r].state = "none" /\ get[r].at = "none"
    /\ Goto(r, "Idle")
    /\ UNCHANGED <<coreVars, calling, pos>>

Begins(r) == ~calling[r] /\ calling' = [calling EXCEPT ![r] = TRUE]

Returns(r) == calling[r] /\ calling' = [calling EXCEPT ![r] = FALSE]

\* The caller drops the future of its read or seek, between two polls: not
\* while the thread that polls it waits for the lock to send a get.
DropCall(r) ==
    /\ bytes[r].state = "Reading" => get[r].at # "call"
    /\ Returns(r)
    /\ UNCHANGED <<coreVars, bytes, pos>>

-----------------------------------------------------------------------------
(* poll_seek.                                                              *)

\* Where a seek goes to.  SeekFrom::Current counts from byte_offset, which is
\* where the last seek went, whatever was read since; below zero it wraps.
SeekTargets(r) ==
    Targets \cup {LET to == bytes[r].byte_offset + n IN
                   IF to < 0 THEN to + Word ELSE to : n \in Steps}

\* A seek is sent, which takes the lock, and the get or the block in hand is
\* dropped; but if a seek that was dropped is still the state's future, that
\* one is waited for.
Seek(r, to) ==
    /\ bytes[r].state \notin {"none", "panicked"} /\ Begins(r)
    /\ bytes[r].state # "Seeking" => locked = None
    /\ bytes' = [bytes EXCEPT ![r].byte_offset =
                                 IF bytes[r].state = "Seeking" THEN @ ELSE to,
                              ![r].state = "Seeking"]
    /\ get' = [get EXCEPT ![r] = Get("none", 0)]
    /\ UNCHANGED <<feedVars, loopVars, call, length, open, locked, listening,
                   queue, setBy, pos>>

\* SeekFrom::End is not implemented.
SeekEnd(r) ==
    /\ bytes[r].state \notin {"none", "panicked", "Seeking"} /\ ~calling[r]
    /\ Goto(r, "panicked")
    /\ UNCHANGED <<coreVars, calling, pos>>

\* The server's answer (external): the block the byte is in, and where.
Finds(to, seq, offset) ==
    \/ seq \in Indexes /\ offset < Size[seq] /\ Offset[seq] + offset = to
    \/ seq = MaxLen /\ offset = 0 /\ to = Offset[MaxLen]

\* The caller is told the offset the seek was sent with.
SeekDone(r) ==
    /\ bytes[r].state = "Seeking" /\ Returns(r)
    /\ \E seq \in 0 .. MaxLen, offset \in 0 .. Offset[MaxLen] :
          /\ Finds(bytes[r].byte_offset, seq, offset)
          /\ bytes' = [bytes EXCEPT ![r].state = "Idle", ![r].seq = seq,
                                    ![r].block_offset = offset]
    /\ pos' = [pos EXCEPT ![r] = bytes[r].byte_offset]
    /\ UNCHANGED coreVars

\* An error is unwrapped.  (The Rust server does not implement seek.)
SeekFails(r) ==
    /\ bytes[r].state = "Seeking" /\ Returns(r)
    /\ Goto(r, "panicked")
    /\ UNCHANGED <<coreVars, pos>>

-----------------------------------------------------------------------------
(* poll_read.  (State::Finished returns 0 and changes nothing.)            *)

ReadIdle(r) ==
    /\ bytes[r].state = "Idle" /\ Begins(r)
    /\ Goto(r, "Reading")
    /\ get' = [get EXCEPT ![r] = Get("call", bytes[r].seq)]
    /\ UNCHANGED <<feedVars, loopVars, call, length, open, locked, listening,
                   queue, setBy, pos>>

\* A read after one that was dropped.
ReadReading(r) ==
    /\ bytes[r].state = "Reading" /\ Begins(r)
    /\ UNCHANGED <<coreVars, bytes, pos>>

\* State::Seeking is marked unreachable, but a seek that was dropped leaves it.
ReadSeeking(r) ==
    /\ bytes[r].state = "Seeking" /\ ~calling[r]
    /\ Goto(r, "panicked")
    /\ UNCHANGED <<coreVars, calling, pos>>

\* Mutant of Copy: block_offset is not reset for the next block.
CopyKeepsOffset(r, n) ==
    LET b == bytes[r]
        rest == Size[get[r].seq] - b.block_offset
        k == IF n < rest THEN n ELSE rest IN
    /\ bytes' = [bytes EXCEPT ![r] =
          IF k = rest THEN [b EXCEPT !.state = "Idle", !.seq = @ + 1]
                      ELSE [b EXCEPT !.state = "Ready", !.block_offset = @ + k]]
    /\ pos' = [pos EXCEPT ![r] = @ + k]

\* Up to n bytes of the block in hand are given.
Copy(r, n) ==
    LET b == bytes[r]
        rest == Size[get[r].seq] - b.block_offset
        k == IF n < rest THEN n ELSE rest IN
    /\ bytes' = [bytes EXCEPT ![r] =
          IF k = rest THEN [b EXCEPT !.state = "Idle", !.seq = @ + 1,
                                     !.block_offset = 0]
                      ELSE [b EXCEPT !.state = "Ready", !.block_offset = @ + k]]
    /\ pos' = [pos EXCEPT ![r] = @ + k]

ReadReady(r, n) ==
    /\ bytes[r].state = "Ready" /\ ~calling[r]
    /\ Copy(r, n)
    /\ UNCHANGED <<coreVars, calling>>

\* Mutant of GetDone: an error leaves the stream as it is.
GetDoneRetries(r, n) ==
    /\ bytes[r].state = "Reading" /\ Returns(r)
    /\ \/ get[r].at = "block" /\ Copy(r, n)
       \/ get[r].at = "missing" /\ Goto(r, "panicked") /\ UNCHANGED pos
    /\ UNCHANGED coreVars

\* The end of the feed is unwrapped; an error counts as the end.
GetDone(r, n) ==
    /\ bytes[r].state = "Reading" /\ Returns(r)
    /\ \/ get[r].at = "block" /\ Copy(r, n)
       \/ get[r].at = "error" /\ Goto(r, "Finished") /\ UNCHANGED pos
       \/ get[r].at = "missing" /\ Goto(r, "panicked") /\ UNCHANGED pos
    /\ UNCHANGED coreVars

ByteCall(r) ==
    \/ \E to \in SeekTargets(r) : Seek(r, to)
    \/ SeekEnd(r)
    \/ ReadIdle(r) \/ ReadReading(r) \/ ReadSeeking(r)
    \/ \E n \in 0 .. MaxRead : ReadReady(r, n)
    \/ DropCall(r)

ByteReturn(r) ==
    SeekDone(r) \/ SeekFails(r) \/ \E n \in 0 .. MaxRead : GetDone(r, n)

-----------------------------------------------------------------------------
(* Properties.                                                             *)

\* Bytes are given in order and from where the last seek that was answered
\* said, whichever reads and seeks were dropped half way: the place in the
\* feed is that of the next byte, and the block in hand the one it is in.
\* (poll_seek and poll_read, stream.rs:140-231)
ReadsInPlace ==
    \A r \in Readers :
        LET b == bytes[r] IN
        b.state \in {"Idle", "Reading", "Ready", "Finished"} =>
            /\ Offset[b.seq] + b.block_offset = pos[r]
            /\ b.state \in {"Reading", "Ready"} => get[r].seq = b.seq
=============================================================================

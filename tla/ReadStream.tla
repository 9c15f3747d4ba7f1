----------------------------- MODULE ReadStream -----------------------------
(***************************************************************************)
(* client/src/stream.rs, ReadStream: the blocks of a feed as a stream.     *)
(*                                                                         *)
(* Its future is a get, or an onappend_get that listens for an event       *)
(* before it gets.  Nothing is done before the future is polled, so a      *)
(* subscription is a step of its own.  The consumer polls until it is      *)
(* given no item or an error.                                              *)
(*                                                                         *)
(*   at = "none"       not created yet                                     *)
(*   at = "get"        the future gets block `index'                       *)
(*   at = "subscribe"  the future is an onappend_get, not polled yet       *)
(*   at = "wait"       ... waits for an event                              *)
(*   at = "length"     the future is done; poll_next asks for the length   *)
(*   at = "finished"   the last block was given; the next poll gives None  *)
(*   at = "over"       None was given though `finished' is not set         *)
(*   at = "failed"     an error was given                                  *)
(***************************************************************************)
EXTENDS RemoteHypercore

CONSTANTS
    Starts,  \* where streams start
    Ends     \* where they end: None, or a length

ASSUME StreamAssumption ==
    /\ Starts \subseteq Nat
    /\ Ends \subseteq Nat \cup {None}
    /\ None \notin Nat

VARIABLES
    stream,  \* reader -> its ReadStream
    given,   \* ghost: reader -> blocks given so far
    least    \* ghost: reader -> the least `length' since its creation

streamVars == <<stream, given, least>>

StreamStates ==
    [at : {"none", "get", "subscribe", "wait", "length", "finished", "over",
           "failed"},
     index : Nat, start : Nat, end : Ends \cup {None}, live : BOOLEAN]

StreamTypeOK ==
    /\ stream \in [Readers -> StreamStates]
    /\ given \in [Readers -> Nat]
    /\ least \in [Readers -> 0 .. MaxLen]

StreamInit ==
    /\ stream = [r \in Readers |-> [at |-> "none", index |-> 0, start |-> 0,
                                    end |-> None, live |-> FALSE]]
    /\ given = [r \in Readers |-> 0]
    /\ least = [r \in Readers |-> 0]

\* Mutant of ToStream: the index is that of the block after the first.
ToStreamAhead(r, start, end, live) ==
    /\ open /\ stream[r].at = "none" /\ get[r].at = "none"
    /\ stream' = [stream EXCEPT ![r] = [at |-> "get", index |-> start + 1,
                                        start |-> start, end |-> end,
                                        live |-> live]]
    /\ get' = [get EXCEPT ![r] = Get("call", start)]
    /\ least' = [least EXCEPT ![r] = length]
    /\ UNCHANGED <<feedVars, loopVars, call, length, open, locked, listening,
                   queue, setBy, given>>

\* ReadStream::new, through RemoteHypercore::to_stream.
ToStream(r, start, end, live) ==
    /\ open /\ stream[r].at = "none" /\ get[r].at = "none"
    /\ stream' = [stream EXCEPT ![r] = [at |-> "get", index |-> start,
                                        start |-> start, end |-> end,
                                        live |-> live]]
    /\ get' = [get EXCEPT ![r] = Get("call", start)]
    /\ least' = [least EXCEPT ![r] = length]
    /\ UNCHANGED <<feedVars, loopVars, call, length, open, locked, listening,
                   queue, setBy, given>>

\* onappend_get is polled for the first time.
StreamSubscribes(r) ==
    /\ stream[r].at = "subscribe" /\ locked = None
    /\ stream' = [stream EXCEPT ![r].at = "wait"]
    /\ listening' = listening \cup {r}
    /\ UNCHANGED <<feedVars, loopVars, call, length, open, locked, queue, get,
                   setBy, given, least>>

\* Mutant of TakeEvent: a download of the block does not wake the stream.
TakeAppend(r) ==
    LET s == stream[r]
        e == Head(queue[r]) IN
    /\ s.at = "wait" /\ queue[r] # <<>>
    /\ queue' = [queue EXCEPT ![r] = Tail(@)]
    /\ \/ /\ e = Appended
          /\ stream' = [stream EXCEPT ![r].at = "get"]
          /\ get' = [get EXCEPT ![r] = Get("call", s.index)]
       \/ e # Appended /\ UNCHANGED <<stream, get>>
    /\ UNCHANGED <<feedVars, loopVars, call, length, open, locked, listening,
                   setBy, given, least>>

\* Any append, or the download of the block, makes it get the block; it goes
\* on listening meanwhile.
TakeEvent(r) ==
    LET s == stream[r]
        e == Head(queue[r])
        wakes == e \in {Appended, Download(s.index)} IN
    /\ s.at = "wait" /\ queue[r] # <<>>
    /\ queue' = [queue EXCEPT ![r] = Tail(@)]
    /\ \/ /\ wakes
          /\ stream' = [stream EXCEPT ![r].at = "get"]
          /\ get' = [get EXCEPT ![r] = Get("call", s.index)]
       \/ ~wakes /\ UNCHANGED <<stream, get>>
    /\ UNCHANGED <<feedVars, loopVars, call, length, open, locked, listening,
                   setBy, given, least>>

\* The future is done and its receiver, if any, dropped.
FutureDone(r) ==
    /\ stream[r].at = "get" /\ get[r].at \in {"block", "missing", "error"}
    /\ stream' = [stream EXCEPT ![r].at = "length"]
    /\ listening' = listening \ {r}
    /\ queue' = [queue EXCEPT ![r] = <<>>]
    /\ UNCHANGED <<feedVars, loopVars, call, length, open, locked, get, setBy,
                   given, least>>

\* Mutant of PollNext: every stream waits at the end, as a live one does.
PollNextWaits(r) ==
    LET s == stream[r]
        last == IF s.end = None THEN length ELSE s.end
        atEnd == get[r].at = "block" /\ last = s.index + 1
        next == CASE get[r].at = "missing" -> "over"
                  [] get[r].at = "error" -> "failed"
                  [] atEnd -> "subscribe"
                  [] OTHER -> "get" IN
    /\ s.at = "length" /\ (s.end = None => locked = None)
    /\ stream' = [stream EXCEPT ![r].at = next, ![r].index = @ + 1]
    /\ get' = [get EXCEPT ![r] = IF next = "get" THEN Get("call", s.index + 1)
                                                 ELSE Get("done", @.seq)]
    /\ given' = [given EXCEPT ![r] = IF get[r].at = "block" THEN @ + 1 ELSE @]
    /\ UNCHANGED <<feedVars, loopVars, call, length, open, locked, listening,
                   queue, setBy, least>>

\* The rest of poll_next: the item is given and the next future made.  The
\* index is compared for equality with the end or the length of the moment.
PollNext(r) ==
    LET s == stream[r]
        last == IF s.end = None THEN length ELSE s.end
        atEnd == get[r].at = "block" /\ last = s.index + 1
        next == CASE get[r].at = "missing" -> "over"
                  [] get[r].at = "error" -> "failed"
                  [] atEnd /\ ~s.live -> "finished"
                  [] atEnd /\ s.live -> "subscribe"
                  [] OTHER -> "get" IN
    /\ s.at = "length" /\ (s.end = None => locked = None)
    /\ stream' = [stream EXCEPT ![r].at = next, ![r].index = @ + 1]
    /\ get' = [get EXCEPT ![r] = IF next = "get" THEN Get("call", s.index + 1)
                                                 ELSE Get("done", @.seq)]
    /\ given' = [given EXCEPT ![r] = IF get[r].at = "block" THEN @ + 1 ELSE @]
    /\ UNCHANGED <<feedVars, loopVars, call, length, open, locked, listening,
                   queue, setBy, least>>

StreamNext(r) ==
    StreamSubscribes(r) \/ TakeEvent(r) \/ FutureDone(r) \/ PollNext(r)

\* What a step of the core does to the ghost variable.
NoteLength ==
    least' = [r \in Readers |->
                 IF length' < least[r] THEN length' ELSE least[r]]

-----------------------------------------------------------------------------
(* Properties.                                                             *)

Ended(r) == stream[r].at \in {"finished", "over", "failed"}

\* A stream that ends without an error has given every block that was known
\* to the client all the time it ran, although the length it stops at moves
\* while it reads.  Only a length that is set back (by an answer applied
\* after a newer notification) cuts a stream short.  (poll_next, 77-96)
GivesAllKnown ==
    \A r \in Readers :
        LET s == stream[r] IN
        writable /\ s.at \in {"finished", "over"} /\ s.end = None
            => s.start + given[r] >= least[r]

\* A stream that is not live and starts before its end never asks for a block
\* past it.  (poll_next, stream.rs:86-94)
StaysBelowEnd ==
    \A r \in Readers :
        LET s == stream[r] IN
        s.at = "get" /\ s.end # None /\ s.start < s.end /\ ~s.live
            => s.index < s.end

\* What ends the wait of a stream is on its way to the client.
Coming(r) ==
    \E l \in Loops :
        \/ note[l] # NoNote /\ locked # l
              /\ EventOf(note[l]) \in {Appended, Download(stream[r].index)}
        \/ \E i \in DOMAIN events[l] :
              events[l][i] \in {Appended, Download(stream[r].index)}
=============================================================================

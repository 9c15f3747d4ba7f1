--------------------------- MODULE RemoteHypercore ---------------------------
(***************************************************************************)
(* One feed, as the server's rpc session and the client's RemoteHypercore  *)
(* share it (server/src/rpc/session.rs, client/src/session.rs): the        *)
(* requests open, append and get, the notify loops that tell the client of *)
(* appends and downloads, and the listeners of the RemoteHypercore.        *)
(*                                                                         *)
(* The RemoteHypercore is in `sessions' under its id (RemoteCorestore is   *)
(* about how it got there); several tasks may be opening it, and each open *)
(* starts a notify loop.  Requests are answered and notifications handled  *)
(* by tasks of their own, so they are applied in any order.  The feed      *)
(* (hypercore) is external: it is a length and the set of blocks it holds. *)
(* byte_length follows the length everywhere and has no variable.          *)
(***************************************************************************)
EXTENDS Naturals, Sequences, FiniteSets

CONSTANTS
    Loops,         \* the open requests, and the notify loops they start
    Appenders,     \* the client's calls of append
    Readers,       \* the client's streams
    MaxLen,        \* bound: length of the feed
    MaxBatch,      \* bound: blocks of one append
    ListenerSize,  \* InnerHypercore::subscribe's channel (100 in the code)
    None

ASSUME CoreAssumption ==
    /\ {MaxLen, MaxBatch, ListenerSize} \subseteq Nat
    /\ Loops \cap Appenders = {}
    /\ None \notin Loops

VARIABLES
    writable,   \* the server has the feed's secret key
    len, has,   \* the server's feed: its length and the blocks it holds
    loop,       \* notify loop -> "none", "spawned", "subscribed", "ended"
    events,     \* notify loop -> events of the feed it has not taken
    note,       \* notify loop -> the notification it waits for
    call,       \* open or append -> the request or its answer
    length,     \* InnerHypercore::length
    open,       \* InnerHypercore::open
    locked,     \* the notification whose emit holds the lock of `inner'
    listening,  \* the readers whose channel is among the listeners
    queue,      \* reader -> events in its channel
    get,        \* reader -> its get request, or the answer
    setBy       \* ghost: the loop that set `length' last, or None

feedVars == <<writable, len, has>>
loopVars == <<loop, events, note>>
coreVars == <<feedVars, loopVars, call, length, open, locked, listening, queue,
              get, setBy>>

Indexes == 0 .. MaxLen - 1

Event(type, n) == [type |-> type, n |-> n]
Appended == Event("append", 0)
Download(i) == Event("download", i)
FeedEvents == {Appended} \cup {Download(i) : i \in Indexes}

\* AppendEvent carries a length, DownloadEvent an index.
NoNote == Event("none", 0)
Notes == {NoNote} \cup {Event("append", n) : n \in 0 .. MaxLen}
            \cup {Download(i) : i \in Indexes}

Calls == [kind : {"none", "request", "opening", "answer", "error", "done"},
          n : Nat]
Call(kind, n) == [kind |-> kind, n |-> n]

\* get: "call" before RemoteHypercore::get has read the id, "sent" on its way.
Gets == [at : {"none", "call", "sent", "block", "missing", "error", "done"}, seq : Nat]
Get(at, seq) == [at |-> at, seq |-> seq]

CoreTypeOK ==
    /\ writable \in BOOLEAN /\ open \in BOOLEAN
    /\ len \in 0 .. MaxLen /\ length \in 0 .. MaxLen
    /\ has \in SUBSET Indexes
    /\ loop \in [Loops -> {"none", "spawned", "subscribed", "ended"}]
    /\ events \in [Loops -> Seq(FeedEvents)]
    /\ note \in [Loops -> Notes]
    /\ call \in [Loops \cup Appenders -> Calls]
    /\ locked \in Loops \cup {None}
    /\ listening \in SUBSET Readers
    /\ queue \in [Readers -> Seq(FeedEvents)]
    /\ get \in [Readers -> Gets]
    /\ setBy \in Loops \cup {None}

\* The opens are on their way.  A writable feed holds all its blocks; one
\* that is replicated may hold any.
CoreInit ==
    /\ writable \in BOOLEAN
    /\ len \in 0 .. MaxLen
    /\ has \in SUBSET (0 .. len - 1)
    /\ writable => has = 0 .. len - 1
    /\ loop = [l \in Loops |-> "none"]
    /\ events = [l \in Loops |-> <<>>]
    /\ note = [l \in Loops |-> NoNote]
    /\ call = [c \in Loops \cup Appenders |->
                  Call(IF c \in Loops THEN "request" ELSE "none", 0)]
    /\ length = 0
    /\ open = FALSE
    /\ locked = None
    /\ listening = {}
    /\ queue = [r \in Readers |-> <<>>]
    /\ get = [r \in Readers |-> Get("none", 0)]
    /\ setBy = None

-----------------------------------------------------------------------------
(* The server.                                                             *)

\* The feed's events reach the notify loops that have subscribed.
Publish(evs) ==
    events' = [l \in Loops |-> IF loop[l] = "subscribed" THEN events[l] \o evs
                                                         ELSE events[l]]

\* k blocks more, with an event for each, all under the feed's lock.
Grow(k) ==
    /\ len + k <= MaxLen
    /\ len' = len + k
    /\ has' = 0 .. len + k - 1
    /\ Publish([i \in 1 .. k |-> Appended])
    /\ UNCHANGED <<writable, loop, note>>

\* Session::open: the loop is spawned, and subscribes when it first runs ...
SpawnLoop(l) ==
    /\ call[l].kind = "request"
    /\ call' = [call EXCEPT ![l].kind = "opening"]
    /\ loop' = [loop EXCEPT ![l] = "spawned"]
    /\ UNCHANGED <<feedVars, events, note, length, open, locked, listening,
                   queue, get, setBy>>

\* ... before or after the answer reads the length.
AnswerOpen(l) ==
    /\ call[l].kind = "opening"
    /\ call' = [call EXCEPT ![l] = Call("answer", len)]
    /\ UNCHANGED <<feedVars, loopVars, length, open, locked, listening, queue,
                   get, setBy>>

\* Session::append: block by block; the first error ends the request, and the
\* blocks before it stay.
ServeAppend(a) ==
    LET n == call[a].n IN
    /\ a \in Appenders /\ call[a].kind = "request"
    /\ \/ /\ writable
          /\ Grow(n)
          /\ call' = [call EXCEPT ![a] = Call("answer", len + n)]
       \/ /\ writable /\ \E k \in 0 .. n - 1 : Grow(k)
          /\ call' = [call EXCEPT ![a] = Call("error", 0)]
       \/ /\ ~writable /\ UNCHANGED <<feedVars, loopVars>>
          /\ call' = [call EXCEPT ![a] = Call("error", 0)]
    /\ UNCHANGED <<length, open, locked, listening, queue, get, setBy>>

\* An append by another client.
OthersAppend ==
    /\ writable
    /\ Grow(1)
    /\ UNCHANGED <<call, length, open, locked, listening, queue, get, setBy>>

\* A block arrives from a peer, with a proof of a length (Peer's OnData).
Downloaded(i) ==
    /\ ~writable /\ i \notin has
    /\ has' = has \cup {i}
    /\ len' \in {n \in len .. MaxLen : n > i}
    /\ Publish(<<Download(i)>>)
    /\ UNCHANGED <<writable, loop, note, call, length, open, locked, listening,
                   queue, get, setBy>>

\* notify_loop: subscribe ...
LoopSubscribes(l) ==
    /\ loop[l] = "spawned"
    /\ loop' = [loop EXCEPT ![l] = "subscribed"]
    /\ UNCHANGED <<feedVars, events, note, call, length, open, locked,
                   listening, queue, get, setBy>>

\* ... then for each event one notification, with the length of the feed at
\* that time; the next waits until the client has answered it.
Notify(l) ==
    /\ note[l] = NoNote /\ events[l] # <<>>
    /\ events' = [events EXCEPT ![l] = Tail(@)]
    /\ note' = [note EXCEPT ![l] = IF Head(events[l]) = Appended
                                   THEN Event("append", len)
                                   ELSE Head(events[l])]
    /\ UNCHANGED <<feedVars, loop, call, length, open, locked, listening,
                   queue, get, setBy>>

\* An error of that call ends the loop: the client may have been told or not,
\* and what the feed does from then on stays untold.
NotifyFails(l) ==
    /\ loop[l] = "subscribed" /\ note[l] # NoNote
    /\ loop' = [loop EXCEPT ![l] = "ended"]
    /\ events' = [events EXCEPT ![l] = <<>>]
    /\ \/ UNCHANGED note
       \/ locked # l /\ note' = [note EXCEPT ![l] = NoNote]
    /\ UNCHANGED <<feedVars, call, length, open, locked, listening, queue, get,
                   setBy>>

\* Session::get: a block the feed does not hold is an answer without one.
ServeGet(r) ==
    /\ get[r].at = "sent"
    /\ get' = [get EXCEPT ![r].at = IF get[r].seq \in has THEN "block"
                                                          ELSE "missing"]
    /\ UNCHANGED <<feedVars, loopVars, call, length, open, locked, listening,
                   queue, setBy>>

GetFails(r) ==
    /\ get[r].at = "sent"
    /\ get' = [get EXCEPT ![r].at = "error"]
    /\ UNCHANGED <<feedVars, loopVars, call, length, open, locked, listening,
                   queue, setBy>>

-----------------------------------------------------------------------------
(* The client.                                                             *)

\* RemoteHypercore::open has its answer.
OpenReturns(l) ==
    /\ l \in Loops /\ call[l].kind = "answer" /\ locked = None
    /\ length' = call[l].n
    /\ open' = TRUE
    /\ setBy' = None
    /\ call' = [call EXCEPT ![l] = Call("done", 0)]
    /\ UNCHANGED <<feedVars, loopVars, locked, listening, queue, get>>

AppendCalled(a, n) ==
    /\ open /\ locked = None
    /\ a \in Appenders /\ call[a].kind = "none"
    /\ call' = [call EXCEPT ![a] = Call("request", n)]
    /\ UNCHANGED <<feedVars, loopVars, length, open, locked, listening, queue,
                   get, setBy>>

AppendReturns(a) ==
    /\ a \in Appenders
    /\ \/ /\ call[a].kind = "answer" /\ locked = None
          /\ length' = call[a].n
          /\ setBy' = None
       \/ /\ call[a].kind = "error"
          /\ UNCHANGED <<length, setBy>>
    /\ call' = [call EXCEPT ![a] = Call("done", 0)]
    /\ UNCHANGED <<feedVars, loopVars, open, locked, listening, queue, get>>

\* Mutant of LengthAfter: each Append counts as one block more.
LengthAfterCounts(m) ==
    IF m.type = "append" THEN length + 1
    ELSE IF m.n >= length THEN m.n + 1 ELSE length

\* What on_append and on_download do to the length.
LengthAfter(m) ==
    IF m.type = "append" THEN m.n
    ELSE IF m.n >= length THEN m.n + 1 ELSE length

\* The event a notification is passed on to the listeners as.
EventOf(m) == IF m.type = "append" THEN Appended ELSE m

\* Mutant of Handle: the lock is not held while the listeners are sent to.
HandleUnlocked(l) ==
    /\ note[l] # NoNote
    /\ length' = LengthAfter(note[l])
    /\ setBy' = l
    /\ queue' = [r \in Readers |-> IF r \in listening
                                   THEN Append(queue[r], EventOf(note[l]))
                                   ELSE queue[r]]
    /\ note' = [note EXCEPT ![l] = NoNote]
    /\ UNCHANGED <<feedVars, loop, events, call, open, locked, listening, get>>

\* on_append and on_download: the length is set and the event sent to every
\* listener.  `send' puts it into the channel and then waits while there are
\* more than ListenerSize in it; the write lock is held until all have room.
Handle(l) ==
    /\ note[l] # NoNote /\ locked = None
    /\ length' = LengthAfter(note[l])
    /\ setBy' = l
    /\ queue' = [r \in Readers |-> IF r \in listening
                                   THEN Append(queue[r], EventOf(note[l]))
                                   ELSE queue[r]]
    /\ \/ /\ \A r \in listening : Len(queue[r]) < ListenerSize
          /\ note' = [note EXCEPT ![l] = NoNote]
          /\ UNCHANGED locked
       \/ /\ \E r \in listening : Len(queue[r]) >= ListenerSize
          /\ locked' = l
          /\ UNCHANGED note
    /\ UNCHANGED <<feedVars, loop, events, call, open, listening, get>>

HasRoom(r) == Len(queue[r]) <= ListenerSize

Unlock(l) ==
    /\ locked = l /\ \A r \in listening : HasRoom(r)
    /\ locked' = None
    /\ note' = [note EXCEPT ![l] = NoNote]
    /\ UNCHANGED <<feedVars, loop, events, call, length, open, listening, queue,
                   get, setBy>>

\* RemoteHypercore::get reads the id and sends the request.
SendGet(r) ==
    /\ get[r].at = "call" /\ locked = None
    /\ get' = [get EXCEPT ![r].at = "sent"]
    /\ UNCHANGED <<feedVars, loopVars, call, length, open, locked, listening,
                   queue, setBy>>

CoreNext ==
    \/ OthersAppend
    \/ \E i \in Indexes : Downloaded(i)
    \/ \E l \in Loops :
          \/ SpawnLoop(l) \/ AnswerOpen(l) \/ OpenReturns(l)
          \/ LoopSubscribes(l) \/ Notify(l) \/ NotifyFails(l)
          \/ Handle(l) \/ Unlock(l)
    \/ \E a \in Appenders :
          \/ \E n \in 1 .. MaxBatch : AppendCalled(a, n)
          \/ ServeAppend(a) \/ AppendReturns(a)
    \/ \E r \in Readers : SendGet(r) \/ ServeGet(r) \/ GetFails(r)

-----------------------------------------------------------------------------
(* Properties.                                                             *)

\* The client never believes the feed to be longer than it is, although
\* answers and notifications overtake each other on their way.
\* (open, append, on_append and on_download, session.rs:156-157, 224-248)
KnownLength == length <= len

\* When a notify loop that still runs set the length last and has nothing more
\* to tell, the length is that of the (writable) feed: no batch and no event
\* whose length is read late leaves an old length behind.  An answer that is
\* applied late may (setBy is None then), and so may another loop while this
\* one still has something to tell.  (notify_loop, rpc/session.rs:107-140)
QuietLength ==
    \A l \in Loops :
        writable /\ setBy = l /\ loop[l] = "subscribed" /\ events[l] = <<>>
        /\ note[l] = NoNote => length = len

\* The channel of a listener holds at most one event above its size, and
\* only while the lock is held by the notification that sent it: sending
\* under the lock keeps the others away.  (emit, session.rs:289-292)
ListenersBounded ==
    \A r \in Readers :
        /\ Len(queue[r]) <= ListenerSize + 1
        /\ ~HasRoom(r) => locked # None
=============================================================================

--------------------------- MODULE RemoteCorestore ---------------------------
(***************************************************************************)
(* client/src/session.rs and server/src/rpc/session.rs: how the tasks of   *)
(* one client program open feeds on the server, and under which ids the    *)
(* two ends talk about them afterwards.                                    *)
(*                                                                         *)
(* Each task makes one call of open_by_key or open_by_name on its clone of *)
(* the RemoteCorestore, all of which share `sessions', and then appends    *)
(* once through the RemoteHypercore it was given.  A RemoteHypercore is    *)
(* known by the task that created it.  The tasks run on several threads,   *)
(* so they interleave wherever a lock is released.                         *)
(*                                                                         *)
(*   pc = "start"     nothing called yet                                   *)
(*   pc = "missed"    the name was not among the sessions                  *)
(*   pc = "inserted"  a new RemoteHypercore is in `sessions'; set_id next  *)
(*   pc = "open"      RemoteHypercore::open is called                      *)
(*   pc = "ask"       ... has seen that the feed is not open               *)
(*   pc = "wait"      ... waits for the server's answer                    *)
(*   pc = "opened"    ... has returned Ok                                  *)
(*   pc = "returned"  the call has returned a RemoteHypercore              *)
(*   pc = "append"    RemoteHypercore::append waits for its answer         *)
(*   pc = "appended", "failed"                                             *)
(***************************************************************************)
EXTENDS NamedMap

CONSTANTS
    Tasks,        \* the client's tasks
    Names,        \* names of feeds
    ForeignKeys,  \* public keys of feeds that have no name on this server
    None          \* Option::None

\* The public key of the feed the server's corestore keeps under a name.
NameKey(name) == [name |-> name]

Keys == {NameKey(n) : n \in Names} \cup ForeignKeys

\* hex::encode; names and encoded keys are keys of the same map.
Hex(key) == [hex |-> key]

ASSUME StringAssumption == \A k \in Keys : Hex(k) \notin Names
ASSUME NoneAssumption == None \notin Names \cup Keys

VARIABLES
    pc,     \* task -> where it is
    ask,    \* task -> the call it makes
    core,   \* task -> the RemoteHypercore it works with
    inner,  \* RemoteHypercore -> InnerHypercore
    msg,    \* task -> the request it has sent, or the answer to it
    cores,  \* Session::cores: id -> public key of the feed
    loops   \* the server's notify loops, with the task they were started for

clientVars == <<namedMapVars, pc, ask, core, inner>>
serverVars == <<cores, loops>>
vars == <<clientVars, msg, serverVars>>

Asks == [kind : {"name"}, arg : Names] \cup [kind : {"key"}, arg : Keys]

NoAsk == [kind |-> "none", arg |-> None]

\* The string a call looks for among the sessions.
Label(a) == IF a.kind = "name" THEN a.arg ELSE Hex(a.arg)

\* The feed a call asks for.
KeyOf(a) == IF a.kind = "name" THEN NameKey(a.arg) ELSE a.arg

Msg(kind, id, name, key) ==
    [kind |-> kind, id |-> id, name |-> name, key |-> key]

NoMsg == Msg("none", 0, None, None)

\* Names and encoded keys.
Labels == Names \cup {Hex(k) : k \in Keys}

MsgKinds == {"none", "open", "ok", "error", "append"}

Closed(name, key) == [id |-> 0, name |-> name, key |-> key, open |-> FALSE]

Stages == {"start", "missed", "inserted", "open", "ask", "wait", "opened",
           "returned", "append", "appended", "failed"}

InnerHypercore == [id : Nat, name : Names \cup {None}, key : Keys \cup {None},
                   open : BOOLEAN]

Messages == [kind : MsgKinds, id : Nat, name : Names \cup {None},
             key : Keys \cup {None}]

TypeOK ==
    /\ IsMap(map, Nat \ {0}, Tasks)
    /\ IsMap(name_id, Labels, Nat \ {0})
    /\ IsMap(id_name, Nat \ {0}, Seq(Labels))
    /\ pc \in [Tasks -> Stages]
    /\ ask \in [Tasks -> Asks \cup {NoAsk}]
    /\ core \in [Tasks -> Tasks]
    /\ inner \in [Tasks -> InnerHypercore]
    /\ msg \in [Tasks -> Messages]
    /\ IsMap(cores, Nat, Keys)
    /\ loops \subseteq [by : Tasks, id : Nat, key : Keys]

Init ==
    /\ InitNamedMap
    /\ pc = [t \in Tasks |-> "start"]
    /\ ask = [t \in Tasks |-> NoAsk]
    /\ core = [t \in Tasks |-> t]
    /\ inner = [t \in Tasks |-> Closed(None, None)]
    /\ msg = [t \in Tasks |-> NoMsg]
    /\ cores = EmptyMap
    /\ loops = {}

Goto(t, from, to) == pc[t] = from /\ pc' = [pc EXCEPT ![t] = to]

-----------------------------------------------------------------------------
(* open_by_key and open_by_name.                                           *)

\* sessions.get_by_name
Lookup(t, a) ==
    /\ ask' = [ask EXCEPT ![t] = a]
    /\ \/ /\ HasName(Label(a))
          /\ Goto(t, "start", "open")
          /\ core' = [core EXCEPT ![t] = GetByName(Label(a))]
       \/ /\ ~HasName(Label(a))
          /\ Goto(t, "start", "missed")
          /\ UNCHANGED core
    /\ UNCHANGED <<namedMapVars, inner, msg, serverVars>>

\* RemoteHypercore::new and sessions.insert_with_name.  The lock was free
\* since the lookup: another task may have inserted the same name.
Insert(t) ==
    /\ Goto(t, "missed", "inserted")
    /\ inner' = [inner EXCEPT ![t] =
          IF ask[t].kind = "name" THEN Closed(ask[t].arg, None)
                                  ELSE Closed(None, ask[t].arg)]
    /\ InsertWithName(t, Label(ask[t]))
    /\ UNCHANGED <<ask, core, msg, serverVars>>

\* The id insert_with_name returned, which the task keeps in a variable.
IdOf(t) == CHOOSE i \in DOMAIN map : map[i] = t

SetId(t) ==
    /\ Goto(t, "inserted", "open")
    /\ inner' = [inner EXCEPT ![t].id = IdOf(t)]
    /\ UNCHANGED <<namedMapVars, ask, core, msg, serverVars>>

\* Mutant of Return: the key is filed under the id of another session.
ReturnNamesFirst(t) ==
    /\ Goto(t, "opened", "returned")
    /\ \/ /\ ask[t].kind = "name" /\ core[t] = t
          /\ SetName(1, Hex(inner[t].key))
          /\ UNCHANGED map
       \/ /\ ~(ask[t].kind = "name" /\ core[t] = t)
          /\ UNCHANGED namedMapVars
    /\ UNCHANGED <<ask, core, inner, msg, serverVars>>

\* A feed opened by name is filed under its key too, by the call that
\* created the session.
Return(t) ==
    /\ Goto(t, "opened", "returned")
    /\ \/ /\ ask[t].kind = "name" /\ core[t] = t
          /\ SetName(IdOf(t), Hex(inner[t].key))
          /\ UNCHANGED map
       \/ /\ ~(ask[t].kind = "name" /\ core[t] = t)
          /\ UNCHANGED namedMapVars
    /\ UNCHANGED <<ask, core, inner, msg, serverVars>>

-----------------------------------------------------------------------------
(* RemoteHypercore::open, and the server's answer.                         *)

IsOpen(t) ==
    /\ \/ inner[core[t]].open /\ Goto(t, "open", "opened")
       \/ ~inner[core[t]].open /\ Goto(t, "open", "ask")
    /\ UNCHANGED <<namedMapVars, ask, core, inner, msg, serverVars>>

SendOpen(t) ==
    LET i == inner[core[t]] IN
    /\ Goto(t, "ask", "wait")
    /\ msg' = [msg EXCEPT ![t] = Msg("open", i.id, i.name, i.key)]
    /\ UNCHANGED <<namedMapVars, ask, core, inner, serverVars>>

\* The feed the server gets from its corestore: by name if there is one.
Wanted(m) == IF m.name # None THEN NameKey(m.name) ELSE m.key

\* Session::open: the corestore may fail; otherwise a notify loop is started
\* and the id is entered in the table, over the entry it may have had.
ServeOpen(t) ==
    LET m == msg[t] IN
    /\ m.kind = "open"
    /\ \/ /\ msg' = [msg EXCEPT ![t] = Msg("ok", 0, None, Wanted(m))]
          /\ loops' = loops \cup {[by |-> t, id |-> m.id, key |-> Wanted(m)]}
          /\ cores' = MapInsert(cores, m.id, Wanted(m))
       \/ /\ msg' = [msg EXCEPT ![t] = Msg("error", 0, None, None)]
          /\ UNCHANGED serverVars
    /\ UNCHANGED clientVars

\* Mutant of OpenAnswered: the feed counts as open after an error too.
OpenAnsweredAnyway(t) ==
    /\ msg[t].kind \in {"ok", "error"}
    /\ Goto(t, "wait", IF msg[t].kind = "ok" THEN "opened" ELSE "failed")
    /\ inner' = [inner EXCEPT ![core[t]].key =
                                 IF msg[t].kind = "ok" THEN msg[t].key ELSE @,
                              ![core[t]].open = TRUE]
    /\ msg' = [msg EXCEPT ![t] = NoMsg]
    /\ UNCHANGED <<namedMapVars, ask, core, serverVars>>

\* The answer is applied, or the error returned to the caller; the session
\* stays in the map, to be opened by the next call that finds it.
OpenAnswered(t) ==
    /\ \/ /\ msg[t].kind = "ok"
          /\ Goto(t, "wait", "opened")
          /\ inner' = [inner EXCEPT ![core[t]].key = msg[t].key,
                                    ![core[t]].open = TRUE]
       \/ /\ msg[t].kind = "error"
          /\ Goto(t, "wait", "failed")
          /\ UNCHANGED inner
    /\ msg' = [msg EXCEPT ![t] = NoMsg]
    /\ UNCHANGED <<namedMapVars, ask, core, serverVars>>

-----------------------------------------------------------------------------
(* RemoteHypercore::append, as an example of a request for an open feed.   *)

SendAppend(t) ==
    /\ Goto(t, "returned", "append")
    /\ msg' = [msg EXCEPT ![t] = Msg("append", inner[core[t]].id, None, None)]
    /\ UNCHANGED <<namedMapVars, ask, core, inner, serverVars>>

\* The answer names the feed that was appended to; an id that is not in the
\* table is an error ("Bad ID").
ServeAppend(t) ==
    LET id == msg[t].id IN
    /\ msg[t].kind = "append"
    /\ msg' = [msg EXCEPT ![t] =
          IF id \in DOMAIN cores THEN Msg("ok", 0, None, cores[id])
                                 ELSE Msg("error", 0, None, None)]
    /\ UNCHANGED <<clientVars, serverVars>>

AppendAnswered(t) ==
    /\ msg[t].kind \in {"ok", "error"}
    /\ Goto(t, "append", "appended")
    /\ UNCHANGED <<namedMapVars, ask, core, inner, msg, serverVars>>

-----------------------------------------------------------------------------
\* on_append and on_download: the RemoteHypercore that a notification of the
\* loop l is passed on to, if its id is one of the sessions'.
Reached(l) == {map[i] : i \in DOMAIN map \cap {l.id}}

Next ==
    \E t \in Tasks :
        \/ \E a \in Asks : Lookup(t, a)
        \/ Insert(t) \/ SetId(t) \/ Return(t)
        \/ IsOpen(t) \/ SendOpen(t) \/ ServeOpen(t) \/ OpenAnswered(t)
        \/ SendAppend(t) \/ ServeAppend(t) \/ AppendAnswered(t)

Spec == Init /\ [][Next]_vars

-----------------------------------------------------------------------------
(* Properties.                                                             *)

\* The feed a RemoteHypercore stands for.
FeedOf(c) ==
    IF inner[c].name # None THEN NameKey(inner[c].name) ELSE inner[c].key

\* Some task found c in the sessions before its id was set, and opened it on
\* the server under the id 0 (between session.rs:52 and 53, or 65 and 66).
OpenedAsZero(c) == \E l \in loops : core[l.by] = c /\ l.id = 0

\* A call returns an open RemoteHypercore of the feed that was asked for,
\* although sessions are found under names and keys given to them by other
\* calls, are shared while they are being opened, and are opened again after
\* a failure.  (open_by_key and open_by_name, session.rs:45-75)
ReturnsRightFeed ==
    \A t \in Tasks :
        pc[t] \in {"returned", "append", "appended"} =>
            inner[core[t]].open /\ inner[core[t]].key = KeyOf(ask[t])

\* A notification reaches a RemoteHypercore of the feed it is about, or none:
\* the ids of the client and the loops of the server never get crossed.
\* (on_append and on_download, session.rs:79-92; notify_loop, rpc/session.rs)
NotifiesRightFeed ==
    \A l \in loops : \A c \in Reached(l) : FeedOf(c) = l.key

\* An append through a RemoteHypercore reaches its feed, never another one
\* and never "Bad ID", unless it was opened under the id 0 by a task that
\* overtook the one that created it.  (append, session.rs:145-160)
AppendsToRightFeed ==
    \A t \in Tasks :
        pc[t] = "appended" =>
            \/ msg[t].kind = "ok" /\ msg[t].key = KeyOf(ask[t])
            \/ OpenedAsZero(core[t])

-----------------------------------------------------------------------------
(* The inductive invariant behind the properties.                          *)

\* The task works with a RemoteHypercore that is among the sessions.
HasCore(t) == pc[t] \notin {"start", "missed"}

Session(c) == \E i \in DOMAIN map : map[i] = c

\* Some task has opened c on the server.
Served(c) == \E l \in loops : core[l.by] = c

\* Ids are consecutive and each session has one; the entry of a session under
\* a name or key is the feed of that name or key.
SessionsSound ==
    /\ IsFiniteSet(DOMAIN map)
    /\ DOMAIN map = 1 .. NextId - 1
    /\ \A i, j \in DOMAIN map : map[i] = map[j] => i = j
    /\ \A i \in DOMAIN map : HasCore(map[i]) /\ core[map[i]] = map[i]
    /\ \A s \in DOMAIN name_id :
          /\ name_id[s] \in DOMAIN map
          /\ \A a \in Asks :
                Label(a) = s => KeyOf(a) = KeyOf(ask[map[name_id[s]]])

\* A RemoteHypercore is of the feed its creator asked for, and has no id or
\* its own.
CoresSound ==
    \A i \in DOMAIN map :
        LET c == map[i] IN
        /\ inner[c].name = IF ask[c].kind = "name" THEN ask[c].arg ELSE None
        /\ \/ inner[c].key = KeyOf(ask[c])
           \/ inner[c].key = None /\ ask[c].kind = "name" /\ ~inner[c].open
        /\ inner[c].id \in {0, i}
        /\ inner[c].open => Served(c)

\* What a task has sent or received is about the feed it asked for.
TaskSound(t) ==
    /\ pc[t] # "start" => ask[t] \in Asks
    /\ pc[t] \in {"start", "missed", "inserted"} => core[t] = t
    /\ HasCore(t) => Session(core[t]) /\ KeyOf(ask[core[t]]) = KeyOf(ask[t])
    /\ pc[t] \in {"opened", "returned", "append", "appended"} =>
          inner[core[t]].open
    /\ msg[t].kind = "open" =>
          /\ pc[t] = "wait" /\ Wanted(msg[t]) = KeyOf(ask[t])
          /\ msg[t].id \in {0, inner[core[t]].id}
    /\ pc[t] = "wait" /\ msg[t].kind = "ok" =>
          msg[t].key = KeyOf(ask[t]) /\ Served(core[t])
    /\ msg[t].kind = "append" =>
          /\ pc[t] = "append"
          /\ \/ OpenedAsZero(core[t])
             \/ msg[t].id = inner[core[t]].id /\ msg[t].id \in DOMAIN cores \ {0}
    /\ pc[t] \in {"append", "appended"} /\ msg[t].kind # "append" =>
          \/ OpenedAsZero(core[t])
          \/ msg[t].kind = "ok" /\ msg[t].key = KeyOf(ask[t])

TasksSound == \A t \in Tasks : TaskSound(t)

\* The server's ids, except for 0, are those of the sessions.
ServerSound ==
    /\ \A l \in loops :
          /\ HasCore(l.by) /\ l.key = KeyOf(ask[l.by])
          /\ l.id \in DOMAIN cores
          /\ l.id # 0 => l.id = inner[core[l.by]].id
    /\ \A i \in DOMAIN cores \ {0} : i \in DOMAIN map /\ cores[i] = KeyOf(ask[map[i]])

\* Whatever the tasks' interleaving, the names, ids and messages of the two
\* ends stay about the feeds the tasks asked for.
\* (session.rs:45-92, 146-160, 210-231; rpc/session.rs:78-105, 142-177)
SessionsInv ==
    TypeOK /\ SessionsSound /\ CoresSound /\ TasksSound /\ ServerSound
=============================================================================

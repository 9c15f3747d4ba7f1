---------------------------- MODULE DaemonProofs ----------------------------
(***************************************************************************)
(* TypeOK and TaskInv are inductive together, for any set of feeds, any    *)
(* channel size and any number of lookups.                                 *)
(***************************************************************************)
EXTENDS Daemon, TLAPS

LEMMA EventTypes ==
    ASSUME NEW f \in Feeds
    PROVE  FeedEvent(f) \in ReplicatorEvents /\ DkeyEvent(f) \in ReplicatorEvents
BY DEF ReplicatorEvents

LEMMA EventFeed ==
    ASSUME NEW e \in ReplicatorEvents
    PROVE  e.feed \in Feeds
BY DEF ReplicatorEvents, FeedEvent, DkeyEvent

\* Replicator::emit keeps the types of the channels.
LEMMA EmitType ==
    ASSUME TypeOK, NEW e \in ReplicatorEvents, Emit(e)
    PROVE  repEvents' \in Seq(ReplicatorEvents) /\ netEvents' \in Seq(ReplicatorEvents)
BY DEF TypeOK, Emit

LEMMA OpenFeedType ==
    ASSUME TypeOK, NEW f \in Feeds, NEW h \in {"client", "task"}, OpenFeed(f, h)
    PROVE  /\ onDisk' \in SUBSET Feeds
           /\ opened' \in SUBSET onDisk'
           /\ lock' \in {"free", "client", "task", "iter"}
           /\ storeSub' \in BOOLEAN
           /\ storeEvents' \in Seq(Feeds)
           /\ late' \in SUBSET opened'
BY DEF TypeOK, OpenFeed

LEMMA TypeStep ==
    ASSUME TypeOK, TaskInv, [Next]_vars
    PROVE  TypeOK'
<1> USE DEF storeVars, taskVars, lockVars, repVars, netVars
<1>1. CASE UNCHANGED vars
    BY <1>1 DEF vars, TypeOK
<1>2. ASSUME NEW f \in Feeds, ClientOpens(f)
      PROVE  TypeOK'
    BY <1>2, OpenFeedType DEF ClientOpens, TypeOK
<1>3. ASSUME NEW f \in Feeds, RemoteAsks(f)
      PROVE  TypeOK'
  <2>1. repEvents' \in Seq(ReplicatorEvents) /\ netEvents' \in Seq(ReplicatorEvents)
    BY <1>3, EmitType, EventTypes DEF RemoteAsks
  <2>2. asks' \in 0 .. MaxAsks
    BY <1>3, DaemonAssumption DEF RemoteAsks, TypeOK
  <2> QED  BY <1>3, <2>1, <2>2 DEF RemoteAsks, TypeOK
<1>4. CASE ClientDone
    BY <1>4 DEF ClientDone, Unlock, TypeOK
<1>5. CASE IterBegin
    BY <1>5 DEF IterBegin, TypeOK
<1>6. CASE IterAdd \/ AddFeedKey
    BY <1>6 DEF IterAdd, AddFeedKey, TypeOK
<1>7. CASE IterEnd
    BY <1>7 DEF IterEnd, Unlock, TypeOK
<1>8. CASE SubscribeStore
    BY <1>8 DEF SubscribeStore, TypeOK
<1>9. CASE SubscribeReplicator
    BY <1>9 DEF SubscribeReplicator, TypeOK
<1>10. CASE OnFeed
  <2>1. Head(storeEvents) \in Feeds /\ storeEvents' \in Seq(Feeds)
    BY <1>10 DEF OnFeed, TypeOK
  <2> QED  BY <1>10, <2>1, SMTT(20) DEF OnFeed, TypeOK
<1>11. CASE OnReplicatorEvent
  <2>1. Head(repEvents) \in ReplicatorEvents /\ repEvents' \in Seq(ReplicatorEvents)
    BY <1>11 DEF OnReplicatorEvent, TypeOK
  <2>2. Head(repEvents).feed \in Feeds
    BY <2>1, EventFeed
  <2> QED  BY <1>11, <2>1, <2>2 DEF OnReplicatorEvent, TypeOK
<1>12. CASE DkeyNothing
    BY <1>12 DEF DkeyNothing, TypeOK
<1>13. CASE DkeyOpens
    BY <1>13, OpenFeedType DEF DkeyOpens, TypeOK
<1>14. CASE DkeyDone
    BY <1>14 DEF DkeyDone, Unlock, TypeOK
<1>15. CASE NetSubscribe
    BY <1>15 DEF NetSubscribe, TypeOK
<1>16. CASE NetEvent
  <2>1. Head(netEvents) \in ReplicatorEvents /\ netEvents' \in Seq(ReplicatorEvents)
    BY <1>16 DEF NetEvent, TypeOK
  <2>2. Head(netEvents).feed \in Feeds
    BY <2>1, EventFeed
  <2> QED  BY <1>16, <2>1, <2>2 DEF NetEvent, TypeOK
<1>17. CASE AddFeed
  <2>1. adding \in Feeds
    BY <1>17, Zenon DEF AddFeed, TaskInv, TypeOK
  <2>2. repEvents' \in Seq(ReplicatorEvents) /\ netEvents' \in Seq(ReplicatorEvents)
    BY <1>17, <2>1, EmitType, EventTypes, Zenon DEF AddFeed
  <2>3. feeds' \in SUBSET Feeds /\ adds' \in [Feeds -> Nat]
    BY <1>17, <2>1 DEF AddFeed, TypeOK
  <2> QED  BY <1>17, <2>2, <2>3 DEF AddFeed, TypeOK
<1>18. CASE Locking
  <2>1. /\ held' \in SUBSET Feeds /\ greeting' \in BOOLEAN /\ toOpen' \in SUBSET Feeds
        /\ UNCHANGED <<storeVars, taskVars, repVars, netVars, asks>>
    BY <1>18
    DEF Locking, LockFeed, UnlockFeed, HandshakeBegin, HandshakeOpen, HandshakeEnd,
        TypeOK
  <2> QED  BY <2>1 DEF TypeOK
<1> QED
    BY <1>1, <1>2, <1>3, <1>4, <1>5, <1>6, <1>7, <1>8, <1>9, <1>10, <1>11,
       <1>12, <1>13, <1>14, <1>15, <1>16, <1>17, <1>18, Zenon
    DEF Next, ReplicateTask, NetworkTask

-----------------------------------------------------------------------------
\* A step that leaves the way of the feeds alone keeps the invariant.
LEMMA ElsewhereStep ==
    ASSUME TaskInv,
           UNCHANGED <<opened, storeSub, storeEvents, late, feeds, adds, todo, adding>>,
           \/ pc' = pc
           \/ pc = "key" /\ pc' = "insert"
           \/ pc \in {"subscribe_rep", "loop", "dkey"} /\ pc' \in {"loop", "dkey"}
    PROVE  TaskInv'
BY DEF TaskInv, LateFeedsKept

LEMMA NoneNoFeed == \A f \in Feeds : f # None
BY DaemonAssumption, Zenon

LEMMA OpenFeedInv ==
    ASSUME TypeOK, TaskInv, NEW f \in Feeds, NEW h, f \notin opened, OpenFeed(f, h),
           UNCHANGED <<pc, todo, adding, feeds, adds>>
    PROVE  TaskInv'
<1>0. opened' = opened \cup {f} /\ storeSub' = storeSub
    BY DEF OpenFeed
<1>1. CASE ~storeSub
    BY <1>0, <1>1 DEF OpenFeed, TaskInv, LateFeedsKept
<1>2. CASE storeSub
  <2> DEFINE n == Len(storeEvents)
  <2>1. /\ n \in Nat
        /\ DOMAIN storeEvents = 1 .. n
        /\ DOMAIN storeEvents' = 1 .. n + 1
        /\ storeEvents'[n + 1] = f
        /\ \A i \in 1 .. n : storeEvents'[i] = storeEvents[i]
        /\ late' = late \cup {f}
    BY <1>2 DEF OpenFeed, TypeOK
  <2>2. \A i \in 1 .. n + 1 : i \in 1 .. n \/ i = n + 1
    BY <2>1
  <2>3. /\ 1 .. n \subseteq 1 .. n + 1 /\ n + 1 \in 1 .. n + 1
    BY <2>1
  <2> HIDE DEF n
  <2>0. f \notin feeds \cup todo \cup {adding}
    BY NoneNoFeed DEF TaskInv
  <2>4. \A i \in DOMAIN storeEvents' :
            storeEvents'[i] \in opened' \ (feeds' \cup todo' \cup {adding'})
    BY <1>0, <2>0, <2>1, <2>2 DEF TaskInv
  <2>5. \A i \in 1 .. n : storeEvents[i] # f
    BY <2>1 DEF TaskInv
  <2>6. \A i, j \in DOMAIN storeEvents' : storeEvents'[i] = storeEvents'[j] => i = j
    BY <2>1, <2>2, <2>5 DEF TaskInv
  <2>7. LateFeedsKept'
    BY <2>1, <2>3 DEF TaskInv, LateFeedsKept
  <2> QED  BY <1>0, <1>2, <2>4, <2>6, <2>7 DEF TaskInv
<1> QED  BY <1>1, <1>2

LEMMA IterAddInv ==
    ASSUME TypeOK, TaskInv, IterAdd
    PROVE  TaskInv'
<1>1. /\ UNCHANGED <<opened, storeSub, storeEvents, late, feeds, adds>>
      /\ pc = "iter" /\ pc' = "key"
      /\ adding' \in todo /\ todo' = todo \ {adding'}
    BY DEF IterAdd, storeVars, repVars
<1>2. /\ adding' \in opened \ feeds /\ adding' # None /\ adding = None
      /\ ~storeSub /\ storeEvents = <<>>
    BY <1>1, NoneNoFeed DEF TaskInv, TypeOK
<1>3. LateFeedsKept'
    BY <1>1, <1>2, NoneNoFeed DEF TaskInv, LateFeedsKept, TypeOK
<1> QED  BY <1>1, <1>2, <1>3 DEF TaskInv

LEMMA AddFeedInv ==
    ASSUME TypeOK, TaskInv, AddFeed
    PROVE  TaskInv'
<1>1. /\ UNCHANGED <<opened, storeSub, storeEvents, late, todo>>
      /\ pc = "insert" /\ pc' = IF storeSub THEN "loop" ELSE "iter"
      /\ feeds' = feeds \cup {adding} /\ adding' = None
    BY DEF AddFeed, storeVars
<1>2. adding \in Feeds /\ adding \in opened /\ adding \notin feeds \cup todo
    BY <1>1 DEF TaskInv, TypeOK
<1>3. \A g \in Feeds : adds'[g] = IF g \in feeds' THEN 1 ELSE 0
    BY <1>2 DEF AddFeed, TaskInv, TypeOK
<1>4. \A i \in DOMAIN storeEvents' :
          storeEvents'[i] \in opened' \ (feeds' \cup todo' \cup {adding'})
  <2>1. \A i \in DOMAIN storeEvents : storeEvents[i] \in Feeds
    BY DEF TypeOK
  <2> QED  BY <1>1, <2>1, NoneNoFeed DEF TaskInv
<1>5. LateFeedsKept'
    BY <1>1 DEF TaskInv, LateFeedsKept
<1> QED  BY <1>1, <1>2, <1>3, <1>4, <1>5 DEF TaskInv

LEMMA OnFeedInv ==
    ASSUME TypeOK, TaskInv, OnFeed
    PROVE  TaskInv'
<1> DEFINE f == Head(storeEvents)
           n == Len(storeEvents)
<1>1. /\ UNCHANGED <<opened, storeSub, late, todo, feeds, adds>>
      /\ pc = "loop" /\ pc' = "key" /\ todo = {} /\ storeSub
      /\ adding = None /\ adding' = f
    BY DEF OnFeed, repVars, TaskInv
<1>2. /\ n \in Nat /\ n > 0
      /\ DOMAIN storeEvents = 1 .. n
      /\ f = storeEvents[1]
      /\ DOMAIN storeEvents' = 1 .. n - 1
      /\ \A i \in 1 .. n - 1 : storeEvents'[i] = storeEvents[i + 1]
    BY DEF OnFeed, TypeOK
<1>3. f \in Feeds /\ f \in opened /\ f \notin feeds
    BY <1>2, SMTT(30) DEF TaskInv, TypeOK
<1>4. f # None
    BY <1>3, NoneNoFeed
<1>5. \A i \in 1 .. n - 1 : i + 1 \in 1 .. n /\ i + 1 # 1
    BY <1>2
<1>6. \A i \in 1 .. n : i = 1 \/ i - 1 \in 1 .. n - 1
    BY <1>2
<1>7. \A i \in DOMAIN storeEvents' :
          storeEvents'[i] \in opened' \ (feeds' \cup todo' \cup {adding'})
  <2> SUFFICES ASSUME NEW i \in 1 .. n - 1
               PROVE  storeEvents[i + 1] \in opened \ (feeds \cup {f})
    BY <1>1, <1>2
  <2>1. i + 1 \in DOMAIN storeEvents /\ 1 \in DOMAIN storeEvents /\ i + 1 # 1
    BY <1>2, <1>5
  <2> QED  BY <1>2, <2>1 DEF TaskInv
<1>8. ASSUME NEW i \in DOMAIN storeEvents', NEW j \in DOMAIN storeEvents',
             storeEvents'[i] = storeEvents'[j]
      PROVE  i = j
  <2>1. storeEvents[i + 1] = storeEvents[j + 1]
    BY <1>2, <1>8
  <2>2. i + 1 \in DOMAIN storeEvents /\ j + 1 \in DOMAIN storeEvents
    BY <1>2, <1>5
  <2>3. i + 1 = j + 1
    BY <2>1, <2>2 DEF TaskInv
  <2> QED  BY <1>2, <2>3
<1>9. LateFeedsKept'
  <2> SUFFICES ASSUME NEW g \in late, g \notin feeds, g # f
               PROVE  \E i \in DOMAIN storeEvents' : storeEvents'[i] = g
    BY <1>1 DEF LateFeedsKept
  <2>0. g \in Feeds
    BY DEF TypeOK
  <2>1. PICK i \in 1 .. n : storeEvents[i] = g
    BY <1>1, <1>2, <2>0, NoneNoFeed DEF TaskInv, LateFeedsKept
  <2>2. i - 1 \in 1 .. n - 1
    BY <1>2, <1>6, <2>1
  <2>3. storeEvents'[i - 1] = g
    BY <1>2, <2>1, <2>2
  <2> QED  BY <1>2, <2>2, <2>3
<1> HIDE DEF f, n
<1> QED  BY <1>1, <1>3, <1>4, <1>7, <1>8, <1>9 DEF TaskInv

LEMMA InvStep ==
    ASSUME TypeOK, TaskInv, [Next]_vars
    PROVE  TaskInv'
<1> USE DEF storeVars, taskVars, lockVars, repVars, netVars
<1>1. CASE UNCHANGED vars
    BY <1>1, ElsewhereStep DEF vars
<1>2. ASSUME NEW f \in Feeds, ClientOpens(f)
      PROVE  TaskInv'
    BY <1>2, OpenFeedInv DEF ClientOpens
<1>3. ASSUME NEW f \in Feeds, RemoteAsks(f)
      PROVE  TaskInv'
    BY <1>3, ElsewhereStep DEF RemoteAsks
<1>4. CASE ClientDone
    BY <1>4, ElsewhereStep DEF ClientDone, Unlock
<1>5. CASE IterBegin
    BY <1>5 DEF IterBegin, TaskInv, LateFeedsKept
<1>6. CASE IterEnd
    BY <1>6 DEF IterEnd, Unlock, TaskInv, LateFeedsKept
<1>7. CASE SubscribeStore
    BY <1>7 DEF SubscribeStore, TaskInv, LateFeedsKept
<1>8. CASE SubscribeReplicator
    BY <1>8, ElsewhereStep DEF SubscribeReplicator
<1>9. CASE OnReplicatorEvent
    BY <1>9, ElsewhereStep DEF OnReplicatorEvent
<1>10. CASE DkeyNothing
    BY <1>10, ElsewhereStep DEF DkeyNothing
<1>11. CASE DkeyOpens
    BY <1>11, OpenFeedInv DEF DkeyOpens, TypeOK
<1>12. CASE DkeyDone
    BY <1>12, ElsewhereStep DEF DkeyDone, Unlock
<1>13. CASE NetworkTask
    BY <1>13, ElsewhereStep DEF NetworkTask, NetSubscribe, NetEvent
<1>14. CASE AddFeedKey
    BY <1>14, ElsewhereStep DEF AddFeedKey
<1>15. CASE Locking
    BY <1>15, ElsewhereStep
    DEF Locking, LockFeed, UnlockFeed, HandshakeBegin, HandshakeOpen, HandshakeEnd
<1> QED
    BY <1>1, <1>2, <1>3, <1>4, <1>5, <1>6, <1>7, <1>8, <1>9, <1>10, <1>11,
       <1>12, <1>13, <1>14, <1>15, IterAddInv, AddFeedInv, OnFeedInv, Zenon
    DEF Next, ReplicateTask

\* The invariant that the theorems below rest on: a feed is in one place on
\* its way from the corestore to the replicator (replicate.rs:11-41), and only
\* feeds on disk are open (open_feed, corestore.rs:223-277).
THEOREM DaemonInvariant == Spec => []DaemonInv
<1>1. Init => TypeOK
  <2>1. 0 \in 0 .. MaxAsks /\ 0 \in Nat
    BY DaemonAssumption
  <2>2. <<>> \in Seq(Feeds) /\ <<>> \in Seq(ReplicatorEvents)
    OBVIOUS
  <2> QED  BY <2>1, <2>2, Zenon DEF Init, InitWith, TypeOK
<1>2. Init => TaskInv
    BY DEF Init, InitWith, TaskInv, LateFeedsKept
<1>3. DaemonInv /\ [Next]_vars => DaemonInv'
    BY TypeStep, InvStep, Zenon DEF DaemonInv
<1>4. Init => DaemonInv
    BY <1>1, <1>2, Zenon DEF DaemonInv
<1> QED  BY <1>3, <1>4, PTL DEF Spec

\* add_feed is called at most once for a feed, so that it never replaces a
\* PeeredFeed that has peers (replicator lib.rs:57-64).
THEOREM FeedsAreAddedOnce == Spec => []AddedOnce
<1>1. DaemonInv => AddedOnce
    BY DEF DaemonInv, TypeOK, TaskInv, AddedOnce
<1> QED  BY <1>1, DaemonInvariant, PTL

\* No feed opened after the subscription is forgotten (replicate.rs:36-38).
THEOREM LateFeedsAreKept == Spec => []LateFeedsKept
<1>1. DaemonInv => LateFeedsKept
    BY DEF DaemonInv, TaskInv
<1> QED  BY <1>1, DaemonInvariant, PTL

-----------------------------------------------------------------------------
\* A step that leaves the announcements alone, or only adds to them.
LEMMA DueElsewhere ==
    ASSUME NEW f \in Feeds, Due(f), UNCHANGED <<announced, netEvents>>,
           netSub => netSub', netSub /\ OnItsWay(f) => OnItsWay(f)'
    PROVE  Due(f)'
BY Zenon DEF Due

LEMMA WayElsewhere ==
    ASSUME NEW f \in Feeds, OnItsWay(f), UNCHANGED <<feeds, todo, adding>>,
           late \subseteq late'
    PROVE  OnItsWay(f)'
BY DEF OnItsWay

\* emit appends to the channel of the network task, if there is one.
LEMMA EmitDue ==
    ASSUME TypeOK, NEW f \in Feeds, NEW e \in ReplicatorEvents, Emit(e)
    PROVE  /\ (\E i \in DOMAIN netEvents : netEvents[i] = FeedEvent(f)) =>
                  \E i \in DOMAIN netEvents' : netEvents'[i] = FeedEvent(f)
           /\ netSub => \E i \in DOMAIN netEvents' : netEvents'[i] = e
<1>1. CASE ~netSub
    BY <1>1, Zenon DEF Emit
<1>2. CASE netSub
  <2>1. netEvents \in Seq(ReplicatorEvents) /\ netEvents' = Append(netEvents, e)
    BY <1>2, Zenon DEF Emit, TypeOK
  <2>2. /\ DOMAIN netEvents' = 1 .. Len(netEvents) + 1
        /\ netEvents'[Len(netEvents) + 1] = e
        /\ \A i \in DOMAIN netEvents : netEvents'[i] = netEvents[i] /\ i \in DOMAIN netEvents'
        /\ Len(netEvents) + 1 \in DOMAIN netEvents'
    BY <2>1, SMT
  <2> QED  BY <2>2, Zenon
<1> QED  BY <1>1, <1>2

\* add_feed hands the announcement over to the network task.
LEMMA AddFeedDue ==
    ASSUME TypeOK, TaskInv, NEW f \in Feeds, Due(f), AddFeed
    PROVE  Due(f)'
<1>1. /\ Emit(FeedEvent(adding)) /\ feeds' = feeds \cup {adding}
      /\ UNCHANGED <<announced, netSub, late, todo>>
      /\ adding \in Feeds
    BY Zenon DEF AddFeed, storeVars, netVars, TaskInv, TypeOK
<1>2. FeedEvent(adding) \in ReplicatorEvents
    BY <1>1, EventTypes, Zenon
<1>3. CASE f = adding /\ netSub
    BY <1>1, <1>2, <1>3, EmitDue, Zenon DEF Due
<1>4. CASE f # adding \/ ~netSub
  <2>1. netSub /\ OnItsWay(f) => OnItsWay(f)'
    BY <1>1, <1>4 DEF OnItsWay
  <2> QED  BY <1>1, <1>2, <2>1, EmitDue, Zenon DEF Due
<1> QED  BY <1>3, <1>4, Zenon

\* network::run takes an event and announces its feed.
LEMMA NetEventDue ==
    ASSUME TypeOK, NEW f \in Feeds, Due(f), NetEvent
    PROVE  Due(f)'
<1>1. /\ netEvents \in Seq(ReplicatorEvents) /\ netEvents # <<>>
      /\ netEvents' = Tail(netEvents)
      /\ announced \subseteq announced'
      /\ netEvents[1] = FeedEvent(f) => f \in announced'
      /\ UNCHANGED <<netSub, late, feeds, todo, adding>>
    BY DEF NetEvent, TypeOK, storeVars, taskVars, FeedEvent
<1>2. \A i \in DOMAIN netEvents : i # 1 => i - 1 \in DOMAIN netEvents' /\ netEvents'[i - 1] = netEvents[i]
    BY <1>1, SMT
<1>3. CASE \E i \in DOMAIN netEvents : netEvents[i] = FeedEvent(f)
    BY <1>1, <1>2, <1>3, Zenon DEF Due, OnItsWay
<1>4. CASE ~\E i \in DOMAIN netEvents : netEvents[i] = FeedEvent(f)
    BY <1>1, <1>4, Zenon DEF Due, OnItsWay
<1> QED  BY <1>3, <1>4, Zenon

LEMMA DueStep ==
    ASSUME TypeOK, TaskInv, [Next]_vars, NEW f \in Feeds, Due(f)
    PROVE  Due(f)'
<1> USE DEF storeVars, taskVars, lockVars, repVars, netVars
<1>0. ASSUME UNCHANGED <<announced, netEvents, feeds, todo, adding>>,
             netSub => netSub', late \subseteq late'
      PROVE  Due(f)'
    BY <1>0, DueElsewhere, WayElsewhere, Zenon
<1>1. CASE UNCHANGED vars
    BY <1>0, <1>1 DEF vars
<1>2. ASSUME NEW g, NEW h, OpenFeed(g, h)
      PROVE  late \subseteq late'
    BY <1>2 DEF OpenFeed
<1>3. CASE DkeyOpens \/ \E g \in Feeds : ClientOpens(g)
    BY <1>0, <1>2, <1>3 DEF ClientOpens, DkeyOpens
<1>4. CASE ClientDone \/ IterEnd \/ DkeyDone
    BY <1>0, <1>4 DEF ClientDone, IterEnd, DkeyDone, Unlock
<1>5. CASE SubscribeStore \/ SubscribeReplicator \/ DkeyNothing \/ AddFeedKey
    BY <1>0, <1>5 DEF SubscribeStore, SubscribeReplicator, DkeyNothing, AddFeedKey
<1>6. CASE NetSubscribe \/ OnReplicatorEvent
    BY <1>0, <1>6 DEF NetSubscribe, OnReplicatorEvent
<1>7. ASSUME NEW g \in Feeds, RemoteAsks(g)
      PROVE  Due(f)'
  <2>1. Emit(DkeyEvent(g)) /\ DkeyEvent(g) \in ReplicatorEvents
    BY <1>7, EventTypes, Zenon DEF RemoteAsks
  <2> QED  BY <1>7, <2>1, EmitDue, Zenon DEF RemoteAsks, Due, OnItsWay
<1>8. CASE IterBegin \/ IterAdd \/ OnFeed
  <2>1. UNCHANGED <<announced, netEvents, netSub, late, feeds>>
    BY <1>8 DEF IterBegin, IterAdd, OnFeed
  <2>2. OnItsWay(f) => OnItsWay(f)'
    <3>1. CASE IterBegin
      BY <3>1, NoneNoFeed DEF IterBegin, OnItsWay, TaskInv
    <3>2. CASE IterAdd
      BY <3>2, NoneNoFeed DEF IterAdd, OnItsWay, TaskInv
    <3>3. CASE OnFeed
      BY <3>3, NoneNoFeed DEF OnFeed, OnItsWay, TaskInv
    <3> QED  BY <1>8, <3>1, <3>2, <3>3
  <2> QED  BY <2>1, <2>2, DueElsewhere, Zenon
<1>9. CASE Locking
    BY <1>0, <1>9
    DEF Locking, LockFeed, UnlockFeed, HandshakeBegin, HandshakeOpen, HandshakeEnd
<1>10. CASE NetEvent
    BY <1>10, NetEventDue, Zenon
<1>11. CASE AddFeed
    BY <1>11, AddFeedDue, Zenon
<1> QED
    BY <1>1, <1>3, <1>4, <1>5, <1>6, <1>7, <1>8, <1>9, <1>10, <1>11, Zenon
    DEF Next, ReplicateTask, NetworkTask

\* Between the corestore, the replicator and the network task no announcement
\* of a feed is lost (add_feed, replicator lib.rs:57-64; network.rs:22-30).
THEOREM AnnouncementsAreKept == Spec => AnnouncementsKept
<1>1. DaemonInv /\ [Next]_vars => [\A f \in Feeds : Due(f) => Due(f)']_vars
    BY DueStep, Zenon DEF DaemonInv
<1> QED  BY <1>1, DaemonInvariant, PTL DEF Spec, AnnouncementsKept
=============================================================================

----------------------- MODULE RemoteCorestoreProofs -----------------------
(***************************************************************************)
(* The properties of RemoteCorestore hold for any number of tasks, names   *)
(* and keys.                                                               *)
(***************************************************************************)
EXTENDS RemoteCorestore, FiniteSetTheorems, TLAPS

\* A call's string settles the feed it asks for.
LEMMA LabelFacts ==
    /\ \A a \in Asks : Label(a) \in Labels /\ KeyOf(a) \in Keys /\ KeyOf(a) # None
    /\ \A a, b \in Asks : Label(a) = Label(b) => KeyOf(a) = KeyOf(b)
    /\ \A a, b \in Asks : Label(a) = Hex(KeyOf(b)) => KeyOf(a) = KeyOf(b)
<1>1. \A k, l : Hex(k) = Hex(l) => k = l
  <2> SUFFICES ASSUME NEW k, NEW l, Hex(k) = Hex(l) PROVE k = l
    BY Zenon
  <2>1. Hex(k).hex = k /\ Hex(l).hex = l
    BY Zenon DEF Hex
  <2> QED  BY <2>1, Zenon
<1>2. \A a \in Asks : \/ a.kind = "name" /\ a.arg \in Names
                      \/ a.kind = "key" /\ a.arg \in Keys
    BY Zenon DEF Asks
<1>3. \A n \in Names : NameKey(n) \in Keys
    BY Zenon DEF Keys
<1>4. \A a \in Asks : Label(a) \in Labels /\ KeyOf(a) \in Keys /\ KeyOf(a) # None
    BY <1>2, <1>3, NoneAssumption, Zenon DEF Label, KeyOf, Labels
<1>5. \A a, b \in Asks : Label(a) = Label(b) => KeyOf(a) = KeyOf(b)
    BY <1>1, <1>2, StringAssumption, Zenon DEF Label, KeyOf
<1>6. \A a, b \in Asks : Label(a) = Hex(KeyOf(b)) => KeyOf(a) = KeyOf(b)
    BY <1>1, <1>2, <1>4, StringAssumption, Zenon DEF Label, KeyOf
<1> QED  BY <1>4, <1>5, <1>6, Zenon

\* HashMap::insert of a key and a value of the map's types.
LEMMA MapInsertType ==
    ASSUME NEW K, NEW V, NEW m, IsMap(m, K, V), NEW key \in K, NEW value \in V
    PROVE  IsMap(MapInsert(m, key, value), K, V)
BY Zenon DEF MapInsert, IsMap

\* The ids in use are 1 .. NextId-1, so NextId is free.
LEMMA NextIdFacts ==
    ASSUME SessionsSound
    PROVE  NextId \in Nat \ {0} /\ NextId \notin DOMAIN map
<1>1. Cardinality(DOMAIN map) \in Nat
    BY FS_CardinalityType, Zenon DEF SessionsSound
<1>2. NextId \in Nat \ {0}
    BY <1>1 DEF NextId
<1> QED  BY <1>2 DEF SessionsSound

\* set_name keeps the types of the name maps.
LEMMA SetNameType ==
    ASSUME TypeOK, NEW i \in Nat \ {0}, NEW s \in Labels, SetName(i, s)
    PROVE  /\ IsMap(name_id', Labels, Nat \ {0})
           /\ IsMap(id_name', Nat \ {0}, Seq(Labels))
<1>1. NamesOf(i) \in Seq(Labels)
    BY DEF NamesOf, TypeOK, IsMap
<1>2. Append(NamesOf(i), s) \in Seq(Labels)
    BY <1>1
<1>3. IsMap(name_id', Labels, Nat \ {0})
    BY MapInsertType, Zenon DEF SetName, TypeOK
<1> QED  BY <1>2, <1>3, MapInsertType, Zenon DEF SetName, TypeOK

\* The invariant holds before any call.
LEMMA InitSound ==
    ASSUME Init
    PROVE  SessionsInv
<1> USE DEF Init, InitNamedMap
<1>0. DOMAIN EmptyMap = {} /\ \A K, V : IsMap(EmptyMap, K, V)
    BY Zenon DEF EmptyMap, IsMap
<1>1. TypeOK
    BY <1>0, Zenon DEF TypeOK, Closed, NoMsg, Msg, MsgKinds, Stages, InnerHypercore,
                Messages
<1>2. SessionsSound
  <2>1. IsFiniteSet({}) /\ Cardinality({}) = 0
    BY FS_EmptySet, Zenon
  <2>2. DOMAIN map = 1 .. NextId - 1
    BY <1>0, <2>1 DEF NextId
  <2> QED  BY <1>0, <2>1, <2>2, Zenon DEF SessionsSound
<1>3. CoresSound /\ ServerSound
    BY <1>0, Zenon DEF CoresSound, ServerSound
<1>4. TasksSound
    BY Zenon DEF TasksSound, TaskSound, HasCore, NoMsg, Msg
<1> QED  BY <1>1, <1>2, <1>3, <1>4, Zenon DEF SessionsInv

\* A step of task t from one stage to the next.
LEMMA GotoFacts ==
    ASSUME TypeOK, NEW t \in Tasks, NEW from, NEW to \in Stages, Goto(t, from, to)
    PROVE  /\ pc' \in [Tasks -> Stages]
           /\ pc[t] = from /\ pc'[t] = to
           /\ \A u \in Tasks : u # t => pc'[u] = pc[u]
BY Zenon DEF TypeOK, Goto

\* What the invariant says of one task and of one session.
LEMMA TaskFacts ==
    ASSUME SessionsInv, NEW t \in Tasks
    PROVE  /\ TaskSound(t) /\ core[t] \in Tasks /\ inner[t] \in InnerHypercore
           /\ msg[t] \in Messages
           /\ pc[t] # "start" => ask[t] \in Asks /\ KeyOf(ask[t]) \in Keys
           /\ HasCore(t) => HasCore(core[t]) /\ core[core[t]] = core[t]
           /\ \A i \in DOMAIN map : map[i] \in Tasks /\ HasCore(map[i])
           /\ \A l \in loops : l.by \in Tasks /\ HasCore(l.by)
<1>1. /\ TaskSound(t) /\ core[t] \in Tasks /\ inner[t] \in InnerHypercore
      /\ msg[t] \in Messages
    BY Zenon DEF SessionsInv, TasksSound, TypeOK
<1>2. pc[t] # "start" => ask[t] \in Asks /\ KeyOf(ask[t]) \in Keys
    BY <1>1, LabelFacts, Zenon DEF TaskSound
<1>3. \A i \in DOMAIN map : map[i] \in Tasks /\ HasCore(map[i]) /\ core[map[i]] = map[i]
    BY Zenon DEF SessionsInv, TypeOK, IsMap, SessionsSound
<1>4. HasCore(t) => HasCore(core[t]) /\ core[core[t]] = core[t]
    BY <1>1, <1>3 DEF TaskSound, Session
<1>5. \A l \in loops : l.by \in Tasks /\ HasCore(l.by)
    BY Zenon DEF SessionsInv, TypeOK, ServerSound
<1> QED  BY <1>1, <1>2, <1>3, <1>4, <1>5, Zenon

\* sessions.get_by_name keeps the invariant.
LEMMA LookupSound ==
    ASSUME SessionsInv, NEW t \in Tasks, NEW a \in Asks, Lookup(t, a)
    PROVE  SessionsInv'
<1>0. /\ pc[t] = "start" /\ ~HasCore(t) /\ core[t] = t
      /\ \A u \in Tasks : u # t =>
            pc'[u] = pc[u] /\ ask'[u] = ask[u] /\ core'[u] = core[u]
      /\ ask'[t] = a
      /\ \/ /\ pc'[t] = "missed" /\ core' = core
         \/ /\ pc'[t] = "open" /\ core'[t] = GetByName(Label(a))
            /\ HasName(Label(a))
      /\ UNCHANGED <<map, name_id, id_name, inner, msg, cores, loops>>
    BY TaskFacts DEF Lookup, Goto, HasCore, TaskSound, SessionsInv, TypeOK,
                     namedMapVars, serverVars
<1>1. core'[t] \in Tasks
    BY <1>0, Zenon DEF GetByName, HasName, SessionsInv, TypeOK, IsMap
<1>2. TypeOK'
  <2>1. core' \in [Tasks -> Tasks]
    BY <1>0, <1>1, Zenon DEF SessionsInv, TypeOK, Lookup
  <2>3. pc' \in [Tasks -> Stages]
    BY GotoFacts, Zenon DEF SessionsInv, Lookup, Stages
  <2>4. ask' \in [Tasks -> Asks \cup {NoAsk}]
    BY Zenon DEF SessionsInv, TypeOK, Lookup
  <2>5. /\ IsMap(map, Nat \ {0}, Tasks)'
        /\ IsMap(name_id, Labels, Nat \ {0})'
        /\ IsMap(id_name, Nat \ {0}, Seq(Labels))'
        /\ IsMap(cores, Nat, Keys)'
    BY <1>0, Zenon DEF SessionsInv, TypeOK
  <2> QED  BY <1>0, <2>1, <2>3, <2>4, <2>5, Zenon DEF SessionsInv, TypeOK
<1>3. \A i \in DOMAIN map : /\ map[i] # t /\ map[i] \in Tasks /\ HasCore(map[i])'
                            /\ ask'[map[i]] = ask[map[i]]
                            /\ core'[map[i]] = map[i]
    BY <1>0, TaskFacts DEF HasCore, SessionsInv, SessionsSound
<1>4. SessionsSound'
  <2>1. NextId' = NextId
    BY <1>0, Zenon DEF NextId
  <2>2. \A s \in DOMAIN name_id : name_id[s] \in DOMAIN map
    BY Zenon DEF SessionsInv, SessionsSound
  <2> QED  BY <1>0, <1>3, <2>1, <2>2 DEF SessionsInv, SessionsSound
<1>5. \A l \in loops : /\ l.by # t /\ l.by \in Tasks /\ HasCore(l.by)'
                       /\ ask'[l.by] = ask[l.by]
                       /\ core'[l.by] = core[l.by]
    BY <1>0, TaskFacts, Zenon DEF HasCore
<1>6. \A c : (Served(c) => Served(c)') /\ (OpenedAsZero(c) => OpenedAsZero(c)')
    BY <1>0, <1>5, Zenon DEF Served, OpenedAsZero
<1>7. CoresSound'
    BY <1>0, <1>3, <1>6 DEF SessionsInv, CoresSound
<1>8. ServerSound'
    BY <1>0, <1>3, <1>5, ZenonT(30) DEF SessionsInv, ServerSound
<1>9. TaskSound(t)'
  <2>1. msg[t].kind \notin {"open", "append"}
    BY <1>0, TaskFacts, Zenon DEF TaskSound
  <2>2. CASE pc'[t] = "missed"
    BY <1>0, <2>1, <2>2, Zenon DEF TaskSound, HasCore
  <2>3. CASE pc'[t] = "open" /\ core'[t] = GetByName(Label(a)) /\ HasName(Label(a))
    <3> DEFINE i == name_id[Label(a)]
    <3>1. i \in DOMAIN map /\ core'[t] = map[i] /\ KeyOf(a) = KeyOf(ask[map[i]])
      BY <2>3, Zenon DEF GetByName, HasName, SessionsInv, SessionsSound
    <3>2. Session(core[t])' /\ KeyOf(ask[core[t]])' = KeyOf(ask[t])'
      BY <1>0, <1>3, <3>1, Zenon DEF Session
    <3> QED  BY <1>0, <2>1, <2>3, <3>2, Zenon DEF TaskSound, HasCore
  <2> QED  BY <1>0, <2>2, <2>3, Zenon
<1>10. ASSUME NEW u \in Tasks, u # t PROVE TaskSound(u)'
  <2>1. TaskSound(u)
    BY TaskFacts, Zenon
  <2>2. HasCore(u) => core[u] # t
    BY <1>0, TaskFacts, Zenon
  <2>3. HasCore(u) => ask'[core[u]] = ask[core[u]]
    BY <1>0, <2>2, TaskFacts, Zenon
  <2>4. Session(core[u])' <=> Session(core[u])
    BY <1>0, <1>10, Zenon DEF Session
  <2> QED  BY <1>0, <1>6, <1>10, <2>1, <2>3, <2>4 DEF TaskSound, HasCore
<1> QED  BY <1>2, <1>4, <1>7, <1>8, <1>9, <1>10, Zenon DEF SessionsInv, TasksSound

\* insert_with_name keeps the invariant.
LEMMA InsertSound ==
    ASSUME SessionsInv, NEW t \in Tasks, Insert(t)
    PROVE  SessionsInv'
<1> DEFINE s == Label(ask[t])
<1>0. /\ pc[t] = "missed" /\ ~HasCore(t) /\ core[t] = t /\ ask[t] \in Asks
      /\ pc' \in [Tasks -> Stages] /\ pc'[t] = "inserted" /\ HasCore(t)'
      /\ \A u \in Tasks : u # t => pc'[u] = pc[u]
      /\ UNCHANGED <<ask, core, msg, cores, loops>>
    BY TaskFacts, GotoFacts DEF Insert, HasCore, TaskSound, SessionsInv, Stages,
                                serverVars
<1>1. s \in Labels /\ KeyOf(ask[t]) \in Keys
    BY <1>0, LabelFacts, Zenon
<1>2. NextId \in Nat \ {0} /\ NextId \notin DOMAIN map
    BY NextIdFacts, Zenon DEF SessionsInv
<1>3. /\ DOMAIN map' = DOMAIN map \cup {NextId} /\ map'[NextId] = t
      /\ \A i \in DOMAIN map : map'[i] = map[i]
      /\ DOMAIN name_id' = DOMAIN name_id \cup {s} /\ name_id'[s] = NextId
      /\ \A x \in DOMAIN name_id : x # s => name_id'[x] = name_id[x]
  <2>1. map' = MapInsert(map, NextId, t) /\ name_id' = MapInsert(name_id, s, NextId)
    BY Zenon DEF Insert, InsertWithName, SetName
  <2> HIDE DEF s
  <2>2. /\ DOMAIN map' = DOMAIN map \cup {NextId} /\ map'[NextId] = t
        /\ \A i \in DOMAIN map : i # NextId => map'[i] = map[i]
    BY <2>1, Zenon DEF MapInsert
  <2>3. /\ DOMAIN name_id' = DOMAIN name_id \cup {s} /\ name_id'[s] = NextId
        /\ \A x \in DOMAIN name_id : x # s => name_id'[x] = name_id[x]
    BY <2>1, Zenon DEF MapInsert
  <2> QED  BY <1>2, <2>2, <2>3, Zenon
<1>4. /\ inner' \in [Tasks -> InnerHypercore]
      /\ \A u \in Tasks : u # t => inner'[u] = inner[u]
      /\ inner'[t] = IF ask[t].kind = "name" THEN Closed(ask[t].arg, None)
                                             ELSE Closed(None, ask[t].arg)
  <2>1. \/ ask[t].kind = "name" /\ ask[t].arg \in Names
        \/ ask[t].kind = "key" /\ ask[t].arg \in Keys
    BY <1>0, Zenon DEF Asks
  <2>2. (IF ask[t].kind = "name" THEN Closed(ask[t].arg, None)
                                 ELSE Closed(None, ask[t].arg)) \in InnerHypercore
    BY <2>1, Zenon DEF Closed, InnerHypercore
  <2> QED  BY <2>2, Zenon DEF Insert, SessionsInv, TypeOK
<1>5. TypeOK'
  <2>1. IsMap(map, Nat \ {0}, Tasks)'
    BY <1>2, MapInsertType, Zenon DEF Insert, InsertWithName, SessionsInv, TypeOK
  <2>2. IsMap(name_id, Labels, Nat \ {0})' /\ IsMap(id_name, Nat \ {0}, Seq(Labels))'
    BY <1>1, <1>2, SetNameType, Zenon DEF Insert, InsertWithName, SessionsInv
  <2>3. IsMap(cores, Nat, Keys)'
    BY <1>0, Zenon DEF SessionsInv, TypeOK
  <2> QED  BY <1>0, <1>4, <2>1, <2>2, <2>3, Zenon DEF SessionsInv, TypeOK
<1>6. \A i \in DOMAIN map : /\ map[i] # t /\ map[i] \in Tasks
                            /\ pc'[map[i]] \notin {"start", "missed"}
    BY <1>0, TaskFacts, Zenon DEF HasCore
<1>7. \A c : /\ Session(c) => Session(c)' /\ c # t
             /\ Served(c)' <=> Served(c)
             /\ OpenedAsZero(c)' <=> OpenedAsZero(c)
    BY <1>0, <1>3, <1>6 DEF Session, Served, OpenedAsZero
<1>8. SessionsSound'
  <2>0. IsFiniteSet(DOMAIN map) /\ Cardinality(DOMAIN map) \in Nat
    BY FS_CardinalityType, Zenon DEF SessionsInv, SessionsSound
  <2>a. /\ IsFiniteSet(DOMAIN map')
        /\ Cardinality(DOMAIN map') = Cardinality(DOMAIN map) + 1
    BY <1>2, <1>3, <2>0, FS_AddElement
  <2>1. IsFiniteSet(DOMAIN map') /\ NextId' = NextId + 1
    BY <2>a, Zenon DEF NextId
  <2>2. DOMAIN map' = 1 .. NextId' - 1
    BY <1>2, <1>3, <2>1 DEF SessionsInv, SessionsSound
  <2>3. \A i, j \in DOMAIN map' : map'[i] = map'[j] => i = j
    BY <1>3, <1>6 DEF SessionsInv, SessionsSound
  <2>4. \A i \in DOMAIN map' : HasCore(map[i])' /\ core'[map'[i]] = map'[i]
    BY <1>0, <1>3, <1>6 DEF SessionsInv, SessionsSound, HasCore
  <2>5. ASSUME NEW x \in DOMAIN name_id'
        PROVE  /\ name_id'[x] \in DOMAIN map'
               /\ \A a \in Asks : Label(a) = x => KeyOf(a) = KeyOf(ask[map'[name_id'[x]]])
    <3>1. CASE x = s
      BY <1>0, <1>3, <3>1, LabelFacts
    <3>2. CASE x # s
      BY <1>3, <3>2 DEF SessionsInv, SessionsSound
    <3> QED  BY <3>1, <3>2, Zenon
  <2> QED  BY <1>0, <2>1, <2>2, <2>3, <2>4, <2>5, Zenon DEF SessionsSound
<1>9. CoresSound'
  <2>1. ask[t].kind \in {"name", "key"}
    BY <1>0, Zenon DEF Asks
  <2>2. inner'[t].id = 0 /\ ~inner'[t].open
    BY <1>4 DEF Closed
  <2>3. /\ inner'[t].name = IF ask[t].kind = "name" THEN ask[t].arg ELSE None
        /\ \/ inner'[t].key = KeyOf(ask[t])
           \/ inner'[t].key = None /\ ask[t].kind = "name"
    BY <1>4, <2>1 DEF Closed, KeyOf
  <2> QED  BY <1>0, <1>3, <1>4, <1>6, <1>7, <2>2, <2>3 DEF SessionsInv, CoresSound
<1>10. \A u \in Tasks : HasCore(u) => core[u] # t
    BY <1>0, TaskFacts, Zenon
<1>11. ServerSound'
  <2>1. \A l \in loops : l.by \in Tasks /\ HasCore(l.by) /\ l.by # t /\ core[l.by] # t
                         /\ core[l.by] \in Tasks
    BY <1>0, <1>10, TaskFacts, Zenon
  <2>2. \A l \in loops : HasCore(l.by)'
    BY <1>0, <2>1, Zenon DEF HasCore
  <2> QED  BY <1>0, <1>3, <1>4, <2>1, <2>2 DEF SessionsInv, ServerSound
<1>12. TaskSound(t)'
  <2>1. msg[t].kind \notin {"open", "append"}
    BY <1>0, TaskFacts, Zenon DEF TaskSound
  <2>2. Session(t)'
    BY <1>3, Zenon DEF Session
  <2> QED  BY <1>0, <2>1, <2>2, Zenon DEF TaskSound, HasCore
<1>13. ASSUME NEW u \in Tasks, u # t PROVE TaskSound(u)'
  <2>1. TaskSound(u) /\ core[u] \in Tasks /\ (HasCore(u) => core[u] # t)
    BY <1>10, TaskFacts, Zenon
  <2>2. HasCore(u) => inner'[core[u]] = inner[core[u]]
    BY <1>4, <2>1, Zenon
  <2>3. pc[u] = pc'[u] /\ (HasCore(u)' <=> HasCore(u))
    BY <1>0, <1>13, Zenon DEF HasCore
  <2>4. HasCore(u) => Session(core[u])'
    BY <1>0, <1>7, <2>1, Zenon DEF TaskSound, Session
  <2>5. (Served(core[u])' <=> Served(core[u]))
        /\ (OpenedAsZero(core[u])' <=> OpenedAsZero(core[u]))
    BY <1>0, Zenon DEF Served, OpenedAsZero
  <2> QED  BY <1>0, <2>1, <2>2, <2>3, <2>4, <2>5, Zenon DEF TaskSound, HasCore
<1> QED  BY <1>5, <1>8, <1>9, <1>11, <1>12, <1>13, Zenon DEF SessionsInv, TasksSound

\* A step of a task that has its RemoteHypercore.
LEMMA StageFrame ==
    ASSUME SessionsInv, NEW t \in Tasks, NEW from, NEW to \in Stages,
           Goto(t, from, to), {from, to} \cap {"start", "missed"} = {},
           UNCHANGED <<map, ask, core>>
    PROVE  /\ pc' \in [Tasks -> Stages]
           /\ pc[t] = from /\ pc'[t] = to /\ HasCore(t)
           /\ \A u \in Tasks : u # t => pc'[u] = pc[u]
           /\ \A u \in Tasks : HasCore(u)' <=> HasCore(u)
           /\ UNCHANGED name_id => SessionsSound'
<1>1. /\ pc' \in [Tasks -> Stages] /\ pc[t] = from /\ pc'[t] = to
      /\ \A u \in Tasks : u # t => pc'[u] = pc[u]
    BY GotoFacts, Zenon DEF SessionsInv
<1>2. HasCore(t) /\ \A u \in Tasks : HasCore(u)' <=> HasCore(u)
    BY <1>1, Zenon DEF HasCore
<1>3. \A i \in DOMAIN map : map[i] \in Tasks
    BY TaskFacts, Zenon
<1>4. ASSUME UNCHANGED name_id PROVE SessionsSound'
  <2>1. NextId' = NextId
    BY Zenon DEF NextId
  <2>2. \A i \in DOMAIN map' : HasCore(map[i])' /\ core'[map'[i]] = map'[i]
    BY <1>2, <1>3, Zenon DEF SessionsInv, SessionsSound, HasCore
  <2> QED  BY <1>4, <2>1, <2>2, Zenon DEF SessionsInv, SessionsSound
<1> QED  BY <1>1, <1>2, <1>4, Zenon

\* The id of a session.
LEMMA IdFacts ==
    ASSUME SessionsInv, NEW c \in Tasks, Session(c)
    PROVE  /\ IdOf(c) \in DOMAIN map /\ map[IdOf(c)] = c /\ IdOf(c) \in Nat \ {0}
           /\ \A i \in DOMAIN map : map[i] = c => i = IdOf(c)
           /\ inner[c].id \in {0, IdOf(c)}
<1>1. IdOf(c) \in DOMAIN map /\ map[IdOf(c)] = c
    BY Zenon DEF IdOf, Session
<1>2. IdOf(c) \in Nat \ {0} /\ inner[c].id \in {0, IdOf(c)}
    BY <1>1, Zenon DEF SessionsInv, TypeOK, IsMap, CoresSound
<1> QED  BY <1>1, <1>2, Zenon DEF SessionsInv, SessionsSound

\* set_id keeps the invariant.
LEMMA SetIdSound ==
    ASSUME SessionsInv, NEW t \in Tasks, SetId(t)
    PROVE  SessionsInv'
<1>0. /\ pc' \in [Tasks -> Stages]
      /\ pc[t] = "inserted" /\ pc'[t] = "open" /\ HasCore(t)
      /\ \A u \in Tasks : u # t => pc'[u] = pc[u]
      /\ \A u \in Tasks : HasCore(u)' <=> HasCore(u)
      /\ SessionsSound'
      /\ UNCHANGED <<map, name_id, id_name, ask, core, msg, cores, loops>>
  <2>1. /\ Goto(t, "inserted", "open")
        /\ UNCHANGED <<map, name_id, id_name, ask, core, msg, cores, loops>>
    BY Zenon DEF SetId, namedMapVars, serverVars
  <2> QED  BY <2>1, StageFrame, Zenon DEF Stages
<1>1. core[t] = t /\ Session(t)
    BY <1>0, TaskFacts, Zenon DEF TaskSound
<1>2. /\ IdOf(t) \in DOMAIN map /\ map[IdOf(t)] = t /\ IdOf(t) \in Nat \ {0}
      /\ \A i \in DOMAIN map : map[i] = t => i = IdOf(t)
      /\ inner[t].id \in {0, IdOf(t)}
    BY <1>1, IdFacts, Zenon
<1>3. /\ inner' \in [Tasks -> InnerHypercore] /\ inner'[t].id = IdOf(t)
      /\ \A c \in Tasks : /\ inner'[c].name = inner[c].name
                          /\ inner'[c].key = inner[c].key
                          /\ inner'[c].open = inner[c].open
                          /\ c # t => inner'[c] = inner[c]
    BY <1>2, ZenonT(30) DEF SetId, SessionsInv, TypeOK, InnerHypercore
<1>4. TypeOK'
    BY <1>0, <1>3, Zenon DEF SessionsInv, TypeOK
<1>5. \A c : /\ Session(c)' <=> Session(c)
             /\ Served(c)' <=> Served(c)
             /\ OpenedAsZero(c)' <=> OpenedAsZero(c)
    BY <1>0, Zenon DEF Session, Served, OpenedAsZero
<1>6. \A i \in DOMAIN map : map[i] \in Tasks
    BY TaskFacts, Zenon
<1>7. CoresSound'
    BY <1>0, <1>2, <1>3, <1>5, <1>6 DEF SessionsInv, CoresSound
<1>8. \A c \in Tasks : \A i : i \in {0, inner[c].id} => i \in {0, inner'[c].id}
    BY <1>2, <1>3, Zenon
<1>9. ServerSound'
  <2>1. \A l \in loops : l.by \in Tasks /\ core[l.by] \in Tasks
    BY TaskFacts, Zenon
  <2>2. \A l \in loops : HasCore(l.by)'
    BY <1>0, <2>1, TaskFacts, Zenon
  <2> QED  BY <1>0, <1>8, <2>1, <2>2, Zenon DEF SessionsInv, ServerSound
<1>10. ASSUME NEW u \in Tasks PROVE TaskSound(u)'
  <2>1. TaskSound(u) /\ core[u] \in Tasks
    BY TaskFacts, Zenon
  <2>2. /\ Session(core[u])' <=> Session(core[u])
        /\ Served(core[u])' <=> Served(core[u])
        /\ OpenedAsZero(core[u])' <=> OpenedAsZero(core[u])
    BY <1>0, Zenon DEF Session, Served, OpenedAsZero
  <2>3. /\ inner'[core[u]].open = inner[core[u]].open
        /\ \A i : i \in {0, inner[core[u]].id} => i \in {0, inner'[core[u]].id}
    BY <1>3, <1>8, <2>1, Zenon
  <2>4. CASE u = t
    BY <1>0, <1>1, <2>1, <2>2, <2>4, Zenon DEF TaskSound
  <2>5. CASE u # t
    BY <1>0, <2>1, <2>2, <2>3, <2>5, Zenon DEF TaskSound
  <2> QED  BY <2>4, <2>5, Zenon
<1> QED  BY <1>0, <1>4, <1>7, <1>9, <1>10, Zenon DEF SessionsInv, TasksSound

\* A step of a task that leaves the RemoteHypercores and the server alone.
LEMMA QuietFrame ==
    ASSUME SessionsInv, NEW t \in Tasks, NEW from, NEW to \in Stages,
           Goto(t, from, to), {from, to} \cap {"start", "missed"} = {},
           msg' \in [Tasks -> Messages],
           \A u \in Tasks : u # t => msg'[u] = msg[u],
           UNCHANGED <<map, ask, core, inner, cores, loops>>
    PROVE  /\ CoresSound' /\ ServerSound'
           /\ UNCHANGED <<name_id, id_name>> => TypeOK' /\ SessionsSound'
           /\ TaskSound(t)' => TasksSound'
           /\ \A u \in Tasks : /\ Session(core[u])' <=> Session(core[u])
                               /\ Served(core[u])' <=> Served(core[u])
                               /\ OpenedAsZero(core[u])' <=> OpenedAsZero(core[u])
<1>0. /\ pc' \in [Tasks -> Stages]
      /\ \A u \in Tasks : u # t => pc'[u] = pc[u]
      /\ \A u \in Tasks : HasCore(u)' <=> HasCore(u)
      /\ UNCHANGED name_id => SessionsSound'
    BY StageFrame, Zenon
<1>1. \A c : Served(c)' <=> Served(c)
    BY Zenon DEF Served
<1>2. CoresSound'
    BY <1>1, Zenon DEF SessionsInv, CoresSound
<1>3. ServerSound'
  <2>1. \A l \in loops : HasCore(l.by)'
    BY <1>0, TaskFacts, Zenon
  <2> QED  BY <2>1, Zenon DEF SessionsInv, ServerSound
<1>4. \A u \in Tasks : /\ Session(core[u])' <=> Session(core[u])
                       /\ Served(core[u])' <=> Served(core[u])
                       /\ OpenedAsZero(core[u])' <=> OpenedAsZero(core[u])
    BY Zenon DEF Session, Served, OpenedAsZero
<1>5. ASSUME UNCHANGED <<name_id, id_name>> PROVE TypeOK'
    BY <1>0, <1>5, Zenon DEF SessionsInv, TypeOK
<1>6. ASSUME NEW u \in Tasks, u # t PROVE TaskSound(u)'
  <2>1. TaskSound(u) /\ msg'[u] = msg[u]
    BY <1>6, TaskFacts, Zenon
  <2> QED  BY <1>0, <1>4, <1>6, <2>1, Zenon DEF TaskSound
<1> QED  BY <1>0, <1>2, <1>3, <1>4, <1>5, <1>6, Zenon DEF TasksSound

\* The first test of RemoteHypercore::open keeps the invariant.
LEMMA IsOpenSound ==
    ASSUME SessionsInv, NEW t \in Tasks, IsOpen(t)
    PROVE  SessionsInv'
<1>0. PICK to \in {"opened", "ask"} :
          /\ Goto(t, "open", to) /\ (to = "opened" => inner[core[t]].open)
          /\ UNCHANGED <<map, name_id, id_name, ask, core, inner, msg, cores, loops>>
    BY Zenon DEF IsOpen, namedMapVars, serverVars
<1>1. to \in Stages /\ msg' \in [Tasks -> Messages]
    BY <1>0, Zenon DEF Stages, SessionsInv, TypeOK
<1>2. /\ CoresSound' /\ ServerSound' /\ TypeOK' /\ SessionsSound'
      /\ TaskSound(t)' => TasksSound'
      /\ Session(core[t])' <=> Session(core[t])
    BY <1>0, <1>1, QuietFrame, Zenon
<1>3. pc[t] = "open" /\ pc'[t] = to /\ HasCore(t)
    BY <1>0, <1>1, StageFrame, Zenon
<1>4. TaskSound(t)
    BY TaskFacts, Zenon
<1>5. TaskSound(t)'
    BY <1>0, <1>2, <1>3, <1>4, Zenon DEF TaskSound, HasCore
<1> QED  BY <1>2, <1>5, Zenon DEF SessionsInv

\* open_by_key and open_by_name returning keep the invariant.
LEMMA ReturnSound ==
    ASSUME SessionsInv, NEW t \in Tasks, Return(t)
    PROVE  SessionsInv'
<1>0. /\ Goto(t, "opened", "returned")
      /\ UNCHANGED <<map, ask, core, inner, msg, cores, loops>>
      /\ \/ ask[t].kind = "name" /\ core[t] = t /\ SetName(IdOf(t), Hex(inner[t].key))
         \/ UNCHANGED <<name_id, id_name>>
    BY Zenon DEF Return, namedMapVars, serverVars
<1>1. "returned" \in Stages /\ msg' \in [Tasks -> Messages]
    BY <1>0, Zenon DEF Stages, SessionsInv, TypeOK
<1>2. /\ CoresSound' /\ ServerSound'
      /\ UNCHANGED <<name_id, id_name>> => TypeOK' /\ SessionsSound'
      /\ TaskSound(t)' => TasksSound'
      /\ Session(core[t])' <=> Session(core[t])
    BY <1>0, <1>1, QuietFrame, Zenon
<1>3. /\ pc' \in [Tasks -> Stages] /\ pc[t] = "opened" /\ pc'[t] = "returned"
      /\ HasCore(t)
      /\ \A u \in Tasks : HasCore(u)' <=> HasCore(u)
    BY <1>0, <1>1, StageFrame
<1>4. TaskSound(t)
    BY TaskFacts, Zenon
<1>5. TaskSound(t)'
    BY <1>0, <1>2, <1>3, <1>4, Zenon DEF TaskSound, HasCore
<1>6. CASE ask[t].kind = "name" /\ core[t] = t /\ SetName(IdOf(t), Hex(inner[t].key))
  <2> DEFINE s == Hex(inner[t].key)
  <2>1. Session(t) /\ inner[t].open /\ ask[t] \in Asks
    BY <1>3, <1>4, <1>6, Zenon DEF TaskSound
  <2>2. IdOf(t) \in DOMAIN map /\ map[IdOf(t)] = t /\ IdOf(t) \in Nat \ {0}
    BY <2>1, IdFacts, Zenon
  <2>3. inner[t].key = KeyOf(ask[t]) /\ KeyOf(ask[t]) \in Keys
    BY <2>1, <2>2, LabelFacts, Zenon DEF SessionsInv, CoresSound
  <2>4. s \in Labels
    BY <2>3, Zenon DEF Labels
  <2>5. TypeOK'
    <3>1. IsMap(name_id, Labels, Nat \ {0})' /\ IsMap(id_name, Nat \ {0}, Seq(Labels))'
      BY <1>6, <2>2, <2>4, SetNameType, Zenon DEF SessionsInv
    <3> QED  BY <1>0, <1>1, <1>3, <3>1, Zenon DEF SessionsInv, TypeOK
  <2>6. /\ DOMAIN name_id' = DOMAIN name_id \cup {s} /\ name_id'[s] = IdOf(t)
        /\ \A x \in DOMAIN name_id : x # s => name_id'[x] = name_id[x]
    BY <1>6, Zenon DEF SetName, MapInsert
  <2>7. ASSUME NEW x \in DOMAIN name_id'
        PROVE  /\ name_id'[x] \in DOMAIN map
               /\ \A a \in Asks : Label(a) = x => KeyOf(a) = KeyOf(ask[map[name_id'[x]]])
    <3>1. CASE x = s
      BY <2>1, <2>2, <2>3, <2>6, <3>1, LabelFacts
    <3>2. CASE x # s
      BY <2>6, <3>2, Zenon DEF SessionsInv, SessionsSound
    <3> QED  BY <3>1, <3>2, Zenon
  <2>8. \A i \in DOMAIN map' : HasCore(map[i])' /\ core'[map'[i]] = map'[i]
    <3>1. \A i \in DOMAIN map : map[i] \in Tasks
      BY TaskFacts
    <3> QED  BY <1>0, <1>3, <3>1, Zenon DEF SessionsInv, SessionsSound, HasCore
  <2>9. NextId' = NextId
    BY <1>0, Zenon DEF NextId
  <2>10. SessionsSound'
    BY <1>0, <2>7, <2>8, <2>9, Zenon DEF SessionsInv, SessionsSound
  <2> QED  BY <1>2, <1>5, <2>5, <2>10, Zenon DEF SessionsInv
<1>7. CASE UNCHANGED <<name_id, id_name>>
    BY <1>2, <1>5, <1>7, Zenon DEF SessionsInv
<1> QED  BY <1>0, <1>6, <1>7, Zenon

\* A RemoteHypercore among the sessions stands for the feed asked for.
LEMMA FeedFacts ==
    ASSUME SessionsInv
    PROVE  /\ \A c \in Tasks : Session(c) => FeedOf(c) = KeyOf(ask[c])
           /\ \A t \in Tasks : HasCore(t) =>
                 /\ Session(core[t]) /\ FeedOf(core[t]) = KeyOf(ask[t])
                 /\ inner[core[t]].open => inner[core[t]].key = KeyOf(ask[t])
<1>1. ASSUME NEW c \in Tasks, Session(c)
      PROVE  /\ FeedOf(c) = KeyOf(ask[c])
             /\ inner[c].open => inner[c].key = KeyOf(ask[c])
  <2>1. ask[c] \in Asks
    BY <1>1, TaskFacts, Zenon DEF Session, HasCore
  <2>2. /\ inner[c].name = IF ask[c].kind = "name" THEN ask[c].arg ELSE None
        /\ \/ inner[c].key = KeyOf(ask[c])
           \/ inner[c].key = None /\ ask[c].kind = "name" /\ ~inner[c].open
    BY <1>1, Zenon DEF Session, SessionsInv, CoresSound
  <2>3. ask[c].kind = "name" => ask[c].arg # None
    BY <2>1, NoneAssumption, Zenon DEF Asks
  <2> QED  BY <2>2, <2>3, Zenon DEF FeedOf, KeyOf
<1>2. ASSUME NEW t \in Tasks, HasCore(t)
      PROVE  /\ core[t] \in Tasks /\ Session(core[t])
             /\ KeyOf(ask[core[t]]) = KeyOf(ask[t])
    BY <1>2, TaskFacts, Zenon DEF TaskSound
<1> QED  BY <1>1, <1>2, Zenon

\* The open request keeps the invariant.
LEMMA SendOpenSound ==
    ASSUME SessionsInv, NEW t \in Tasks, SendOpen(t)
    PROVE  SessionsInv'
<1> DEFINE i == inner[core[t]]
           m == Msg("open", i.id, i.name, i.key)
<1>0. /\ Goto(t, "ask", "wait") /\ msg' = [msg EXCEPT ![t] = m]
      /\ UNCHANGED <<map, name_id, id_name, ask, core, inner, cores, loops>>
    BY Zenon DEF SendOpen, namedMapVars, serverVars
<1>1. i \in InnerHypercore
    BY TaskFacts, Zenon DEF SessionsInv, TypeOK
<1>2. m \in Messages
    BY <1>1, Zenon DEF Msg, Messages, MsgKinds, InnerHypercore
<1>3. /\ "wait" \in Stages /\ msg' \in [Tasks -> Messages] /\ msg'[t] = m
      /\ \A u \in Tasks : u # t => msg'[u] = msg[u]
    BY <1>0, <1>2, Zenon DEF Stages, SessionsInv, TypeOK
<1>4. /\ CoresSound' /\ ServerSound' /\ TypeOK' /\ SessionsSound'
      /\ TaskSound(t)' => TasksSound'
      /\ Session(core[t])' <=> Session(core[t])
    BY <1>0, <1>3, QuietFrame, Zenon
<1>5. pc[t] = "ask" /\ pc'[t] = "wait" /\ HasCore(t)
    BY <1>0, <1>3, StageFrame
<1>6. TaskSound(t) /\ FeedOf(core[t]) = KeyOf(ask[t])
    BY <1>5, TaskFacts, FeedFacts, Zenon
<1>7. m.kind = "open" /\ m.id = i.id /\ Wanted(m) = FeedOf(core[t])
    BY Zenon DEF Msg, Wanted, FeedOf
<1> HIDE DEF m
<1>8. TaskSound(t)'
    BY <1>0, <1>3, <1>4, <1>5, <1>6, <1>7, Zenon DEF TaskSound, HasCore, Wanted
<1> QED  BY <1>4, <1>8, Zenon DEF SessionsInv

\* The append request keeps the invariant.
LEMMA SendAppendSound ==
    ASSUME SessionsInv, NEW t \in Tasks, SendAppend(t)
    PROVE  SessionsInv'
<1> DEFINE m == Msg("append", inner[core[t]].id, None, None)
<1>0. /\ Goto(t, "returned", "append") /\ msg' = [msg EXCEPT ![t] = m]
      /\ UNCHANGED <<map, name_id, id_name, ask, core, inner, cores, loops>>
    BY Zenon DEF SendAppend, namedMapVars, serverVars
<1>1. core[t] \in Tasks /\ inner[core[t]].id \in Nat
    BY TaskFacts, Zenon DEF SessionsInv, TypeOK, InnerHypercore
<1>2. m \in Messages
    BY <1>1, Zenon DEF Msg, Messages, MsgKinds
<1>3. /\ "append" \in Stages /\ msg' \in [Tasks -> Messages] /\ msg'[t] = m
      /\ \A u \in Tasks : u # t => msg'[u] = msg[u]
    BY <1>0, <1>2, Zenon DEF Stages, SessionsInv, TypeOK
<1>4. /\ CoresSound' /\ ServerSound' /\ TypeOK' /\ SessionsSound'
      /\ TaskSound(t)' => TasksSound'
      /\ Session(core[t])' <=> Session(core[t])
      /\ OpenedAsZero(core[t])' <=> OpenedAsZero(core[t])
    BY <1>0, <1>3, QuietFrame, Zenon
<1>5. pc[t] = "returned" /\ pc'[t] = "append" /\ HasCore(t)
    BY <1>0, <1>3, StageFrame
<1>6. TaskSound(t) /\ inner[core[t]].open
    BY <1>5, TaskFacts, Zenon DEF TaskSound
<1>7. Served(core[t])
    BY <1>5, <1>6, FeedFacts, Zenon DEF SessionsInv, CoresSound, Session
<1>8. OpenedAsZero(core[t]) \/ inner[core[t]].id \in DOMAIN cores \ {0}
    BY <1>7 DEF Served, OpenedAsZero, SessionsInv, ServerSound
<1>9. m.kind = "append" /\ m.id = inner[core[t]].id
    BY Zenon DEF Msg
<1> HIDE DEF m
<1>10. TaskSound(t)'
    BY <1>0, <1>3, <1>4, <1>5, <1>6, <1>8, <1>9, Zenon DEF TaskSound, HasCore
<1> QED  BY <1>4, <1>10, Zenon DEF SessionsInv

\* The answer to an append keeps the invariant.
LEMMA AppendAnsweredSound ==
    ASSUME SessionsInv, NEW t \in Tasks, AppendAnswered(t)
    PROVE  SessionsInv'
<1>0. /\ Goto(t, "append", "appended") /\ msg[t].kind \in {"ok", "error"}
      /\ UNCHANGED <<map, name_id, id_name, ask, core, inner, msg, cores, loops>>
    BY Zenon DEF AppendAnswered, namedMapVars, serverVars
<1>1. "appended" \in Stages /\ msg' \in [Tasks -> Messages]
    BY <1>0, Zenon DEF Stages, SessionsInv, TypeOK
<1>2. /\ CoresSound' /\ ServerSound' /\ TypeOK' /\ SessionsSound'
      /\ TaskSound(t)' => TasksSound'
      /\ Session(core[t])' <=> Session(core[t])
      /\ OpenedAsZero(core[t])' <=> OpenedAsZero(core[t])
    BY <1>0, <1>1, QuietFrame, Zenon
<1>3. pc[t] = "append" /\ pc'[t] = "appended" /\ HasCore(t)
    BY <1>0, <1>1, StageFrame, Zenon
<1>4. TaskSound(t)
    BY TaskFacts
<1>5. TaskSound(t)'
    BY <1>0, <1>2, <1>3, <1>4, Zenon DEF TaskSound, HasCore
<1> QED  BY <1>2, <1>5 DEF SessionsInv

\* The answer to an open request keeps the invariant.
LEMMA OpenAnsweredSound ==
    ASSUME SessionsInv, NEW t \in Tasks, OpenAnswered(t)
    PROVE  SessionsInv'
<1> DEFINE c == core[t]
<1>0. PICK to \in {"opened", "failed"} :
          /\ Goto(t, "wait", to) /\ msg' = [msg EXCEPT ![t] = NoMsg]
          /\ UNCHANGED <<map, name_id, id_name, ask, core, cores, loops>>
          /\ \/ /\ to = "opened" /\ msg[t].kind = "ok"
                /\ inner' = [inner EXCEPT ![c].key = msg[t].key, ![c].open = TRUE]
             \/ to = "failed" /\ UNCHANGED inner
    BY Zenon DEF OpenAnswered, namedMapVars, serverVars
<1>1. /\ to \in Stages /\ msg' \in [Tasks -> Messages] /\ msg'[t] = NoMsg
      /\ \A u \in Tasks : u # t => msg'[u] = msg[u]
    BY <1>0, Zenon DEF Stages, SessionsInv, TypeOK, NoMsg, Msg, Messages, MsgKinds
<1>2. /\ pc' \in [Tasks -> Stages] /\ pc[t] = "wait" /\ pc'[t] = to /\ HasCore(t)
      /\ \A u \in Tasks : u # t => pc'[u] = pc[u]
      /\ \A u \in Tasks : HasCore(u)' <=> HasCore(u)
      /\ SessionsSound'
    BY <1>0, <1>1, StageFrame
<1>3. TaskSound(t) /\ c \in Tasks /\ msg[t] \in Messages
    BY TaskFacts, Zenon
<1>4. Session(c) /\ KeyOf(ask[c]) = KeyOf(ask[t])
    BY <1>2, <1>3, Zenon DEF TaskSound
<1>5. msg[t].kind = "ok" => msg[t].key = KeyOf(ask[c]) /\ Served(c)
    BY <1>2, <1>3, <1>4, Zenon DEF TaskSound
<1>6. /\ inner' \in [Tasks -> InnerHypercore]
      /\ \A d \in Tasks : /\ inner'[d].id = inner[d].id
                          /\ inner'[d].name = inner[d].name
                          /\ d # c => inner'[d] = inner[d]
                          /\ inner[d].open => inner'[d].open
      /\ to = "opened" => inner'[c].open /\ inner'[c].key = KeyOf(ask[c])
      /\ to = "failed" => inner' = inner
  <2>1. CASE to = "opened" /\ msg[t].kind = "ok"
             /\ inner' = [inner EXCEPT ![c].key = msg[t].key, ![c].open = TRUE]
    <3>1. msg[t].key \in Keys \cup {None} /\ inner \in [Tasks -> InnerHypercore]
      BY <1>3, Zenon DEF Messages, SessionsInv, TypeOK
    <3> QED  BY <1>3, <1>5, <2>1, <3>1 DEF InnerHypercore
  <2>2. CASE to = "failed" /\ UNCHANGED inner
    BY <2>2, Zenon DEF SessionsInv, TypeOK
  <2> QED  BY <1>0, <2>1, <2>2, Zenon
<1>7. TypeOK'
    BY <1>0, <1>1, <1>2, <1>6, Zenon DEF SessionsInv, TypeOK
<1>8. \A d : Served(d)' <=> Served(d)
    BY <1>0, Zenon DEF Served
<1>9. CoresSound'
  <2> SUFFICES ASSUME NEW i \in DOMAIN map
               PROVE  LET d == map[i] IN
                  /\ inner'[d].name = IF ask[d].kind = "name" THEN ask[d].arg ELSE None
                  /\ \/ inner'[d].key = KeyOf(ask[d])
                     \/ inner'[d].key = None /\ ask[d].kind = "name" /\ ~inner'[d].open
                  /\ inner'[d].id \in {0, i}
                  /\ inner'[d].open => Served(d)
    BY <1>0, <1>8, Zenon DEF CoresSound
  <2>1. map[i] \in Tasks
    BY TaskFacts, Zenon
  <2>2. CASE map[i] = c /\ to = "opened"
    BY <1>0, <1>5, <1>6, <2>1, <2>2 DEF SessionsInv, CoresSound
  <2>3. CASE ~(map[i] = c /\ to = "opened")
    <3>1. inner'[map[i]] = inner[map[i]]
      BY <1>0, <1>6, <2>1, <2>3, Zenon
    <3> QED  BY <3>1, Zenon DEF SessionsInv, CoresSound
  <2> QED  BY <2>2, <2>3, Zenon
<1>10. ServerSound'
  <2>1. \A l \in loops : HasCore(l.by)' /\ l.by \in Tasks /\ core[l.by] \in Tasks
    BY <1>2, TaskFacts, Zenon
  <2> QED  BY <1>0, <1>6, <2>1, Zenon DEF SessionsInv, ServerSound
<1>11. ASSUME NEW u \in Tasks PROVE TaskSound(u)'
  <2>1. TaskSound(u) /\ core[u] \in Tasks
    BY TaskFacts, Zenon
  <2>2. /\ Session(core[u])' <=> Session(core[u])
        /\ Served(core[u])' <=> Served(core[u])
        /\ OpenedAsZero(core[u])' <=> OpenedAsZero(core[u])
    BY <1>0, Zenon DEF Session, Served, OpenedAsZero
  <2>3. /\ inner'[core[u]].id = inner[core[u]].id
        /\ inner[core[u]].open => inner'[core[u]].open
    BY <1>6, <2>1, Zenon
  <2>4. CASE u = t
    <3>1. msg'[t].kind = "none"
      BY <1>1 DEF NoMsg, Msg
    <3> QED  BY <1>0, <1>2, <1>6, <2>1, <2>2, <2>4, <3>1, Zenon DEF TaskSound
  <2>5. CASE u # t
    BY <1>0, <1>1, <1>2, <2>1, <2>2, <2>3, <2>5, Zenon DEF TaskSound
  <2> QED  BY <2>4, <2>5, Zenon
<1> QED  BY <1>2, <1>7, <1>9, <1>10, <1>11, Zenon DEF SessionsInv, TasksSound

\* A step of the server: the client's state is unchanged, and what the server
\* has opened stays so.
LEMMA ServerFrame ==
    ASSUME SessionsInv, NEW t \in Tasks, UNCHANGED clientVars,
           NEW m \in Messages, msg' = [msg EXCEPT ![t] = m],
           loops \subseteq loops', DOMAIN cores \subseteq DOMAIN cores',
           loops' \subseteq [by : Tasks, id : Nat, key : Keys],
           IsMap(cores', Nat, Keys)
    PROVE  /\ TypeOK' /\ SessionsSound' /\ CoresSound'
           /\ TaskSound(t)' => TasksSound'
           /\ OpenedAsZero(core[t]) => OpenedAsZero(core[t])'
<1>0. UNCHANGED <<map, name_id, id_name, pc, ask, core, inner>>
    BY Zenon DEF clientVars, namedMapVars
<1>1. /\ msg' \in [Tasks -> Messages]
      /\ \A u \in Tasks : u # t => msg'[u] = msg[u]
    BY Zenon DEF SessionsInv, TypeOK
<1>2. TypeOK'
    BY <1>0, <1>1, Zenon DEF SessionsInv, TypeOK
<1>3. NextId' = NextId /\ \A u \in Tasks : HasCore(u)' <=> HasCore(u)
    BY <1>0, Zenon DEF NextId, HasCore
<1>4. SessionsSound'
  <2>1. \A i \in DOMAIN map : HasCore(map[i])' <=> HasCore(map[i])
    BY <1>0, Zenon DEF HasCore
  <2> QED  BY <1>0, <1>3, <2>1, Zenon DEF SessionsInv, SessionsSound
<1>5. \A c : Served(c) => Served(c)'
    BY <1>0, Zenon DEF Served
<1>6. CoresSound'
    BY <1>0, <1>5, Zenon DEF SessionsInv, CoresSound
<1>7. \A u \in Tasks : /\ Session(core[u])' <=> Session(core[u])
                       /\ Served(core[u]) => Served(core[u])'
                       /\ OpenedAsZero(core[u]) => OpenedAsZero(core[u])'
    BY <1>0, Zenon DEF Session, Served, OpenedAsZero
<1>8. ASSUME NEW u \in Tasks, u # t PROVE TaskSound(u)'
  <2>1. TaskSound(u) /\ msg'[u] = msg[u]
    BY <1>1, <1>8, TaskFacts, Zenon
  <2> QED  BY <1>0, <1>3, <1>7, <2>1, Zenon DEF TaskSound
<1> QED  BY <1>2, <1>4, <1>6, <1>7, <1>8, Zenon DEF TasksSound

\* Session::open keeps the invariant.
LEMMA ServeOpenSound ==
    ASSUME SessionsInv, NEW t \in Tasks, ServeOpen(t)
    PROVE  SessionsInv'
<1> DEFINE m == msg[t]
           ok == Msg("ok", 0, None, Wanted(m))
           bad == Msg("error", 0, None, None)
           new == [by |-> t, id |-> m.id, key |-> Wanted(m)]
<1>0. UNCHANGED clientVars /\ UNCHANGED <<map, pc, ask, core, inner>>
    BY Zenon DEF ServeOpen, clientVars, namedMapVars
<1>1. TaskSound(t) /\ m \in Messages /\ m.kind = "open" /\ core[t] \in Tasks
    BY TaskFacts, Zenon DEF ServeOpen
<1>2. /\ pc[t] = "wait" /\ HasCore(t) /\ Wanted(m) = KeyOf(ask[t])
      /\ m.id \in {0, inner[core[t]].id} /\ m.id \in Nat /\ Wanted(m) \in Keys
    BY <1>1, TaskFacts, ZenonT(30) DEF TaskSound, HasCore, Messages
<1>3. Session(core[t]) /\ KeyOf(ask[core[t]]) = KeyOf(ask[t])
    BY <1>1, <1>2, Zenon DEF TaskSound
<1>4. m.id # 0 => m.id \in DOMAIN map /\ map[m.id] = core[t]
    BY <1>1, <1>2, <1>3, IdFacts
<1>5. CASE /\ msg' = [msg EXCEPT ![t] = ok] /\ loops' = loops \cup {new}
           /\ cores' = MapInsert(cores, m.id, Wanted(m))
  <2>1. ok \in Messages /\ ok.kind = "ok" /\ ok.key = KeyOf(ask[t])
    BY <1>2, Zenon DEF Msg, Messages, MsgKinds
  <2>2. /\ new.by = t /\ new.id = m.id /\ new.key = KeyOf(ask[t])
        /\ loops' \subseteq [by : Tasks, id : Nat, key : Keys]
    BY <1>2, <1>5 DEF SessionsInv, TypeOK
  <2>3. IsMap(cores', Nat, Keys)
    BY <1>2, <1>5, MapInsertType, Zenon DEF SessionsInv, TypeOK
  <2>4. /\ DOMAIN cores' = DOMAIN cores \cup {m.id} /\ cores'[m.id] = Wanted(m)
        /\ \A i \in DOMAIN cores : i # m.id => cores'[i] = cores[i]
    BY <1>5, Zenon DEF MapInsert
  <2>5. msg' = [msg EXCEPT ![t] = ok] /\ loops' = loops \cup {new}
    BY <1>5, Zenon
  <2>6. msg'[t] = ok
    BY <2>5, Zenon DEF SessionsInv, TypeOK
  <2> HIDE DEF ok, new, m
  <2>7. TypeOK' /\ SessionsSound' /\ CoresSound' /\ (TaskSound(t)' => TasksSound')
    BY <1>0, <2>1, <2>2, <2>3, <2>4, <2>5, ServerFrame, Zenon
  <2>8. ServerSound'
    <3>1. ASSUME NEW l \in loops'
          PROVE  /\ HasCore(l.by)' /\ l.key = KeyOf(ask'[l.by])
                 /\ l.id \in DOMAIN cores'
                 /\ l.id # 0 => l.id = inner'[core'[l.by]].id
      <4>1. CASE l \in loops
        BY <1>0, <2>4, <4>1, Zenon DEF SessionsInv, ServerSound, HasCore
      <4>2. CASE l = new
        BY <1>0, <1>2, <2>2, <2>4, <4>2, Zenon DEF HasCore
      <4> QED  BY <2>5, <4>1, <4>2, Zenon
    <3>2. ASSUME NEW i \in DOMAIN cores' \ {0}
          PROVE  i \in DOMAIN map' /\ cores'[i] = KeyOf(ask'[map'[i]])
      <4>1. CASE i = m.id
        BY <1>0, <1>2, <1>3, <1>4, <2>4, <3>2, <4>1, Zenon
      <4>2. CASE i # m.id
        BY <1>0, <2>4, <3>2, <4>2, Zenon DEF SessionsInv, ServerSound
      <4> QED  BY <4>1, <4>2, Zenon
    <3> QED  BY <3>1, <3>2, Zenon DEF ServerSound
  <2>9. Served(core[t])' /\ (Session(core[t])' <=> Session(core[t]))
    BY <1>0, <2>2, <2>5, Zenon DEF Served, Session
  <2>10. TaskSound(t)'
    BY <1>0, <1>1, <1>2, <2>1, <2>6, <2>9, Zenon DEF TaskSound, HasCore
  <2> QED  BY <2>7, <2>8, <2>10, Zenon DEF SessionsInv
<1>6. CASE msg' = [msg EXCEPT ![t] = bad] /\ UNCHANGED serverVars
  <2>1. bad \in Messages /\ bad.kind = "error"
    BY Zenon DEF Msg, Messages, MsgKinds
  <2>2. msg' = [msg EXCEPT ![t] = bad] /\ UNCHANGED <<cores, loops>> /\ msg'[t] = bad
    BY <1>6, Zenon DEF serverVars, SessionsInv, TypeOK
  <2>3. IsMap(cores', Nat, Keys) /\ loops' \subseteq [by : Tasks, id : Nat, key : Keys]
    BY <2>2, Zenon DEF SessionsInv, TypeOK
  <2> HIDE DEF bad, m
  <2>4. TypeOK' /\ SessionsSound' /\ CoresSound' /\ (TaskSound(t)' => TasksSound')
    BY <1>0, <2>1, <2>2, <2>3, ServerFrame, Zenon
  <2>5. ServerSound'
    <3>1. \A l \in loops : HasCore(l.by)' <=> HasCore(l.by)
      BY <1>0, Zenon DEF HasCore
    <3> QED  BY <1>0, <2>2, <3>1, Zenon DEF SessionsInv, ServerSound
  <2>6. TaskSound(t)'
    <3>1. Session(core[t])' <=> Session(core[t])
      BY <1>0, Zenon DEF Session
    <3> QED  BY <1>0, <1>1, <1>2, <2>1, <2>2, <3>1, Zenon DEF TaskSound, HasCore
  <2> QED  BY <2>4, <2>5, <2>6 DEF SessionsInv
<1> QED  BY <1>5, <1>6, Zenon DEF ServeOpen

\* Session::append keeps the invariant.
LEMMA ServeAppendSound ==
    ASSUME SessionsInv, NEW t \in Tasks, ServeAppend(t)
    PROVE  SessionsInv'
<1> DEFINE id == msg[t].id
           m == IF id \in DOMAIN cores THEN Msg("ok", 0, None, cores[id])
                                       ELSE Msg("error", 0, None, None)
<1>0. /\ UNCHANGED clientVars /\ UNCHANGED <<map, pc, ask, core, inner>>
      /\ UNCHANGED <<cores, loops>>
      /\ msg' = [msg EXCEPT ![t] = m] /\ msg[t].kind = "append"
    BY Zenon DEF ServeAppend, clientVars, namedMapVars, serverVars
<1>1. /\ m \in Messages /\ m.kind \in {"ok", "error"}
      /\ id \in DOMAIN cores => m.kind = "ok" /\ m.key = cores[id]
    BY Zenon DEF Msg, Messages, MsgKinds, SessionsInv, TypeOK, IsMap
<1>2. msg'[t] = m
    BY <1>0, Zenon DEF SessionsInv, TypeOK
<1>3. IsMap(cores', Nat, Keys) /\ loops' \subseteq [by : Tasks, id : Nat, key : Keys]
    BY <1>0, Zenon DEF SessionsInv, TypeOK
<1>4. TaskSound(t) /\ core[t] \in Tasks /\ pc[t] = "append" /\ HasCore(t)
    BY <1>0, TaskFacts, Zenon DEF TaskSound, HasCore
<1>5. \/ OpenedAsZero(core[t])
      \/ id = inner[core[t]].id /\ id \in DOMAIN cores \ {0}
    BY <1>0, <1>4, Zenon DEF TaskSound
<1>6. OpenedAsZero(core[t]) \/ (m.kind = "ok" /\ m.key = KeyOf(ask[t]))
  <2>1. ASSUME id = inner[core[t]].id, id \in DOMAIN cores \ {0}
        PROVE  m.kind = "ok" /\ m.key = KeyOf(ask[t])
    <3>1. Session(core[t]) /\ KeyOf(ask[core[t]]) = KeyOf(ask[t])
      BY <1>4, Zenon DEF TaskSound
    <3>2. map[id] = core[t]
      BY <1>4, <2>1, <3>1, IdFacts
    <3>3. cores[id] = KeyOf(ask[map[id]])
      BY <2>1, Zenon DEF SessionsInv, ServerSound
    <3> QED  BY <1>1, <2>1, <3>1, <3>2, <3>3, Zenon
  <2> QED  BY <1>5, <2>1, Zenon
<1> HIDE DEF m
<1>7. /\ TypeOK' /\ SessionsSound' /\ CoresSound' /\ (TaskSound(t)' => TasksSound')
      /\ OpenedAsZero(core[t]) => OpenedAsZero(core[t])'
    BY <1>0, <1>1, <1>3, ServerFrame, Zenon
<1>8. ServerSound'
  <2>1. \A l \in loops : HasCore(l.by)' <=> HasCore(l.by)
    BY <1>0, Zenon DEF HasCore
  <2> QED  BY <1>0, <2>1, Zenon DEF SessionsInv, ServerSound
<1>9. TaskSound(t)'
  <2>1. Session(core[t])' <=> Session(core[t])
    BY <1>0, Zenon DEF Session
  <2> QED  BY <1>0, <1>1, <1>2, <1>4, <1>6, <1>7, <2>1, Zenon DEF TaskSound, HasCore
<1> QED  BY <1>7, <1>8, <1>9, Zenon DEF SessionsInv

\* Every step keeps the invariant.
LEMMA StepSound ==
    ASSUME SessionsInv, [Next]_vars
    PROVE  SessionsInv'
<1>1. CASE UNCHANGED vars
  <2>1. /\ UNCHANGED <<map, name_id, id_name, pc, ask, core, inner>>
        /\ UNCHANGED <<msg, cores, loops>>
    BY <1>1, Zenon DEF vars, clientVars, namedMapVars, serverVars
  <2>2. TypeOK'
    BY <2>1, Zenon DEF SessionsInv, TypeOK
  <2>3. SessionsSound'
    BY <2>1, Zenon DEF SessionsInv, SessionsSound, HasCore, NextId
  <2>4. CoresSound' /\ ServerSound'
    BY <2>1, Zenon DEF SessionsInv, CoresSound, ServerSound, Served, HasCore
  <2>5. TasksSound'
    BY <2>1, ZenonT(30) DEF SessionsInv, TasksSound, TaskSound, HasCore, Session, Served,
                OpenedAsZero
  <2> QED  BY <2>2, <2>3, <2>4, <2>5, Zenon DEF SessionsInv
<1>2. ASSUME NEW t \in Tasks,
             \/ \E a \in Asks : Lookup(t, a)
             \/ Insert(t) \/ SetId(t) \/ Return(t)
      PROVE  SessionsInv'
    BY <1>2, LookupSound, InsertSound, SetIdSound, ReturnSound, Zenon
<1>3. ASSUME NEW t \in Tasks,
             IsOpen(t) \/ SendOpen(t) \/ ServeOpen(t) \/ OpenAnswered(t)
      PROVE  SessionsInv'
    BY <1>3, IsOpenSound, SendOpenSound, ServeOpenSound, OpenAnsweredSound, Zenon
<1>4. ASSUME NEW t \in Tasks,
             SendAppend(t) \/ ServeAppend(t) \/ AppendAnswered(t)
      PROVE  SessionsInv'
    BY <1>4, SendAppendSound, ServeAppendSound, AppendAnsweredSound, Zenon
<1> QED  BY <1>1, <1>2, <1>3, <1>4, Zenon DEF Next

\* The names, ids and messages of client and server stay about the feeds the
\* tasks asked for, for any number of tasks, names and keys.
THEOREM SessionsInvariant == Spec => []SessionsInv
<1>1. Init => SessionsInv
    BY InitSound, Zenon
<1>2. SessionsInv /\ [Next]_vars => SessionsInv'
    BY StepSound, Zenon
<1> QED  BY <1>1, <1>2, PTL DEF Spec

\* open_by_key and open_by_name return the open feed that was asked for.
THEOREM ReturnsRightFeedAlways == Spec => []ReturnsRightFeed
<1>1. SessionsInv => ReturnsRightFeed
  <2> SUFFICES ASSUME SessionsInv, NEW t \in Tasks,
                      pc[t] \in {"returned", "append", "appended"}
               PROVE  inner[core[t]].open /\ inner[core[t]].key = KeyOf(ask[t])
    BY Zenon DEF ReturnsRightFeed
  <2>1. HasCore(t) /\ inner[core[t]].open
    BY TaskFacts, Zenon DEF TaskSound, HasCore
  <2> QED  BY <2>1, FeedFacts, Zenon
<1> QED  BY <1>1, SessionsInvariant, PTL

\* A notification reaches a RemoteHypercore of its feed, or none.
THEOREM NotifiesRightFeedAlways == Spec => []NotifiesRightFeed
<1>1. SessionsInv => NotifiesRightFeed
  <2> SUFFICES ASSUME SessionsInv, NEW l \in loops, l.id \in DOMAIN map
               PROVE  FeedOf(map[l.id]) = l.key
    BY Zenon DEF NotifiesRightFeed, Reached
  <2>0. l.by \in Tasks
    BY Zenon DEF SessionsInv, TypeOK
  <2>1. l.by \in Tasks /\ HasCore(l.by) /\ core[l.by] \in Tasks
    BY <2>0, TaskFacts, Zenon
  <2>2. l.id \in Nat \ {0} /\ map[l.id] \in Tasks
    BY Zenon DEF SessionsInv, TypeOK, IsMap
  <2>3. l.id = inner[core[l.by]].id /\ l.key = KeyOf(ask[l.by])
    BY <2>2, Zenon DEF SessionsInv, ServerSound
  <2>4. Session(core[l.by]) /\ FeedOf(core[l.by]) = KeyOf(ask[l.by])
    BY <2>1, FeedFacts, Zenon
  <2>5. map[l.id] = core[l.by]
    BY <2>1, <2>2, <2>3, <2>4, IdFacts
  <2> QED  BY <2>3, <2>4, <2>5, Zenon
<1> QED  BY <1>1, SessionsInvariant, PTL

\* An append reaches the feed of the RemoteHypercore it is made through,
\* unless that was opened under the id 0.
THEOREM AppendsToRightFeedAlways == Spec => []AppendsToRightFeed
<1>1. SessionsInv => AppendsToRightFeed
    BY Zenon DEF AppendsToRightFeed, SessionsInv, TasksSound, TaskSound
<1> QED  BY <1>1, SessionsInvariant, PTL
=============================================================================

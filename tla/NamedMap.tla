------------------------------ MODULE NamedMap ------------------------------
(***************************************************************************)
(* client/src/freemap.rs: values under numeric ids, each with any number   *)
(* of names.  Every call holds the lock of `inner' from its first access   *)
(* to its last.  Nothing is ever removed (`remove' is commented out), so   *)
(* the queue of free ids stays empty and has no variable.                  *)
(***************************************************************************)
EXTENDS HashMap, Naturals, Sequences, FiniteSets

VARIABLES
    map,      \* id -> value
    name_id,  \* name -> id
    id_name   \* id -> the names it was given, in order

namedMapVars == <<map, name_id, id_name>>

InitNamedMap ==
    /\ map = EmptyMap
    /\ name_id = EmptyMap
    /\ id_name = EmptyMap

\* Mutant of NextId: ids start at 0.
NextIdFromZero == Cardinality(DOMAIN map)

\* insert: with no free id the new one is the number of values plus one.
NextId == Cardinality(DOMAIN map) + 1

NamesOf(id) == IF id \in DOMAIN id_name THEN id_name[id] ELSE <<>>

SetName(id, name) ==
    /\ name_id' = MapInsert(name_id, name, id)
    /\ id_name' = MapInsert(id_name, id, Append(NamesOf(id), name))

InsertWithName(value, name) ==
    /\ map' = MapInsert(map, NextId, value)
    /\ SetName(NextId, name)

\* get_by_name finds a value when the name has an id and the id a value.
HasName(name) == name \in DOMAIN name_id /\ name_id[name] \in DOMAIN map

GetByName(name) == map[name_id[name]]
=============================================================================

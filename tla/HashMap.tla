------------------------------- MODULE HashMap -------------------------------
(***************************************************************************)
(* std::collections::HashMap: a function whose domain is the set of keys   *)
(* present.                                                                *)
(***************************************************************************)

EmptyMap == [x \in {} |-> x]

\* HashMap::insert: adds the entry or replaces the one the key had.
MapInsert(map, key, value) ==
    [x \in DOMAIN map \cup {key} |-> IF x = key THEN value ELSE map[x]]

IsMap(map, K, V) ==
    /\ DOMAIN map \subseteq K
    /\ map \in [DOMAIN map -> V]
=============================================================================

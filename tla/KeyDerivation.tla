--------------------------- MODULE KeyDerivation ---------------------------
(***************************************************************************)
(* The keys of corestore/src/corestore.rs, modelled symbolically.  A feed  *)
(* is addressed by its public key, stored under its discovery key and, if  *)
(* it was created by name, owned through a secret derived from the store's *)
(* master key and the name.  The derivations are keyed hashes and curve    *)
(* operations; the model keeps the one thing the store relies on, that     *)
(* they do not collide, by making each derived key the record of the       *)
(* arguments it was derived from.                                          *)
(***************************************************************************)

CONSTANTS
    MasterKeys,   \* values generate_key() may return for the master key
    Names,        \* feed names callers use (byte strings)
    EmptyName,    \* the name of length zero; callers use it iff it is in Names
    ForeignKeys,  \* public keys of feeds whose secret another store holds
    BadKeys,      \* 32-byte strings that are not a valid public key
    None          \* an absent value (Option::None, an empty or missing file)

\* The public key of the feed `name' under a master key.
DeriveKey(master, name) == [master |-> master, name |-> name]

DerivedKeys == [master : MasterKeys, name : Names]

Keys == DerivedKeys \cup ForeignKeys \cup BadKeys

\* The discovery key, a one-way image of a key.
DiscoveryKey(key) == [dkey_of |-> key]

DKeys == {DiscoveryKey(k) : k \in Keys}

ASSUME KeyAssumption ==
    /\ MasterKeys # {}
    /\ ForeignKeys \cap BadKeys = {}
    /\ DerivedKeys \cap (ForeignKeys \cup BadKeys) = {}

ASSUME NoneAssumption ==
    None \notin Names \cup MasterKeys \cup Keys \cup {EmptyName}
=============================================================================

------------------------------ MODULE FeedStore ------------------------------
(***************************************************************************)
(* What a corestore promises its callers, without files, indexes, locks    *)
(* and events: feeds are stored for good, are opened once until the next   *)
(* restart, and a request is answered with the feed it asks for.  Names    *)
(* stand for keys in a way that is settled when the store is created.      *)
(***************************************************************************)
CONSTANTS
    Keys, Requests,
    Namings,          \* the functions from names to keys a store may have
    DiscoveryKey(_),
    None, NoAnswer

VARIABLES
    naming,  \* name -> key, None before the store exists
    stored,  \* keys of the feeds on disk
    opened,  \* keys of the open feeds
    answer   \* the request answered last, and the key of the feed given

storeVars == <<naming, stored, opened, answer>>

Init ==
    /\ naming = None
    /\ stored = {}
    /\ opened = {}
    /\ answer = NoAnswer

\* The feed of key k is the one the request r asks for.
Asked(r, k) ==
    \/ r.kind = "key" /\ r.arg = k
    \/ r.kind = "dkey" /\ r.arg = DiscoveryKey(k)
    \/ r.kind = "name" /\ naming[r.arg] = k

Answer(r, out, k) == answer' = [req |-> r, out |-> out, key |-> k]

Create ==
    /\ naming = None /\ naming' \in Namings
    /\ UNCHANGED <<stored, opened, answer>>

Restart ==
    /\ opened' = {}
    /\ answer' = NoAnswer
    /\ UNCHANGED <<naming, stored>>

OpenFeed(k) ==
    /\ k \notin opened
    /\ stored' = stored \cup {k}
    /\ opened' = opened \cup {k}
    /\ UNCHANGED <<naming, answer>>

Give(r, k) ==
    /\ k \in opened /\ Asked(r, k)
    /\ Answer(r, "feed", k)
    /\ UNCHANGED <<naming, stored, opened>>

\* Only requests by discovery key are denied, and never an open feed; a feed
\* that is stored and not open can be, when its file cannot be read.
Deny(r) ==
    /\ r.kind = "dkey"
    /\ \A k \in opened : ~Asked(r, k)
    /\ Answer(r, "none", None)
    /\ UNCHANGED <<naming, stored, opened>>

\* A request that fails may leave the feed on disk.
Fail(r, k) ==
    /\ Answer(r, "err", None)
    /\ stored' \in {stored, stored \cup {k}}
    /\ UNCHANGED <<naming, opened>>

Next ==
    \/ Create
    \/ Restart
    \/ \E k \in Keys : OpenFeed(k)
    \/ \E r \in Requests, k \in Keys : Give(r, k) \/ Fail(r, k)
    \/ \E r \in Requests : Deny(r)

Spec == Init /\ [][Next]_storeVars
=============================================================================

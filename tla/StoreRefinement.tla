--------------------------- MODULE StoreRefinement ---------------------------
(***************************************************************************)
(* Corestore implements FeedStore: the master key is what settles the      *)
(* names, a feed is stored when its key file is written, and it is open    *)
(* when it is in the FeedMap.                                              *)
(***************************************************************************)
EXTENDS CorestoreInv

NamingOf(m) == IF m = None THEN None ELSE [n \in Names |-> DeriveKey(m, n)]

StoredKeys == {k \in Keys : keyFile[DiscoveryKey(k)] # None}

OpenKeys == {feeds[i].key : i \in DOMAIN feeds}

AnswerGiven ==
    [req |-> ret.req, out |-> ret.out,
     key |-> IF ret.out = "feed" THEN feeds[ret.feed].key ELSE None]

Promise ==
    INSTANCE FeedStore
        WITH Namings <- {NamingOf(m) : m \in MasterKeys},
             NoAnswer <- [req |-> NoRequest, out |-> "none", key |-> None],
             naming <- NamingOf(masterFile),
             stored <- StoredKeys,
             opened <- OpenKeys,
             answer <- AnswerGiven

\* Every step of the store, crashes and I/O errors half way through open_feed
\* included, is a step of FeedStore or invisible to callers: only a request by
\* discovery key is answered "none", and never for an open feed, an open feed
\* stays open and a stored one stored, and the feed given is the one asked
\* for.  (corestore.rs:62-108)
ImplementsFeedStore == Promise!Spec
=============================================================================

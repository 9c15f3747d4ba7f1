\* Any order of opens, lookups and handshakes, and a connection lost once.
CONSTANTS
    Sides = {a, b}
    Feeds = {k1}
    MaxConns = 1
SPECIFICATION FairSpec
CHECK_DEADLOCK FALSE
INVARIANTS
    PeersAgree
    ReplicatorInv
PROPERTIES
    EarlyFeedsReplicate

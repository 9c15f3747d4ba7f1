\* A writer and a reader, appends announced one by one, one lost connection.
CONSTANTS
    A = a
    B = b
    C = c
    Nodes = {a, b}
    Writer = a
    Links <- Pair
    MaxLen = 3
    MaxBatch = 1
    Spaced = TRUE
    OpenSeen = FALSE
    WantLen = 8
    MaxDrops = 1
SPECIFICATION FairSpec
CHECK_DEADLOCK FALSE
INVARIANTS
    RequestsServable
    PeerInv
    WayInv
PROPERTIES
    Converges

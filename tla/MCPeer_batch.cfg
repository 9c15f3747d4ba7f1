\* Two blocks appended in one request while the peers are connected.
CONSTANTS
    A = a
    B = b
    C = c
    Nodes = {a, b}
    Writer = a
    Links <- Pair
    MaxLen = 2
    MaxBatch = 2
    Spaced = FALSE
    OpenSeen = FALSE
    WantLen = 8
    MaxDrops = 0
SPECIFICATION FairSpec
CHECK_DEADLOCK FALSE
PROPERTIES
    Converges

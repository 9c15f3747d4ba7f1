\* Two readers with parts of the feed while the writer is away and appends.
CONSTANTS
    A = a
    B = b
    C = c
    Nodes = {a, b, c}
    Writer = a
    Links <- Readers
    MaxLen = 3
    MaxBatch = 2
    Spaced = FALSE
    OpenSeen = TRUE
    WantLen = 8
    MaxDrops = 1
SPECIFICATION Spec
CHECK_DEADLOCK FALSE
INVARIANTS
    StatsInv
    SpreadInv
PROPERTIES
    ImplementsReplication

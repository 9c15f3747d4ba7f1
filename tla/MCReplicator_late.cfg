\* A feed added while the connection lasts.
CONSTANTS
    Sides = {a, b}
    Feeds = {k1}
    MaxConns = 0
SPECIFICATION FairSpec
CHECK_DEADLOCK FALSE
PROPERTIES
    EveryFeedReplicates

\* Two feeds and a channel that holds one: the second open waits for room.
CONSTANTS
    Feeds = {f1, f2}
    ChannelSize = 1
    MaxAsks = 1
    None = none
SPECIFICATION FairSpec
CHECK_DEADLOCK FALSE
INVARIANTS
    AddedOnce
    DaemonInv
PROPERTIES
    AnnouncementsKept
    LateFeedsAdded
    AddedFeedsAnnounced
    LockReleased

\* More feeds opened than the channel holds while a discovery key is looked up.
CONSTANTS
    Feeds = {f1, f2}
    ChannelSize = 1
    MaxAsks = 1
    None = none
SPECIFICATION FairSpec
CHECK_DEADLOCK FALSE
PROPERTIES
    AskedFeedsAdded

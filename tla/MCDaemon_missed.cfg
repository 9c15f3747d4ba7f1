\* A feed opened between the iteration and the subscription.
CONSTANTS
    Feeds = {f1}
    ChannelSize = 1
    MaxAsks = 0
    None = none
SPECIFICATION FairSpec
CHECK_DEADLOCK FALSE
PROPERTIES
    EveryFeedAdded

\* Requests, restarts, I/O errors, and two subscribers with full channels.
CONSTANTS
    EmptyName = e
    None = none
    ReadFails = FALSE
    MasterKeys = {m1, m2}
    Names = {n1}
    ForeignKeys = {f1}
    BadKeys = {b1}
    Subscribers = {s1, s2}
    ChannelSize = 1
SPECIFICATION FairSpec
INVARIANTS
    StoreInv
    OneFeedPerKey
    IndexesAgree
    RequestHonoured
    NamedFeedsWritable
    NoEventLost
    EventsInv
PROPERTIES
    FilesStable
    ImplementsFeedStore
    RequestsEnd

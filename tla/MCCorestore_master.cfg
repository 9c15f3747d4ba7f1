\* An existing master key file that could not be read once.
CONSTANTS
    EmptyName = e
    None = none
    ReadFails = TRUE
    MasterKeys = {m1, m2}
    Names = {n1}
    ForeignKeys = {}
    BadKeys = {}
    Subscribers = {}
    ChannelSize = 1
SPECIFICATION Spec
INVARIANTS
    RequestHonoured

\* Three tasks of one client that open a named and a foreign feed.
CONSTANTS
    Tasks = {t1, t2, t3}
    Names = {n1}
    ForeignKeys = {f1}
    None = none
SYMMETRY TaskSymmetry
SPECIFICATION Spec
CHECK_DEADLOCK FALSE
INVARIANTS
    ReturnsRightFeed
    NotifiesRightFeed
    AppendsToRightFeed
    SessionsInv

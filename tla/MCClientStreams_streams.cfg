\* One reader over a feed of up to two blocks.
CONSTANTS
    Loops = {l1}
    Appenders = {a1}
    Readers = {r1}
    MaxLen = 2
    MaxBatch = 2
    ListenerSize = 0
    None = none
    Starts = {0}
    Ends = {none, 1}
    Size <- MCSize
    Offset <- MCOffset
    Targets = {1}
    Steps <- MCSteps
    Word = 9
    Threads = 2
    MaxRead = 1
SPECIFICATION FairSpec
CHECK_DEADLOCK FALSE
INVARIANTS
    KnownLength
    QuietLength
    GivesAllKnown
    ReadsInPlace
    StreamsInv
PROPERTIES
    WakeUpsKept
    StreamsEnd
    Woken
    CallsReturn

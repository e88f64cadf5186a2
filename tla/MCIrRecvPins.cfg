SPECIFICATION FairSpec
CONSTANTS
    Bits = 1
    Byte = 1
    Pin = {1, 2}
    Jitters <- Exact
    Glitches <- None
    QueueMax = 1
    NoReader = NoReader
PROPERTIES
    HandedOver
CHECK_DEADLOCK FALSE

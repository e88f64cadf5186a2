SPECIFICATION Spec
CONSTANTS
    Bits = 3
    Byte = 1
    Pin = {1}
    Jitters <- OffByBias
    Glitches <- Bad
    QueueMax = 1
    NoReader = NoReader
INVARIANTS
    TypeOK
    WholeCode
    RightCode
    Recovers
CHECK_DEADLOCK FALSE

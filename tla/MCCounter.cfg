SPECIFICATION Spec
CONSTANTS
    one_second = 2
    Wrap = 7
    Leap = 5
    Horizon = 15
    PulseMax = 3
    QueueMax = 2
INVARIANTS
    TypeOK
    SpeedIsRecent
    SpeedIsComplete
CHECK_DEADLOCK FALSE

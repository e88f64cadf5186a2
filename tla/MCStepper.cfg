SPECIFICATION Spec
CONSTANTS
    Count = {0, 1, 4, 9}
    NoMove = NoMove
INVARIANTS
    TypeOK
    StoppedIsOff
PROPERTIES
    Turns
    Counted
    ComesToRest
CHECK_DEADLOCK FALSE

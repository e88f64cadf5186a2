SPECIFICATION Spec
CONSTANTS
    RFID_DEV_MAX = 4
INVARIANTS
    Rested
PROPERTIES
    OwnBytes
    EveryCallEnds
CHECK_DEADLOCK FALSE

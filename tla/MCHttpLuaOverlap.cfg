SPECIFICATION LuaSpec
CONSTANTS
    Call = {c1, c2}
    Key = {k1, k2}
    NoRef = NoRef
INVARIANTS
    OwnResultOverlapped
CHECK_DEADLOCK FALSE

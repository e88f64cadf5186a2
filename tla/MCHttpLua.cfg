SPECIFICATION LuaFairSpec
CONSTANTS
    Call = {c1, c2, c3}
    Key = {k1, k2, k3}
    NoRef = NoRef
INVARIANTS
    LuaTypeOK
    NoLeakedFunction
    OthersKept
    RunsAtMostOnce
    OwnResult
PROPERTIES
    FunctionRuns
CHECK_DEADLOCK FALSE

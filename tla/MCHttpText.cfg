SPECIFICATION TextSpec
CONSTANTS
    Start <- Starts
    Target <- Targets
    Fields <- Others
    Data <- Pieces
    Statuses = {"200", "301"}
    FieldMax = 2
    PieceMax = 2
    HopMax = 2
    HostSize = 6
    Outside = Outside
    Refused = Refused
    Doubtful = Doubtful
INVARIANTS
    HopIsMeant
    BodyArrives
    CutIsPrefix
    TableArrives
CHECK_DEADLOCK FALSE

SPECIFICATION FairSpec
CONSTANTS
    Call = {c1}
    Req = {r1, r2, r3, r4}
    NoCall = NoCall
    FollowMax = 2
    BufferMax = 2
    MaxSeg = 2
INVARIANTS
    TypeOK
    NoDanglingCallback
    NoOrphan
    AnsweredOnce
    NoSilentLoss
    LostMeansError
    BodyAnnounced
    HopsBounded
PROPERTIES
    ImplementsPromise
    KeepsPromise
CHECK_DEADLOCK FALSE

SPECIFICATION Spec
CONSTANTS
    Block <- MCBlock
    View <- MCView
    QC <- MCQC
    LastViewTC <- MCLastViewTC
    Root = 0
    Ancestors <- MCAncestors
    NoTC = NoTC
    NoTimeout = NoTimeout
    Self = Self
    Other = Other
    Leader <- LeaderOfTwo
    Proposals = {1, 2, 3, 4, 5, 6, 7, 8, 9, 10, 11, 12}
    MaxView = 3
    MaxTick = 1
    MaxCrashes = 1
CHECK_DEADLOCK FALSE
INVARIANTS TypeOK NoException CanTimeOut FinalizedIsFinalizable OneSignaturePerView
PROPERTIES NeverGoesBack

SPECIFICATION Spec
CONSTANTS
    Block <- MCBlock
    View <- MCView
    QC <- MCQC
    LastViewTC <- MCLastViewTC
    Root = 0
    Ancestors <- MCAncestors
    NoTC = NoTC
    NoTimeout = NoTimeout
    Self = Self
    Other = Other
    Leader <- LeaderOfSecond
    Proposals = {1, 2, 3}
    MaxView = 2
    MaxTick = 0
    MaxCrashes = 0
CHECK_DEADLOCK FALSE
PROPERTIES NoSignatureAfterTimeout

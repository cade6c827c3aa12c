SPECIFICATION Spec
CONSTANTS
    r1 = r1
    r2 = r2
    r3 = r3
    z = z
    Replicas = {r1, r2, r3}
    Byzantine = {z}
    Quorums <- MCQuorums
    Block <- MCBlock
    View <- MCView
    QC <- MCQC
    LastViewTC <- MCLastViewTC
    Root = 0
    Ancestors <- MCAncestors
    NoTC = NoTC
    NoTimeout = NoTimeout
    MaxBlock = 9
    MaxView = 2
    MaxTick = 1
CONSTRAINT RepeatedEarly
SYMMETRY Symmetry
CHECK_DEADLOCK FALSE
INVARIANTS TypeOK SafetyInv Agreement OneQCPerView TCReportsLockedQC
PROPERTY NoVoteAfterTimeout

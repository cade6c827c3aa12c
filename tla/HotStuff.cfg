SPECIFICATION Spec
CONSTANTS
    r1 = r1
    r2 = r2
    z = z
    Replicas = {r1, r2}
    Byzantine = {z}
    Quorums <- MCQuorums
    Block <- MCBlock
    View <- MCView
    QC <- MCQC
    LastViewTC <- MCLastViewTC
    Root = 0
    Ancestors <- MCAncestors
    NoTC = NoTC
    NoTimeout = NoTimeout
    Leader <- LeaderOfFirst
    Proposals = {1, 2, 3, 4, 5}
    MaxView = 2
    MaxTick = 0
    MaxCrashes = 1
CHECK_DEADLOCK FALSE
 
PROPERTIES SafetyRulesImplemented

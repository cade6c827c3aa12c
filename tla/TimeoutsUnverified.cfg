SPECIFICATION Spec
CONSTANTS
    Subjects = {"timeouts"}
    None = None
    s1 = s1
    s2 = s2
    s3 = s3
    s4 = s4
    b1 = b1
    b2 = b2
    p1 = p1
    p2 = p2
    v1 = v1
    v2 = v2
    w1 = w1
    w2 = w2
    Voters = {s1, s2, s3}
    Proposer = s1
    Blocks = {b1, b2}
    StakingQuorums <- MCStakingQuorums
    BeaconSigners = {s1, s2}
    BeaconQuorums <- MCBeaconQuorums
    InvalidVotes <- MCInvalid
    Arriving <- MCArriving
    Caching = Caching
    Invalid = Invalid
    Proposals = {p1}
    Votes = {v1, v2}
    ViewOf <- MCViewOf
    FirstView = 1
    MaxView = 3
    Workers = {w1, w2}
    Capacity = 1
    MaxWeight = 200
    View = 3
    Signers = {s1, s2, s3, s4}
    Weight <- MCUnverifiedWeight
    Timeouts <- MCUnverified
    Certificates <- MCCertificates
    LoopProposals = {p1, p2}
    MaxTimeouts = 1
CHECK_DEADLOCK FALSE
INVARIANT OnlyVerifiedReported

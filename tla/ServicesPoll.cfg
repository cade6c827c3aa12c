SPECIFICATION Spec
CONSTANTS
    Subjects = {"requester"}
    None = None
    DefaultIndex = 2
    LastJob = 6
    MaxProcessing = 2
    MaxSearchAhead = 3
    c1 = c1
    c2 = c2
    Checkers = {c1}
    EarlyCheck = FALSE
    MaxCrashes = 1
    MaxFailures = 1
    l1 = l1
    l2 = l2
    l3 = l3
    OuterLoops = {l1}
    InnerLoops = {l2, l3}
    Host = host
    MaxRestarts = 1
    e1 = e1
    e2 = e2
    e3 = e3
    p1 = p1
    p2 = p2
    Entities = {e1, e2, e3}
    Providers = {p1, p2}
    Selector <- MCSelector
    RetryAttempts = 2
    BatchThreshold = 2
    MaxAdds = 1
    MaxForces = 1
    Updates = {1, 2, 3}
    Root = 0
    Parent <- MCParent
    Capacity = 4
    CheckpointDistance = 2
    CheckpointsToKeep = 1
    MaxSegment = 2
CHECK_DEADLOCK FALSE
PROPERTY AlwaysRetried

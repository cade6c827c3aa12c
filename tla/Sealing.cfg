SPECIFICATION Spec
CONSTANTS
    Subjects = {"collector", "core"}
    ir1 = ir1
    v1 = v1
    v2 = v2
    v3 = v3
    Incorporated = {ir1}
    Approvals <- MCApprovals
    Chunks = {1, 2}
    Assigned <- MCAssigned
    Required = 1
    MaxCalls = 1
    S = S
    A = A
    B = B
    X = X
    C = C
    Y = Y
    D = D
    rA = rA
    rB = rB
    rX = rX
    rC = rC
    NoResult = NoResult
    Root = S
    Blocks <- MCBlocks
    Parent <- MCParent
    Height <- MCHeight
    SealedBy <- MCSealedBy
    Results = {rA, rB, rX, rC}
    BlockOf <- MCBlockOf
    Previous <- MCPrevious
    Incoming <- MCIncoming
    ResultApprovals <- MCResultApprovals
    Workers = 2
CHECK_DEADLOCK FALSE
INVARIANTS SealIsApproved ProcessableFork 
PROPERTY ApprovedIsSealed

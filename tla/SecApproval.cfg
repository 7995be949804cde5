SPECIFICATION FairSpec
CONSTANTS
    c1 = c1
    d1 = d1
    k1 = k1
    Callers = {c1}
    Labels = {k1}
    Data = {d1}
    Policies = {"none", "certificate"}
    ApiKeys <- TwoOperationKeys
    ApprovalTimeout = 3
    CheckEvery = 2
    MaxChunks = 2
    MaxRequests = 1
    MaxKeys = 1
INVARIANTS
    TypeOK
    ResultApproved
    InputExact
PROPERTIES
    SealDecryptEnds
    AsyncEnds
CHECK_DEADLOCK FALSE

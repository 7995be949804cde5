SPECIFICATION Spec
CONSTANTS
    c1 = c1
    c2 = c2
    d1 = d1
    k1 = k1
    Callers = {c1, c2}
    Labels = {k1}
    Data = {d1}
    Policies = {"none"}
    ApiKeys <- TwoManagementKeys
    ApprovalTimeout = 3
    CheckEvery = 2
    MaxChunks = 1
    MaxRequests = 0
    MaxKeys = 1
INVARIANTS
    WorkingKeyUsed
CHECK_DEADLOCK FALSE

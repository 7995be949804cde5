SPECIFICATION Spec
CONSTANTS
    c1 = c1
    c2 = c2
    p1 = p1
    p2 = p2
    p3 = p3
    Procs = {p1, p2, p3}
    Closers = {c1, c2}
    Cancellable = {p1, p2, p3, c1, c2}
    Size = 2
    MaxUint = 7
INVARIANTS
    TypeOK
    NoLostWakeup
    QueueExact
    TokensAccounted
    SessionsBounded
PROPERTIES
    ClosedOnlyShrinks
CHECK_DEADLOCK FALSE

SPECIFICATION Spec
CONSTANTS
    c1 = c1
    p1 = p1
    p2 = p2
    Procs = {p1, p2}
    Closers = {c1}
    Cancellable = {p1, p2}
    Size = 1
    MaxUint = 7
INVARIANTS
    DrainedMeansNoOwners
CHECK_DEADLOCK FALSE

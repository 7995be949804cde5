SPECIFICATION FairSpec
CONSTANTS
    t1 = t1
    t2 = t2
    t3 = t3
    Callers = {t1, t2, t3}
    Results = {"value", "canceled", "deadline", "broken"}
    MaxRuns = 4
INVARIANTS
    TypeOK
    OneValue
PROPERTIES
    CallReturns
CHECK_DEADLOCK FALSE

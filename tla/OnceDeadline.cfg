SPECIFICATION Spec
CONSTANTS
    t1 = t1
    t2 = t2
    Callers = {t1, t2}
    Results = {"value", "canceled", "deadline"}
    MaxRuns = 3
INVARIANTS
    NoContextErrorKept
CHECK_DEADLOCK FALSE

SPECIFICATION Spec
CONSTANTS
    k1 = k1
    o1 = o1
    w1 = w1
    Kmss = {k1}
    Calls = {w1}
    Ops = {o1}
    Slots = {"slot1"}
    SlotOf <- SameSlot
    PinOf <- SamePin
    MaxSessions = 3
    TokenErrors = {}
    Timeouts = {"Drop"}
INVARIANTS
    ModuleOutlivesUse
CHECK_DEADLOCK FALSE

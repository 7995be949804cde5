SPECIFICATION Spec
CONSTANTS
    k1 = k1
    k2 = k2
    o1 = o1
    w1 = w1
    Kmss = {k1, k2}
    Calls = {w1}
    Ops = {o1}
    Slots = {"slot1"}
    SlotOf <- SameSlot
    PinOf <- OddPin
    MaxSessions = 2
    TokenErrors = {"Login", "CloseSession"}
    Timeouts = {"Login", "Get", "Drop"}
INVARIANTS
    TypeOK
    RefsExact
    HoldersShareLivePool
    DrainKeepsModule
    LoginFindsCleanToken
    UsersKeepSession
CHECK_DEADLOCK FALSE

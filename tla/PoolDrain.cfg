SPECIFICATION FairSpec
CONSTANTS
    k1 = k1
    o1 = o1
    o2 = o2
    w1 = w1
    Kmss = {k1}
    Calls = {w1}
    Ops = {o1, o2}
    Slots = {"slot1"}
    SlotOf <- SameSlot
    PinOf <- SamePin
    MaxSessions = 2
    TokenErrors = {"Initialize", "GetToken", "OpenSession", "Login", "Logout", "CloseAllSessions"}
    Timeouts = {"Login", "Get", "Drop"}
INVARIANTS
    TypeOK
    RefsExact
    HoldersShareLivePool
    DrainKeepsModule
    LoginFindsCleanToken
    UsersKeepSession
PROPERTIES
    WaitsEnd
CHECK_DEADLOCK FALSE

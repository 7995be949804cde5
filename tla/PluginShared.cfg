SPECIFICATION FairSpec
CONSTANTS
    c1 = c1
    c2 = c2
    i1 = i1
    i2 = i2
    i3 = i3
    k1 = k1
    r1 = r1
    r2 = r2
    Clients = {c1, c2}
    Rpcs = {r1, r2}
    Ids = {i1, i2, i3}
    KeyIds = {k1}
    Impatient = {c1}
INVARIANTS
    TypeOK
    CloseIsAlone
    NothingLeftBehind
PROPERTIES
    CloseTakesEffect
CHECK_DEADLOCK FALSE

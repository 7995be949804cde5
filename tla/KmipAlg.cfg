SPECIFICATION Spec
CONSTANTS
    c1 = c1
    c2 = c2
    k1 = k1
    k2 = k2
    Providers = {"kmip"}
    Callers = {c1, c2}
    KeyNames = {k1, k2}
    RsaKeys = {k2}
    MaxVersion = 2
    MaxBlobs = 2
INVARIANTS
    OldAlgorithmReadable
CHECK_DEADLOCK FALSE

SPECIFICATION Spec
CONSTANTS
    c1 = c1
    i1 = i1
    i2 = i2
    l1 = l1
    l2 = l2
    Callers = {c1}
    Parts <- MCParts
    Labels <- MCLabels
    KeyIds <- MCKeyIds
    OtherIds <- MCOtherIds
    RsaOaepHashes = {"sha1"}
    Stores <- SharedLabel
    Configured <- FewSettings
    MaxSessions = 2
    MaxBlobs = 1
    OwnNonce = TRUE
INVARIANTS
    AmbiguousKeyRefused
CHECK_DEADLOCK FALSE

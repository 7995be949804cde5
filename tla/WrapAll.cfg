SPECIFICATION Spec
CONSTANTS
    c1 = c1
    c2 = c2
    k1 = k1
    k2 = k2
    Providers = {"aws", "azure", "gcp", "ali", "huawei", "oci", "ovh", "tencent", "tcloud", "kmip", "transit"}
    Callers = {c1, c2}
    KeyNames = {k1, k2}
    RsaKeys = {k2}
    MaxVersion = 2
    MaxBlobs = 2
INVARIANTS
    TypeOK
    BlobsReadable
    BlobNamesItsKey
    ConfiguredKeyKnown
    NoWatcherLeft
CHECK_DEADLOCK FALSE

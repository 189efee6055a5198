CONSTANTS
    B = 2
    CtrMod = 6
    AadLimit = 8
    NULL = NULL
    ZeroIv = ZeroIv
    Key = k1
    Ivs = {iv1, iv2}
    SentIv = iv1
    TagLengths = {0, 1, 2, 3}
    Addrs = {a1, a2}
    MaxAad = 1
    MaxMsg = 2
    MaxFed = 3
    MaxFinals = 2
SPECIFICATION Spec
INVARIANT AllContextsReachable
CHECK_DEADLOCK FALSE

CONSTANTS
    B = 2
    CtrMod = 3
    AadLimit = 2
    NULL = NULL
    ZeroIv = ZeroIv
    Keys = {k1}
    Ivs = {iv1, iv2}
    MaxChunk = 2
    MaxFinals = 2
SPECIFICATION Spec
INVARIANT PreviousIvReused

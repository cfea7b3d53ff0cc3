\* Commit failures, the ERROR state, hot-journal playback, crashes and interrupts, with rekeys between two keys.
CONSTANTS
    k1 = k1
    k2 = k2
    v1 = v1
    v2 = v2
    Keys <- MC_Keys
    Vals <- MC_Vals
    NullKey = NullKey
    Garbage = Garbage
    NoImage = NoImage
    NoPage = NoPage
    NPages <- MC_NPages
    PageSize <- MC_PageSize
    PendingByte <- MC_PendingByte
    V0 = v1
    InitKeys = {k1}
    CommitMayFail = TRUE
    RekeyTargets = {k1, k2}
    KeyLens <- MC_RealKeyLens
    RekeyInUserTxn = FALSE
SPECIFICATION Spec
PROPERTIES RekeyPreservesContent RekeyReturns


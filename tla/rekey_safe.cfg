\* Rekey with commits that succeed and rekey only outside user transactions.
CONSTANTS
    k1 = k1
    k2 = k2
    v1 = v1
    v2 = v2
    Keys <- MC_Keys
    Vals <- MC_Vals
    NullKey = NullKey
    Garbage = Garbage
    NoImage = NoImage
    NoPage = NoPage
    NPages <- MC_NPages
    PageSize <- MC_PageSize
    PendingByte <- MC_PendingByte
    V0 = v1
    InitKeys = {NullKey, k1}
    CommitMayFail = FALSE
    RekeyTargets = {NullKey, k1, k2}
    KeyLens <- MC_KeyLens
    RekeyInUserTxn = FALSE
SPECIFICATION Spec
INVARIANTS TypeOK NoGarbageRead DurableConsistency
PROPERTIES RekeyAtomic RekeyPreservesContent RekeyReturns KeyedStoreSpec

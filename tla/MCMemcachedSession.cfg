SPECIFICATION Spec
CONSTANTS
    k1 = k1  k2 = k2  d = d
    CR = CR  LF = LF  NULL = NULL  Fused = Fused
    Keys = {k1, k2}
    Data = {d}
    Present = {k1}
    IntMax = 3
    kMaxValueLen = 3
    Requests <- AllRequests
    MaxRequests = 3
    InitialSize = 8
    SplitCRLF = FALSE
    Overruns = FALSE
CHECK_DEADLOCK FALSE
INVARIANTS ConsumesAllBuffer RequestsRespected ChunkingIrrelevant

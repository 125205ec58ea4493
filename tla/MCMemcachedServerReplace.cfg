SPECIFICATION Spec
CONSTANTS
    c1 = c1  c2 = c2  t1 = t1  t2 = t2
    k1 = k1  k2 = k2  v1 = v1  v2 = v2
    None = None
    Junk = Junk
    Threads = {t1, t2}
    Conns = {c1, c2}
    LoopOf <- MCLoopOf
    Hash <- MCHash
    MaxRequests <- MCMaxRequests
    kShards = 2
    Keys = {k1, k2, Junk}
    DanglingKeys = {k2}
    Vals = {v1, v2}
CHECK_DEADLOCK FALSE
PROPERTY StoreReplaces

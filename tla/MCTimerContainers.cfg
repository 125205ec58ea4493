SPECIFICATION Spec
CONSTANTS
    NULL = NULL
    ListTimers = {t1, t2, t3, t4}
    ListDelays = {0, 2}
    ListMaxTime = 2
    HeapTimers = {t1, t2, t3, t4, t5}
    HeapDelays = {0, 1, 3}
    Capacity = 3
    HeapMaxTime = 1
    Timers = {w1, w2, w3}
    Timeouts <- MCTimeouts
    N = 3
    SI = 2
SYMMETRY Symmetry
CHECK_DEADLOCK FALSE
INVARIANTS WellLinked HeapOrdered LinkedWhereItSays RotationCounts Punctual
PROPERTIES ListImplements HeapImplements

SPECIFICATION FairSpec
CONSTANTS
    t1 = t1  t2 = t2
    NULL = NULL
    Timers = {t1, t2}
    MaxFds = 2
    TIMESLOT = 1
    MaxRx = 2
CHECK_DEADLOCK FALSE
INVARIANTS OneTimerPerConnection EventsAreFresh Heartbeat SignalsAnnounced
PROPERTIES SilentClosed StopsOnTerm

SPECIFICATION FairSpec
CONSTANTS
    tasksCnt = 2
    NIsr = 1
    Msg = {m1, m2, m3}
    NoMsg = NoMsg
    AppEvent = {e1}
    SYS_EVENT_MSG = SYS
INVARIANTS TypeOK NoLostWakeup QueueSound OneOwner
PROPERTIES EventsOnlyConsumed FifoPerTask ServedUnlessPreempted

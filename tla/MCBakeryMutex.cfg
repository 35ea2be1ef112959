CONSTANTS
    MAX_NUM_PROCESSES = 3
    Threads = {0, 1, 2}
    RankOf <- MCRankOf
    MaxTicket = 3
SPECIFICATION MCSpec
INVARIANTS MutualExclusion ServedInTicketOrder FirstComeFirstServed SomebodyIsNotHeldUp
PROPERTIES ImplementsLock EveryLockReturns

CONSTANTS
    Programs = {p1, p2}
    SHM_MAX_RETRIES = 3
    MaxSegments = 5
    MaxStarts = 4
    MaxKills = 1
    MaxStops = 1
SPECIFICATION Spec
INVARIANTS NobodyIsCleared OneSegmentUntilStop InitializedOnlyAfterKill
PROPERTIES EveryStartEnds EveryStartServes

CONSTANTS
    NumRanks = 3
    logical_neighbors <- CycleNeighbors
    Clients = {c1, c2}
    MaxFailures = 1
    MaxRestarts = 1
SPECIFICATION Spec
INVARIANTS EachRankOnce AnswersAreWhole
PROPERTIES WorkShrinks EveryCallReturns
\* Once its clients have been served, the servers wait for calls for ever.
CHECK_DEADLOCK FALSE

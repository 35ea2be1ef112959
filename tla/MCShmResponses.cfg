CONSTANTS
    MAX_NUM_PROCESSES = 3
    Threads = {0, 1, 2}
    RankOf <- OwnRank
    Senders = {0, 1}
    Receivers = {2}
    num_blocks = 2
    block_size = 3
    DataSizes = {2, 4}
    MaxResponses = 3
    MaxTries = 1
SPECIFICATION MCSpec
INVARIANTS BlocksConserved ResultsArriveIntact
 

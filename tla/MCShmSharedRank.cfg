CONSTANTS
    MAX_NUM_PROCESSES = 2
    Threads = {0, 1, 2}
    RankOf <- SharedRank
    Senders = {0, 1}
    Receivers = {2}
    num_blocks = 2
    block_size = 3
    DataSizes = {2}
    MaxResponses = 2
    MaxTries = 1
SPECIFICATION MCSpec
INVARIANTS NoBlockHeldTwice

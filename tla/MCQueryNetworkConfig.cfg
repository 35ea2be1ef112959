CONSTANTS
    MaxQueries = 2
    MaxRestarts = 0
    MaxClients = 1
    NumProcesses = 5
    LogicalNeighbors <- ConfigNeighbors
    NodeOf <- ConfigNodes
    ClientPaths <- CppClient
    REQUEST_WORKERS = 1
    MAX_CONCURRENT_REQUESTS = 1
    MAX_CONCURRENT_RESPONSES = 5
    SHM_RESULTS = 10
    LATEST_QUERY_IDS = 2
SPECIFICATION MCReliableSpec
INVARIANTS ResponsesFollowTheirRoute EveryResultOnce 
PROPERTIES EveryQueryIsAnswered

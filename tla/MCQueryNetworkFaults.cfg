CONSTANTS
    MaxQueries = 2
    MaxRestarts = 1
    MaxClients = 1
    NumProcesses = 3
    LogicalNeighbors <- TriangleNeighbors
    NodeOf <- RootApart
    ClientPaths <- PythonClient
    REQUEST_WORKERS = 1
    MAX_CONCURRENT_REQUESTS = 1
    MAX_CONCURRENT_RESPONSES = 1
    SHM_RESULTS = 1
    LATEST_QUERY_IDS = 1
SPECIFICATION MCSpec
PROPERTIES ImplementsService
\* A process that has terminated need not be started again, and the others may
\* end up with nothing to do but what only it could do.
CHECK_DEADLOCK FALSE

\* One query, and one response that comes twice: in a call, and from shared memory.
\* Responses are streamed, the query's own is not.
CONSTANTS
    capacity = 2
    Items = {query, response}
    Queries = {query}
    Received = {response}
    ShmResults = {response}
    Streamed = {response}
    Workers = {w1, w2}
    RequestWorkers = {v1}
    Main = main
    Nobody = nobody
    Unset = unset
    Refused = refused
SPECIFICATION Spec
INVARIANTS NobodySleepsBesideWorkAnywhere TerminatesOnlyWhenFull NoUseAfterCleanup
INVARIANTS IteratorVisitsTheItems WindowSlides
PROPERTIES ImplementsQueue EveryItemIsTaken 
\* A process may exit, be terminated, or hang in one of the cases StopEnds names.
CHECK_DEADLOCK FALSE

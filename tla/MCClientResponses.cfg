CONSTANTS
    Workers = {w1, w2}
    StreamWorker = w1
    UnaryQueries = {u1}
    StreamQueries = {s1}
    Ranks = {0, 1}
    Copies = 2
SPECIFICATION MCSpec
INVARIANTS AnswersAreWhole 
PROPERTIES EveryCallFinishes

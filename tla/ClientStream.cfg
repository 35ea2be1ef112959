CONSTANTS
    Workers = {w1, w2}
    UnaryQueries = {}
    StreamQueries = {s1}
    Ranks = {0, 1}
    Copies = 1
SPECIFICATION Spec
INVARIANTS StreamAnswersAreWhole

SPECIFICATION FairSpec
CONSTANTS
    w1 = w1
    w2 = w2
    w3 = w3
    h1 = h1
    h2 = h2
    Workers = {w1, w2, w3}
    Hashes = {h1, h2}
    HashOf <- MCHashOf
    Attempts = 2
    MaxRestarts = 1
CHECK_DEADLOCK FALSE
INVARIANTS RequestsBounded NoStaleStream
PROPERTY EveryoneStops

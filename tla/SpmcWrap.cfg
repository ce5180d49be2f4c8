SPECIFICATION FairSpec
CONSTANTS
    c1 = c1
    Consumers = {c1}
    FirstConsumer = c1
    CAPACITY = 2
    NWords = 1
    WORD = 8
    MAX_PUBLISH = 9
    ClientLocs = {}
INVARIANT TypeOK ValueAtItsPosition
PROPERTY CatchesUp

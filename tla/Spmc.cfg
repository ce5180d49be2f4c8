SPECIFICATION Spec
CONSTANTS
    c1 = c1
    c2 = c2
    Consumers = {c1, c2}
    FirstConsumer = c1
    CAPACITY = 2
    NWords = 2
    WORD = 16
    MAX_PUBLISH = 4
    ClientLocs = {}
INVARIANT ValueAtItsPosition OddMeansLapped LappedAdvances
PROPERTY ImplementsLog

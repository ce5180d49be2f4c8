SPECIFICATION Spec
CONSTANTS
    c1 = c1
    Consumers = {c1}
    FirstConsumer = c1
    CAPACITY = 1
    NWords = 1
    WORD = 16
    MAX_PUBLISH = 3
    ClientLocs = {}
INVARIANT LappedAdvances

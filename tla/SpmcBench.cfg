SPECIFICATION FairBenchSpec
CONSTANTS
    c1 = c1
    Consumers = {c1}
    FirstConsumer = c1
    CAPACITY = 2
    NWords = 1
    WORD = 16
    MAX_PUBLISH = 6
    ClientLocs = {"done"}
    N = 6
    WARMUP = 1
    PIN_MAY_FAIL = TRUE
INVARIANT NothingUnobserved ReportAddsUp
PROPERTY BenchTerminates
CHECK_DEADLOCK FALSE

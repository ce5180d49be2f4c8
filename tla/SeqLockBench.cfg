SPECIFICATION FairBenchSpec
CONSTANTS
    r1 = r1
    Readers = {r1}
    FirstReader = r1
    NWords = 2
    SEQ_MOD = 4
    MAX_WRITES = 5
    ClientLocs = {"done"}
    N = 5
    WARMUP = 1
    PIN_MAY_FAIL = TRUE
INVARIANT TypeOK NoTornRead SamplesAreFresh
PROPERTY ReadTerminates BenchTerminates
CHECK_DEADLOCK FALSE

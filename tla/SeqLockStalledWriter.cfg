SPECIFICATION StalledWriterSpec
CONSTANTS
    r1 = r1
    Readers = {r1}
    FirstReader = r1
    NWords = 1
    SEQ_MOD = 16
    MAX_WRITES = 2
    ClientLocs = {}
PROPERTY LockFreeRead

SPECIFICATION Spec
CONSTANTS
    r1 = r1
    r2 = r2
    Readers = {r1, r2}
    FirstReader = r1
    NWords = 2
    SEQ_MOD = 16
    MAX_WRITES = 3
    ClientLocs = {}
INVARIANT NoTornRead
PROPERTY ImplementsCell

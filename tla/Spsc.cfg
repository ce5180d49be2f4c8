SPECIFICATION FairSpec
CONSTANTS
    CAPACITY = 2
    WORD = 4
    Builds = {TRUE, FALSE}
    DROP_PANICS = TRUE
    MAX_PUSH = 6
    ClientLocs = {}
INVARIANT TypeOK NoDataRace SlotDiscipline AccountedFor
PROPERTY ImplementsFifo EachItemDelivered RetrySucceeds

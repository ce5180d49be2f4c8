SPECIFICATION Spec
CONSTANTS
    h1 = h1
    h2 = h2
    Handles = {h1, h2}
    Sizes = {0, 3, 5, 15, 30}
    WORD = 32
    HugepageSizes = {4, 8}
    HUGE = 16
    PAGE = 4
    HEAP = 12
SYMMETRY Symmetry
INVARIANT BigEnough StaysResident DropSucceeds
CHECK_DEADLOCK FALSE

SPECIFICATION FairSpec
CONSTANTS
    RANKS = 1
    SLIPS = 2
    ACCS = 2
    Fits = {1, 2, 3, 4}
    Accepts = {1, 2, 3}
    Directs = {TRUE}
    OWED = TRUE
    TOTAL = 9
    REIMBURSE = 2
    FAULTS = 0
    DUST = 0
    FEES = 0
    CRASHES = 0
PROPERTY EventuallyPaid
CHECK_DEADLOCK FALSE

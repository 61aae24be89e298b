\* The scan: ids up to 5 in batches of 2, so that runs of empty ids and the end of the
\* window fall inside and between batches.  The delays are the deployed ones.
CONSTANTS
    BATCH = 2
    MAX_SCAN = 5
    NULL_STREAK_LIMIT = 2
    MaxId = 5
    CLEANUP_BACKOFF_MIN_SEC = 5
    CLEANUP_BACKOFF_MAX_SEC = 60
    CLOSE_DELAY_SEC = 5
    MaxRecords = 3
SPECIFICATION Spec
CHECK_DEADLOCK FALSE
INVARIANTS
    TreeIsExact
    ScanFindsRound
    DelayIsBackoff
    
    LayoutsAgree

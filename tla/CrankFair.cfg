\* Two rounds, one user, who can play alone, one fault of any kind.
CONSTANTS
    NumUsers = 1
    MaxRound = 2
    MinPlayers = 1
    MinTickets = 1
    Duration = 1
    LOCK_BUFFER_SEC = 1
    BATCH = 3
    MAX_SCAN = 200
    NULL_STREAK_LIMIT = 3
    CLEANUP_BACKOFF_MIN_SEC = 1
    CLEANUP_BACKOFF_MAX_SEC = 1
    CLOSE_DELAY_SEC = 1
    VRF_COOLDOWN_SEC = 1
    PARTICIPANT_CLEANUP_BATCH = 1
    STARTUP_BACKFILL_SCAN_ROUNDS = 50
    MaxFaults = 1
SPECIFICATION FairSpec
PROPERTIES
    NextRoundOpens
    RoundsAreClosed

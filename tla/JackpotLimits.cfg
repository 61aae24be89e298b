\* Three users for two places, coarse tickets, narrow integers, two administrators
\* and treasuries, transfers from outside, and settings changed under a round.
CONSTANTS
    p1 = p1  e1 = e1  e2 = e2  t1 = t1  t2 = t2  a1 = a1  a2 = a2
    m1 = m1  m2 = m2  r1 = r1  k1 = k1  none = none
    MAX_PARTICIPANTS = 2
    U64_MAX = 5
    U32_MAX = 1
    NumUsers = 3
    Payers = {p1}
    Executors = {e1}
    Treasuries = {t1, t2}
    Admins = {a1, a2}
    Tokens = {m1}
    NoKey = none
    Randomness = {r1}
    Ranks = {k1}
    VRF_REIMBURSEMENT_USDC = 5
    DEFAULT_DEGEN_FALLBACK_TIMEOUT_SEC = 1
    InitialUsdc = 3
    MaxTime = 3
    MaxStarts = 1
    InitArgs <- CoarseTickets
    UpdateArgs <- SettingUpdates
    TimeoutArgs = {0}
    MinOuts = {1}
    MinOutRaws = {1}
    OtherEmptyAccount = {FALSE}
    SwapOuts = {0, 1}
    Donors = {3}
    SweepTargets = {t1}
SPECIFICATION OperatedSpec
CHECK_DEADLOCK FALSE
INVARIANTS
    TypeOK
    TotalsAgree
    WinnerOwnsTicket

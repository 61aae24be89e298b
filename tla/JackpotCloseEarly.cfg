\* Any signer closes a cancelled round.
CONSTANTS
    p1 = p1  e1 = e1  e2 = e2  t1 = t1  t2 = t2  a1 = a1  a2 = a2
    m1 = m1  m2 = m2  r1 = r1  k1 = k1  none = none
    MAX_PARTICIPANTS = 2
    U64_MAX = 100
    U32_MAX = 100
    NumUsers = 2
    Payers = {p1}
    Executors = {e1}
    Treasuries = {t1}
    Admins = {a1}
    Tokens = {m1}
    NoKey = none
    Randomness = {r1}
    Ranks = {k1}
    VRF_REIMBURSEMENT_USDC = 1
    DEFAULT_DEGEN_FALLBACK_TIMEOUT_SEC = 1
    InitialUsdc = 2
    MaxTime = 3
    MaxStarts = 1
    InitArgs <- TwoPlayers
    UpdateArgs <- NoUpdates
    TimeoutArgs = {0}
    MinOuts = {1}
    MinOutRaws = {1}
    OtherEmptyAccount = {FALSE}
    SwapOuts = {0, 1}
    Donors = {}
    SweepTargets = {t1}
SPECIFICATION Spec
PROPERTIES DepositsStayForRefunds
CHECK_DEADLOCK FALSE

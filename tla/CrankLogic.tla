----------------------------- MODULE CrankLogic -----------------------------
(***************************************************************************)
(* The decisions of the crank that are functions of what it has read: which *)
(* round it takes up when it starts (crank/src/activeRoundScan.ts) and when *)
(* it tries the cleanup of a round again (crank/src/runtimeLogic.ts).       *)
(***************************************************************************)
EXTENDS Integers

CONSTANTS
    BATCH,              \* ids read at once
    MAX_SCAN,           \* how far above the first id a batch may begin
    NULL_STREAK_LIMIT   \* empty ids in a row that end the scan

ASSUME ScanAssumption ==
    /\ BATCH \in Nat \ {0}
    /\ MAX_SCAN \in Nat
    /\ NULL_STREAK_LIMIT \in Nat \ {0}

CONSTANTS
    CLEANUP_BACKOFF_MIN_SEC,
    CLEANUP_BACKOFF_MAX_SEC,
    CLOSE_DELAY_SEC

ASSUME RetryAssumption ==
    /\ CLEANUP_BACKOFF_MIN_SEC \in Nat \ {0}
    /\ CLEANUP_BACKOFF_MAX_SEC \in Nat
    /\ CLEANUP_BACKOFF_MIN_SEC <= CLEANUP_BACKOFF_MAX_SEC
    /\ CLOSE_DELAY_SEC \in Nat

-----------------------------------------------------------------------------
\* activeRoundScan.ts: round accounts are read in batches of consecutive ids.

isActiveRoundStatus(status) == status \in {"OPEN", "LOCKED", "VRF_REQUESTED", "SETTLED"}

\* What the scan knows after some ids.  over: it met NULL_STREAK_LIMIT empty ids in a
\* row after a round.
ScanStart == [maxExisting |-> 0, activeRound |-> 0, nullStreak |-> 0, over |-> FALSE]

\* Mutant of SeeEntry: an account that cannot be parsed counts as empty.
SeeEntryInvalidMissing(scan, id, entry) ==
    IF scan.over THEN scan
    ELSE IF entry \in {"ABSENT", "INVALID"}
    THEN [scan EXCEPT !.nullStreak = @ + 1,
                      !.over = scan.maxExisting > 0
                               /\ scan.nullStreak + 1 >= NULL_STREAK_LIMIT]
    ELSE [scan EXCEPT !.nullStreak = 0, !.maxExisting = id,
                      !.activeRound = IF isActiveRoundStatus(entry) THEN id ELSE @]

\* One id: its account is missing, or cannot be parsed, or has a status.
SeeEntry(scan, id, entry) ==
    IF scan.over THEN scan
    ELSE IF entry = "ABSENT"
    THEN [scan EXCEPT !.nullStreak = @ + 1,
                      !.over = scan.maxExisting > 0
                               /\ scan.nullStreak + 1 >= NULL_STREAK_LIMIT]
    ELSE IF entry = "INVALID" THEN [scan EXCEPT !.nullStreak = 0]
    ELSE [scan EXCEPT !.nullStreak = 0, !.maxExisting = id,
                      !.activeRound = IF isActiveRoundStatus(entry) THEN id ELSE @]

\* One batch of accounts that was read together, from id base on.
SeeBatch(scan, base, entries) ==
    LET Seen[k \in 0..BATCH] ==
            IF k = 0 THEN scan ELSE SeeEntry(Seen[k - 1], base + k - 1, entries[k])
    IN  Seen[BATCH]

LastBatch(scanStart, base, scan) == scan.over \/ base + BATCH > scanStart + MAX_SCAN

\* The last active round, or else the id after every round that exists or was archived.
ScanResult(scan, archivedMax) ==
    IF scan.activeRound > 0 THEN scan.activeRound
    ELSE (IF scan.maxExisting > archivedMax THEN scan.maxExisting ELSE archivedMax) + 1

\* findActiveRound starts two ids below the last archived round.
ScanFrom(archivedMax) == IF archivedMax > 3 THEN archivedMax - 2 ELSE 1

-----------------------------------------------------------------------------
\* runtimeLogic.ts: a delay is in seconds; what is written to the log is left out.

Lesser(a, b) == IF a < b THEN a ELSE b
Greater(a, b) == IF a > b THEN a ELSE b

\* Mutant of computeCleanupRetryDelay: the delay is doubled without its upper limit.
UncappedRetryDelay(currentDelaySec, fast) ==
    IF fast THEN Lesser(CLEANUP_BACKOFF_MIN_SEC, 2)
    ELSE Greater(CLEANUP_BACKOFF_MIN_SEC, currentDelaySec * 2)

\* The delay is doubled up to its limit; a pass that made progress is followed soon.
computeCleanupRetryDelay(currentDelaySec, fast) ==
    IF fast THEN Lesser(CLEANUP_BACKOFF_MIN_SEC, 2)
    ELSE Lesser(CLEANUP_BACKOFF_MAX_SEC,
                Greater(CLEANUP_BACKOFF_MIN_SEC, currentDelaySec * 2))

\* What ended a pass over a round, with the numbers of participant records it found and
\* closed.
ParticipantsPending(existing, closed) ==
    [kind |-> "participants_pending", existing |-> existing, closed |-> closed]
Failed(kind) == [kind |-> kind, existing |-> 0, closed |-> 0]

FailureKinds == {"left_terminal_state", "close_round_failed", "background_error"}

\* describeCleanupRetryOutcome: whether the outcome calls for a retry at all, and whether
\* for a fast one.
RetryNeeded(outcome) ==
    outcome.kind = "participants_pending" => outcome.existing - outcome.closed > 0
RetryFast(outcome) == outcome.kind = "participants_pending" /\ outcome.closed > 0

\* planCleanupRetryScheduleForOutcome, for an outcome that needs a retry: the new delay,
\* which is also the time until the next attempt.
RetryDelay(outcome, currentDelaySec) ==
    computeCleanupRetryDelay(currentDelaySec, RetryFast(outcome))

=============================================================================

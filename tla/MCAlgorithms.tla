---------------------------- MODULE MCAlgorithms ----------------------------
(***************************************************************************)
(* The pure algorithms of the system, each driven over every small input:  *)
(* the ticket tree of the program, the crank's scan for a round and its    *)
(* backoff, the tokens of a degen prize, and the byte layouts.  They share *)
(* no state.  `part` says which of them a behaviour is about; the          *)
(* variables of the others rest.                                           *)
(***************************************************************************)
EXTENDS CrankLogic, FiniteSetsExt

CONSTANTS
    MaxId,          \* scan: accounts exist at ids up to this one
    MaxRecords      \* retry: participant records of the round

VARIABLE part

Rests == "rests"    \* value of the variables of the other parts

-----------------------------------------------------------------------------
(* The tree, with six nodes and with more levels. *)

VARIABLES tree_bit, tree_tickets

treeVars == <<tree_bit, tree_tickets>>

\* Updates at every index.
SmallTree == INSTANCE FenwickTree
    WITH bit <- tree_bit, tickets <- tree_tickets, MAX_PARTICIPANTS <- 6, U64_MAX <- 10,
         Touched <- 1..6, MaxTickets <- 2

\* Updates at the ends of the array and around the powers of two.
WideTree == INSTANCE FenwickTree
    WITH bit <- tree_bit, tickets <- tree_tickets, MAX_PARTICIPANTS <- 70, U64_MAX <- 12,
         Touched <- {1, 32, 64, 69, 70}, MaxTickets <- 2

\* After any deposits and refunds each node holds the tickets of the range it stands for,
\* bit_find_prefix returns the owner of every ticket, and the
\* checked arithmetic of the nodes never refuses what the totals admit: no deposit that
\* passed the check of total_tickets (bit_add) and no refund (bit_sub).
TreeIsExact ==
    /\ part = "tree" => /\ SmallTree!NodesHoldRanges
                        /\ SmallTree!FindPrefixIsOwner
                        /\ SmallTree!SubNeverUnderflows
                        /\ SmallTree!AddNeverOverflows
    /\ part = "wide" => WideTree!NodesHoldRanges /\ WideTree!FindPrefixIsOwner

-----------------------------------------------------------------------------
(* The scan over every small set of round accounts, batch by batch. *)

VARIABLES
    scan_entries,       \* the account of each id
    scan_archivedMax,
    scan_base,          \* the first id of the next batch
    scan_known,
    scan_result         \* 0 until the scan is over

scanVars == <<scan_entries, scan_archivedMax, scan_base, scan_known, scan_result>>

EntryOf(id) == IF id \in 1..MaxId THEN scan_entries[id] ELSE "ABSENT"

ScanInit ==
    /\ scan_entries \in [1..MaxId -> {"ABSENT", "INVALID", "OPEN", "CLAIMED"}]
    /\ scan_archivedMax \in 0..MaxId
    /\ scan_base = ScanFrom(scan_archivedMax)
    /\ scan_known = ScanStart
    /\ scan_result = 0

\* scanForActiveRound: one pass of its outer loop.
ScanBatch ==
    LET s == SeeBatch(scan_known, scan_base,
                      [k \in 1..BATCH |-> EntryOf(scan_base + k - 1)])
    IN  /\ scan_result = 0
        /\ scan_known' = s
        /\ scan_base' = scan_base + BATCH
        /\ scan_result' = IF LastBatch(ScanFrom(scan_archivedMax), scan_base, s)
                          THEN ScanResult(s, scan_archivedMax) ELSE 0
        /\ UNCHANGED <<scan_entries, scan_archivedMax>>

\* The ids from the start of the scan to the end of its last batch.
Window ==
    {id \in 1..(2 * MaxId + MAX_SCAN + BATCH) :
        /\ id >= ScanFrom(scan_archivedMax)
        /\ (id - ScanFrom(scan_archivedMax)) \div BATCH <= MAX_SCAN \div BATCH}

Existing == {id \in Window : EntryOf(id) \notin {"ABSENT", "INVALID"}}

\* No round lies beyond NULL_STREAK_LIMIT or more empty ids that follow another round.
NoLongGap ==
    \A id \in Existing : \A earlier \in Existing :
        earlier < id =>
            ~\E g \in earlier..(id - NULL_STREAK_LIMIT) :
                \A k \in 1..NULL_STREAK_LIMIT : EntryOf(g + k) = "ABSENT"

\* Over any accounts without a gap that ends the scan, and however they fall into
\* batches, scanForActiveRound returns the last active round of the window, or else the
\* id after every round that exists or was archived.
ScanFindsRound ==
    part = "scan" =>
        (scan_result # 0 /\ NoLongGap =>
            LET active == {id \in Existing : isActiveRoundStatus(EntryOf(id))}
            IN  scan_result = IF active # {} THEN Max(active)
                              ELSE Max(Existing \cup {scan_archivedMax}) + 1)

-----------------------------------------------------------------------------
(* One round in the crank's background list, under every sequence of outcomes of its *)
(* cleanup passes, with the deployed delays.                                         *)

VARIABLES
    retry_delay,        \* cleanupBackoffSec of the round
    retry_wait,         \* seconds until its next attempt is allowed
    retry_records,      \* participant records that are left
    retry_failures,     \* passes without progress since the last one with progress
    retry_start         \* the delay from which the failures doubled it

retryVars == <<retry_delay, retry_wait, retry_records, retry_failures, retry_start>>

\* trackBackgroundRound.
RetryInit ==
    /\ retry_delay = CLEANUP_BACKOFF_MIN_SEC
    /\ retry_wait = CLOSE_DELAY_SEC
    /\ retry_records \in 1..MaxRecords
    /\ retry_failures = 0
    /\ retry_start = CLEANUP_BACKOFF_MIN_SEC

Second ==
    /\ retry_wait > 0
    /\ retry_wait' = retry_wait - 1
    /\ UNCHANGED <<retry_delay, retry_records, retry_failures, retry_start>>

\* scheduleCleanupRetryOutcome.
Schedule(outcome) ==
    /\ retry_delay' = RetryDelay(outcome, retry_delay)
    /\ retry_wait' = retry_delay'
    /\ retry_failures' = IF RetryFast(outcome) THEN 0 ELSE retry_failures + 1
    /\ retry_start' = IF RetryFast(outcome) THEN retry_delay' ELSE retry_start

MaxFailures == 6        \* bound on the count, above the doublings that reach the limit

\* A pass closes some of the records, or fails.
Pass ==
    /\ retry_wait = 0
    /\ retry_records > 0
    /\ \/ \E closed \in 0..(retry_records - 1) :
              /\ closed = 0 => retry_failures < MaxFailures
              /\ Schedule(ParticipantsPending(retry_records, closed))
              /\ retry_records' = retry_records - closed
       \/ /\ retry_failures < MaxFailures
          /\ \E kind \in FailureKinds : Schedule(Failed(kind))
          /\ UNCHANGED retry_records

\* The last records are closed, and the round with them: no retry.
LastPass ==
    /\ retry_wait = 0
    /\ retry_records > 0
    /\ ~RetryNeeded(ParticipantsPending(retry_records, retry_records))
    /\ retry_records' = 0
    /\ UNCHANGED <<retry_delay, retry_wait, retry_failures, retry_start>>

RetryNext == Second \/ Pass \/ LastPass

Pow2[n \in Nat] == IF n = 0 THEN 1 ELSE 2 * Pow2[n - 1]

\* After any mix of passes the delay is the doubling, as often as passes failed in a row,
\* of the delay that the last progress left, within the two limits; so a round that
\* waits for refunds is asked about at the slowest pace at most, and one whose cleanup
\* advances at the fastest.
DelayIsBackoff ==
    part = "retry" =>
        (retry_failures > 0 =>
            /\ retry_delay <= CLEANUP_BACKOFF_MAX_SEC
            /\ retry_delay >= CLEANUP_BACKOFF_MIN_SEC
            /\ retry_start = CLEANUP_BACKOFF_MIN_SEC =>
                   retry_delay = Lesser(CLEANUP_BACKOFF_MAX_SEC,
                                        retry_start * Pow2[retry_failures])
            /\ retry_start < CLEANUP_BACKOFF_MIN_SEC =>
                   retry_delay = Lesser(CLEANUP_BACKOFF_MAX_SEC,
                                        CLEANUP_BACKOFF_MIN_SEC * Pow2[retry_failures - 1]))

-----------------------------------------------------------------------------
(* The tokens of a degen prize. *)

VARIABLES pool_pool, pool_listed, pool_raydium, pool_deployed
VARIABLES draw_hash, draw_count, draw_rank, draw_nonce, draw_used, draw_out

poolVars == <<pool_pool, pool_listed, pool_raydium, pool_deployed>>
drawVars == <<draw_hash, draw_count, draw_rank, draw_nonce, draw_used, draw_out>>

\* Two tokens that are traded, one of them with a pool that is too small and with rows that
\* tell different things of its freeze authority, and a stablecoin.
TokenRows ==
    {[mint |-> 1, freeze |-> "disabled", traded |-> TRUE],
     [mint |-> 2, freeze |-> "unknown", traded |-> TRUE],
     [mint |-> 2, freeze |-> "active", traded |-> TRUE],
     [mint |-> 1, freeze |-> "disabled", traded |-> FALSE],
     [mint |-> 3, freeze |-> "disabled", traded |-> TRUE]}

Tokens == INSTANCE DegenTokens
    WITH pool <- pool_pool, listed <- pool_listed, raydium <- pool_raydium,
         deployed <- pool_deployed, hash <- draw_hash, count <- draw_count,
         rank <- draw_rank, nonce <- draw_nonce, used <- draw_used, out <- draw_out,
         Rows <- TokenRows, Stable <- {3}, ROWS <- 2, TOP <- 2,
         POOL <- 3, COUNT <- 4, NONCES <- 2, RAW <- 4

\* The candidates of a claim are different tokens that anyone can derive: a generated pool
\* has exactly the admitted tokens, an index of whichever list is deployed means one token,
\* the index of a rank does not depend on the size of the window, and no two ranks share
\* one.
CandidatesAreTokens ==
    /\ part = "pool" => Tokens!PoolIsClean /\ Tokens!IndexMeansOneToken
    /\ part = "draw" => Tokens!RankIsStable /\ Tokens!AllDifferent

-----------------------------------------------------------------------------
(* The byte layouts. *)

VARIABLES account_parser, account_count, account_reads
VARIABLES ix_sender, ix_ix, ix_data, ix_written

accountVars == <<account_parser, account_count, account_reads>>
ixVars == <<ix_sender, ix_ix, ix_data, ix_written>>

Bytes == INSTANCE Layouts
    WITH parser <- account_parser, count <- account_count, reads <- account_reads,
         sender <- ix_sender, ix <- ix_ix, data <- ix_data, written <- ix_written,
         DISC <- 8, MAX_PARTICIPANTS <- 200

\* The hand-written layouts agree with the program's: every read of every parser, the three
\* misreads of the degen smoke script aside, takes exactly the bytes of the field it is
\* meant to be, and what the program reads as an argument is what the script wrote as it.
LayoutsAgree ==
    /\ part = "accounts" => Bytes!ReadsItsField
    /\ part = "instructions" => Bytes!ProgramReadsArguments

-----------------------------------------------------------------------------
Parts == {"tree", "wide", "scan", "retry", "pool", "draw", "accounts", "instructions"}

Init ==
    /\ part \in Parts
    /\ CASE part = "tree" -> SmallTree!Init
         [] part = "wide" -> WideTree!Init
         [] OTHER -> tree_bit = Rests /\ tree_tickets = Rests
    /\ IF part = "scan" THEN ScanInit
       ELSE /\ scan_entries = Rests /\ scan_archivedMax = Rests /\ scan_base = Rests
            /\ scan_known = Rests /\ scan_result = Rests
    /\ IF part = "retry" THEN RetryInit
       ELSE /\ retry_delay = Rests /\ retry_wait = Rests /\ retry_records = Rests
            /\ retry_failures = Rests /\ retry_start = Rests
    /\ IF part = "pool" THEN Tokens!PoolInit
       ELSE /\ pool_pool = Rests /\ pool_listed = Rests /\ pool_raydium = Rests
            /\ pool_deployed = Rests
    /\ IF part = "draw" THEN Tokens!DrawInit
       ELSE /\ draw_hash = Rests /\ draw_count = Rests /\ draw_rank = Rests
            /\ draw_nonce = Rests /\ draw_used = Rests /\ draw_out = Rests
    /\ IF part = "accounts" THEN Bytes!AccountInit
       ELSE account_parser = Rests /\ account_count = Rests /\ account_reads = Rests
    /\ IF part = "instructions" THEN Bytes!InstructionInit
       ELSE ix_sender = Rests /\ ix_ix = Rests /\ ix_data = Rests /\ ix_written = Rests

Next ==
    \/ /\ \/ part = "tree" /\ SmallTree!Next
          \/ part = "wide" /\ WideTree!Next
       /\ UNCHANGED <<part, scanVars, retryVars, poolVars, drawVars, accountVars, ixVars>>
    \/ /\ part = "scan" /\ ScanBatch
       /\ UNCHANGED <<part, treeVars, retryVars, poolVars, drawVars, accountVars, ixVars>>
    \/ /\ part = "retry" /\ RetryNext
       /\ UNCHANGED <<part, treeVars, scanVars, poolVars, drawVars, accountVars, ixVars>>
    \/ /\ part = "pool" /\ Tokens!PoolNext
       /\ UNCHANGED <<part, treeVars, scanVars, retryVars, drawVars, accountVars, ixVars>>
    \/ /\ part = "draw" /\ Tokens!DrawNext
       /\ UNCHANGED <<part, treeVars, scanVars, retryVars, poolVars, accountVars, ixVars>>
    \/ /\ part = "accounts" /\ Bytes!AccountNext
       /\ UNCHANGED <<part, treeVars, scanVars, retryVars, poolVars, drawVars, ixVars>>
    \/ /\ part = "instructions" /\ Bytes!InstructionNext
       /\ UNCHANGED <<part, treeVars, scanVars, retryVars, poolVars, drawVars, accountVars>>

vars == <<part, treeVars, scanVars, retryVars, poolVars, drawVars, accountVars, ixVars>>

Spec == Init /\ [][Next]_vars

=============================================================================

----------------------------- MODULE DegenTokens -----------------------------
(***************************************************************************)
(* The tokens of a degen prize.  First the lists they are chosen from:     *)
(* scripts/generate_degen_pool.mjs writes the pool of the crank and of the *)
(* program, scripts/fetch_raydium_top100.mjs a list that the executor may  *)
(* load instead.  Then the choice: deriveCandidates of                     *)
(* crank/src/degenLogic.ts, deriveDegenCandidates of                       *)
(* src/src/lib/degenClaim.ts and derive_degen_candidate_indices of the     *)
(* program take the same candidates from a randomness.                     *)
(***************************************************************************)
EXTENDS Naturals, SequencesExt

CONSTANTS
    Rows,           \* rows of an answer of an API: [mint, freeze, traded]; a mint is a
                    \* number, in the order of localeCompare
    Stable,         \* STABLECOIN_MINTS, and EXCLUDE of the Raydium script
    ROWS,           \* length of an answer (bound of the model)
    TOP,            \* length of the Raydium list (100)
    POOL,           \* length of the pool that candidates are taken from
    COUNT,          \* largest candidate window
    NONCES,         \* the nonces that a hash is given for (bound of the model)
    RAW             \* hashes are below RAW (2^32 in the code)

VARIABLES
    pool,           \* the pool in the generated files
    listed,         \* the rows the generated files were made of
    raydium,        \* degen-pool-raydium-top100.json
    deployed        \* the pool that the executor runs with

poolVars == <<pool, listed, raydium, deployed>>

VARIABLES
    hash,           \* the first four bytes of SHA-256(randomness, version, rank, nonce)
    count, rank, nonce, used, out

drawVars == <<hash, count, rank, nonce, used, out>>

-----------------------------------------------------------------------------
(* The pools. *)

PoolInit == pool = <<>> /\ listed = <<>> /\ raydium = <<>> /\ deployed = <<>>

\* The rows kept: no stablecoin, no freeze authority that is reported active,
\* liquidity and volume
fetchVerified(rows) ==
    SelectSeq(rows, LAMBDA r : r.mint \notin Stable /\ r.freeze # "active" /\ r.traded)

\* One row per mint, in the order of the mints
normalizeTokens(rows) ==
    SetToSortSeq({rows[k].mint : k \in 1..Len(rows)}, LAMBDA a, b : a < b)

\* main of generate_degen_pool: the crank's and the program's file
Generate(rows) ==
    /\ pool' = normalizeTokens(fetchVerified(rows))
    /\ listed' = rows
    /\ UNCHANGED <<raydium, deployed>>

\* The mints that the RPC node reports as having a freeze authority; an answer
\* without a result reports none
findMintsWithFreezeAuthority(rows, answered) ==
    IF answered THEN {r.mint : r \in {x \in ToSet(rows) : x.freeze = "active"}} ELSE {}

\* The largest pool of a mint stands for it; `seen` is in the order of the liquidity, so it
\* is the first
FirstOfMint(seen, k) == \A j \in 1..(k - 1) : seen[j].mint # seen[k].mint

\* main of fetch_raydium_top100; the order of the rows is that of the final sort
FetchRaydium(rows, answered) ==
    LET seen == SelectSeq(rows, LAMBDA r : r.mint \notin Stable /\ r.traded)
        frozen == findMintsWithFreezeAuthority(seen, answered)
        firsts == {k \in 1..Len(seen) : FirstOfMint(seen, k) /\ seen[k].mint \notin frozen}
        sorted == SetToSortSeq(firsts, LAMBDA a, b : a < b)
        mints == [k \in 1..Len(sorted) |-> seen[sorted[k]].mint]
    IN  /\ raydium' = SubSeq(mints, 1, IF Len(mints) < TOP THEN Len(mints) ELSE TOP)
        /\ UNCHANGED <<pool, listed, deployed>>

\* The executor starts with the generated pool, or with the Raydium list
Deploy(dynamic) ==
    /\ deployed' = IF dynamic THEN raydium ELSE pool
    /\ UNCHANGED <<pool, listed, raydium>>

PoolNext ==
    \/ \E rows \in BoundedSeq(Rows, ROWS) : Generate(rows)
    \/ \E rows \in BoundedSeq(Rows, ROWS), answered \in BOOLEAN : FetchRaydium(rows, answered)
    \/ \E dynamic \in BOOLEAN : Deploy(dynamic)

\* A generated pool has only tokens that some row of the answer reports as traded and not
\* frozen, no stablecoin, and all of them; and it is in the order that the program's and
\* the crank's copies of it share.
PoolIsClean ==
    /\ ToSet(pool) = {r.mint : r \in {x \in ToSet(listed) : x.freeze # "active" /\ x.traded}} \ Stable
    /\ \A k \in 1..(Len(pool) - 1) : pool[k] < pool[k + 1]

\* Whichever list the executor was started with, an index of it means one token: different
\* candidates are different tokens.
IndexMeansOneToken == \A j, k \in 1..Len(deployed) : deployed[j] = deployed[k] => j = k

-----------------------------------------------------------------------------
(* The candidates.  For each rank hashes with nonces 0, 1, ... are taken modulo the length *)
(* of the pool until one is new.                                                           *)

limit == IF count < POOL THEN count ELSE POOL

\* The hashes of a rank meet every index of the pool, so each search ends
Row == {f \in [0..NONCES -> 0..(RAW - 1)] : {f[n] % POOL : n \in 0..NONCES} = 0..(POOL - 1)}

DrawInit ==
    /\ hash \in [0..(POOL - 1) -> Row] /\ count \in 0..COUNT
    /\ rank = 0 /\ nonce = 0 /\ used = {} /\ out = <<>>

\* Mutant of index: the rank is left out of the hash
indexUnranked == hash[0][nonce] % POOL

index == hash[rank][nonce] % POOL

\* One turn of the inner loop
Draw ==
    /\ rank < limit
    /\ IF index \notin used
       THEN /\ used' = used \cup {index} /\ out' = Append(out, index)
            /\ rank' = rank + 1 /\ nonce' = 0
       ELSE nonce' = nonce + 1 /\ UNCHANGED <<used, out, rank>>
    /\ UNCHANGED <<hash, count>>

DrawNext == Draw

\* What the program's derive_degen_candidate_index_at_rank means: the index of rank k is
\* the first, in the order of the nonces, that no lower rank has.
FirstNew(k, taken) ==
    LET n == CHOOSE n \in 0..NONCES :
                 /\ hash[k][n] % POOL \notin taken
                 /\ \A m \in 0..(n - 1) : hash[k][m] % POOL \in taken
    IN hash[k][n] % POOL

\* A candidate depends on the ranks below it and not on the count, so a window of 10 and
\* one of 30 agree on the ranks they share.
RankIsStable ==
    \A k \in 1..Len(out) : out[k] = FirstNew(k - 1, {out[j] : j \in 1..(k - 1)})

\* When the loop ends there are min(count, pool) candidates, all different.
AllDifferent ==
    rank = limit => Len(out) = limit /\ Cardinality({out[k] : k \in 1..Len(out)}) = limit

=============================================================================

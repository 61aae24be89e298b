---------------------------- MODULE JackpotState ----------------------------
(***************************************************************************)
(* The accounts of the jackpot program for one round id, and the token     *)
(* accounts and outstanding randomness requests around them.               *)
(*                                                                         *)
(* A Solana instruction either commits all its writes or none, so each     *)
(* instruction is one action.  The modules that extend this one follow the *)
(* program's own split into runtime/*_program.rs; an action there is the   *)
(* runtime's process_* function with the handler it calls.                 *)
(*                                                                         *)
(* Abstractions: a public key is a model value and NoKey the zero key;     *)
(* PDA derivation, discriminators, bumps, mints and token-account owner    *)
(* checks are left out (an action names the accounts they admit); a        *)
(* timestamp that nothing reads (start_ts, requested_at, fulfilled_at,     *)
(* claimed_at) is left out.                                                *)
(***************************************************************************)
EXTENDS Fenwick

CONSTANTS
    NumUsers,                   \* number of wallets that deposit
    Payers,                     \* wallets that pay for a VRF request
    Executors,                  \* degen executor wallets
    Treasuries,                 \* treasury USDC token accounts
    Admins,
    Tokens,                     \* token mints a degen claim can be paid in
    NoKey,                      \* the zero public key
    Randomness,                 \* answers of the degen randomness oracle
    Ranks,                      \* candidate ranks
    VRF_REIMBURSEMENT_USDC,
    DEFAULT_DEGEN_FALLBACK_TIMEOUT_SEC,
    U32_MAX,                    \* the largest value of a checked u32
    InitialUsdc,                \* USDC in a user's wallet at the start
    MaxTime,                    \* bound on the clock
    MaxStarts                   \* bound on start_round calls for the round id

VARIABLES
    now,            \* Clock::unix_timestamp
    config,         \* the Config account
    degenConfig,    \* the DegenConfig account
    round,          \* the Round account
    participant,    \* the Participant account of each user
    degenClaim,     \* the DegenClaim account of each possible winner
    vault,          \* the amount of the round's USDC token account
    usdc,           \* the amounts of the USDC token accounts of wallets
    received,       \* received[u][t]: the amount of user u's token account for t
    vrfPending,     \* round randomness requests the oracle has not answered
    degenPending,   \* degen randomness requests not answered, by winner
    starts          \* start_round calls so far

vars == <<now, config, degenConfig, round, participant, degenClaim, vault,
          usdc, received, vrfPending, degenPending, starts>>

\* A depositing wallet is a number, so that sums over users can be defined.
Users == 1..NumUsers

Wallets == Users \cup Payers \cup Executors \cup Treasuries

ASSUME JackpotAssumption ==
    /\ NumUsers \in Nat
    /\ NoKey \notin Wallets \cup Admins
    /\ VRF_REIMBURSEMENT_USDC \in Nat
    /\ DEFAULT_DEGEN_FALLBACK_TIMEOUT_SEC \in Nat \ {0}
    /\ U32_MAX \in Nat
    /\ InitialUsdc \in Nat
    /\ MaxTime \in Nat
    /\ MaxStarts \in Nat

BPS_DENOMINATOR == 10000

RoundStatus == {"ABSENT", "OPEN", "LOCKED", "VRF_REQUESTED", "SETTLED", "CLAIMED",
                "CANCELLED"}
DegenMode == {"NONE", "VRF_REQUESTED", "VRF_READY", "EXECUTING", "CLAIMED"}
DegenClaimStatus == {"NONE", "VRF_REQUESTED", "VRF_READY", "EXECUTING",
                     "CLAIMED_SWAPPED", "CLAIMED_FALLBACK"}

Config ==
    [exists : BOOLEAN, admin : Admins \cup {NoKey}, treasury : Treasuries \cup {NoKey},
     fee_bps : 0..BPS_DENOMINATOR, ticket_unit : Nat, round_duration_sec : Nat,
     min_participants : Nat, min_total_tickets : Nat, paused : BOOLEAN,
     max_deposit_per_user : Nat]

DegenConfig ==
    [exists : BOOLEAN, executor : Executors \cup {NoKey}, fallback_timeout_sec : Nat]

\* winning_ticket and winner are zero until the round is settled; vrf_payer is zero
\* until randomness is requested.
Round ==
    [status : RoundStatus, end_ts : Nat, first_deposit_ts : Nat,
     total_usdc : Nat, total_tickets : Nat, participants_count : 0..MAX_PARTICIPANTS,
     participants : [Indices -> Users \cup {NoKey}], bit : [Indices -> Nat],
     winning_ticket : Nat, winner : Users \cup {NoKey},
     vrf_payer : Payers \cup {NoKey}, vrf_reimbursed : BOOLEAN,
     degen_mode : DegenMode]

\* exists: the account is initialised with `round` equal to this round's key.
Participant ==
    [exists : BOOLEAN, index : 0..MAX_PARTICIPANTS, tickets_total : Nat,
     usdc_total : Nat, deposits_count : Nat]

DegenClaim ==
    [status : DegenClaimStatus, fallback_after_ts : Nat, payout_raw : Nat,
     executor : Executors \cup {NoKey}, receiver_pre_balance : Nat, min_out_raw : Nat,
     token_mint : Tokens \cup {NoKey}, token_index : Tokens \cup {NoKey},
     selected_candidate_rank : Ranks \cup {NoKey}, randomness : Randomness \cup {NoKey}]

NoConfig ==
    [exists |-> FALSE, admin |-> NoKey, treasury |-> NoKey, fee_bps |-> 0,
     ticket_unit |-> 0, round_duration_sec |-> 0, min_participants |-> 0,
     min_total_tickets |-> 0, paused |-> FALSE, max_deposit_per_user |-> 0]

NoDegenConfig == [exists |-> FALSE, executor |-> NoKey, fallback_timeout_sec |-> 0]

NoRound ==
    [status |-> "ABSENT", end_ts |-> 0, first_deposit_ts |-> 0,
     total_usdc |-> 0, total_tickets |-> 0, participants_count |-> 0,
     participants |-> [i \in Indices |-> NoKey], bit |-> EmptyTree,
     winning_ticket |-> 0, winner |-> NoKey, vrf_payer |-> NoKey,
     vrf_reimbursed |-> FALSE, degen_mode |-> "NONE"]

NoParticipant ==
    [exists |-> FALSE, index |-> 0, tickets_total |-> 0, usdc_total |-> 0,
     deposits_count |-> 0]

NoDegenClaim ==
    [status |-> "NONE", fallback_after_ts |-> 0, payout_raw |-> 0, executor |-> NoKey,
     receiver_pre_balance |-> 0, min_out_raw |-> 0, token_mint |-> NoKey,
     token_index |-> NoKey, selected_candidate_rank |-> NoKey, randomness |-> NoKey]

TypeOK ==
    /\ now \in Nat
    /\ config \in Config
    /\ degenConfig \in DegenConfig
    /\ round \in Round
    /\ participant \in [Users -> Participant]
    /\ degenClaim \in [Users -> DegenClaim]
    /\ vault \in Nat
    /\ usdc \in [Wallets -> Nat]
    /\ received \in [Users -> [Tokens -> Nat]]
    /\ vrfPending \in Nat
    /\ degenPending \in [Users -> Nat]
    /\ starts \in Nat

\* Unix time is never zero, which the program uses for "not set".
Init ==
    /\ now = 1
    /\ config = NoConfig
    /\ degenConfig = NoDegenConfig
    /\ round = NoRound
    /\ participant = [u \in Users |-> NoParticipant]
    /\ degenClaim = [u \in Users |-> NoDegenClaim]
    /\ vault = 0
    /\ usdc = [w \in Wallets |-> IF w \in Users THEN InitialUsdc ELSE 0]
    /\ received = [u \in Users |-> [t \in Tokens |-> 0]]
    /\ vrfPending = 0
    /\ degenPending = [u \in Users |-> 0]
    /\ starts = 0

-----------------------------------------------------------------------------
\* Mutant of ClaimAmounts: fee and payout are each rounded down.
ClaimAmountsRoundedTwice(total_usdc, fee_bps, reimburse_vrf) ==
    LET vrf_reimburse == IF ~reimburse_vrf THEN 0
                         ELSE IF VRF_REIMBURSEMENT_USDC < total_usdc
                              THEN VRF_REIMBURSEMENT_USDC ELSE total_usdc
        pot == total_usdc - vrf_reimburse
    IN  [vrf_reimburse |-> vrf_reimburse,
         fee |-> (pot * fee_bps) \div BPS_DENOMINATOR,
         payout |-> (pot * (BPS_DENOMINATOR - fee_bps)) \div BPS_DENOMINATOR]

\* Mutant of ClaimAmounts: the reimbursement is not limited by the pot.
ClaimAmountsUncapped(total_usdc, fee_bps, reimburse_vrf) ==
    LET vrf_reimburse == IF reimburse_vrf THEN VRF_REIMBURSEMENT_USDC ELSE 0
        pot == total_usdc - vrf_reimburse
        fee == (pot * fee_bps) \div BPS_DENOMINATOR
    IN  [vrf_reimburse |-> vrf_reimburse, fee |-> fee, payout |-> pot - fee]

\* compute_claim_amounts: what a claim pays the VRF payer, the treasury and the
\* winner.
ClaimAmounts(total_usdc, fee_bps, reimburse_vrf) ==
    LET vrf_reimburse == IF ~reimburse_vrf THEN 0
                         ELSE IF VRF_REIMBURSEMENT_USDC < total_usdc
                              THEN VRF_REIMBURSEMENT_USDC ELSE total_usdc
        pot == total_usdc - vrf_reimburse
        fee == (pot * fee_bps) \div BPS_DENOMINATOR
    IN  [vrf_reimburse |-> vrf_reimburse, fee |-> fee, payout |-> pot - fee]

\* The round still owes its VRF payer.
VrfPayerIsOwed == round.vrf_payer # NoKey /\ ~round.vrf_reimbursed

\* The token program: add amt to the token account of wallet w.
Credit(balances, w, amt) == [balances EXCEPT ![w] = @ + amt]

=============================================================================

------------------------------- MODULE Degen --------------------------------
(***************************************************************************)
(* The prize in a token: degen_vrf_program.rs, where the winner asks for a *)
(* second randomness, and degen_execution_program.rs, where the claim is   *)
(* paid by the executor's swap (begin, finalize) or in USDC to the winner  *)
(* (direct, or as the fallback after the timeout).                         *)
(***************************************************************************)
EXTENDS JackpotState

CONSTANTS
    MinOutRaws,         \* min_out_raw arguments of begin_degen_execution
    OtherEmptyAccount   \* whether the executor owns, and may pass, another empty account

ASSUME DegenExecutionAssumption ==
    /\ MinOutRaws \subseteq Nat
    /\ OtherEmptyAccount \subseteq BOOLEAN

\* The claim account is new: with any status it had before it is refused.
ClaimUnused(winner) == degenClaim[winner].status = "NONE"

RequestDegenVrf(winner) ==
    /\ round.status = "SETTLED"
    /\ round.winner = winner
    /\ round.degen_mode = "NONE"
    /\ ClaimUnused(winner)
    /\ round' = [round EXCEPT !.degen_mode = "VRF_REQUESTED"]
    /\ degenClaim' = [degenClaim EXCEPT
           ![winner] = [NoDegenClaim EXCEPT !.status = "VRF_REQUESTED"]]
    /\ degenPending' = [degenPending EXCEPT ![winner] = @ + 1]
    /\ UNCHANGED <<now, config, degenConfig, participant, vault, usdc, received,
                   vrfPending, starts>>

FallbackTimeout ==
    IF degenConfig.exists /\ degenConfig.fallback_timeout_sec # 0
    THEN degenConfig.fallback_timeout_sec
    ELSE DEFAULT_DEGEN_FALLBACK_TIMEOUT_SEC

\* The oracle answers a request of this winner.
DegenVrfCallback(winner, randomness) ==
    /\ degenPending[winner] > 0
    /\ round.status = "SETTLED"
    /\ round.degen_mode = "VRF_REQUESTED"
    /\ round.winner = winner
    /\ degenClaim[winner].status = "VRF_REQUESTED"
    /\ degenClaim' = [degenClaim EXCEPT
           ![winner] = [NoDegenClaim EXCEPT
               !.status = "VRF_READY",
               !.randomness = randomness,
               !.fallback_after_ts = now + FallbackTimeout,
               !.payout_raw = ClaimAmounts(round.total_usdc, config.fee_bps,
                                           VrfPayerIsOwed).payout]]
    /\ round' = [round EXCEPT !.degen_mode = "VRF_READY"]
    /\ degenPending' = [degenPending EXCEPT ![winner] = @ - 1]
    /\ UNCHANGED <<now, config, degenConfig, participant, vault, usdc, received,
                   vrfPending, starts>>

DegenVrfNext ==
    \E u \in Users :
        \/ RequestDegenVrf(u)
        \/ \E r \in Randomness : DegenVrfCallback(u, r)

-----------------------------------------------------------------------------
\* The claim that the account of user u holds is ready, and so is the round.
DegenReady(u) ==
    /\ round.status = "SETTLED"
    /\ round.degen_mode = "VRF_READY"
    /\ degenClaim[u].status = "VRF_READY"

\* An owed VRF payer must be paid, so the caller must pass the payer's accounts.
PayerAccountsOk(payer_given) == VrfPayerIsOwed => payer_given

Amounts == ClaimAmounts(round.total_usdc, config.fee_bps, VrfPayerIsOwed)

\* transfer_begin_amounts and transfer_fallback_amounts: they differ in who receives
\* the payout.
TransferDegenAmounts(receiver, amounts) ==
    /\ vault >= amounts.vrf_reimburse + amounts.payout + amounts.fee
    /\ vault' = vault - amounts.vrf_reimburse - amounts.payout - amounts.fee
    /\ LET reimbursed == IF amounts.vrf_reimburse > 0
                         THEN Credit(usdc, round.vrf_payer, amounts.vrf_reimburse)
                         ELSE usdc
       IN  usdc' = Credit(Credit(reimbursed, receiver, amounts.payout),
                          config.treasury, amounts.fee)

\* Mutant of MarkReimbursed: the reimbursement is paid and not recorded.
MarkReimbursedForgotten(r, amounts) == r

MarkReimbursed(r, amounts) ==
    [r EXCEPT !.vrf_reimbursed = @ \/ amounts.vrf_reimburse > 0]

\* The executor takes the payout to swap it for a token the winner will receive.
\* The candidate rank and the token index are recorded as given.
BeginDegenExecution(executor, u, rank, token_index, mint, min_out_raw, payer_given) ==
    /\ degenConfig.exists
    /\ degenConfig.executor = executor
    /\ usdc[executor] = 0
    /\ DegenReady(u)
    /\ PayerAccountsOk(payer_given)
    /\ round' = MarkReimbursed([round EXCEPT !.degen_mode = "EXECUTING"], Amounts)
    /\ degenClaim' = [degenClaim EXCEPT ![u] =
           [@ EXCEPT !.status = "EXECUTING",
                     !.selected_candidate_rank = rank,
                     !.token_index = token_index,
                     !.token_mint = mint,
                     !.executor = executor,
                     !.receiver_pre_balance = received[u][mint],
                     !.min_out_raw = min_out_raw,
                     !.payout_raw = Amounts.payout]]
    /\ TransferDegenAmounts(executor, Amounts)
    /\ UNCHANGED <<now, config, degenConfig, participant, received, vrfPending,
                   degenPending, starts>>

\* The receiver's account grew by the minimum.
OutputReceived(u) ==
    LET c == degenClaim[u]
    IN  /\ c.receiver_pre_balance + c.min_out_raw <= U64_MAX
        /\ received[u][c.token_mint] >= c.receiver_pre_balance + c.min_out_raw

\* other_empty: the executor passes an empty token account other than the one that
\* was paid; the account's mint is not compared here.
FinalizeDegenSuccess(executor, u, other_empty) ==
    /\ degenConfig.exists
    /\ degenConfig.executor = executor
    /\ degenClaim[u].executor = executor
    /\ degenClaim[u].status = "EXECUTING"
    /\ round.status = "SETTLED"
    /\ round.degen_mode = "EXECUTING"
    /\ OutputReceived(u)
    /\ usdc[executor] = 0 \/ other_empty
    /\ round' = [round EXCEPT !.status = "CLAIMED", !.degen_mode = "CLAIMED"]
    /\ degenClaim' = [degenClaim EXCEPT ![u].status = "CLAIMED_SWAPPED"]
    /\ UNCHANGED <<now, config, degenConfig, participant, vault, usdc, received,
                   vrfPending, degenPending, starts>>

\* The writes that claim_degen and the fallback share: the round is claimed, the
\* claim keeps its randomness and timeout and loses what an execution recorded.
PayInUsdc(winner, status, rank, token_index, payer_given) ==
    /\ DegenReady(winner)
    /\ round.winner = winner
    /\ PayerAccountsOk(payer_given)
    /\ round' = MarkReimbursed(
           [round EXCEPT !.status = "CLAIMED", !.degen_mode = "CLAIMED"], Amounts)
    /\ degenClaim' = [degenClaim EXCEPT ![winner] =
           [NoDegenClaim EXCEPT !.status = status,
                                !.selected_candidate_rank = rank,
                                !.token_index = token_index,
                                !.payout_raw = Amounts.payout,
                                !.randomness = degenClaim[winner].randomness,
                                !.fallback_after_ts = degenClaim[winner].fallback_after_ts]]
    /\ TransferDegenAmounts(winner, Amounts)
    /\ UNCHANGED <<now, config, degenConfig, participant, received, vrfPending,
                   degenPending, starts>>

\* The winner takes USDC without waiting, naming a rank and a token.
ClaimDegen(winner, rank, token_index, payer_given) ==
    PayInUsdc(winner, "CLAIMED_SWAPPED", rank, token_index, payer_given)

\* The timeout that the callback set has passed.
FallbackDue(winner) == now >= degenClaim[winner].fallback_after_ts

ClaimDegenFallback(winner, payer_given) ==
    /\ FallbackDue(winner)
    /\ PayInUsdc(winner, "CLAIMED_FALLBACK", NoKey, NoKey, payer_given)

\* Anyone pays for the transaction; the winner is read from the round.
AutoClaimDegenFallback(payer_given) ==
    /\ round.winner \in Users
    /\ ClaimDegenFallback(round.winner, payer_given)

DegenExecutionNext ==
    \E u \in Users, payer_given \in BOOLEAN :
        \/ \E e \in Executors, k \in Ranks, t, m \in Tokens, min_out_raw \in MinOutRaws :
               BeginDegenExecution(e, u, k, t, m, min_out_raw, payer_given)
        \/ \E k \in Ranks, t \in Tokens : ClaimDegen(u, k, t, payer_given)
        \/ ClaimDegenFallback(u, payer_given)
        \/ AutoClaimDegenFallback(payer_given)
        \/ \E e \in Executors, other_empty \in OtherEmptyAccount :
               FinalizeDegenSuccess(e, u, other_empty)

=============================================================================

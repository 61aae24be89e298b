------------------------------ MODULE Payments ------------------------------
(***************************************************************************)
(* The USDC that enters and leaves a round: deposits_program.rs,           *)
(* refunds_program.rs, claims_program.rs, terminal_cleanup_program.rs in   *)
(* runtime/.                                                               *)
(***************************************************************************)
EXTENDS JackpotState

CONSTANT MinOuts        \* min_out arguments

ASSUME DepositsAssumption == MinOuts \subseteq Nat

\* The participant record a deposit starts from: one that does not belong to this
\* round is initialised at the next free index, one that does is used as it is.
JoinedParticipant(u) ==
    IF participant[u].exists THEN participant[u]
    ELSE [NoParticipant EXCEPT !.exists = TRUE, !.index = round.participants_count + 1]

\* The array has a place for the user, or the user already has one.
RoomFor(u) == participant[u].exists \/ round.participants_count + 1 <= MAX_PARTICIPANTS

JoinedCount(u) == round.participants_count + (IF participant[u].exists THEN 0 ELSE 1)

JoinedArray(u) ==
    IF participant[u].exists THEN round.participants
    ELSE [round.participants EXCEPT ![round.participants_count + 1] = u]

\* The countdown starts with the deposit that brings in enough participants, and is
\* not moved by a later one.
EndTs(count) ==
    IF round.end_ts = 0 /\ count >= config.min_participants
    THEN now + config.round_duration_sec
    ELSE round.end_ts

\* Mutant of DepositAllowed: a deposit is accepted after the countdown ended.
DepositAllowedLate == ~config.paused /\ round.status = "OPEN"

DepositAllowed ==
    /\ ~config.paused
    /\ round.status = "OPEN"
    /\ ~(round.end_ts # 0 /\ now >= round.end_ts)

\* Mutant of AddToPot: the round's total counts the value of the tickets, not the amount paid.
AddToPotRounded(total, delta) == total + (delta \div config.ticket_unit) * config.ticket_unit

AddToPot(total, delta) == total + delta

\* deposit_any: what the user's USDC account holds beyond usdc_balance_before is
\* deposited, and the vault receives it.
DepositAny(u, usdc_balance_before, min_out) ==
    LET delta == usdc[u] - usdc_balance_before
        tickets_added == delta \div config.ticket_unit
        p == JoinedParticipant(u)
    IN  /\ DepositAllowed
        /\ usdc[u] >= usdc_balance_before
        /\ delta >= min_out
        /\ config.ticket_unit # 0
        /\ tickets_added # 0
        /\ RoomFor(u)
        /\ config.max_deposit_per_user > 0 =>
               p.usdc_total + delta <= config.max_deposit_per_user
        /\ p.usdc_total + delta <= U64_MAX
        /\ p.tickets_total + tickets_added <= U64_MAX
        /\ p.deposits_count + 1 <= U32_MAX
        /\ round.total_tickets + tickets_added <= U64_MAX
        /\ round.total_usdc + delta <= U64_MAX
        /\ BitAddOk(round.bit, p.index, tickets_added)
        /\ participant' = [participant EXCEPT ![u] =
               [p EXCEPT !.tickets_total = @ + tickets_added,
                         !.usdc_total = @ + delta,
                         !.deposits_count = @ + 1]]
        /\ round' = [round EXCEPT
               !.participants_count = JoinedCount(u),
               !.participants = JoinedArray(u),
               !.first_deposit_ts = IF @ = 0 THEN now ELSE @,
               !.end_ts = EndTs(JoinedCount(u)),
               !.total_tickets = @ + tickets_added,
               !.total_usdc = AddToPot(@, delta),
               !.bit = BitAdd(@, p.index, tickets_added)]
        /\ usdc' = [usdc EXCEPT ![u] = @ - delta]
        /\ vault' = vault + delta
        /\ UNCHANGED <<now, config, degenConfig, degenClaim, received, vrfPending,
                       degenPending, starts>>

DepositsNext ==
    \E u \in Users : \E before \in 0..usdc[u], min_out \in MinOuts :
        DepositAny(u, before, min_out)

-----------------------------------------------------------------------------
\* refunds_program.rs: a sole depositor leaves (cancel_round), and the depositors of a
\* cancelled round take their money back (claim_refund).

\* transfer_refund: the round signs for its vault, which must hold the amount.
TransferRefund(u, amount) ==
    /\ vault >= amount
    /\ vault' = vault - amount
    /\ usdc' = Credit(usdc, u, amount)

\* Both instructions leave the record with its index and without its stake.
Emptied(p) == [p EXCEPT !.usdc_total = 0, !.tickets_total = 0]

\* Only a participant who owns the whole pot may leave.
SoleDepositor(refund) == round.total_usdc = refund

CancelRound(u) ==
    LET p == participant[u]
    IN  /\ p.exists
        /\ p.usdc_total # 0
        /\ round.status = "OPEN"
        /\ SoleDepositor(p.usdc_total)
        /\ p.index # 0
        /\ BitSubOk(round.bit, p.index, p.tickets_total)
        /\ round.total_tickets >= p.tickets_total
        /\ round' = [round EXCEPT
               !.bit = BitSub(@, p.index, p.tickets_total),
               !.total_usdc = @ - p.usdc_total,
               !.total_tickets = @ - p.tickets_total,
               !.status = IF round.total_usdc - p.usdc_total = 0 THEN "CANCELLED" ELSE @]
        /\ participant' = [participant EXCEPT ![u] = Emptied(@)]
        /\ TransferRefund(u, p.usdc_total)
        /\ UNCHANGED <<now, config, degenConfig, degenClaim, received, vrfPending,
                       degenPending, starts>>

\* Mutant of Refunded: the record keeps its stake, so the refund can be claimed again.
RefundedKept(p) == p

Refunded(p) == Emptied(p)

\* The round's totals are not touched.
ClaimRefund(u) ==
    LET p == participant[u]
    IN  /\ p.exists
        /\ p.usdc_total # 0
        /\ round.status = "CANCELLED"
        /\ participant' = [participant EXCEPT ![u] = Refunded(@)]
        /\ TransferRefund(u, p.usdc_total)
        /\ UNCHANGED <<now, config, degenConfig, round, degenClaim, received,
                       vrfPending, degenPending, starts>>

RefundsNext == \E u \in Users : CancelRound(u) \/ ClaimRefund(u)

-----------------------------------------------------------------------------
\* claims_program.rs: the USDC claim of a settled round, by the winner (claim) or by
\* anyone for the winner (auto_claim).

\* transfer_claim_amounts: the vault pays the VRF payer, the winner and the treasury,
\* and the instruction fails when it holds less.
TransferClaimAmounts(winner, amounts) ==
    /\ vault >= amounts.vrf_reimburse + amounts.payout + amounts.fee
    /\ vault' = vault - amounts.vrf_reimburse - amounts.payout - amounts.fee
    /\ LET reimbursed == IF amounts.vrf_reimburse > 0
                         THEN Credit(usdc, round.vrf_payer, amounts.vrf_reimburse)
                         ELSE usdc
       IN  usdc' = Credit(Credit(reimbursed, winner, amounts.payout),
                          config.treasury, amounts.fee)

\* Mutant of PlainClaimAllowed: a claim that ignores a degen claim in progress.
PlainClaimAllowedAnyMode(winner) == round.status = "SETTLED" /\ round.winner = winner

PlainClaimAllowed(winner) ==
    /\ round.status = "SETTLED"
    /\ round.degen_mode = "NONE"
    /\ round.winner = winner

\* Mutant of AfterClaim: the round stays settled after it paid.
AfterClaimStillSettled(amounts) ==
    [round EXCEPT !.vrf_reimbursed = @ \/ amounts.vrf_reimburse > 0]

\* The writes of the handler.
AfterClaim(amounts) ==
    [round EXCEPT !.status = "CLAIMED",
                  !.vrf_reimbursed = @ \/ amounts.vrf_reimburse > 0]

\* payer_given: the caller passed the token account of the VRF payer, which is
\* optional here.
PayWinner(winner, payer_given) ==
    LET amounts == ClaimAmounts(round.total_usdc, config.fee_bps,
                                VrfPayerIsOwed /\ payer_given)
    IN  /\ PlainClaimAllowed(winner)
        /\ round' = AfterClaim(amounts)
        /\ TransferClaimAmounts(winner, amounts)
        /\ UNCHANGED <<now, config, degenConfig, participant, degenClaim, received,
                       vrfPending, degenPending, starts>>

\* The winner signs.
Claim(winner, payer_given) == PayWinner(winner, payer_given)

\* Anyone pays for the transaction; the prize goes to the winner's token account.
AutoClaim(payer_given) ==
    /\ round.winner \in Users
    /\ PayWinner(round.winner, payer_given)

ClaimsNext ==
    \E payer_given \in BOOLEAN :
        \/ \E u \in Users : Claim(u, payer_given)
        \/ AutoClaim(payer_given)

-----------------------------------------------------------------------------
\* terminal_cleanup_program.rs: closing the accounts of a round that is over.

Terminal == round.status \in {"CLAIMED", "CANCELLED"}

\* In a cancelled round a record is closed only after its refund.
NothingOwed(p) ==
    round.status = "CANCELLED" => p.usdc_total = 0 /\ p.tickets_total = 0

\* The account's data is gone; the user gets the rent back.
CloseParticipant(u) ==
    /\ participant[u].exists
    /\ Terminal
    /\ NothingOwed(participant[u])
    /\ participant' = [participant EXCEPT ![u] = NoParticipant]
    /\ UNCHANGED <<now, config, degenConfig, round, degenClaim, vault, usdc,
                   received, vrfPending, degenPending, starts>>

\* Any signer closes the round and its vault.  What the vault still holds is first
\* moved to the account the caller passes as the treasury's (sweep_to, compared with
\* nothing); without one (NoKey) the vault must be empty, as the token program refuses
\* to close an account that is not.
CloseRound(sweep_to) ==
    /\ Terminal
    /\ IF sweep_to = NoKey THEN vault = 0 /\ UNCHANGED usdc
                           ELSE usdc' = Credit(usdc, sweep_to, vault)
    /\ vault' = 0
    /\ round' = NoRound
    /\ UNCHANGED <<now, config, degenConfig, participant, degenClaim, received,
                   vrfPending, degenPending, starts>>

=============================================================================

------------------------------ MODULE Jackpot ------------------------------
(***************************************************************************)
(* The jackpot program for one round id: every instruction, the clock, and *)
(* the token transfers that others may make around it.                     *)
(*                                                                         *)
(* Two specifications differ in who closes the round.  The program lets    *)
(* any signer close a finished round (Spec).  The crank, which operates    *)
(* the deployed rounds, first closes every participant record and only     *)
(* then the round (OperatedSpec).                                          *)
(***************************************************************************)
EXTENDS RoundLifecycle, Payments, Degen

CONSTANTS
    SwapOuts,       \* tokens one swap can deliver
    Donors,         \* wallets that send USDC to the vault on their own
    SweepTargets    \* accounts that a closer other than the crank passes

ASSUME EnvironmentAssumption ==
    /\ SwapOuts \subseteq Nat
    /\ Donors \subseteq Wallets
    /\ SweepTargets \subseteq Wallets

\* The chain's clock.
Tick ==
    /\ now < MaxTime
    /\ now' = now + 1
    /\ UNCHANGED <<config, degenConfig, round, participant, degenClaim, vault, usdc,
                   received, vrfPending, degenPending, starts>>

\* The executor's swap: USDC leaves its account, and the exchange delivers some
\* amount of a token, possibly none.
Swap(executor, u, mint, amount, out) ==
    /\ amount <= usdc[executor]
    /\ usdc' = [usdc EXCEPT ![executor] = @ - amount]
    /\ received' = [received EXCEPT ![u][mint] = @ + out]
    /\ UNCHANGED <<now, config, degenConfig, round, participant, degenClaim, vault,
                   vrfPending, degenPending, starts>>

\* Anyone can transfer USDC to the vault's address outside the program.
Donate(w, amount) ==
    /\ amount <= usdc[w]
    /\ usdc' = [usdc EXCEPT ![w] = @ - amount]
    /\ vault' = vault + amount
    /\ UNCHANGED <<now, config, degenConfig, round, participant, degenClaim, received,
                   vrfPending, degenPending, starts>>

EnvironmentNext ==
    \/ Tick
    \/ \E e \in Executors, u \in Users, m \in Tokens, out \in SwapOuts :
           \E amount \in 1..usdc[e] : Swap(e, u, m, amount, out)
    \/ \E w \in Donors : \E amount \in 1..usdc[w] : Donate(w, amount)

\* Every instruction except close_round.
InstructionNext ==
    \/ AdminNext
    \/ LifecycleNext
    \/ DepositsNext
    \/ RefundsNext
    \/ ClaimsNext
    \/ DegenVrfNext
    \/ DegenExecutionNext
    \/ \E u \in Users : CloseParticipant(u)

AnyoneCloses == \E w \in SweepTargets \cup {NoKey} : CloseRound(w)

\* The crank's cleanup: no participant record is left when it closes the round.  It
\* passes the treasury account it was deployed with, which the configuration may have
\* left behind.
CrankCloses ==
    /\ \A u \in Users : ~participant[u].exists
    /\ \E t \in Treasuries : CloseRound(t)

Next == InstructionNext \/ EnvironmentNext \/ AnyoneCloses

OperatedNext == InstructionNext \/ EnvironmentNext \/ CrankCloses

Spec == Init /\ [][Next]_vars

OperatedSpec == Init /\ [][OperatedNext]_vars

\* The clock runs; the crank tries lock_round and request_vrf again on every pass of
\* its loop until the round has left the status, and the oracle answers.
FairSpec ==
    /\ OperatedSpec
    /\ WF_vars(Tick)
    /\ WF_vars(LockRound)
    /\ WF_vars(\E p \in Payers : RequestVrf(p))
    /\ WF_vars(\E rand \in 0..(round.total_tickets - 1) : VrfCallback(rand))

-----------------------------------------------------------------------------
\* The prize is still in the vault.
PrizeHeld ==
    \/ round.status \in {"OPEN", "LOCKED", "VRF_REQUESTED"}
    \/ round.status = "SETTLED" /\ round.degen_mode # "EXECUTING"

\* From the first deposit until the prize is paid out or the round is cancelled, the
\* vault holds at least total_usdc: the transfers of claim, auto_claim, claim_degen,
\* begin_degen_execution and the fallback cannot fail for lack of funds, whatever
\* happened in earlier rounds with the same id.
VaultCoversPot == PrizeHeld => vault >= round.total_usdc

Stakes == [u \in Users |-> participant[u].usdc_total]
Tickets == [u \in Users |-> participant[u].tickets_total]

\* Until the prize is paid out, and for ever in a cancelled round, the vault holds what
\* every depositor could claim back: each claim_refund of a cancelled round succeeds,
\* in any order and whatever force-cancellation, partial refund or cleanup came before.
RefundsCovered ==
    PrizeHeld \/ round.status = "CANCELLED" => vault >= Sum(NumUsers, Stakes)

\* While deposits can still be made or won, the round's totals are the sums over the
\* participant records: no deposit or cancellation lets the two drift apart.
TotalsAgree ==
    round.status \in {"OPEN", "LOCKED", "VRF_REQUESTED", "SETTLED"} =>
        /\ round.total_usdc = Sum(NumUsers, Stakes)
        /\ round.total_tickets = Sum(NumUsers, Tickets)

\* The tickets of the participant at each index of the array.
TicketsAt ==
    [i \in Indices |-> IF round.participants[i] = NoKey THEN 0
                       ELSE participant[round.participants[i]].tickets_total]

\* The round goes to the owner of the drawn ticket, where participants own consecutive
\* ranges of tickets in the order in which they joined.
WinnerOwnsTicket ==
    round.status = "SETTLED" =>
        \E i \in Indices :
            /\ round.participants[i] = round.winner
            /\ round.winner \in Users
            /\ PrefixSums(MAX_PARTICIPANTS, TicketsAt)[i-1] < round.winning_ticket
            /\ round.winning_ticket <= PrefixSums(MAX_PARTICIPANTS, TicketsAt)[i]

ActiveClaim == {"VRF_REQUESTED", "VRF_READY", "EXECUTING"}

\* The two accounts that record a degen claim agree: the round is in a degen mode
\* exactly when the winner's claim account is in the same phase, and no other claim
\* account is active.
DegenAccountsAgree ==
    /\ \A u \in Users : degenClaim[u].status \in ActiveClaim =>
           /\ round.status = "SETTLED"
           /\ round.winner = u
           /\ round.degen_mode = degenClaim[u].status
    /\ round.degen_mode \in ActiveClaim =>
           /\ round.status = "SETTLED"
           /\ round.winner \in Users
           /\ degenClaim[round.winner].status = round.degen_mode
    /\ round.degen_mode = "CLAIMED" => round.status = "CLAIMED"

\* The USDC leaves the vault of a settled round in one step that takes exactly
\* total_usdc and after which no claim path is open; otherwise the vault only pays
\* refunds and the sweep of a round that is over.
PrizePaidOnce ==
    [][vault' < vault =>
          \/ round.status \in {"OPEN", "CANCELLED"} /\ round'.status = "CANCELLED"
          \/ round'.status = "ABSENT"
          \/ /\ round.status = "SETTLED" /\ round.degen_mode # "EXECUTING"
             /\ vault - vault' = round.total_usdc
             /\ round'.status = "CLAIMED" \/ round'.degen_mode = "EXECUTING"]_vars

\* The VRF payer of a round is paid at most once, at most the fixed amount, and only
\* while the prize is paid.
VrfPayerPaidOnce ==
    [][\A p \in Payers : usdc'[p] > usdc[p] /\ round'.status # "ABSENT" =>
          /\ p = round.vrf_payer
          /\ ~round.vrf_reimbursed /\ round'.vrf_reimbursed
          /\ usdc'[p] - usdc[p] <= VRF_REIMBURSEMENT_USDC]_vars

\* A settled round keeps its winner and its pot until it is closed: no late answer of
\* the oracle, from this round or from an earlier one with its id, draws again.
DrawIsFinal ==
    [][round.status \in {"SETTLED", "CLAIMED"} /\ round'.status # "ABSENT" =>
          /\ round'.status \in {"SETTLED", "CLAIMED"}
          /\ round'.winner = round.winner
          /\ round'.winning_ticket = round.winning_ticket
          /\ round'.total_usdc = round.total_usdc]_vars

\* The countdown that a participant saw when depositing stands: its end is not moved,
\* and the pot does not grow after it.
CountdownStands ==
    [][round.end_ts # 0 /\ round'.status # "ABSENT" =>
          /\ round'.end_ts = round.end_ts
          /\ round'.total_usdc > round.total_usdc => now < round.end_ts]_vars

\* A countdown that has started ends in a draw or in a cancellation, unless the
\* configuration is changed under it.
CountdownLeadsToDraw ==
    round.status = "OPEN" /\ round.end_ts \in 1..MaxTime
        ~> round.status \in {"SETTLED", "CLAIMED", "CANCELLED", "ABSENT"}

\* What the comments on admin_force_cancel say of a cancelled round: its deposits stay
\* in the vault until the depositors have taken them back.
DepositsStayForRefunds ==
    [][round.status = "CANCELLED" /\ vault' < vault =>
          vault' >= Sum(NumUsers, Stakes')]_vars

-----------------------------------------------------------------------------
\* The program, with the crank closing its rounds, implements the contract of a round.

\* The countdown that end_ts and the clock stand for.
CountdownOf ==
    IF round.end_ts = 0 THEN "none"
    ELSE IF now < round.end_ts THEN "running" ELSE "over"

\* The prize has left the vault.
PrizePaid ==
    \/ round.status = "CLAIMED"
    \/ round.status = "SETTLED" /\ round.degen_mode = "EXECUTING"

Contract == INSTANCE RoundContract WITH
    phase <- round.status,
    countdown <- CountdownOf,
    staked <- Stakes,
    escrow <- vault,
    paid <- PrizePaid

\* Whatever the accounts go through, a client that watches a round sees the contract: one
\* countdown, one payment of exactly the stakes or a refund of each, and no close that
\* loses a refund.
RoundContractKept == Contract!ContractSpec

=============================================================================

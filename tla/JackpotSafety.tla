--------------------------- MODULE JackpotSafety ---------------------------
(***************************************************************************)
(* Type correctness of Jackpot for both of its specifications, and safety  *)
(* under Spec, where anyone closes a finished round: the vault covers the  *)
(* pot, the prize leaves it once, the draw is final, the countdown stands  *)
(* once it has begun, the payer of the randomness request is paid back     *)
(* once, and the two accounts that record a degen claim agree.             *)
(***************************************************************************)
EXTENDS Jackpot, TLAPS

\* A leaf that names no prover is given to SMT, for so many seconds at most.
USE SMTT(60)

-----------------------------------------------------------------------------
(* Types, and the arithmetic of a claim on which the other proofs rest. *)

\* What the proofs use of BPS_DENOMINATOR.
LEMMA Denominator == BPS_DENOMINATOR \in Nat \ {0}
PROOF
BY DEF BPS_DENOMINATOR

\* compute_claim_amounts splits the pot: the three amounts are not negative, add up to
\* the total, and the VRF payer gets at most the fixed amount.
LEMMA ClaimAmountsSplit ==
    ASSUME NEW total \in Nat, NEW fee_bps \in 0..BPS_DENOMINATOR, NEW reimburse \in BOOLEAN
    PROVE  LET a == ClaimAmounts(total, fee_bps, reimburse)
           IN  /\ a.vrf_reimburse \in Nat
               /\ a.fee \in Nat
               /\ a.payout \in Nat
               /\ a.vrf_reimburse + a.payout + a.fee = total
               /\ a.vrf_reimburse <= VRF_REIMBURSEMENT_USDC
PROOF
<1> DEFINE v == IF ~reimburse THEN 0
                ELSE IF VRF_REIMBURSEMENT_USDC < total
                     THEN VRF_REIMBURSEMENT_USDC ELSE total
           pot == total - v
           fee == (pot * fee_bps) \div BPS_DENOMINATOR
<1> HIDE DEF v, pot, fee
<1>1. v \in Nat /\ v <= total /\ v <= VRF_REIMBURSEMENT_USDC
  <2>1. CASE ~reimburse
    BY <2>1, JackpotAssumption DEF v
  <2>2. CASE reimburse
    BY <2>2, JackpotAssumption DEF v
  <2>3. QED
    BY <2>1, <2>2, Zenon
<1>2. pot \in Nat
  BY <1>1 DEF pot
<1>3. fee \in Nat /\ fee <= pot
  <2>1. BPS_DENOMINATOR \in Nat \ {0}
    BY Denominator, Zenon
  <2>2. fee_bps \in Nat /\ fee_bps <= BPS_DENOMINATOR
    BY <2>1
  <2>3. pot * fee_bps \in Nat /\ pot * fee_bps <= pot * BPS_DENOMINATOR
    BY <1>2, <2>1, <2>2
  <2>4. \A d \in Nat \ {0}, x \in Nat : x <= pot * d => x \div d \in Nat /\ x \div d <= pot
    BY <1>2
  <2>5. QED
    BY <2>1, <2>3, <2>4, Zenon DEF fee
<1>4. ClaimAmounts(total, fee_bps, reimburse)
        = [vrf_reimburse |-> v, fee |-> fee, payout |-> pot - fee]
  BY Zenon DEF ClaimAmounts, v, pot, fee
<1>5. pot - fee \in Nat /\ v + (pot - fee) + fee = total
  BY <1>1, <1>2, <1>3 DEF pot
<1>6. QED
  BY <1>1, <1>3, <1>4, <1>5

\* A fee is a natural number, at most BPS_DENOMINATOR.
LEMMA FeeRange == \A x : x \in 0..BPS_DENOMINATOR <=> x \in Nat /\ x <= BPS_DENOMINATOR
PROOF
<1>1. BPS_DENOMINATOR \in Nat
  BY Denominator
<1>2. ASSUME NEW x \in 0..BPS_DENOMINATOR PROVE x \in Nat /\ x <= BPS_DENOMINATOR
  BY <1>1
<1>3. ASSUME NEW x \in Nat, x <= BPS_DENOMINATOR PROVE x \in 0..BPS_DENOMINATOR
  BY <1>1, <1>3
<1>4. QED
  BY <1>2, <1>3, Zenon

\* The zeroed round account has its type.
LEMMA NoRoundType == NoRound \in Round
PROOF
BY FenwickAssumption, JackpotAssumption
DEF NoRound, Round, RoundStatus, DegenMode, EmptyTree, Indices

\* The fields of the zeroed round account, and of a round that start_round has opened.
LEMMA BlankRound ==
    /\ NoRound.status = "ABSENT" /\ NoRound.end_ts = 0 /\ NoRound.first_deposit_ts = 0
    /\ NoRound.total_usdc = 0 /\ NoRound.total_tickets = 0 /\ NoRound.degen_mode = "NONE"
    /\ \A s : LET r == [NoRound EXCEPT !.status = s]
             IN  /\ r.status = s /\ r.end_ts = 0 /\ r.first_deposit_ts = 0
                 /\ r.total_usdc = 0 /\ r.total_tickets = 0 /\ r.degen_mode = "NONE"
PROOF
BY DEF NoRound

\* The initial accounts have their types.
LEMMA TypeInit == Init => TypeOK
PROOF
<1> SUFFICES ASSUME Init PROVE TypeOK
  OBVIOUS
<1> USE FenwickAssumption, JackpotAssumption
<1>1. config \in Config
  BY DEF Init, NoConfig, Config, BPS_DENOMINATOR
<1>2. degenConfig \in DegenConfig
  BY DEF Init, NoDegenConfig, DegenConfig
<1>3. round \in Round
  BY NoRoundType DEF Init
<1>4. participant \in [Users -> Participant]
  BY DEF Init, NoParticipant, Participant
<1>5. degenClaim \in [Users -> DegenClaim]
  BY DEF Init, NoDegenClaim, DegenClaim, DegenClaimStatus
<1>6. usdc \in [Wallets -> Nat]
  BY DEF Init
<1>7. QED
  BY <1>1, <1>2, <1>3, <1>4, <1>5, <1>6 DEF Init, TypeOK

-----------------------------------------------------------------------------
\* The administrator's instructions keep the types: what they write was validated.
LEMMA AdminTypes == ASSUME TypeOK, AdminNext PROVE TypeOK'
PROOF
<1> USE DEF TypeOK
<1>0. \A v \in Nat : AtLeastOne(v) \in Nat
  BY DEF AtLeastOne
<1>1. ASSUME NEW a \in Admins, NEW t \in Treasuries, NEW args \in InitArgs,
             InitConfig(a, t, args)
      PROVE  TypeOK'
  <2> HIDE DEF TypeOK
  <2>1. args \in [fee_bps : Nat, ticket_unit : Nat, round_duration_sec : Nat,
                  min_participants : Nat, min_total_tickets : Nat,
                  max_deposit_per_user : Nat]
    BY AdminAssumption
  <2>2. /\ args.fee_bps \in Nat /\ args.ticket_unit \in Nat
        /\ args.round_duration_sec \in Nat /\ args.max_deposit_per_user \in Nat
        /\ args.min_participants \in Nat /\ args.min_total_tickets \in Nat
    BY <2>1
  <2>3. args.fee_bps \in 0..BPS_DENOMINATOR
    BY <1>1, <2>2, FeeRange, Zenon DEF InitConfig, ValidConfig
  <2>4. config' \in Config
    BY <1>0, <1>1, <2>2, <2>3, Zenon DEF InitConfig, Config
  <2>5. QED
    BY <1>1, <2>4 DEF InitConfig, TypeOK
<1>2. ASSUME NEW a \in Admins, NEW args \in UpdateArgs, UpdateConfig(a, args)
      PROVE  TypeOK'
  <2>1. \A field \in {"fee_bps", "ticket_unit", "round_duration_sec", "min_participants",
                      "min_total_tickets", "max_deposit_per_user"} :
          \A old \in Nat : OrElse(args, field, old) \in Nat
    BY AdminAssumption DEF OrElse
  <2>2. \A old \in BOOLEAN : OrElse(args, "paused", old) \in BOOLEAN
    BY AdminAssumption DEF OrElse
  <2> HIDE DEF TypeOK
  <2>3. config \in Config
    BY DEF TypeOK
  <2>4. /\ config.ticket_unit \in Nat
        /\ config.round_duration_sec \in Nat /\ config.min_participants \in Nat
        /\ config.min_total_tickets \in Nat /\ config.max_deposit_per_user \in Nat
    BY <2>3 DEF Config
  <2>5. config.paused \in BOOLEAN
    BY <2>3, Zenon DEF Config
  <2>6. config.fee_bps \in 0..BPS_DENOMINATOR
    BY <2>3, Zenon DEF Config
  <2>7. config.fee_bps \in Nat
    BY <2>6, FeeRange, Zenon
  <2> DEFINE c == Updated(config, args)
             fee == OrElse(args, "fee_bps", config.fee_bps)
  <2>8. c = [config EXCEPT
              !.fee_bps = fee,
              !.ticket_unit = OrElse(args, "ticket_unit", config.ticket_unit),
              !.round_duration_sec =
                  OrElse(args, "round_duration_sec", config.round_duration_sec),
              !.min_participants =
                  AtLeastOne(OrElse(args, "min_participants", config.min_participants)),
              !.min_total_tickets =
                  AtLeastOne(OrElse(args, "min_total_tickets", config.min_total_tickets)),
              !.paused = OrElse(args, "paused", config.paused),
              !.max_deposit_per_user =
                  OrElse(args, "max_deposit_per_user", config.max_deposit_per_user)]
    BY <2>3 DEF Updated, Config
  <2>9. c.fee_bps = fee
    BY <2>3, <2>8 DEF Config
  <2>10. fee \in 0..BPS_DENOMINATOR
    BY <1>2, <2>1, <2>7, <2>9, FeeRange, Zenon DEF UpdateConfig, ValidConfig
  <2> HIDE DEF fee
  <2>11. c \in Config
    <3> DEFINE unit == OrElse(args, "ticket_unit", config.ticket_unit)
               duration == OrElse(args, "round_duration_sec", config.round_duration_sec)
               players ==
                 AtLeastOne(OrElse(args, "min_participants", config.min_participants))
               tickets ==
                 AtLeastOne(OrElse(args, "min_total_tickets", config.min_total_tickets))
               paused == OrElse(args, "paused", config.paused)
               most == OrElse(args, "max_deposit_per_user", config.max_deposit_per_user)
    <3>1. unit \in Nat /\ duration \in Nat /\ most \in Nat
      BY <2>1, <2>4, Zenon
    <3>2. players \in Nat /\ tickets \in Nat
      BY <1>0, <2>1, <2>4, Zenon
    <3>3. paused \in BOOLEAN
      BY <2>2, <2>5, Zenon
    <3> HIDE DEF unit, duration, players, tickets, paused, most, c
    <3>4. c = [config EXCEPT !.fee_bps = fee, !.ticket_unit = unit,
                             !.round_duration_sec = duration, !.min_participants = players,
                             !.min_total_tickets = tickets, !.paused = paused,
                             !.max_deposit_per_user = most]
      BY <2>8 DEF unit, duration, players, tickets, paused, most
    <3>5. QED
      BY <2>3, <2>10, <3>1, <3>2, <3>3, <3>4, Zenon DEF Config
  <2>12. QED
    BY <1>2, <2>11 DEF UpdateConfig, TypeOK, c
<1>3. ASSUME NEW a \in Admins, NEW e \in Executors, NEW timeout \in TimeoutArgs,
             UpsertDegenConfig(a, e, timeout)
      PROVE  TypeOK'
  <2>1. degenConfig' \in DegenConfig
    BY <1>3, JackpotAssumption, AdminAssumption DEF UpsertDegenConfig, DegenConfig
  <2>2. QED
    BY <1>3, <2>1 DEF UpsertDegenConfig
<1>4. ASSUME NEW a \in Admins, NEW t \in Treasuries, SetTreasuryUsdcAta(a, t)
      PROVE  TypeOK'
  <2>1. config' \in Config
    BY <1>4, Zenon DEF SetTreasuryUsdcAta, Config
  <2>2. QED
    BY <1>4, <2>1, Zenon DEF SetTreasuryUsdcAta
<1>5. ASSUME NEW a \in Admins, NEW b \in Admins, TransferAdmin(a, b)
      PROVE  TypeOK'
  <2>1. config' \in Config
    BY <1>5, Zenon DEF TransferAdmin, Config
  <2>2. QED
    BY <1>5, <2>1, Zenon DEF TransferAdmin
<1>6. QED
  BY <1>1, <1>2, <1>3, <1>4, <1>5 DEF AdminNext

\* The round's lifecycle keeps the types; the winner is an entry of the participant
\* array.
LEMMA LifecycleTypes == ASSUME TypeOK, LifecycleNext PROVE TypeOK'
PROOF
<1> USE DEF TypeOK
<1>1. ASSUME StartRound PROVE TypeOK'
  <2>1. round' \in Round
    BY <1>1, NoRoundType, Zenon DEF StartRound, Round, RoundStatus
  <2>2. QED
    BY <1>1, <2>1 DEF StartRound
<1>2. ASSUME LockRound PROVE TypeOK'
  BY <1>2, Zenon DEF LockRound, Round, RoundStatus
<1>3. ASSUME NEW p \in Payers, RequestVrf(p) PROVE TypeOK'
  <2>1. round' \in Round
    BY <1>3, Zenon DEF RequestVrf, Round, RoundStatus
  <2>2. QED
    BY <1>3, <2>1 DEF RequestVrf
<1>4. ASSUME NEW rand \in 0..(round.total_tickets - 1), VrfCallback(rand) PROVE TypeOK'
  <2>1. WinningTicket(rand, round.total_tickets) \in Nat
    BY DEF WinningTicket, Round
  <2>2. round' \in Round
    BY <1>4, <2>1, Zenon DEF VrfCallback, Round, RoundStatus
  <2>3. vrfPending' \in Nat
    BY <1>4 DEF VrfCallback
  <2>4. QED
    BY <1>4, <2>2, <2>3 DEF VrfCallback
<1>5. ASSUME NEW a \in Admins, AdminForceCancel(a) PROVE TypeOK'
  BY <1>5, Zenon DEF AdminForceCancel, Round, RoundStatus
<1>6. QED
  BY <1>1, <1>2, <1>3, <1>4, <1>5 DEF LifecycleNext, VrfNext

-----------------------------------------------------------------------------
\* bit_add keeps the nodes natural numbers, and so does bit_sub when its checks pass.
LEMMA BitTypes ==
    ASSUME NEW bit \in [Indices -> Nat], NEW index, NEW delta \in Nat
    PROVE  /\ BitAdd(bit, index, delta) \in [Indices -> Nat]
           /\ BitSubOk(bit, index, delta) => BitSub(bit, index, delta) \in [Indices -> Nat]
PROOF
BY DEF BitAdd, BitSub, BitSubOk

\* A deposit keeps the types: a place in the array is taken only when there is one.
LEMMA DepositTypes == ASSUME TypeOK, DepositsNext PROVE TypeOK'
PROOF
<1> SUFFICES ASSUME NEW u \in Users, NEW before \in 0..usdc[u], NEW min_out \in MinOuts,
                    DepositAny(u, before, min_out)
             PROVE  TypeOK'
  BY DEF DepositsNext
<1> DEFINE delta == usdc[u] - before
           tickets == delta \div config.ticket_unit
           p == JoinedParticipant(u)
<1> USE FenwickAssumption
<1>1. u \in Wallets /\ usdc[u] \in Nat /\ now \in Nat
  BY DEF Wallets, TypeOK
<1>2. delta \in Nat
  BY <1>1
<1>3. config.ticket_unit \in Nat /\ config.round_duration_sec \in Nat
  BY DEF TypeOK, Config
<1>4. tickets \in Nat
  <2>1. config.ticket_unit # 0
    BY DEF DepositAny
  <2> HIDE DEF delta
  <2>2. QED
    BY <1>2, <1>3, <2>1
<1>5. p \in Participant
  <2>1. CASE participant[u].exists
    BY <2>1 DEF TypeOK, JoinedParticipant
  <2>2. CASE ~participant[u].exists
    <3>1. round.participants_count + 1 \in 0..MAX_PARTICIPANTS
      BY <2>2 DEF TypeOK, Round, DepositAny, RoomFor
    <3>2. QED
      BY <2>2, <3>1, Zenon DEF JoinedParticipant, NoParticipant, Participant
  <2>3. QED
    BY <2>1, <2>2
<1> HIDE DEF delta, tickets, p
<1>6. participant' \in [Users -> Participant]
  <2>1. [p EXCEPT !.tickets_total = @ + tickets, !.usdc_total = @ + delta,
                  !.deposits_count = @ + 1] \in Participant
    <3>1. /\ p.tickets_total + tickets \in Nat /\ p.usdc_total + delta \in Nat
          /\ p.deposits_count + 1 \in Nat
      BY <1>2, <1>4, <1>5 DEF Participant
    <3>2. QED
      BY <1>5, <3>1, Zenon DEF Participant
  <2>2. QED
    BY <2>1 DEF TypeOK, DepositAny, p, tickets, delta
<1>7. round' \in Round
  <2>1. JoinedCount(u) \in 0..MAX_PARTICIPANTS
    BY DEF TypeOK, Round, DepositAny, RoomFor, JoinedCount
  <2>2. JoinedArray(u) \in [Indices -> Users \cup {NoKey}]
    BY Zenon DEF TypeOK, Round, JoinedArray
  <2>3. EndTs(JoinedCount(u)) \in Nat
    BY <1>1, <1>3 DEF TypeOK, Round, EndTs
  <2>4. BitAdd(round.bit, p.index, tickets) \in [Indices -> Nat]
    BY <1>4, BitTypes DEF TypeOK, Round
  <2>5. /\ round.total_tickets + tickets \in Nat
        /\ AddToPot(round.total_usdc, delta) \in Nat
        /\ (IF round.first_deposit_ts = 0 THEN now ELSE round.first_deposit_ts) \in Nat
    BY <1>1, <1>2, <1>4 DEF TypeOK, Round, AddToPot
  <2>6. round' = [round EXCEPT
               !.participants_count = JoinedCount(u),
               !.participants = JoinedArray(u),
               !.first_deposit_ts =
                   IF round.first_deposit_ts = 0 THEN now ELSE round.first_deposit_ts,
               !.end_ts = EndTs(JoinedCount(u)),
               !.total_tickets = round.total_tickets + tickets,
               !.total_usdc = AddToPot(round.total_usdc, delta),
               !.bit = BitAdd(round.bit, p.index, tickets)]
    BY DEF TypeOK, Round, DepositAny, p, tickets, delta
  <2>7. QED
    BY <2>1, <2>2, <2>3, <2>4, <2>5, <2>6, Zenon DEF TypeOK, Round
<1>8. usdc' \in [Wallets -> Nat]
  <2>1. usdc[u] - delta \in Nat
    BY <1>1 DEF delta
  <2>2. usdc' = [usdc EXCEPT ![u] = usdc[u] - delta]
    BY DEF DepositAny, delta
  <2>3. QED
    BY <2>1, <2>2, Zenon DEF TypeOK
<1>9. vault' \in Nat
  BY <1>2 DEF TypeOK, DepositAny, delta
<1>10. QED
  BY <1>6, <1>7, <1>8, <1>9, Zenon DEF TypeOK, DepositAny

\* Refunds keep the types: no total and no balance goes below zero.
LEMMA RefundTypes == ASSUME TypeOK, RefundsNext PROVE TypeOK'
PROOF
<1> SUFFICES ASSUME NEW u \in Users, CancelRound(u) \/ ClaimRefund(u)
             PROVE  TypeOK'
  BY DEF RefundsNext
<1> DEFINE p == participant[u]
<1>1. p \in Participant /\ u \in Wallets
  BY DEF TypeOK, Wallets
<1>2. p.usdc_total \in Nat /\ p.tickets_total \in Nat
  BY <1>1 DEF Participant
<1>3. participant' \in [Users -> Participant]
  <2>1. Emptied(p) \in Participant
    BY <1>1, Zenon DEF Emptied, Participant
  <2>2. participant' = [participant EXCEPT ![u] = Emptied(p)]
    BY DEF CancelRound, ClaimRefund, Refunded
  <2> HIDE DEF p
  <2>3. QED
    BY <2>1, <2>2 DEF TypeOK
<1> HIDE DEF p
<1>4. vault' \in Nat /\ usdc' \in [Wallets -> Nat]
  <2>1. TransferRefund(u, p.usdc_total)
    BY DEF CancelRound, ClaimRefund, p
  <2>2. QED
    BY <1>1, <1>2, <2>1 DEF TypeOK, TransferRefund, Credit
<1>5. CASE CancelRound(u)
  <2>1. BitSub(round.bit, p.index, p.tickets_total) \in [Indices -> Nat]
    BY <1>2, <1>5, BitTypes, Zenon DEF TypeOK, Round, CancelRound, p
  <2>2. round.total_usdc - p.usdc_total \in Nat /\ round.total_tickets - p.tickets_total \in Nat
    BY <1>2, <1>5 DEF TypeOK, Round, CancelRound, SoleDepositor, p
  <2>3. round' \in Round
    BY <1>5, <2>1, <2>2, Zenon DEF TypeOK, Round, RoundStatus, CancelRound, p
  <2>4. QED
    BY <1>3, <1>4, <1>5, <2>3, Zenon DEF TypeOK, CancelRound
<1>6. CASE ClaimRefund(u)
  BY <1>3, <1>4, <1>6 DEF TypeOK, ClaimRefund
<1>7. QED
  BY <1>5, <1>6

-----------------------------------------------------------------------------
\* A credit keeps balances natural numbers.
LEMMA CreditType ==
    ASSUME NEW b \in [Wallets -> Nat], NEW w, NEW amt \in Nat
    PROVE  Credit(b, w, amt) \in [Wallets -> Nat]
PROOF
<1>1. Credit(b, w, amt) = [x \in Wallets |-> IF x = w THEN b[w] + amt ELSE b[x]]
  BY Zenon DEF Credit
<1>2. \A x \in Wallets : (IF x = w THEN b[w] + amt ELSE b[x]) \in Nat
  <2>1. ASSUME NEW x \in Wallets, x = w PROVE b[w] + amt \in Nat
    <3>1. b[w] \in Nat
      BY <2>1
    <3>2. QED
      BY <3>1
  <2>2. QED
    BY <2>1
<1>3. QED
  BY <1>1, <1>2

\* The amounts of a claim on the round, with the VRF payer's part or without.
LEMMA RoundAmounts ==
    ASSUME TypeOK, NEW reimburse \in BOOLEAN
    PROVE  LET a == ClaimAmounts(round.total_usdc, config.fee_bps, reimburse)
           IN  /\ a.vrf_reimburse \in Nat
               /\ a.fee \in Nat
               /\ a.payout \in Nat
               /\ a.vrf_reimburse + a.payout + a.fee = round.total_usdc
PROOF
<1>1. round.total_usdc \in Nat
  BY DEF TypeOK, Round
<1>2. config.fee_bps \in 0..BPS_DENOMINATOR
  BY Zenon DEF TypeOK, Config
<1>3. QED
  BY <1>1, <1>2, ClaimAmountsSplit

\* The two transfer functions are the same operator under two names: they take exactly
\* the three amounts from the vault, and keep the types.
LEMMA TransferTypes ==
    ASSUME TypeOK, NEW w, NEW a, a.vrf_reimburse \in Nat, a.fee \in Nat, a.payout \in Nat,
           TransferClaimAmounts(w, a) \/ TransferDegenAmounts(w, a)
    PROVE  /\ vault' \in Nat
           /\ vault' = vault - (a.vrf_reimburse + a.payout + a.fee)
           /\ usdc' \in [Wallets -> Nat]
PROOF
<1>1. vault \in Nat /\ usdc \in [Wallets -> Nat]
  BY DEF TypeOK
<1>2. vault' \in Nat /\ vault' = vault - (a.vrf_reimburse + a.payout + a.fee)
  BY <1>1 DEF TransferClaimAmounts, TransferDegenAmounts
<1> DEFINE reimbursed == IF a.vrf_reimburse > 0
                         THEN Credit(usdc, round.vrf_payer, a.vrf_reimburse)
                         ELSE usdc
<1>3. reimbursed \in [Wallets -> Nat]
  BY <1>1, CreditType
<1>4. usdc' = Credit(Credit(reimbursed, w, a.payout), config.treasury, a.fee)
  BY DEF TransferClaimAmounts, TransferDegenAmounts
<1> HIDE DEF reimbursed
<1>5. Credit(reimbursed, w, a.payout) \in [Wallets -> Nat]
  BY <1>3, CreditType
<1>6. QED
  BY <1>2, <1>4, <1>5, CreditType

\* The USDC claims keep the types.
LEMMA ClaimTypes == ASSUME TypeOK, ClaimsNext PROVE TypeOK'
PROOF
<1> SUFFICES ASSUME NEW w, NEW payer_given \in BOOLEAN, PayWinner(w, payer_given)
             PROVE  TypeOK'
  BY DEF ClaimsNext, Claim, AutoClaim
<1> DEFINE a == ClaimAmounts(round.total_usdc, config.fee_bps, VrfPayerIsOwed /\ payer_given)
<1>1. (VrfPayerIsOwed /\ payer_given) \in BOOLEAN
  BY Zenon DEF VrfPayerIsOwed
<1>2. a.vrf_reimburse \in Nat /\ a.fee \in Nat /\ a.payout \in Nat
  BY <1>1, RoundAmounts, Zenon
<1>3. round' = AfterClaim(a) /\ TransferClaimAmounts(w, a)
  BY DEF PayWinner
<1> HIDE DEF a
<1>4. round' \in Round
  <2>1. (round.vrf_reimbursed \/ a.vrf_reimburse > 0) \in BOOLEAN
    BY Zenon
  <2>2. QED
    BY <1>3, <2>1, Zenon DEF TypeOK, AfterClaim, Round, RoundStatus
<1>5. vault' \in Nat /\ usdc' \in [Wallets -> Nat]
  BY <1>2, <1>3, TransferTypes
<1>6. QED
  BY <1>4, <1>5 DEF TypeOK, PayWinner

\* The degen randomness instructions keep the types.
LEMMA DegenVrfTypes == ASSUME TypeOK, DegenVrfNext PROVE TypeOK'
PROOF
<1>0. NoDegenClaim \in DegenClaim
  BY DEF NoDegenClaim, DegenClaim, DegenClaimStatus
<1>1. ASSUME NEW u \in Users, RequestDegenVrf(u) PROVE TypeOK'
  <2>1. round' \in Round
    BY <1>1, Zenon DEF TypeOK, RequestDegenVrf, Round, DegenMode
  <2>2. [NoDegenClaim EXCEPT !.status = "VRF_REQUESTED"] \in DegenClaim
    BY <1>0 DEF DegenClaim, DegenClaimStatus
  <2>3. degenClaim' \in [Users -> DegenClaim]
    BY <1>1, <2>2 DEF TypeOK, RequestDegenVrf
  <2>4. degenPending' \in [Users -> Nat]
    BY <1>1 DEF TypeOK, RequestDegenVrf
  <2>5. QED
    BY <1>1, <2>1, <2>3, <2>4 DEF TypeOK, RequestDegenVrf
<1>2. ASSUME NEW u \in Users, NEW r \in Randomness, DegenVrfCallback(u, r) PROVE TypeOK'
  <2> DEFINE payout == ClaimAmounts(round.total_usdc, config.fee_bps, VrfPayerIsOwed).payout
             c == [NoDegenClaim EXCEPT !.status = "VRF_READY", !.randomness = r,
                     !.fallback_after_ts = now + FallbackTimeout, !.payout_raw = payout]
  <2>1. VrfPayerIsOwed \in BOOLEAN
    BY Zenon DEF VrfPayerIsOwed
  <2>2. payout \in Nat
    BY <2>1, RoundAmounts
  <2>3. now + FallbackTimeout \in Nat
    BY JackpotAssumption DEF TypeOK, FallbackTimeout, DegenConfig
  <2>4. degenClaim' = [degenClaim EXCEPT ![u] = c]
    BY <1>2 DEF DegenVrfCallback
  <2> HIDE DEF payout
  <2>5. c \in DegenClaim
    BY <1>0, <2>2, <2>3, Zenon DEF DegenClaim, DegenClaimStatus
  <2>6. round' \in Round
    BY <1>2, Zenon DEF TypeOK, DegenVrfCallback, Round, DegenMode
  <2>7. degenPending' \in [Users -> Nat]
    BY <1>2 DEF TypeOK, DegenVrfCallback
  <2> HIDE DEF c
  <2>8. degenClaim' \in [Users -> DegenClaim]
    BY <2>4, <2>5 DEF TypeOK
  <2>9. QED
    BY <1>2, <2>6, <2>7, <2>8 DEF TypeOK, DegenVrfCallback
<1>3. QED
  BY <1>1, <1>2 DEF DegenVrfNext

\* The degen payments keep the types.
LEMMA DegenExecutionTypes == ASSUME TypeOK, DegenExecutionNext PROVE TypeOK'
PROOF
<1>1. Amounts.vrf_reimburse \in Nat /\ Amounts.fee \in Nat /\ Amounts.payout \in Nat
  <2>1. VrfPayerIsOwed \in BOOLEAN
    BY Zenon DEF VrfPayerIsOwed
  <2>2. QED
    BY <2>1, RoundAmounts DEF Amounts
<1>2. ASSUME NEW r \in Round PROVE MarkReimbursed(r, Amounts) \in Round
  <2>1. (r.vrf_reimbursed \/ Amounts.vrf_reimburse > 0) \in BOOLEAN
    BY Zenon
  <2>2. QED
    BY <2>1, Zenon DEF MarkReimbursed, Round
<1>3. ASSUME NEW e \in Executors, NEW u \in Users, NEW k \in Ranks, NEW t \in Tokens,
             NEW m \in Tokens, NEW min_out_raw \in MinOutRaws, NEW payer_given \in BOOLEAN,
             BeginDegenExecution(e, u, k, t, m, min_out_raw, payer_given)
      PROVE  TypeOK'
  <2>1. round' \in Round
    <3>1. [round EXCEPT !.degen_mode = "EXECUTING"] \in Round
      BY Zenon DEF TypeOK, Round, DegenMode
    <3>2. QED
      BY <1>2, <1>3, <3>1 DEF BeginDegenExecution
  <2>2. vault' \in Nat /\ usdc' \in [Wallets -> Nat]
    BY <1>1, <1>3, TransferTypes DEF BeginDegenExecution
  <2> DEFINE c == [degenClaim[u] EXCEPT
                     !.status = "EXECUTING", !.selected_candidate_rank = k,
                     !.token_index = t, !.token_mint = m, !.executor = e,
                     !.receiver_pre_balance = received[u][m],
                     !.min_out_raw = min_out_raw, !.payout_raw = Amounts.payout]
  <2>3. degenClaim' = [degenClaim EXCEPT ![u] = c]
    BY <1>3 DEF BeginDegenExecution
  <2>4. c \in DegenClaim
    <3>1. degenClaim[u] \in DegenClaim /\ received[u][m] \in Nat /\ min_out_raw \in Nat
      BY DegenExecutionAssumption DEF TypeOK
    <3>2. QED
      BY <1>1, <3>1, Zenon DEF DegenClaim, DegenClaimStatus
  <2> HIDE DEF c
  <2>5. degenClaim' \in [Users -> DegenClaim]
    BY <2>3, <2>4 DEF TypeOK
  <2>6. QED
    BY <1>3, <2>1, <2>2, <2>5 DEF TypeOK, BeginDegenExecution
<1>4. ASSUME NEW u \in Users, NEW status \in DegenClaimStatus, NEW k \in Ranks \cup {NoKey},
             NEW t \in Tokens \cup {NoKey}, NEW payer_given \in BOOLEAN,
             PayInUsdc(u, status, k, t, payer_given)
      PROVE  TypeOK'
  <2>1. round' \in Round
    <3>1. [round EXCEPT !.status = "CLAIMED", !.degen_mode = "CLAIMED"] \in Round
      BY Zenon DEF TypeOK, Round, RoundStatus, DegenMode
    <3>2. QED
      BY <1>2, <1>4, <3>1 DEF PayInUsdc
  <2>2. vault' \in Nat /\ usdc' \in [Wallets -> Nat]
    BY <1>1, <1>4, TransferTypes DEF PayInUsdc
  <2> DEFINE c == [NoDegenClaim EXCEPT
                     !.status = status, !.selected_candidate_rank = k, !.token_index = t,
                     !.payout_raw = Amounts.payout,
                     !.randomness = degenClaim[u].randomness,
                     !.fallback_after_ts = degenClaim[u].fallback_after_ts]
  <2>3. degenClaim' = [degenClaim EXCEPT ![u] = c]
    BY <1>4 DEF PayInUsdc
  <2>4. c \in DegenClaim
    <3>1. degenClaim[u] \in DegenClaim
      BY DEF TypeOK
    <3>2. QED
      BY <1>1, <3>1, Zenon DEF NoDegenClaim, DegenClaim
  <2> HIDE DEF c
  <2>5. degenClaim' \in [Users -> DegenClaim]
    BY <2>3, <2>4 DEF TypeOK
  <2>6. QED
    BY <1>4, <2>1, <2>2, <2>5 DEF TypeOK, PayInUsdc
<1>5. ASSUME NEW e \in Executors, NEW u \in Users, NEW other_empty,
             FinalizeDegenSuccess(e, u, other_empty)
      PROVE  TypeOK'
  <2>1. round' \in Round
    BY <1>5, Zenon DEF TypeOK, FinalizeDegenSuccess, Round, RoundStatus, DegenMode
  <2>2. degenClaim' \in [Users -> DegenClaim]
    <3>1. degenClaim' = [degenClaim EXCEPT ![u] =
                           [degenClaim[u] EXCEPT !.status = "CLAIMED_SWAPPED"]]
      BY <1>5 DEF FinalizeDegenSuccess
    <3>2. [degenClaim[u] EXCEPT !.status = "CLAIMED_SWAPPED"] \in DegenClaim
      <4>1. degenClaim[u] \in DegenClaim
        BY DEF TypeOK
      <4>2. "CLAIMED_SWAPPED" \in DegenClaimStatus
        BY DEF DegenClaimStatus
      <4>3. QED
        BY <4>1, <4>2 DEF DegenClaim
    <3>3. QED
      BY <3>1, <3>2 DEF TypeOK
  <2>3. QED
    BY <1>5, <2>1, <2>2 DEF TypeOK, FinalizeDegenSuccess
<1>6. "CLAIMED_SWAPPED" \in DegenClaimStatus /\ "CLAIMED_FALLBACK" \in DegenClaimStatus
  BY DEF DegenClaimStatus
<1>7. ASSUME NEW u \in Users, NEW payer_given \in BOOLEAN, ClaimDegenFallback(u, payer_given)
      PROVE  TypeOK'
  BY <1>4, <1>6, <1>7 DEF ClaimDegenFallback
<1>8. QED
  BY <1>3, <1>4, <1>5, <1>6, <1>7 DEF DegenExecutionNext, ClaimDegen, AutoClaimDegenFallback

\* Closing accounts keeps the types.
LEMMA CleanupTypes ==
    ASSUME TypeOK, (\E u \in Users : CloseParticipant(u)) \/ AnyoneCloses \/ CrankCloses
    PROVE  TypeOK'
PROOF
<1>1. ASSUME NEW u \in Users, CloseParticipant(u) PROVE TypeOK'
  <2>1. NoParticipant \in Participant
    BY FenwickAssumption DEF NoParticipant, Participant
  <2>2. QED
    BY <1>1, <2>1 DEF TypeOK, CloseParticipant
<1>2. ASSUME NEW w, CloseRound(w) PROVE TypeOK'
  <2>1. usdc' \in [Wallets -> Nat]
    BY <1>2, CreditType DEF TypeOK, CloseRound
  <2>2. QED
    BY <1>2, <2>1, NoRoundType DEF TypeOK, CloseRound
<1>3. QED
  BY <1>1, <1>2 DEF AnyoneCloses, CrankCloses

\* The environment keeps the types: nobody spends more than they have.
LEMMA EnvironmentTypes == ASSUME TypeOK, EnvironmentNext PROVE TypeOK'
PROOF
<1>1. ASSUME Tick PROVE TypeOK'
  BY <1>1 DEF TypeOK, Tick
<1>2. ASSUME NEW e \in Executors, NEW u \in Users, NEW m \in Tokens, NEW out \in SwapOuts,
             NEW amount \in 1..usdc[e], Swap(e, u, m, amount, out)
      PROVE  TypeOK'
  <2>1. e \in Wallets /\ out \in Nat
    BY EnvironmentAssumption DEF Wallets
  <2>2. usdc[e] - amount \in Nat
    BY <1>2, <2>1 DEF TypeOK, Swap
  <2>3. usdc' \in [Wallets -> Nat]
    BY <1>2, <2>2, Zenon DEF TypeOK, Swap
  <2>4. received' \in [Users -> [Tokens -> Nat]]
    BY <1>2, <2>1 DEF TypeOK, Swap
  <2>5. QED
    BY <1>2, <2>3, <2>4 DEF TypeOK, Swap
<1>3. ASSUME NEW w \in Donors, NEW amount \in 1..usdc[w], Donate(w, amount)
      PROVE  TypeOK'
  <2>1. usdc[w] - amount \in Nat /\ vault + amount \in Nat
    BY <1>3, EnvironmentAssumption DEF TypeOK, Donate
  <2>2. QED
    BY <1>3, <2>1, Zenon DEF TypeOK, Donate
<1>4. QED
  BY <1>1, <1>2, <1>3 DEF EnvironmentNext

\* Every step of either specification keeps the types.
LEMMA TypeStep == TypeOK /\ [Next \/ OperatedNext]_vars => TypeOK'
PROOF
<1>1. ASSUME TypeOK, UNCHANGED vars PROVE TypeOK'
  BY <1>1 DEF TypeOK, vars
<1>2. QED
  BY <1>1, AdminTypes, LifecycleTypes, DepositTypes, RefundTypes, ClaimTypes,
     DegenVrfTypes, DegenExecutionTypes, CleanupTypes, EnvironmentTypes
  DEF Next, OperatedNext, InstructionNext

\* Type correctness: every account field and every balance keeps its type, whoever
\* closes the round.  In particular no u64 subtraction of the program goes below zero:
\* totals, Fenwick nodes, balances of the vault and of wallets stay natural numbers.
THEOREM TypeCorrect == Spec => []TypeOK
PROOF
<1>1. TypeOK /\ [Next]_vars => TypeOK'
  BY TypeStep
<1>2. QED
  BY TypeInit, <1>1, PTL DEF Spec

\* The same for the specification in which the crank closes the round.
THEOREM OperatedTypeCorrect == OperatedSpec => []TypeOK
PROOF
<1>1. TypeOK /\ [OperatedNext]_vars => TypeOK'
  BY TypeStep
<1>2. QED
  BY TypeInit, <1>1, PTL DEF OperatedSpec

-----------------------------------------------------------------------------
(* Safety. *)

\* The steps that neither move vault funds nor change a settled round.
QuietNext ==
    \/ AdminNext
    \/ Tick
    \/ \E u \in Users : CloseParticipant(u)
    \/ \E e \in Executors, u \in Users, m \in Tokens, out \in SwapOuts :
           \E amount \in 1..usdc[e] : Swap(e, u, m, amount, out)
    \/ UNCHANGED vars

\* The round account, the claims and the vault are left alone by the administrator's
\* configuration, the clock, the closing of participant records and the swaps.
LEMMA QuietSteps ==
    ASSUME QuietNext
    PROVE  UNCHANGED <<round, degenClaim, vault>>
PROOF
<1>1. ASSUME AdminNext PROVE UNCHANGED <<round, degenClaim, vault>>
  BY <1>1 DEF AdminNext, InitConfig, UpdateConfig, UpsertDegenConfig,
              SetTreasuryUsdcAta, TransferAdmin
<1>2. QED
  BY <1>1 DEF QuietNext, Tick, CloseParticipant, Swap, vars

\* The vault gets what a deposit adds to the pot.
LEMMA DepositEffect ==
    ASSUME TypeOK, DepositsNext
    PROVE  /\ round.status = "OPEN"
           /\ \E delta \in Nat :
                 /\ vault' = vault + delta
                 /\ round'.total_usdc = round.total_usdc + delta
           /\ round'.status = round.status
           /\ round'.degen_mode = round.degen_mode
           /\ UNCHANGED degenClaim
PROOF
<1>a. PICK u \in Users : \E before \in 0..usdc[u], min_out \in MinOuts :
                              DepositAny(u, before, min_out)
  BY DEF DepositsNext
<1>b. PICK before \in 0..usdc[u], min_out \in MinOuts : DepositAny(u, before, min_out)
  BY <1>a
<1> DEFINE delta == usdc[u] - before
<1>1. delta \in Nat
  BY DEF TypeOK, Wallets
<1>2. vault' = vault + delta /\ UNCHANGED degenClaim /\ round.status = "OPEN"
  BY <1>b DEF DepositAny, DepositAllowed
<1>3. /\ round'.total_usdc = round.total_usdc + delta
      /\ round'.status = round.status /\ round'.degen_mode = round.degen_mode
  BY <1>b DEF TypeOK, Round, DepositAny, AddToPot
<1> HIDE DEF delta
<1>4. QED
  BY <1>1, <1>2, <1>3

\* A claim in USDC takes the whole pot from the vault and closes the round's claim.
LEMMA ClaimEffect ==
    ASSUME TypeOK, ClaimsNext
    PROVE  /\ round.status = "SETTLED"
           /\ round.degen_mode = "NONE"
           /\ vault' = vault - round.total_usdc
           /\ \E b \in BOOLEAN :
                 round' = [round EXCEPT !.status = "CLAIMED", !.vrf_reimbursed = b]
           /\ UNCHANGED degenClaim
PROOF
<1> SUFFICES ASSUME NEW w, NEW payer_given \in BOOLEAN, PayWinner(w, payer_given)
             PROVE  /\ round.status = "SETTLED"
                    /\ round.degen_mode = "NONE"
                    /\ vault' = vault - round.total_usdc
                    /\ \E b \in BOOLEAN :
                          round' = [round EXCEPT !.status = "CLAIMED", !.vrf_reimbursed = b]
                    /\ UNCHANGED degenClaim
  BY Zenon DEF ClaimsNext, Claim, AutoClaim
<1> DEFINE a == ClaimAmounts(round.total_usdc, config.fee_bps, VrfPayerIsOwed /\ payer_given)
<1>1. (VrfPayerIsOwed /\ payer_given) \in BOOLEAN
  BY Zenon DEF VrfPayerIsOwed
<1>2. /\ a.vrf_reimburse \in Nat /\ a.fee \in Nat /\ a.payout \in Nat
      /\ a.vrf_reimburse + a.payout + a.fee = round.total_usdc
  BY <1>1, RoundAmounts, Zenon
<1>3. /\ round' = AfterClaim(a) /\ TransferClaimAmounts(w, a) /\ UNCHANGED degenClaim
      /\ round.status = "SETTLED" /\ round.degen_mode = "NONE"
  BY DEF PayWinner, PlainClaimAllowed
<1> HIDE DEF a
<1>4. vault' = vault - round.total_usdc
  BY <1>2, <1>3, TransferTypes
<1>5. (round.vrf_reimbursed \/ a.vrf_reimburse > 0) \in BOOLEAN
  BY Zenon
<1>6. \E b \in BOOLEAN : round' = [round EXCEPT !.status = "CLAIMED", !.vrf_reimbursed = b]
  BY <1>3, <1>5, Zenon DEF AfterClaim
<1>7. QED
  BY <1>3, <1>4, <1>6, Zenon

\* The executor's start and the USDC payments of a degen claim take the whole pot from
\* the vault; the round leaves the phase in which the prize can be paid.
LEMMA DegenPaymentEffect ==
    ASSUME TypeOK, NEW u \in Users, NEW mode, NEW w, NEW status,
           DegenReady(u),
           round' = MarkReimbursed([round EXCEPT !.status = status, !.degen_mode = mode],
                                   Amounts),
           TransferDegenAmounts(w, Amounts)
    PROVE  /\ vault' = vault - round.total_usdc
           /\ \E b \in BOOLEAN :
                 round' = [round EXCEPT !.status = status, !.degen_mode = mode,
                                        !.vrf_reimbursed = b]
PROOF
<1>1. VrfPayerIsOwed \in BOOLEAN
  BY Zenon DEF VrfPayerIsOwed
<1>2. /\ Amounts.vrf_reimburse \in Nat /\ Amounts.fee \in Nat /\ Amounts.payout \in Nat
      /\ Amounts.vrf_reimburse + Amounts.payout + Amounts.fee = round.total_usdc
  BY <1>1, RoundAmounts DEF Amounts
<1>3. vault' = vault - round.total_usdc
  BY <1>2, TransferTypes
<1> DEFINE b == round.vrf_reimbursed \/ Amounts.vrf_reimburse > 0
<1>4. b \in BOOLEAN
  BY Zenon
<1>5. round' = [round EXCEPT !.status = status, !.degen_mode = mode, !.vrf_reimbursed = b]
  BY DEF TypeOK, Round, MarkReimbursed
<1> HIDE DEF b
<1>6. QED
  BY <1>3, <1>4, <1>5, Zenon

\* What a degen step does to the round, the vault and the claim statuses: the executor
\* takes the prize, the winner is paid in USDC, or the executor is done.
OtherClaimsKept(u) == \A v \in Users \ {u} : degenClaim'[v] = degenClaim[v]

BeginEffect(u) ==
    /\ DegenReady(u)
    /\ vault' = vault - round.total_usdc
    /\ \E b \in BOOLEAN :
          round' = [round EXCEPT !.degen_mode = "EXECUTING", !.vrf_reimbursed = b]
    /\ degenClaim'[u].status = "EXECUTING"
    /\ OtherClaimsKept(u)

PayEffect(u) ==
    /\ DegenReady(u)
    /\ vault' = vault - round.total_usdc
    /\ \E b \in BOOLEAN :
          round' = [round EXCEPT !.status = "CLAIMED", !.degen_mode = "CLAIMED",
                                 !.vrf_reimbursed = b]
    /\ degenClaim'[u].status \in {"CLAIMED_SWAPPED", "CLAIMED_FALLBACK"}
    /\ OtherClaimsKept(u)

FinalizeEffect(u) ==
    /\ round.status = "SETTLED"
    /\ round.degen_mode = "EXECUTING"
    /\ degenClaim[u].status = "EXECUTING"
    /\ vault' = vault
    /\ round' = [round EXCEPT !.status = "CLAIMED", !.degen_mode = "CLAIMED"]
    /\ degenClaim'[u].status = "CLAIMED_SWAPPED"
    /\ OtherClaimsKept(u)

\* Every degen payment step has one of the three effects.
LEMMA DegenExecutionEffect ==
    ASSUME TypeOK, DegenExecutionNext
    PROVE  \E u \in Users : BeginEffect(u) \/ PayEffect(u) \/ FinalizeEffect(u)
PROOF
<1>1. ASSUME NEW e \in Executors, NEW u \in Users, NEW k \in Ranks, NEW t \in Tokens,
             NEW m \in Tokens, NEW min_out_raw \in MinOutRaws, NEW payer_given \in BOOLEAN,
             BeginDegenExecution(e, u, k, t, m, min_out_raw, payer_given)
      PROVE  BeginEffect(u)
  <2>1. DegenReady(u) /\ round.status = "SETTLED" /\ TransferDegenAmounts(e, Amounts)
    BY <1>1 DEF BeginDegenExecution, DegenReady
  <2>2. degenClaim'[u].status = "EXECUTING" /\ OtherClaimsKept(u)
    BY <1>1 DEF TypeOK, DegenClaim, BeginDegenExecution, OtherClaimsKept
  <2>3. [round EXCEPT !.degen_mode = "EXECUTING"]
          = [round EXCEPT !.status = "SETTLED", !.degen_mode = "EXECUTING"]
    BY <2>1, ZenonT(30) DEF TypeOK, Round
  <2>4. round' = MarkReimbursed([round EXCEPT !.status = "SETTLED",
                                              !.degen_mode = "EXECUTING"], Amounts)
    BY <1>1, <2>3, Zenon DEF BeginDegenExecution
  <2>5. /\ vault' = vault - round.total_usdc
        /\ \E b \in BOOLEAN :
              round' = [round EXCEPT !.status = "SETTLED", !.degen_mode = "EXECUTING",
                                     !.vrf_reimbursed = b]
    BY <2>1, <2>4, DegenPaymentEffect, Zenon
  <2>6. \A b \in BOOLEAN :
          [round EXCEPT !.status = "SETTLED", !.degen_mode = "EXECUTING", !.vrf_reimbursed = b]
            = [round EXCEPT !.degen_mode = "EXECUTING", !.vrf_reimbursed = b]
    BY <2>1, ZenonT(30) DEF TypeOK, Round
  <2>7. QED
    BY <2>1, <2>2, <2>5, <2>6, Zenon DEF BeginEffect
<1>2. ASSUME NEW u \in Users, NEW status \in {"CLAIMED_SWAPPED", "CLAIMED_FALLBACK"},
             NEW k, NEW t, NEW payer_given, PayInUsdc(u, status, k, t, payer_given)
      PROVE  PayEffect(u)
  <2>1. DegenReady(u)
    BY <1>2 DEF PayInUsdc
  <2>2. /\ degenClaim'[u].status \in {"CLAIMED_SWAPPED", "CLAIMED_FALLBACK"}
        /\ OtherClaimsKept(u)
    BY <1>2 DEF TypeOK, PayInUsdc, NoDegenClaim, OtherClaimsKept
  <2>3. /\ round' = MarkReimbursed([round EXCEPT !.status = "CLAIMED",
                                                 !.degen_mode = "CLAIMED"], Amounts)
        /\ TransferDegenAmounts(u, Amounts)
    BY <1>2, Zenon DEF PayInUsdc
  <2>4. /\ vault' = vault - round.total_usdc
        /\ \E b \in BOOLEAN :
              round' = [round EXCEPT !.status = "CLAIMED", !.degen_mode = "CLAIMED",
                                     !.vrf_reimbursed = b]
    BY <2>1, <2>3, DegenPaymentEffect, Zenon
  <2>5. QED
    BY <2>1, <2>2, <2>4, Zenon DEF PayEffect
<1>3. ASSUME NEW e \in Executors, NEW u \in Users, NEW other_empty,
             FinalizeDegenSuccess(e, u, other_empty)
      PROVE  FinalizeEffect(u)
  <2>1. degenClaim'[u].status = "CLAIMED_SWAPPED" /\ OtherClaimsKept(u)
    BY <1>3 DEF TypeOK, DegenClaim, FinalizeDegenSuccess, OtherClaimsKept
  <2>2. QED
    BY <1>3, <2>1 DEF FinalizeDegenSuccess, FinalizeEffect
<1>4. ASSUME NEW u \in Users, NEW payer_given, ClaimDegenFallback(u, payer_given)
      PROVE  PayEffect(u)
  BY <1>2, <1>4 DEF ClaimDegenFallback
<1>5. QED
  BY <1>1, <1>2, <1>3, <1>4 DEF DegenExecutionNext, ClaimDegen, AutoClaimDegenFallback

-----------------------------------------------------------------------------
\* The lifecycle's steps leave the vault, the pot and the claims alone, except that a
\* new round starts empty.
LEMMA LifecycleEffect ==
    ASSUME TypeOK, LifecycleNext
    PROVE  /\ UNCHANGED <<vault, degenClaim, participant>>
           /\ \/ /\ round.status = "ABSENT"
                 /\ round' = [NoRound EXCEPT !.status = "OPEN"]
              \/ /\ round.status \in {"OPEN", "LOCKED", "VRF_REQUESTED"}
                 /\ round'.total_usdc = round.total_usdc
                 /\ round'.total_tickets = round.total_tickets
                 /\ round'.degen_mode = round.degen_mode
                 /\ round'.status \in {"LOCKED", "VRF_REQUESTED", "SETTLED", "CANCELLED"}
PROOF
<1>1. CASE StartRound
  BY <1>1 DEF StartRound
<1>2. CASE LockRound
  BY <1>2 DEF TypeOK, Round, LockRound
<1>3. CASE \E p \in Payers : RequestVrf(p)
  BY <1>3 DEF TypeOK, Round, RequestVrf
<1>4. CASE \E rand \in 0..(round.total_tickets - 1) : VrfCallback(rand)
  BY <1>4 DEF TypeOK, Round, VrfCallback, CallbackStatusOk
<1>5. CASE \E a \in Admins : AdminForceCancel(a)
  BY <1>5 DEF TypeOK, Round, AdminForceCancel, ForceCancellable
<1>6. QED
  BY <1>1, <1>2, <1>3, <1>4, <1>5 DEF LifecycleNext, VrfNext

\* A refund is paid from an open round that is thereby cancelled, or from a cancelled one.
LEMMA RefundEffect ==
    ASSUME TypeOK, RefundsNext
    PROVE  /\ round.status \in {"OPEN", "CANCELLED"}
           /\ round'.status = "CANCELLED"
           /\ round'.degen_mode = round.degen_mode
           /\ UNCHANGED degenClaim
PROOF
<1> SUFFICES ASSUME NEW u \in Users, CancelRound(u) \/ ClaimRefund(u)
             PROVE  /\ round.status \in {"OPEN", "CANCELLED"}
                    /\ round'.status = "CANCELLED"
                    /\ round'.degen_mode = round.degen_mode
                    /\ UNCHANGED degenClaim
  BY DEF RefundsNext
<1>1. CASE CancelRound(u)
  <2>1. round.total_usdc - participant[u].usdc_total = 0
    BY <1>1 DEF TypeOK, Round, CancelRound, SoleDepositor
  <2>2. QED
    BY <1>1, <2>1 DEF TypeOK, Round, CancelRound
<1>2. CASE ClaimRefund(u)
  BY <1>2 DEF ClaimRefund
<1>3. QED
  BY <1>1, <1>2

\* The degen randomness steps change the claim of the winner and the degen mode with it.
LEMMA DegenVrfEffect ==
    ASSUME TypeOK, DegenVrfNext
    PROVE  \E u \in Users, from, to \in {"NONE", "VRF_REQUESTED", "VRF_READY"} :
             /\ round.status = "SETTLED"
             /\ round.winner = u
             /\ round.degen_mode = from
             /\ round' = [round EXCEPT !.degen_mode = to]
             /\ degenClaim'[u].status = to
             /\ to # "NONE"
             /\ \A v \in Users \ {u} : degenClaim'[v] = degenClaim[v]
             /\ vault' = vault
PROOF
<1>1. ASSUME NEW u \in Users, RequestDegenVrf(u)
      PROVE  /\ round.status = "SETTLED" /\ round.winner = u /\ round.degen_mode = "NONE"
             /\ round' = [round EXCEPT !.degen_mode = "VRF_REQUESTED"]
             /\ degenClaim'[u].status = "VRF_REQUESTED"
             /\ \A v \in Users \ {u} : degenClaim'[v] = degenClaim[v]
             /\ vault' = vault
  BY <1>1 DEF TypeOK, RequestDegenVrf, NoDegenClaim
<1>2. ASSUME NEW u \in Users, NEW r \in Randomness, DegenVrfCallback(u, r)
      PROVE  /\ round.status = "SETTLED" /\ round.winner = u
             /\ round.degen_mode = "VRF_REQUESTED"
             /\ round' = [round EXCEPT !.degen_mode = "VRF_READY"]
             /\ degenClaim'[u].status = "VRF_READY"
             /\ \A v \in Users \ {u} : degenClaim'[v] = degenClaim[v]
             /\ vault' = vault
  BY <1>2 DEF TypeOK, DegenVrfCallback, NoDegenClaim
<1>3. QED
  BY <1>1, <1>2, Zenon DEF DegenVrfNext

-----------------------------------------------------------------------------
\* The steps of both specifications, by their effect on round, claims and vault.
LEMMA StepKinds ==
    ASSUME [Next \/ OperatedNext]_vars
    PROVE  \/ QuietNext
           \/ LifecycleNext
           \/ DepositsNext
           \/ RefundsNext
           \/ ClaimsNext
           \/ DegenVrfNext
           \/ DegenExecutionNext
           \/ \E w \in Donors : \E amount \in 1..usdc[w] : Donate(w, amount)
           \/ \E w \in Wallets \cup {NoKey} : CloseRound(w)
PROOF
BY EnvironmentAssumption, Zenon
DEF Next, OperatedNext, InstructionNext, EnvironmentNext, AnyoneCloses, CrankCloses,
    QuietNext, Wallets

\* One step keeps the vault at or above the pot.
LEMMA VaultStep ==
    ASSUME TypeOK, VaultCoversPot, [Next \/ OperatedNext]_vars
    PROVE  VaultCoversPot'
PROOF
<1> USE DEF VaultCoversPot, PrizeHeld
<1>0. vault \in Nat /\ round.total_usdc \in Nat /\ round \in Round
  BY DEF TypeOK, Round
<1>1. CASE QuietNext
  BY <1>1, QuietSteps
<1>2. CASE LifecycleNext
  <2>1. CASE round' = [NoRound EXCEPT !.status = "OPEN"]
    BY <1>0, <1>2, <2>1, LifecycleEffect, BlankRound
  <2>2. CASE round' # [NoRound EXCEPT !.status = "OPEN"]
    BY <1>0, <1>2, <2>2, LifecycleEffect
  <2>3. QED
    BY <2>1, <2>2
<1>3. CASE DepositsNext
  BY <1>0, <1>3, DepositEffect
<1>4. CASE RefundsNext
  BY <1>4, RefundEffect
<1>5. CASE ClaimsNext
  BY <1>0, <1>5, ClaimEffect, Zenon DEF Round
<1>6. CASE DegenVrfNext
  BY <1>0, <1>6, DegenVrfEffect DEF Round
<1>7. CASE DegenExecutionNext
  <2>1. PICK u \in Users : BeginEffect(u) \/ PayEffect(u) \/ FinalizeEffect(u)
    BY <1>7, DegenExecutionEffect
  <2>2. QED
    BY <1>0, <2>1, ZenonT(30) DEF BeginEffect, PayEffect, FinalizeEffect, DegenReady, Round
<1>8. CASE \E w \in Donors : \E amount \in 1..usdc[w] : Donate(w, amount)
  BY <1>0, <1>8, EnvironmentAssumption DEF TypeOK, Donate
<1>9. CASE \E w \in Wallets \cup {NoKey} : CloseRound(w)
  BY <1>9, BlankRound, Zenon DEF CloseRound
<1>10. QED
  BY <1>1, <1>2, <1>3, <1>4, <1>5, <1>6, <1>7, <1>8, <1>9, StepKinds, Zenon

\* The vault covers the pot (VaultCoversPot) in every reachable state, for any number
\* of users, deposits and restarts of the round id, whoever closes the round.  The
\* inductive invariant is TypeOK /\ VaultCoversPot.
THEOREM VaultSafe == Spec => []VaultCoversPot
PROOF
<1>1. Init => TypeOK /\ VaultCoversPot
  BY TypeInit, BlankRound, Zenon DEF Init, VaultCoversPot, PrizeHeld
<1>2. TypeOK /\ VaultCoversPot /\ [Next]_vars => TypeOK' /\ VaultCoversPot'
  BY TypeStep, VaultStep
<1>3. QED
  BY <1>1, <1>2, PTL DEF Spec

-----------------------------------------------------------------------------
\* The prize leaves the vault of a settled round once and whole (PrizePaidOnce).
THEOREM PrizeLeavesOnce == Spec => PrizePaidOnce
PROOF
<1> DEFINE Paid ==
      vault' < vault =>
          \/ round.status \in {"OPEN", "CANCELLED"} /\ round'.status = "CANCELLED"
          \/ round'.status = "ABSENT"
          \/ /\ round.status = "SETTLED" /\ round.degen_mode # "EXECUTING"
             /\ vault - vault' = round.total_usdc
             /\ round'.status = "CLAIMED" \/ round'.degen_mode = "EXECUTING"
<1>1. ASSUME TypeOK, [Next]_vars PROVE Paid
  <2>0. vault \in Nat /\ round.total_usdc \in Nat /\ round \in Round
    BY <1>1 DEF TypeOK, Round
  <2>1. CASE QuietNext
    BY <2>0, <2>1, QuietSteps
  <2>2. CASE LifecycleNext
    BY <1>1, <2>0, <2>2, LifecycleEffect
  <2>3. CASE DepositsNext
    BY <1>1, <2>0, <2>3, DepositEffect
  <2>4. CASE RefundsNext
    BY <1>1, <2>4, RefundEffect
  <2>5. CASE ClaimsNext
    <3>1. /\ round.status = "SETTLED" /\ round.degen_mode = "NONE"
          /\ vault' = vault - round.total_usdc
          /\ round'.status = "CLAIMED"
      BY <1>1, <2>0, <2>5, ClaimEffect, Zenon DEF Round
    <3>2. vault - vault' = round.total_usdc
      BY <2>0, <3>1
    <3>3. QED
      BY <3>1, <3>2, Zenon
  <2>6. CASE DegenVrfNext
    BY <1>1, <2>0, <2>6, DegenVrfEffect
  <2>7. CASE DegenExecutionNext
    <3>1. PICK u \in Users : BeginEffect(u) \/ PayEffect(u) \/ FinalizeEffect(u)
      BY <1>1, <2>7, DegenExecutionEffect
    <3>2. CASE BeginEffect(u) \/ PayEffect(u)
      <4>1. /\ round.status = "SETTLED" /\ round.degen_mode = "VRF_READY"
            /\ vault' = vault - round.total_usdc
            /\ round'.status = "CLAIMED" \/ round'.degen_mode = "EXECUTING"
        BY <2>0, <3>2, ZenonT(30) DEF BeginEffect, PayEffect, DegenReady, Round
      <4>2. vault - vault' = round.total_usdc
        BY <2>0, <4>1
      <4>3. "VRF_READY" # "EXECUTING"
        OBVIOUS
      <4>4. QED
        BY <4>1, <4>2, <4>3, Zenon
    <3>3. CASE FinalizeEffect(u)
      BY <2>0, <3>3 DEF FinalizeEffect
    <3>4. QED
      BY <3>1, <3>2, <3>3
  <2>8. CASE \E w \in Donors : \E amount \in 1..usdc[w] : Donate(w, amount)
    BY <1>1, <2>0, <2>8, EnvironmentAssumption DEF TypeOK, Donate
  <2>9. CASE \E w \in Wallets \cup {NoKey} : CloseRound(w)
    BY <2>9, BlankRound, Zenon DEF CloseRound
  <2>10. QED
    BY <1>1, <2>1, <2>2, <2>3, <2>4, <2>5, <2>6, <2>7, <2>8, <2>9, StepKinds, Zenon
<1>2. TypeOK /\ [Next]_vars => [Paid]_vars
  BY <1>1
<1>3. QED
  BY <1>2, TypeCorrect, PTL DEF Spec, PrizePaidOnce

\* A settled round keeps its winner, its ticket and its pot until it is closed
\* (DrawIsFinal): a late answer of the oracle cannot draw again.
THEOREM DrawNeverChanges == Spec => DrawIsFinal
PROOF
<1> DEFINE Kept ==
      round.status \in {"SETTLED", "CLAIMED"} /\ round'.status # "ABSENT" =>
          /\ round'.status \in {"SETTLED", "CLAIMED"}
          /\ round'.winner = round.winner
          /\ round'.winning_ticket = round.winning_ticket
          /\ round'.total_usdc = round.total_usdc
<1>1. ASSUME TypeOK, [Next]_vars PROVE Kept
  <2>0. round \in Round
    BY <1>1 DEF TypeOK
  <2>1. CASE QuietNext
    BY <2>1, QuietSteps
  <2>2. CASE LifecycleNext
    BY <1>1, <2>2, LifecycleEffect
  <2>3. CASE DepositsNext
    BY <1>1, <2>3, DepositEffect
  <2>4. CASE RefundsNext
    BY <1>1, <2>4, RefundEffect
  <2>5. CASE ClaimsNext
    BY <1>1, <2>0, <2>5, ClaimEffect, Zenon DEF Round
  <2>6. CASE DegenVrfNext
    BY <1>1, <2>0, <2>6, DegenVrfEffect DEF Round
  <2>7. CASE DegenExecutionNext
    <3>1. PICK u \in Users : BeginEffect(u) \/ PayEffect(u) \/ FinalizeEffect(u)
      BY <1>1, <2>7, DegenExecutionEffect
    <3>2. QED
      BY <2>0, <3>1, ZenonT(30) DEF BeginEffect, PayEffect, FinalizeEffect, DegenReady, Round
  <2>8. CASE \E w \in Donors : \E amount \in 1..usdc[w] : Donate(w, amount)
    BY <2>8 DEF Donate
  <2>9. CASE \E w \in Wallets \cup {NoKey} : CloseRound(w)
    BY <2>9, BlankRound, Zenon DEF CloseRound
  <2>10. QED
    BY <1>1, <2>1, <2>2, <2>3, <2>4, <2>5, <2>6, <2>7, <2>8, <2>9, StepKinds, Zenon
<1>2. TypeOK /\ [Next]_vars => [Kept]_vars
  BY <1>1
<1>3. QED
  BY <1>2, TypeCorrect, PTL DEF Spec, DrawIsFinal

\* One step keeps the round and the claim accounts in agreement.
LEMMA AgreeStep ==
    ASSUME TypeOK, DegenAccountsAgree, [Next \/ OperatedNext]_vars
    PROVE  DegenAccountsAgree'
PROOF
<1> USE DEF DegenAccountsAgree, ActiveClaim
<1>0. round \in Round
  BY DEF TypeOK
<1>1. CASE QuietNext
  BY <1>1, QuietSteps
<1>2. CASE LifecycleNext
  <2>1. CASE round' = [NoRound EXCEPT !.status = "OPEN"]
    BY <1>2, <2>1, LifecycleEffect, BlankRound, Zenon
  <2>2. CASE round' # [NoRound EXCEPT !.status = "OPEN"]
    BY <1>2, <2>2, LifecycleEffect
  <2>3. QED
    BY <2>1, <2>2
<1>3. CASE DepositsNext
  BY <1>3, DepositEffect
<1>4. CASE RefundsNext
  BY <1>4, RefundEffect
<1>5. CASE ClaimsNext
  <2>1. round.status = "SETTLED" /\ round.degen_mode = "NONE" /\ degenClaim' = degenClaim
    BY <1>5, ClaimEffect, Zenon
  <2>2. round'.status = "CLAIMED" /\ round'.degen_mode = round.degen_mode
    BY <1>0, <1>5, ClaimEffect, Zenon DEF Round
  <2>3. \A u \in Users : degenClaim[u].status \notin ActiveClaim
    BY <2>1
  <2>4. QED
    BY <2>1, <2>2, <2>3
<1>6. CASE DegenVrfNext
  BY <1>0, <1>6, DegenVrfEffect DEF Round
<1>7. CASE DegenExecutionNext
  <2>1. PICK u \in Users : BeginEffect(u) \/ PayEffect(u) \/ FinalizeEffect(u)
    BY <1>7, DegenExecutionEffect
  <2>2. CASE BeginEffect(u)
    BY <1>0, <2>2 DEF BeginEffect, OtherClaimsKept, DegenReady, Round
  <2>3. CASE PayEffect(u)
    BY <1>0, <2>3 DEF PayEffect, OtherClaimsKept, DegenReady, Round
  <2>4. CASE FinalizeEffect(u)
    BY <1>0, <2>4 DEF FinalizeEffect, OtherClaimsKept, Round
  <2>5. QED
    BY <2>1, <2>2, <2>3, <2>4
<1>8. CASE \E w \in Donors : \E amount \in 1..usdc[w] : Donate(w, amount)
  BY <1>8, Zenon DEF Donate
<1>9. CASE \E w \in Wallets \cup {NoKey} : CloseRound(w)
  BY <1>9, BlankRound, Zenon DEF CloseRound, Terminal
<1>10. QED
  BY <1>1, <1>2, <1>3, <1>4, <1>5, <1>6, <1>7, <1>8, <1>9, StepKinds, Zenon

\* The round's degen mode and the winner's claim account are always in the same phase,
\* and no other claim is active (DegenAccountsAgree), across restarts of the round id.
THEOREM DegenAgreement == Spec => []DegenAccountsAgree
PROOF
<1>1. Init => DegenAccountsAgree
  BY BlankRound DEF Init, NoDegenClaim, DegenAccountsAgree, ActiveClaim
<1>2. TypeOK /\ DegenAccountsAgree /\ [Next]_vars => DegenAccountsAgree'
  BY AgreeStep
<1>3. QED
  BY <1>1, <1>2, TypeCorrect, PTL DEF Spec

-----------------------------------------------------------------------------
\* A round that does not exist has no countdown.
AbsentIsBlank == round.status = "ABSENT" => round.end_ts = 0

\* What one step does to the countdown and to the pot.
CountdownKept ==
    round.end_ts # 0 /\ round'.status # "ABSENT" =>
        /\ round'.end_ts = round.end_ts
        /\ round'.total_usdc > round.total_usdc => now < round.end_ts

\* A deposit that finds a countdown keeps it, and comes before its end.
LEMMA DepositCountdown == ASSUME TypeOK, DepositsNext PROVE CountdownKept
PROOF
<1> SUFFICES ASSUME NEW u \in Users, NEW before, NEW min_out, DepositAny(u, before, min_out),
                    round.end_ts # 0
             PROVE  round'.end_ts = round.end_ts /\ now < round.end_ts
  BY DEF DepositsNext, CountdownKept
<1>1. round \in Round /\ now \in Nat /\ round.end_ts \in Nat
  BY DEF TypeOK, Round
<1>2. now < round.end_ts
  BY <1>1 DEF DepositAny, DepositAllowed
<1>3. round'.end_ts = EndTs(JoinedCount(u))
  BY <1>1 DEF DepositAny, Round
<1>4. QED
  BY <1>2, <1>3 DEF EndTs

\* One step keeps the countdown, and leaves a round that does not exist blank.
LEMMA CountdownStep ==
    ASSUME TypeOK, AbsentIsBlank, [Next \/ OperatedNext]_vars
    PROVE  CountdownKept /\ AbsentIsBlank'
PROOF
<1> DEFINE Same == /\ round'.end_ts = round.end_ts
                   /\ ~(round'.total_usdc > round.total_usdc)
                   /\ round'.status # "ABSENT" \/ round'.status = round.status
<1>0. /\ round \in Round /\ round.total_usdc \in Nat
      /\ ~(round.total_usdc > round.total_usdc)
  BY DEF TypeOK, Round
<1>1. Same => CountdownKept /\ AbsentIsBlank'
  BY DEF CountdownKept, AbsentIsBlank
<1>2. CASE QuietNext
  BY <1>0, <1>1, <1>2, QuietSteps
<1>3. CASE LifecycleNext
  <2>1. CASE StartRound
    BY <2>1, BlankRound, Zenon DEF StartRound, AbsentIsBlank, CountdownKept
  <2>2. CASE LockRound
    BY <1>0, <1>1, <2>2 DEF LockRound, Round
  <2>3. CASE \E p \in Payers : RequestVrf(p)
    BY <1>0, <1>1, <2>3 DEF RequestVrf, Round
  <2>4. CASE \E rand \in 0..(round.total_tickets - 1) : VrfCallback(rand)
    BY <1>0, <1>1, <2>4 DEF VrfCallback, Round
  <2>5. CASE \E a \in Admins : AdminForceCancel(a)
    BY <1>0, <1>1, <2>5 DEF AdminForceCancel, Round
  <2>6. QED
    BY <1>3, <2>1, <2>2, <2>3, <2>4, <2>5 DEF LifecycleNext, VrfNext
<1>4. CASE DepositsNext
  <2>1. round'.status = "OPEN"
    BY <1>4, DepositEffect
  <2>2. QED
    BY <1>4, <2>1, DepositCountdown DEF AbsentIsBlank
<1>5. CASE RefundsNext
  <2>1. round'.status = "CANCELLED"
    BY <1>5, RefundEffect
  <2>2. PICK u \in Users : CancelRound(u) \/ ClaimRefund(u)
    BY <1>5 DEF RefundsNext
  <2>3. participant[u].usdc_total \in Nat
    BY Zenon DEF TypeOK, Participant
  <2>4. CASE CancelRound(u)
    <3>1. /\ round'.end_ts = round.end_ts
          /\ round'.total_usdc = round.total_usdc - participant[u].usdc_total
      BY <1>0, <2>4 DEF CancelRound, Round
    <3>2. QED
      BY <1>0, <1>1, <2>1, <2>3, <3>1
  <2>5. CASE ClaimRefund(u)
    BY <1>0, <1>1, <2>1, <2>5 DEF ClaimRefund
  <2>6. QED
    BY <2>2, <2>4, <2>5
<1>6. CASE ClaimsNext
  BY <1>0, <1>1, <1>6, ClaimEffect, Zenon DEF Round
<1>7. CASE DegenVrfNext
  BY <1>0, <1>1, <1>7, DegenVrfEffect DEF Round
<1>8. CASE DegenExecutionNext
  <2>1. PICK u \in Users : BeginEffect(u) \/ PayEffect(u) \/ FinalizeEffect(u)
    BY <1>8, DegenExecutionEffect
  <2>2. QED
    BY <1>0, <1>1, <2>1, ZenonT(30) DEF BeginEffect, PayEffect, FinalizeEffect, DegenReady, Round
<1>9. CASE \E w \in Donors : \E amount \in 1..usdc[w] : Donate(w, amount)
  BY <1>0, <1>1, <1>9, Zenon DEF Donate
<1>10. CASE \E w \in Wallets \cup {NoKey} : CloseRound(w)
  BY <1>10, BlankRound, Zenon DEF CloseRound, AbsentIsBlank, CountdownKept
<1>11. QED
  BY <1>2, <1>3, <1>4, <1>5, <1>6, <1>7, <1>8, <1>9, <1>10, StepKinds, Zenon

\* The countdown that a depositor saw is neither moved nor outlived by a deposit
\* (CountdownStands), whatever the administrator changes, and a new round with the same id
\* starts without one.
THEOREM CountdownNeverMoves == Spec => CountdownStands
PROOF
<1>1. Init => AbsentIsBlank
  BY BlankRound, Zenon DEF Init, AbsentIsBlank
<1>2. TypeOK /\ AbsentIsBlank /\ [Next]_vars => AbsentIsBlank' /\ [CountdownKept]_vars
  BY CountdownStep, Zenon
<1>3. QED
  BY <1>1, <1>2, TypeCorrect, PTL DEF Spec, CountdownStands, CountdownKept

-----------------------------------------------------------------------------
\* No wallet that pays for randomness also plays, executes or is the treasury: what such
\* a wallet receives is then a reimbursement.
PayersApart == \A p \in Payers : p \notin Users \cup Executors \cup Treasuries

\* What one step may give to a payer.
PayerKept(p) ==
    usdc'[p] > usdc[p] /\ round'.status # "ABSENT" =>
        /\ p = round.vrf_payer
        /\ ~round.vrf_reimbursed /\ round'.vrf_reimbursed
        /\ usdc'[p] - usdc[p] <= VRF_REIMBURSEMENT_USDC

\* The reimbursement is at most the fixed amount, and nothing when it is not owed.
LEMMA ReimbursementLimit ==
    ASSUME NEW total \in Nat, NEW fee_bps, NEW reimburse \in BOOLEAN
    PROVE  LET r == ClaimAmounts(total, fee_bps, reimburse).vrf_reimburse
           IN  r \in Nat /\ r <= VRF_REIMBURSEMENT_USDC /\ (r > 0 => reimburse)
BY JackpotAssumption DEF ClaimAmounts

\* A credit to another wallet.
LEMMA CreditOther ==
    ASSUME NEW b \in [Wallets -> Nat], NEW w, NEW amt \in Nat, NEW x \in Wallets
    PROVE  Credit(b, w, amt)[x] = IF x = w THEN b[x] + amt ELSE b[x]
BY DEF Credit

\* A payment of the prize gives a payer at most the reimbursement that is owed, and the
\* round records it.
LEMMA PaymentReimburses ==
    ASSUME TypeOK, PayersApart, NEW p \in Payers, NEW w \in Users \cup Executors,
           NEW reimburse \in BOOLEAN, reimburse => VrfPayerIsOwed,
           NEW a, a = ClaimAmounts(round.total_usdc, config.fee_bps, reimburse),
           TransferClaimAmounts(w, a) \/ TransferDegenAmounts(w, a),
           round'.vrf_reimbursed = (round.vrf_reimbursed \/ a.vrf_reimburse > 0)
    PROVE  PayerKept(p)
PROOF
<1>1. /\ a.vrf_reimburse \in Nat /\ a.fee \in Nat /\ a.payout \in Nat
  BY RoundAmounts
<1>2. a.vrf_reimburse <= VRF_REIMBURSEMENT_USDC /\ (a.vrf_reimburse > 0 => reimburse)
  BY ReimbursementLimit, Zenon DEF TypeOK, Round
<1>3. p \in Wallets /\ p # w /\ usdc \in [Wallets -> Nat]
  BY DEF PayersApart, Wallets, TypeOK
<1>4. p # config.treasury
  <2>1. config.treasury \in Treasuries \cup {NoKey}
    BY Zenon DEF TypeOK, Config
  <2>2. QED
    BY <1>3, <2>1, JackpotAssumption, Zenon DEF PayersApart
<1> DEFINE reimbursed == IF a.vrf_reimburse > 0
                         THEN Credit(usdc, round.vrf_payer, a.vrf_reimburse)
                         ELSE usdc
<1>5. usdc' = Credit(Credit(reimbursed, w, a.payout), config.treasury, a.fee)
  BY DEF TransferClaimAmounts, TransferDegenAmounts
<1>6. reimbursed \in [Wallets -> Nat]
  BY <1>1, <1>3, CreditType, Zenon
<1>7. reimbursed[p] = IF a.vrf_reimburse > 0 /\ p = round.vrf_payer
                      THEN usdc[p] + a.vrf_reimburse ELSE usdc[p]
  BY <1>1, <1>3, CreditOther
<1> HIDE DEF reimbursed
<1>8. Credit(reimbursed, w, a.payout) \in [Wallets -> Nat]
  BY <1>1, <1>6, CreditType, Zenon
<1>9. usdc'[p] = Credit(reimbursed, w, a.payout)[p]
  BY <1>1, <1>3, <1>4, <1>5, <1>8, CreditOther
<1>10. usdc'[p] = reimbursed[p]
  BY <1>1, <1>3, <1>6, <1>9, CreditOther
<1>11. usdc[p] \in Nat
  BY <1>3, Zenon
<1>12. CASE a.vrf_reimburse > 0 /\ p = round.vrf_payer
  <2>1. ~round.vrf_reimbursed
    BY <1>2, <1>12 DEF VrfPayerIsOwed
  <2>2. round'.vrf_reimbursed
    BY <1>12, Zenon
  <2>3. usdc'[p] - usdc[p] <= VRF_REIMBURSEMENT_USDC
    BY <1>1, <1>2, <1>7, <1>10, <1>11, <1>12, JackpotAssumption
  <2>4. QED
    BY <1>12, <2>1, <2>2, <2>3 DEF PayerKept
<1>13. CASE ~(a.vrf_reimburse > 0 /\ p = round.vrf_payer)
  <2>1. ~(usdc'[p] > usdc[p])
    BY <1>7, <1>10, <1>11, <1>13
  <2>2. QED
    BY <2>1, Zenon DEF PayerKept
<1>14. QED
  BY <1>12, <1>13, Zenon

\* The claims and the degen payments reimburse through PaymentReimburses.
LEMMA ClaimReimburses ==
    ASSUME TypeOK, PayersApart, ClaimsNext, NEW p \in Payers
    PROVE  PayerKept(p)
PROOF
<1> SUFFICES ASSUME NEW w \in Users, NEW payer_given \in BOOLEAN, PayWinner(w, payer_given)
             PROVE  PayerKept(p)
  BY DEF ClaimsNext, Claim, AutoClaim
<1> DEFINE owed == VrfPayerIsOwed /\ payer_given
           a == ClaimAmounts(round.total_usdc, config.fee_bps, owed)
<1>1. owed \in BOOLEAN /\ (owed => VrfPayerIsOwed)
  BY Zenon DEF VrfPayerIsOwed
<1>2. TransferClaimAmounts(w, a) /\ round' = AfterClaim(a)
  BY Zenon DEF PayWinner
<1> HIDE DEF owed, a
<1>3. round'.vrf_reimbursed = (round.vrf_reimbursed \/ a.vrf_reimburse > 0)
  BY <1>2 DEF AfterClaim, TypeOK, Round
<1>4. QED
  BY <1>1, <1>2, <1>3, PaymentReimburses DEF a

\* The instructions that execute a degen claim pay the payer at most what it is owed, and
\* only once.
LEMMA DegenReimburses ==
    ASSUME TypeOK, PayersApart, DegenExecutionNext, NEW p \in Payers
    PROVE  PayerKept(p)
PROOF
<1>0. /\ VrfPayerIsOwed \in BOOLEAN /\ round \in Round
      /\ Amounts = ClaimAmounts(round.total_usdc, config.fee_bps, VrfPayerIsOwed)
  BY Zenon DEF VrfPayerIsOwed, Amounts, TypeOK
<1>1. ASSUME NEW w \in Users \cup Executors, NEW r \in Round,
             r.vrf_reimbursed = round.vrf_reimbursed,
             round' = MarkReimbursed(r, Amounts), TransferDegenAmounts(w, Amounts)
      PROVE  PayerKept(p)
  <2>1. round'.vrf_reimbursed = (round.vrf_reimbursed \/ Amounts.vrf_reimburse > 0)
    BY <1>1 DEF MarkReimbursed, Round
  <2>2. QED
    BY <1>0, <1>1, <2>1, PaymentReimburses
<1>2. ASSUME NEW e \in Executors, NEW u \in Users, NEW k, NEW t, NEW m, NEW min_out_raw,
             NEW payer_given,
             BeginDegenExecution(e, u, k, t, m, min_out_raw, payer_given)
      PROVE  PayerKept(p)
  <2>1. /\ round' = MarkReimbursed([round EXCEPT !.degen_mode = "EXECUTING"], Amounts)
        /\ TransferDegenAmounts(e, Amounts)
    BY <1>2, Zenon DEF BeginDegenExecution
  <2>2. /\ [round EXCEPT !.degen_mode = "EXECUTING"] \in Round
        /\ [round EXCEPT !.degen_mode = "EXECUTING"].vrf_reimbursed = round.vrf_reimbursed
    BY <1>0, Zenon DEF Round, DegenMode
  <2>3. QED
    BY <1>1, <2>1, <2>2, Zenon
<1>3. ASSUME NEW u \in Users, NEW status, NEW k, NEW t, NEW payer_given,
             PayInUsdc(u, status, k, t, payer_given)
      PROVE  PayerKept(p)
  <2> DEFINE r == [round EXCEPT !.status = "CLAIMED", !.degen_mode = "CLAIMED"]
  <2>1. round' = MarkReimbursed(r, Amounts) /\ TransferDegenAmounts(u, Amounts)
    BY <1>3, Zenon DEF PayInUsdc
  <2>2. r \in Round /\ r.vrf_reimbursed = round.vrf_reimbursed
    BY <1>0, Zenon DEF Round, DegenMode, RoundStatus
  <2> HIDE DEF r
  <2>3. QED
    BY <1>1, <2>1, <2>2
<1>4. ASSUME NEW e, NEW u, NEW other_empty, FinalizeDegenSuccess(e, u, other_empty)
      PROVE  PayerKept(p)
  <2>1. usdc' = usdc
    BY <1>4, Zenon DEF FinalizeDegenSuccess
  <2>2. usdc[p] \in Nat
    BY DEF TypeOK, Wallets
  <2>3. QED
    BY <2>1, <2>2 DEF PayerKept
<1>5. QED
  BY <1>2, <1>3, <1>4, Zenon
  DEF DegenExecutionNext, ClaimDegen, ClaimDegenFallback, AutoClaimDegenFallback

\* Whatever path pays the prize, and in whatever order the calls come, the VRF payer is
\* paid at most once per round, at most the fixed amount, and only then
\* (VrfPayerPaidOnce), when the payers' wallets have no other part in the game.
THEOREM VrfPayerSafe == ASSUME PayersApart PROVE Spec => VrfPayerPaidOnce
PROOF
<1>1. ASSUME TypeOK, [Next]_vars, NEW p \in Payers PROVE PayerKept(p)
  <2>0. /\ usdc \in [Wallets -> Nat] /\ p \in Wallets /\ usdc[p] \in Nat
        /\ p \notin Users \cup Executors
    BY <1>1 DEF TypeOK, Wallets, PayersApart
  <2>1. ~(usdc'[p] > usdc[p]) => PayerKept(p)
    BY DEF PayerKept
  <2>2. CASE QuietNext
    <3>1. ASSUME NEW e \in Executors, NEW u, NEW m, NEW out, NEW amount, Swap(e, u, m, amount, out)
          PROVE  usdc'[p] = usdc[p]
      BY <2>0, <3>1 DEF Swap
    <3>2. ASSUME AdminNext PROVE usdc' = usdc
      BY <3>2, Zenon DEF AdminNext, InitConfig, UpdateConfig, UpsertDegenConfig,
                  SetTreasuryUsdcAta, TransferAdmin
    <3>3. usdc'[p] = usdc[p]
      BY <2>2, <3>1, <3>2 DEF QuietNext, Tick, CloseParticipant, vars
    <3>4. QED
      BY <2>0, <2>1, <3>3
  <2>3. CASE LifecycleNext
    <3>1. usdc' = usdc
      BY <2>3, Zenon DEF LifecycleNext, VrfNext, StartRound, LockRound, RequestVrf,
                         VrfCallback, AdminForceCancel
    <3>2. QED
      BY <2>0, <2>1, <3>1
  <2>4. CASE DepositsNext
    <3>1. PICK u \in Users : \E before \in 0..usdc[u], min_out \in MinOuts :
                                  DepositAny(u, before, min_out)
      BY <2>4 DEF DepositsNext
    <3>2. usdc'[p] = usdc[p]
      BY <2>0, <3>1 DEF DepositAny
    <3>3. QED
      BY <2>0, <2>1, <3>2
  <2>5. CASE RefundsNext
    <3>1. PICK u \in Users : CancelRound(u) \/ ClaimRefund(u)
      BY <2>5 DEF RefundsNext
    <3>2. usdc' = Credit(usdc, u, participant[u].usdc_total) /\ u # p
      BY <2>0, <3>1, Zenon DEF CancelRound, ClaimRefund, TransferRefund
    <3>3. usdc'[p] = usdc[p]
      BY <2>0, <3>2 DEF Credit
    <3>4. QED
      BY <2>0, <2>1, <3>3
  <2>6. CASE ClaimsNext
    BY <1>1, <2>6, ClaimReimburses
  <2>7. CASE DegenVrfNext
    <3>1. usdc' = usdc
      BY <2>7, Zenon DEF DegenVrfNext, RequestDegenVrf, DegenVrfCallback
    <3>2. QED
      BY <2>0, <2>1, <3>1
  <2>8. CASE DegenExecutionNext
    BY <1>1, <2>8, DegenReimburses
  <2>9. CASE \E w \in Donors : \E amount \in 1..usdc[w] : Donate(w, amount)
    <3>1. PICK w \in Donors : \E amount \in 1..usdc[w] : Donate(w, amount)
      BY <2>9
    <3>2. PICK amount \in 1..usdc[w] : Donate(w, amount)
      BY <3>1
    <3>3. w \in Wallets /\ usdc[w] \in Nat /\ amount \in Nat
      BY <2>0, EnvironmentAssumption
    <3>4. usdc'[p] = IF p = w THEN usdc[p] - amount ELSE usdc[p]
      BY <2>0, <3>2, <3>3, Zenon DEF Donate
    <3>5. ~(usdc'[p] > usdc[p])
      <4>1. CASE p = w
        BY <2>0, <3>3, <3>4, <4>1
      <4>2. CASE p # w
        BY <2>0, <3>4, <4>2
      <4>3. QED
        BY <4>1, <4>2, Zenon
    <3>6. QED
      BY <2>1, <3>5, Zenon
  <2>10. CASE \E w \in Wallets \cup {NoKey} : CloseRound(w)
    BY <2>10, BlankRound, Zenon DEF CloseRound, PayerKept
  <2>11. QED
    BY <1>1, <2>2, <2>3, <2>4, <2>5, <2>6, <2>7, <2>8, <2>9, <2>10, StepKinds, Zenon
<1>2. TypeOK /\ [Next]_vars => [\A p \in Payers : PayerKept(p)]_vars
  BY <1>1
<1>3. QED
  BY <1>2, TypeCorrect, PTL DEF Spec, VrfPayerPaidOnce, PayerKept

=============================================================================

------------------------------ MODULE TxBuilders ------------------------------
(***************************************************************************)
(* The instructions that the parts of the system build for the program:    *)
(* the web client (src/src/lib/program.ts), the crank                      *)
(* (crank/src/instructions.ts) and the Actions endpoints (api/actions).    *)
(* Each builder is the record of what it puts into the instruction and     *)
(* the program could refuse: who signs, for which user, the treasury       *)
(* account, whether the VRF payer's token account is passed, the token     *)
(* accounts that the transaction creates first, and the two amounts of a   *)
(* deposit.  Program addresses and the addresses derived from the round    *)
(* id are the same on both sides and are left out.                         *)
(*                                                                         *)
(* A transaction is built from the state of one moment and lands in that   *)
(* of another, or never.                                                   *)
(***************************************************************************)
EXTENDS Naturals, FiniteSets

CONSTANTS
    W, O,           \* two depositors; W wins
    Crank,          \* the crank's wallet: VRF payer and executor
    Treasuries,     \* token accounts the administrator may name as treasury
    T0,             \* the treasury that the crank's environment names
    Checked,        \* the builders a run looks at
    FLIGHT,         \* transactions in flight (bound of the model)
    MAXBAL          \* USDC a depositor can hold (bound of the model)

VARIABLES
    round,      \* the round account and its vault
    treasury,   \* config.treasury_usdc_ata
    atas,       \* wallets that have a USDC account
    usdc,       \* what the depositors' USDC accounts hold
    flight      \* transactions that were built and have not landed

vars == <<round, treasury, atas, usdc, flight>>

Users == {W, O}
Wallets == {W, O, Crank}
NoRound == [status |-> "none", degen |-> "none", payer |-> FALSE, reimbursed |-> FALSE,
            stakes |-> {}, records |-> {}, dust |-> FALSE]
Terminal == {"claimed", "cancelled"}
Owed == round.payer /\ ~round.reimbursed

Init ==
    /\ round = NoRound /\ treasury = T0 /\ atas = Wallets
    /\ usdc = [u \in Users |-> 1]
    /\ flight = {}

-----------------------------------------------------------------------------
(* What builders have in common. *)

Tx(name, ix, by) ==
    [name |-> name, ix |-> ix, by |-> by, user |-> by, treasury |-> "none", payer |-> FALSE,
     makes |-> {}, before |-> 0, min |-> 0]

\* The VRF payer's account is derived when the caller names a payer and it is not the
\* default key.
PayerGiven == round.payer

\* An account that the interface description does not list is dropped when the
\* instruction is built, and it lists none for the VRF payer in the degen instructions.
NotInIdl == FALSE

(* The web client. *)
webStartRound == Tx("webStartRound", "start_round", O)
webLockRound == Tx("webLockRound", "lock_round", O)
webRequestVrf == Tx("webRequestVrf", "request_vrf", O)
webRequestDegenVrf == Tx("webRequestDegenVrf", "request_degen_vrf", W)
webCancelRound == Tx("webCancelRound", "cancel_round", O)
webClaimRefund == Tx("webClaimRefund", "claim_refund", O)
webCloseRound == Tx("webCloseRound", "close_round", O)

\* depositMany deposits what the account holds beyond the rest it noted before.
webDepositAny(u) ==
    [Tx("webDepositAny", "deposit_any", u) EXCEPT !.before = usdc[u] - 1, !.min = 1]

\* useJackpot claims without the VRF payer.
webClaim == [Tx("webClaim", "claim", W) EXCEPT !.treasury = treasury]

\* Mutant of webClaimDetail: the VRF payer's account is passed and not created
webClaimDetailBare ==
    [Tx("webClaimDetail", "claim", W) EXCEPT !.treasury = treasury, !.payer = PayerGiven]

\* RoundDetail claims with the VRF payer and creates its account if there is none.
webClaimDetail ==
    [Tx("webClaimDetail", "claim", W) EXCEPT
        !.treasury = treasury, !.payer = PayerGiven,
        !.makes = IF PayerGiven /\ Crank \notin atas THEN {Crank} ELSE {}]

webAutoClaim ==
    [Tx("webAutoClaim", "auto_claim", O) EXCEPT
        !.user = W, !.treasury = treasury, !.payer = PayerGiven]

webBeginDegenExecution ==
    [Tx("webBeginDegenExecution", "begin_degen_execution", Crank) EXCEPT
        !.user = W, !.treasury = treasury, !.payer = NotInIdl]

webFinalizeDegenSuccess ==
    [Tx("webFinalizeDegenSuccess", "finalize_degen_success", Crank) EXCEPT !.user = W]

webClaimDegenFallback ==
    [Tx("webClaimDegenFallback", "claim_degen_fallback", W) EXCEPT
        !.treasury = treasury, !.payer = NotInIdl]

(* The crank, which takes the treasury from its environment. *)
crankStartRound == Tx("crankStartRound", "start_round", Crank)
crankLockRound == Tx("crankLockRound", "lock_round", Crank)
crankRequestVrf == Tx("crankRequestVrf", "request_vrf", Crank)

crankAutoClaim ==
    [Tx("crankAutoClaim", "auto_claim", Crank) EXCEPT
        !.user = W, !.treasury = T0, !.payer = PayerGiven]

\* The two accounts of the VRF payer are spliced in after the interface's eight when the
\* payer is still owed.
crankBeginDegenExecution ==
    [Tx("crankBeginDegenExecution", "begin_degen_execution", Crank) EXCEPT
        !.user = W, !.treasury = T0, !.payer = Owed]

crankFinalizeDegenSuccess ==
    [Tx("crankFinalizeDegenSuccess", "finalize_degen_success", Crank) EXCEPT !.user = W]

crankCloseParticipant(u) ==
    [Tx("crankCloseParticipant", "close_participant", Crank) EXCEPT !.user = u]

\* The treasury is appended so that the program can sweep what is left.
crankCloseRound == [Tx("crankCloseRound", "close_round", Crank) EXCEPT !.treasury = T0]

(* The Actions endpoints. *)

\* POST /join: the whole balance counts as there before, and the amount must arrive.
apiJoin(u) ==
    [Tx("apiJoin", "deposit_any", u) EXCEPT !.before = usdc[u], !.min = 1, !.makes = {u}]

apiClaim ==
    [Tx("apiClaim", "claim", W) EXCEPT !.treasury = treasury, !.payer = PayerGiven]

apiClaimRefund(u) == Tx("apiClaimRefund", "claim_refund", u)

Built ==
    {webStartRound, webLockRound, webRequestVrf, webRequestDegenVrf, webCancelRound,
     webClaimRefund, webCloseRound, webClaim, webClaimDetail, webAutoClaim,
     webBeginDegenExecution, webFinalizeDegenSuccess, webClaimDegenFallback,
     crankStartRound, crankLockRound, crankRequestVrf, crankAutoClaim,
     crankBeginDegenExecution, crankFinalizeDegenSuccess, crankCloseRound, apiClaim}
    \cup {webDepositAny(u) : u \in {v \in Users : usdc[v] > 0}}
    \cup UNION {{crankCloseParticipant(u), apiJoin(u), apiClaimRefund(u)} : u \in Users}

-----------------------------------------------------------------------------
(* The program.  Ready is what the round has to be for an instruction,     *)
(* Fits what its accounts and amounts have to be.                          *)

Ready(t) ==
    CASE t.ix = "start_round" -> round.status = "none"
      [] t.ix = "deposit_any" -> round.status = "open" /\ usdc[t.user] > 0
      [] t.ix = "lock_round" -> round.status = "open" /\ Cardinality(round.stakes) = 2
      [] t.ix = "request_vrf" -> round.status = "locked"
      [] t.ix \in {"claim", "auto_claim", "request_degen_vrf"} ->
             round.status = "settled" /\ round.degen = "none" /\ t.user = W
      [] t.ix \in {"begin_degen_execution", "claim_degen_fallback"} -> round.degen = "ready"
      [] t.ix = "finalize_degen_success" -> round.degen = "executing"
      [] t.ix = "cancel_round" ->
             round.status = "open" /\ round.stakes = {t.user}
      [] t.ix = "claim_refund" -> round.status = "cancelled" /\ t.user \in round.stakes
      [] t.ix = "close_participant" -> round.status \in Terminal /\ t.user \in round.records
                                       /\ (round.status = "claimed" \/ t.user \notin round.stakes)
      [] t.ix = "close_round" -> round.status \in Terminal

\* Deposits that were not refunded and USDC that anyone sent.
VaultHolds == round.dust \/ (round.status = "cancelled" /\ round.stakes # {})

Pays(t) == t.ix \in {"claim", "auto_claim", "begin_degen_execution", "claim_degen_fallback"}

Fits(t) ==
    LET has == atas \cup t.makes
    IN  /\ t.ix = "deposit_any" => /\ t.user \in has /\ usdc[t.user] >= t.before
                                   /\ usdc[t.user] - t.before >= t.min
        /\ t.ix \in {"cancel_round", "claim_refund"} => t.user \in has
        /\ Pays(t) => /\ t.treasury = treasury
                      /\ (IF t.ix = "begin_degen_execution" THEN Crank ELSE W) \in has
                      /\ t.payer => Crank \in has
        /\ t.ix \in {"begin_degen_execution", "claim_degen_fallback"} /\ Owed => t.payer
        /\ t.ix = "close_round" /\ VaultHolds => t.treasury # "none"

Accepts(t) == Ready(t) /\ Fits(t)

\* The round after an accepted instruction.
After(t) ==
    CASE t.ix = "start_round" -> [NoRound EXCEPT !.status = "open"]
      [] t.ix = "deposit_any" ->
             [round EXCEPT !.stakes = @ \cup {t.user}, !.records = @ \cup {t.user}]
      [] t.ix = "lock_round" -> [round EXCEPT !.status = "locked"]
      [] t.ix = "request_vrf" -> [round EXCEPT !.status = "vrf", !.payer = TRUE]
      [] t.ix \in {"claim", "auto_claim"} ->
             [round EXCEPT !.status = "claimed", !.stakes = {}, !.reimbursed = @ \/ (Owed /\ t.payer)]
      [] t.ix = "request_degen_vrf" -> [round EXCEPT !.degen = "requested"]
      [] t.ix = "begin_degen_execution" ->
             [round EXCEPT !.degen = "executing", !.reimbursed = @ \/ Owed]
      [] t.ix = "finalize_degen_success" ->
             [round EXCEPT !.degen = "done", !.status = "claimed", !.stakes = {}]
      [] t.ix = "claim_degen_fallback" ->
             [round EXCEPT !.degen = "done", !.status = "claimed", !.stakes = {},
                           !.reimbursed = @ \/ Owed]
      [] t.ix = "cancel_round" -> [round EXCEPT !.stakes = {}, !.status = "cancelled"]
      [] t.ix = "claim_refund" -> [round EXCEPT !.stakes = @ \ {t.user}]
      [] t.ix = "close_participant" -> [round EXCEPT !.records = @ \ {t.user}]
      [] t.ix = "close_round" -> NoRound

-----------------------------------------------------------------------------
Send(t) ==
    /\ Ready(t) /\ Cardinality(flight) < FLIGHT
    /\ flight' = flight \cup {t}
    /\ UNCHANGED <<round, treasury, atas, usdc>>

Land(t) ==
    /\ t \in flight /\ flight' = flight \ {t}
    /\ IF Accepts(t)
       THEN /\ round' = After(t)
            /\ atas' = atas \cup t.makes
            /\ usdc' = IF t.ix = "deposit_any" THEN [usdc EXCEPT ![t.user] = t.before]
                       ELSE usdc
       ELSE UNCHANGED <<round, atas, usdc>>
    /\ UNCHANGED treasury

Lost(t) ==
    /\ t \in flight /\ flight' = flight \ {t}
    /\ UNCHANGED <<round, treasury, atas, usdc>>

\* The oracle answers, for the draw and for the degen claim.
Oracle ==
    /\ \/ round.status = "vrf" /\ round' = [round EXCEPT !.status = "settled"]
       \/ round.degen = "requested" /\ round' = [round EXCEPT !.degen = "ready"]
    /\ UNCHANGED <<treasury, atas, usdc, flight>>

\* Anyone may send USDC to the vault, and the administrator cancels a running round.
Donate ==
    /\ round.status # "none" /\ ~round.dust /\ round' = [round EXCEPT !.dust = TRUE]
    /\ UNCHANGED <<treasury, atas, usdc, flight>>

ForceCancel ==
    /\ round.status \in {"open", "locked", "vrf"}
    /\ round' = [round EXCEPT !.status = "cancelled"]
    /\ UNCHANGED <<treasury, atas, usdc, flight>>

SetTreasury ==
    \E t \in Treasuries \ {treasury} :
        treasury' = t /\ UNCHANGED <<round, atas, usdc, flight>>

\* The crank's wallet may have closed its USDC account.
CloseAta ==
    /\ Crank \in atas /\ atas' = atas \ {Crank}
    /\ UNCHANGED <<round, treasury, usdc, flight>>

Receive(u) ==
    /\ usdc[u] < MAXBAL /\ usdc' = [usdc EXCEPT ![u] = @ + 1]
    /\ UNCHANGED <<round, treasury, atas, flight>>

Next ==
    \/ \E t \in Built : Send(t)
    \/ \E t \in flight : Land(t) \/ Lost(t)
    \/ Oracle \/ Donate \/ ForceCancel \/ SetTreasury \/ CloseAta
    \/ \E u \in Users : Receive(u)

Spec == Init /\ [][Next]_vars
-----------------------------------------------------------------------------
(* Properties. *)

Mine == {t \in Built : t.name \in Checked}

\* An instruction that a builder of the run builds from the present state, when the round
\* is where the instruction belongs, carries the accounts and amounts the program wants.
BuiltIsAccepted == \A t \in Mine : Ready(t) => Fits(t)

\* The same, while the crank's wallet has a USDC account and its environment names the
\* configured treasury.
BuiltIsAcceptedCalm == Crank \in atas /\ treasury = T0 => BuiltIsAccepted

=============================================================================

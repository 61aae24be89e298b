---------------------------- MODULE DegenExecutor ----------------------------
(***************************************************************************)
(* crank/src/degenExecutor.ts: the process that pays degen claims.  For a  *)
(* claim that is ready it tries the candidates in order, each with wider   *)
(* slippage and with fewer accounts, and falls back to USDC.  One attempt  *)
(* is one transaction (drain, begin, swap, finalize) that lands as a whole *)
(* or not at all, perhaps long after the executor has given up on it.      *)
(*                                                                         *)
(* What a token's market gives for each attempt is fixed in `market`;      *)
(* requests that fail, answers that do not come and transactions that are  *)
(* lost count against FAULTS.                                              *)
(***************************************************************************)
EXTENDS Naturals, FiniteSets

CONSTANTS
    RANKS,      \* candidates of the claim
    SLIPS,      \* length of SLIPPAGE_SEQUENCE
    ACCS,       \* length of QUOTE_MAX_ACCOUNTS_SEQUENCE
    Fits,       \* what a market may be: the first of 1..ACCS, ACCS + 1 (single hop)
    Accepts,    \*   that fits in a transaction, the first slippage that is
    Directs,    \*   accepted, and whether there is a single-hop route
    OWED,       \* is the VRF payer's reimbursement owed?
    TOTAL, REIMBURSE,
    FAULTS, DUST, CRASHES,  \* bounds of the model
    FEES        \* by how much the fee changes, once

VARIABLES
    claim,      \* DegenClaim.status, on chain
    fee,        \* what the fee takes, on chain
    ata,        \* the executor's USDC account
    due,        \* has fallback_after_ts passed?
    txs,        \* transactions sent: on their way, failed or expired
    paid,       \* what the winner got, and the amount begin moved for it
    drained,    \* moved from the executor's account to the treasury
    market,
    ex,         \* the executor: its loop variables
    cache,      \* mintOwnerCache
    fallback,   \* a fallback was sent
    faults, dust, crashes

chain == <<claim, fee, ata, due, paid, drained>>
vars == <<chain, txs, market, ex, cache, fallback, faults, dust, crashes>>

Ranks == 1..RANKS
Single == ACCS + 1                  \* the single-hop attempt

\* What the VRF payer is owed is deducted first
reimburseVrf == IF OWED THEN REIMBURSE ELSE 0

\* computeBeginDegenPayout, with the fee of now
Payout == TOTAL - reimburseVrf - fee

Plain(k) == [kind |-> k, fits |-> 1, accepts |-> 1, direct |-> TRUE]
Usdc == Plain("usdc")
Markets == {Usdc, Plain("unsupported"), Plain("no_route")}
    \cup [kind : {"token"}, fits : Fits, accepts : Accepts, direct : Directs]
Idle == [pc |-> "idle", rank |-> 1, slip |-> 1, acc |-> 1, sized |-> FALSE, seen |-> "none", payout |-> 0]

Init ==
    /\ claim = "READY" /\ fee = 2 /\ ata = 0 /\ due = FALSE
    /\ paid = [got |-> 0, owed |-> 0] /\ drained = 0 /\ txs = {}
    /\ market \in [Ranks -> Markets]
    /\ ex = Idle /\ cache = [r \in Ranks |-> "unread"] /\ fallback = FALSE
    /\ faults = 0 /\ dust = 0 /\ crashes = 0

\* A request fails or times out
Fault == faults < FAULTS /\ faults' = faults + 1
NoFault == UNCHANGED faults

-----------------------------------------------------------------------------
(* The chain.                                                              *)

\* Mutant of LandsWhole: finalize does not ask for an empty account
LandsWholeLax(tx) ==
    /\ claim = "READY"
    /\ IF tx.kind = "fallback" THEN ~OWED
       ELSE tx.drain = ata /\ tx.payout <= Payout

\* Would the transaction succeed now: the drain leaves nothing, begin moves
\* the payout of now, the swap takes the payout the executor computed, and
\* finalize finds the account empty.  The fallback is built without the VRF
\* payer's accounts, which the program wants while the payer is owed
LandsWhole(tx) ==
    /\ claim = "READY"
    /\ IF tx.kind = "fallback" THEN ~OWED
       ELSE tx.drain = ata /\ tx.payout = Payout

Land(tx) ==
    /\ tx.state = "sent" /\ LandsWhole(tx)
    /\ txs' = txs \ {tx}
    /\ IF tx.kind = "fallback"
       THEN /\ claim' = "FALLBACK" /\ paid' = [got |-> Payout, owed |-> Payout]
            /\ UNCHANGED <<ata, drained>>
       ELSE /\ claim' = "SWAPPED" /\ paid' = [got |-> tx.payout, owed |-> Payout]
            /\ drained' = drained + tx.drain /\ ata' = Payout - tx.payout
    /\ UNCHANGED <<fee, due, market, ex, cache, fallback, faults, dust, crashes>>

\* It lands and fails: the state has changed, or the price has (a fault)
LandFails(tx) ==
    /\ tx.state = "sent"
    /\ txs' = (txs \ {tx}) \cup {[tx EXCEPT !.state = IF LandsWhole(tx) THEN "price" ELSE "state"]}
    /\ IF LandsWhole(tx) THEN Fault ELSE NoFault
    /\ UNCHANGED <<chain, market, ex, cache, fallback, dust, crashes>>

\* It never lands: its blockhash has expired
Expires(tx) ==
    /\ tx.state = "sent" /\ Fault
    /\ txs' = (txs \ {tx}) \cup {[tx EXCEPT !.state = "expired"]}
    /\ UNCHANGED <<chain, market, ex, cache, fallback, dust, crashes>>

\* Someone sends USDC to the executor, the admin changes the fee, the
\* timeout passes, the winner takes the prize directly
Foreign ==
    /\ \/ /\ dust < DUST /\ ata' = ata + 1 /\ dust' = dust + 1
          /\ UNCHANGED <<claim, fee, due, paid>>
       \/ /\ fee = 2 /\ fee' \in {2 - FEES, 2 + FEES} \ {2}
          /\ UNCHANGED <<claim, ata, due, paid, dust>>
       \/ /\ ~due /\ due' = TRUE
          /\ UNCHANGED <<claim, fee, ata, paid, dust>>
       \/ /\ claim = "READY" /\ claim' = "DIRECT"
          /\ paid' = [got |-> Payout, owed |-> Payout]
          /\ UNCHANGED <<fee, ata, due, dust>>
    /\ UNCHANGED <<drained, txs, market, ex, cache, fallback, faults, crashes>>

-----------------------------------------------------------------------------
(* The executor.                                                           *)

\* main's loop finds the claim ready, processReadyClaim reads the round and
\* the configuration and computes the payout that begin will move
Poll ==
    /\ ex.pc = "idle" /\ claim = "READY"
    /\ ex' = [Idle EXCEPT !.pc = "candidate", !.payout = Payout]
    /\ UNCHANGED <<chain, txs, market, cache, fallback, faults, dust, crashes>>

NextCandidate ==
    IF ex.rank < RANKS THEN [ex EXCEPT !.pc = "candidate", !.rank = @ + 1, !.seen = "none"]
    ELSE [ex EXCEPT !.pc = "fallback", !.seen = "none"]

\* Does Jupiter quote a route with so many accounts, or with a single hop?
Quoted(acc) ==
    market[ex.rank].kind = "token" /\ (acc = Single => market[ex.rank].direct)

\* The program that owns the mint: read once, and an answer that there is no
\* such account is kept as well
MintOwner(owner) ==
    /\ IF cache[ex.rank] # "unread" THEN owner = cache[ex.rank] /\ NoFault
       ELSE IF owner = (IF market[ex.rank].kind = "unsupported" THEN "none" ELSE "ok") THEN NoFault ELSE Fault
    /\ cache' = [cache EXCEPT ![ex.rank] = owner]

\* The start of a candidate: the mint's program, and a quote to see that there
\* is a route
StartCandidate ==
    /\ ex.pc = "candidate"
    /\ LET kind == market[ex.rank].kind
           first == [ex EXCEPT !.pc = "attempt", !.slip = 1, !.acc = 1, !.sized = FALSE]
       IN \/ /\ kind = "usdc" /\ ex' = first /\ NoFault /\ UNCHANGED cache
          \/ \E owner \in {"ok", "none"} :
                /\ kind # "usdc"
                /\ MintOwner(owner)
                /\ ex' = IF owner = "ok" /\ Quoted(1) THEN first ELSE NextCandidate
          \/ /\ kind # "usdc" /\ Fault /\ ex' = NextCandidate /\ UNCHANGED cache
    /\ UNCHANGED <<chain, txs, market, fallback, dust, crashes>>

\* buildExecutionTx: the stale balance it drains is the one it reads now
Tx == [kind |-> "swap", rank |-> ex.rank, slip |-> ex.slip, payout |-> ex.payout, drain |-> ata, state |-> "sent"]

\* The quote, the size of the transaction and the simulation, in that order
Outcome ==
    LET mk == market[ex.rank] IN
    IF mk.kind = "token" /\ ~Quoted(ex.acc) THEN "other"
    ELSE IF ex.acc < mk.fits THEN "size"
    ELSE IF ~LandsWhole(Tx) THEN "other"
    ELSE IF ex.slip < mk.accepts THEN "slippage" ELSE "sent"

\* The end of the body of the slippage loop
AfterSlip(e) ==
    IF e.slip < SLIPS /\ market[e.rank].kind # "usdc"
    THEN [e EXCEPT !.pc = "attempt", !.slip = @ + 1, !.acc = 1, !.sized = FALSE]
    ELSE NextCandidate

\* After the accounts loop: one more attempt if any attempt was too large
AfterAccs(e) == IF e.sized THEN [e EXCEPT !.acc = Single] ELSE AfterSlip(e)

\* The catch of the accounts loop and the one of the single-hop attempt
Failed(kind) ==
    LET e == [ex EXCEPT !.seen = kind] IN
    CASE kind = "other" -> NextCandidate
      [] kind = "size" /\ market[ex.rank].kind = "usdc" -> NextCandidate
      [] kind = "size" /\ ex.acc < ACCS -> [e EXCEPT !.acc = @ + 1, !.sized = TRUE]
      [] kind = "size" /\ ex.acc = ACCS -> [e EXCEPT !.acc = Single, !.sized = TRUE]
      [] kind = "slippage" /\ ex.acc # Single -> AfterAccs(e)
      [] OTHER -> AfterSlip(e)

\* Those of other candidates, and those still on their way
Open == {tx \in txs : tx.rank # ex.rank \/ tx.state = "sent"}

Attempt ==
    /\ ex.pc = "attempt"
    /\ \/ /\ Outcome = "sent" /\ NoFault
          /\ txs' = Open \cup {Tx} /\ ex' = [ex EXCEPT !.pc = "confirm", !.seen = "none"]
       \/ /\ Outcome # "sent" /\ NoFault /\ ex' = Failed(Outcome) /\ UNCHANGED txs
       \/ /\ Fault /\ ex' = Failed("other") /\ UNCHANGED txs
    /\ UNCHANGED <<chain, market, cache, fallback, dust, crashes>>

Mine == {tx \in txs : tx.kind = "swap" /\ tx.rank = ex.rank /\ tx.slip = ex.slip}

\* confirmTransaction returns, whether the transaction failed or not
Confirmed ==
    /\ ex.pc = "confirm" /\ \A tx \in Mine : tx.state \in {"price", "state"}
    /\ ex' = Idle
    /\ UNCHANGED <<chain, txs, market, cache, fallback, faults, dust, crashes>>

\* A timeout that the code knows is followed by three looks at the status;
\* what is still unknown then is asked of the claim
CheckClaim == IF claim # "READY" THEN Idle ELSE NextCandidate

\* confirmTransaction throws, with an error that counts as a timeout or not
ConfirmThrows ==
    /\ ex.pc = "confirm"
    /\ IF \E tx \in Mine : tx.state = "expired" THEN NoFault ELSE Fault
    /\ ex' \in {CheckClaim, NextCandidate}
    /\ UNCHANGED <<chain, txs, market, cache, fallback, dust, crashes>>

\* buildAutoClaimDegenFallback
FallbackTx == [kind |-> "fallback", rank |-> 0, slip |-> 0, payout |-> 0, drain |-> 0, state |-> "sent"]

\* Mutant of Fallback: it is sent only if no mint was found
FallbackEarly ==
    /\ ex.pc = "fallback"
    /\ IF due /\ LandsWhole(FallbackTx) /\ \A r \in Ranks : cache[r] = "none"
       THEN txs' = txs \cup {FallbackTx} /\ fallback' = TRUE
       ELSE UNCHANGED <<txs, fallback>>
    /\ ex' = Idle
    /\ UNCHANGED <<chain, market, cache, faults, dust, crashes>>

\* All candidates have failed: the fallback, if it is due and its simulation
\* succeeds; either way the claim is left until the next poll
Fallback ==
    /\ ex.pc = "fallback"
    /\ IF due /\ LandsWhole(FallbackTx)
       THEN txs' = txs \cup {FallbackTx} /\ fallback' = TRUE
       ELSE UNCHANGED <<txs, fallback>>
    /\ ex' = Idle
    /\ UNCHANGED <<chain, market, cache, faults, dust, crashes>>

\* The process is restarted: what it sent may still land
Crash ==
    /\ crashes < CRASHES /\ crashes' = crashes + 1
    /\ ex' = Idle /\ cache' = [r \in Ranks |-> "unread"]
    /\ UNCHANGED <<chain, txs, market, fallback, faults, dust>>

Executor ==
    Poll \/ StartCandidate \/ Attempt \/ Confirmed \/ ConfirmThrows \/ Fallback

Next ==
    \/ \E tx \in txs : Land(tx) \/ LandFails(tx) \/ Expires(tx)
    \/ Foreign \/ Executor \/ Crash

Spec == Init /\ [][Next]_vars

\* A transaction is settled, in one way or another.
Settles == \E tx \in txs : Land(tx) \/ LandFails(tx)

\* The timeout of the claim passes.
Times == ~due /\ Foreign /\ due'

\* The executor runs, transactions are settled one way or the other, and the timeout
\* passes.
FairSpec ==
    /\ Spec
    /\ WF_vars(Poll) /\ WF_vars(StartCandidate) /\ WF_vars(Attempt)
    /\ WF_vars(Confirmed \/ ConfirmThrows) /\ WF_vars(Fallback)
    /\ WF_vars(Settles) /\ WF_vars(Times)

-----------------------------------------------------------------------------
(* Properties.                                                             *)

\* The winner gets all of the payout that begin moves, and the treasury gets
\* from the executor's account nothing but what others sent there: with late
\* and repeated transactions, fee changes and dust in between
PrizeWhole ==
    /\ paid.got = paid.owed
    /\ drained + ata = dust

\* Undisturbed, a fallback is sent only if no candidate could have been paid:
\* the loops reach an attempt that fits and is accepted where there is one
Viable(r) ==
    \/ market[r].kind = "usdc"
    \/ /\ market[r].kind = "token" /\ market[r].accepts <= SLIPS
       /\ market[r].fits <= Single /\ (market[r].fits = Single => market[r].direct)
FallbackIsLast == fallback => \A r \in Ranks : ~Viable(r)

\* "falls back to a USDC payout": a ready claim is paid some time, whatever
\* the markets give, through finitely many faults
EventuallyPaid == <>(claim # "READY")

=============================================================================

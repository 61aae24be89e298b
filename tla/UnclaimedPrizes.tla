--------------------------- MODULE UnclaimedPrizes ---------------------------
(***************************************************************************)
(* The prizes a tab lists as unclaimed (src/src/hooks/useJackpot.ts): in   *)
(* localStorage, in React state, and on chain.  They are found by the scan *)
(* at startup, by the round on display when it settles, and by the load    *)
(* that follows a change of wallet; they are dropped by the four ways to   *)
(* claim, by the load, by the periodic re-validation and by a round seen   *)
(* claimed.  The crank claims for the winner meanwhile, transactions are   *)
(* sent without waiting for their confirmation, and the page is reloaded.  *)
(***************************************************************************)
EXTENDS Naturals, Sequences, FiniteSets, TLC, SequencesExt

CONSTANTS
    Rounds,     \* finished rounds
    Wallets,    \* wallets the user may connect
    Winner,     \* [Rounds -> Wallets]
    NoWallet,
    TXFAILS,    \* may a transaction that was sent fail or expire?
    ERRORS,     \* may a request to the RPC node fail?
    RELOADS,    \* page reloads (bound of the model)
    CLAIMS      \* claims the user starts (bound of the model)

VARIABLES
    chain,      \* status of each round account
    degen,      \* has the winner asked for a degen payout?
    tx,         \* claims sent and not yet landed
    wallet,     \* the connected wallet
    store,      \* rounds of the prizes in localStorage
    prizes,     \* unclaimedPrizes
    pending,    \* pendingSettledRef
    init,       \* initialized: the startup scan is over
    seen,       \* the round on display, when it was seen settled (else 0)
    load,       \* the load in progress
    reval,      \* the re-validation in progress
    claim,      \* the claim in progress
    timer,      \* is the reveal timer running?
    reloads, claims

tab == <<wallet, store, prizes, pending, init, seen, load, reval, claim, timer, reloads, claims>>
vars == <<chain, degen, tx, tab>>

Idle == [on |-> FALSE, who |-> NoWallet, todo |-> {}, keep |-> {}]
NoClaim == [kind |-> "none", r |-> 0, listed |-> FALSE, rest |-> <<>>]
Mine(S, w) == {r \in S : Winner[r] = w}

Init ==
    /\ chain = [r \in Rounds |-> "live"] /\ degen = [r \in Rounds |-> FALSE]
    /\ tx = {} /\ wallet = NoWallet /\ store = {} /\ prizes = {} /\ pending = {}
    /\ init = FALSE /\ seen = 0 /\ load = Idle /\ reval = Idle /\ claim = NoClaim
    /\ timer = FALSE /\ reloads = 0 /\ claims = 0

-----------------------------------------------------------------------------
(* The chain, the crank and the executor.                                  *)

Settle ==
    \E r \in Rounds :
        /\ chain[r] = "live" /\ chain' = [chain EXCEPT ![r] = "settled"]
        /\ UNCHANGED <<degen, tx, tab>>

\* auto_claim, or the executor when a degen payout was asked for; then close
CrankClaims ==
    \E r \in Rounds :
        /\ chain[r] \in {"settled", "claimed"}
        /\ chain' = [chain EXCEPT ![r] = IF @ = "settled" THEN "claimed" ELSE "gone"]
        /\ UNCHANGED <<degen, tx, tab>>

\* A claim that was sent lands; the program takes it only from a settled round
TxLands ==
    \E r \in tx :
        /\ tx' = tx \ {r}
        /\ chain' = IF chain[r] = "settled" /\ ~degen[r] THEN [chain EXCEPT ![r] = "claimed"] ELSE chain
        /\ UNCHANGED <<degen, tab>>

TxFails ==
    /\ TXFAILS
    /\ \E r \in tx : tx' = tx \ {r}
    /\ UNCHANGED <<chain, degen, tab>>

-----------------------------------------------------------------------------
(* Startup, wallets and the load.                                          *)

\* The load effect: nothing to list without a wallet or before the scan's end
RunLoad(w, initialized) ==
    IF w = NoWallet \/ ~initialized
    THEN prizes' = {} /\ load' = Idle
    ELSE prizes' = prizes /\ load' = [on |-> TRUE, who |-> w, todo |-> Mine(store, w), keep |-> {}]

\* The scan is over; it has kept the settled rounds it met
ScanEnds ==
    /\ ~init /\ init' = TRUE
    /\ pending' = {r \in Rounds : chain[r] = "settled"}
    /\ RunLoad(wallet, TRUE)
    /\ UNCHANGED <<chain, degen, tx, wallet, store, seen, reval, claim, timer, reloads, claims>>

\* The wallet connects, disconnects or is changed, between loads
Connect ==
    \E w \in Wallets \cup {NoWallet} :
        /\ w # wallet /\ ~load.on /\ claim = NoClaim
        /\ wallet' = w
        /\ RunLoad(w, init)
        /\ UNCHANGED <<chain, degen, tx, store, pending, init, seen, reval, claim, timer, reloads, claims>>

\* Mutant of LoadStep: a prize that cannot be checked is dropped
LoadStepStrict ==
    \E r \in load.todo :
        /\ \/ /\ chain[r] = "settled"
              /\ load' = [load EXCEPT !.todo = @ \ {r}, !.keep = @ \cup {r}]
              /\ UNCHANGED store
           \/ /\ ERRORS \/ chain[r] # "settled"
              /\ load' = [load EXCEPT !.todo = @ \ {r}]
              /\ store' = store \ {r}
        /\ UNCHANGED <<chain, degen, tx, wallet, prizes, pending, init, seen, reval, claim, timer, reloads, claims>>

\* One saved prize is checked on chain; it is kept when the request fails
LoadStep ==
    \E r \in load.todo :
        /\ \/ /\ ERRORS \/ chain[r] = "settled"
              /\ load' = [load EXCEPT !.todo = @ \ {r}, !.keep = @ \cup {r}]
              /\ UNCHANGED store
           \/ /\ chain[r] # "settled"
              /\ load' = [load EXCEPT !.todo = @ \ {r}]
              /\ store' = store \ {r}
        /\ UNCHANGED <<chain, degen, tx, wallet, prizes, pending, init, seen, reval, claim, timer, reloads, claims>>

\* The rounds of the scan are added and saved; the list is replaced
LoadEnds ==
    /\ load.on /\ load.todo = {}
    /\ store' = store \cup Mine(pending, load.who)
    /\ prizes' = load.keep \cup Mine(pending, load.who)
    /\ pending' = {} /\ load' = Idle
    /\ UNCHANGED <<chain, degen, tx, wallet, init, seen, reval, claim, timer, reloads, claims>>

Reload ==
    /\ reloads < RELOADS /\ reloads' = reloads + 1
    /\ prizes' = {} /\ pending' = {} /\ init' = FALSE /\ seen' = 0 /\ timer' = FALSE
    /\ load' = Idle /\ reval' = Idle /\ claim' = NoClaim
    /\ UNCHANGED <<chain, degen, tx, wallet, store, claims>>

-----------------------------------------------------------------------------
(* The round on display, and the re-validation.                            *)

\* A poll shows the round settled, and the user is its winner
SeeSettled ==
    \E r \in Rounds :
        /\ init /\ chain[r] = "settled" /\ Winner[r] = wallet
        /\ claim.kind = "claim" => r = seen
        /\ seen' = r /\ timer' = TRUE
        /\ UNCHANGED <<chain, degen, tx, wallet, store, prizes, pending, init, load, reval, claim, reloads, claims>>

\* The reveal timer: the prize is saved and listed.  The load that began with
\* the wallet is over by then (the timer takes seconds)
Reveal ==
    /\ timer /\ Winner[seen] = wallet /\ ~load.on
    /\ timer' = FALSE
    /\ store' = store \cup {seen} /\ prizes' = prizes \cup {seen}
    /\ UNCHANGED <<chain, degen, tx, wallet, pending, init, seen, load, reval, claim, reloads, claims>>

\* The round on display is seen claimed, and its prize is dropped, or the tab
\* goes on to the next round
LeaveSeen ==
    /\ seen # 0 /\ claim.kind # "claim" /\ seen' = 0 /\ timer' = FALSE
    /\ \/ /\ chain[seen] = "claimed" /\ seen \in prizes
          /\ store' = store \ {seen} /\ prizes' = prizes \ {seen}
       \/ UNCHANGED <<store, prizes>>
    /\ UNCHANGED <<chain, degen, tx, wallet, pending, init, load, reval, claim, reloads, claims>>

\* Every ten seconds; keep remembers the list, whose change cancels the check
RevalStart ==
    /\ prizes # {} /\ ~reval.on
    /\ reval' = [on |-> TRUE, who |-> NoWallet, todo |-> prizes, keep |-> prizes]
    /\ UNCHANGED <<chain, degen, tx, wallet, store, prizes, pending, init, seen, load, claim, timer, reloads, claims>>

\* The rounds that are not settled any more are dropped, unless the request
\* for them failed
RevalEnd ==
    /\ reval.on /\ reval' = Idle
    /\ \E drop \in SUBSET {r \in reval.todo : chain[r] # "settled"} :
          /\ ERRORS \/ drop = {r \in reval.todo : chain[r] # "settled"}
          /\ IF prizes = reval.keep
             THEN store' = store \ drop /\ prizes' = prizes \ drop
             ELSE UNCHANGED <<store, prizes>>
    /\ UNCHANGED <<chain, degen, tx, wallet, pending, init, seen, load, claim, timer, reloads, claims>>

-----------------------------------------------------------------------------
(* Claims.                                                                 *)

\* The four ways: the modal (the round on display), a badge, the cabinet (all
\* prizes one after the other), and the page of a round
StartClaim ==
    /\ claim = NoClaim /\ wallet # NoWallet
    /\ claims < CLAIMS /\ claims' = claims + 1
    /\ \E r \in Rounds :
         \/ r = seen /\ claim' = [kind |-> "claim", r |-> r, listed |-> r \in prizes, rest |-> <<>>]
         \/ r \in prizes /\ claim' = [kind |-> "badge", r |-> r, listed |-> TRUE, rest |-> <<>>]
         \/ r \in prizes /\ \E q \in SetToSeqs(prizes \ {r}) :
                claim' = [kind |-> "cabinet", r |-> r, listed |-> TRUE, rest |-> q]
         \/ Winner[r] = wallet /\ chain[r] = "settled"
            /\ claim' = [kind |-> "page", r |-> r, listed |-> r \in prizes, rest |-> <<>>]
    /\ UNCHANGED <<chain, degen, tx, wallet, store, prizes, pending, init, seen, load, reval, timer, reloads>>

\* What is left to do after this round
Rest(ok) ==
    claim' = IF ok /\ claim.rest # <<>>
             THEN [claim EXCEPT !.r = Head(claim.rest), !.rest = Tail(@)] ELSE NoClaim

Drop(r, inState) ==
    /\ store' = store \ {r}
    /\ prizes' = IF inState THEN prizes \ {r} ELSE prizes

\* The check before the claim finds the round claimed or gone: clean up and throw
ClaimTooLate ==
    /\ claim # NoClaim /\ chain[claim.r] \in {"claimed", "gone"}
    /\ IF claim.kind = "page" THEN UNCHANGED <<store, prizes>> ELSE Drop(claim.r, TRUE)
    /\ Rest(FALSE)
    /\ UNCHANGED <<chain, degen, tx, wallet, pending, init, seen, load, reval, timer, reloads, claims>>

\* The check finds it settled: send, and drop the prize without waiting for
\* the transaction.  claim() drops it only when it was listed at its start
ClaimSent ==
    /\ claim # NoClaim /\ chain[claim.r] = "settled"
    /\ tx' = tx \cup {claim.r}
    /\ CASE claim.kind = "claim" -> IF claim.listed THEN Drop(claim.r, TRUE) ELSE UNCHANGED <<store, prizes>>
         [] claim.kind = "page" -> Drop(claim.r, FALSE)
         [] OTHER -> Drop(claim.r, TRUE)
    /\ Rest(TRUE)
    /\ UNCHANGED <<chain, degen, wallet, pending, init, seen, load, reval, timer, reloads, claims>>

\* The wallet or the RPC node refuses
ClaimFails ==
    /\ claim # NoClaim /\ Rest(FALSE)
    /\ UNCHANGED <<chain, degen, tx, wallet, store, prizes, pending, init, seen, load, reval, timer, reloads, claims>>

\* The degen ways: VRF is requested, and the executor pays later.  The prize
\* stays listed but for the page of the round, which drops it from the store
ClaimDegen ==
    /\ claim # NoClaim /\ chain[claim.r] = "settled"
    /\ degen' = [degen EXCEPT ![claim.r] = TRUE]
    /\ IF claim.kind = "page" THEN Drop(claim.r, FALSE) ELSE UNCHANGED <<store, prizes>>
    /\ Rest(TRUE)
    /\ UNCHANGED <<chain, tx, wallet, pending, init, seen, load, reval, timer, reloads, claims>>

\* A claim under way is answered, in one way or another.
ClaimAnswered == ClaimTooLate \/ ClaimSent \/ ClaimFails

Next ==
    \/ Settle \/ CrankClaims \/ TxLands \/ TxFails
    \/ ScanEnds \/ Connect \/ LoadStep \/ LoadEnds \/ Reload
    \/ SeeSettled \/ Reveal \/ LeaveSeen \/ RevalStart \/ RevalEnd
    \/ StartClaim \/ ClaimTooLate \/ ClaimSent \/ ClaimFails \/ ClaimDegen

Spec == Init /\ [][Next]_vars

-----------------------------------------------------------------------------
(* Properties.                                                             *)

\* A prize leaves localStorage only when its round is not settled any more,
\* when a claim for it is under way, or when the degen payout was asked for:
\* "keep on error - be conservative"
KeptUntilClaimed ==
    [][\A r \in store \ store' : chain[r] # "settled" \/ r \in tx' \/ degen'[r]]_vars

\* "Covers cases where a prize is claimed via RoundDetail, auto-claim, or
\* another tab": a listed prize whose round was claimed does not stay listed
ClaimedAreUnlisted ==
    \A r \in Rounds : (r \in prizes /\ chain[r] \in {"claimed", "gone"}) ~> (r \notin prizes)

\* After a (re)load of the page the connected winner finds the prize listed,
\* unless it is claimed or being claimed
ReloadRestores ==
    \A r \in Rounds :
        (~init /\ chain[r] = "settled" /\ wallet = Winner[r] /\ r \notin tx)
            ~> (r \in prizes \/ chain[r] # "settled" \/ wallet # Winner[r])

=============================================================================

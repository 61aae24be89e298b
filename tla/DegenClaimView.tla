-------------------------- MODULE DegenClaimView --------------------------
(***************************************************************************)
(* The ways to a degen claim in the web client: the winner modal with      *)
(* claimDegen, a badge or the cabinet with claimUnclaimedDegen (all of     *)
(* useJackpot.ts), and the page of a round with its own handleClaimDegen.  *)
(* Each sends request_degen_vrf without waiting for it and then reads the  *)
(* claim account, while the oracle and the executor work on it and the     *)
(* crank may pay the prize in USDC.                                        *)
(***************************************************************************)
EXTENDS Integers, FiniteSets

CONSTANTS
    ROUNDS,          \* rounds 1..ROUNDS, all won by this user
    MAX_POLLS,       \* polls of claimDegen within MAX_POLL_TIME
    CLICKS           \* bound on claims started

Rounds == 1..ROUNDS
Terminal == {"swapped", "fallback"}

VARIABLES
    round,       \* what each round account says
    degen,       \* what each degen claim account says; VrfRequested to Executing are "pending"
    requests,    \* request_degen_vrf transactions sent and not landed
    listed,      \* the prizes in localStorage
    hook,        \* the call of claimDegen or claimUnclaimedDegen under way
    modal,       \* the winner modal
    badge,       \* what the badge of each prize shows
    page,        \* the page of a round
    clicks

vars == <<round, degen, requests, listed, hook, modal, badge, page, clicks>>
ledger == <<round, degen>>

NoCall == [by |-> "none", at |-> "idle", r |-> 1, polls |-> 0]
Closed == [open |-> FALSE, r |-> 1, shows |-> "payout", of |-> 0]
NoPage == [open |-> FALSE, r |-> 1, at |-> "idle", shows |-> "payout"]

Init ==
    /\ round = [r \in Rounds |-> "live"] /\ degen = [r \in Rounds |-> "none"]
    /\ requests = {} /\ listed = {}
    /\ hook = NoCall /\ modal = Closed /\ page = NoPage
    /\ badge = [r \in Rounds |-> "payout"]
    /\ clicks = 0

-----------------------------------------------------------------------------
(* The chain. *)

\* The round is settled with this user as the winner, and the client lists the prize.
Settle(r) ==
    /\ round[r] = "live" /\ (r > 1 => round[r - 1] # "live")
    /\ round' = [round EXCEPT ![r] = "settled"]
    /\ listed' = listed \cup {r}
    /\ UNCHANGED <<degen, requests, hook, modal, badge, page, clicks>>

\* The request lands: the program opens the degen claim of a settled round, once.
RequestLands(r) ==
    /\ r \in requests
    /\ requests' = requests \ {r}
    /\ degen' = IF round[r] = "settled" /\ degen[r] = "none"
                THEN [degen EXCEPT ![r] = "pending"] ELSE degen
    /\ UNCHANGED <<round, listed, hook, modal, badge, page, clicks>>

\* It expires.
RequestExpires(r) ==
    /\ r \in requests
    /\ requests' = requests \ {r}
    /\ UNCHANGED <<ledger, listed, hook, modal, badge, page, clicks>>

\* The executor finishes the claim, with a swap or in USDC.
Execute(r) ==
    /\ degen[r] = "pending"
    /\ \E end \in Terminal : degen' = [degen EXCEPT ![r] = end]
    /\ round' = [round EXCEPT ![r] = "claimed"]
    /\ UNCHANGED <<requests, listed, hook, modal, badge, page, clicks>>

\* The crank pays a settled round that nobody has made a degen claim of.
CrankPays(r) ==
    /\ round[r] = "settled" /\ degen[r] = "none"
    /\ round' = [round EXCEPT ![r] = "claimed"]
    /\ UNCHANGED <<degen, requests, listed, hook, modal, badge, page, clicks>>

-----------------------------------------------------------------------------
(* useJackpot: claimDegen and claimUnclaimedDegen. *)

Click == clicks < CLICKS /\ clicks' = clicks + 1

Begin(by, r) == hook' = [by |-> by, at |-> "round", r |-> r, polls |-> 0]

\* The claim button of the modal in degen mode; disabled while the hook is loading.
ModalClaims(r) ==
    /\ hook = NoCall /\ Click
    /\ modal.open /\ modal.r = r
    /\ Begin("modal", r)
    /\ modal' = [modal EXCEPT !.shows = "payout", !.of = 0]
    /\ UNCHANGED <<ledger, requests, listed, badge, page>>

\* The degen button of a badge, disabled in the same way.
BadgeClaims(r) ==
    /\ hook = NoCall /\ Click
    /\ r \in listed
    /\ Begin("badge", r)
    /\ UNCHANGED <<ledger, requests, listed, modal, badge, page>>

\* What claimDegen returns is put into the modal, which is not asked whether it is still
\* open or for which round.
ShowInModal(result) ==
    /\ modal' = [modal EXCEPT !.shows = result, !.of = IF result = "swapped" THEN hook.r ELSE 0]
    /\ UNCHANGED badge

\* What claimUnclaimedDegen returns is put on the badge of the prize.
ShowOnBadge(result) ==
    /\ badge' = [badge EXCEPT ![hook.r] = result]
    /\ UNCHANGED modal

Show(result) ==
    /\ hook' = NoCall
    /\ IF hook.by = "modal" THEN ShowInModal(result) ELSE ShowOnBadge(result)

\* The round is read: only a settled one goes on. A badge takes a claimed one off the list.
ReadRound ==
    /\ hook.at = "round"
    /\ IF round[hook.r] = "settled"
       THEN /\ hook' = [hook EXCEPT !.at = "claim"]
            /\ UNCHANGED <<listed, modal, badge>>
       ELSE /\ Show("error")
            /\ listed' = IF hook.by = "badge" /\ round[hook.r] = "claimed"
                         THEN listed \ {hook.r} ELSE listed
    /\ UNCHANGED <<ledger, requests, page, clicks>>

\* The claim account is read, and without one the request is sent.
ReadClaim ==
    /\ hook.at = "claim"
    /\ requests' = IF degen[hook.r] = "none" THEN requests \cup {hook.r} ELSE requests
    /\ hook' = [hook EXCEPT !.at = IF hook.by = "modal" THEN "poll" ELSE "once"]
    /\ UNCHANGED <<ledger, listed, modal, badge, page, clicks>>

\* Mutant of PollClaim: the end of the polls is taken for the fallback.
PollClaimFallsBack ==
    /\ hook.at = "poll"
    /\ IF degen[hook.r] \in Terminal THEN Show(degen[hook.r])
       ELSE IF hook.polls < MAX_POLLS
       THEN hook' = [hook EXCEPT !.polls = @ + 1] /\ UNCHANGED <<modal, badge>>
       ELSE Show("fallback")
    /\ UNCHANGED <<ledger, requests, listed, page, clicks>>

\* claimDegen: one poll. A finished claim is the result; after MAX_POLLS the result is
\* that the claim is pending.
PollClaim ==
    /\ hook.at = "poll"
    /\ IF degen[hook.r] \in Terminal THEN Show(degen[hook.r])
       ELSE IF hook.polls < MAX_POLLS
       THEN hook' = [hook EXCEPT !.polls = @ + 1] /\ UNCHANGED <<modal, badge>>
       ELSE Show("pending")
    /\ UNCHANGED <<ledger, requests, listed, page, clicks>>

\* claimUnclaimedDegen: the claim account is read once after two seconds. A finished claim
\* takes the prize off the list; without an account the call fails.
ReadClaimOnce ==
    /\ hook.at = "once"
    /\ Show(IF degen[hook.r] = "none" THEN "error" ELSE degen[hook.r])
    /\ listed' = IF degen[hook.r] \in Terminal THEN listed \ {hook.r} ELSE listed
    /\ UNCHANGED <<ledger, requests, page, clicks>>

\* The wallet or a request refuses.
CallFails ==
    /\ hook # NoCall
    /\ Show("error")
    /\ UNCHANGED <<ledger, requests, listed, page, clicks>>

-----------------------------------------------------------------------------
(* The winner modal. *)

\* The modal opens for a settled round.
OpenModal(r) ==
    /\ ~modal.open /\ round[r] = "settled" /\ r >= modal.r
    /\ modal' = [modal EXCEPT !.open = TRUE, !.r = r]
    /\ UNCHANGED <<ledger, requests, listed, hook, badge, page, clicks>>

\* It is closed, also while a call is under way, and is emptied once.
CloseModal ==
    /\ modal.open
    /\ modal' = [modal EXCEPT !.open = FALSE, !.shows = "payout", !.of = 0]
    /\ UNCHANGED <<ledger, requests, listed, hook, badge, page, clicks>>

-----------------------------------------------------------------------------
(* RoundDetail. *)

OpenPage(r) ==
    /\ ~page.open /\ round[r] # "live"
    /\ page' = [open |-> TRUE, r |-> r, at |-> "idle", shows |-> "payout"]
    /\ UNCHANGED <<ledger, requests, listed, hook, modal, badge, clicks>>

LeavePage ==
    /\ page.open
    /\ page' = NoPage
    /\ UNCHANGED <<ledger, requests, listed, hook, modal, badge, clicks>>

\* The effect that looks for a degen claim made before.
DetectDegen ==
    /\ page.open /\ page.at = "idle" /\ degen[page.r] # "none"
    /\ page' = [page EXCEPT !.shows = degen[page.r]]
    /\ UNCHANGED <<ledger, requests, listed, hook, modal, badge, clicks>>

\* handleClaimDegen: the winner's button, up to the request.
PageClaims ==
    /\ page.open /\ page.at = "idle" /\ page.shows = "payout" /\ Click
    /\ IF round[page.r] # "settled"
       THEN page' = [page EXCEPT !.shows = "error"] /\ UNCHANGED requests
       ELSE /\ requests' = IF degen[page.r] = "none" THEN requests \cup {page.r} ELSE requests
            /\ page' = [page EXCEPT !.at = "read"]
    /\ UNCHANGED <<ledger, listed, hook, modal, badge>>

\* handleClaimDegen two seconds later: what the account says is shown, and the prize is
\* taken off the list unless there is no account.
PageReads ==
    /\ page.at = "read"
    /\ page' = [page EXCEPT !.at = "idle",
                            !.shows = IF degen[page.r] = "none" THEN "error" ELSE degen[page.r]]
    /\ listed' = IF degen[page.r] = "none" THEN listed ELSE listed \ {page.r}
    /\ UNCHANGED <<ledger, requests, hook, modal, badge, clicks>>

HookStep == ReadRound \/ ReadClaim \/ PollClaim \/ ReadClaimOnce

Next ==
    \/ \E r \in Rounds :
           \/ Settle(r) \/ RequestLands(r) \/ RequestExpires(r) \/ Execute(r) \/ CrankPays(r)
           \/ OpenModal(r) \/ OpenPage(r)
           \/ ModalClaims(r) \/ BadgeClaims(r)
    \/ HookStep \/ CallFails
    \/ CloseModal \/ LeavePage \/ DetectDegen \/ PageClaims \/ PageReads

Spec == Init /\ [][Next]_vars

-----------------------------------------------------------------------------
(* Properties. *)

Shown == {"payout", "pending", "error"} \cup Terminal

\* A swap or a fallback that a badge, the page or the modal shows for its own round is
\* what the chain recorded, and stays so (useJackpot.ts:1365-1394, RoundDetail.tsx:349).
ResultIsTrue ==
    /\ \A r \in Rounds : badge[r] \in Terminal => badge[r] = degen[r]
    /\ page.shows \in Terminal => page.shows = degen[page.r]
    /\ modal.shows \in Terminal => \E r \in Rounds : degen[r] = modal.shows
    /\ modal.of # 0 => degen[modal.of] = "swapped"

\* A prize leaves the list only when the chain has recorded a claim of it, whichever way
\* took it off (useJackpot.ts:1507, 1531, RoundDetail.tsx:376).
UnlistedIsRecorded ==
    \A r \in Rounds : round[r] # "live" /\ r \notin listed =>
        degen[r] # "none" \/ round[r] = "claimed"

\* A call of the hook ends, and with it the loading state that disables every claim
\* button (useJackpot.ts:1361, 1413).
HookCallEnds == (hook.by # "none") ~> (hook.by = "none")

=============================================================================

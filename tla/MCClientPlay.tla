---------------------------- MODULE MCClientPlay ----------------------------
(***************************************************************************)
(* The tab of a player from the opening of a round to the prize: the round *)
(* on display, the timers of the winner's tab, the prizes it lists, the    *)
(* degen claims it makes and the pages of past rounds.  `part` says which  *)
(* of them a behaviour is about; the others stay in an initial state.      *)
(***************************************************************************)
EXTENDS Naturals, Sequences

VARIABLE part

-----------------------------------------------------------------------------
(* The round on display.  Answers come before the tab has left their round, and a
   round is closed after that. *)

VARIABLES view_chain, view_boot, view_roundId, view_data, view_phase, view_parts,
          view_advance, view_modal, view_polls, view_building

viewVars == <<view_chain, view_boot, view_roundId, view_data, view_phase, view_parts,
              view_advance, view_modal, view_polls, view_building>>

\* Two rounds, one poll at a time.
View == INSTANCE RoundView
    WITH chain <- view_chain, boot <- view_boot, roundId <- view_roundId, data <- view_data,
         phase <- view_phase, parts <- view_parts, advance <- view_advance,
         modal <- view_modal, polls <- view_polls, building <- view_building, POLLS <- 1,
         N <- 2, WINDOW <- 2, STREAK <- 2, LATE <- FALSE, UNSEEN <- FALSE

-----------------------------------------------------------------------------
(* The timers of the winner's tab, in ticks of half a second. *)

VARIABLES winner_rid, winner_phase, winner_t, winner_wheel, winner_spinComplete,
          winner_modal, winner_notice, winner_wins, winner_prizes, winner_saved,
          winner_refreshes

winnerVars == <<winner_rid, winner_phase, winner_t, winner_wheel, winner_spinComplete,
                winner_modal, winner_notice, winner_wins, winner_prizes, winner_saved,
                winner_refreshes>>

\* The tab opens on a settled round; the next is seen spinning, and its result once.
Calm == INSTANCE WinnerTimers
    WITH rid <- winner_rid, phase <- winner_phase, t <- winner_t, wheel <- winner_wheel,
         spinComplete <- winner_spinComplete, modal <- winner_modal,
         notice <- winner_notice, wins <- winner_wins, prizes <- winner_prizes,
         saved <- winner_saved, refreshes <- winner_refreshes, REVEAL <- 11, LANDING <- 12,
         ADVANCE <- 20, ROUNDS <- 2, REFRESH <- 0, MISS <- FALSE, STARTUP <- TRUE

\* The tab may miss a spin, and is told a result again.
Restless == INSTANCE WinnerTimers
    WITH rid <- winner_rid, phase <- winner_phase, t <- winner_t, wheel <- winner_wheel,
         spinComplete <- winner_spinComplete, modal <- winner_modal,
         notice <- winner_notice, wins <- winner_wins, prizes <- winner_prizes,
         saved <- winner_saved, refreshes <- winner_refreshes, REVEAL <- 11, LANDING <- 12,
         ADVANCE <- 20, ROUNDS <- 2, REFRESH <- 1, MISS <- TRUE, STARTUP <- FALSE

\* Undisturbed, a round that was seen settled is not left before its prize is saved.
PrizeSaved == [][(part = "calm" => Calm!LeavesSaved)]_winnerVars

-----------------------------------------------------------------------------
(* The prizes that are listed as unclaimed. *)

VARIABLES prizes_chain, prizes_degen, prizes_tx, prizes_wallet, prizes_store, prizes_prizes,
          prizes_pending, prizes_init, prizes_seen, prizes_load, prizes_reval, prizes_claim,
          prizes_timer, prizes_reloads, prizes_claims

prizesVars == <<prizes_chain, prizes_degen, prizes_tx, prizes_wallet, prizes_store,
                prizes_prizes, prizes_pending, prizes_init, prizes_seen, prizes_load,
                prizes_reval, prizes_claim, prizes_timer, prizes_reloads, prizes_claims>>

\* Two wallets, one prize, two claims of it; transactions and requests fail.
Kept == INSTANCE UnclaimedPrizes
    WITH chain <- prizes_chain, degen <- prizes_degen, tx <- prizes_tx,
         wallet <- prizes_wallet, store <- prizes_store, prizes <- prizes_prizes,
         pending <- prizes_pending, init <- prizes_init, seen <- prizes_seen,
         load <- prizes_load, reval <- prizes_reval, claim <- prizes_claim,
         timer <- prizes_timer, reloads <- prizes_reloads, claims <- prizes_claims,
         Rounds <- {1}, Wallets <- {"w1", "w2"}, Winner <- <<"w1">>, NoWallet <- "none",
         TXFAILS <- TRUE, ERRORS <- TRUE, RELOADS <- 1, CLAIMS <- 2

\* One wallet with one prize.
Listed == INSTANCE UnclaimedPrizes
    WITH chain <- prizes_chain, degen <- prizes_degen, tx <- prizes_tx,
         wallet <- prizes_wallet, store <- prizes_store, prizes <- prizes_prizes,
         pending <- prizes_pending, init <- prizes_init, seen <- prizes_seen,
         load <- prizes_load, reval <- prizes_reval, claim <- prizes_claim,
         timer <- prizes_timer, reloads <- prizes_reloads, claims <- prizes_claims,
         Rounds <- {1}, Wallets <- {"w1"}, Winner <- <<"w1">>, NoWallet <- "none",
         TXFAILS <- FALSE, ERRORS <- FALSE, RELOADS <- 1, CLAIMS <- 1

\* A prize leaves localStorage only when its round is not settled any more, when a claim
\* for it is under way, or when the degen payout was asked for.
KeptUntilClaimed == Kept!KeptUntilClaimed

-----------------------------------------------------------------------------
(* The ways to a degen claim. *)

VARIABLES degen_round, degen_degen, degen_requests, degen_listed, degen_hook, degen_modal,
          degen_badge, degen_page, degen_clicks

degenVars == <<degen_round, degen_degen, degen_requests, degen_listed, degen_hook,
               degen_modal, degen_badge, degen_page, degen_clicks>>

\* One prize and three claims of it; one poll before the modal gives up.
Claims == INSTANCE DegenClaimView
    WITH round <- degen_round, degen <- degen_degen, requests <- degen_requests,
         listed <- degen_listed, hook <- degen_hook, modal <- degen_modal,
         badge <- degen_badge, page <- degen_page, clicks <- degen_clicks, ROUNDS <- 1,
         MAX_POLLS <- 1, CLICKS <- 3

\* Two prizes: the tab shows another round than the one it claims.
TwoPrizes == INSTANCE DegenClaimView
    WITH round <- degen_round, degen <- degen_degen, requests <- degen_requests,
         listed <- degen_listed, hook <- degen_hook, modal <- degen_modal,
         badge <- degen_badge, page <- degen_page, clicks <- degen_clicks, ROUNDS <- 2,
         MAX_POLLS <- 1, CLICKS <- 1

\* What the views make of a claim is what the chain recorded: a swap or a fallback that a
\* badge, the page or the modal shows for its own round, and a prize that left the list,
\* whichever of the three ways took it off.
ViewsFollowTheChain ==
    /\ part = "degen" => Claims!ResultIsTrue /\ Claims!UnlistedIsRecorded
    /\ part = "degen two" => TwoPrizes!ResultIsTrue /\ TwoPrizes!UnlistedIsRecorded

-----------------------------------------------------------------------------
(* The pages of past rounds. *)

VARIABLES history_newest, history_maxRoundId, history_page, history_pollPage,
          history_rounds, history_load, history_clicks, history_faults

historyVars == <<history_newest, history_maxRoundId, history_page, history_pollPage,
                 history_rounds, history_load, history_clicks, history_faults>>

\* Pages of two; a load of the user overlaps one of the poll.
History == INSTANCE RoundHistory
    WITH newest <- history_newest, maxRoundId <- history_maxRoundId, page <- history_page,
         pollPage <- history_pollPage, rounds <- history_rounds, load <- history_load,
         clicks <- history_clicks, faults <- history_faults, PAGE_SIZE <- 2, MaxId <- 4,
         Loads <- {1, 2}, MaxClicks <- 1, MaxFaults <- 1

-----------------------------------------------------------------------------
\* The tab gets on: on a round that ends it gets to the next one, the pause of the modal
\* does not keep it, every win seen is notified although it moves on meanwhile, and a call
\* of claimDegen or claimUnclaimedDegen ends, and with it the loading state that disables
\* every claim button.
TabMovesOn ==
    /\ part = "view" => View!FollowsRounds
    /\ part = "restless" => Restless!RoundIsLeft /\ Restless!WinNotified
    /\ part = "degen" => Claims!HookCallEnds

\* The lists settle, whatever order answers arrive in: a prize claimed elsewhere does not
\* stay listed, after a (re)load the connected winner finds a prize that is neither claimed
\* nor being claimed, and the history comes back again and again to the rounds of the
\* selected page, the newest included.
ListsSettle ==
    /\ part = "listed" => Listed!ClaimedAreUnlisted /\ Listed!ReloadRestores
    /\ part = "history" => History!HistorySettles

-----------------------------------------------------------------------------
Parts == {"view", "calm", "restless", "kept", "listed", "degen", "degen two", "history"}

Init ==
    /\ part \in Parts
    /\ part # "view" => view_chain = <<"open", "none">>
    /\ View!Init
    /\ CASE part = "calm" -> Calm!Init
         [] part = "restless" -> Restless!Init
         [] OTHER -> Calm!Init
    /\ CASE part = "kept" -> Kept!Init
         [] part = "listed" -> Listed!Init
         [] OTHER -> Kept!Init
    /\ CASE part = "degen" -> Claims!Init
         [] part = "degen two" -> TwoPrizes!Init
         [] OTHER -> Claims!Init
    /\ part # "history" => history_newest = 1
    /\ History!Init

Next ==
    \/ /\ part = "view" /\ View!Next
       /\ UNCHANGED <<part, winnerVars, prizesVars, degenVars, historyVars>>
    \/ /\ \/ part = "calm" /\ Calm!Next
          \/ part = "restless" /\ Restless!Next
       /\ UNCHANGED <<part, viewVars, prizesVars, degenVars, historyVars>>
    \/ /\ \/ part = "kept" /\ Kept!Next
          \/ part = "listed" /\ Listed!Next
       /\ UNCHANGED <<part, viewVars, winnerVars, degenVars, historyVars>>
    \/ /\ \/ part = "degen" /\ Claims!Next
          \/ part = "degen two" /\ TwoPrizes!Next
       /\ UNCHANGED <<part, viewVars, winnerVars, prizesVars, historyVars>>
    \/ /\ part = "history" /\ History!Next
       /\ UNCHANGED <<part, viewVars, winnerVars, prizesVars, degenVars>>

vars == <<part, viewVars, winnerVars, prizesVars, degenVars, historyVars>>

\* Polls are repeated as long as the tab is visible and the RPC node answers some of them;
\* timers fire, time passes, and the user closes a modal some time.
ViewFairness ==
    /\ WF_viewVars(part = "view" /\ View!ScanStep)
    /\ WF_viewVars(part = "view" /\ View!ScanEnds)
    /\ WF_viewVars(part = "view" /\ View!StartPoll)
    /\ WF_viewVars(part = "view" /\ View!PartsBuilt)
    /\ WF_viewVars(part = "view" /\ View!AutoAdvance)
    /\ WF_viewVars(part = "view" /\ View!CloseModal)
    /\ SF_viewVars(part = "view" /\ View!ReadPoll)
    /\ SF_viewVars(part = "view" /\ View!PollAnswered)

WinnerFairness ==
    /\ WF_winnerVars(part = "restless" /\ Restless!Tick)
    /\ WF_winnerVars(part = "restless" /\ Restless!CloseModal)
    /\ WF_winnerVars(part = "restless" /\ Restless!RevealFires)
    /\ WF_winnerVars(part = "restless" /\ Restless!NotifyFires)
    /\ WF_winnerVars(part = "restless" /\ Restless!ModalFires)
    /\ WF_winnerVars(part = "restless" /\ Restless!LandingEnds)
    /\ WF_winnerVars(part = "restless" /\ Restless!AdvanceFires)

\* The scan and the loads end, the interval of the re-validation ticks, requests end.
PrizesFairness ==
    /\ WF_prizesVars(part = "listed" /\ Listed!ScanEnds)
    /\ WF_prizesVars(part = "listed" /\ Listed!LoadStep)
    /\ WF_prizesVars(part = "listed" /\ Listed!LoadEnds)
    /\ WF_prizesVars(part = "listed" /\ Listed!RevalStart)
    /\ WF_prizesVars(part = "listed" /\ Listed!RevalEnd)
    /\ WF_prizesVars(part = "listed" /\ Listed!ClaimAnswered)

\* Requests are answered; the poll of the history ticks.
OtherFairness ==
    /\ WF_degenVars(part = "degen" /\ Claims!HookStep)
    /\ WF_historyVars(part = "history" /\ History!SyncPollPage)
    /\ \A l \in {1, 2} :
           /\ WF_historyVars(part = "history" /\ History!Answer(l))
           /\ WF_historyVars(part = "history" /\ History!PollTick(l))

Spec ==
    Init /\ [][Next]_vars
    /\ ViewFairness /\ WinnerFairness /\ PrizesFairness /\ OtherFairness

=============================================================================

-------------------------- MODULE MCClientDeposit ---------------------------
(***************************************************************************)
(* Deposits in the web client and what counts them: the form, the batch    *)
(* that is sent, the tokens shown beside the players, the wallet's own     *)
(* tokens, the missions and the SOAR leaderboard.  `part` says which of    *)
(* them a behaviour is about; the others stay in an initial state.         *)
(***************************************************************************)
EXTENDS Naturals, Sequences

CONSTANT None    \* no quote, no wallet

VARIABLE part

-----------------------------------------------------------------------------
(* The deposit form and its quotes. *)

VARIABLES form_form, form_due, form_loading, form_preview, form_fetches, form_batch,
          form_busy, form_sent, form_failed

formVars == <<form_form, form_due, form_loading, form_preview, form_fetches, form_batch,
              form_busy, form_sent, form_failed>>

\* Two tokens of which a leg each, and one leg twice, may be added.
Sends == INSTANCE DepositForm
    WITH form <- form_form, due <- form_due, loading <- form_loading,
         preview <- form_preview, fetches <- form_fetches, batch <- form_batch,
         busy <- form_busy, sent <- form_sent, failed <- form_failed, USDC <- "usdc",
         None <- None, Tokens <- {"a", "b"}, Amounts <- {1}, Slippages <- {"s"},
         BALANCE <- 1, PRICE <- 1, MIN <- 1, MAXLEGS <- 1, MERGES <- 2, FETCHES <- 1,
         FAILS <- 0

\* Amounts below and at the minimum; a quote may fail.
Least == INSTANCE DepositForm
    WITH form <- form_form, due <- form_due, loading <- form_loading,
         preview <- form_preview, fetches <- form_fetches, batch <- form_batch,
         busy <- form_busy, sent <- form_sent, failed <- form_failed, USDC <- "usdc",
         None <- None, Tokens <- {"a"}, Amounts <- {1, 2}, Slippages <- {"s"}, BALANCE <- 2,
         PRICE <- 1, MIN <- 2, MAXLEGS <- 2, MERGES <- 1, FETCHES <- 1, FAILS <- 1

\* Two quotes under way at once.
Quotes == INSTANCE DepositForm
    WITH form <- form_form, due <- form_due, loading <- form_loading,
         preview <- form_preview, fetches <- form_fetches, batch <- form_batch,
         busy <- form_busy, sent <- form_sent, failed <- form_failed, USDC <- "usdc",
         None <- None, Tokens <- {"a"}, Amounts <- {1, 2}, Slippages <- {"s"}, BALANCE <- 2,
         PRICE <- 1, MIN <- 1, MAXLEGS <- 0, MERGES <- 1, FETCHES <- 2, FAILS <- 0

-----------------------------------------------------------------------------
(* A batch of deposits, from the click to the last transaction. *)

VARIABLES many_chain, many_pc, many_legs, many_roundId, many_plan, many_work, many_net,
          many_outside

manyVars == <<many_chain, many_pc, many_legs, many_roundId, many_plan, many_work, many_net,
              many_outside>>

\* The chain while the batch is not the part at work.
IdleChain ==
    [ata |-> 1, source |-> [s \in {"s1"} |-> 1], deposited |-> 0, meant |-> 0,
     round |-> <<"locked", "open", "none">>]

\* Two legs and three rounds; USDC leave the account meanwhile.
Many == INSTANCE DepositMany
    WITH chain <- many_chain, pc <- many_pc, legs <- many_legs, roundId <- many_roundId,
         plan <- many_plan, work <- many_work, net <- many_net, outside <- many_outside,
         Tokens <- {"a", "h", "o"}, Heavy <- {"h"}, Oversized <- {"o"}, ROOM <- 2,
         Legs <- {[mint |-> "usdc", amount |-> 2], [mint |-> "a", amount |-> 2],
                  [mint |-> "h", amount |-> 2]},
         SCALE <- 2, Sources <- {"s1"}, Holdings <- {1}, MAX_MULTI_DEPOSIT_LEGS <- 2,
         MAX_RETRIES <- 1, ROUNDS <- 3, SPENT <- 1, RECEIVED <- 0, READ_FAILS <- 0

\* Three legs, which are divided twice; USDC arrive meanwhile.
Thrice == INSTANCE DepositMany
    WITH chain <- many_chain, pc <- many_pc, legs <- many_legs, roundId <- many_roundId,
         plan <- many_plan, work <- many_work, net <- many_net, outside <- many_outside,
         Tokens <- {"a", "h", "o"}, Heavy <- {"h"}, Oversized <- {"o"}, ROOM <- 2,
         Legs <- {[mint |-> "usdc", amount |-> 2], [mint |-> "a", amount |-> 2],
                  [mint |-> "h", amount |-> 2]},
         SCALE <- 2, Sources <- {"s1"}, Holdings <- {1}, MAX_MULTI_DEPOSIT_LEGS <- 3,
         MAX_RETRIES <- 1, ROUNDS <- 2, SPENT <- 0, RECEIVED <- 1, READ_FAILS <- 0

-----------------------------------------------------------------------------
(* The tokens shown beside the players. *)

VARIABLES seen_roundId, seen_onChain, seen_ref, seen_cache, seen_polls, seen_resolves,
          seen_own, seen_failed

seenVars == <<seen_roundId, seen_onChain, seen_ref, seen_cache, seen_polls, seen_resolves,
              seen_own, seen_failed>>

\* Two rounds with different tokens, and two polls at once.
Seen == INSTANCE DepositTokens
    WITH roundId <- seen_roundId, onChain <- seen_onChain, ref <- seen_ref,
         cache <- seen_cache, polls <- seen_polls, resolves <- seen_resolves,
         own <- seen_own, failed <- seen_failed, Users <- {"me", "you"}, Me <- "me",
         Tokens <- {"a", "b"}, LIMIT <- 3, ROUNDS <- 2,
         Deposits <- {[round |-> 1, user |-> "you", mint |-> "a"],
                     [round |-> 1, user |-> "me", mint |-> "usdc"],
                     [round |-> 2, user |-> "you", mint |-> "b"]},
         POLLS <- 2, FAILS <- 1

\* One round; a request of the resolver may fail.
Release == INSTANCE DepositTokens
    WITH roundId <- seen_roundId, onChain <- seen_onChain, ref <- seen_ref,
         cache <- seen_cache, polls <- seen_polls, resolves <- seen_resolves,
         own <- seen_own, failed <- seen_failed, Users <- {"me", "you"}, Me <- "me",
         Tokens <- {"a", "b"}, LIMIT <- 3, ROUNDS <- 1,
         Deposits <- {[round |-> 1, user |-> "me", mint |-> "a"],
                     [round |-> 1, user |-> "you", mint |-> "usdc"],
                     [round |-> 1, user |-> "you", mint |-> "b"]},
         POLLS <- 1, FAILS <- 1

-----------------------------------------------------------------------------
(* The wallet's own tokens. *)

VARIABLES own_wallet, own_hold, own_tokens, own_shown, own_loading, own_fetches,
          own_started, own_jup, own_moves, own_faults

ownVars == <<own_wallet, own_hold, own_tokens, own_shown, own_loading, own_fetches,
             own_started, own_jup, own_moves, own_faults>>

\* Two reads of the wallet and a deposit between them.
Own == INSTANCE WalletTokens
    WITH wallet <- own_wallet, hold <- own_hold, tokens <- own_tokens, shown <- own_shown,
         loading <- own_loading, fetches <- own_fetches, started <- own_started,
         jup <- own_jup, moves <- own_moves, faults <- own_faults, Wallets <- {"a"},
         None <- None, Amounts <- {3}, GRAIN <- 2, FETCHES <- 2, MOVES <- 1, FAULTS <- 0

\* Two reads that wait for one list of names; a call fails.
Names == INSTANCE WalletTokens
    WITH wallet <- own_wallet, hold <- own_hold, tokens <- own_tokens, shown <- own_shown,
         loading <- own_loading, fetches <- own_fetches, started <- own_started,
         jup <- own_jup, moves <- own_moves, faults <- own_faults, Wallets <- {"a"},
         None <- None, Amounts <- {3}, GRAIN <- 2, FETCHES <- 2, MOVES <- 0, FAULTS <- 1

-----------------------------------------------------------------------------
(* The missions. *)

VARIABLES task_day, task_data, task_stored, task_loads, task_done, task_days, task_claims

taskVars == <<task_day, task_data, task_stored, task_loads, task_done, task_days,
              task_claims>>

\* Three days, two deposits, rounds and wins, one reload.
Tasks == INSTANCE Missions
    WITH day <- task_day, data <- task_data, stored <- task_stored, loads <- task_loads,
         done <- task_done, days <- task_days, claims <- task_claims, DAYS <- 1,
         ROUNDS <- 2, RELOADS <- 1, LEVEL <- 2, AMOUNT <- 3,
         REQUIRED <- [daily |-> 1, weekly |-> 2, streak |-> 3, win |-> 1, volume |-> 2],
         REWARD <- [daily |-> 3, weekly |-> 5, streak |-> 1, win |-> 1, volume |-> 1]

-----------------------------------------------------------------------------
(* The scores on the SOAR leaderboard. *)

VARIABLES soar_wallet, soar_changes, soar_open, soar_visit, soar_status, soar_check,
          soar_syncing, soar_reg, soar_account, soar_entry, soar_score, soar_volume,
          soar_archived, soar_stats, soar_reqs, soar_board, soar_polls, soar_faults

soarVars == <<soar_wallet, soar_changes, soar_open, soar_visit, soar_status, soar_check,
              soar_syncing, soar_reg, soar_account, soar_entry, soar_score, soar_volume,
              soar_archived, soar_stats, soar_reqs, soar_board, soar_polls, soar_faults>>

\* Two wallets in one browser.
Submits == INSTANCE SoarScores
    WITH wallet <- soar_wallet, changes <- soar_changes, open <- soar_open,
         visit <- soar_visit, status <- soar_status, check <- soar_check,
         syncing <- soar_syncing, reg <- soar_reg, account <- soar_account,
         entry <- soar_entry, score <- soar_score, volume <- soar_volume,
         archived <- soar_archived, stats <- soar_stats, reqs <- soar_reqs,
         board <- soar_board, polls <- soar_polls, faults <- soar_faults,
         Wallets <- {"a", "b"}, Values <- {1}, DEPOSITS <- 1, CHANGES <- 1, VISITS <- 0,
         REQUESTS <- 1, POLLS <- 0, FAULTS <- 0

\* A registration on each of two visits.
Counts == INSTANCE SoarScores
    WITH wallet <- soar_wallet, changes <- soar_changes, open <- soar_open,
         visit <- soar_visit, status <- soar_status, check <- soar_check,
         syncing <- soar_syncing, reg <- soar_reg, account <- soar_account,
         entry <- soar_entry, score <- soar_score, volume <- soar_volume,
         archived <- soar_archived, stats <- soar_stats, reqs <- soar_reqs,
         board <- soar_board, polls <- soar_polls, faults <- soar_faults, Wallets <- {"a"},
         Values <- {1}, DEPOSITS <- 1, CHANGES <- 0, VISITS <- 1, REQUESTS <- 1, POLLS <- 0,
         FAULTS <- 0

\* Two reads of the leaderboard at once; a call fails.
Board == INSTANCE SoarScores
    WITH wallet <- soar_wallet, changes <- soar_changes, open <- soar_open,
         visit <- soar_visit, status <- soar_status, check <- soar_check,
         syncing <- soar_syncing, reg <- soar_reg, account <- soar_account,
         entry <- soar_entry, score <- soar_score, volume <- soar_volume,
         archived <- soar_archived, stats <- soar_stats, reqs <- soar_reqs,
         board <- soar_board, polls <- soar_polls, faults <- soar_faults, Wallets <- {"a"},
         Values <- {1}, DEPOSITS <- 1, CHANGES <- 0, VISITS <- 0, REQUESTS <- 1, POLLS <- 2,
         FAULTS <- 1

-----------------------------------------------------------------------------
\* What is deposited is what the user chose.  The form: the token chosen, whatever quote came
\* last, worth the minimum as far as the form knows, and no amount of USDC taken for one of
\* tokens.  The batch: no more than its legs bring in, each leg in at most one transaction
\* however it is divided, every leg when it is reported complete, and only to a round that
\* this call has seen open.
DepositIsMeant ==
    /\ part = "sends" => Sends!BatchIsAccepted /\ Sends!TakesChosenToken
    /\ part = "least" => Least!SentAboveMinimum /\ Least!UsdcIsNotTakenForTokens
    /\ part = "many" => Many!NeverMoreThanMeant
    /\ part \in {"many", "thrice"} =>
           Many!EachLegOnce /\ Many!CompleteIsWhole /\ Many!OnlyRoundsSeenOpen

\* The tokens that the client shows are there: beside a player only tokens that this player
\* has deposited, resolved by one call at a time, and of the wallet what it holds, if the
\* read was not disturbed.
ShownTokensAreReal ==
    /\ part = "seen" => Seen!EveryTokenWasDeposited /\ Seen!OneResolverAtATime
    /\ part = "own" => Own!UndisturbedIsExact
    /\ part = "names" => Names!UndisturbedIsExact

\* Missions and leaderboard count what was done: a mission was claimed as often as the
\* deposits, rounds or wins suffice for, a reload of the same day shows what the tab showed
\* before it, levels neither lose nor make JUP, and no score exceeds what was deposited.
CountsAreEarned ==
    /\ Tasks!RewardsAreEarned /\ Tasks!JupIsConserved /\ Tasks!ReloadKeeps
    /\ part = "submits" => Submits!ScoreIsDeposited

\* What blocks a button or keeps a second call out is released, whatever fails or overtakes
\* another: a form left alone gets its preview and quoteLoading ends, depositMany returns,
\* the mark of a resolver is taken back, the wallet's list stops loading, and who registers
\* is registered and, in the end, on the leaderboard that is shown.
NothingStaysBusy ==
    /\ part = "quotes" => Quotes!QuoteComes /\ Quotes!LoadingEnds
    /\ part = "many" => Many!CallEnds
    /\ part = "release" => Release!ResolverLetsGo
    /\ part = "names" => Names!LoadingEnds
    /\ part = "counts" => Counts!RegisterEnds /\ Counts!RegisteredVolumeCounts
    /\ part = "board" => Board!BoardCatchesUp

-----------------------------------------------------------------------------
Parts == {"sends", "least", "quotes", "many", "thrice", "seen", "release", "own", "names",
          "missions", "submits", "counts", "board"}

Init ==
    /\ part \in Parts
    /\ CASE part = "sends" -> Sends!Init
         [] part = "least" -> Least!Init
         [] part = "quotes" -> Quotes!Init
         [] OTHER -> Sends!Init
    /\ CASE part = "many" -> Many!Init
         [] part = "thrice" -> Thrice!Init
         [] OTHER -> /\ many_chain = IdleChain
                     /\ Many!Init
    /\ CASE part = "seen" -> Seen!Init
         [] part = "release" -> Release!Init
         [] OTHER -> Seen!Init
    /\ CASE part = "own" -> Own!Init
         [] part = "names" -> Names!Init
         [] OTHER -> /\ own_hold = [w \in {"a"} |-> Own!Nothing]
                     /\ Own!Init
    /\ Tasks!Init
    /\ CASE part = "submits" -> Submits!Init
         [] part = "counts" -> Counts!Init
         [] part = "board" -> Board!Init
         [] OTHER -> /\ soar_wallet = "a"
                     /\ soar_account = {}
                     /\ Submits!Init

Next ==
    \/ /\ \/ part = "sends" /\ Sends!Next
          \/ part = "least" /\ Least!Next
          \/ part = "quotes" /\ Quotes!Next
       /\ UNCHANGED <<part, manyVars, seenVars, ownVars, taskVars, soarVars>>
    \/ /\ \/ part = "many" /\ Many!Next
          \/ part = "thrice" /\ Thrice!Next
       /\ UNCHANGED <<part, formVars, seenVars, ownVars, taskVars, soarVars>>
    \/ /\ \/ part = "seen" /\ Seen!Next
          \/ part = "release" /\ Release!Next
       /\ UNCHANGED <<part, formVars, manyVars, ownVars, taskVars, soarVars>>
    \/ /\ \/ part = "own" /\ Own!Next
          \/ part = "names" /\ Names!Next
       /\ UNCHANGED <<part, formVars, manyVars, seenVars, taskVars, soarVars>>
    \/ /\ part = "missions" /\ Tasks!Next
       /\ UNCHANGED <<part, formVars, manyVars, seenVars, ownVars, soarVars>>
    \/ /\ \/ part = "submits" /\ Submits!Next
          \/ part = "counts" /\ Counts!Next
          \/ part = "board" /\ Board!Next
       /\ UNCHANGED <<part, formVars, manyVars, seenVars, ownVars, taskVars>>

vars == <<part, formVars, manyVars, seenVars, ownVars, taskVars, soarVars>>

\* The timer fires, and getJupiterQuote answers or runs into its timeout; the call of
\* depositMany and the resolver go on, and the cooldown passes.
DepositFairness ==
    /\ WF_formVars(part = "quotes" /\ Quotes!FetchQuote)
    /\ WF_formVars(part = "quotes" /\ Quotes!QuoteAnswered)
    /\ WF_manyVars(part = "many" /\ Many!Call)
    /\ \A o \in 1 .. 4 :
           /\ WF_seenVars(part = "release" /\ Release!ResolveStep(o))
           /\ WF_seenVars(part = "release" /\ Release!CooledDown(o))

\* Calls answer and reads go on.
WalletFairness ==
    /\ WF_ownVars(part = "names" /\ Names!JupiterAnswers)
    /\ \A n \in 0 .. 1 : WF_ownVars(part = "names" /\ Names!ReadGoesOn(n))

\* Calls come back, the endpoint goes on with each request, and the interval runs.
SoarFairness ==
    /\ \A v \in 0 .. 1 : WF_soarVars(part = "counts" /\ Counts!RegisterGoesOn(v))
    /\ \A n \in 0 .. 2, at \in Counts!Stages, sync \in BOOLEAN :
           WF_soarVars(part = "counts" /\ Counts!SubmitGoesOn(n, at, sync))
    /\ WF_soarVars(part = "board" /\ Board!Refresh)
    /\ WF_soarVars(part = "board" /\ Board!BoardAnswers)

Spec == Init /\ [][Next]_vars /\ DepositFairness /\ WalletFairness /\ SoarFairness

=============================================================================

---------------------------- MODULE MCCrankJobs -----------------------------
(***************************************************************************)
(* What the crank's processes do beside the main loop: the publication of  *)
(* a settled round on the social network, the archive of a round before    *)
(* its accounts are closed, and the executor that pays degen claims.  They *)
(* share no state.  `part` says which of them a behaviour is about; the    *)
(* others stay in an initial state.                                        *)
(***************************************************************************)
EXTENDS Naturals, Sequences

VARIABLE part

-----------------------------------------------------------------------------
(* Publication.  In "publish" every call ends; in "silent" Tapestry may never
   answer. *)

VARIABLES publish_winner, publish_advanced, publish_started, publish_job, publish_profiles,
          publish_contents, publish_resolved, publish_faults, publish_restarts

publishVars == <<publish_winner, publish_advanced, publish_started, publish_job,
                 publish_profiles, publish_contents, publish_resolved, publish_faults,
                 publish_restarts>>

\* Three participants; two calls fail, the process ends once.
Publish == INSTANCE SocialPublish
    WITH winner <- publish_winner, advanced <- publish_advanced, started <- publish_started,
         job <- publish_job, profiles <- publish_profiles, contents <- publish_contents,
         resolved <- publish_resolved, faults <- publish_faults,
         restarts <- publish_restarts, N <- 3, FAULTS <- 2, RESTARTS <- 1

Publishing == part \in {"publish", "silent"}

\* publishRoundSettled: whatever fails and however often it is started again, what is
\* published is true, and under profiles that exist; and a single failure never costs the
\* event of a participant whose profile was resolved.
EventsAreTrue == Publishing => Publish!PublishedIsTrue /\ Publish!ResolvedIsPublished

-----------------------------------------------------------------------------
(* The archive.  In "archive" reads and writes fail too; in "restart" only the
   process ends. *)

VARIABLES archive_status, archive_records, archive_doc, archive_crank, archive_tab,
          archive_pending, archive_reader, archive_faults

archiveVars == <<archive_status, archive_records, archive_doc, archive_crank, archive_tab,
                 archive_pending, archive_reader, archive_faults>>

\* Unequal stakes, so that an equal share is not what anybody staked; two tabs of the
\* winner.
Archive == INSTANCE RoundArchive
    WITH status <- archive_status, records <- archive_records, doc <- archive_doc,
         crank <- archive_crank, tab <- archive_tab, pending <- archive_pending,
         reader <- archive_reader, faults <- archive_faults, Stake <- <<3, 1>>,
         Tabs <- {"t1", "t2"}, MaxFaults <- 2

\* With the crank restarted at any step, the round is at every moment on chain or in the
\* archive, also between the closing of the accounts and a reader's second question.
HistoryHasNoGap == part = "restart" => Archive!HistoryHasNoGap

-----------------------------------------------------------------------------
(* The executor of degen claims. *)

VARIABLES executor_claim, executor_fee, executor_ata, executor_due, executor_txs,
          executor_paid, executor_drained, executor_market, executor_ex, executor_cache,
          executor_fallback, executor_faults, executor_dust, executor_crashes

executorVars == <<executor_claim, executor_fee, executor_ata, executor_due, executor_txs,
                  executor_paid, executor_drained, executor_market, executor_ex,
                  executor_cache, executor_fallback, executor_faults, executor_dust,
                  executor_crashes>>

\* Late and lost transactions, a fee that changes, USDC that others send, a restart.
Disturbed == INSTANCE DegenExecutor
    WITH claim <- executor_claim, fee <- executor_fee, ata <- executor_ata,
         due <- executor_due, txs <- executor_txs, paid <- executor_paid,
         drained <- executor_drained, market <- executor_market, ex <- executor_ex,
         cache <- executor_cache, fallback <- executor_fallback, faults <- executor_faults,
         dust <- executor_dust, crashes <- executor_crashes, RANKS <- 1, Fits <- {1, 3},
         Accepts <- {1, 2}, OWED <- TRUE, FAULTS <- 2, DUST <- 1, CRASHES <- 1, FEES <- 1,
         TOTAL <- 9, REIMBURSE <- 2, SLIPS <- 2, ACCS <- 2, Directs <- {TRUE}

\* Every market and a restart, and nothing else that disturbs.
Calm == INSTANCE DegenExecutor
    WITH claim <- executor_claim, fee <- executor_fee, ata <- executor_ata,
         due <- executor_due, txs <- executor_txs, paid <- executor_paid,
         drained <- executor_drained, market <- executor_market, ex <- executor_ex,
         cache <- executor_cache, fallback <- executor_fallback, faults <- executor_faults,
         dust <- executor_dust, crashes <- executor_crashes, RANKS <- 2,
         Fits <- {1, 2, 3, 4}, Accepts <- {1, 2, 3}, OWED <- FALSE, FAULTS <- 0, DUST <- 0,
         CRASHES <- 1, FEES <- 0, TOTAL <- 9, REIMBURSE <- 2, SLIPS <- 2, ACCS <- 2,
         Directs <- {TRUE}

\* The VRF payer has been paid; one fault and one restart.
Paying == INSTANCE DegenExecutor
    WITH claim <- executor_claim, fee <- executor_fee, ata <- executor_ata,
         due <- executor_due, txs <- executor_txs, paid <- executor_paid,
         drained <- executor_drained, market <- executor_market, ex <- executor_ex,
         cache <- executor_cache, fallback <- executor_fallback, faults <- executor_faults,
         dust <- executor_dust, crashes <- executor_crashes, RANKS <- 2, Fits <- {1, 4},
         Accepts <- {1, 3}, OWED <- FALSE, FAULTS <- 1, DUST <- 0, CRASHES <- 1, FEES <- 0,
         TOTAL <- 9, REIMBURSE <- 2, SLIPS <- 2, ACCS <- 2, Directs <- {TRUE}

\* The winner gets all of the payout that begin moves, and the treasury gets from the
\* executor's account nothing but what others sent there; and, undisturbed but for a
\* restart, the winner gets USDC only if no candidate could have been paid.
PrizeWhole ==
    /\ part = "disturbed" => Disturbed!PrizeWhole
    /\ part = "calm" => Calm!FallbackIsLast

-----------------------------------------------------------------------------
\* No job gets stuck or holds up another: a ready claim of which the VRF payer is owed
\* nothing is paid some time, whatever the markets give, through a fault and a restart; a
\* started publication ends, unless the process does; and the main loop starts the next
\* round even if Tapestry never answers.
JobsEnd ==
    /\ part = "paying" => Paying!EventuallyPaid
    /\ part = "publish" => Publish!PublicationEnds
    /\ part = "silent" => Publish!TapestryNeverBlocks

-----------------------------------------------------------------------------
Parts == {"publish", "silent", "archive", "restart", "disturbed", "calm", "paying"}

Init ==
    /\ part \in Parts
    /\ part \notin {"publish", "silent"} => publish_winner = 1 /\ publish_profiles = {}
    /\ Publish!Init
    /\ Archive!Init
    /\ CASE part = "disturbed" -> Disturbed!Init
         [] part = "calm" -> Calm!Init
         [] part = "paying" -> Paying!Init
         [] OTHER -> /\ executor_market = [r \in {1} |-> Disturbed!Usdc]
                     /\ Disturbed!Init

Next ==
    \/ /\ \/ part = "publish" /\ Publish!Next
          \/ part = "silent" /\ Publish!Next
       /\ UNCHANGED <<part, archiveVars, executorVars>>
    \/ /\ \/ part = "archive" /\ Archive!Next
          \/ part = "restart" /\ Archive!RestartNext
       /\ UNCHANGED <<part, publishVars, executorVars>>
    \/ /\ \/ part = "disturbed" /\ Disturbed!Next
          \/ part = "calm" /\ Calm!Next
          \/ part = "paying" /\ Paying!Next
       /\ UNCHANGED <<part, publishVars, archiveVars>>

vars == <<part, publishVars, archiveVars, executorVars>>

\* The main loop ticks on; in "publish" every call ends, by its answer or by its timeout.
\* The executor runs, what it sends is settled one way or the other, and the timeout of the
\* claim passes.
Fairness ==
    /\ WF_publishVars(Publishing /\ Publish!Settled)
    /\ WF_publishVars(Publishing /\ Publish!StartNext)
    /\ WF_publishVars(part = "publish" /\ Publish!Publication)
    /\ WF_executorVars(part = "paying" /\ Paying!Poll)
    /\ WF_executorVars(part = "paying" /\ Paying!StartCandidate)
    /\ WF_executorVars(part = "paying" /\ Paying!Attempt)
    /\ WF_executorVars(part = "paying" /\ (Paying!Confirmed \/ Paying!ConfirmThrows))
    /\ WF_executorVars(part = "paying" /\ Paying!Fallback)
    /\ WF_executorVars(part = "paying" /\ Paying!Settles)
    /\ WF_executorVars(part = "paying" /\ Paying!Times)

Spec == Init /\ [][Next]_vars /\ Fairness

=============================================================================

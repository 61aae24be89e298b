----------------------------- MODULE MCServices -----------------------------
(***************************************************************************)
(* The services and scripts around the program: the scan behind the Solana *)
(* Actions, the builders of transactions, the caches of the Tapestry       *)
(* proxy, the scripts of the operators and the smoke tests.  `part` says   *)
(* which of them a behaviour is about; the others stay in their initial    *)
(* state.                                                                  *)
(***************************************************************************)
EXTENDS Naturals, Sequences

CONSTANTS
    NoKey,                      \* the zero public key
    e1, t1, a1, m1, r1, k1      \* the keys the smoke tests use

VARIABLE part

-----------------------------------------------------------------------------
(* The scan for rounds behind the Solana Actions. *)

VARIABLES act_chain, act_opened, act_left, act_now, act_cache, act_req

actVars == <<act_chain, act_opened, act_left, act_now, act_cache, act_req>>

\* Two requests share the cache while rounds come and go.
Fresh == INSTANCE ActionsScan
    WITH chain <- act_chain, opened <- act_opened, left <- act_left, now <- act_now,
         cache <- act_cache, req <- act_req, Requests <- {1, 2}, N <- 1,
         Outcomes <- {"lost"}, Endpoints <- {"join-batch"}, Queries <- {0}, BATCH <- 2,
         MAX_SCAN <- 2, STREAK <- 2, LOOKBACK <- 3, TTL <- 2, DURATION <- 1, MAXT <- 4

\* One request to each endpoint, with rounds of every outcome below.
Finds == INSTANCE ActionsScan
    WITH chain <- act_chain, opened <- act_opened, left <- act_left, now <- act_now,
         cache <- act_cache, req <- act_req, Requests <- {1}, N <- 2,
         Outcomes <- {"won", "degen", "owed", "gone"},
         Endpoints <- {"join", "open-batch", "claim", "claim-refund",
             "round", "claim-degen", "open-degen"},
         Queries <- {0, 2}, BATCH <- 2, MAX_SCAN <- 3, STREAK <- 3, LOOKBACK <- 3, TTL <- 2,
         DURATION <- 2, MAXT <- 4

-----------------------------------------------------------------------------
(* The builders of transactions, against the accounts the program wants. *)

VARIABLES tx_round, tx_treasury, tx_atas, tx_usdc, tx_flight

txVars == <<tx_round, tx_treasury, tx_atas, tx_usdc, tx_flight>>

\* The builders that look up what they need.
Web == INSTANCE TxBuilders
    WITH round <- tx_round, treasury <- tx_treasury, atas <- tx_atas, usdc <- tx_usdc,
         flight <- tx_flight, W <- "W", O <- "O", Crank <- "C", Treasuries <- {"T0", "T1"},
         T0 <- "T0", FLIGHT <- 1, MAXBAL <- 1,
         Checked <- {"webStartRound", "webLockRound", "webRequestVrf", "webRequestDegenVrf",
             "webCancelRound", "webClaimRefund", "webDepositAny", "webClaim",
             "webClaimDetail", "webFinalizeDegenSuccess", "apiClaimRefund"}

\* The builders that rely on the environment and on the VRF payer's account.
Env == INSTANCE TxBuilders
    WITH round <- tx_round, treasury <- tx_treasury, atas <- tx_atas, usdc <- tx_usdc,
         flight <- tx_flight, W <- "W", O <- "O", Crank <- "C", Treasuries <- {"T0", "T1"},
         T0 <- "T0", FLIGHT <- 1, MAXBAL <- 1,
         Checked <- {"crankStartRound", "crankLockRound", "crankRequestVrf", "crankAutoClaim",
             "crankBeginDegenExecution", "crankFinalizeDegenSuccess",
             "crankCloseParticipant", "crankCloseRound", "apiClaim", "webAutoClaim"}

-----------------------------------------------------------------------------
(* The profile cache of the Tapestry proxy. *)

VARIABLES prof_profileCache, prof_identityCache, prof_req

profVars == <<prof_profileCache, prof_identityCache, prof_req>>

\* One request at a time, with time passing.
Lives == INSTANCE TapestryProfiles
    WITH profileCache <- prof_profileCache, identityCache <- prof_identityCache,
         req <- prof_req, Wallets <- {"a", "b"}, Requests <- {1}, TTL <- 1, IDTTL <- 2,
         TIMEOUT <- 1, MAXENTRIES <- 1

\* Two requests at once for two wallets and one entry.
Races == INSTANCE TapestryProfiles
    WITH profileCache <- prof_profileCache, identityCache <- prof_identityCache,
         req <- prof_req, Wallets <- {"a", "b"}, Requests <- {1, 2}, TTL <- 0, IDTTL <- 0,
         TIMEOUT <- 0, MAXENTRIES <- 1

\* Entries that expire at once, so that every request asks.
Ends == INSTANCE TapestryProfiles
    WITH profileCache <- prof_profileCache, identityCache <- prof_identityCache,
         req <- prof_req, Wallets <- {"a", "b"}, Requests <- {1}, TTL <- 0, IDTTL <- 0,
         TIMEOUT <- 1, MAXENTRIES <- 1

-----------------------------------------------------------------------------
(* The feed cache of the Tapestry proxy and the publications. *)

VARIABLES feed_acts, feed_cache, feed_req, feed_calls, feed_acked

feedVars == <<feed_acts, feed_cache, feed_req, feed_calls, feed_acked>>

\* Two requests at once, with time passing.
Recent == INSTANCE TapestryFeeds
    WITH acts <- feed_acts, cache <- feed_cache, req <- feed_req, calls <- feed_calls,
         acked <- feed_acked, Requests <- {1, 2}, Limits <- {2}, Pages <- {1},
         Rounds <- {1}, TTL <- 1, TIMEOUT <- 1, PAGESIZE <- 2, MAXENTRIES <- 1, CALLS <- 1

\* One request at a time, two pages and two calls.
Served == INSTANCE TapestryFeeds
    WITH acts <- feed_acts, cache <- feed_cache, req <- feed_req, calls <- feed_calls,
         acked <- feed_acked, Requests <- {1}, Limits <- {2}, Pages <- {1, 2},
         Rounds <- {0, 1}, TTL <- 1, TIMEOUT <- 0, PAGESIZE <- 2, MAXENTRIES <- 1,
         CALLS <- 2

-----------------------------------------------------------------------------
(* The scripts of the multisigs. *)

VARIABLES sq_ms, sq_round, sq_paused, sq_now, sq_net, sq_run, sq_starts, sq_broken

sqVars == <<sq_ms, sq_round, sq_paused, sq_now, sq_net, sq_run, sq_starts, sq_broken>>

\* Two operators who each propose, approve and execute.
Votes == INSTANCE SquadsOps
    WITH ms <- sq_ms, round <- sq_round, paused <- sq_paused, now <- sq_now, net <- sq_net,
         run <- sq_run, starts <- sq_starts, broken <- sq_broken, Runs <- {1, 2},
         Scripts <- {"force_cancel_round", "upsert_degen_config", "execute_only"},
         MAXTX <- 2, LOCK <- 0, MAX_WAIT <- 2, ATTEMPTS <- 2, MAXRUNS <- 1, MAXT <- 0,
         SKIP_PREFLIGHT <- FALSE

\* The smoke test that pauses the program, and a script that executes what it finds.
Pauses == INSTANCE SquadsOps
    WITH ms <- sq_ms, round <- sq_round, paused <- sq_paused, now <- sq_now, net <- sq_net,
         run <- sq_run, starts <- sq_starts, broken <- sq_broken, Runs <- {1, 2},
         Scripts <- {"smoke_update_config", "execute_tx"}, MAXTX <- 3, LOCK <- 0,
         MAX_WAIT <- 2, ATTEMPTS <- 2, MAXRUNS <- 1, MAXT <- 0, SKIP_PREFLIGHT <- FALSE

\* One operator and the multisig with a time lock.
Upgrades == INSTANCE SquadsOps
    WITH ms <- sq_ms, round <- sq_round, paused <- sq_paused, now <- sq_now, net <- sq_net,
         run <- sq_run, starts <- sq_starts, broken <- sq_broken, Runs <- {1},
         Scripts <- {"smoke_upgrade_noop", "update_upgrade_timelock", "upgrade_from_buffer",
             "approve_and_execute", "force_cancel_round_local"},
         MAXTX <- 2, LOCK <- 1, MAX_WAIT <- 2, ATTEMPTS <- 2, MAXRUNS <- 2, MAXT <- 2,
         SKIP_PREFLIGHT <- FALSE

-----------------------------------------------------------------------------
(* The scripts of the administrator. *)

VARIABLES adm_admin, adm_treasury, adm_fee, adm_degen, adm_accounts, adm_fresh, adm_net,
          adm_run, adm_runs

admVars == <<adm_admin, adm_treasury, adm_fee, adm_degen, adm_accounts, adm_fresh, adm_net,
             adm_run, adm_runs>>

\* Any three of the scripts that set a deployment up.
Setup == INSTANCE AdminScripts
    WITH admin <- adm_admin, treasury <- adm_treasury, fee <- adm_fee, degen <- adm_degen,
         accounts <- adm_accounts, fresh <- adm_fresh, net <- adm_net, run <- adm_run,
         runs <- adm_runs,
         Scripts <- {"init_mainnet_config", "init_devnet", "create_ops_treasury_account",
             "create_squads_multisigs", "transfer_admin_mainnet", "upsert_degen_config",
             "update_fee"},
         ATTEMPTS <- 2, MAXRUNS <- 3, MAXKEYS <- 4

\* A migration that is cut off and run again.
Migrates == INSTANCE AdminScripts
    WITH admin <- adm_admin, treasury <- adm_treasury, fee <- adm_fee, degen <- adm_degen,
         accounts <- adm_accounts, fresh <- adm_fresh, net <- adm_net, run <- adm_run,
         runs <- adm_runs,
         Scripts <- {"init_mainnet_config", "create_ops_treasury_account",
             "migrate_squads_ops", "update_fee"},
         ATTEMPTS <- 2, MAXRUNS <- 5, MAXKEYS <- 2

-----------------------------------------------------------------------------
(* The smoke tests, as programs that run against the model of the program. *)

VARIABLES smoke_now, smoke_config, smoke_degenConfig, smoke_round, smoke_participant,
          smoke_degenClaim, smoke_vault, smoke_usdc, smoke_received, smoke_vrfPending,
          smoke_degenPending, smoke_starts, smoke_script, smoke_pc, smoke_verdict,
          smoke_pre, smoke_base, smoke_attempt, smoke_foreign, smoke_ticks, smoke_runs

smokeVars == <<smoke_now, smoke_config, smoke_degenConfig, smoke_round, smoke_participant,
               smoke_degenClaim, smoke_vault, smoke_usdc, smoke_received, smoke_vrfPending,
               smoke_degenPending, smoke_starts, smoke_script, smoke_pc, smoke_verdict,
               smoke_pre, smoke_base, smoke_attempt, smoke_foreign, smoke_ticks, smoke_runs>>

\* Any two of the scripts, one after the other on one ledger.
Smoke == INSTANCE SmokeScenarios
    WITH now <- smoke_now, config <- smoke_config, degenConfig <- smoke_degenConfig,
         round <- smoke_round, participant <- smoke_participant,
         degenClaim <- smoke_degenClaim, vault <- smoke_vault, usdc <- smoke_usdc,
         received <- smoke_received, vrfPending <- smoke_vrfPending,
         degenPending <- smoke_degenPending, starts <- smoke_starts, script <- smoke_script,
         pc <- smoke_pc, verdict <- smoke_verdict, pre <- smoke_pre, base <- smoke_base,
         attempt <- smoke_attempt, foreign <- smoke_foreign, ticks <- smoke_ticks,
         runs <- smoke_runs, MAX_PARTICIPANTS <- 4, U64_MAX <- 2147483647, U32_MAX <- 100,
         NumUsers <- 3, Payers <- {1}, Executors <- {e1}, Treasuries <- {t1},
         Admins <- {a1}, Tokens <- {m1}, NoKey <- NoKey, Randomness <- {r1}, Ranks <- {k1},
         VRF_REIMBURSEMENT_USDC <- 200000, DEFAULT_DEGEN_FALLBACK_TIMEOUT_SEC <- 300,
         InitialUsdc <- 0, MaxTime <- 0, MaxStarts <- 1, InitArgs <- {}, UpdateArgs <- {},
         TimeoutArgs <- {}, MinOuts <- {}, MinOutRaws <- {}, OtherEmptyAccount <- {},
         SwapOuts <- {}, Donors <- {}, SweepTargets <- {},
         Scripts <- {"deploy", "cancelled", "classic", "degen", "multi", "devnet"},
         Admin <- a1, Executor <- e1, Treasury <- t1, Token <- m1, Random <- r1, Rank <- k1,
         MAXRUNS <- 2, MAXTICKS <- 1, Ticks <- {10}

-----------------------------------------------------------------------------
\* What an endpoint answers was so a short time ago.  The Actions: a round offered for joining
\* was open less than the cache's lifetime before the request, and no round that was open
\* and no prize that waited all through the request is missed.  The Tapestry proxy: profiles
\* are at most two lives in the cache and five timeouts old and a feed one life and three
\* timeouts, a reply has every wallet asked for, no cache exceeds its size, an event is
\* there once, and a feed asked for after it was published has it.
AnswersAreTrue ==
    /\ part = "fresh" => Fresh!JoinableIsFresh
    /\ part = "finds" => Finds!OpenRoundFound /\ Finds!PrizeFound
    /\ part = "lives" => Lives!ProfilesAreRecent
    /\ part = "races" => Races!CacheWithinLimit /\ Races!ReplyIsComplete
    /\ part = "recent" => Recent!FeedIsRecent
    /\ part = "served" => /\ Served!FeedCacheWithinLimit
                          /\ Served!OneItemPerPublication
                          /\ Served!PublishedIsServed

\* An instruction that a builder of the web client builds carries the accounts and amounts
\* the program wants, whatever was closed or renamed meanwhile; so does one of the crank
\* while its wallet has a USDC account and its environment names the configured treasury.
BuiltIsAccepted == part = "tx" => Web!BuiltIsAccepted /\ Env!BuiltIsAcceptedCalm

\* The scripts of the operators do what they report, although two run at once, answers are
\* lost and a run is repeated: an approval is for what the approving script set out to do, a
\* script that ends well has had its transaction executed and its accounts created, the
\* smoke test leaves the program paused only when it failed, and the program is never under
\* the multisig while its fees go to the old treasury.  Every transaction of a local smoke
\* script is accepted or refused as it expects and its assertions hold, unless it meets a
\* configuration of another script or the clock passes end_ts between two deposits.
ScriptsDoAsTheySay ==
    /\ part = "votes" => Votes!VoteIsMeant /\ Votes!OkIsExecuted
    /\ part = "upgrades" => Upgrades!VoteIsMeant /\ Upgrades!OkIsExecuted
    /\ part = "pauses" => Pauses!UnpausedUnlessFailed
    /\ part = "setup" => Setup!ReportedIsThere
    /\ part = "migrates" => Migrates!TreasuryMovesFirst /\ Migrates!ReportedIsThere
    /\ part = "smoke" => Smoke!ScriptsPass

\* Every request to the Tapestry proxy is answered, whichever of its calls fail, and every
\* smoke script that starts comes to a verdict.
ServicesEnd ==
    /\ part = "ends" => Ends!RequestsEnd
    /\ part = "smoke" => Smoke!ScriptEnds

-----------------------------------------------------------------------------
Parts == {"fresh", "finds", "tx", "lives", "races", "ends", "recent", "served", "votes",
          "pauses", "upgrades", "setup", "migrates", "smoke"}

Init ==
    /\ part \in Parts
    /\ CASE part = "fresh" -> Fresh!Init
         [] part = "finds" -> Finds!Init
         [] OTHER -> Fresh!Init
    /\ Web!Init
    /\ CASE part = "lives" -> Lives!Init
         [] part = "races" -> Races!Init
         [] part = "ends" -> Ends!Init
         [] OTHER -> Lives!Init
    /\ CASE part = "recent" -> Recent!Init
         [] part = "served" -> Served!Init
         [] OTHER -> Recent!Init
    /\ CASE part = "votes" -> Votes!Init
         [] part = "pauses" -> Pauses!Init
         [] part = "upgrades" -> Upgrades!Init
         [] OTHER -> Votes!Init
    /\ CASE part = "setup" -> Setup!Init
         [] part = "migrates" -> Migrates!Init
         [] OTHER -> Setup!Init
    /\ Smoke!SmokeInit

Next ==
    \/ /\ \/ part = "fresh" /\ Fresh!Next
          \/ part = "finds" /\ Finds!Next
       /\ UNCHANGED <<part, txVars, profVars, feedVars, sqVars, admVars, smokeVars>>
    \/ /\ part = "tx" /\ Web!Next
       /\ UNCHANGED <<part, actVars, profVars, feedVars, sqVars, admVars, smokeVars>>
    \/ /\ \/ part = "lives" /\ Lives!Next
          \/ part = "races" /\ Races!Next
          \/ part = "ends" /\ Ends!Next
       /\ UNCHANGED <<part, actVars, txVars, feedVars, sqVars, admVars, smokeVars>>
    \/ /\ \/ part = "recent" /\ Recent!Next
          \/ part = "served" /\ Served!Next
       /\ UNCHANGED <<part, actVars, txVars, profVars, sqVars, admVars, smokeVars>>
    \/ /\ \/ part = "votes" /\ Votes!Next
          \/ part = "pauses" /\ Pauses!Next
          \/ part = "upgrades" /\ Upgrades!Next
       /\ UNCHANGED <<part, actVars, txVars, profVars, feedVars, admVars, smokeVars>>
    \/ /\ \/ part = "setup" /\ Setup!Next
          \/ part = "migrates" /\ Migrates!Next
       /\ UNCHANGED <<part, actVars, txVars, profVars, feedVars, sqVars, smokeVars>>
    \/ /\ part = "smoke" /\ Smoke!SmokeNext
       /\ UNCHANGED <<part, actVars, txVars, profVars, feedVars, sqVars, admVars>>

vars == <<part, actVars, txVars, profVars, feedVars, sqVars, admVars, smokeVars>>

\* The client's timeout ends every call of the proxy; a smoke script goes on, and the
\* timeouts it sleeps through pass.
Fairness ==
    /\ WF_profVars(part = "ends" /\ Ends!Answer(1))
    /\ WF_smokeVars(part = "smoke" /\ Smoke!SendIxs)
    /\ WF_smokeVars(part = "smoke" /\ Smoke!ReadBalances)
    /\ WF_smokeVars(part = "smoke" /\ Smoke!Check)
    /\ WF_smokeVars(part = "smoke" /\ Smoke!WaitUntilRoundEnded)
    /\ WF_smokeVars(part = "smoke" /\ Smoke!SleepTimeout)

Spec == Init /\ [][Next]_vars /\ Fairness

=============================================================================

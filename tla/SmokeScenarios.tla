--------------------------- MODULE SmokeScenarios ---------------------------
(***************************************************************************)
(* The smoke scripts of jackpot_pinocchio_poc/scripts and the devnet smoke *)
(* of scripts/, run one after the other against the program (Jackpot) on   *)
(* one ledger.  A script is a sequence of steps: an instruction it sends   *)
(* and confirms, a reading it keeps for later, a wait, or the assertions   *)
(* it makes on what it reads back.  Every script plays a round id of its   *)
(* own; the configuration and the payer's tokens stay from one script to   *)
(* the next, and time passes between any two steps.                        *)
(*                                                                         *)
(* Wallet 1 is the key the script is run with (also its administrator, VRF *)
(* payer and executor); 2 and 3 are keypairs it generates.  Funding with   *)
(* SOL, PDAs and account lists are left out.  Instructions that a script   *)
(* puts in one transaction are steps of which only the last lets time      *)
(* pass (joined).                                                          *)
(***************************************************************************)
EXTENDS Jackpot, Sequences

CONSTANTS
    Scripts,        \* the scripts that are run
    Admin, Executor, Treasury, Token, Random, Rank,     \* the accounts they use
    MAXRUNS,        \* bound on the scripts run one after the other
    MAXTICKS,       \* bound on the times the clock moves by itself during a script
    Ticks           \* by how much it moves then

VARIABLES
    script,     \* the script that runs, or "none"
    pc,         \* its next step
    verdict,    \* "running", "passed" or "failed"
    pre,        \* token balances read before minting
    base,       \* balances read before the claim: of the payer and of the treasury
    attempt,    \* polls of waitUntilRoundEnded so far
    foreign,    \* the script met a configuration that is not the one it would write
    ticks, runs

scriptVars == <<script, pc, verdict, pre, base, attempt, foreign, ticks, runs>>

smokeVars == <<vars, scriptVars>>

-----------------------------------------------------------------------------
\* Steps.
Ix(op) ==
    [kind |-> "ix", op |-> op, who |-> 1, amount |-> 0, from |-> "pre", ok |-> TRUE,
     joined |-> FALSE]

Deposit(u, min_out) == [Ix("deposit_any") EXCEPT !.who = u, !.amount = min_out]

By(u, op) == [Ix(op) EXCEPT !.who = u]

Mint(u, amount) == [Ix("mint") EXCEPT !.who = u, !.amount = amount]

Joined(step) == [step EXCEPT !.joined = TRUE]

Refused(step) == [step EXCEPT !.ok = FALSE]

AssertEq(expect) == [kind |-> "assert", expect |-> expect]

Do(kind) == [kind |-> kind]

\* getAccount(ata) of every user, kept as the balance before the mint.
ReadPre == Do("read_pre")

\* The arguments of init_config in the order of encodeInitConfig.
ConfigArgs(fee, unit, duration, players, tickets, limit) ==
    [fee_bps |-> fee, ticket_unit |-> unit, round_duration_sec |-> duration,
     min_participants |-> players, min_total_tickets |-> tickets,
     max_deposit_per_user |-> limit]

\* The configuration each script writes when it initialises one.
OwnConfig(s) ==
    CASE s = "deploy"    -> ConfigArgs(25, 10000, 120, 1, 2, 1000000)
      [] s = "cancelled" -> ConfigArgs(25, 10000, 120, 2, 2, 1000000)
      [] s = "classic"   -> ConfigArgs(25, 10000, 1, 1, 2, 100000000)
      [] s = "degen"     -> ConfigArgs(25, 10000, 1, 1, 2, 100000000)
      [] s = "multi"     -> ConfigArgs(25, 10000, 10, 2, 2, 100000000)
      [] s = "devnet"    -> ConfigArgs(500, 1000000, 30, 2, 2, 0)

\* local_deploy_smoke.ts writes the three accounts and reads every field back.
DeploySmoke ==
    << Ix("init_config"),
       AssertEq([fee_bps |-> 25, ticket_unit |-> 10000, round_duration_sec |-> 120,
               min_participants |-> 1, min_total_tickets |-> 2,
               max_deposit_per_user |-> 1000000]),
       Ix("upsert_degen_config"), AssertEq([fallback_timeout_sec |-> 300]),
       Ix("start_round"),
       AssertEq([status |-> "OPEN", total_usdc |-> 0, total_tickets |-> 0,
               participants_count |-> 0]) >>

\* local_cancelled_round_smoke.ts, up to the two deposits: the balance before is given
\* as zero, and the configuration is always initialised.
CancelledSmokePlay ==
    << Mint(1, 10000), Mint(2, 20000),
       Ix("init_config"), Ix("start_round"),
       [Deposit(1, 10000) EXCEPT !.from = "zero"],
       [Deposit(2, 20000) EXCEPT !.from = "zero"],
       AssertEq([status |-> "OPEN", participants_count |-> 2, total_usdc |-> 30000,
               total_tickets |-> 3]) >>

\* The rest of it: the administrator cancels, both are refunded, everything is closed.
CancelledSmokeRefund ==
    << Ix("admin_force_cancel"), AssertEq([status |-> "CANCELLED"]),
       By(1, "claim_refund"), By(2, "claim_refund"),
       AssertEq([balance1 |-> 10000, balance2 |-> 20000, vault |-> 0]),
       By(1, "close_participant"), By(2, "close_participant"), Ix("close_round"),
       AssertEq([status |-> "ABSENT", joined1 |-> FALSE, joined2 |-> FALSE]) >>

\* local_classic_round_smoke.ts, up to the deposit: an existing configuration is kept.
ClassicSmokePlay ==
    << ReadPre, Mint(1, 20000), Ix("init_config_once"),
       AssertEq([min_participants |-> 1, round_duration_sec |-> 1]),
       Ix("start_round"), Deposit(1, 20000),
       AssertEq([status |-> "OPEN", total_usdc |-> 20000, total_tickets |-> 2,
               participants_count |-> 1]) >>

\* The rest of it: the prize is claimed without the VRF payer's accounts.
ClassicSmokeSettle ==
    << Do("wait"), Ix("lock_round"), AssertEq([status |-> "LOCKED"]),
       Ix("request_vrf"), AssertEq([status |-> "VRF_REQUESTED"]),
       Ix("vrf_callback"),
       AssertEq([status |-> "SETTLED", winner |-> 1, winning_ticket |-> 1]),
       Do("read_base"), By(1, "claim"),
       AssertEq([status |-> "CLAIMED", payout |-> 19950, fee |-> 50, vault |-> 0]) >>

\* local_degen_fallback_smoke.ts, up to the deposit.
DegenSmokePlay ==
    << ReadPre, Mint(1, 10000000),
       Joined(Ix("init_config_once")), Joined(Ix("upsert_degen_config_once")),
       Ix("start_round"), Deposit(1, 10000000) >>

\* The rest of it: the winner is the VRF payer, and gets both amounts.
DegenSmokeFallback ==
    << Do("wait"), Joined(Ix("lock_round")), Ix("request_vrf"), Ix("vrf_callback"),
       By(1, "request_degen_vrf"), By(1, "degen_vrf_callback"),
       AssertEq([claim_status |-> "VRF_READY", claim_payout |-> 9775500]),
       Do("sleep"), Do("read_base"), By(1, "claim_degen_fallback"),
       AssertEq([status |-> "CLAIMED", degen_mode |-> "CLAIMED",
               claim_status |-> "CLAIMED_FALLBACK", claim_payout |-> 9775500,
               payout |-> 9975500, fee |-> 24500, vault |-> 0]) >>

\* local_multi_user_smoke.ts, up to the start of the round.
MultiSmokeSetup ==
    << ReadPre, Mint(1, 30000), Mint(2, 20000), Mint(3, 50000),
       Ix("init_config_once"), Ix("start_round") >>

\* The three deposits, the second of which starts the countdown.
MultiSmokeDeposits ==
    << Deposit(1, 30000), Deposit(2, 20000), Deposit(3, 50000),
       AssertEq([total_usdc |-> 100000, total_tickets |-> 10, participants_count |-> 3]),
       Do("wait"), Ix("lock_round"), Ix("request_vrf"), Ix("vrf_callback") >>

\* The claim of a user who did not win is refused, the winner's is paid.
MultiSmokeClaims ==
    << AssertEq([status |-> "SETTLED", winning_ticket |-> 1, winner |-> 1]),
       Refused(By(2, "claim")), Do("read_base"), By(1, "claim"),
       AssertEq([status |-> "CLAIMED", payout |-> 99750, fee |-> 250, vault |-> 0]) >>

\* scripts/pinocchio_devnet_smoke.ts, up to the deposit.
DevnetSmokePlay ==
    << Ix("init_config_once"), Ix("start_round"), ReadPre, Mint(1, 100000000),
       Deposit(1, 5000000) >>

\* The pause is set and cleared.
DevnetSmokePause ==
    << Ix("pause"), AssertEq([paused |-> TRUE]), Ix("unpause"), AssertEq([paused |-> FALSE]) >>

\* The round is cancelled, refunded and closed.
DevnetSmokeCancel ==
    << Ix("admin_force_cancel"), Do("read_base"), By(1, "claim_refund"),
       AssertEq([refunded |-> TRUE, vault |-> 0]),
       By(1, "close_participant"), AssertEq([joined1 |-> FALSE]),
       Ix("close_round"), AssertEq([status |-> "ABSENT"]) >>

Program(s) ==
    CASE s = "deploy"    -> DeploySmoke
      [] s = "cancelled" -> CancelledSmokePlay \o CancelledSmokeRefund
      [] s = "classic"   -> ClassicSmokePlay \o ClassicSmokeSettle
      [] s = "degen"     -> DegenSmokePlay \o DegenSmokeFallback
      [] s = "multi"     -> MultiSmokeSetup \o MultiSmokeDeposits \o MultiSmokeClaims
      [] s = "devnet"    -> DevnetSmokePlay \o DevnetSmokePause \o DevnetSmokeCancel

\* The scripts that send init_config without looking.
InitsAlways == {"deploy", "cancelled"}

Step == Program(script)[pc]

-----------------------------------------------------------------------------
\* mintTo of the token program: the script's key owns the mint.
MintTo(u, amount) ==
    /\ usdc' = Credit(usdc, u, amount)
    /\ UNCHANGED <<now, config, degenConfig, round, participant, degenClaim, vault,
                   received, vrfPending, degenPending, starts>>

\* An instruction that the script leaves out because its account is there already.
Skip == UNCHANGED vars

\* FALLBACK_TIMEOUT_SEC of the two scripts that set it.
TimeoutArg == IF script = "degen" THEN 1 ELSE 300

\* The instruction of a step, as the program executes it.
Execute(s) ==
    \/ s.op = "mint" /\ MintTo(s.who, s.amount)
    \/ s.op = "init_config" /\ InitConfig(Admin, Treasury, OwnConfig(script))
    \/ /\ s.op = "init_config_once"
       /\ IF config.exists THEN Skip ELSE InitConfig(Admin, Treasury, OwnConfig(script))
    \/ s.op = "upsert_degen_config" /\ UpsertDegenConfig(Admin, Executor, TimeoutArg)
    \/ /\ s.op = "upsert_degen_config_once"
       /\ IF degenConfig.exists /\ foreign # "none" THEN Skip
          ELSE UpsertDegenConfig(Admin, Executor, TimeoutArg)
    \/ s.op = "start_round" /\ StartRound
    \/ /\ s.op = "deposit_any"
       /\ DepositAny(s.who, IF s.from = "zero" THEN 0 ELSE pre[s.who], s.amount)
    \/ s.op = "lock_round" /\ LockRound
    \/ s.op = "request_vrf" /\ RequestVrf(1)
    \/ s.op = "vrf_callback" /\ VrfCallback(0)
    \/ s.op = "claim" /\ Claim(s.who, FALSE)
    \/ s.op = "request_degen_vrf" /\ RequestDegenVrf(s.who)
    \/ s.op = "degen_vrf_callback" /\ DegenVrfCallback(s.who, Random)
    \/ s.op = "claim_degen_fallback" /\ ClaimDegenFallback(s.who, TRUE)
    \/ s.op = "admin_force_cancel" /\ AdminForceCancel(Admin)
    \/ s.op = "claim_refund" /\ ClaimRefund(s.who)
    \/ s.op = "close_participant" /\ CloseParticipant(s.who)
    \/ s.op = "close_round" /\ CloseRound(NoKey)
    \/ s.op = "pause" /\ UpdateConfig(Admin, [paused |-> TRUE])
    \/ s.op = "unpause" /\ UpdateConfig(Admin, [paused |-> FALSE])

\* What the scripts read back.
Observed ==
    [status |-> round.status, total_usdc |-> round.total_usdc,
     total_tickets |-> round.total_tickets, winner |-> round.winner,
     participants_count |-> round.participants_count,
     winning_ticket |-> round.winning_ticket, degen_mode |-> round.degen_mode,
     fee_bps |-> config.fee_bps, ticket_unit |-> config.ticket_unit,
     round_duration_sec |-> config.round_duration_sec,
     min_participants |-> config.min_participants,
     min_total_tickets |-> config.min_total_tickets,
     max_deposit_per_user |-> config.max_deposit_per_user, paused |-> config.paused,
     fallback_timeout_sec |-> degenConfig.fallback_timeout_sec,
     claim_status |-> degenClaim[1].status, claim_payout |-> degenClaim[1].payout_raw,
     vault |-> vault, balance1 |-> usdc[1], balance2 |-> usdc[2],
     joined1 |-> participant[1].exists, joined2 |-> participant[2].exists,
     payout |-> usdc[1] - base[1], fee |-> usdc[Treasury] - base[2],
     refunded |-> usdc[1] > base[1]]

Advance ==
    /\ pc' = pc + 1
    /\ verdict' = IF pc = Len(Program(script)) THEN "passed" ELSE verdict

Fail == verdict' = "failed" /\ UNCHANGED pc

\* sendIxs: the transaction is confirmed, or the script ends with an exception; the
\* multi-user script catches the one it expects.
SendIxs ==
    /\ verdict = "running" /\ Step.kind = "ix"
    /\ \/ /\ Execute(Step)
          /\ IF Step.ok THEN Advance ELSE Fail
       \/ /\ ~ENABLED Execute(Step)
          /\ IF Step.ok THEN Fail ELSE Advance
          /\ UNCHANGED vars
    /\ UNCHANGED <<script, pre, base, attempt, foreign, ticks, runs>>

\* The balances a script compares with later.
ReadBalances ==
    /\ verdict = "running" /\ Step.kind \in {"read_pre", "read_base"}
    /\ IF Step.kind = "read_pre" THEN pre' = [u \in Users |-> usdc[u]] /\ UNCHANGED base
                                 ELSE base' = <<usdc[1], usdc[Treasury]>> /\ UNCHANGED pre
    /\ Advance
    /\ UNCHANGED <<vars, script, attempt, foreign, ticks, runs>>

\* assert.equal of the fields a script looks at.
Check ==
    /\ verdict = "running" /\ Step.kind = "assert"
    /\ IF \A f \in DOMAIN Step.expect : Observed[f] = Step.expect[f] THEN Advance ELSE Fail
    /\ UNCHANGED <<vars, script, pre, base, attempt, foreign, ticks, runs>>

ATTEMPTS == 20

At(time) ==
    /\ now' = time
    /\ UNCHANGED <<config, degenConfig, round, participant, degenClaim, vault, usdc,
                   received, vrfPending, degenPending, starts>>

\* Mutant of WaitUntilRoundEnded: the loop ends and nothing is thrown or returned.
WaitUntilRoundEndedSilent ==
    /\ verdict = "running" /\ Step.kind = "wait"
    /\ \/ now >= round.end_ts /\ Advance /\ attempt' = 0 /\ UNCHANGED now
       \/ now < round.end_ts /\ attempt < ATTEMPTS - 1
          /\ attempt' = attempt + 1 /\ now' = now + 1 /\ UNCHANGED <<pc, verdict>>
    /\ UNCHANGED <<config, degenConfig, round, participant, degenClaim, vault, usdc,
                   received, vrfPending, degenPending, starts, script, pre, base, foreign,
                   ticks, runs>>

\* One poll: the countdown is over, or the script sleeps a second and polls again, at
\* most twenty times.
WaitUntilRoundEnded ==
    /\ verdict = "running" /\ Step.kind = "wait"
    /\ \/ now >= round.end_ts /\ Advance /\ attempt' = 0 /\ UNCHANGED now
       \/ now < round.end_ts /\ attempt < ATTEMPTS - 1
          /\ attempt' = attempt + 1 /\ now' = now + 1 /\ UNCHANGED <<pc, verdict>>
       \/ now < round.end_ts /\ attempt = ATTEMPTS - 1
          /\ Fail /\ now' = now + 1 /\ attempt' = 0
    /\ UNCHANGED <<config, degenConfig, round, participant, degenClaim, vault, usdc,
                   received, vrfPending, degenPending, starts, script, pre, base, foreign,
                   ticks, runs>>

\* The degen script sleeps a second longer than the timeout it asked for.
SleepTimeout ==
    /\ verdict = "running" /\ Step.kind = "sleep"
    /\ At(now + 2) /\ Advance
    /\ UNCHANGED <<script, pre, base, attempt, foreign, ticks, runs>>

\* The clock moves between two transactions.
Pass(d) ==
    /\ verdict = "running" /\ ticks < MAXTICKS
    /\ ~(pc > 1 /\ Program(script)[pc - 1].kind = "ix" /\ Program(script)[pc - 1].joined)
    /\ At(now + d)
    /\ ticks' = ticks + 1
    /\ UNCHANGED <<script, pc, verdict, pre, base, attempt, foreign, runs>>

\* What the configuration at a script's start means for it: there is none, it is the
\* one the script would write and keeps, or it is another.
Meets(s) ==
    LET own == OwnConfig(s)
    IN  IF ~config.exists THEN "none"
        ELSE IF /\ s \notin InitsAlways
                /\ \A f \in DOMAIN own : config[f] = own[f]
                /\ (s = "degen" /\ degenConfig.exists) => degenConfig.fallback_timeout_sec = 1
             THEN "own" ELSE "other"

\* A script starts with an unused round id: the accounts of that round are new.
Start(s) ==
    /\ verdict # "running" /\ runs < MAXRUNS
    /\ script' = s /\ pc' = 1 /\ verdict' = "running" /\ runs' = runs + 1
    /\ foreign' = Meets(s)
    /\ pre' = [u \in Users |-> 0] /\ base' = <<0, 0>>
    /\ attempt' = 0 /\ ticks' = 0
    /\ round' = NoRound /\ vault' = 0 /\ starts' = 0
    /\ participant' = [u \in Users |-> NoParticipant]
    /\ degenClaim' = [u \in Users |-> NoDegenClaim]
    /\ vrfPending' = 0 /\ degenPending' = [u \in Users |-> 0]
    \* wallets 2 and 3 are new keypairs
    /\ usdc' = [w \in Wallets |-> IF w \in Users \ {1} THEN 0 ELSE usdc[w]]
    /\ UNCHANGED <<now, config, degenConfig, received>>

SmokeInit ==
    /\ Init
    /\ script = "none" /\ pc = 1 /\ verdict = "passed" /\ foreign = "none"
    /\ pre = [u \in Users |-> 0] /\ base = <<0, 0>>
    /\ attempt = 0 /\ ticks = 0 /\ runs = 0

SmokeNext ==
    \/ \E s \in Scripts : Start(s)
    \/ SendIxs
    \/ ReadBalances
    \/ Check
    \/ WaitUntilRoundEnded
    \/ SleepTimeout
    \/ \E d \in Ticks : Pass(d)

-----------------------------------------------------------------------------
\* A deposit that the countdown overtook.
TooLate ==
    /\ Step.kind = "ix" /\ Step.op = "deposit_any"
    /\ round.end_ts # 0 /\ now >= round.end_ts

\* Every transaction a smoke script sends is accepted, the one it expects to be refused
\* is refused, and every assertion it makes holds, on a new ledger and on one where it
\* finds its own configuration; the only thing that can fail it is the clock passing
\* end_ts between two deposits.
ScriptsPass == verdict = "failed" => foreign = "other" \/ TooLate

\* Every script that starts comes to a verdict.
ScriptEnds == (verdict = "running") ~> (verdict # "running")

=============================================================================

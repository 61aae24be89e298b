------------------------------ MODULE SquadsOps ------------------------------
(***************************************************************************)
(* The administration scripts that go through the two Squads multisigs     *)
(* (scripts/squads_*.mjs).  A script reads the multisig's transaction      *)
(* index, creates the next transaction, proposes it, approves it with two  *)
(* signers and executes it; every step is a transaction that is sent,      *)
(* polled for and given up after a while, and that may land late or never. *)
(* Two operators may run scripts at the same time, and run them again      *)
(* after a failure.                                                        *)
(***************************************************************************)
EXTENDS Naturals, Sequences, FiniteSets

CONSTANTS
    Runs,           \* operators, each running one script at a time
    Scripts,        \* the scripts of a run of the model
    MAXTX,          \* transactions of one multisig (bound of the model)
    LOCK,           \* the upgrade multisig's time lock, in ticks
    MAX_WAIT,       \* MAX_WAIT_SEC in ticks
    ATTEMPTS,       \* EXECUTE_ATTEMPTS
    MAXRUNS,        \* scripts an operator starts (bound of the model)
    MAXT,           \* last tick of the clock (bound of the model)
    SKIP_PREFLIGHT  \* the time lock script's option

VARIABLES
    ms,         \* the multisigs and their transactions
    round,      \* status of the round a cancellation is about
    paused,     \* config.paused
    now,
    net,        \* transactions sent and not landed; one that expires stays here for good
    run,        \* the scripts
    starts,     \* scripts started so far by each operator
    broken      \* a run of squads_smoke_update_config has failed

vars == <<ms, round, paused, now, net, run, starts, broken>>

Multisigs == {"ops", "upgrade"}
Idle == [script |-> "none", part |-> 1, idx |-> 0, pc |-> 0, st |-> "idle", sig |-> "none",
         tries |-> 0, since |-> 0]

Init ==
    /\ ms = [m \in Multisigs |-> [lock |-> IF m = "upgrade" THEN LOCK ELSE 0, stale |-> 0,
                                  txs |-> <<>>]]
    /\ round = "running" /\ paused = FALSE /\ now = 0 /\ net = {}
    /\ run = [r \in Runs |-> Idle] /\ starts = [r \in Runs |-> 0] /\ broken = FALSE

-----------------------------------------------------------------------------
(* The scripts: the multisig, what its transactions are to do, one after   *)
(* another, the steps, how a confirmation treats errors ("strict" throws   *)
(* on a failed transaction, "swallow" polls on until the time is up, "hard" *)
(* throws on an RPC error too), whether a transaction is simulated before  *)
(* it is sent, and what an error of the last step does.                    *)

Five == <<"create", "propose", "approve1", "approve2", "execute">>

squads_force_cancel_round ==
    [ms |-> "ops", effects |-> <<"cancel">>, steps |-> Five, confirm |-> "strict",
     simulated |-> FALSE, last |-> "throw"]

squads_force_cancel_round_local ==
    [ms |-> "ops", effects |-> <<"cancel">>, steps |-> Five, confirm |-> "swallow",
     simulated |-> FALSE, last |-> "throw"]

squads_update_ticket_unit ==
    [ms |-> "ops", effects |-> <<"unit">>, steps |-> Five, confirm |-> "strict",
     simulated |-> FALSE, last |-> "throw"]

squads_upsert_degen_config ==
    [ms |-> "ops", effects |-> <<"degen">>, steps |-> Five, confirm |-> "strict",
     simulated |-> TRUE, last |-> "throw"]

squads_smoke_update_config ==
    [ms |-> "ops", effects |-> <<"pause", "unpause">>, steps |-> Five, confirm |-> "swallow",
     simulated |-> FALSE, last |-> "throw"]

\* The authority is set to what it is.
squads_smoke_upgrade_noop_set_authority ==
    [ms |-> "upgrade", effects |-> <<"noop">>, steps |-> Five, confirm |-> "hard",
     simulated |-> TRUE, last |-> "wait"]

squads_update_upgrade_timelock ==
    [ms |-> "upgrade", effects |-> <<"lock">>, steps |-> Five, confirm |-> "hard",
     simulated |-> ~SKIP_PREFLIGHT, last |-> "wait"]

squads_upgrade_from_buffer ==
    [ms |-> "upgrade", effects |-> <<"upgrade">>, steps |-> Five, confirm |-> "hard",
     simulated |-> FALSE, last |-> "report"]

squads_approve_and_execute ==
    [ms |-> "upgrade", effects |-> <<"any">>, steps |-> <<"approve2", "execute">>,
     confirm |-> "hard", simulated |-> FALSE, last |-> "throw"]

squads_execute_only ==
    [ms |-> "ops", effects |-> <<"any">>, steps |-> <<"execute">>, confirm |-> "hard",
     simulated |-> FALSE, last |-> "throw"]

squads_execute_tx ==
    [ms |-> "ops", effects |-> <<"any">>, steps |-> <<"execute">>, confirm |-> "hard",
     simulated |-> FALSE, last |-> "again"]

Plan(s) ==
    CASE s = "force_cancel_round" -> squads_force_cancel_round
      [] s = "force_cancel_round_local" -> squads_force_cancel_round_local
      [] s = "update_ticket_unit" -> squads_update_ticket_unit
      [] s = "upsert_degen_config" -> squads_upsert_degen_config
      [] s = "smoke_update_config" -> squads_smoke_update_config
      [] s = "smoke_upgrade_noop" -> squads_smoke_upgrade_noop_set_authority
      [] s = "update_upgrade_timelock" -> squads_update_upgrade_timelock
      [] s = "upgrade_from_buffer" -> squads_upgrade_from_buffer
      [] s = "approve_and_execute" -> squads_approve_and_execute
      [] s = "execute_only" -> squads_execute_only
      [] s = "execute_tx" -> squads_execute_tx

PlanOf(r) == Plan(run[r].script)
Step(r) == PlanOf(r).steps[run[r].pc]
Creates(s) == Plan(s).steps = Five

-----------------------------------------------------------------------------
(* The Squads program and what a transaction of its vault does.            *)

\* What a step sends: the operation, its transaction and what it is to do.
Call(r) ==
    [by |-> r, op |-> Step(r), m |-> PlanOf(r).ms, idx |-> run[r].idx, try |-> run[r].tries,
     effect |-> PlanOf(r).effects[run[r].part]]

InnerOk(effect) == effect = "cancel" => round = "running"

Accepts(c) ==
    LET m == ms[c.m]
        exists == c.idx <= Len(m.txs)
        tx == m.txs[c.idx]
    IN  CASE c.op = "create" -> c.idx = Len(m.txs) + 1
          [] c.op = "propose" -> exists /\ tx.st = "created" /\ c.idx > m.stale
          [] c.op \in {"approve1", "approve2"} ->
                 exists /\ tx.st = "active" /\ c.idx > m.stale
                 /\ c.op \notin {v[1] : v \in tx.votes}
          [] c.op = "execute" ->
                 /\ exists /\ tx.st = "approved" /\ InnerOk(tx.effect)
                 /\ tx.effect = "lock" => c.idx > m.stale
                 /\ now >= tx.at + m.lock

\* A transaction refused for the time lock alone.
Locked(c) ==
    LET tx == ms[c.m].txs[c.idx]
    IN  c.op = "execute" /\ tx.st = "approved" /\ now < tx.at + ms[c.m].lock

Voted(tx, c) ==
    [tx EXCEPT !.votes = @ \cup {<<c.op, c.effect>>},
               !.st = IF Cardinality(tx.votes) = 1 THEN "approved" ELSE @,
               !.at = IF Cardinality(tx.votes) = 1 THEN now ELSE @]

After(c) ==
    LET m == ms[c.m]
        tx == m.txs[c.idx]
        put(t) == [m EXCEPT !.txs[c.idx] = t]
    IN  CASE c.op = "create" ->
                 [m EXCEPT !.txs = Append(@, [effect |-> c.effect, st |-> "created",
                                              votes |-> {}, at |-> 0])]
          [] c.op = "propose" -> put([tx EXCEPT !.st = "active"])
          [] c.op \in {"approve1", "approve2"} -> put(Voted(tx, c))
          [] c.op = "execute" ->
                 LET done == put([tx EXCEPT !.st = "executed"])
                 IN  IF tx.effect = "lock"
                     THEN [done EXCEPT !.lock = 0, !.stale = Len(m.txs)] ELSE done

Effect(c) ==
    LET e == IF c.op = "execute" THEN ms[c.m].txs[c.idx].effect ELSE "none"
    IN  /\ round' = IF e = "cancel" THEN "cancelled" ELSE round
        /\ paused' = IF e = "pause" THEN TRUE ELSE IF e = "unpause" THEN FALSE ELSE paused

\* The script hears of the landing only if it still polls for this transaction.
Told(c, result) ==
    LET r == c.by
    IN  run' = IF run[r].sig = "pending" /\ Call(r) = c
               THEN [run EXCEPT ![r].sig = result] ELSE run

Land(c) ==
    /\ c \in net /\ net' = net \ {c}
    /\ IF Accepts(c)
       THEN ms' = [ms EXCEPT ![c.m] = After(c)] /\ Effect(c) /\ Told(c, "ok")
       ELSE Told(c, "err") /\ UNCHANGED <<ms, round, paused>>
    /\ UNCHANGED <<starts, now, broken>>

Tick == now < MAXT /\ now' = now + 1 /\ UNCHANGED <<starts, ms, round, paused, net, run, broken>>

\* The round goes on while a cancellation is on its way.
Settle ==
    /\ round = "running" /\ round' = "settled"
    /\ UNCHANGED <<starts, ms, paused, now, net, run, broken>>

-----------------------------------------------------------------------------
(* A run of a script. *)

Free(r) == run[r].st \in {"idle", "ok", "failed", "reported", "nothing"}
CanStart(r) == Free(r) /\ starts[r] < MAXRUNS

\* squads_force_cancel_round looks at the round first; a settled one is not sorted out.
CancelNothing == round = "cancelled"

\* The script reads the index, unless there is nothing to do.
Start(r, s) ==
    LET m == ms[Plan(s).ms]
        nothing == (s = "force_cancel_round" /\ CancelNothing)
                   \/ (s = "update_upgrade_timelock" /\ m.lock = 0)
    IN  /\ CanStart(r) /\ Creates(s) /\ Len(m.txs) < MAXTX
        /\ run' = [run EXCEPT ![r] = [Idle EXCEPT !.script = s, !.idx = Len(m.txs) + 1, !.pc = 1,
                                          !.st = IF nothing THEN "nothing" ELSE "send"]]
        /\ starts' = [starts EXCEPT ![r] = @ + 1]
        /\ UNCHANGED <<ms, round, paused, now, net, broken>>

\* The scripts for a transaction that is there take its index from the operator.
Resume(r, s) ==
    /\ CanStart(r) /\ ~Creates(s)
    /\ \E m \in Multisigs, i \in 1..MAXTX :
        /\ m = Plan(s).ms /\ i <= Len(ms[m].txs)
        /\ ms[m].txs[i].st = IF s = "approve_and_execute" THEN "active" ELSE "approved"
        /\ s = "approve_and_execute" => ms[m].txs[i].votes # {}
        /\ run' = [run EXCEPT ![r] = [Idle EXCEPT !.script = s, !.idx = i, !.pc = 1, !.st = "send"]]
    /\ starts' = [starts EXCEPT ![r] = @ + 1]
    /\ UNCHANGED <<ms, round, paused, now, net, broken>>

Fails(r) ==
    /\ run' = [run EXCEPT ![r].st = "failed", ![r].sig = "none"]
    /\ broken' = (broken \/ run[r].script = "smoke_update_config")

Reports(r) == run' = [run EXCEPT ![r].st = "reported", ![r].sig = "none"] /\ UNCHANGED broken

\* The error of an execution is recognised as the time lock's by its text, which a
\* simulation has and a landed transaction has not.
WaitsOn(r, locked) == locked /\ now - run[r].since <= MAX_WAIT

\* An error of the last step: thrown, reported, waited out or tried again.
Error(r, locked) ==
    LET last == Step(r) = "execute"
        how == PlanOf(r).last
    IN  IF last /\ how = "wait" /\ WaitsOn(r, locked)
        THEN run' = [run EXCEPT ![r].st = "wait", ![r].sig = "none"] /\ UNCHANGED broken
        ELSE IF last /\ (how = "report" \/ run[r].script = "smoke_upgrade_noop")
        THEN Reports(r)
        ELSE Fails(r)

Send(r) ==
    LET c == Call(r)
        since == IF Step(r) = "execute" /\ run[r].tries = 0 THEN now ELSE run[r].since
    IN  /\ run[r].st = "send"
        /\ IF PlanOf(r).simulated /\ ~Accepts(c)
           THEN Error(r, Locked(c)) /\ UNCHANGED net
           ELSE /\ net' = net \cup {c}
                /\ run' = [run EXCEPT ![r].st = "confirm", ![r].sig = "pending", ![r].since = since]
                /\ UNCHANGED broken
        /\ UNCHANGED <<starts, ms, round, paused, now>>

\* A waiting script sends the execution again.
Retry(r) ==
    /\ run[r].st = "wait" /\ run' = [run EXCEPT ![r].st = "send"]
    /\ UNCHANGED <<starts, ms, round, paused, now, net, broken>>

\* The next step, the next transaction of the script, or the end.
Advance(r) ==
    LET more == run[r].part < Len(PlanOf(r).effects)
    IN  IF run[r].pc < Len(PlanOf(r).steps)
        THEN run' = [run EXCEPT ![r].pc = @ + 1, ![r].st = "send", ![r].sig = "none"]
        ELSE IF more
        THEN run' = [run EXCEPT ![r].part = @ + 1, ![r].pc = 1, ![r].st = "send", ![r].sig = "none",
                                ![r].idx = Len(ms[PlanOf(r).ms].txs) + 1]
        ELSE run' = [run EXCEPT ![r].st = "ok", ![r].sig = "none"]

Confirmed(r) ==
    /\ run[r].st = "confirm" /\ run[r].sig = "ok" /\ Advance(r)
    /\ UNCHANGED <<starts, ms, round, paused, now, net, broken>>

\* Mutant of SeenFailed: a status is enough, its error is not looked at
SeenFailedLax(r) ==
    /\ run[r].st = "confirm" /\ run[r].sig = "err" /\ Advance(r)
    /\ UNCHANGED <<starts, ms, round, paused, now, net, broken>>

\* A transaction is seen to have failed; "swallow" catches its own error.
SeenFailed(r) ==
    /\ run[r].st = "confirm" /\ run[r].sig = "err" /\ PlanOf(r).confirm # "swallow"
    /\ Error(r, FALSE)
    /\ UNCHANGED <<starts, ms, round, paused, now, net>>

RpcFault(r) ==
    /\ run[r].st = "confirm" /\ PlanOf(r).confirm = "hard" /\ Error(r, FALSE)
    /\ UNCHANGED <<starts, ms, round, paused, now, net>>

\* The time is up.  squads_execute_tx sends the execution again.
GiveUp(r) ==
    /\ run[r].st = "confirm" /\ run[r].sig # "ok"
    /\ IF PlanOf(r).last = "again" /\ run[r].tries + 1 < ATTEMPTS
       THEN /\ run' = [run EXCEPT ![r].st = "send", ![r].sig = "none", ![r].tries = @ + 1]
            /\ UNCHANGED broken
       ELSE Error(r, FALSE)
    /\ UNCHANGED <<starts, ms, round, paused, now, net>>

Next ==
    \/ Tick \/ Settle
    \/ \E c \in net : Land(c)
    \/ \E r \in Runs, s \in Scripts : Start(r, s) \/ Resume(r, s)
    \/ \E r \in Runs :
        Send(r) \/ Retry(r) \/ Confirmed(r) \/ SeenFailed(r) \/ RpcFault(r) \/ GiveUp(r)

Spec == Init /\ [][Next]_vars
-----------------------------------------------------------------------------
(* Properties. *)

Txs == UNION {{ms[m].txs[i] : i \in 1..Len(ms[m].txs)} : m \in Multisigs}

\* An approval is for what the approving script set out to do, also when two operators
\* read the same index and create a transaction under it.
VoteIsMeant == \A tx \in Txs : \A v \in tx.votes : v[2] \in {tx.effect, "any"}

\* A script that ends well has had its transaction executed.
OkIsExecuted ==
    \A r \in Runs : run[r].st = "ok" =>
        LET txs == ms[PlanOf(r).ms].txs
        IN  run[r].idx <= Len(txs) /\ txs[run[r].idx].st = "executed"

\* The smoke test leaves the program paused only when it failed.
UnpausedUnlessFailed ==
    (\A r \in Runs : Free(r)) /\ ~broken => ~paused

=============================================================================

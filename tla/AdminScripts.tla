---------------------------- MODULE AdminScripts ----------------------------
(***************************************************************************)
(* The administration scripts that sign with a key of their own: they set  *)
(* the program up, create the multisigs and the treasury account, and hand *)
(* the program over to the multisig.  A script sends one transaction after *)
(* another and waits for each; a transaction may land late, fail or never  *)
(* land, and the operator runs scripts again after a failure.              *)
(***************************************************************************)
EXTENDS Naturals, Sequences, FiniteSets

CONSTANTS
    Scripts,    \* the scripts the operator runs
    ATTEMPTS,   \* attempts to create one multisig
    MAXRUNS,    \* scripts started (bound of the model)
    MAXKEYS     \* key pairs generated (bound of the model)

VARIABLES
    admin,      \* config.admin: "none" before the configuration is there
    treasury,   \* config.treasury_usdc_ata: the account's key, 0 for the old one
    fee, degen, \* config.fee_bps and the degen configuration
    accounts,   \* keys of the accounts that are there
    fresh,      \* keys generated so far
    net,        \* transactions sent and not landed
    run,        \* the script that is running
    runs        \* scripts started

vars == <<admin, treasury, fee, degen, accounts, fresh, net, run, runs>>

Idle == [script |-> "none", pc |-> 0, key |-> 0, try |-> 1, st |-> "idle", sig |-> "none",
         made |-> {}]

Init ==
    /\ admin = "none" /\ treasury = 0 /\ fee = "old" /\ degen = FALSE /\ accounts = {}
    /\ fresh = 0 /\ net = {} /\ run = Idle /\ runs = 0

-----------------------------------------------------------------------------
(* The scripts: what they check first, what they send, and whether they    *)
(* wait for the state to change ("state"), for the transaction to be       *)
(* confirmed without an error ("rpc"), or to be confirmed ("status").      *)

init_mainnet_config == [check |-> "absent", steps |-> <<"init">>, wait |-> "state"]

init_devnet == [check |-> "absent", steps |-> <<"mint", "account", "mintTo", "init">>, wait |-> "rpc"]

create_ops_treasury_account == [check |-> "no", steps |-> <<"account">>, wait |-> "state"]

create_squads_multisigs == [check |-> "no", steps |-> <<"multisig", "multisig">>, wait |-> "state"]

migrate_squads_ops == [check |-> "signer", steps |-> <<"treasury", "admin">>, wait |-> "rpc"]

transfer_admin_mainnet == [check |-> "signer", steps |-> <<"admin">>, wait |-> "state"]

upsert_degen_config == [check |-> "signer", steps |-> <<"degen">>, wait |-> "status"]

update_fee == [check |-> "no", steps |-> <<"fee">>, wait |-> "rpc"]

Plan ==
    [init_mainnet_config |-> init_mainnet_config, init_devnet |-> init_devnet,
     create_ops_treasury_account |-> create_ops_treasury_account,
     create_squads_multisigs |-> create_squads_multisigs,
     migrate_squads_ops |-> migrate_squads_ops,
     transfer_admin_mainnet |-> transfer_admin_mainnet,
     upsert_degen_config |-> upsert_degen_config, update_fee |-> update_fee]

Step == Plan[run.script].steps[run.pc]
Creating == {"mint", "account", "multisig"}

-----------------------------------------------------------------------------
(* The program and the cluster. *)

\* The signer of these scripts is the administrator only before the handover.
Accepts(c) ==
    CASE c.op = "init" -> admin = "none"
      [] c.op \in {"treasury", "admin", "fee", "degen"} -> admin = "eoa"
      [] OTHER -> TRUE

Land(c) ==
    LET ok == Accepts(c)
        mine == run.st = "wait" /\ run.sig = "pending" /\ Step = c.op /\ run.key = c.key
    IN  /\ c \in net /\ net' = net \ {c}
        /\ admin' = IF ok /\ c.op = "init" THEN "eoa" ELSE IF ok /\ c.op = "admin" THEN "vault" ELSE admin
        /\ treasury' = IF ok /\ c.op = "treasury" THEN c.key ELSE treasury
        /\ fee' = IF ok /\ c.op = "fee" THEN "new" ELSE fee
        /\ degen' = (degen \/ (ok /\ c.op = "degen"))
        /\ accounts' = IF c.op \in Creating THEN accounts \cup {c.key} ELSE accounts
        /\ run' = IF mine THEN [run EXCEPT !.sig = IF ok THEN "ok" ELSE "err"] ELSE run
        /\ UNCHANGED <<fresh, runs>>

-----------------------------------------------------------------------------
(* A run of a script. *)

Free == run.st \in {"idle", "ok", "failed", "already", "dry"}

\* The checks before anything is sent, in the order of the scripts: the signer is to be
\* the administrator, and what is done already is left alone.
Checked(s) ==
    CASE Plan[s].check = "absent" -> IF admin = "none" THEN "send" ELSE "already"
      [] Plan[s].check = "signer" ->
             IF admin # "eoa" THEN "failed"
             ELSE IF admin = "vault" THEN "already" ELSE "send"
      [] OTHER -> "send"

\* A migration is given the treasury account, one that was created before.
Start(s) ==
    /\ Free /\ runs < MAXRUNS /\ runs' = runs + 1
    /\ \E k \in IF s = "migrate_squads_ops" THEN accounts ELSE {0} :
        run' = [Idle EXCEPT !.script = s, !.pc = 1, !.st = Checked(s), !.key = k]
    /\ UNCHANGED <<admin, treasury, fee, degen, accounts, fresh, net>>

\* DRY_RUN ends a migration after its checks.
DryRun ==
    /\ run.script = "migrate_squads_ops" /\ run.st = "send" /\ run.pc = 1
    /\ run' = [run EXCEPT !.st = "dry"]
    /\ UNCHANGED <<admin, treasury, fee, degen, accounts, fresh, net, runs>>

Fail == run' = [run EXCEPT !.st = "failed", !.sig = "none"]

\* The next transaction or the end.
Advance ==
    LET made == IF Step = "multisig" THEN run.made \cup {run.key} ELSE run.made
    IN  run' = [run EXCEPT !.sig = "none", !.made = made, !.try = 1,
                           !.st = IF run.pc < Len(Plan[run.script].steps) THEN "send" ELSE "ok",
                           !.pc = IF run.pc < Len(Plan[run.script].steps) THEN @ + 1 ELSE @]

\* A migration sends only what is not as it should be, and goes on to the handover
\* only when it has read the new treasury back.
Skip ==
    /\ run.st = "send" /\ run.script = "migrate_squads_ops"
    /\ treasury = run.key /\ (Step = "admin" => admin = "vault")
    /\ Advance
    /\ UNCHANGED <<admin, treasury, fee, degen, accounts, fresh, net, runs>>

\* The treasury read back is another one: a transaction of an earlier run landed late.
VerifyFails ==
    /\ run.st = "send" /\ run.script = "migrate_squads_ops"
    /\ Step = "admin" /\ treasury # run.key /\ Fail
    /\ UNCHANGED <<admin, treasury, fee, degen, accounts, fresh, net, runs>>

\* One transaction at a time.
Sent(key) == {[op |-> Step, key |-> key]}

\* An account to be created gets a new key pair.
Send ==
    LET key == IF Step \in Creating THEN fresh + 1 ELSE run.key
    IN  /\ run.st = "send"
        /\ run.script = "migrate_squads_ops" =>
               IF Step = "admin" THEN admin # "vault" /\ treasury = run.key ELSE treasury # run.key
        /\ Step \in Creating => fresh < MAXKEYS
        /\ fresh' = IF Step \in Creating THEN key ELSE fresh
        /\ IF run.script = "upsert_degen_config" /\ ~Accepts([op |-> Step, key |-> key])
           THEN Fail /\ UNCHANGED net
           ELSE /\ net' = net \cup Sent(key)
                /\ run' = [run EXCEPT !.st = "wait", !.sig = "pending", !.key = key]
        /\ UNCHANGED <<admin, treasury, fee, degen, accounts, runs>>

\* What a script that waits for the state looks for.
Seen ==
    CASE Step = "init" -> admin # "none"
      [] Step = "admin" -> admin = "vault"
      [] OTHER -> run.key \in accounts

Waited ==
    /\ run.st = "wait"
    /\ CASE Plan[run.script].wait = "state" -> Seen
         [] Plan[run.script].wait = "rpc" -> run.sig = "ok"
         [] OTHER -> run.sig \in {"ok", "err"}
    /\ Advance
    /\ UNCHANGED <<admin, treasury, fee, degen, accounts, fresh, net, runs>>

\* A failed transaction is thrown by the client library.
RpcError ==
    /\ run.st = "wait" /\ Plan[run.script].wait = "rpc" /\ run.sig = "err" /\ Fail
    /\ UNCHANGED <<admin, treasury, fee, degen, accounts, fresh, net, runs>>

\* The time is up: a multisig is tried again with a new key pair.
TimeOut ==
    /\ run.st = "wait" /\ run.sig # "ok"
    /\ IF Step = "multisig" /\ run.try < ATTEMPTS
       THEN run' = [run EXCEPT !.st = "send", !.try = @ + 1, !.sig = "none"]
       ELSE Fail
    /\ UNCHANGED <<admin, treasury, fee, degen, accounts, fresh, net, runs>>

Next ==
    \/ \E c \in net : Land(c)
    \/ \E s \in Scripts : Start(s)
    \/ DryRun \/ Skip \/ VerifyFails \/ Send \/ Waited \/ RpcError \/ TimeOut

Spec == Init /\ [][Next]_vars
-----------------------------------------------------------------------------
(* Properties. *)

\* The program is never under the multisig while its fees go to the old treasury, also
\* when a migration is cut off between its two transactions and run again.
TreasuryMovesFirst == admin = "vault" => treasury # 0

\* A script that waits for the state to change ends well only when the accounts it
\* names are there and the handover has happened.
ReportedIsThere ==
    run.st = "ok" =>
        /\ run.made \subseteq accounts
        /\ run.script \in {"transfer_admin_mainnet", "migrate_squads_ops"} => admin = "vault"
        /\ run.script \in {"init_mainnet_config", "init_devnet"} => admin # "none"

=============================================================================

--------------------------- MODULE RoundLifecycle ---------------------------
(***************************************************************************)
(* runtime/admin_config_program.rs: the Config and DegenConfig accounts.   *)
(* runtime/round_lifecycle_program.rs and runtime/vrf_program.rs: opening, *)
(* locking and settling the round, and the administrator's cancellation.   *)
(***************************************************************************)
EXTENDS JackpotState

CONSTANTS
    InitArgs,       \* arguments of init_config: records of all its numbers
    UpdateArgs,     \* arguments of update_config: records of the fields that are Some
    TimeoutArgs     \* fallback_timeout_sec arguments of upsert_degen_config

ASSUME AdminAssumption ==
    /\ InitArgs \subseteq [fee_bps : Nat, ticket_unit : Nat, round_duration_sec : Nat,
                           min_participants : Nat, min_total_tickets : Nat,
                           max_deposit_per_user : Nat]
    /\ \A args \in UpdateArgs : \A field \in DOMAIN args :
           args[field] \in IF field = "paused" THEN BOOLEAN ELSE Nat
    /\ TimeoutArgs \subseteq Nat

AtLeastOne(v) == IF v > 1 THEN v ELSE 1

\* An optional argument: the new value when it is given, the old one otherwise.
OrElse(args, field, old) == IF field \in DOMAIN args THEN args[field] ELSE old

\* The validation that init_config and update_config share.
ValidConfig(c) ==
    /\ c.fee_bps <= BPS_DENOMINATOR
    /\ c.ticket_unit # 0
    /\ c.round_duration_sec # 0

InitConfig(admin, treasury, args) ==
    /\ ~config.exists
    /\ ValidConfig(args)
    /\ config' = [exists |-> TRUE, admin |-> admin, treasury |-> treasury,
                  fee_bps |-> args.fee_bps,
                  ticket_unit |-> args.ticket_unit,
                  round_duration_sec |-> args.round_duration_sec,
                  min_participants |-> AtLeastOne(args.min_participants),
                  min_total_tickets |-> AtLeastOne(args.min_total_tickets),
                  paused |-> FALSE,
                  max_deposit_per_user |-> args.max_deposit_per_user]
    /\ UNCHANGED <<now, degenConfig, round, participant, degenClaim, vault, usdc,
                   received, vrfPending, degenPending, starts>>

Updated(c, args) ==
    [c EXCEPT
        !.fee_bps = OrElse(args, "fee_bps", @),
        !.ticket_unit = OrElse(args, "ticket_unit", @),
        !.round_duration_sec = OrElse(args, "round_duration_sec", @),
        !.min_participants = AtLeastOne(OrElse(args, "min_participants", @)),
        !.min_total_tickets = AtLeastOne(OrElse(args, "min_total_tickets", @)),
        !.paused = OrElse(args, "paused", @),
        !.max_deposit_per_user = OrElse(args, "max_deposit_per_user", @)]

UpdateConfig(admin, args) ==
    /\ config.exists
    /\ config.admin = admin
    /\ ValidConfig(Updated(config, args))
    /\ config' = Updated(config, args)
    /\ UNCHANGED <<now, degenConfig, round, participant, degenClaim, vault, usdc,
                   received, vrfPending, degenPending, starts>>

UpsertDegenConfig(admin, executor, timeout) ==
    /\ config.exists
    /\ config.admin = admin
    /\ executor # NoKey
    /\ degenConfig' = [exists |-> TRUE, executor |-> executor,
                       fallback_timeout_sec |->
                           IF timeout = 0 THEN DEFAULT_DEGEN_FALLBACK_TIMEOUT_SEC
                           ELSE timeout]
    /\ UNCHANGED <<now, config, round, participant, degenClaim, vault, usdc,
                   received, vrfPending, degenPending, starts>>

SetTreasuryUsdcAta(admin, treasury) ==
    /\ config.exists
    /\ config.admin = admin
    /\ config.treasury # treasury
    /\ config' = [config EXCEPT !.treasury = treasury]
    /\ UNCHANGED <<now, degenConfig, round, participant, degenClaim, vault, usdc,
                   received, vrfPending, degenPending, starts>>

TransferAdmin(admin, new_admin) ==
    /\ config.exists
    /\ config.admin = admin
    /\ new_admin \notin {NoKey, config.admin}
    /\ config' = [config EXCEPT !.admin = new_admin]
    /\ UNCHANGED <<now, degenConfig, round, participant, degenClaim, vault, usdc,
                   received, vrfPending, degenPending, starts>>

AdminNext ==
    \E a \in Admins :
        \/ \E t \in Treasuries, args \in InitArgs : InitConfig(a, t, args)
        \/ \E args \in UpdateArgs : UpdateConfig(a, args)
        \/ \E e \in Executors, timeout \in TimeoutArgs : UpsertDegenConfig(a, e, timeout)
        \/ \E t \in Treasuries : SetTreasuryUsdcAta(a, t)
        \/ \E b \in Admins : TransferAdmin(a, b)

-----------------------------------------------------------------------------
\* Mutant of EnoughPlayers: the minimum itself is not enough.
EnoughPlayersStrict ==
    /\ round.participants_count > config.min_participants
    /\ round.total_tickets >= config.min_total_tickets

\* The preconditions that lock_round, request_vrf and vrf_callback each check again,
\* against the configuration of that moment.
EnoughPlayers ==
    /\ round.participants_count >= config.min_participants
    /\ round.total_tickets >= config.min_total_tickets

\* Anyone starts a round whose account is empty: never created, or closed since.  A
\* token account that already exists at the vault's address is taken as it is, with
\* what it holds.
StartRound ==
    /\ config.exists
    /\ ~config.paused
    /\ round.status = "ABSENT"
    /\ starts < MaxStarts
    /\ round' = [NoRound EXCEPT !.status = "OPEN"]
    /\ starts' = starts + 1
    /\ UNCHANGED <<now, config, degenConfig, participant, degenClaim, vault, usdc,
                   received, vrfPending, degenPending>>

LockRound ==
    /\ round.status = "OPEN"
    /\ round.first_deposit_ts # 0
    /\ EnoughPlayers
    /\ now >= round.end_ts
    /\ round' = [round EXCEPT !.status = "LOCKED"]
    /\ UNCHANGED <<now, config, degenConfig, participant, degenClaim, vault, usdc,
                   received, vrfPending, degenPending, starts>>

\* The handler's check, the call to the randomness oracle and the handler's write.
RequestVrf(payer) ==
    /\ round.status = "LOCKED"
    /\ EnoughPlayers
    /\ round' = [round EXCEPT !.status = "VRF_REQUESTED", !.vrf_payer = payer]
    /\ vrfPending' = vrfPending + 1
    /\ UNCHANGED <<now, config, degenConfig, participant, degenClaim, vault, usdc,
                   received, degenPending, starts>>

\* Ticket numbers run from 1 to total_tickets.
WinningTicket(rand, total) == (rand % total) + 1

\* Mutant of CallbackStatusOk: the callback accepts a round that was already settled.
CallbackStatusOkLate == round.status \in {"VRF_REQUESTED", "SETTLED"}

CallbackStatusOk == round.status = "VRF_REQUESTED"

\* The oracle answers one of its outstanding requests; an answer names the round and
\* not the request.
VrfCallback(rand) ==
    /\ vrfPending > 0
    /\ CallbackStatusOk
    /\ EnoughPlayers
    /\ LET winning_ticket == WinningTicket(rand, round.total_tickets)
           found == BitFindPrefix(round.bit, winning_ticket)
       IN  /\ found.ok
           /\ found.index \in Indices
           /\ round' = [round EXCEPT !.status = "SETTLED",
                                     !.winning_ticket = winning_ticket,
                                     !.winner = round.participants[found.index]]
    /\ vrfPending' = vrfPending - 1
    /\ UNCHANGED <<now, config, degenConfig, participant, degenClaim, vault, usdc,
                   received, degenPending, starts>>

\* Mutant of ForceCancellable: every round that is not already cancelled.
ForceCancellableAny == {"OPEN", "LOCKED", "VRF_REQUESTED", "SETTLED", "CLAIMED"}

\* The statuses admin_force_cancel accepts.
ForceCancellable == {"OPEN", "LOCKED", "VRF_REQUESTED"}

AdminForceCancel(admin) ==
    /\ config.admin = admin
    /\ round.status \in ForceCancellable
    /\ round' = [round EXCEPT !.status = "CANCELLED"]
    /\ UNCHANGED <<now, config, degenConfig, participant, degenClaim, vault, usdc,
                   received, vrfPending, degenPending, starts>>

\* The two instructions of vrf_program.rs.
VrfNext ==
    \/ \E p \in Payers : RequestVrf(p)
    \/ \E rand \in 0..(round.total_tickets - 1) : VrfCallback(rand)

LifecycleNext ==
    \/ StartRound
    \/ LockRound
    \/ VrfNext
    \/ \E a \in Admins : AdminForceCancel(a)

=============================================================================

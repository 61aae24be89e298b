------------------------------ MODULE Layouts -------------------------------
(***************************************************************************)
(* The bytes that the program and the code around it exchange.  Accounts: as *)
(* the program lays them out (legacy_layouts.rs) and as the parsers of the *)
(* web client, the crank, the Actions endpoints and the scripts cut them; a *)
(* parser is a sequence of reads, each the field it is meant to be and the *)
(* bytes it takes.  Instructions: as the scripts put their data together by *)
(* hand and as the program takes them apart (instruction_layouts.rs); a byte *)
(* of the data is the argument it belongs to and its place there.          *)
(***************************************************************************)
EXTENDS Naturals, SequencesExt

CONSTANTS
    DISC,           \* bytes of the discriminator (8)
    MAX_PARTICIPANTS

VARIABLES
    parser,     \* the parser that runs
    count,      \* participants_count of the round it is given
    reads       \* reads done so far

accountVars == <<parser, count, reads>>

-----------------------------------------------------------------------------
(* The program: every field with its width, in order. *)

RoundLayout ==
    <<<<"disc", DISC>>, <<"round_id", 8>>, <<"status", 1>>, <<"bump", 1>>, <<"padding", 6>>,
      <<"start_ts", 8>>, <<"end_ts", 8>>, <<"first_deposit_ts", 8>>, <<"vault_usdc_ata", 32>>,
      <<"total_usdc", 8>>, <<"total_tickets", 8>>, <<"participants_count", 2>>,
      <<"padding2", 6>>, <<"randomness", 32>>, <<"winning_ticket", 8>>, <<"winner", 32>>,
      <<"participants", 32 * MAX_PARTICIPANTS>>, <<"bit", 8 * (MAX_PARTICIPANTS + 1)>>,
      <<"vrf_payer", 32>>, <<"vrf_reimbursed", 1>>, <<"degen_mode_status", 1>>,
      <<"reserved", 30>>>>

ParticipantLayout ==
    <<<<"disc", DISC>>, <<"round", 32>>, <<"user", 32>>, <<"index", 2>>, <<"bump", 1>>,
      <<"tickets_total", 8>>, <<"usdc_total", 8>>, <<"deposits_count", 4>>, <<"reserved", 16>>>>

ConfigLayout ==
    <<<<"disc", DISC>>, <<"admin", 32>>, <<"usdc_mint", 32>>, <<"treasury_usdc_ata", 32>>,
      <<"fee_bps", 2>>, <<"ticket_unit", 8>>, <<"round_duration_sec", 4>>,
      <<"min_participants", 2>>, <<"min_total_tickets", 8>>, <<"paused", 1>>, <<"bump", 1>>,
      <<"max_deposit_per_user", 8>>, <<"reserved", 24>>>>

DegenConfigLayout ==
    <<<<"disc", DISC>>, <<"executor", 32>>, <<"fallback_timeout_sec", 4>>, <<"bump", 1>>,
      <<"reserved", 27>>>>

DegenClaimLayout ==
    <<<<"disc", DISC>>, <<"round", 32>>, <<"winner", 32>>, <<"round_id", 8>>, <<"status", 1>>,
      <<"bump", 1>>, <<"selected_candidate_rank", 1>>, <<"fallback_reason", 1>>,
      <<"token_index", 4>>, <<"pool_version", 4>>, <<"candidate_window", 1>>,
      <<"padding0", 7>>, <<"requested_at", 8>>, <<"fulfilled_at", 8>>, <<"claimed_at", 8>>,
      <<"fallback_after_ts", 8>>, <<"payout_raw", 8>>, <<"min_out_raw", 8>>,
      <<"receiver_pre_balance", 8>>, <<"token_mint", 32>>, <<"executor", 32>>,
      <<"receiver_token_ata", 32>>, <<"randomness", 32>>, <<"route_hash", 32>>,
      <<"reserved", 32>>>>

\* The first byte of the k-th field, and the byte after it.
Start(layout, k) == FoldLeft(LAMBDA n, f : n + f[2], 0, SubSeq(layout, 1, k - 1))
End(layout, k) == Start(layout, k) + layout[k][2]

-----------------------------------------------------------------------------
(* The parsers: field, first byte, byte after the last one. *)

Num(f, o, w) == <<<<f, DISC + o, DISC + o + w>>>>
Key(f, o) == Num(f, o, 32)

\* The loop over the participants.
Keys(n) == [i \in 1..n |-> <<"participants", DISC + 168 + (i - 1) * 32, DISC + 168 + i * 32>>]

\* The part that parseRound of the web client and of the crank have in common.
ParseRoundCommon(n) ==
    Num("round_id", 0, 8) \o Num("status", 8, 1) \o Num("bump", 9, 1) \o Num("start_ts", 16, 8)
    \o Num("end_ts", 24, 8) \o Num("first_deposit_ts", 32, 8) \o Key("vault_usdc_ata", 40)
    \o Num("total_usdc", 72, 8) \o Num("total_tickets", 80, 8)
    \o Num("participants_count", 88, 2) \o Key("randomness", 96)
    \o Num("winning_ticket", 128, 8) \o Key("winner", 136) \o Keys(n) \o Key("vrf_payer", 8176)

\* Mutant of webParseRound: the status of the degen mode is read one byte early
webParseRoundEarly(n) ==
    ParseRoundCommon(n) \o Num("vrf_reimbursed", 8208, 1) \o Num("degen_mode_status", 8208, 1)

webParseRound(n) ==
    ParseRoundCommon(n) \o Num("vrf_reimbursed", 8208, 1) \o Num("degen_mode_status", 8209, 1)

crankParseRound(n) == ParseRoundCommon(n)

\* parseRoundMeta and parseRoundVrfPayer of the degen executor
parseRoundMeta ==
    Num("status", 8, 1) \o Num("total_usdc", 72, 8) \o Num("degen_mode_status", 8209, 1)

parseRoundVrfPayer == Key("vrf_payer", 8176) \o Num("vrf_reimbursed", 8208, 1)

\* A parser that advances an offset field by field, the skipped ones included.
Walk(widths) ==
    [k \in 1..Len(widths) |-> <<widths[k][1], DISC + Start(widths, k), DISC + End(widths, k)>>]

webParseParticipant ==
    Walk(<<<<"round", 32>>, <<"user", 32>>, <<"index", 2>>, <<"bump", 1>>,
           <<"tickets_total", 8>>, <<"usdc_total", 8>>, <<"deposits_count", 4>>>>)

crankParseParticipant ==
    Key("round", 0) \o Key("user", 32) \o Num("index", 64, 2) \o Num("bump", 66, 1)
    \o Num("tickets_total", 67, 8) \o Num("usdc_total", 75, 8) \o Num("deposits_count", 83, 4)

parseConfig ==
    Key("admin", 0) \o Key("usdc_mint", 32) \o Key("treasury_usdc_ata", 64)
    \o Num("fee_bps", 96, 2) \o Num("ticket_unit", 98, 8) \o Num("round_duration_sec", 106, 4)
    \o Num("min_participants", 110, 2) \o Num("min_total_tickets", 112, 8)
    \o Num("paused", 120, 1) \o Num("bump", 121, 1) \o Num("max_deposit_per_user", 122, 8)

parseConfigFeeBps == Num("fee_bps", 96, 2)

\* The smoke scripts, which advance an offset, ...
WalkConfig ==
    Walk(<<<<"admin", 32>>, <<"usdc_mint", 32>>, <<"treasury_usdc_ata", 32>>, <<"fee_bps", 2>>,
           <<"ticket_unit", 8>>, <<"round_duration_sec", 4>>, <<"min_participants", 2>>,
           <<"min_total_tickets", 8>>, <<"paused", 1>>, <<"bump", 1>>,
           <<"max_deposit_per_user", 8>>>>)

WalkRound ==
    Walk(<<<<"round_id", 8>>, <<"status", 1>>, <<"bump", 1>>, <<"padding", 6>>,
           <<"start_ts", 8>>, <<"end_ts", 8>>, <<"first_deposit_ts", 8>>,
           <<"vault_usdc_ata", 32>>, <<"total_usdc", 8>>, <<"total_tickets", 8>>,
           <<"participants_count", 2>>>>)

deployDecodeConfig == WalkConfig

deployDecodeDegenConfig ==
    Walk(<<<<"executor", 32>>, <<"fallback_timeout_sec", 4>>, <<"bump", 1>>>>)

deployDecodeRound == WalkRound

cancelledDecodeRound == WalkRound

classicDecodeConfig == WalkConfig

classicDecodeRound == WalkRound \o Key("winner", 136) \o Num("winning_ticket", 128, 8)

multiDecodeConfig == WalkConfig

multiDecodeRound == WalkRound \o Key("winner", 136) \o Num("winning_ticket", 128, 8)

\* ... and the ones that read at fixed places of the whole account.
At(f, o, w) == <<<<f, o, o + w>>>>

degenDecodeConfig == At("treasury_usdc_ata", 72, 32)

\* The totals are read at their offsets in the body, as if there were no discriminator.
degenDecodeRound ==
    At("round_id", 8, 8) \o At("status", 16, 1) \o At("end_ts", 32, 8)
    \o At("total_usdc", 72, 8) \o At("total_tickets", 80, 8)
    \o At("participants_count", 88, 2) \o At("winning_ticket", 136, 8) \o At("winner", 144, 32)
    \o At("degen_mode_status", 8217, 1) \o At("vrf_payer", 8184, 32)

degenDecodeDegenClaim ==
    At("round", 8, 32) \o At("winner", 40, 32) \o At("round_id", 72, 8) \o At("status", 80, 1)
    \o At("fallback_reason", 83, 1) \o At("fallback_after_ts", 124, 8)
    \o At("payout_raw", 132, 8) \o At("claimed_at", 116, 8) \o At("randomness", 252, 32)

\* The loop of auto_claim_all.ts over the fetched accounts.
autoClaimAllRound ==
    Num("status", 8, 1) \o Num("total_usdc", 72, 8) \o Key("winner", 136)
    \o Key("vrf_payer", 8176)

Reads(p, n) ==
    CASE p = "webParseRound" -> webParseRound(n)
      [] p = "crankParseRound" -> crankParseRound(n)
      [] p = "parseRoundMeta" -> parseRoundMeta
      [] p = "parseRoundVrfPayer" -> parseRoundVrfPayer
      [] p = "webParseParticipant" -> webParseParticipant
      [] p = "crankParseParticipant" -> crankParseParticipant
      [] p = "parseConfig" -> parseConfig
      [] p = "parseConfigFeeBps" -> parseConfigFeeBps
      [] p = "deployDecodeConfig" -> deployDecodeConfig
      [] p = "deployDecodeDegenConfig" -> deployDecodeDegenConfig
      [] p = "deployDecodeRound" -> deployDecodeRound
      [] p = "cancelledDecodeRound" -> cancelledDecodeRound
      [] p = "classicDecodeConfig" -> classicDecodeConfig
      [] p = "classicDecodeRound" -> classicDecodeRound
      [] p = "multiDecodeConfig" -> multiDecodeConfig
      [] p = "multiDecodeRound" -> multiDecodeRound
      [] p = "degenDecodeConfig" -> degenDecodeConfig
      [] p = "degenDecodeRound" -> degenDecodeRound
      [] p = "degenDecodeDegenClaim" -> degenDecodeDegenClaim
      [] p = "autoClaimAllRound" -> autoClaimAllRound

LayoutOf(p) ==
    CASE p \in {"webParseParticipant", "crankParseParticipant"} -> ParticipantLayout
      [] p \in {"parseConfig", "parseConfigFeeBps", "deployDecodeConfig",
                "classicDecodeConfig", "multiDecodeConfig", "degenDecodeConfig"} -> ConfigLayout
      [] p = "deployDecodeDegenConfig" -> DegenConfigLayout
      [] p = "degenDecodeDegenClaim" -> DegenClaimLayout
      [] OTHER -> RoundLayout

Parsers ==
    {"webParseRound", "crankParseRound", "parseRoundMeta", "parseRoundVrfPayer",
     "webParseParticipant", "crankParseParticipant", "parseConfig", "parseConfigFeeBps",
     "deployDecodeConfig", "deployDecodeDegenConfig", "deployDecodeRound",
     "cancelledDecodeRound", "classicDecodeConfig", "classicDecodeRound",
     "multiDecodeConfig", "multiDecodeRound", "degenDecodeConfig", "degenDecodeRound",
     "degenDecodeDegenClaim", "autoClaimAllRound"}

AccountInit == parser \in Parsers /\ count \in {0, 1, 2, MAX_PARTICIPANTS} /\ reads = 0

Read == reads < Len(Reads(parser, count)) /\ reads' = reads + 1 /\ UNCHANGED <<parser, count>>

AccountNext == Read

\* The reads that miss their field: the degen smoke script takes the totals of a round, and
\* the number of its participants, where they would be without the discriminator.  It
\* decides nothing by them.
Misread ==
    /\ parser = "degenDecodeRound"
    /\ Reads(parser, count)[reads][1] \in {"total_usdc", "total_tickets", "participants_count"}

\* Every other read of every parser takes exactly the bytes of the field it is meant to be,
\* and the reads of the participants stay in their array, up to the largest count.
ReadsItsField ==
    reads > 0 /\ ~Misread =>
        LET layout == LayoutOf(parser)
            read == Reads(parser, count)[reads]
            k == CHOOSE j \in 1..Len(layout) : layout[j][1] = read[1]
        IN  IF read[1] = "participants"
            THEN /\ read[2] >= Start(layout, k) /\ read[3] <= End(layout, k)
                 /\ (read[2] - Start(layout, k)) % 32 = 0
            ELSE read[2] = Start(layout, k) /\ read[3] = End(layout, k)

-----------------------------------------------------------------------------
(* Instructions. *)

VARIABLES
    sender, ix,     \* the script and the instruction
    data,           \* the buffer
    written         \* writes done

Zero == <<"zero", 0>>

(* The program: the arguments it reads, with their widths, in order. *)

InitConfigArgs ==
    <<<<"disc", 8>>, <<"usdc_mint", 32>>, <<"treasury_usdc_ata", 32>>, <<"fee_bps", 2>>,
      <<"ticket_unit", 8>>, <<"round_duration_sec", 4>>, <<"min_participants", 2>>,
      <<"min_total_tickets", 8>>, <<"max_deposit_per_user", 8>>>>

UpsertDegenConfigArgs == <<<<"disc", 8>>, <<"executor", 32>>, <<"fallback_timeout_sec", 4>>>>

DepositAnyArgs ==
    <<<<"disc", 8>>, <<"round_id", 8>>, <<"usdc_balance_before", 8>>, <<"min_out", 8>>>>

RoundIdArgs == <<<<"disc", 8>>, <<"round_id", 8>>>>

RoundIdU8Args == <<<<"disc", 8>>, <<"round_id", 8>>, <<"value", 1>>>>

VrfCallbackArgs == <<<<"disc", 8>>, <<"randomness", 32>>>>

DegenVrfCallbackArgs == <<<<"disc", 8>>, <<"randomness", 32>>>>

Parsed(i) ==
    CASE i = "init_config" -> InitConfigArgs
      [] i = "upsert_degen_config" -> UpsertDegenConfigArgs
      [] i = "deposit_any" -> DepositAnyArgs
      [] i = "round_id" -> RoundIdArgs
      [] i = "round_id_u8" -> RoundIdU8Args
      [] i = "vrf_callback" -> VrfCallbackArgs
      [] i = "degen_vrf_callback" -> DegenVrfCallbackArgs

Width(args) == FoldLeft(LAMBDA n, f : n + f[2], 0, args)

(* The scripts: the size they allocate, and every write with its offset. *)

\* Writes one after the other, the offset advanced by each width.
Advancing(size, args) ==
    [size |-> size,
     writes |-> [k \in 1..Len(args) |->
                    <<args[k][1], Width(SubSeq(args, 1, k - 1)), args[k][2]>>]]

\* encodeInitConfig is the same in every script
encodeInitConfig ==
    Advancing(8 + 32 + 32 + 2 + 8 + 4 + 2 + 8 + 8,
        <<<<"disc", 8>>, <<"usdc_mint", 32>>, <<"treasury_usdc_ata", 32>>, <<"fee_bps", 2>>,
          <<"ticket_unit", 8>>, <<"round_duration_sec", 4>>, <<"min_participants", 2>>,
          <<"min_total_tickets", 8>>, <<"max_deposit_per_user", 8>>>>)

encodeUpsertDegenConfig ==
    Advancing(8 + 32 + 4, <<<<"disc", 8>>, <<"executor", 32>>, <<"fallback_timeout_sec", 4>>>>)

encodeRoundIdIx == [size |-> 16, writes |-> <<<<"disc", 0, 8>>, <<"round_id", 8, 8>>>>]

encodeDepositAny ==
    Advancing(8 + 8 + 8 + 8, <<<<"disc", 8>>, <<"round_id", 8>>, <<"usdc_balance_before", 8>>,
                               <<"min_out", 8>>>>)

encodeVrfCallback == [size |-> 8 + 32, writes |-> <<<<"disc", 0, 8>>, <<"randomness", 8, 32>>>>]

\* The encoders of each script.
deployEncoders ==
    [init_config |-> encodeInitConfig, upsert_degen_config |-> encodeUpsertDegenConfig,
     round_id |-> encodeRoundIdIx]

cancelledEncoders ==
    [init_config |-> encodeInitConfig, round_id |-> encodeRoundIdIx,
     deposit_any |-> encodeDepositAny]

classicEncoders ==
    [init_config |-> encodeInitConfig, round_id |-> encodeRoundIdIx,
     deposit_any |-> encodeDepositAny, vrf_callback |-> encodeVrfCallback]

multiEncoders ==
    [init_config |-> encodeInitConfig, round_id |-> encodeRoundIdIx,
     deposit_any |-> encodeDepositAny, vrf_callback |-> encodeVrfCallback]

\* The degen script writes at fixed offsets.
degenEncoders ==
    [init_config |-> encodeInitConfig,
     upsert_degen_config |->
        [size |-> 44, writes |-> <<<<"disc", 0, 8>>, <<"executor", 8, 32>>,
                                   <<"fallback_timeout_sec", 40, 4>>>>],
     round_id |-> [size |-> 16, writes |-> <<<<"disc", 0, 8>>, <<"round_id", 8, 8>>>>],
     round_id_u8 |-> [size |-> 17, writes |-> <<<<"disc", 0, 8>>, <<"round_id", 8, 8>>,
                                                <<"value", 16, 1>>>>],
     deposit_any |-> [size |-> 32, writes |-> <<<<"disc", 0, 8>>, <<"round_id", 8, 8>>,
                                                <<"usdc_balance_before", 16, 8>>,
                                                <<"min_out", 24, 8>>>>],
     vrf_callback |-> [size |-> 40, writes |-> <<<<"disc", 0, 8>>, <<"randomness", 8, 32>>>>],
     degen_vrf_callback |->
        [size |-> 40, writes |-> <<<<"disc", 0, 8>>, <<"randomness", 8, 32>>>>]]

\* debug_auto_claim_direct.ts builds auto_claim_degen_fallback itself.
debugEncoders ==
    [round_id_u8 |-> [size |-> 17, writes |-> <<<<"disc", 0, 8>>, <<"round_id", 8, 8>>,
                                                <<"value", 16, 1>>>>]]

Encoders(s) ==
    CASE s = "deploy" -> deployEncoders
      [] s = "cancelled" -> cancelledEncoders
      [] s = "classic" -> classicEncoders
      [] s = "multi" -> multiEncoders
      [] s = "degen" -> degenEncoders
      [] s = "debug" -> debugEncoders

Encoder == Encoders(sender)[ix]

Bytes(size) == 0..(size - 1)

InstructionInit ==
    /\ sender \in {"deploy", "cancelled", "classic", "multi", "degen", "debug"}
    /\ ix \in DOMAIN Encoders(sender)
    /\ data = [b \in Bytes(Encoder.size) |-> Zero]
    /\ written = 0

\* One write of the encoder.
Write ==
    /\ written < Len(Encoder.writes)
    /\ LET w == Encoder.writes[written + 1]
       IN  data' = [b \in DOMAIN data |->
                        IF b >= w[2] /\ b < w[2] + w[3] THEN <<w[1], b - w[2]>> ELSE data[b]]
    /\ written' = written + 1
    /\ UNCHANGED <<sender, ix>>

InstructionNext == Write

\* What the program reads as an argument is what the script wrote as that argument, byte
\* for byte, and the data is as long as the program demands.
ProgramReadsArguments ==
    written = Len(Encoder.writes) =>
        LET args == Parsed(ix)
        IN  /\ Encoder.size >= Width(args)
            /\ \A k \in 1..Len(args) : \A b \in Bytes(args[k][2]) :
                   data[Width(SubSeq(args, 1, k - 1)) + b] = <<args[k][1], b>>

=============================================================================

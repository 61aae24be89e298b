---------------------------- MODULE DepositMany ----------------------------
(***************************************************************************)
(* hooks/useJackpot.ts: depositMany, the batch deposit of the web client.  *)
(* One call of it, awaited reading by awaited reading, beside the chain on  *)
(* which the transactions it sends land, fail or wait, the crank that opens *)
(* and locks rounds, and payments of other origin on the same USDC account. *)
(***************************************************************************)
EXTENDS Integers, Sequences, FiniteSets, FiniteSetsExt, SequencesExt

CONSTANTS
    Tokens,                  \* the mints other than USDC
    Heavy,                   \* tokens whose swap leaves no room for anything else
    Oversized,               \* tokens whose swap does not fit a transaction at all
    ROOM,                    \* how many ordinary swaps fit a transaction
    Legs,                    \* the legs a user may ask for: a mint and an amount in display units
    SCALE,                   \* display units that make one raw unit
    Sources,                 \* the user's USDC accounts other than the ATA
    Holdings,                \* what an account may hold to begin with
    MAX_MULTI_DEPOSIT_LEGS,
    MAX_RETRIES,             \* polls for a round that does not exist yet
    ROUNDS,                  \* rounds 1..ROUNDS; the client follows round 2
    SPENT, RECEIVED,         \* bounds on outside payments from and to the ATA
    READ_FAILS               \* bound on balance readings that fail

VARIABLES
    chain,      \* the ATA, the other accounts, the rounds, and what was deposited and meant
    pc,         \* where the call is
    legs,       \* what the user asked for
    roundId,    \* the round the client follows
    plan,       \* the call's own variables
    work,       \* the chunks sendDepositChunk still has to send, first one first
    net,        \* the transactions sent
    outside     \* outside payments and failed readings so far

vars == <<chain, pc, legs, roundId, plan, work, net, outside>>

USDC == "usdc"
Raw(amount) == amount \div SCALE
Total(f) == FoldSet(LAMBDA a, sum : sum + f[a], 0, DOMAIN f)

NoPlan == [attempt |-> 0, scan |-> 1, effective |-> 0, sawOpen |-> {}, rawUsdcBalance |-> 0,
           usdcBalanceBefore |-> 0, moved |-> [s \in Sources |-> 0],
           minOut |-> [t \in Tokens |-> 0]]

Init ==
    /\ \E a \in Holdings, o \in [Sources -> Holdings], cur \in 1..ROUNDS, s \in {"open", "locked"} :
           chain = [ata |-> a, source |-> o, deposited |-> 0, meant |-> 0,
                    round |-> [r \in 1..ROUNDS |-> IF r < cur THEN "locked"
                                                   ELSE IF r = cur THEN s ELSE "none"]]
    /\ pc = "idle"
    /\ legs = <<>>
    /\ roundId = 2
    /\ plan = NoPlan
    /\ work = <<>>
    /\ net = <<>>
    /\ outside = [spent |-> 0, received |-> 0, failed |-> 0]

-----------------------------------------------------------------------------
(* The call. *)

\* What the checks before the first await accept: some legs, not too many, every
\* amount positive and every mint once.
Acceptable(l) ==
    /\ Len(l) \in 1..MAX_MULTI_DEPOSIT_LEGS
    /\ \A i \in DOMAIN l : l[i].amount > 0
    /\ \A i, j \in DOMAIN l : i # j => l[i].mint # l[j].mint

\* A reading of the ATA: its balance, or 0 when the reading fails.
BalanceReadings == {chain.ata} \cup (IF outside.failed < READ_FAILS THEN {0} ELSE {})

\* A reading that failed is counted; one that read 0 from an empty account did not fail.
CountFailure(value) ==
    outside' = [outside EXCEPT !.failed = @ + (IF value = chain.ata THEN 0 ELSE 1)]

\* The user presses the button. A call that the checks refuse does nothing; one they
\* accept reads the ATA's balance first.
Begin ==
    /\ pc = "idle"
    /\ \E n \in 0..(MAX_MULTI_DEPOSIT_LEGS + 1) :
           \E l \in [1..n -> Legs], value \in BalanceReadings :
               /\ legs' = l
               /\ pc' = IF Acceptable(l) THEN "wait" ELSE "refused"
               /\ plan' = IF Acceptable(l) THEN [plan EXCEPT !.rawUsdcBalance = value] ELSE plan
               /\ IF Acceptable(l) THEN CountFailure(value) ELSE UNCHANGED outside
    /\ UNCHANGED <<chain, roundId, work, net>>

\* The round the client follows is read, and MAX_RETRIES times more while it does not
\* exist; then the rounds near it are searched.
WaitForRound ==
    /\ pc = "wait"
    /\ IF chain.round[roundId] # "none"
       THEN pc' = "check" /\ plan' = [plan EXCEPT !.effective = roundId]
       ELSE IF plan.attempt < MAX_RETRIES
       THEN pc' = pc /\ plan' = [plan EXCEPT !.attempt = @ + 1]
       ELSE pc' = "scan" /\ plan' = plan
    /\ UNCHANGED <<chain, legs, roundId, work, net, outside>>

ScanIds == <<roundId - 1, roundId + 1, roundId - 2, roundId + 2, roundId + 3>>

\* One step of the search: the first round found open is the one used and followed; when
\* there is none the call fails.
ScanNearby ==
    /\ pc = "scan"
    /\ IF plan.scan > Len(ScanIds)
       THEN pc' = "failed" /\ UNCHANGED <<plan, roundId>>
       ELSE LET id == ScanIds[plan.scan]
            IN  IF id \in 1..ROUNDS /\ chain.round[id] = "open"
                THEN /\ pc' = "check"
                     /\ plan' = [plan EXCEPT !.effective = id]
                     /\ roundId' = id
                ELSE /\ plan' = [plan EXCEPT !.scan = @ + 1]
                     /\ UNCHANGED <<pc, roundId>>
    /\ UNCHANGED <<chain, legs, work, net, outside>>

\* The round is read again and has to be open.
CheckOpen ==
    /\ pc = "check"
    /\ pc' = IF chain.round[plan.effective] = "open" THEN "topup" ELSE "failed"
    /\ plan' = IF chain.round[plan.effective] = "open"
               THEN [plan EXCEPT !.sawOpen = @ \cup {plan.effective}] ELSE plan
    /\ UNCHANGED <<chain, legs, roundId, work, net, outside>>

SwapLegs == SelectSeq(legs, LAMBDA l : l.mint # USDC)
UsdcLegs == SelectSeq(legs, LAMBDA l : l.mint = USDC)

\* directUsdcRaw: what is to be deposited from the USDC the user holds.
DirectUsdc == FoldSeq(LAMBDA l, sum : sum + Raw(l.amount), 0, UsdcLegs)

\* How much is moved from each other account, the richest first, until the ATA holds
\* the direct amount: as functions, since equal balances may be taken in any order.
TopUps(need) ==
    {mv \in [Sources -> 0..need] :
        /\ \A s \in Sources : mv[s] <= chain.source[s]
        /\ Total(mv) = IF Total(chain.source) < need THEN Total(chain.source) ELSE need
        /\ \A s, t \in Sources : chain.source[s] > chain.source[t] /\ mv[t] > 0
               => mv[s] = chain.source[s]}

\* Without a USDC leg the balance read at the start is the one before the deposit. With
\* one the accounts are read now, the missing amount is moved to the ATA in the first
\* transaction, and the balance before is what remains without the direct amount.
TopUp ==
    /\ pc = "topup"
    /\ IF UsdcLegs = <<>>
       THEN /\ plan' = [plan EXCEPT !.usdcBalanceBefore = plan.rawUsdcBalance]
            /\ pc' = "quote"
       ELSE LET need == IF chain.ata < DirectUsdc THEN DirectUsdc - chain.ata ELSE 0
            IN  IF DirectUsdc = 0 \/ Total(chain.source) < need
                THEN pc' = "failed" /\ plan' = plan
                ELSE \E mv \in TopUps(need) :
                         /\ plan' = [plan EXCEPT
                                !.moved = mv,
                                !.usdcBalanceBefore = chain.ata + Total(mv) - DirectUsdc]
                         /\ pc' = "quote"
    /\ UNCHANGED <<chain, legs, roundId, work, net, outside>>

\* Every swap leg is quoted, all at once; one amount too small fails the call. What the
\* swap is to bring in at least is the threshold of its quote.
Quote ==
    /\ pc = "quote"
    /\ IF \E i \in DOMAIN SwapLegs : Raw(SwapLegs[i].amount) = 0
       THEN pc' = "failed" /\ UNCHANGED <<plan, work>>
       ELSE /\ plan' = [plan EXCEPT !.minOut = [t \in Tokens |->
                   FoldSeq(LAMBDA l, sum : IF l.mint = t THEN Raw(l.amount) ELSE sum, 0, SwapLegs)]]
            /\ work' = <<[swaps |-> [i \in DOMAIN SwapLegs |-> SwapLegs[i].mint],
                          includeDirectUsdc |-> TRUE]>>
            /\ pc' = "send"
    /\ UNCHANGED <<chain, legs, roundId, net, outside>>

-----------------------------------------------------------------------------
(* sendDepositChunk. The recursion is the sequence of chunks still to be sent. *)

chunk == Head(work)
ChunkDirect == IF chunk.includeDirectUsdc THEN DirectUsdc ELSE 0
ChunkMinOutTotal == ChunkDirect + FoldSeq(LAMBDA t, sum : sum + plan.minOut[t], 0, chunk.swaps)

\* Encoding the transaction succeeds: its swaps fit it, and so do the transfers that go
\* with a direct amount.
Fits ==
    LET mints == ToSet(chunk.swaps)
    IN  /\ mints \cap Oversized = {}
        /\ mints \cap Heavy # {} => Len(chunk.swaps) = 1 /\ ChunkDirect = 0
        /\ Len(chunk.swaps) + (IF ChunkDirect > 0 THEN 1 ELSE 0) <= ROOM \/ chunk.swaps = <<>>

Transaction(before) ==
    [swaps |-> ToSet(chunk.swaps), direct |-> ChunkDirect, before |-> before,
     minOut |-> ChunkMinOutTotal, round |-> plan.effective, state |-> "sent",
     moved |-> IF chunk.includeDirectUsdc THEN plan.moved ELSE [s \in Sources |-> 0]]

\* Mutant of BalanceBefore: a later chunk uses the balance of the first one.
BalanceBeforeKept == {plan.usdcBalanceBefore}

\* The chunk with the direct amount is given the balance computed before; any other one
\* reads the ATA, whatever has become of the chunk sent just before it.
BalanceBefore == IF chunk.includeDirectUsdc THEN {plan.usdcBalanceBefore} ELSE BalanceReadings

\* The chunk is sent and its confirmation is not awaited.
SendChunk ==
    /\ pc = "send" /\ work # <<>> /\ Fits
    /\ \E before \in BalanceBefore :
           /\ net' = Append(net, Transaction(before))
           /\ IF chunk.includeDirectUsdc THEN UNCHANGED outside ELSE CountFailure(before)
    /\ work' = Tail(work)
    /\ UNCHANGED <<chain, pc, legs, roundId, plan>>

\* What a chunk that does not fit is divided into: the direct amount and the only swap,
\* or the first and the second half of the swaps.
Halves(c) ==
    IF Len(c.swaps) = 1
    THEN <<[swaps |-> <<>>, includeDirectUsdc |-> TRUE],
           [swaps |-> c.swaps, includeDirectUsdc |-> FALSE]>>
    ELSE LET mid == (Len(c.swaps) + 1) \div 2
         IN  <<[c EXCEPT !.swaps = SubSeq(@, 1, mid)],
               [swaps |-> SubSeq(c.swaps, mid + 1, Len(c.swaps)), includeDirectUsdc |-> FALSE]>>

\* A chunk that does not fit is divided, and fails the call when it cannot be.
SplitChunk ==
    /\ pc = "send" /\ work # <<>> /\ ~Fits
    /\ IF Len(chunk.swaps) > 1 \/ (Len(chunk.swaps) = 1 /\ ChunkDirect > 0)
       THEN work' = Halves(chunk) \o Tail(work) /\ pc' = pc
       ELSE work' = <<>> /\ pc' = "failed"
    /\ UNCHANGED <<chain, legs, roundId, plan, net, outside>>

\* The wallet refuses a transaction, or a request of the call fails: the error is shown
\* and what was sent stays sent.
RequestFails ==
    /\ pc \in {"wait", "scan", "check", "topup", "quote", "send"}
    /\ pc' = "failed"
    /\ work' = <<>>
    /\ UNCHANGED <<chain, legs, roundId, plan, net, outside>>

\* Every chunk was sent: the call reports the batch complete and polls the round.
Complete ==
    /\ pc = "send" /\ work = <<>>
    /\ pc' = "complete"
    /\ UNCHANGED <<chain, legs, roundId, plan, work, net, outside>>

-----------------------------------------------------------------------------
(* The chain. *)

\* What the transaction brings to the ATA before deposit_any, with a surplus over the
\* thresholds of its swaps.
Inputs(tx, surplus) ==
    Total(tx.moved) + surplus + FoldSet(LAMBDA t, sum : sum + plan.minOut[t], 0, tx.swaps)

\* deposit_any accepts the transaction: the round is open, and the ATA holds at least
\* the threshold beyond the balance the transaction names.
Accepted(tx, surplus) ==
    /\ \A s \in Sources : tx.moved[s] <= chain.source[s]
    /\ chain.round[tx.round] = "open"
    /\ chain.ata + Inputs(tx, surplus) >= tx.before
    /\ chain.ata + Inputs(tx, surplus) - tx.before >= tx.minOut

\* The transaction lands as a whole: everything beyond the named balance is deposited.
Land(i) ==
    /\ net[i].state = "sent"
    /\ \E surplus \in 0..(IF net[i].swaps = {} THEN 0 ELSE 1) :
           LET tx == net[i]
           IN  /\ Accepted(tx, surplus)
               /\ chain' = [chain EXCEPT
                      !.ata = tx.before,
                      !.source = [s \in Sources |-> @[s] - tx.moved[s]],
                      !.deposited = @ + (chain.ata + Inputs(tx, surplus) - tx.before),
                      !.meant = @ + tx.direct + Inputs(tx, surplus) - Total(tx.moved)]
               /\ net' = [net EXCEPT ![i].state = "landed"]
    /\ UNCHANGED <<pc, legs, roundId, plan, work, outside>>

\* The transaction is refused, and names the reason when it is the balance.
Refuse(i) ==
    /\ net[i].state = "sent"
    /\ ~Accepted(net[i], 0)
    /\ net' = [net EXCEPT ![i].state =
           IF chain.round[net[i].round] = "open" THEN "refused" ELSE "late"]
    /\ UNCHANGED <<chain, pc, legs, roundId, plan, work, outside>>

\* It expires without being executed.
Expire(i) ==
    /\ net[i].state = "sent"
    /\ net' = [net EXCEPT ![i].state = "expired"]
    /\ UNCHANGED <<chain, pc, legs, roundId, plan, work, outside>>

\* The crank locks the open round, or opens the next one.
MoveRounds ==
    /\ \E r \in 1..ROUNDS :
           \/ chain.round[r] = "open" /\ chain' = [chain EXCEPT !.round[r] = "locked"]
           \/ /\ chain.round[r] = "none" /\ (r = 1 \/ chain.round[r - 1] = "locked")
              /\ chain' = [chain EXCEPT !.round[r] = "open"]
    /\ UNCHANGED <<pc, legs, roundId, plan, work, net, outside>>

\* The ATA pays or receives one unit for another reason.
OtherPayment ==
    /\ \/ /\ outside.spent < SPENT /\ chain.ata > 0
          /\ chain' = [chain EXCEPT !.ata = @ - 1]
          /\ outside' = [outside EXCEPT !.spent = @ + 1]
       \/ /\ outside.received < RECEIVED
          /\ chain' = [chain EXCEPT !.ata = @ + 1]
          /\ outside' = [outside EXCEPT !.received = @ + 1]
    /\ UNCHANGED <<pc, legs, roundId, plan, work, net>>

Rest == pc \in {"refused", "failed", "complete"} /\ UNCHANGED vars

Call == Begin \/ WaitForRound \/ ScanNearby \/ CheckOpen \/ TopUp \/ Quote
        \/ SendChunk \/ SplitChunk \/ Complete

Next ==
    \/ Call \/ RequestFails
    \/ \E i \in DOMAIN net : Land(i) \/ Refuse(i) \/ Expire(i)
    \/ MoveRounds \/ OtherPayment \/ Rest

Spec == Init /\ [][Next]_vars

-----------------------------------------------------------------------------
(* Properties. *)

\* The batch never deposits more than the user's own legs bring in: the chosen USDC and
\* what the swaps that landed returned (useJackpot.ts:1020, 1095).
NeverMoreThanMeant == chain.deposited <= chain.meant

\* However the batch is divided, every leg is in at most one transaction, the direct
\* amount too (useJackpot.ts:1151, 1163).
EachLegOnce ==
    \A i, j \in DOMAIN net : i # j =>
        /\ net[i].swaps \cap net[j].swaps = {}
        /\ net[i].direct = 0 \/ net[j].direct = 0

\* A batch reported complete has sent every leg (useJackpot.ts:1169).
CompleteIsWhole ==
    pc = "complete" =>
        /\ UNION {net[i].swaps : i \in DOMAIN net} = {SwapLegs[i].mint : i \in DOMAIN SwapLegs}
        /\ DirectUsdc > 0 => \E i \in DOMAIN net : net[i].direct = DirectUsdc

\* A transaction names only a round that this call has seen open (useJackpot.ts:939).
OnlyRoundsSeenOpen == \A i \in DOMAIN net : net[i].round \in plan.sawOpen

\* Every call that was accepted ends with its result or an error (useJackpot.ts:1233).
CallEnds == (pc = "wait") ~> (pc \in {"failed", "complete"})
=============================================================================

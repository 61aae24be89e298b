---------------------------- MODULE CrankRecovery ----------------------------
(***************************************************************************)
(* Two consequences of CrankInv.  Every step keeps the contract of every   *)
(* round (ChainKeepsContracts).  And the crank, which keeps its list of    *)
(* background rounds in memory only, loses no round that matters from it:  *)
(* RecoveryInv says what is in the list and what is not while the process  *)
(* is up, and what the next process will find when it is down.  It is      *)
(* inductive together with CrankInv; the lemmas follow the actions, and    *)
(* StepRecovers puts them together.                                        *)
(***************************************************************************)
EXTENDS CrankProofs

\* A leaf that names no prover is given to SMT, for so many seconds at most.
USE SMTT(60)

-----------------------------------------------------------------------------
(* The contract of every round. *)

\* The contract adds up what the round counts; CrankTheorems shows it.
ContractTotals == \A i \in RoundIds : Contract(i)!Total = Cardinality(chain[i].staked)

CountdownOf(r) == IF ~r.ends THEN "none" ELSE IF r.left > 0 THEN "running" ELSE "over"
StakesOf(r) == [u \in Users |-> IF u \in r.staked THEN 1 ELSE 0]
EscrowOf(r) == IF r.status = "CLAIMED" THEN 0 ELSE Cardinality(r.staked)

\* A round that changes only its status, by one of the steps of the contract's life cycle.
LEMMA StatusStep ==
    ASSUME CrankInv, NEW i \in RoundIds, NEW s,
           chain'[i] = InStatus(chain[i], s),
           \/ chain[i].status = "ABSENT" /\ s = "OPEN"
           \/ chain[i].status = "OPEN" /\ s \in {"LOCKED", "VRF_REQUESTED"}
              /\ CountdownOf(chain[i]) # "running"
           \/ chain[i].status = "LOCKED" /\ s = "VRF_REQUESTED"
           \/ chain[i].status = "VRF_REQUESTED" /\ s = "SETTLED"
           \/ chain[i].status \in {"OPEN", "LOCKED", "VRF_REQUESTED"} /\ s = "CANCELLED"
    PROVE  Contract(i)!ContractNext
PROOF
<1> DEFINE r == chain[i]
           q == chain'[i]
<1>1. r \in Rounds /\ (r.status = "ABSENT" => ~r.ends)
  BY Zenon DEF CrankInv, CrankTypes, ChainTypeOK, ChainInv
<1>2. /\ q.status = s /\ q.ends = r.ends /\ q.left = r.left /\ q.staked = r.staked
      /\ r.status # "CLAIMED" /\ s # "CLAIMED"
  BY <1>1 DEF InStatus, Rounds
<1> HIDE DEF r, q
<1>3. CountdownOf(q) = CountdownOf(r) /\ StakesOf(q) = StakesOf(r) /\ EscrowOf(q) = EscrowOf(r)
  BY <1>2, Zenon DEF CountdownOf, StakesOf, EscrowOf
<1>4. CASE r.status = "ABSENT"
  <2>1. Contract(i)!Start
    BY <1>1, <1>2, <1>3, <1>4, Zenon DEF Contract!Start, CountdownOf, StakesOf, EscrowOf, r, q
  <2>2. QED
    BY <2>1 DEF Contract!ContractNext
<1>5. CASE r.status = "OPEN" /\ s = "LOCKED"
  <2>1. Contract(i)!Lock
    BY <1>2, <1>3, <1>5, Zenon DEF Contract!Lock, CountdownOf, StakesOf, EscrowOf, r, q
  <2>2. QED
    BY <2>1, Zenon DEF Contract!ContractNext
<1>6. CASE r.status = "OPEN" /\ s = "VRF_REQUESTED"
  <2>1. Contract(i)!LockAndRequest
    BY <1>2, <1>3, <1>6, Zenon DEF Contract!LockAndRequest, CountdownOf, StakesOf, EscrowOf, r, q
  <2>2. QED
    BY <2>1, Zenon DEF Contract!ContractNext
<1>7. CASE r.status = "LOCKED" /\ s = "VRF_REQUESTED"
  <2>1. Contract(i)!RequestRandomness
    BY <1>2, <1>3, <1>7 DEF Contract!RequestRandomness, CountdownOf, StakesOf, EscrowOf, r, q
  <2>2. QED
    BY <2>1, Zenon DEF Contract!ContractNext
<1>8. CASE s = "SETTLED"
  <2>1. Contract(i)!Draw
    BY <1>2, <1>3, <1>8, Zenon DEF Contract!Draw, CountdownOf, StakesOf, EscrowOf, r, q
  <2>2. QED
    BY <2>1, Zenon DEF Contract!ContractNext
<1>9. CASE s = "CANCELLED"
  <2>1. Contract(i)!ForceCancel
    BY <1>2, <1>3, <1>9, Zenon DEF Contract!ForceCancel, CountdownOf, StakesOf, EscrowOf, r, q
  <2>2. QED
    BY <2>1, Zenon DEF Contract!ContractNext
<1>10. QED
  BY <1>4, <1>5, <1>6, <1>7, <1>8, <1>9 DEF r

\* A deposit is the contract's: the player who makes them enough starts the countdown.
LEMMA DepositStep ==
    ASSUME Counting, CrankInv, NEW i \in RoundIds, NEW u \in Users, CanDeposit(chain[i], u),
           chain'[i] = Deposited(chain[i], u)
    PROVE  Contract(i)!ContractNext
PROOF
<1> DEFINE r == chain[i]
           q == chain'[i]
<1>1. r \in Rounds
  BY DEF CrankInv, CrankTypes, ChainTypeOK
<1>2. /\ q.status = "OPEN" /\ r.status = "OPEN" /\ q.staked = r.staked \cup {u} /\ u \notin r.staked
      /\ r.ends => q.ends /\ q.left = r.left /\ r.left > 0
  BY <1>1 DEF Deposited, CanDeposit, Rounds
<1>3. r.staked \in SUBSET Users
  BY <1>1 DEF Rounds
<1> HIDE DEF r, q
<1>4. /\ Cardinality(r.staked) \in Nat
      /\ Cardinality(q.staked) = Cardinality(r.staked) + 1
  <2>1. q.staked \in SUBSET Users /\ u \in q.staked /\ q.staked \ {u} = r.staked
    BY <1>2, <1>3, Zenon
  <2>2. Cardinality(q.staked) \in Nat /\ Cardinality(r.staked) = Cardinality(q.staked) - 1
    BY <2>1, Zenon DEF Counting
  <2>3. QED
    BY <1>3, <2>2 DEF Counting
<1>5. /\ EscrowOf(r) \in Nat /\ EscrowOf(q) \in Nat /\ EscrowOf(q) > EscrowOf(r)
      /\ EscrowOf(q) - EscrowOf(r) = 1
  BY <1>2, <1>4 DEF EscrowOf
<1>6. /\ CountdownOf(r) # "over"
      /\ CountdownOf(r) = "none" \/ CountdownOf(q) = CountdownOf(r)
      /\ CountdownOf(q) \in {"none", "running", "over"}
  BY <1>2 DEF CountdownOf
<1>7. StakesOf(q) = [StakesOf(r) EXCEPT ![u] = @ + (EscrowOf(q) - EscrowOf(r))]
  <2>1. StakesOf(q) = [StakesOf(r) EXCEPT ![u] = 1]
    BY <1>2, Zenon DEF StakesOf
  <2>2. StakesOf(r)[u] + (EscrowOf(q) - EscrowOf(r)) = 1
    BY <1>2, <1>5 DEF StakesOf
  <2>3. QED
    BY <2>1, <2>2, Zenon
<1>8. Contract(i)!Deposit(u)
  BY <1>2, <1>5, <1>6, <1>7, Zenon DEF Contract!Deposit, CountdownOf, StakesOf, EscrowOf, r, q
<1>9. QED
  BY <1>8, Zenon DEF Contract!ContractNext, Users

\* A stake is taken out of a round that was not paid: by the only depositor, who leaves, or
\* by a refund.
LEMMA WithdrawalStep ==
    ASSUME Counting, ContractTotals, CrankInv, NEW i \in RoundIds, NEW u \in Users,
           \/ CanLeave(chain[i], u) /\ chain'[i] = Left(chain[i], u)
           \/ CanRefund(chain[i], u) /\ chain'[i] = Refunded(chain[i], u)
    PROVE  Contract(i)!ContractNext
PROOF
<1> DEFINE r == chain[i]
           q == chain'[i]
<1>1. r \in Rounds
  BY DEF CrankInv, CrankTypes, ChainTypeOK
<1>2. /\ q.status = "CANCELLED" /\ q.ends = r.ends /\ q.left = r.left
      /\ q.staked = r.staked \ {u} /\ u \in r.staked
      /\ (r.status = "OPEN" /\ r.staked = {u}) \/ r.status = "CANCELLED"
  BY <1>1, Zenon DEF Left, CanLeave, Refunded, CanRefund, Rounds
<1>3. r.staked \in SUBSET Users
  BY <1>1, Zenon DEF Rounds
<1> HIDE DEF r, q
<1>4. /\ Cardinality(r.staked) \in Nat
      /\ Cardinality(q.staked) = Cardinality(r.staked) - 1
      /\ Cardinality(q.staked) \in Nat
  <2>1. q.staked \in SUBSET Users
    BY <1>2, <1>3, Zenon
  <2>2. QED
    BY <1>2, <1>3, <2>1, ZenonT(30) DEF Counting
<1>5. StakesOf(q) = [StakesOf(r) EXCEPT ![u] = 0] /\ StakesOf(r)[u] = 1
  BY <1>2, Zenon DEF StakesOf
<1>6. /\ EscrowOf(q) = EscrowOf(r) - StakesOf(r)[u] /\ EscrowOf(r) >= StakesOf(r)[u]
      /\ CountdownOf(q) = CountdownOf(r)
  BY <1>2, <1>4, <1>5 DEF EscrowOf, CountdownOf
<1>7. CASE r.status = "CANCELLED"
  <2>1. Contract(i)!Refund(u)
    BY <1>2, <1>5, <1>6, <1>7, Zenon DEF Contract!Refund, CountdownOf, StakesOf, EscrowOf, r, q
  <2>2. QED
    BY <2>1, Zenon DEF Contract!ContractNext, Users
<1>8. CASE r.status = "OPEN" /\ r.staked = {u}
  <2>1. Cardinality(r.staked) = 1
    <3>1. q.staked = {}
      BY <1>2, <1>8, Zenon
    <3>2. Cardinality(q.staked) = 0
      BY <3>1 DEF Counting
    <3>3. QED
      BY <1>4, <3>2
  <2>2. Contract(i)!Total = StakesOf(r)[u]
    BY <1>5, <2>1, Zenon DEF ContractTotals, r
  <2>3. Contract(i)!Leave(u)
    BY <1>2, <1>5, <1>6, <1>8, <2>2, Zenon
       DEF Contract!Leave, CountdownOf, StakesOf, EscrowOf, r, q
  <2>4. QED
    BY <2>3, Zenon DEF Contract!ContractNext, Users
<1>9. QED
  BY <1>2, <1>7, <1>8, Zenon

\* The prize leaves the escrow.
LEMMA ClaimStep ==
    ASSUME Counting, ContractTotals, CrankInv, NEW i \in RoundIds, chain[i].status = "SETTLED",
           chain'[i] = InStatus(chain[i], "CLAIMED")
    PROVE  Contract(i)!ContractNext
PROOF
<1> DEFINE r == chain[i]
           q == chain'[i]
<1>1. r \in Rounds /\ r.staked \in SUBSET Users
  BY DEF CrankInv, CrankTypes, ChainTypeOK, Rounds
<1>2. q.status = "CLAIMED" /\ q.ends = r.ends /\ q.left = r.left /\ q.staked = r.staked
  BY <1>1 DEF InStatus, Rounds
<1>3. Contract(i)!Total = Cardinality(r.staked) /\ Cardinality(r.staked) \in Nat
  BY <1>1, Zenon DEF ContractTotals, Counting
<1> DEFINE total == Contract(i)!Total
<1> HIDE DEF r, q, total
<1>4. /\ CountdownOf(q) = CountdownOf(r) /\ StakesOf(q) = StakesOf(r)
      /\ EscrowOf(r) >= total /\ EscrowOf(q) = EscrowOf(r) - total
  BY <1>2, <1>3 DEF CountdownOf, StakesOf, EscrowOf, r, total
<1>5. Contract(i)!Pay
  BY <1>2, <1>4, Zenon DEF Contract!Pay, CountdownOf, StakesOf, EscrowOf, r, q, total
<1>6. QED
  BY <1>5, Zenon DEF Contract!ContractNext

\* A record is closed, in a cancelled round only one that holds nothing.
LEMMA RecordStep ==
    ASSUME CrankInv, NEW i \in RoundIds, NEW u \in Users, CanCloseParticipant(chain[i], u),
           chain'[i] = ParticipantClosed(chain[i], u)
    PROVE  [Contract(i)!ContractNext]_(Contract(i)!contractVars)
PROOF
<1> DEFINE r == chain[i]
           q == chain'[i]
<1>1. r \in Rounds
  BY DEF CrankInv, CrankTypes, ChainTypeOK
<1>2. /\ q.status = r.status /\ q.ends = r.ends /\ q.left = r.left /\ q.staked = r.staked \ {u}
      /\ r.status = "CLAIMED" \/ (r.status = "CANCELLED" /\ u \notin r.staked)
  BY <1>1 DEF ParticipantClosed, CanCloseParticipant, Terminal, Rounds
<1> HIDE DEF r, q
<1>3. StakesOf(q) = [StakesOf(r) EXCEPT ![u] = 0] /\ CountdownOf(q) = CountdownOf(r)
  BY <1>2, Zenon DEF StakesOf, CountdownOf
<1>4. CASE r.status = "CLAIMED"
  <2>1. EscrowOf(q) = EscrowOf(r)
    BY <1>2, <1>4 DEF EscrowOf
  <2>2. Contract(i)!Drop(u)
    BY <1>2, <1>3, <1>4, <2>1, Zenon DEF Contract!Drop, CountdownOf, StakesOf, EscrowOf, r, q
  <2>3. QED
    BY <2>2, Zenon DEF Contract!ContractNext, Users
<1>5. CASE u \notin r.staked
  <2>1. q.staked = r.staked
    BY <1>2, <1>5, Zenon
  <2>2. UNCHANGED Contract(i)!contractVars
    BY <1>2, <2>1, Zenon DEF Contract!contractVars, r, q
  <2>3. QED
    BY <2>2
<1>6. QED
  BY <1>2, <1>4, <1>5, Zenon

\* A round is closed when nobody has a stake.
LEMMA CloseStep ==
    ASSUME Counting, CrankInv, NEW i \in RoundIds, Terminal(chain[i]), chain[i].staked = {},
           chain'[i] = RoundClosed(chain[i])
    PROVE  Contract(i)!ContractNext
PROOF
<1> DEFINE r == chain[i]
           q == chain'[i]
<1>1. q.status = "ABSENT" /\ ~q.ends /\ q.staked = {} /\ r.staked = {} /\ Terminal(r)
  BY Zenon DEF RoundClosed, Absent
<1> HIDE DEF r, q
<1>a. Cardinality({}) = 0
  BY Zenon DEF Counting
<1>2. /\ CountdownOf(q) = "none" /\ StakesOf(q) = StakesOf(r) /\ EscrowOf(q) = 0
      /\ \A u \in Users : StakesOf(r)[u] = 0
  BY <1>1, <1>a, Zenon DEF CountdownOf, StakesOf, EscrowOf
<1>3. Contract(i)!Close
  BY <1>1, <1>2, Zenon DEF Contract!Close, CountdownOf, StakesOf, EscrowOf, Terminal, Users, r, q
<1>4. QED
  BY <1>3 DEF Contract!ContractNext

\* A second passes; it may be the last of the countdown.
LEMMA SecondStep ==
    ASSUME CrankInv, NEW i \in RoundIds, chain'[i] = SecondPasses(chain[i])
    PROVE  [Contract(i)!ContractNext]_(Contract(i)!contractVars)
PROOF
<1> DEFINE r == chain[i]
           q == chain'[i]
<1>1. r \in Rounds /\ r.left \in Int
  BY DEF CrankInv, CrankTypes, ChainTypeOK, Rounds
<1>2. /\ q.status = r.status /\ q.ends = r.ends /\ q.staked = r.staked
      /\ q.left = IF r.ends /\ r.left > -LOCK_BUFFER_SEC THEN r.left - 1 ELSE r.left
  BY <1>1 DEF SecondPasses, Rounds
<1> HIDE DEF r, q
<1>3. /\ StakesOf(q) = StakesOf(r) /\ EscrowOf(q) = EscrowOf(r)
      /\ \/ CountdownOf(q) = CountdownOf(r)
         \/ CountdownOf(r) = "running" /\ CountdownOf(q) = "over"
  BY <1>1, <1>2, ChainAssumption DEF StakesOf, EscrowOf, CountdownOf
<1>4. CASE CountdownOf(q) = CountdownOf(r)
  <2>1. UNCHANGED Contract(i)!contractVars
    BY <1>2, <1>3, <1>4, Zenon DEF Contract!contractVars, CountdownOf, StakesOf, EscrowOf, r, q
  <2>2. QED
    BY <2>1, Zenon
<1>5. CASE CountdownOf(r) = "running" /\ CountdownOf(q) = "over"
  <2>1. Contract(i)!CountdownEnds
    BY <1>2, <1>3, <1>5, Zenon DEF Contract!CountdownEnds, CountdownOf, StakesOf, EscrowOf, r, q
  <2>2. QED
    BY <2>1 DEF Contract!ContractNext
<1>6. QED
  BY <1>3, <1>4, <1>5

\* Every instruction that the chain takes is a step of the round's contract.
LEMMA InstructionKeepsContract ==
    ASSUME Counting, ContractTotals, CrankInv, NEW i \in RoundIds, Instruction(i)
    PROVE  [Contract(i)!ContractNext]_(Contract(i)!contractVars)
PROOF
<1> DEFINE r == chain[i]
           Kept == [Contract(i)!ContractNext]_(Contract(i)!contractVars)
<1>1. ASSUME NEW q, SetRound(i, q) PROVE chain'[i] = q
  BY <1>1, SetRoundFacts, Zenon
<1>2. ASSUME Contract(i)!ContractNext PROVE Kept
  BY <1>2, Zenon
<1> HIDE DEF Kept
<1>3. CASE CanStart(i) /\ SetRound(i, Started(r))
  <2>1. chain'[i] = InStatus(r, "OPEN")
    BY <1>1, <1>3 DEF Started, InStatus
  <2>2. QED
    BY <1>2, <1>3, <2>1, StatusStep, Zenon DEF CanStart
<1>4. ASSUME NEW u \in Users,
             \/ UserDeposits(i, u) \/ UserLeaves(i, u) \/ UserRefunded(i, u)
      PROVE  Kept
  BY <1>1, <1>2, <1>4, DepositStep, WithdrawalStep, Zenon
     DEF UserDeposits, UserLeaves, UserRefunded
<1>5. ASSUME NEW u \in Users, CanCloseParticipant(r, u), SetRound(i, ParticipantClosed(r, u))
      PROVE  Kept
  BY <1>1, <1>5, RecordStep, Zenon DEF Kept
<1>6. CASE OracleDraws(i) \/ AdminCancels(i)
  BY <1>1, <1>2, <1>6, StatusStep, Zenon DEF OracleDraws, AdminCancels, CanForceCancel
<1>7. CASE WinnerClaims(i)
  BY <1>1, <1>2, <1>7, ClaimStep DEF WinnerClaims
<1>8. ASSUME CanLock(r) PROVE r.status = "OPEN" /\ CountdownOf(r) # "running"
  BY <1>8 DEF CanLock, CountdownOf, CrankInv, CrankTypes, ChainTypeOK, Rounds
<1>9. CASE CanRequestVrf(r) /\ SetRound(i, InStatus(r, "VRF_REQUESTED"))
  BY <1>1, <1>2, <1>9, StatusStep, Zenon DEF CanRequestVrf
<1>10. CASE Terminal(r) /\ r.staked = {} /\ SetRound(i, RoundClosed(r))
  BY <1>1, <1>2, <1>10, CloseStep, Zenon
<1>11. CASE OtherLocks(i)
  BY <1>1, <1>2, <1>8, <1>11, StatusStep, Zenon DEF OtherLocks
<1>12. CASE CanLock(r) /\ SetRound(i, InStatus(r, "VRF_REQUESTED"))
  BY <1>1, <1>2, <1>8, <1>12, StatusStep
<1>13. QED
  BY <1>3, <1>4, <1>5, <1>6, <1>7, <1>9, <1>10, <1>11, <1>12, Zenon DEF Instruction, Kept

\* So is every step, for every round: the others it leaves alone.
LEMMA ChainKeepsContracts ==
    ASSUME Counting, ContractTotals, CrankInv, ChainStep, NEW i \in RoundIds
    PROVE  [Contract(i)!ContractNext]_(Contract(i)!contractVars)
PROOF
<1>1. ASSUME chain'[i] = chain[i] PROVE UNCHANGED Contract(i)!contractVars
  BY <1>1, Zenon DEF Contract!contractVars
<1>2. CASE chain' = chain
  BY <1>1, <1>2
<1>3. CASE TimeOfChain
  BY <1>3, SecondStep, Zenon DEF TimeOfChain
<1>4. ASSUME NEW k \in RoundIds, Instruction(k), k # i PROVE chain'[i] = chain[i]
  <2>1. PICK q : SetRound(k, q)
    BY <1>4, Zenon DEF Instruction, UserDeposits, UserLeaves, UserRefunded, OracleDraws, WinnerClaims,
       AdminCancels, OtherLocks
  <2>2. QED
    BY <1>4, <2>1, SetRoundFacts, Zenon
<1>5. CASE Instruction(i)
  BY <1>5, InstructionKeepsContract
<1>6. QED
  BY <1>1, <1>2, <1>3, <1>4, <1>5 DEF ChainStep

-----------------------------------------------------------------------------
(* The invariant. *)

\* A round that needs no lock and no draw any more: it is over or gone, or it is open
\* without enough players and its countdown has ended.
Past(r) ==
    \/ r.status \in {"ABSENT", "SETTLED", "CLAIMED", "CANCELLED"}
    \/ r.status = "OPEN" /\ r.ends /\ r.left <= 0 /\ ~Enough(r)

\* The statuses of a round that nobody but the crank can bring to a draw.
Undrawn == {"ABSENT", "OPEN", "LOCKED", "CANCELLED"}

\* Every round in the background is past.  One that is gone is behind the current round for
\* good, and no late transaction is about.
BackgroundInv ==
    Up => \A i \in mem.background :
              /\ Past(chain[i])
              /\ chain[i].status = "ABSENT" => ~OnlyGrown /\ i < mem.cur

\* A round behind the current one that is not in the background has no prize to be paid;
\* while the current id has only grown it is gone.
CoverInv ==
    Up => \A i \in RoundIds :
              i < mem.cur /\ i \notin mem.background =>
                  /\ chain[i].status \in Undrawn
                  /\ OnlyGrown => chain[i].status = "ABSENT"

\* Before the first fault nothing is ahead of the current round, and the archived rounds
\* are behind it.
FirstInv ==
    faults = 0 =>
        /\ \A i \in RoundIds : i > mem.cur => chain[i].status = "ABSENT"
        /\ \A i \in archive : i < mem.cur

\* What a process that starts can rely on: a round behind one that exists, or that was
\* archived, is past.
RestartInv ==
    ~Up =>
        /\ \A i, j \in RoundIds : i < j /\ chain[j].status # "ABSENT" => Past(chain[i])
        /\ \A i \in RoundIds, j \in archive : i <= j => Past(chain[i])
        /\ faults = 0 => archive = {}

\* So is every round behind the one that the scan returns.
ScanInv ==
    pc = "recover" => /\ mem.cur <= MaxRound + 1
                      /\ \A i \in RoundIds : i < mem.cur => Past(chain[i])

RecoveryInv ==
    /\ archive \subseteq RoundIds
    /\ BackgroundInv
    /\ CoverInv
    /\ FirstInv
    /\ RestartInv
    /\ ScanInv

\* q is what r becomes by anything but a start, a lock, a request for the draw and a close
\* of the crank: a past round stays past.
Rests(r, q) ==
    /\ Past(r) => Past(q)
    /\ q.status = "ABSENT" <=> r.status = "ABSENT"
    /\ r.status \in Undrawn => q.status \in Undrawn

\* A round that stays as it is stays past.
LEMMA RestsSame ==
    ASSUME NEW r
    PROVE  Rests(r, r)
PROOF
BY DEF Rests

\* So does one that is drawn, claimed, cancelled, or locked by somebody else, who needs
\* enough players.
LEMMA StatusRests ==
    ASSUME NEW r \in Rounds, NEW s,
           \/ r.status = "VRF_REQUESTED" /\ s = "SETTLED"
           \/ r.status = "SETTLED" /\ s = "CLAIMED"
           \/ r.status \in {"OPEN", "LOCKED", "VRF_REQUESTED"} /\ s = "CANCELLED"
           \/ r.status = "OPEN" /\ Enough(r) /\ s = "LOCKED"
    PROVE  Rests(r, InStatus(r, s))
PROOF
<1>1. InStatus(r, s).status = s
  BY DEF InStatus, Rounds
<1>2. QED
  BY <1>1 DEF Rests, Past, Undrawn

\* Nobody can deposit into a past round.
LEMMA DepositRests ==
    ASSUME NEW r \in Rounds, NEW u \in Users, CanDeposit(r, u)
    PROVE  Rests(r, Deposited(r, u))
PROOF
<1>1. Deposited(r, u).status = r.status
  BY DEF Deposited, Rounds
<1>2. r.status = "OPEN" /\ ~Past(r)
  BY DEF CanDeposit, Past, Rounds
<1>3. QED
  BY <1>1, <1>2 DEF Rests, Undrawn

\* The only player leaves, and the round is cancelled.
LEMMA LeaveRests ==
    ASSUME NEW r \in Rounds, NEW u \in Users, CanLeave(r, u)
    PROVE  Rests(r, Left(r, u))
PROOF
<1>1. Left(r, u).status = "CANCELLED" /\ r.status = "OPEN"
  BY DEF Left, CanLeave, Rounds
<1>2. QED
  BY <1>1 DEF Rests, Past, Undrawn

\* Nor does a refund or the close of a record.
LEMMA RefundRests ==
    ASSUME NEW r \in Rounds, NEW u \in Users
    PROVE  /\ CanRefund(r, u) => Rests(r, Refunded(r, u))
           /\ CanCloseParticipant(r, u) => Rests(r, ParticipantClosed(r, u))
PROOF
<1>1. Refunded(r, u).status = r.status /\ ParticipantClosed(r, u).status = r.status
  BY DEF Refunded, ParticipantClosed, Rounds
<1>2. CanRefund(r, u) \/ CanCloseParticipant(r, u) => r.status \in {"CLAIMED", "CANCELLED"}
  BY DEF CanRefund, CanCloseParticipant, Terminal
<1>3. QED
  BY <1>1, <1>2, Zenon DEF Rests, Past, Undrawn

\* A countdown that has ended does not start again.
LEMMA SecondRests ==
    ASSUME NEW r \in Rounds
    PROVE  Rests(r, SecondPasses(r))
PROOF
<1> DEFINE d == IF r.ends /\ r.left > -LOCK_BUFFER_SEC THEN r.left - 1 ELSE r.left
           q == SecondPasses(r)
<1>1. r.left \in Int /\ d \in Int /\ d <= r.left
  BY ChainAssumption DEF Rounds
<1>2. q = [r EXCEPT !.left = d]
  BY DEF SecondPasses
<1> HIDE DEF d, q
<1>3. /\ q.status = r.status /\ q.ends = r.ends /\ q.left = d /\ q.record = r.record
      /\ q.staked = r.staked
  BY <1>2 DEF Rounds
<1>4. Enough(q) <=> Enough(r)
  BY <1>3 DEF Enough
<1>5. Rests(r, q)
  BY <1>1, <1>3, <1>4 DEF Rests, Past
<1>6. QED
  BY <1>5 DEF q

ChainRests == \A i \in RoundIds : Rests(chain[i], chain'[i])

\* One round changes.
LEMMA OneRests ==
    ASSUME ChainTypeOK, NEW k \in RoundIds, NEW q, Rests(chain[k], q), SetRound(k, q)
    PROVE  ChainRests
PROOF
<1>1. \A i \in RoundIds : chain'[i] = IF i = k THEN q ELSE chain[i]
  BY DEF SetRound, ChainTypeOK
<1>2. QED
  BY <1>1, RestsSame, Zenon DEF ChainRests

\* What everybody but the crank does, and time, leaves past rounds past.
LEMMA OthersRest ==
    ASSUME ChainTypeOK, Others \/ Second
    PROVE  ChainRests
PROOF
<1>1. CASE Second
  <2>1. \A i \in RoundIds : chain'[i] = SecondPasses(chain[i]) /\ chain[i] \in Rounds
    BY <1>1 DEF Second, TimeOfChain, ChainTypeOK
  <2>2. QED
    BY <2>1, SecondRests DEF ChainRests
<1>2. CASE Others
  <2>1. PICK i \in RoundIds :
            \/ \E u \in Users : UserDeposits(i, u) \/ UserLeaves(i, u) \/ UserRefunded(i, u)
            \/ OracleDraws(i) \/ WinnerClaims(i) \/ AdminCancels(i) \/ OtherLocks(i)
    BY <1>2 DEF Others
  <2>2. chain[i] \in Rounds
    BY DEF ChainTypeOK
  <2>3. ASSUME NEW u \in Users, UserDeposits(i, u) \/ UserLeaves(i, u) \/ UserRefunded(i, u)
        PROVE  ChainRests
    BY <2>2, <2>3, DepositRests, LeaveRests, RefundRests, OneRests, Zenon
       DEF UserDeposits, UserLeaves, UserRefunded
  <2>4. CASE OracleDraws(i) \/ WinnerClaims(i) \/ AdminCancels(i) \/ OtherLocks(i)
    <3>1. PICK s : SetRound(i, InStatus(chain[i], s)) /\ Rests(chain[i], InStatus(chain[i], s))
      BY <2>2, <2>4, StatusRests, Zenon
         DEF OracleDraws, WinnerClaims, AdminCancels, CanForceCancel, OtherLocks, CanLock
    <3>2. QED
      BY <3>1, OneRests
  <2>5. QED
    BY <2>1, <2>3, <2>4
<1>3. QED
  BY <1>1, <1>2

-----------------------------------------------------------------------------
(* Steps that lose no round. *)

\* No fault comes to an end, and none comes before the first.
Graver == (OnlyGrown' => OnlyGrown) /\ (faults' = 0 => faults = 0)

\* A fault more or none.
LEMMA FaultIsGraver ==
    ASSUME CrankInv, late' = late, faults' = faults \/ Fault
    PROVE  Graver
PROOF
BY DEF Graver, OnlyGrown, Fault, CrankInv, CrankTypes

\* The current round stays, and only rounds that are gone leave the background.
Retains ==
    /\ mem'.cur = mem.cur
    /\ mem'.background \subseteq mem.background
    /\ \A i \in mem.background \ mem'.background : chain[i].status = "ABSENT"

\* A step of a crank that is up.
LEMMA RetainsKeeps ==
    ASSUME CrankInv, RecoveryInv, ChainRests, Graver, Retains, Up, Up',
           archive' = archive
           \/ (archive' = archive \cup {job.id} /\ job.id \in RoundIds /\ (faults = 0 => job.id < mem.cur))
    PROVE  RecoveryInv'
PROOF
<1>1. BackgroundInv'
  <2> SUFFICES ASSUME NEW i \in mem'.background
               PROVE  /\ Past(chain[i])'
                      /\ chain'[i].status = "ABSENT" => ~OnlyGrown' /\ i < mem'.cur
    BY DEF BackgroundInv, Past, Enough
  <2>1. i \in mem.background /\ i \in RoundIds
    BY DEF Retains, CrankInv, CrankTypes, Memories
  <2>2. Past(chain[i]) /\ (chain[i].status = "ABSENT" => ~OnlyGrown /\ i < mem.cur)
    BY <2>1 DEF RecoveryInv, BackgroundInv
  <2>3. Rests(chain[i], chain'[i])
    BY <2>1 DEF ChainRests
  <2>4. Past(chain'[i]) /\ (chain'[i].status = "ABSENT" => ~OnlyGrown' /\ i < mem'.cur)
    BY <2>2, <2>3 DEF Rests, Graver, Retains
  <2>5. QED
    BY <2>4 DEF Past, Enough
<1>2. CoverInv'
  <2> SUFFICES ASSUME NEW i \in RoundIds, i < mem'.cur, i \notin mem'.background
               PROVE  /\ chain'[i].status \in Undrawn
                      /\ OnlyGrown' => chain'[i].status = "ABSENT"
    BY DEF CoverInv
  <2>1. Rests(chain[i], chain'[i])
    BY DEF ChainRests
  <2>2. i \in mem.background => chain[i].status = "ABSENT"
    BY DEF Retains
  <2>3. /\ chain[i].status \in Undrawn
        /\ OnlyGrown => chain[i].status = "ABSENT"
    BY <2>2, Zenon DEF Retains, RecoveryInv, CoverInv, Undrawn
  <2>4. QED
    BY <2>1, <2>3 DEF Rests, Graver
<1>3. FirstInv'
  BY DEF FirstInv, RecoveryInv, ChainRests, Rests, Retains, Graver
<1>4. RestartInv' /\ ScanInv'
  BY DEF RestartInv, ScanInv, Up
<1>5. archive' \subseteq RoundIds
  BY DEF RecoveryInv
<1>6. QED
  BY <1>1, <1>2, <1>3, <1>4, <1>5, Zenon DEF RecoveryInv

\* A step of somebody else while the crank is down or starts.
LEMMA DownKeeps ==
    ASSUME CrankInv, RecoveryInv, ChainRests, ~Up,
           UNCHANGED <<archive, pc, late, faults>>, mem'.cur = mem.cur
    PROVE  RecoveryInv'
PROOF
<1>1. BackgroundInv' /\ CoverInv'
  BY DEF BackgroundInv, CoverInv, Up
<1>2. FirstInv'
  BY DEF FirstInv, RecoveryInv, ChainRests, Rests
<1>3. \A i \in RoundIds : /\ Past(chain[i]) => Past(chain'[i])
                          /\ chain'[i].status = "ABSENT" <=> chain[i].status = "ABSENT"
  BY DEF ChainRests, Rests
<1>4. /\ \A i, j \in RoundIds : i < j /\ chain[j].status # "ABSENT" => Past(chain[i])
      /\ \A i \in RoundIds, j \in archive : i <= j => Past(chain[i])
      /\ faults = 0 => archive = {}
  BY DEF RecoveryInv, RestartInv
<1>5. /\ \A i, j \in RoundIds : i < j /\ chain'[j].status # "ABSENT" => Past(chain'[i])
      /\ \A i \in RoundIds, j \in archive' : i <= j => Past(chain'[i])
      /\ faults' = 0 => archive' = {}
  BY <1>3, <1>4
<1>6. RestartInv'
  BY <1>5, Zenon DEF RestartInv, Past, Enough
<1>7. pc' = "recover" => /\ mem'.cur <= MaxRound + 1
                         /\ \A i \in RoundIds : i < mem'.cur => Past(chain'[i])
  BY <1>3 DEF RecoveryInv, ScanInv
<1>8. ScanInv'
  BY <1>7, Zenon DEF ScanInv, Past, Enough
<1>9. QED
  BY <1>1, <1>2, <1>6, <1>8 DEF RecoveryInv

\* Nothing that others do makes a round of the background need the crank's lock again.
LEMMA OthersRecover ==
    ASSUME CrankInv, RecoveryInv, Others \/ Second
    PROVE  RecoveryInv'
PROOF
<1>1. ChainRests
  BY OthersRest DEF CrankInv, CrankTypes
<1>2. UNCHANGED <<archive, pc, late, faults>>
  BY DEF Others, Second
<1>3. mem'.cur = mem.cur /\ mem'.background = mem.background
  <2>1. mem \in Memories
    BY DEF CrankInv, CrankTypes
  <2>2. QED
    BY <2>1, Zenon DEF Others, Second, Memories
<1>4. CASE Up
  <2>1. Graver /\ Retains /\ Up'
    BY <1>2, <1>3, <1>4, FaultIsGraver DEF Retains, Up
  <2>2. QED
    BY <1>1, <1>2, <1>4, <2>1, RetainsKeeps
<1>5. CASE ~Up
  BY <1>1, <1>2, <1>3, <1>5, DownKeeps
<1>6. QED
  BY <1>4, <1>5

\* The crank leaves the chain and the archive alone.
LEMMA LooksKeep ==
    ASSUME CrankInv, RecoveryInv, UNCHANGED <<chain, archive>>, Graver, Retains, Up, Up'
    PROVE  RecoveryInv'
PROOF
<1>1. ChainRests
  BY RestsSame DEF ChainRests
<1>2. QED
  BY <1>1, RetainsKeeps

-----------------------------------------------------------------------------
(* The steps of the crank once more. *)

\* What the crank does to its memory without advancing.
Remembers ==
    \/ mem' = mem
    \/ mem' = [mem EXCEPT !.lastCreated = mem.cur]
    \/ mem' = [mem EXCEPT !.lastLocked = mem.cur]
    \/ mem' = [mem EXCEPT !.archived = @ \cup {job.id}]
    \/ \E i \in RoundIds, outcome \in {ParticipantsPending(job.existing, job.closed),
                                       Failed("left_terminal_state"),
                                       Failed("close_round_failed"), Failed("background_error")} :
           mem' = Scheduled(mem, i, outcome)
    \/ \E i \in RoundIds : mem' = Cleared(mem, i) /\ chain[i].status = "ABSENT"

\* What the crank notes of a round while it works loses no round.
LEMMA RemembersRetains ==
    ASSUME CrankInv, Remembers
    PROVE  Retains
PROOF
<1>1. mem \in Memories
  BY DEF CrankInv, CrankTypes
<1>2. ASSUME NEW i \in RoundIds, NEW outcome, mem' = Scheduled(mem, i, outcome) PROVE Retains
  BY <1>1, <1>2, ScheduledFacts DEF Retains
<1>3. ASSUME NEW i \in RoundIds, mem' = Cleared(mem, i), chain[i].status = "ABSENT" PROVE Retains
  <2>1. mem'.cur = mem.cur /\ mem'.background = mem.background \ {i}
    BY <1>1, <1>3 DEF Cleared, Memories
  <2>2. QED
    BY <1>3, <2>1, Zenon DEF Retains
<1>4. CASE \/ mem' = mem
           \/ mem' = [mem EXCEPT !.lastCreated = mem.cur]
           \/ mem' = [mem EXCEPT !.lastLocked = mem.cur]
           \/ mem' = [mem EXCEPT !.archived = @ \cup {job.id}]
  BY <1>1, <1>4 DEF Retains, Memories
<1>5. QED
  BY <1>2, <1>3, <1>4, Zenon DEF Remembers

\* The round under cleanup is one of the rounds, and was behind the current one before the
\* first fault.
LEMMA CleansRound ==
    ASSUME CrankInv, pc \in CleanupPCs
    PROVE  job.id \in RoundIds /\ (faults = 0 => job.id < mem.cur)
PROOF
BY DEF CrankInv, CleanupInv, Cleaning, OnlyGrown

\* The background work that reads.
LEMMA BackgroundRecovers ==
    ASSUME CrankInv, RecoveryInv,
           \/ BeginTick \/ (\E i \in RoundIds : FetchBackground(i)) \/ BackgroundDone
           \/ FetchParticipants \/ RecheckRound
    PROVE  RecoveryInv'
PROOF
<1>1. UNCHANGED <<chain, archive, late, faults>> /\ Up
  BY Zenon DEF BeginTick, FetchBackground, BackgroundDone, FetchParticipants, RecheckRound, Up
<1>2. Up'
  BY Zenon DEF BeginTick, FetchBackground, BackgroundDone, FetchParticipants, RecheckRound, EndPass, Up
<1>3. Graver
  BY <1>1, FaultIsGraver
<1>4. Remembers
  <2>1. ASSUME NEW i \in RoundIds, FetchBackground(i) PROVE Remembers
    BY <2>1, Zenon DEF FetchBackground, Remembers
  <2>2. CASE RecheckRound
    <3>1. job.id \in RoundIds
      BY <2>2, CleansRound DEF RecheckRound, CleanupPCs
    <3>2. QED
      BY <2>2, <3>1, Zenon DEF RecheckRound, EndPass, Remembers
  <2>3. CASE BeginTick \/ BackgroundDone \/ FetchParticipants
    BY <2>3, Zenon DEF BeginTick, BackgroundDone, FetchParticipants, Remembers
  <2>4. QED
    BY <2>1, <2>2, <2>3
<1>5. QED
  BY <1>1, <1>2, <1>3, <1>4, RemembersRetains, LooksKeep, Zenon

\* The checks of the current round that only read.
LEMMA ChecksRecover ==
    ASSUME CrankInv, RecoveryInv, CheckStart \/ RecheckStart \/ RecheckLock \/ CheckVrf
    PROVE  RecoveryInv'
PROOF
<1>1. UNCHANGED <<chain, archive, late, faults>> /\ Up /\ Up' /\ Remembers
  BY DEF CheckStart, RecheckStart, RecheckLock, CheckVrf, Up, Remembers
<1>2. Graver
  BY <1>1, FaultIsGraver, Zenon
<1>3. QED
  BY <1>1, <1>2, RemembersRetains, LooksKeep

\* An archived round is the one under cleanup, which is behind the current one.
LEMMA ArchiveRecovers ==
    ASSUME CrankInv, RecoveryInv, ArchiveRound \/ ArchiveFault
    PROVE  RecoveryInv'
PROOF
<1>1. /\ pc = "archive" /\ UNCHANGED <<chain, late>> /\ (faults' = faults \/ Fault)
      /\ Up /\ Up' /\ Remembers
      /\ archive' = archive \/ archive' = archive \cup {job.id}
  BY DEF ArchiveRound, ArchiveFault, Remembers, Up
<1>2. job.id \in RoundIds /\ (faults = 0 => job.id < mem.cur)
  BY <1>1, CleansRound DEF CleanupPCs
<1>3. Graver /\ Retains /\ ChainRests
  BY <1>1, FaultIsGraver, RemembersRetains, RestsSame, Zenon DEF ChainRests
<1>4. QED
  BY <1>1, <1>2, <1>3, RetainsKeeps

\* Closing a record leaves the round where it is.
LEMMA ParticipantRecovers ==
    ASSUME CrankInv, RecoveryInv, NEW u \in Users, CloseParticipant(u) \/ CloseParticipantUnknown(u)
    PROVE  RecoveryInv'
PROOF
<1>1. /\ pc = "closing" /\ UNCHANGED <<archive, mem, pc, late>> /\ (faults' = faults \/ Fault)
      /\ \/ chain' = chain
         \/ /\ CanCloseParticipant(chain[job.id], u)
            /\ SetRound(job.id, ParticipantClosed(chain[job.id], u))
  BY DEF CloseParticipant, CloseParticipantUnknown
<1>2. job.id \in RoundIds /\ chain[job.id] \in Rounds /\ ChainTypeOK
  BY <1>1, CleansRound DEF CleanupPCs, CrankInv, CrankTypes, ChainTypeOK
<1>3. ChainRests
  BY <1>1, <1>2, RefundRests, OneRests, RestsSame DEF ChainRests
<1>4. Graver /\ Retains /\ Up /\ Up'
  BY <1>1, FaultIsGraver DEF Retains, Up
<1>5. QED
  BY <1>1, <1>3, <1>4, RetainsKeeps

\* A read that fails keeps the round in the background, with a retry.
LEMMA ReadFailsRecover ==
    ASSUME CrankInv, RecoveryInv, BackgroundReadFails \/ CurrentReadFails
    PROVE  RecoveryInv'
PROOF
<1>1. UNCHANGED <<chain, archive, late>> /\ Fault /\ Up /\ Up'
  BY DEF BackgroundReadFails, CurrentReadFails, EndPass, Up
<1>2. Graver
  BY <1>1, FaultIsGraver
<1>3. Remembers
  <2>1. CASE CurrentReadFails
    BY <2>1, Zenon DEF CurrentReadFails, Remembers
  <2>2. ASSUME NEW i \in job.queue, mem' = Scheduled(mem, i, Failed("background_error"))
        PROVE  Remembers
    <3>1. i \in RoundIds
      BY Zenon DEF CrankInv, CrankTypes, Jobs
    <3>2. QED
      BY <2>2, <3>1, Zenon DEF Remembers
  <2>3. ASSUME pc \in {"participants", "closing"},
               mem' = Scheduled(mem, job.id, Failed("background_error"))
        PROVE  Remembers
    <3>1. job.id \in RoundIds
      BY <2>3, CleansRound DEF CleanupPCs
    <3>2. QED
      BY <2>3, <3>1, Zenon DEF Remembers
  <2>4. QED
    BY <2>1, <2>2, <2>3 DEF BackgroundReadFails, EndPass
<1>4. QED
  BY <1>1, <1>2, <1>3, RemembersRetains, LooksKeep, Zenon

\* A transaction becomes late: this is the first fault.
LEMMA UnknownRecovers ==
    ASSUME CrankInv, RecoveryInv, MaxFaults <= 1,
           CloseRoundUnknown \/ StartRoundUnknown \/ LockAndVrfUnknown \/ RequestVrfUnknown
    PROVE  RecoveryInv'
PROOF
<1>1. /\ UNCHANGED <<chain, archive>> /\ Up /\ Up' /\ Fault
  BY DEF CloseRoundUnknown, StartRoundUnknown, LockAndVrfUnknown, RequestVrfUnknown, Unknown, EndPass, Up
<1>2. faults = 0 /\ faults' # 0
  BY <1>1, CrankAssumption DEF Fault, CrankInv, CrankTypes
<1>3. Graver
  BY <1>2 DEF Graver, OnlyGrown
<1>4. Remembers
  <2>1. CASE CloseRoundUnknown
    <3>1. job.id \in RoundIds
      BY <2>1, CleansRound DEF CloseRoundUnknown, CleanupPCs
    <3>2. QED
      BY <2>1, <3>1, Zenon DEF CloseRoundUnknown, EndPass, Remembers
  <2>2. CASE StartRoundUnknown \/ LockAndVrfUnknown \/ RequestVrfUnknown
    BY <2>2 DEF StartRoundUnknown, LockAndVrfUnknown, RequestVrfUnknown, Remembers
  <2>3. QED
    BY <2>1, <2>2, Zenon
<1>5. QED
  BY <1>1, <1>3, <1>4, RemembersRetains, LooksKeep

\* The crank changes one round, which is not in the background afterwards: the current one,
\* or one that it closes.
LEMMA OneChanges ==
    ASSUME CrankInv, RecoveryInv, Up, Up', UNCHANGED <<archive, late, faults>>,
           NEW k \in RoundIds, \A i \in RoundIds : i # k => chain'[i] = chain[i],
           mem'.cur = mem.cur, mem'.background = mem.background \ {k},
           k = mem.cur \/ chain'[k].status = "ABSENT"
    PROVE  RecoveryInv'
PROOF
<1>1. mem.cur \in Nat /\ mem.background \subseteq RoundIds /\ RoundIds \subseteq Int
  BY ChainAssumption DEF CrankInv, CrankTypes, Memories, RoundIds
<1>2. OnlyGrown' <=> OnlyGrown
  BY DEF OnlyGrown
<1>3. \A i \in mem'.background :
          /\ Past(chain'[i])
          /\ chain'[i].status = "ABSENT" => ~OnlyGrown' /\ i < mem'.cur
  BY <1>1, <1>2, Zenon DEF RecoveryInv, BackgroundInv
<1>4. BackgroundInv'
  BY <1>3, Zenon DEF BackgroundInv, Past, Enough
<1>5. CoverInv'
  <2> SUFFICES ASSUME NEW i \in RoundIds, i < mem'.cur, i \notin mem'.background
               PROVE  /\ chain'[i].status \in Undrawn
                      /\ OnlyGrown' => chain'[i].status = "ABSENT"
    BY DEF CoverInv
  <2>1. CASE i = k
    BY <1>1, <2>1 DEF Undrawn
  <2>2. CASE i # k
    BY <1>2, <2>2 DEF RecoveryInv, CoverInv
  <2>3. QED
    BY <2>1, <2>2, Zenon
<1>6. FirstInv'
  <2> SUFFICES ASSUME faults = 0
               PROVE  /\ \A i \in RoundIds : i > mem.cur => chain'[i].status = "ABSENT"
                      /\ \A i \in archive : i < mem.cur
    BY DEF FirstInv
  <2>1. \A i \in RoundIds : i > mem.cur => chain[i].status = "ABSENT"
    BY DEF RecoveryInv, FirstInv
  <2>2. ~(mem.cur > mem.cur)
    BY <1>1
  <2>3. \A i \in RoundIds : i > mem.cur => chain'[i].status = "ABSENT"
    BY <2>1, <2>2
  <2>4. QED
    BY <2>3 DEF RecoveryInv, FirstInv
<1>7. RestartInv' /\ ScanInv'
  BY DEF RestartInv, ScanInv, Up
<1>8. QED
  BY <1>4, <1>5, <1>6, <1>7 DEF RecoveryInv

\* A round that is open with enough players, or locked, is not in the background, and
\* neither is a current round that does not exist.
LEMMA NotBehind ==
    ASSUME CrankInv, RecoveryInv, Up, mem.cur \in RoundIds,
           \/ chain[mem.cur].status = "ABSENT"
           \/ CanLock(chain[mem.cur])
           \/ CanRequestVrf(chain[mem.cur])
    PROVE  mem.cur \notin mem.background
PROOF
<1>1. mem.cur \in Nat
  BY DEF CrankInv, CrankTypes, Memories
<1>2. QED
  BY <1>1 DEF RecoveryInv, BackgroundInv, Past, CanLock, CanRequestVrf

\* The current round is started, with nothing ahead of it.
LEMMA StartRecovers ==
    ASSUME CrankInv, RecoveryInv, StartRound
    PROVE  RecoveryInv'
PROOF
<1>1. mem \in Memories /\ Up /\ Up' /\ UNCHANGED <<archive, late, faults>>
  BY DEF CrankInv, CrankTypes, StartRound, Up
<1>2. CASE ~CanStart(mem.cur)
  <2>1. UNCHANGED chain /\ Remembers
    BY <1>2 DEF StartRound, Remembers
  <2>2. QED
    BY <1>1, <2>1, FaultIsGraver, RemembersRetains, LooksKeep
<1>3. CASE CanStart(mem.cur)
  <2>1. mem.cur \in RoundIds /\ mem.cur \notin mem.background
    BY <1>1, <1>3, NotBehind DEF CanStart
  <2>2. SetRound(mem.cur, Started(chain[mem.cur])) /\ mem' = [mem EXCEPT !.lastCreated = mem.cur]
    BY <1>3 DEF StartRound
  <2>3. \A i \in RoundIds : i # mem.cur => chain'[i] = chain[i]
    BY <2>1, <2>2, SetRoundFacts
  <2>4. mem'.cur = mem.cur /\ mem'.background = mem.background \ {mem.cur}
    BY <1>1, <2>1, <2>2 DEF Memories
  <2>5. QED
    BY <1>1, <2>1, <2>3, <2>4, OneChanges, Zenon
<1>4. QED
  BY <1>2, <1>3

\* A closed round leaves the background, and is gone for good.
LEMMA CloseRoundRecovers ==
    ASSUME CrankInv, RecoveryInv, CloseRound
    PROVE  RecoveryInv'
PROOF
<1>1. /\ mem \in Memories /\ Up /\ Up' /\ UNCHANGED <<archive, late, faults>>
      /\ job.id \in RoundIds
  BY CleansRound DEF CrankInv, CrankTypes, CloseRound, EndPass, Up, CleanupPCs
<1>2. CASE ~Terminal(chain[job.id])
  <2>1. UNCHANGED chain /\ Remembers
    BY <1>1, <1>2, Zenon DEF CloseRound, EndPass, Remembers
  <2>2. QED
    BY <1>1, <2>1, FaultIsGraver, RemembersRetains, LooksKeep
<1>3. CASE Terminal(chain[job.id])
  <2>1. SetRound(job.id, RoundClosed(chain[job.id])) /\ mem' = Cleared(mem, job.id)
    BY <1>3 DEF CloseRound, EndPass
  <2>2. /\ \A i \in RoundIds : i # job.id => chain'[i] = chain[i]
        /\ chain'[job.id] = RoundClosed(chain[job.id])
    BY <1>1, <2>1, SetRoundFacts
  <2>3. chain'[job.id].status = "ABSENT"
    BY <2>2 DEF RoundClosed, Absent
  <2>4. mem'.cur = mem.cur /\ mem'.background = mem.background \ {job.id}
    BY <1>1, <2>1 DEF Cleared, Memories
  <2>5. QED
    BY <1>1, <2>2, <2>3, <2>4, OneChanges
<1>4. QED
  BY <1>2, <1>3

\* The crank advances past a round that needs no draw.
LEMMA AdvanceRecovers ==
    ASSUME CrankInv, RecoveryInv, Up, Up', mem.cur \in RoundIds, Past(chain[mem.cur]),
           chain[mem.cur].status # "ABSENT",
           mem'.cur = mem.cur + 1, mem'.background = mem.background \cup {mem.cur},
           UNCHANGED <<chain, archive, late, faults>>
    PROVE  RecoveryInv'
PROOF
<1>1. mem.cur \in Nat /\ mem.background \subseteq RoundIds /\ RoundIds \subseteq Int
  BY ChainAssumption DEF CrankInv, CrankTypes, Memories, RoundIds
<1>2. OnlyGrown' <=> OnlyGrown
  BY DEF OnlyGrown
<1>3. \A i \in mem'.background :
          /\ Past(chain'[i])
          /\ chain'[i].status = "ABSENT" => ~OnlyGrown' /\ i < mem'.cur
  <2>1. \A i \in mem.background :
            /\ Past(chain[i])
            /\ chain[i].status = "ABSENT" => ~OnlyGrown /\ i < mem.cur
    BY Zenon DEF RecoveryInv, BackgroundInv
  <2>2. \A i \in RoundIds : i < mem.cur => i < mem'.cur
    BY <1>1
  <2>3. QED
    BY <1>1, <1>2, <2>1, <2>2, Zenon
<1>4. BackgroundInv'
  BY <1>3, Zenon DEF BackgroundInv, Past, Enough
<1>5. CoverInv'
  <2> SUFFICES ASSUME NEW i \in RoundIds, i < mem'.cur, i \notin mem'.background
               PROVE  /\ chain'[i].status \in Undrawn
                      /\ OnlyGrown' => chain'[i].status = "ABSENT"
    BY DEF CoverInv
  <2>1. i < mem.cur /\ i \notin mem.background
    BY <1>1
  <2>2. QED
    BY <1>2, <2>1 DEF RecoveryInv, CoverInv
<1>6. FirstInv'
  <2> SUFFICES ASSUME faults = 0
               PROVE  /\ \A i \in RoundIds : i > mem'.cur => chain[i].status = "ABSENT"
                      /\ \A i \in archive : i < mem'.cur
    BY DEF FirstInv
  <2>1. archive \subseteq Int
    BY <1>1 DEF RecoveryInv
  <2>2. QED
    BY <1>1, <2>1 DEF RecoveryInv, FirstInv
<1>7. RestartInv' /\ ScanInv'
  BY DEF RestartInv, ScanInv, Up
<1>8. QED
  BY <1>4, <1>5, <1>6, <1>7, Zenon DEF RecoveryInv

\* The crank leaves the current round only when it is past.
LEMMA FetchCurrentRecovers ==
    ASSUME CrankInv, RecoveryInv, FetchCurrent
    PROVE  RecoveryInv'
PROOF
<1> DEFINE r == Account(mem.cur)
           over == r.status \in {"SETTLED", "CLAIMED", "CANCELLED"}
<1>1. mem \in Memories /\ Up /\ Up' /\ UNCHANGED <<chain, archive, late, faults>>
  BY DEF CrankInv, CrankTypes, FetchCurrent, Up
<1>2. CASE ~over
  <2>1. Remembers
    BY <1>2 DEF FetchCurrent, Remembers
  <2>2. QED
    BY <1>1, <2>1, FaultIsGraver, RemembersRetains, LooksKeep
<1>3. CASE over
  <2>1. mem.cur \in RoundIds /\ r = chain[mem.cur]
    BY <1>3 DEF Account, Absent
  <2>2. Past(chain[mem.cur]) /\ chain[mem.cur].status # "ABSENT"
    BY <1>3, <2>1, Zenon DEF Past
  <2>3. mem' = [Advanced(mem) EXCEPT !.vrfAge = VRF_COOLDOWN_SEC]
    BY <1>3 DEF FetchCurrent
  <2>4. mem'.cur = mem.cur + 1 /\ mem'.background = mem.background \cup {mem.cur}
    BY <1>1, <2>1, <2>3, AdvancedFacts DEF Memories
  <2>5. QED
    BY <1>1, <2>1, <2>2, <2>4, AdvanceRecovers
<1>4. QED
  BY <1>2, <1>3

\* An open round over its buffer with too few players is past.
LEMMA TooFewIsPast ==
    ASSUME CrankInv, mem.cur \in RoundIds, BufferOver(mem.cur),
           chain[mem.cur].status = "OPEN", ~Enough(chain[mem.cur])
    PROVE  Past(chain[mem.cur])
PROOF
<1>1. chain[mem.cur].left \in Int /\ LOCK_BUFFER_SEC \in Nat
  BY ChainAssumption DEF CrankInv, CrankTypes, ChainTypeOK, Rounds
<1>2. QED
  BY <1>1 DEF BufferOver, Past

\* An open round without a stake is left when its buffer is over.
LEMMA CheckLockRecovers ==
    ASSUME Counting, CrankInv, RecoveryInv, CheckLock
    PROVE  RecoveryInv'
PROOF
<1>1. mem \in Memories /\ Up /\ Up' /\ UNCHANGED <<chain, archive, late, faults>>
  BY DEF CrankInv, CrankTypes, CheckLock, Up
<1>2. mem.cur \in RoundIds /\ BufferOver(mem.cur) /\ Account(mem.cur) = chain[mem.cur]
  BY DEF CheckLock, CrankInv, LockInv, Locking, Account
<1>3. CASE mem' = mem
  BY <1>1, <1>3, FaultIsGraver, LooksKeep DEF Retains
<1>4. CASE /\ chain[mem.cur].status = "OPEN" /\ chain[mem.cur].staked = {}
           /\ mem' = Advanced(mem)
  <2>1. Cardinality(chain[mem.cur].staked) = 0
    BY <1>4 DEF Counting
  <2>2. ~Enough(chain[mem.cur])
    BY <2>1, ChainAssumption DEF Enough
  <2>3. Past(chain[mem.cur])
    BY <1>2, <1>4, <2>2, TooFewIsPast
  <2>4. mem'.cur = mem.cur + 1 /\ mem'.background = mem.background \cup {mem.cur}
    BY <1>1, <1>2, <1>4, AdvancedFacts
  <2>5. QED
    BY <1>1, <1>2, <1>4, <2>3, <2>4, AdvanceRecovers, Zenon
<1>5. QED
  BY <1>2, <1>3, <1>4 DEF CheckLock

\* The round that the crank locks is the current one, so none of the background.
LEMMA LockAndVrfRecovers ==
    ASSUME CrankInv, RecoveryInv, LockAndVrf \/ RequestVrf
    PROVE  RecoveryInv'
PROOF
<1>1. mem \in Memories /\ Up /\ Up' /\ UNCHANGED <<archive, late, faults>>
  BY DEF CrankInv, CrankTypes, LockAndVrf, RequestVrf, Up
<1>2. mem.cur \in RoundIds /\ Account(mem.cur) = chain[mem.cur]
  BY Zenon DEF LockAndVrf, RequestVrf, CrankInv, LockInv, Account
<1>3. CASE UNCHANGED <<chain, mem>>
  BY <1>1, <1>3, FaultIsGraver, LooksKeep DEF Retains
<1>4. CASE LockAndVrf /\ TooFew(chain[mem.cur]) /\ mem' = Advanced(mem) /\ UNCHANGED chain
  <2>1. Past(chain[mem.cur]) /\ chain[mem.cur].status # "ABSENT"
    BY <1>2, <1>4, TooFewIsPast, Zenon DEF LockAndVrf, TooFew, CrankInv, LockInv, Locking
  <2>2. mem'.cur = mem.cur + 1 /\ mem'.background = mem.background \cup {mem.cur}
    BY <1>1, <1>2, <1>4, AdvancedFacts
  <2>3. QED
    BY <1>1, <1>2, <1>4, <2>1, <2>2, AdvanceRecovers, Zenon
<1>5. CASE /\ CanLock(chain[mem.cur]) \/ CanRequestVrf(chain[mem.cur])
           /\ SetRound(mem.cur, InStatus(chain[mem.cur], "VRF_REQUESTED"))
           /\ mem' = [mem EXCEPT !.lastLocked = mem.cur, !.vrfAge = 0]
              \/ mem' = [mem EXCEPT !.vrfAge = 0]
  <2>1. mem.cur \notin mem.background
    BY <1>1, <1>2, <1>5, NotBehind
  <2>2. \A i \in RoundIds : i # mem.cur => chain'[i] = chain[i]
    BY <1>2, <1>5, SetRoundFacts
  <2>3. mem'.cur = mem.cur /\ mem'.background = mem.background \ {mem.cur}
    BY <1>1, <1>5, <2>1, Zenon DEF Memories
  <2>4. QED
    BY <1>1, <1>2, <2>2, <2>3, OneChanges
<1>6. QED
  BY <1>2, <1>3, <1>4, <1>5 DEF LockAndVrf, RequestVrf

\* A late transaction lands or expires: a late start opens no round of the background, a
\* late lock or request finds none there, and a late close takes one behind the current.
LEMMA LateRecovers ==
    ASSUME CrankInv, RecoveryInv, LateLands \/ LateExpires
    PROVE  RecoveryInv'
PROOF
<1> DEFINE k == late.id
           r == chain[k]
<1>1. /\ late # NoTx /\ late' = NoTx /\ UNCHANGED <<archive, mem, pc, faults>>
      /\ k \in RoundIds /\ r \in Rounds /\ faults # 0 /\ Up /\ Up'
  BY DEF LateLands, LateExpires, CrankInv, CrankTypes, ChainTypeOK, LateInv, StartupInv, Up
<1>2. OnlyGrown /\ ~OnlyGrown'
  BY <1>1 DEF OnlyGrown
<1>3. CASE chain' = chain
  <2>1. Graver /\ Retains
    BY <1>1, <1>2 DEF Graver, Retains
  <2>2. QED
    BY <1>1, <1>3, <2>1, LooksKeep
<1>4. ASSUME NEW q, SetRound(k, q),
             k \in mem.background => q.status = "ABSENT" /\ k < mem.cur,
             k < mem.cur /\ k \notin mem.background => q.status \in Undrawn
      PROVE  RecoveryInv'
  <2>1. \A i \in RoundIds : chain'[i] = IF i = k THEN q ELSE chain[i]
    BY <1>1, <1>4, SetRoundFacts
  <2>2. mem.background \subseteq RoundIds
    BY DEF CrankInv, CrankTypes, Memories
  <2>3. \A i \in mem'.background :
            /\ Past(chain'[i])
            /\ chain'[i].status = "ABSENT" => ~OnlyGrown' /\ i < mem'.cur
    BY <1>1, <1>2, <1>4, <2>1, <2>2 DEF RecoveryInv, BackgroundInv, Past
  <2>4. BackgroundInv'
    BY <2>3, Zenon DEF BackgroundInv, Past, Enough
  <2>5. CoverInv'
    BY <1>1, <1>2, <1>4, <2>1 DEF RecoveryInv, CoverInv
  <2>6. FirstInv' /\ RestartInv' /\ ScanInv'
    BY <1>1, Zenon DEF FirstInv, RestartInv, ScanInv, Up
  <2>7. QED
    BY <1>1, <2>4, <2>5, <2>6 DEF RecoveryInv
<1>5. /\ k \in mem.background => Past(r) /\ r.status # "ABSENT"
      /\ k < mem.cur /\ k \notin mem.background => r.status = "ABSENT"
  BY <1>1, <1>2 DEF RecoveryInv, BackgroundInv, CoverInv
<1>6. CASE CanStart(k) /\ SetRound(k, Started(r))
  <2>1. r.status = "ABSENT" /\ Started(r).status = "OPEN"
    BY <1>1, <1>6, Zenon DEF CanStart, Started, Rounds
  <2>2. QED
    BY <1>4, <1>5, <1>6, <2>1 DEF Undrawn
<1>7. CASE CanLock(r) /\ SetRound(k, InStatus(r, "VRF_REQUESTED"))
  BY <1>4, <1>5, <1>7 DEF CanLock, Past
<1>8. CASE CanRequestVrf(r) /\ SetRound(k, InStatus(r, "VRF_REQUESTED"))
  BY <1>4, <1>5, <1>8, Zenon DEF CanRequestVrf, Past
<1>9. CASE late.kind = "close" /\ Terminal(r) /\ SetRound(k, RoundClosed(r))
  <2>1. k < mem.cur
    BY <1>1, <1>9, Zenon DEF CrankInv, LateInv
  <2>2. RoundClosed(r).status = "ABSENT"
    BY DEF RoundClosed, Absent
  <2>3. QED
    BY <1>4, <1>9, <2>1, <2>2, Zenon DEF Undrawn
<1>10. QED
  BY <1>3, <1>6, <1>7, <1>8, <1>9, Zenon DEF LateLands, LateExpires

\* The process dies.  This is the first fault, so that every round behind the current one
\* is in the background or gone, and nothing is ahead of it.
LEMMA CrashRecovers ==
    ASSUME CrankInv, RecoveryInv, MaxFaults <= 1, Crash
    PROVE  RecoveryInv'
PROOF
<1>1. /\ UNCHANGED <<chain, archive>> /\ pc' = "down" /\ Fault
  BY DEF Crash
<1>2. faults = 0 /\ faults' # 0
  BY <1>1, CrankAssumption DEF Fault, CrankInv, CrankTypes
<1>3. mem.cur \in Nat /\ RoundIds \subseteq Int /\ archive \subseteq Int
  BY ChainAssumption DEF CrankInv, CrankTypes, Memories, RoundIds, RecoveryInv
<1>4. ASSUME NEW i \in RoundIds, i < mem.cur PROVE Past(chain[i])
  <2>1. CASE ~Up
    BY <1>2, <2>1 DEF CrankInv, StartupInv, Up, Past
  <2>2. CASE Up /\ i \in mem.background
    BY <2>2 DEF RecoveryInv, BackgroundInv
  <2>3. CASE Up /\ i \notin mem.background
    BY <1>2, <1>4, <2>3 DEF RecoveryInv, CoverInv, OnlyGrown, Past
  <2>4. QED
    BY <2>1, <2>2, <2>3
<1>5. /\ \A i \in RoundIds : i > mem.cur => chain[i].status = "ABSENT"
      /\ \A i \in archive : i < mem.cur
  BY <1>2 DEF RecoveryInv, FirstInv
<1>6. ASSUME NEW i \in RoundIds, NEW j \in RoundIds, i < j, chain[j].status # "ABSENT"
      PROVE  Past(chain[i])
  <2>1. i < mem.cur
    BY <1>3, <1>5, <1>6
  <2>2. QED
    BY <1>4, <2>1
<1>7. ASSUME NEW i \in RoundIds, NEW j \in archive, i <= j PROVE Past(chain[i])
  <2>1. i < mem.cur
    BY <1>3, <1>5, <1>7
  <2>2. QED
    BY <1>4, <2>1
<1>8. RestartInv'
  BY <1>1, <1>2, <1>6, <1>7, Zenon DEF RestartInv, Past, Enough
<1>9. BackgroundInv' /\ CoverInv' /\ FirstInv' /\ ScanInv'
  BY <1>1, <1>2 DEF BackgroundInv, CoverInv, FirstInv, ScanInv, Up
<1>10. QED
  BY <1>1, <1>8, <1>9 DEF RecoveryInv

\* The last of some rounds is one of them.
Maxima == \A T \in SUBSET RoundIds : Max(T \cup {0}) \in T \cup {0}

\* The round that the scan returns has only past rounds behind it.
LEMMA FindActiveRoundRecovers ==
    ASSUME ScansAreSound, Maxima, CrankInv, RecoveryInv, FindActiveRound
    PROVE  RecoveryInv'
PROOF
<1>1. /\ pc = "down" /\ pc' = "recover" /\ UNCHANGED <<chain, archive, late>>
      /\ faults' = faults \/ Fault
  BY DEF FindActiveRound
<1>2. PICK archivedMax \in 0..MaxRound :
          /\ archivedMax = Max(archive \cup {0}) \/ archivedMax = 0
          /\ mem' = [NoMemory EXCEPT !.cur = ScanResult(ScanAt(archivedMax), archivedMax)]
  BY Zenon DEF FindActiveRound, ScanAt
<1> DEFINE scan == ScanAt(archivedMax)
           c == ScanResult(scan, archivedMax)
<1>3. SoundScan(scan) /\ mem'.cur = c
  BY <1>2 DEF ScansAreSound, NoMemory
<1>4. archivedMax = 0 \/ archivedMax \in archive
  BY <1>2 DEF Maxima, RecoveryInv
<1> HIDE DEF scan
<1>5. /\ scan.activeRound \in Nat /\ scan.maxExisting \in Nat /\ archivedMax \in Nat
      /\ MaxRound \in Nat /\ archivedMax <= MaxRound
  BY <1>3, ChainAssumption DEF SoundScan
<1>6. \A i : Account(i).status # "ABSENT" => i \in RoundIds /\ Account(i) = chain[i]
  BY DEF Account, Absent
<1>7. /\ \A i, j \in RoundIds : i < j /\ chain[j].status # "ABSENT" => Past(chain[i])
      /\ \A i \in RoundIds, j \in archive : i <= j => Past(chain[i])
  BY <1>1 DEF RecoveryInv, RestartInv, Up
<1>8. ASSUME NEW i \in RoundIds, i < c PROVE Past(chain[i])
  <2>1. i \in Int /\ i > 0
    BY ChainAssumption DEF RoundIds
  <2>2. CASE scan.activeRound > 0
    <3>1. /\ scan.activeRound \in RoundIds /\ chain[scan.activeRound].status # "ABSENT"
          /\ c = scan.activeRound
      BY <1>3, <1>5, <1>6, <2>2 DEF SoundScan, isActiveRoundStatus, ScanResult
    <3>2. QED
      BY <1>7, <1>8, <3>1
  <2>3. CASE scan.activeRound = 0 /\ i <= archivedMax
    BY <1>4, <1>5, <1>7, <2>1, <2>3
  <2>4. CASE scan.activeRound = 0 /\ i <= scan.maxExisting
    <3>1. /\ scan.maxExisting \in RoundIds /\ chain[scan.maxExisting].status # "ABSENT"
          /\ ~isActiveRoundStatus(chain[scan.maxExisting].status)
      BY <1>3, <1>5, <1>6, <2>1, <2>4 DEF SoundScan
    <3>2. chain[scan.maxExisting] \in Rounds
      BY <3>1 DEF CrankInv, CrankTypes, ChainTypeOK
    <3>3. CASE i = scan.maxExisting
      BY <3>1, <3>2, <3>3, Zenon DEF Past, isActiveRoundStatus, Rounds
    <3>4. CASE i < scan.maxExisting
      BY <1>7, <3>1, <3>4
    <3>5. QED
      BY <1>5, <2>1, <2>4, <3>3, <3>4
  <2>5. QED
    BY <1>5, <1>8, <2>1, <2>2, <2>3, <2>4 DEF ScanResult
<1>9. c <= MaxRound + 1
  <2>1. scan.activeRound <= MaxRound /\ scan.maxExisting <= MaxRound
    BY <1>3, <1>5, <1>6 DEF SoundScan, isActiveRoundStatus, RoundIds
  <2>2. QED
    BY <1>5, <2>1 DEF ScanResult
<1> HIDE DEF c
<1>10. ScanInv'
  BY <1>1, <1>3, <1>8, <1>9, Zenon DEF ScanInv, Past, Enough
<1>11. BackgroundInv' /\ CoverInv'
  BY <1>1 DEF BackgroundInv, CoverInv, Up
<1>12. faults' = 0 => faults = 0
  BY <1>1 DEF Fault, CrankInv, CrankTypes
<1>13. FirstInv'
  BY <1>1, <1>12 DEF FirstInv, RecoveryInv, RestartInv, Up, CrankInv, StartupInv
<1>14. RestartInv'
  BY <1>1, <1>7, <1>12, Zenon DEF RestartInv, Past, Enough, RecoveryInv, Up
<1>15. QED
  BY <1>1, <1>10, <1>11, <1>13, <1>14, Zenon DEF RecoveryInv

\* The new process puts every round that is over back into the background, if it looks far
\* enough behind.
LEMMA RecoverRecovers ==
    ASSUME MaxRound <= STARTUP_BACKFILL_SCAN_ROUNDS, CrankInv, RecoveryInv,
           RecoverBackgroundRounds
    PROVE  RecoveryInv'
PROOF
<1> DEFINE ids == {i \in RoundIds : /\ mem.cur > 1
                                    /\ i >= mem.cur - STARTUP_BACKFILL_SCAN_ROUNDS
                                    /\ i <= mem.cur
                                    /\ Recoverable(i)}
<1>1. /\ pc = "recover" /\ pc' = "idle" /\ UNCHANGED <<chain, archive, late, faults>>
      /\ mem' = Tracked(mem, ids) /\ mem \in Memories /\ mem.background = {} /\ late = NoTx
  BY DEF RecoverBackgroundRounds, CrankInv, CrankTypes, StartupInv
<1>2. mem'.cur = mem.cur /\ mem'.background = ids
  <2>1. ids \in SUBSET RoundIds
    OBVIOUS
  <2> HIDE DEF ids
  <2>2. Tracked(mem, ids).cur = mem.cur /\ Tracked(mem, ids).background = mem.background \cup ids
    BY <1>1, <2>1, TrackedFacts, ZenonT(30)
  <2>3. QED
    BY <1>1, <2>2, Zenon
<1>3. /\ mem.cur <= MaxRound + 1 /\ \A i \in RoundIds : i < mem.cur => Past(chain[i])
  BY <1>1 DEF RecoveryInv, ScanInv
<1>4. mem.cur \in Nat /\ MaxRound \in Nat /\ STARTUP_BACKFILL_SCAN_ROUNDS \in Nat
  BY <1>1, ChainAssumption, CrankAssumption, Zenon DEF Memories
<1>5. BackgroundInv'
  <2>1. \A i \in ids : chain[i].status \in {"SETTLED", "CLAIMED", "CANCELLED"}
    BY DEF Recoverable, Account
  <2> HIDE DEF ids
  <2>2. \A i \in mem'.background : Past(chain'[i]) /\ chain'[i].status # "ABSENT"
    BY <1>1, <1>2, <2>1, Zenon DEF Past
  <2>3. QED
    BY <2>2, Zenon DEF BackgroundInv, Past, Enough
<1>6. CoverInv'
  <2> SUFFICES ASSUME NEW i \in RoundIds, i < mem.cur, i \notin ids
               PROVE  /\ chain[i].status \in Undrawn
                      /\ OnlyGrown' => chain[i].status = "ABSENT"
    BY <1>1, <1>2, Zenon DEF CoverInv
  <2>1. i \in Int /\ i >= 1
    BY DEF RoundIds
  <2>2. mem.cur > 1 /\ i >= mem.cur - STARTUP_BACKFILL_SCAN_ROUNDS /\ i <= mem.cur
    BY <1>3, <1>4, <2>1
  <2>3. ~Recoverable(i)
    BY <2>2
  <2>4. Past(chain[i])
    BY <1>3, Zenon
  <2>5. chain[i].status \in Undrawn
    BY <2>3, <2>4, Zenon DEF Recoverable, Account, Past, Undrawn
  <2>6. ASSUME OnlyGrown' PROVE chain[i].status = "ABSENT"
    BY <1>1, <2>6, Zenon DEF OnlyGrown, CrankInv, StartupInv
  <2>7. QED
    BY <2>5, <2>6, Zenon
<1>7. FirstInv'
  BY <1>1, <1>2 DEF FirstInv, RecoveryInv
<1>8. RestartInv' /\ ScanInv'
  BY <1>1, Zenon DEF RestartInv, ScanInv, Up
<1>9. QED
  BY <1>1, <1>5, <1>6, <1>7, <1>8, ZenonT(30) DEF RecoveryInv

\* The invariant holds before the first process starts.
LEMMA InitRecovery ==
    ASSUME Init
    PROVE  RecoveryInv
PROOF
<1>1. \A i \in RoundIds : chain[i].status = "ABSENT"
  BY DEF Init, ChainInit, Absent
<1>2. archive = {} /\ pc = "down"
  BY DEF Init
<1>3. QED
  BY <1>1, <1>2 DEF RecoveryInv, BackgroundInv, CoverInv, FirstInv, RestartInv, ScanInv, Up, Past

\* Every step keeps the invariant.  The bound on the rounds is the reach of
\* recoverBackgroundRoundsOnStartup: it looks no further back.
LEMMA StepRecovers ==
    ASSUME MaxFaults <= 1, MaxRound <= STARTUP_BACKFILL_SCAN_ROUNDS,
           Counting, Maxima, ScansAreSound, CrankInv, RecoveryInv, [Next]_vars
    PROVE  RecoveryInv'
PROOF
<1>1. CASE UNCHANGED vars
  <2>1. UNCHANGED <<chain, archive, mem, pc, job, late, faults>>
    BY <1>1, Zenon DEF vars
  <2>2. archive' \subseteq RoundIds /\ BackgroundInv' /\ CoverInv'
    BY <2>1, Zenon DEF RecoveryInv, BackgroundInv, CoverInv, OnlyGrown, Up
  <2>3. FirstInv' /\ RestartInv' /\ ScanInv'
    BY <2>1, Zenon DEF RecoveryInv, FirstInv, RestartInv, ScanInv, Up
  <2>4. QED
    BY <2>2, <2>3, Zenon DEF RecoveryInv
<1>2. CASE CrankStep
  BY <1>2, FindActiveRoundRecovers, RecoverRecovers, BackgroundRecovers, ArchiveRecovers,
     ParticipantRecovers, CloseRoundRecovers, FetchCurrentRecovers, ChecksRecover, StartRecovers,
     CheckLockRecovers, LockAndVrfRecovers, Zenon
     DEF CrankStep
<1>3. CASE CrankFault
  BY <1>3, ArchiveRecovers, ParticipantRecovers, UnknownRecovers, ReadFailsRecover, CrashRecovers,
     ZenonT(30) DEF CrankFault
<1>4. QED
  BY <1>1, <1>2, <1>3, LateRecovers, OthersRecover, Zenon DEF Next

\* What the runs check of the crank's memory follows.
LEMMA RecoveryImplies ==
    ASSUME CrankInv, RecoveryInv
    PROVE  NothingForgotten /\ BackgroundNeedsNoDraw
PROOF
BY DEF RecoveryInv, BackgroundInv, CoverInv, Undrawn, Past, NothingForgotten, BackgroundNeedsNoDraw

=============================================================================

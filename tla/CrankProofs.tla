----------------------------- MODULE CrankProofs -----------------------------
(***************************************************************************)
(* The inductive invariant of the crank and the rounds that it drives,     *)
(* with at most one fault and for every number of rounds, users and        *)
(* records: the lemmas follow the actions, and StepKeeps puts them         *)
(* together.  At the end, what a step can do to the rounds at all.         *)
(***************************************************************************)
EXTENDS Crank, TLAPS

\* A leaf that names no prover is given to SMT, for so many seconds at most.
USE SMTT(60)

-----------------------------------------------------------------------------
\* The inductive invariant.

Memories ==
    [cur : Nat, lastLocked : Nat, lastCreated : Nat, background : SUBSET RoundIds,
     wait : [RoundIds -> Nat], backoff : [RoundIds -> Nat],
     archived : SUBSET RoundIds, vrfAge : Nat]

Jobs ==
    [queue : SUBSET RoundIds, id : Nat, seen : Rounds, toClose : SUBSET Users,
     existing : Nat, closed : Nat]

CrankTypes ==
    /\ ChainTypeOK
    /\ mem \in Memories
    /\ job \in Jobs
    /\ faults \in Nat

\* A stake has a record, and a round that does not exist has no countdown.
ChainInv ==
    \A i \in RoundIds :
        /\ chain[i].staked \subseteq chain[i].record
        /\ chain[i].status = "ABSENT" => ~chain[i].ends

\* Before the first fault, and while a transaction is late, the current id has only grown.
OnlyGrown == faults = 0 \/ late # NoTx

NoLateStart(i) == ~(late.kind = "start" /\ late.id = i)

CleanupPCs == {"archive", "participants", "closing", "close"}

\* While a round is cleaned up it is over or gone, nobody can start it again, and the
\* crank has seen the records that are on chain.
Cleaning ==
    /\ job.id \in RoundIds
    /\ chain[job.id].status \in {"CLAIMED", "CANCELLED", "ABSENT"}
    /\ chain[job.id].status = "ABSENT" => NoLateStart(job.id)
    /\ OnlyGrown => job.id < mem.cur
    /\ chain[job.id].record \subseteq job.seen.record

\* When the round is to be closed, none is left.
CleanupInv ==
    /\ pc \in CleanupPCs => Cleaning
    /\ pc \in {"archive", "participants"} => job.closed = 0
    /\ pc = "closing" => Cardinality(chain[job.id].record) + job.closed <= job.existing
    /\ pc = "close" => chain[job.id].record = {}

\* The countdown of an open round is over for LOCK_BUFFER_SEC seconds.
BufferOver(i) ==
    chain[i].status = "OPEN" => chain[i].ends /\ chain[i].left <= -LOCK_BUFFER_SEC

\* A round that the crank is about to lock is over the buffer, and is not another one
\* under the same id; before the first fault it is there.
Locking ==
    /\ BufferOver(mem.cur)
    /\ chain[mem.cur].status = "ABSENT" => NoLateStart(mem.cur) /\ faults # 0

LockInv ==
    /\ pc \in {"lockCheck", "lock", "vrfCheck", "vrf"} => mem.cur \in RoundIds
    /\ pc \in {"lockCheck", "lock"} => Locking

\* Then the rounds in the background are behind the current one.
BehindInv ==
    OnlyGrown => \A i \in mem.background \cup job.queue : i < mem.cur

\* Before the first tick there is nothing to process, and before the first fault no round.
StartupInv ==
    pc \in {"down", "recover"} =>
        /\ mem.background = {}
        /\ job.queue = {}
        /\ late = NoTx
        /\ faults = 0 => \A i \in RoundIds : chain[i].status = "ABSENT"

\* A late transaction meets the round it was sent for, or nothing.
LateInv ==
    late # NoTx =>
        /\ faults = MaxFaults /\ faults # 0
        /\ late.id \in RoundIds
        /\ late.kind \in {"start", "lock", "vrf", "close"}
        /\ late.kind = "lock" =>
               /\ BufferOver(late.id)
               /\ late.id <= mem.cur
               /\ chain[late.id].status = "ABSENT" => late.id < mem.cur
        /\ late.kind = "close" =>
               /\ late.id < mem.cur
               /\ chain[late.id].status \in {"CLAIMED", "CANCELLED", "ABSENT"}
               /\ chain[late.id].record = {}

CrankInv ==
    /\ CrankTypes
    /\ ChainInv
    /\ CleanupInv
    /\ LockInv
    /\ BehindInv
    /\ StartupInv
    /\ LateInv

-----------------------------------------------------------------------------
(* Facts of arithmetic and of the scan, which CrankTheorems proves: the lemmas that need *)
(* them name them as hypotheses, so that this module carries no library.                  *)

\* Sets of users can be counted.
Counting ==
    \A T \in SUBSET Users :
        /\ Cardinality(T) \in Nat
        /\ Cardinality(T) = 0 <=> T = {}
        /\ \A u \in T : Cardinality(T \ {u}) = Cardinality(T) - 1
        /\ \A R \in SUBSET T : Cardinality(R) <= Cardinality(T)

\* What findActiveRound knows after the batch that begins near the last archived round.
ScanAt(archivedMax) ==
    SeeBatch(ScanStart, ScanFrom(archivedMax),
             [k \in 1..BATCH |-> Account(ScanFrom(archivedMax) + k - 1).status])

\* The active round that a scan has found is active; the last that it found to exist does,
\* and is over when none is active.
SoundScan(scan) ==
    /\ scan.activeRound \in Nat /\ scan.maxExisting \in Nat
    /\ scan.activeRound # 0 => isActiveRoundStatus(Account(scan.activeRound).status)
    /\ scan.maxExisting # 0 => Account(scan.maxExisting).status # "ABSENT"
    /\ scan.activeRound = 0 /\ scan.maxExisting # 0
           => ~isActiveRoundStatus(Account(scan.maxExisting).status)

ScansAreSound == \A archivedMax \in 0..MaxRound : SoundScan(ScanAt(archivedMax))

-----------------------------------------------------------------------------
(* What the helpers of the crank return. *)

\* Tracking rounds in the background leaves the current round alone.
LEMMA TrackedFacts ==
    ASSUME NEW m \in Memories, NEW ids \in SUBSET RoundIds
    PROVE  /\ Tracked(m, ids) \in Memories
           /\ Tracked(m, ids).cur = m.cur
           /\ Tracked(m, ids).background = m.background \cup ids
PROOF
<1> DEFINE new == ids \ m.background
           w == [i \in RoundIds |-> IF i \in new THEN CLOSE_DELAY_SEC ELSE m.wait[i]]
           b == [i \in RoundIds |-> IF i \in new THEN CLEANUP_BACKOFF_MIN_SEC ELSE m.backoff[i]]
<1>1. w \in [RoundIds -> Nat] /\ b \in [RoundIds -> Nat]
  BY RetryAssumption DEF Memories
<1>2. m.background \cup new = m.background \cup ids
  OBVIOUS
<1>3. Tracked(m, ids) = [m EXCEPT !.background = m.background \cup new, !.wait = w, !.backoff = b]
  BY DEF Tracked
<1> HIDE DEF new, w, b
<1>4. QED
  BY <1>1, <1>2, <1>3, Zenon DEF Memories

\* clearCleanupState only takes a round out of the background.
LEMMA ClearedFacts ==
    ASSUME NEW m \in Memories, NEW i \in RoundIds
    PROVE  /\ Cleared(m, i) \in Memories
           /\ Cleared(m, i).cur = m.cur
           /\ Cleared(m, i).background \subseteq m.background
PROOF
BY Zenon DEF Cleared, Memories

\* A scheduled retry keeps the current round and the background.
LEMMA ScheduledFacts ==
    ASSUME NEW m \in Memories, NEW i \in RoundIds, NEW outcome
    PROVE  /\ Scheduled(m, i, outcome) \in Memories
           /\ Scheduled(m, i, outcome).cur = m.cur
           /\ Scheduled(m, i, outcome).background = m.background
PROOF
<1> DEFINE d == RetryDelay(outcome, m.backoff[i])
<1>1. d \in Nat
  BY RetryAssumption DEF RetryDelay, computeCleanupRetryDelay, Lesser, Greater, Memories
<1>2. Scheduled(m, i, outcome)
          = [m EXCEPT !.backoff = [m.backoff EXCEPT ![i] = d], !.wait = [m.wait EXCEPT ![i] = d]]
  BY DEF Scheduled
<1>3. /\ m.backoff \in [RoundIds -> Nat] /\ m.wait \in [RoundIds -> Nat]
  BY DEF Memories
<1> HIDE DEF d
<1>4. /\ [m.backoff EXCEPT ![i] = d] \in [RoundIds -> Nat]
      /\ [m.wait EXCEPT ![i] = d] \in [RoundIds -> Nat]
  BY <1>1, <1>3
<1>5. QED
  BY <1>2, <1>4, Zenon DEF Memories

\* The crank advances by one round and puts the one it leaves into the background.
LEMMA AdvancedFacts ==
    ASSUME NEW m \in Memories, m.cur \in RoundIds
    PROVE  /\ Advanced(m) \in Memories
           /\ Advanced(m).cur = m.cur + 1
           /\ Advanced(m).background = m.background \cup {m.cur}
PROOF
<1>1. /\ Tracked(m, {m.cur}) \in Memories
      /\ Tracked(m, {m.cur}).cur = m.cur
      /\ Tracked(m, {m.cur}).background = m.background \cup {m.cur}
  BY TrackedFacts
<1>2. m.cur + 1 \in Nat
  BY DEF Memories
<1>3. Advanced(m) = [Tracked(m, {m.cur}) EXCEPT !.cur = m.cur + 1, !.lastLocked = 0]
  BY <1>1, Zenon DEF Advanced
<1>4. 0 \in Nat
  OBVIOUS
<1>5. QED
  BY <1>1, <1>2, <1>3, <1>4, Zenon DEF Memories

\* A process starts with a memory of the right type.
LEMMA NoMemoryFacts == NoMemory \in Memories
PROOF
BY CrankAssumption DEF NoMemory, Memories

\* A round that does not exist is typed like the others.
LEMMA AbsentFacts == Absent \in Rounds
PROOF
BY ChainAssumption DEF Absent, Rounds

\* A crank at rest has a job of the right type.
LEMMA NoJobFacts == NoJob \in Jobs
PROOF
BY AbsentFacts DEF NoJob, Jobs

-----------------------------------------------------------------------------
(* The rounds. *)

\* q is what r becomes by any instruction but start_round and close_round, or by a second
\* that passes.
Evolves(r, q) ==
    /\ q \in Rounds
    /\ r.staked \subseteq r.record => q.staked \subseteq q.record
    /\ q.status = "ABSENT" <=> r.status = "ABSENT"
    /\ r.status = "ABSENT" => q.ends = r.ends
    /\ Terminal(r) => Terminal(q)
    /\ Terminal(r) \/ r.status = "ABSENT" => q.record \subseteq r.record
    /\ q.status = "OPEN" => r.status = "OPEN" /\ (r.ends => q.ends /\ q.left <= r.left)

ChainEvolves ==
    /\ ChainTypeOK'
    /\ \A i \in RoundIds : Evolves(chain[i], chain'[i])

\* A deposit keeps a running countdown and never opens or ends a round.
LEMMA DepositEvolves ==
    ASSUME NEW r \in Rounds, NEW u \in Users, CanDeposit(r, u)
    PROVE  Evolves(r, Deposited(r, u))
PROOF
<1> DEFINE joined == r.record \cup {u}
           d == IF ~r.ends /\ Cardinality(joined) >= MinPlayers THEN Duration ELSE r.left
           e == r.ends \/ Cardinality(joined) >= MinPlayers
           q == Deposited(r, u)
<1>1. /\ r.record \subseteq Users /\ r.staked \subseteq Users /\ r.ends \in BOOLEAN
      /\ r.left \in (-LOCK_BUFFER_SEC)..Duration
  BY DEF Rounds
<1>2. d \in (-LOCK_BUFFER_SEC)..Duration
  BY <1>1, ChainAssumption
<1>3. e \in BOOLEAN /\ (r.ends => e = TRUE /\ d = r.left)
  BY <1>1
<1>4. /\ q.status = r.status /\ q.ends = e /\ q.left = d
      /\ q.staked = r.staked \cup {u} /\ q.record = joined
  BY DEF Deposited, Rounds
<1>5. q \in Rounds
  <2>1. q = [r EXCEPT !.staked = r.staked \cup {u}, !.record = joined, !.left = d, !.ends = e]
    BY DEF Deposited
  <2>2. r.staked \cup {u} \in SUBSET Users /\ joined \in SUBSET Users
    BY <1>1
  <2> HIDE DEF joined, d, e, q
  <2>3. QED
    BY <1>2, <1>3, <2>1, <2>2, Zenon DEF Rounds
<1>6. r.status = "OPEN"
  BY DEF CanDeposit
<1> HIDE DEF d, e, q
<1>7. q.left <= r.left \/ ~r.ends
  BY <1>1, <1>3, <1>4, ChainAssumption
<1>8. Evolves(r, q)
  BY <1>3, <1>4, <1>5, <1>6, <1>7 DEF Evolves, Terminal
<1>9. QED
  BY <1>8 DEF q

\* A change of status keeps the stakes, and one of a finished round leaves it finished.
LEMMA StatusEvolves ==
    ASSUME NEW r \in Rounds, NEW s \in {"LOCKED", "VRF_REQUESTED", "SETTLED", "CLAIMED", "CANCELLED"},
           r.status # "ABSENT", Terminal(r) => s \in {"CLAIMED", "CANCELLED"}
    PROVE  Evolves(r, InStatus(r, s))
PROOF
BY DEF Evolves, InStatus, Rounds, Terminal

\* The only player of an open round leaves it, and it is cancelled.
LEMMA LeaveEvolves ==
    ASSUME NEW r \in Rounds, NEW u \in Users, CanLeave(r, u)
    PROVE  Evolves(r, Left(r, u))
PROOF
BY Zenon DEF Evolves, Left, CanLeave, Rounds, Terminal

\* A refund takes back a stake of a cancelled round.
LEMMA RefundEvolves ==
    ASSUME NEW r \in Rounds, NEW u \in Users, CanRefund(r, u)
    PROVE  Evolves(r, Refunded(r, u))
PROOF
BY DEF Evolves, Refunded, CanRefund, Rounds, Terminal

\* close_participant removes the record of a player without a stake at play.
LEMMA RecordCloseEvolves ==
    ASSUME NEW r \in Rounds, NEW u \in Users, CanCloseParticipant(r, u)
    PROVE  Evolves(r, ParticipantClosed(r, u))
PROOF
BY Zenon DEF Evolves, ParticipantClosed, CanCloseParticipant, Rounds, Terminal

\* A second that passes brings the end of the countdown nearer.
LEMMA SecondEvolves ==
    ASSUME NEW r \in Rounds
    PROVE  Evolves(r, SecondPasses(r))
PROOF
<1> DEFINE d == IF r.ends /\ r.left > -LOCK_BUFFER_SEC THEN r.left - 1 ELSE r.left
<1>1. r.left \in (-LOCK_BUFFER_SEC)..Duration
  BY DEF Rounds
<1>2. d \in (-LOCK_BUFFER_SEC)..Duration /\ d <= r.left
  BY <1>1, ChainAssumption
<1>3. SecondPasses(r) = [r EXCEPT !.left = d]
  BY DEF SecondPasses
<1> HIDE DEF d
<1>4. QED
  BY <1>2, <1>3 DEF Evolves, Rounds, Terminal

\* A round that stays as it is evolves.
LEMMA NothingEvolves ==
    ASSUME NEW r \in Rounds
    PROVE  Evolves(r, r)
PROOF
BY ChainAssumption DEF Evolves, Rounds

\* One round changes.
LEMMA OneEvolves ==
    ASSUME ChainTypeOK, NEW k \in RoundIds, NEW q, Evolves(chain[k], q), SetRound(k, q)
    PROVE  ChainEvolves
PROOF
<1>1. q \in Rounds /\ chain' = [chain EXCEPT ![k] = q] /\ chain \in [RoundIds -> Rounds]
  BY DEF Evolves, SetRound, ChainTypeOK
<1>2. \A i \in RoundIds : chain'[i] = IF i = k THEN q ELSE chain[i]
  BY <1>1
<1>3. chain' \in [RoundIds -> Rounds]
  BY <1>1
<1>4. ASSUME NEW i \in RoundIds PROVE Evolves(chain[i], chain'[i])
  <2>1. CASE i = k
    BY <1>2, <2>1
  <2>2. CASE i # k
    BY <1>1, <1>2, <2>2, NothingEvolves
  <2>3. QED
    BY <2>1, <2>2
<1>5. QED
  BY <1>3, <1>4 DEF ChainEvolves, ChainTypeOK

\* So does a chain that stays as it is.
LEMMA NoneEvolves ==
    ASSUME ChainTypeOK, chain' = chain
    PROVE  ChainEvolves
PROOF
BY NothingEvolves DEF ChainEvolves, ChainTypeOK

\* What players, the oracle, the winner and the admin do evolves the rounds.
LEMMA OthersEvolve ==
    ASSUME ChainTypeOK, Others
    PROVE  ChainEvolves
PROOF
<1>1. PICK i \in RoundIds :
          \/ \E u \in Users : UserDeposits(i, u) \/ UserLeaves(i, u) \/ UserRefunded(i, u)
          \/ OracleDraws(i) \/ WinnerClaims(i) \/ AdminCancels(i) \/ OtherLocks(i)
  BY DEF Others
<1>2. chain[i] \in Rounds
  BY DEF ChainTypeOK
<1>3. ASSUME NEW u \in Users, UserDeposits(i, u) PROVE ChainEvolves
  BY <1>2, <1>3, DepositEvolves, OneEvolves DEF UserDeposits
<1>4. ASSUME NEW u \in Users, UserLeaves(i, u) PROVE ChainEvolves
  BY <1>2, <1>4, LeaveEvolves, OneEvolves DEF UserLeaves
<1>5. ASSUME NEW u \in Users, UserRefunded(i, u) PROVE ChainEvolves
  BY <1>2, <1>5, RefundEvolves, OneEvolves DEF UserRefunded
<1>6. ASSUME NEW s \in {"LOCKED", "VRF_REQUESTED", "SETTLED", "CLAIMED", "CANCELLED"},
             chain[i].status \notin {"ABSENT", "CLAIMED", "CANCELLED"},
             SetRound(i, InStatus(chain[i], s))
      PROVE  ChainEvolves
  BY <1>2, <1>6, StatusEvolves, OneEvolves DEF Terminal
<1>7. CASE OracleDraws(i)
  BY <1>6, <1>7 DEF OracleDraws
<1>8. CASE WinnerClaims(i)
  BY <1>6, <1>8 DEF WinnerClaims
<1>9. CASE AdminCancels(i)
  BY <1>6, <1>9 DEF AdminCancels, CanForceCancel
<1>10. CASE OtherLocks(i)
  BY <1>6, <1>10 DEF OtherLocks, CanLock
<1>11. QED
  BY <1>1, <1>3, <1>4, <1>5, <1>7, <1>8, <1>9, <1>10, Zenon

\* A second passes for all the rounds.
LEMMA TimeEvolves ==
    ASSUME ChainTypeOK, TimeOfChain
    PROVE  ChainEvolves
PROOF
<1>1. \A i \in RoundIds : Evolves(chain[i], SecondPasses(chain[i]))
  BY SecondEvolves DEF ChainTypeOK
<1>2. \A i \in RoundIds : SecondPasses(chain[i]) \in Rounds
  BY <1>1 DEF Evolves
<1>3. chain' = [i \in RoundIds |-> SecondPasses(chain[i])]
  BY DEF TimeOfChain
<1>4. QED
  BY <1>1, <1>2, <1>3, Zenon DEF ChainEvolves, ChainTypeOK

-----------------------------------------------------------------------------
(* Steps of a crank that is up, with what they leave of the invariant. *)

\* The current id does not fall, nothing ahead of it comes into the background, and no
\* transaction becomes late.
GoesOn ==
    /\ mem' \in Memories /\ job' \in Jobs
    /\ mem'.cur >= mem.cur
    /\ \A j \in mem'.background \cup job'.queue :
           j \in mem.background \cup job.queue \/ j < mem'.cur
    /\ late' = late
    /\ faults' = faults \/ Fault

\* A crank that goes on, with rounds that evolve, keeps all but the facts about its job.
LEMMA Ongoing ==
    ASSUME CrankInv, GoesOn, ChainEvolves
    PROVE  CrankTypes' /\ ChainInv' /\ BehindInv' /\ LateInv'
PROOF
<1>1. /\ faults' \in Nat /\ faults \in Nat /\ (faults' # faults => late = NoTx /\ faults' # 0)
      /\ late' = late
  BY CrankAssumption DEF CrankInv, CrankTypes, GoesOn, Fault, LateInv
<1>2. CrankTypes'
  BY <1>1 DEF CrankTypes, GoesOn, ChainEvolves
<1>3. ChainInv'
  BY DEF ChainInv, CrankInv, ChainEvolves, Evolves
<1>4. mem.cur \in Nat /\ mem'.cur \in Nat /\ mem'.cur >= mem.cur
  BY DEF GoesOn, CrankInv, CrankTypes, Memories
<1>5. /\ mem.background \cup job.queue \subseteq RoundIds
      /\ RoundIds \subseteq Nat
  BY ChainAssumption DEF CrankInv, CrankTypes, Memories, Jobs, RoundIds
<1>6. BehindInv'
  <2> SUFFICES ASSUME OnlyGrown', NEW j \in mem'.background \cup job'.queue
               PROVE  j < mem'.cur
    BY DEF BehindInv
  <2>1. OnlyGrown
    BY <1>1 DEF OnlyGrown
  <2>2. \A i \in mem.background \cup job.queue : i < mem.cur
    BY <2>1 DEF BehindInv, CrankInv
  <2>3. j \in mem.background \cup job.queue \/ j < mem'.cur
    BY DEF GoesOn
  <2>4. ASSUME j \in mem.background \cup job.queue PROVE j < mem'.cur
    <3>1. j \in Nat /\ j < mem.cur
      BY <1>5, <2>2, <2>4, Zenon
    <3>2. QED
      BY <1>4, <3>1
  <2>5. QED
    BY <2>3, <2>4
<1>7. LateInv'
  <2> SUFFICES ASSUME late # NoTx PROVE LateInv'
    BY <1>1 DEF LateInv
  <2>1. late' = late /\ faults' = MaxFaults /\ faults' # 0 /\ late.id \in RoundIds /\ late.id \in Nat
    BY <1>1, <1>5, Zenon DEF CrankInv, LateInv
  <2>2. late.kind \in {"start", "lock", "vrf", "close"}
    BY DEF CrankInv, LateInv
  <2>3. Evolves(chain[late.id], chain'[late.id]) /\ chain[late.id] \in Rounds
    BY <2>1 DEF ChainEvolves, CrankInv, CrankTypes, ChainTypeOK
  <2>4. chain[late.id].left \in Int /\ chain'[late.id].left \in Int /\ -LOCK_BUFFER_SEC \in Int
    BY <2>3, ChainAssumption DEF Rounds, Evolves
  <2>5. ASSUME late.kind = "lock"
        PROVE  /\ BufferOver(late.id)'
               /\ late.id <= mem'.cur
               /\ chain'[late.id].status = "ABSENT" => late.id < mem'.cur
    BY <1>4, <2>1, <2>3, <2>4, <2>5 DEF CrankInv, LateInv, BufferOver, Evolves
  <2>6. ASSUME late.kind = "close"
        PROVE  /\ late.id < mem'.cur
               /\ chain'[late.id].status \in {"CLAIMED", "CANCELLED", "ABSENT"}
               /\ chain'[late.id].record = {}
    BY <1>4, <2>1, <2>3, <2>6 DEF CrankInv, LateInv, Evolves, Terminal
  <2>7. QED
    BY <2>1, <2>2, <2>5, <2>6, Zenon DEF LateInv, BufferOver
<1>8. QED
  BY <1>2, <1>3, <1>6, <1>7

\* The cleanup of a round goes on.
LEMMA CleaningGoesOn ==
    ASSUME CrankInv, GoesOn, ChainEvolves, Cleaning, job'.id = job.id, job'.seen = job.seen
    PROVE  Cleaning'
PROOF
<1>1. OnlyGrown' => OnlyGrown
  BY DEF OnlyGrown, GoesOn, Fault, CrankInv, CrankTypes
<1>2. job.id \in RoundIds /\ job.id \in Nat
  BY ChainAssumption DEF Cleaning, RoundIds
<1>3. Evolves(chain[job.id], chain'[job.id])
  BY <1>2 DEF ChainEvolves
<1>4. mem.cur \in Nat /\ mem'.cur \in Nat /\ mem'.cur >= mem.cur
  BY DEF GoesOn, CrankInv, CrankTypes, Memories
<1>5. OnlyGrown' => job'.id < mem'.cur
  BY <1>1, <1>2, <1>4 DEF Cleaning
<1>6. late' = late
  BY DEF GoesOn
<1>7. QED
  BY <1>2, <1>3, <1>5, <1>6, Zenon DEF Cleaning, Evolves, Terminal, NoLateStart

\* A step to a place where no round is being closed or locked.
LEMMA Elsewhere ==
    ASSUME CrankInv, GoesOn, ChainEvolves,
           pc' \notin CleanupPCs \cup {"lockCheck", "lock", "down", "recover"},
           pc' \in {"vrfCheck", "vrf"} => mem'.cur \in RoundIds
    PROVE  CrankInv'
PROOF
<1>1. CrankTypes' /\ ChainInv' /\ BehindInv' /\ LateInv'
  BY Ongoing
<1>2. CleanupInv' /\ LockInv' /\ StartupInv'
  BY DEF CleanupInv, LockInv, StartupInv, CleanupPCs
<1>3. QED
  BY <1>1, <1>2 DEF CrankInv

\* A step of somebody else.
LEMMA InPlace ==
    ASSUME Counting, CrankInv, ChainEvolves, UNCHANGED <<pc, job, late, faults>>,
           mem' \in Memories, mem'.cur = mem.cur, mem'.background = mem.background
    PROVE  CrankInv'
PROOF
<1>1. GoesOn
  BY DEF GoesOn, CrankInv, CrankTypes, Memories
<1>2. CrankTypes' /\ ChainInv' /\ BehindInv' /\ LateInv'
  BY <1>1, Ongoing
<1>3. CleanupInv'
  <2>1. ASSUME pc \in CleanupPCs PROVE Cleaning'
    BY <1>1, <2>1, CleaningGoesOn DEF CrankInv, CleanupInv
  <2>2. ASSUME pc \in {"closing", "close"}
        PROVE  /\ chain'[job.id].record \subseteq chain[job.id].record
               /\ chain[job.id].record \in SUBSET Users /\ chain'[job.id].record \in SUBSET Users
    <3>1. Cleaning
      BY <2>2 DEF CrankInv, CleanupInv, CleanupPCs
    <3>2. QED
      BY <3>1 DEF Cleaning, ChainEvolves, Evolves, Terminal, CrankInv, CrankTypes, ChainTypeOK, Rounds
  <2>3. ASSUME pc = "closing"
        PROVE  Cardinality(chain'[job.id].record) + job.closed <= job.existing
    <3>1. /\ Cardinality(chain'[job.id].record) <= Cardinality(chain[job.id].record)
          /\ Cardinality(chain'[job.id].record) \in Nat
          /\ Cardinality(chain[job.id].record) \in Nat
      BY <2>2, <2>3, Zenon DEF Counting
    <3>2. Cardinality(chain[job.id].record) + job.closed <= job.existing
      BY <2>3 DEF CrankInv, CleanupInv
    <3>3. job.closed \in Nat /\ job.existing \in Nat
      BY DEF CrankInv, CrankTypes, Jobs
    <3>4. QED
      BY <3>1, <3>2, <3>3
  <2>4. QED
    BY <2>1, <2>2, <2>3, Zenon DEF CrankInv, CleanupInv
<1>4. LockInv'
  <2> SUFFICES ASSUME pc \in {"lockCheck", "lock"} PROVE Locking'
    BY DEF CrankInv, LockInv
  <2>1. Locking /\ mem.cur \in RoundIds
    BY DEF CrankInv, LockInv
  <2>2. /\ Evolves(chain[mem.cur], chain'[mem.cur]) /\ mem'.cur = mem.cur
        /\ chain[mem.cur].left \in Int /\ chain'[mem.cur].left \in Int /\ -LOCK_BUFFER_SEC \in Int
    BY <2>1, ChainAssumption DEF Locking, ChainEvolves, CrankInv, CrankTypes, ChainTypeOK, Rounds
  <2>3. QED
    BY <2>1, <2>2 DEF Locking, BufferOver, Evolves, NoLateStart
<1>5. StartupInv'
  BY DEF CrankInv, StartupInv, ChainEvolves, Evolves
<1>6. QED
  BY <1>2, <1>3, <1>4, <1>5 DEF CrankInv

\* A step of somebody else between two steps of the crank: what the crank read is stale,
\* and what it will do with it is still right.
LEMMA OthersKeep ==
    ASSUME Counting, CrankInv, Others \/ Second
    PROVE  CrankInv'
PROOF
<1>1. CASE Others
  BY <1>1, OthersEvolve, InPlace, Zenon DEF CrankInv, CrankTypes, Others
<1>2. CASE Second
  <2> DEFINE w == [i \in RoundIds |-> Greater(mem.wait[i] - 1, 0)]
             a == Lesser(mem.vrfAge + 1, VRF_COOLDOWN_SEC)
  <2>1. mem \in Memories
    BY DEF CrankInv, CrankTypes
  <2>2. w \in [RoundIds -> Nat] /\ a \in Nat
    BY <2>1, CrankAssumption DEF Memories, Greater, Lesser
  <2>3. mem' = [mem EXCEPT !.wait = w, !.vrfAge = a]
    BY <1>2 DEF Second
  <2> HIDE DEF w, a
  <2>4. mem' \in Memories /\ mem'.cur = mem.cur /\ mem'.background = mem.background
    BY <2>1, <2>2, <2>3, Zenon DEF Memories
  <2>5. ChainEvolves
    BY <1>2, TimeEvolves DEF Second, CrankInv, CrankTypes
  <2>6. QED
    BY <1>2, <2>4, <2>5, InPlace, Zenon DEF Second
<1>3. QED
  BY <1>1, <1>2

-----------------------------------------------------------------------------
(* The steps of the crank, one after the other. *)

\* A new job has a queue and nothing else.
LEMMA QueueFacts ==
    ASSUME NEW q \in SUBSET RoundIds
    PROVE  [NoJob EXCEPT !.queue = q] \in Jobs /\ [NoJob EXCEPT !.queue = q].queue = q
PROOF
BY NoJobFacts DEF Jobs

\* The crank leaves the chain alone and goes on elsewhere, with the same memory or one
\* with fewer rounds to look after.
LEMMA MovesOn ==
    ASSUME CrankInv, chain' = chain, late' = late, faults' = faults \/ Fault,
           mem' \in Memories, mem'.cur = mem.cur, mem'.background \subseteq mem.background,
           job' \in Jobs, job'.queue \subseteq mem.background \cup job.queue,
           pc' \notin CleanupPCs \cup {"lockCheck", "lock", "down", "recover"},
           pc' \in {"vrfCheck", "vrf"} => mem.cur \in RoundIds
    PROVE  CrankInv'
PROOF
<1>1. GoesOn
  BY DEF GoesOn, CrankInv, CrankTypes, Memories
<1>2. ChainEvolves
  BY NoneEvolves DEF CrankInv, CrankTypes
<1>3. QED
  BY <1>1, <1>2, Elsewhere

\* A pass over a round ends.
LEMMA EndPassKeeps ==
    ASSUME CrankInv, NEW m \in Memories, m.cur = mem.cur, m.background \subseteq mem.background,
           EndPass(m), chain' = chain, late' = late, faults' = faults \/ Fault
    PROVE  CrankInv'
PROOF
<1>1. mem' = m /\ job' = [NoJob EXCEPT !.queue = job.queue] /\ pc' = "background"
  BY DEF EndPass
<1>2. job' \in Jobs /\ job'.queue = job.queue
  <2>1. job \in Jobs
    BY DEF CrankInv, CrankTypes
  <2>2. job.queue \in SUBSET RoundIds
    BY <2>1 DEF Jobs
  <2>3. QED
    BY <1>1, <2>2, QueueFacts, Zenon
<1>3. QED
  BY <1>1, <1>2, MovesOn DEF CleanupPCs

\* A tick begins with the rounds in the background that are due.
LEMMA BeginTickKeeps ==
    ASSUME CrankInv, BeginTick
    PROVE  CrankInv'
PROOF
<1>1. mem \in Memories /\ mem.background \in SUBSET RoundIds
  BY DEF CrankInv, CrankTypes, Memories
<1>2. job' \in Jobs /\ job'.queue = mem.background
  BY <1>1, QueueFacts DEF BeginTick
<1>3. pc' \in {"current", "background"}
  BY DEF BeginTick
<1>4. QED
  BY <1>1, <1>2, <1>3, MovesOn, Zenon DEF BeginTick, CleanupPCs

\* A round of the background is read: it is cleaned up only when it is over.
LEMMA FetchBackgroundKeeps ==
    ASSUME CrankInv, NEW i \in RoundIds, FetchBackground(i)
    PROVE  CrankInv'
PROOF
<1> DEFINE cleanup == Terminal(chain[i]) /\ Due(mem, i)
<1>1. /\ mem \in Memories /\ job \in Jobs /\ i \in job.queue /\ chain[i] \in Rounds
      /\ job.queue \ {i} \in SUBSET RoundIds
  BY DEF CrankInv, CrankTypes, FetchBackground, ChainTypeOK, Jobs
<1>2. UNCHANGED <<chain, late, faults>>
  BY DEF FetchBackground
<1>3. CASE ~cleanup
  <2>1. pc' = "background" /\ job' = [NoJob EXCEPT !.queue = job.queue \ {i}, !.id = 0, !.seen = Absent]
    BY <1>3, Zenon DEF FetchBackground
  <2>2. 0 \in Nat
    OBVIOUS
  <2>3. job' \in Jobs /\ job'.queue = job.queue \ {i}
    BY <1>1, <2>1, <2>2, NoJobFacts, AbsentFacts, Zenon DEF Jobs
  <2>4. mem' \in Memories /\ mem'.cur = mem.cur /\ mem'.background \subseteq mem.background
    BY <1>1, ClearedFacts DEF FetchBackground
  <2>5. QED
    BY <1>2, <2>1, <2>3, <2>4, MovesOn DEF CleanupPCs
<1>4. CASE cleanup
  <2>1. /\ mem' = mem /\ pc' \in {"participants", "archive"}
        /\ job' = [NoJob EXCEPT !.queue = job.queue \ {i}, !.id = i, !.seen = chain[i]]
    BY <1>4 DEF FetchBackground, Terminal
  <2>2. i \in Nat
    BY ChainAssumption DEF RoundIds
  <2>3. job' \in Jobs
    BY <1>1, <2>1, <2>2, NoJobFacts, Zenon DEF Jobs
  <2>4. job'.queue = job.queue \ {i} /\ job'.id = i /\ job'.seen = chain[i] /\ job'.closed = 0
    BY <2>1 DEF NoJob
  <2>5. GoesOn
    BY <1>1, <1>2, <2>1, <2>3, <2>4 DEF GoesOn, Memories
  <2>6. ChainEvolves
    BY <1>2, NoneEvolves DEF CrankInv, CrankTypes
  <2>7. CrankTypes' /\ ChainInv' /\ BehindInv' /\ LateInv'
    BY <2>5, <2>6, Ongoing
  <2>8. OnlyGrown => i < mem.cur
    BY <1>1 DEF CrankInv, BehindInv
  <2>9. Cleaning'
    BY <1>2, <1>4, <2>1, <2>4, <2>8 DEF Cleaning, Terminal, OnlyGrown
  <2>10. CleanupInv' /\ LockInv' /\ StartupInv'
    BY <2>1, <2>4, <2>9 DEF CleanupInv, LockInv, StartupInv
  <2>11. QED
    BY <2>7, <2>10 DEF CrankInv
<1>5. QED
  BY <1>3, <1>4

\* The round is archived, or its archive cannot be written.
LEMMA ArchiveKeeps ==
    ASSUME CrankInv, ArchiveRound \/ ArchiveFault
    PROVE  CrankInv'
PROOF
<1>1. /\ pc = "archive" /\ pc' = "participants" /\ UNCHANGED <<chain, job, late>>
      /\ faults' = faults \/ Fault
      /\ mem' = mem \/ mem' = [mem EXCEPT !.archived = @ \cup {job.id}]
  BY DEF ArchiveRound, ArchiveFault
<1>2. Cleaning /\ job.closed = 0 /\ mem \in Memories /\ job \in Jobs
  BY <1>1 DEF CrankInv, CrankTypes, CleanupInv, CleanupPCs
<1>3. mem' \in Memories /\ mem'.cur = mem.cur /\ mem'.background = mem.background
  BY <1>1, <1>2 DEF Memories, Cleaning
<1>4. GoesOn
  BY <1>1, <1>2, <1>3 DEF GoesOn, Memories
<1>5. ChainEvolves
  BY <1>1, NoneEvolves DEF CrankInv, CrankTypes
<1>6. CrankTypes' /\ ChainInv' /\ BehindInv' /\ LateInv'
  BY <1>4, <1>5, Ongoing
<1>7. Cleaning'
  BY <1>1, <1>2, <1>4, <1>5, CleaningGoesOn
<1>8. CleanupInv' /\ LockInv' /\ StartupInv'
  BY <1>1, <1>2, <1>7 DEF CleanupInv, LockInv, StartupInv
<1>9. QED
  BY <1>6, <1>8 DEF CrankInv

\* The records that are to be closed are those of the round.
LEMMA FetchParticipantsKeeps ==
    ASSUME Counting, CrankInv, FetchParticipants
    PROVE  CrankInv'
PROOF
<1> DEFINE existing == job.seen.record \cap chain[job.id].record
<1>1. /\ pc = "participants" /\ pc' = "closing" /\ UNCHANGED <<chain, mem, late, faults>>
      /\ \E batch \in SUBSET existing :
             job' = [job EXCEPT !.toClose = batch, !.existing = Cardinality(existing)]
  BY Zenon DEF FetchParticipants
<1>2. Cleaning /\ job.closed = 0 /\ mem \in Memories /\ job \in Jobs
  BY <1>1 DEF CrankInv, CrankTypes, CleanupInv, CleanupPCs
<1>3. existing = chain[job.id].record /\ existing \in SUBSET Users
  BY <1>2 DEF Cleaning, CrankInv, CrankTypes, ChainTypeOK, Rounds
<1>4. Cardinality(existing) \in Nat
  BY <1>3 DEF Counting
<1>5. PICK batch \in SUBSET Users :
          job' = [job EXCEPT !.toClose = batch, !.existing = Cardinality(existing)]
  BY <1>1, <1>3, Zenon
<1>6. /\ job' \in Jobs /\ job'.queue = job.queue /\ job'.id = job.id /\ job'.seen = job.seen
      /\ job'.closed = 0 /\ job'.existing = Cardinality(chain[job.id].record)
  <2> HIDE DEF existing
  <2>1. QED
    BY <1>2, <1>3, <1>4, <1>5, Zenon DEF Jobs
<1>7. GoesOn
  BY <1>1, <1>2, <1>6 DEF GoesOn, Memories
<1>8. ChainEvolves
  BY <1>1, NoneEvolves DEF CrankInv, CrankTypes
<1>9. CrankTypes' /\ ChainInv' /\ BehindInv' /\ LateInv'
  BY <1>7, <1>8, Ongoing
<1>10. Cleaning'
  BY <1>1, <1>2, <1>6, <1>7, <1>8, CleaningGoesOn, Zenon
<1>11. CleanupInv' /\ LockInv' /\ StartupInv'
  BY <1>1, <1>3, <1>4, <1>6, <1>10 DEF CleanupInv, LockInv, StartupInv
<1>12. QED
  BY <1>9, <1>11 DEF CrankInv

\* A record is closed, or it is not known whether it was.
LEMMA CloseParticipantKeeps ==
    ASSUME Counting, CrankInv, NEW u \in Users, CloseParticipant(u) \/ CloseParticipantUnknown(u)
    PROVE  CrankInv'
PROOF
<1> DEFINE r == chain[job.id]
<1>1. /\ pc = "closing" /\ pc' = "closing" /\ UNCHANGED <<mem, late>>
      /\ faults' = faults \/ Fault
      /\ \/ /\ chain' = chain
            /\ job' = [job EXCEPT !.toClose = @ \ {u}]
         \/ /\ CanCloseParticipant(r, u)
            /\ SetRound(job.id, ParticipantClosed(r, u))
            /\ \/ job' = [job EXCEPT !.toClose = @ \ {u}]
               \/ job' = [job EXCEPT !.toClose = @ \ {u}, !.closed = @ + 1]
  BY DEF CloseParticipant, CloseParticipantUnknown
<1>2. /\ Cleaning /\ mem \in Memories /\ job \in Jobs /\ job.closed \in Nat /\ job.existing \in Nat
      /\ Cardinality(r.record) + job.closed <= job.existing
  BY <1>1 DEF CrankInv, CrankTypes, CleanupInv, CleanupPCs, Jobs
<1>3. /\ job' \in Jobs /\ job'.queue = job.queue /\ job'.id = job.id /\ job'.seen = job.seen
      /\ job'.existing = job.existing /\ job'.closed \in {job.closed, job.closed + 1}
      /\ \/ chain' = chain /\ job'.closed = job.closed
         \/ CanCloseParticipant(r, u) /\ SetRound(job.id, ParticipantClosed(r, u))
  <2>1. CASE job' = [job EXCEPT !.toClose = @ \ {u}]
    BY <1>1, <1>2, <2>1 DEF Jobs
  <2>2. CASE /\ CanCloseParticipant(r, u)
             /\ SetRound(job.id, ParticipantClosed(r, u))
             /\ job' = [job EXCEPT !.toClose = @ \ {u}, !.closed = @ + 1]
    <3>1. job.closed + 1 \in Nat
      BY <1>2
    <3>2. QED
      BY <1>2, <2>2, <3>1, Zenon DEF Jobs
  <2>3. QED
    BY <1>1, <2>1, <2>2
<1>4. GoesOn
  BY <1>1, <1>2, <1>3 DEF GoesOn, Memories
<1>5. ChainTypeOK /\ job.id \in RoundIds /\ r \in Rounds
  BY <1>2 DEF CrankInv, CrankTypes, Cleaning, ChainTypeOK
<1>6. ChainEvolves
  <2>1. CASE chain' = chain
    BY <1>5, <2>1, NoneEvolves
  <2>2. CASE CanCloseParticipant(r, u) /\ SetRound(job.id, ParticipantClosed(r, u))
    BY <1>5, <2>2, RecordCloseEvolves, OneEvolves
  <2>3. QED
    BY <1>1, <2>1, <2>2
<1>7. CrankTypes' /\ ChainInv' /\ BehindInv' /\ LateInv'
  BY <1>4, <1>6, Ongoing
<1>8. Cleaning'
  BY <1>2, <1>3, <1>4, <1>6, CleaningGoesOn
<1>9. Cardinality(chain'[job.id].record) + job'.closed <= job'.existing
  <2>1. r.record \in SUBSET Users
    BY <1>5 DEF Rounds
  <2>2. Cardinality(r.record) \in Nat
    BY <2>1 DEF Counting
  <2>3. CASE chain' = chain /\ job'.closed = job.closed
    BY <1>2, <1>3, <2>3
  <2>4. CASE CanCloseParticipant(r, u) /\ SetRound(job.id, ParticipantClosed(r, u))
    <3>1. chain'[job.id].record = r.record \ {u} /\ u \in r.record
      BY <1>5, <2>4 DEF SetRound, ParticipantClosed, CanCloseParticipant, ChainTypeOK, Rounds
    <3>2. Cardinality(chain'[job.id].record) = Cardinality(r.record) - 1
      BY <2>1, <3>1, Zenon DEF Counting
    <3>3. QED
      BY <1>2, <1>3, <2>2, <3>2
  <2>5. QED
    BY <1>3, <2>3, <2>4
<1>10. CleanupInv' /\ LockInv' /\ StartupInv'
  BY <1>1, <1>3, <1>8, <1>9 DEF CleanupInv, LockInv, StartupInv
<1>11. QED
  BY <1>7, <1>10 DEF CrankInv

\* The round is read again before it is closed.
LEMMA RecheckRoundKeeps ==
    ASSUME Counting, CrankInv, RecheckRound
    PROVE  CrankInv'
PROOF
<1>1. /\ pc = "closing" /\ UNCHANGED <<chain, late, faults>>
  BY DEF RecheckRound
<1>2. /\ Cleaning /\ mem \in Memories /\ job \in Jobs /\ job.closed \in Nat /\ job.existing \in Nat
      /\ Cardinality(chain[job.id].record) + job.closed <= job.existing
      /\ job.id \in RoundIds
  BY <1>1 DEF CrankInv, CrankTypes, CleanupInv, CleanupPCs, Jobs, Cleaning
<1>3. ASSUME NEW outcome, EndPass(Scheduled(mem, job.id, outcome)) PROVE CrankInv'
  BY <1>1, <1>2, <1>3, ScheduledFacts, EndPassKeeps
<1>4. CASE EndPass(Cleared(mem, job.id))
  BY <1>1, <1>2, <1>4, ClearedFacts, EndPassKeeps
<1>5. CASE ~RecordsLeft /\ pc' = "close" /\ UNCHANGED <<mem, job>>
  <2>1. ~(job.existing - job.closed > 0)
    BY <1>5 DEF RecordsLeft, RetryNeeded, ParticipantsPending
  <2>2. chain[job.id].record \in SUBSET Users
    BY <1>2 DEF CrankInv, CrankTypes, ChainTypeOK, Rounds
  <2>3. Cardinality(chain[job.id].record) \in Nat
    BY <2>2 DEF Counting
  <2>4. Cardinality(chain[job.id].record) = 0
    BY <1>2, <2>1, <2>3
  <2>5. chain[job.id].record = {}
    BY <2>2, <2>4 DEF Counting
  <2>6. GoesOn
    BY <1>1, <1>2, <1>5 DEF GoesOn, Memories
  <2>7. ChainEvolves
    BY <1>1, NoneEvolves DEF CrankInv, CrankTypes
  <2>8. CrankTypes' /\ ChainInv' /\ BehindInv' /\ LateInv'
    BY <2>6, <2>7, Ongoing
  <2>9. Cleaning'
    BY <1>2, <1>5, <2>6, <2>7, CleaningGoesOn
  <2>10. CleanupInv' /\ LockInv' /\ StartupInv'
    BY <1>1, <1>5, <2>5, <2>9 DEF CleanupInv, LockInv, StartupInv
  <2>11. QED
    BY <2>8, <2>10 DEF CrankInv
<1>6. QED
  BY <1>3, <1>4, <1>5, Zenon DEF RecheckRound

\* A round is closed that has no record left.
LEMMA CloseRoundKeeps ==
    ASSUME CrankInv, CloseRound
    PROVE  CrankInv'
PROOF
<1>1. pc = "close" /\ UNCHANGED <<late, faults>>
  BY DEF CloseRound
<1>2. /\ Cleaning /\ chain[job.id].record = {} /\ mem \in Memories /\ job \in Jobs
      /\ job.id \in RoundIds /\ job.id \in Nat
  BY <1>1, ChainAssumption DEF CrankInv, CrankTypes, CleanupInv, CleanupPCs, Cleaning, RoundIds
<1>3. CASE ~Terminal(chain[job.id])
  BY <1>1, <1>2, <1>3, ScheduledFacts, EndPassKeeps DEF CloseRound
<1>4. CASE Terminal(chain[job.id])
  <2> DEFINE k == job.id
             q == RoundClosed(chain[job.id])
  <2>1. SetRound(k, q) /\ EndPass(Cleared(mem, job.id))
    BY <1>4 DEF CloseRound
  <2>2. /\ q \in Rounds /\ q.status = "ABSENT" /\ ~q.ends /\ q.record = {}
        /\ q.staked \subseteq q.record
    <3>1. chain[k] \in Rounds /\ chain[k].staked \subseteq chain[k].record
      BY <1>2 DEF CrankInv, CrankTypes, ChainTypeOK, ChainInv
    <3>2. QED
      BY <1>2, <3>1, AbsentFacts, Zenon DEF RoundClosed, Absent, Rounds
  <2>3. /\ chain \in [RoundIds -> Rounds] /\ chain' \in [RoundIds -> Rounds]
        /\ chain'[k] = q /\ \A i \in RoundIds : i # k => chain'[i] = chain[i]
    BY <1>2, <2>1, <2>2 DEF SetRound, CrankInv, CrankTypes, ChainTypeOK
  <2>4. /\ mem' \in Memories /\ mem'.cur = mem.cur /\ mem'.background \subseteq mem.background
    BY <1>2, <2>1, ClearedFacts, Zenon DEF EndPass
  <2>5. job' \in Jobs /\ job'.queue = job.queue /\ pc' = "background"
    BY <1>2, <2>1, QueueFacts, Zenon DEF EndPass, Jobs
  <2> HIDE DEF q
  <2>6. CrankTypes' /\ ChainInv'
    BY <1>1, <2>2, <2>3, <2>4, <2>5 DEF CrankInv, CrankTypes, ChainTypeOK, ChainInv
  <2>7. BehindInv' /\ CleanupInv' /\ LockInv' /\ StartupInv'
    BY <1>1, <2>4, <2>5 DEF CrankInv, BehindInv, OnlyGrown, CleanupInv, CleanupPCs, LockInv, StartupInv
  <2>8. LateInv'
    <3> SUFFICES ASSUME late # NoTx PROVE LateInv'
      BY <1>1 DEF LateInv
    <3>1. job.id < mem.cur
      BY <1>2 DEF Cleaning, OnlyGrown
    <3>2. LateInv
      BY Zenon DEF CrankInv
    <3>3. CASE late.id = k
      BY <1>1, <1>2, <2>2, <2>3, <2>4, <3>1, <3>2, <3>3, Zenon DEF LateInv, BufferOver, Memories
    <3>4. CASE late.id # k
      BY <1>1, <2>3, <2>4, <3>2, <3>4, Zenon DEF LateInv, BufferOver
    <3>5. QED
      BY <3>3, <3>4, Zenon
  <2>9. QED
    BY <2>6, <2>7, <2>8 DEF CrankInv
<1>5. QED
  BY <1>3, <1>4

\* The crank advances to the next round.
LEMMA AdvanceKeeps ==
    ASSUME CrankInv, mem.cur \in RoundIds, NEW age \in Nat,
           mem' = [Advanced(mem) EXCEPT !.vrfAge = age] \/ mem' = Advanced(mem),
           pc' = "idle", UNCHANGED <<chain, job, late, faults>>
    PROVE  CrankInv'
PROOF
<1>1. /\ Advanced(mem) \in Memories /\ Advanced(mem).cur = mem.cur + 1
      /\ Advanced(mem).background = mem.background \cup {mem.cur}
      /\ mem \in Memories /\ job \in Jobs
  BY AdvancedFacts DEF CrankInv, CrankTypes
<1>2. /\ mem' \in Memories /\ mem'.cur = mem.cur + 1
      /\ mem'.background = mem.background \cup {mem.cur}
  BY <1>1 DEF Memories
<1>3. mem.cur \in Nat
  BY <1>1 DEF Memories
<1>4. GoesOn
  BY <1>1, <1>2, <1>3 DEF GoesOn
<1>5. ChainEvolves
  BY NoneEvolves DEF CrankInv, CrankTypes
<1>6. QED
  BY <1>4, <1>5, Elsewhere DEF CleanupPCs

\* The current round is read, and the crank advances past it or goes on to drive it.
LEMMA FetchCurrentKeeps ==
    ASSUME CrankInv, FetchCurrent
    PROVE  CrankInv'
PROOF
<1> DEFINE r == Account(mem.cur)
           over == r.status \in {"SETTLED", "CLAIMED", "CANCELLED"}
<1>1. UNCHANGED <<chain, job, late, faults>> /\ mem \in Memories /\ job \in Jobs
  BY DEF FetchCurrent, CrankInv, CrankTypes
<1>2. r.status # "ABSENT" => mem.cur \in RoundIds /\ r = chain[mem.cur]
  BY DEF Account, Absent
<1>3. CASE over
  <2>1. mem' = [Advanced(mem) EXCEPT !.vrfAge = VRF_COOLDOWN_SEC] /\ pc' = "idle"
    BY <1>3 DEF FetchCurrent
  <2>2. QED
    BY <1>1, <1>2, <1>3, <2>1, CrankAssumption, AdvanceKeeps
<1>4. CASE ~over
  <2>1. /\ mem' = mem
        /\ \/ pc' = "startCheck"
           \/ r.status = "OPEN" /\ ~NotYet(r) /\ pc' = "lockCheck"
           \/ r.status = "LOCKED" /\ pc' = "vrfCheck"
           \/ pc' = "idle"
    BY <1>4 DEF FetchCurrent
  <2>2. CASE pc' # "lockCheck"
    <3>1. pc' \in {"vrfCheck", "vrf"} => mem.cur \in RoundIds
      BY <1>2, <2>1
    <3>2. QED
      BY <1>1, <2>1, <2>2, <3>1, MovesOn DEF CleanupPCs
  <2>3. CASE pc' = "lockCheck"
    <3>1. mem.cur \in RoundIds /\ chain[mem.cur].status = "OPEN" /\ ~NotYet(chain[mem.cur])
      BY <1>2, <2>1, <2>3
    <3>2. chain[mem.cur].left \in Int
      BY <3>1 DEF CrankInv, CrankTypes, ChainTypeOK, Rounds
    <3>3. Locking'
      BY <1>1, <2>1, <3>1, <3>2, ChainAssumption DEF Locking, BufferOver, NotYet
    <3>4. GoesOn
      BY <1>1, <2>1 DEF GoesOn, Memories
    <3>5. ChainEvolves
      BY <1>1, NoneEvolves DEF CrankInv, CrankTypes
    <3>6. CrankTypes' /\ ChainInv' /\ BehindInv' /\ LateInv'
      BY <3>4, <3>5, Ongoing
    <3>7. CleanupInv' /\ LockInv' /\ StartupInv'
      BY <2>1, <2>3, <3>1, <3>3 DEF CleanupInv, CleanupPCs, LockInv, StartupInv
    <3>8. QED
      BY <3>6, <3>7 DEF CrankInv
  <2>4. QED
    BY <2>2, <2>3
<1>5. QED
  BY <1>3, <1>4

\* Steps that only change where the crank is and what it remembers of its own
\* transactions.
LEMMA ChecksKeep ==
    ASSUME CrankInv, BackgroundDone \/ CheckStart \/ RecheckStart \/ RecheckLock \/ CheckVrf
    PROVE  CrankInv'
PROOF
<1>1. mem \in Memories /\ job \in Jobs /\ mem.cur \in Nat
  BY DEF CrankInv, CrankTypes, Memories
<1>2. UNCHANGED <<chain, job, late, faults>>
  BY DEF BackgroundDone, CheckStart, RecheckStart, RecheckLock, CheckVrf
<1>3. /\ pc' \in {"current", "start", "idle", "vrf"}
      /\ pc' = "vrf" => mem.cur \in RoundIds
  BY DEF BackgroundDone, CheckStart, RecheckStart, RecheckLock, CheckVrf, CrankInv, LockInv
<1>4. \/ mem' = mem
      \/ mem' = [mem EXCEPT !.lastCreated = mem.cur]
      \/ mem' = [mem EXCEPT !.lastLocked = mem.cur]
  BY DEF BackgroundDone, CheckStart, RecheckStart, RecheckLock, CheckVrf
<1>5. mem' \in Memories /\ mem'.cur = mem.cur /\ mem'.background = mem.background
  BY <1>1, <1>4 DEF Memories
<1>6. QED
  BY <1>1, <1>2, <1>3, <1>5, MovesOn DEF CleanupPCs

\* A round is started under an id that no late transaction is about.
LEMMA StartRoundKeeps ==
    ASSUME CrankInv, StartRound
    PROVE  CrankInv'
PROOF
<1>1. mem \in Memories /\ job \in Jobs /\ mem.cur \in Nat
  BY DEF CrankInv, CrankTypes, Memories
<1>2. UNCHANGED <<job, late, faults>>
  BY DEF StartRound
<1>3. CASE ~CanStart(mem.cur)
  <2>1. UNCHANGED <<chain, mem>> /\ pc' = "startRecheck"
    BY <1>3 DEF StartRound
  <2>2. QED
    BY <1>1, <1>2, <2>1, MovesOn DEF CleanupPCs
<1>4. CASE CanStart(mem.cur)
  <2> DEFINE k == mem.cur
             q == Started(chain[k])
  <2>1. /\ SetRound(k, q) /\ mem' = [mem EXCEPT !.lastCreated = mem.cur] /\ pc' = "idle"
    BY <1>4 DEF StartRound
  <2>2. k \in RoundIds /\ chain[k].status = "ABSENT" /\ chain[k] \in Rounds
    BY <1>4 DEF CanStart, CrankInv, CrankTypes, ChainTypeOK
  <2>3. /\ q \in Rounds /\ q.status = "OPEN" /\ q.staked = chain[k].staked
        /\ q.record = chain[k].record
    BY <2>2 DEF Started, Rounds
  <2>4. /\ chain \in [RoundIds -> Rounds] /\ chain' \in [RoundIds -> Rounds]
        /\ chain'[k] = q /\ \A i \in RoundIds : i # k => chain'[i] = chain[i]
    BY <2>1, <2>2, <2>3 DEF SetRound, CrankInv, CrankTypes, ChainTypeOK
  <2>5. /\ mem' \in Memories /\ mem'.cur = mem.cur /\ mem'.background = mem.background
    BY <1>1, <2>1 DEF Memories
  <2> HIDE DEF q
  <2>6. CrankTypes' /\ ChainInv'
    BY <1>1, <1>2, <2>2, <2>3, <2>4, <2>5 DEF CrankInv, CrankTypes, ChainTypeOK, ChainInv
  <2>7. BehindInv' /\ CleanupInv' /\ LockInv' /\ StartupInv'
    BY <1>2, <2>1, <2>5 DEF CrankInv, BehindInv, OnlyGrown, CleanupInv, CleanupPCs, LockInv, StartupInv
  <2>8. LateInv'
    <3> SUFFICES ASSUME late # NoTx PROVE LateInv'
      BY <1>2 DEF LateInv
    <3>1. LateInv
      BY DEF CrankInv
    <3>2. late.id = k => late.kind \in {"start", "vrf"}
      BY <1>1, <2>2, <3>1 DEF LateInv
    <3>3. QED
      BY <1>2, <2>4, <2>5, <3>1, <3>2 DEF LateInv, BufferOver
  <2>9. QED
    BY <2>6, <2>7, <2>8 DEF CrankInv
<1>5. QED
  BY <1>3, <1>4

\* The lock is prepared only over the buffer.
LEMMA CheckLockKeeps ==
    ASSUME CrankInv, CheckLock
    PROVE  CrankInv'
PROOF
<1>1. mem \in Memories /\ job \in Jobs /\ mem.cur \in RoundIds /\ Locking /\ pc = "lockCheck"
  BY DEF CrankInv, CrankTypes, CheckLock, LockInv
<1>2. UNCHANGED <<chain, job, late, faults>>
  BY DEF CheckLock
<1>3. CASE pc' = "idle" /\ mem' = mem
  BY <1>1, <1>2, <1>3, MovesOn DEF CleanupPCs
<1>4. CASE pc' = "idle" /\ mem' = Advanced(mem)
  BY <1>1, <1>2, <1>4, CrankAssumption, AdvanceKeeps
<1>5. CASE pc' = "lock" /\ mem' = mem
  <2>1. GoesOn
    BY <1>1, <1>2, <1>5 DEF GoesOn, Memories
  <2>2. ChainEvolves
    BY <1>2, NoneEvolves DEF CrankInv, CrankTypes
  <2>3. CrankTypes' /\ ChainInv' /\ BehindInv' /\ LateInv'
    BY <2>1, <2>2, Ongoing
  <2>4. CleanupInv' /\ LockInv' /\ StartupInv'
    BY <1>1, <1>2, <1>5, Zenon
       DEF CleanupInv, CleanupPCs, LockInv, StartupInv, Locking, BufferOver, NoLateStart
  <2>5. QED
    BY <2>3, <2>4 DEF CrankInv
<1>6. QED
  BY <1>3, <1>4, <1>5 DEF CheckLock

\* The round is locked and its draw requested, together or one after the other.
LEMMA LockAndVrfKeeps ==
    ASSUME CrankInv, LockAndVrf \/ RequestVrf
    PROVE  CrankInv'
PROOF
<1> DEFINE r == Account(mem.cur)
<1>1. mem \in Memories /\ job \in Jobs /\ mem.cur \in RoundIds /\ mem.cur \in Nat
  BY DEF CrankInv, CrankTypes, LockAndVrf, RequestVrf, LockInv, Memories
<1>2. UNCHANGED <<job, late, faults>> /\ r = chain[mem.cur] /\ r \in Rounds
  BY <1>1 DEF LockAndVrf, RequestVrf, Account, CrankInv, CrankTypes, ChainTypeOK
<1>3. CASE pc' = "idle" /\ chain' = chain /\ mem' = Advanced(mem)
  BY <1>1, <1>2, <1>3, CrankAssumption, AdvanceKeeps
<1>4. CASE pc' \in {"idle", "lockRecheck"} /\ chain' = chain /\ mem' = mem
  BY <1>1, <1>2, <1>4, MovesOn DEF CleanupPCs
<1>5. CASE /\ r.status \in {"OPEN", "LOCKED"}
           /\ SetRound(mem.cur, InStatus(r, "VRF_REQUESTED"))
           /\ mem' = [mem EXCEPT !.lastLocked = mem.cur, !.vrfAge = 0]
              \/ mem' = [mem EXCEPT !.vrfAge = 0]
           /\ pc' = "idle"
  <2>1. 0 \in Nat
    OBVIOUS
  <2>2. mem' \in Memories /\ mem'.cur = mem.cur /\ mem'.background = mem.background
    BY <1>1, <1>5, <2>1, Zenon DEF Memories
  <2>3. GoesOn
    BY <1>1, <1>2, <2>2 DEF GoesOn
  <2>4. ChainEvolves
    <3>1. Evolves(r, InStatus(r, "VRF_REQUESTED"))
      BY <1>2, <1>5, StatusEvolves DEF Terminal
    <3>2. QED
      BY <1>1, <1>2, <1>5, <3>1, OneEvolves, Zenon DEF CrankInv, CrankTypes
  <2>5. QED
    BY <1>5, <2>3, <2>4, Elsewhere DEF CleanupPCs
<1>6. QED
  BY <1>3, <1>4, <1>5 DEF LockAndVrf, RequestVrf, CanLock, CanRequestVrf

\* A read of the tick fails and its work is dropped.
LEMMA ReadFailsKeep ==
    ASSUME CrankInv, BackgroundReadFails \/ CurrentReadFails
    PROVE  CrankInv'
PROOF
<1>1. mem \in Memories /\ job \in Jobs /\ job.queue \in SUBSET RoundIds
  BY DEF CrankInv, CrankTypes, Jobs
<1>2. UNCHANGED <<chain, late>> /\ Fault
  BY DEF BackgroundReadFails, CurrentReadFails
<1>3. CASE CurrentReadFails
  BY <1>1, <1>2, <1>3, MovesOn DEF CurrentReadFails, CleanupPCs
<1>4. ASSUME NEW i \in job.queue, pc = "background",
             mem' = Scheduled(mem, i, Failed("background_error")),
             job' = [job EXCEPT !.queue = @ \ {i}], pc' = pc
      PROVE  CrankInv'
  <2>1. i \in RoundIds
    BY <1>1
  <2>2. job' \in Jobs /\ job'.queue \subseteq job.queue
    BY <1>1, <1>4 DEF Jobs
  <2>3. mem' \in Memories /\ mem'.cur = mem.cur /\ mem'.background = mem.background
    BY <1>1, <1>4, <2>1, ScheduledFacts
  <2>4. QED
    BY <1>2, <1>4, <2>2, <2>3, MovesOn DEF CleanupPCs
<1>5. CASE /\ pc \in {"participants", "closing"}
           /\ EndPass(Scheduled(mem, job.id, Failed("background_error")))
  <2>1. job.id \in RoundIds
    BY <1>5 DEF CrankInv, CleanupInv, CleanupPCs, Cleaning
  <2>2. QED
    BY <1>1, <1>2, <1>5, <2>1, ScheduledFacts, EndPassKeeps
<1>6. QED
  BY <1>3, <1>4, <1>5 DEF BackgroundReadFails

\* The process dies: no transaction is late, because this is the only fault.
LEMMA CrashKeeps ==
    ASSUME CrankInv, Crash
    PROVE  CrankInv'
PROOF
<1>1. /\ chain' = chain /\ mem' = NoMemory /\ job' = NoJob /\ pc' = "down" /\ late' = late
      /\ late = NoTx /\ faults' = faults + 1 /\ faults \in Nat
  BY DEF Crash, Fault, CrankInv, LateInv, CrankTypes
<1>2. CrankTypes' /\ ChainInv'
  BY <1>1, NoMemoryFacts, NoJobFacts DEF CrankInv, CrankTypes, ChainTypeOK, ChainInv
<1>3. BehindInv' /\ CleanupInv' /\ LockInv' /\ LateInv'
  BY <1>1 DEF BehindInv, OnlyGrown, CleanupInv, CleanupPCs, LockInv, LateInv
<1>4. StartupInv'
  BY <1>1 DEF StartupInv, NoMemory, NoJob
<1>5. QED
  BY <1>2, <1>3, <1>4 DEF CrankInv

\* The round that the scan returns at startup.
LEMMA FindActiveRoundKeeps ==
    ASSUME ScansAreSound, CrankInv, FindActiveRound
    PROVE  CrankInv'
PROOF
<1>1. /\ pc = "down" /\ pc' = "recover" /\ UNCHANGED <<chain, job, late>>
      /\ faults' = faults \/ Fault
  BY DEF FindActiveRound
<1>2. PICK archivedMax \in 0..MaxRound :
          mem' = [NoMemory EXCEPT !.cur = ScanResult(ScanAt(archivedMax), archivedMax)]
  BY Zenon DEF FindActiveRound, ScanAt
<1>3. archivedMax \in Nat /\ SoundScan(ScanAt(archivedMax))
  BY ChainAssumption DEF ScansAreSound
<1>4. mem' \in Memories /\ mem'.background = {}
  <2> DEFINE c == ScanResult(ScanAt(archivedMax), archivedMax)
  <2>1. c \in Nat
    BY <1>3 DEF ScanResult, SoundScan
  <2>2. mem' = [NoMemory EXCEPT !.cur = c]
    BY <1>2
  <2> HIDE DEF c
  <2>3. QED
    BY <2>1, <2>2, NoMemoryFacts, Zenon DEF Memories, NoMemory
<1>5. /\ job.queue = {} /\ late = NoTx /\ faults \in Nat /\ faults' \in Nat
      /\ faults' = 0 => faults = 0
      /\ faults = 0 => \A i \in RoundIds : chain[i].status = "ABSENT"
  BY <1>1 DEF CrankInv, StartupInv, CrankTypes, Fault
<1>6. CrankTypes' /\ ChainInv'
  BY <1>1, <1>4, <1>5 DEF CrankInv, CrankTypes, ChainTypeOK, ChainInv
<1>7. BehindInv' /\ CleanupInv' /\ LockInv' /\ StartupInv' /\ LateInv'
  BY <1>1, <1>4, <1>5
     DEF BehindInv, CleanupInv, CleanupPCs, LockInv, StartupInv, LateInv
<1>8. QED
  BY <1>6, <1>7 DEF CrankInv

\* The background that is recovered at startup holds only rounds behind the current one.
LEMMA RecoverKeeps ==
    ASSUME CrankInv, RecoverBackgroundRounds
    PROVE  CrankInv'
PROOF
<1>1. /\ pc = "recover" /\ pc' = "idle" /\ UNCHANGED <<chain, job, late, faults>>
      /\ \E ids \in SUBSET {i \in RoundIds : Recoverable(i)} : mem' = Tracked(mem, ids)
  <2> DEFINE ids == {i \in RoundIds : /\ mem.cur > 1
                                      /\ i >= mem.cur - STARTUP_BACKFILL_SCAN_ROUNDS
                                      /\ i <= mem.cur
                                      /\ Recoverable(i)}
  <2>1. mem' = Tracked(mem, ids) /\ ids \in SUBSET {i \in RoundIds : Recoverable(i)}
    BY DEF RecoverBackgroundRounds
  <2> HIDE DEF ids
  <2>2. QED
    BY <2>1, Zenon DEF RecoverBackgroundRounds
<1>2. PICK ids \in SUBSET {i \in RoundIds : Recoverable(i)} : mem' = Tracked(mem, ids)
  BY <1>1
<1>3. mem \in Memories /\ job \in Jobs /\ ids \in SUBSET RoundIds
  BY DEF CrankInv, CrankTypes
<1>4. mem' \in Memories /\ mem'.background = mem.background \cup ids
  BY <1>2, <1>3, TrackedFacts
<1>5. mem.background = {} /\ job.queue = {} /\ late = NoTx
  BY <1>1 DEF CrankInv, StartupInv
<1>6. ASSUME faults = 0 PROVE ids = {}
  BY <1>1, <1>6 DEF CrankInv, StartupInv, Recoverable, Account
<1>7. CrankTypes' /\ ChainInv'
  BY <1>1, <1>3, <1>4 DEF CrankInv, CrankTypes, ChainTypeOK, ChainInv
<1>8. BehindInv' /\ CleanupInv' /\ LockInv' /\ StartupInv' /\ LateInv'
  BY <1>1, <1>4, <1>5, <1>6
     DEF BehindInv, OnlyGrown, CleanupInv, CleanupPCs, LockInv, StartupInv, LateInv
<1>9. QED
  BY <1>7, <1>8 DEF CrankInv

-----------------------------------------------------------------------------
(* Late transactions. *)

\* The outcome of a transaction is not learned.
LEMMA BecomesLate ==
    ASSUME CrankInv, MaxFaults <= 1, NEW kind \in {"start", "lock", "vrf", "close"},
           NEW id \in RoundIds, Unknown(kind, id), chain' = chain,
           mem' \in Memories, mem'.cur = mem.cur, mem'.background = mem.background,
           job' \in Jobs, job'.queue = job.queue,
           pc' \in {"background", "startRecheck", "lockRecheck", "idle"},
           kind = "lock" => /\ BufferOver(id)
                            /\ id <= mem.cur
                            /\ chain[id].status = "ABSENT" => id < mem.cur,
           kind = "close" => /\ id < mem.cur
                             /\ chain[id].status \in {"CLAIMED", "CANCELLED", "ABSENT"}
                             /\ chain[id].record = {}
    PROVE  CrankInv'
PROOF
<1>1. /\ faults = 0 /\ faults' = 1 /\ MaxFaults = 1
      /\ late' = [kind |-> kind, id |-> id]
  <2>1. faults \in Nat /\ faults < MaxFaults /\ faults' = faults + 1
    BY DEF Unknown, Fault, CrankInv, CrankTypes
  <2>2. faults = 0 /\ MaxFaults = 1
    BY <2>1, CrankAssumption
  <2>3. late = NoTx
    BY <2>2, Zenon DEF CrankInv, LateInv
  <2>4. QED
    BY <2>1, <2>2, <2>3 DEF Unknown
<1>2. CrankTypes' /\ ChainInv'
  BY <1>1 DEF CrankInv, CrankTypes, ChainTypeOK, ChainInv
<1>3. BehindInv'
  BY <1>1 DEF CrankInv, BehindInv, OnlyGrown
<1>4. CleanupInv' /\ LockInv' /\ StartupInv'
  BY Zenon DEF CleanupInv, CleanupPCs, LockInv, StartupInv
<1>5. late'.kind = kind /\ late'.id = id
  BY <1>1
<1>6. LateInv'
  BY <1>1, <1>5 DEF LateInv, BufferOver
<1>7. QED
  BY <1>2, <1>3, <1>4, <1>6 DEF CrankInv

\* A transaction of unknown outcome may still land; as faults are few it is the only one.
LEMMA UnknownKeeps ==
    ASSUME CrankInv, MaxFaults <= 1,
           CloseRoundUnknown \/ StartRoundUnknown \/ LockAndVrfUnknown \/ RequestVrfUnknown
    PROVE  CrankInv'
PROOF
<1>1. mem \in Memories /\ job \in Jobs /\ faults \in Nat /\ mem.cur \in Nat
  BY DEF CrankInv, CrankTypes, Memories
<1>2. faults = 0
  BY <1>1, CrankAssumption
     DEF CloseRoundUnknown, StartRoundUnknown, LockAndVrfUnknown, RequestVrfUnknown, Unknown, Fault
<1>3. CASE StartRoundUnknown
  BY <1>1, <1>3, BecomesLate DEF StartRoundUnknown
<1>4. CASE RequestVrfUnknown
  <2>1. mem.cur \in RoundIds
    BY <1>4 DEF RequestVrfUnknown, CrankInv, LockInv
  <2>2. QED
    BY <1>1, <1>4, <2>1, BecomesLate DEF RequestVrfUnknown
<1>5. CASE LockAndVrfUnknown
  <2>1. /\ mem.cur \in RoundIds /\ BufferOver(mem.cur) /\ chain[mem.cur].status # "ABSENT"
        /\ mem.cur <= mem.cur
    BY <1>1, <1>2, <1>5 DEF LockAndVrfUnknown, CrankInv, LockInv, Locking
  <2>2. QED
    BY <1>1, <1>5, <2>1, BecomesLate DEF LockAndVrfUnknown
<1>6. CASE CloseRoundUnknown
  <2>1. /\ job.id \in RoundIds /\ job.id < mem.cur
        /\ chain[job.id].status \in {"CLAIMED", "CANCELLED", "ABSENT"}
        /\ chain[job.id].record = {}
    BY <1>2, <1>6, Zenon DEF CloseRoundUnknown, CrankInv, CleanupInv, CleanupPCs, Cleaning, OnlyGrown
  <2>2. EndPass(Scheduled(mem, job.id, Failed("close_round_failed")))
    BY <1>6 DEF CloseRoundUnknown
  <2>3. /\ mem' \in Memories /\ mem'.cur = mem.cur /\ mem'.background = mem.background
        /\ pc' = "background"
    BY <1>1, <2>1, <2>2, ScheduledFacts DEF EndPass
  <2>4. job' \in Jobs /\ job'.queue = job.queue
    BY <1>1, <2>2, QueueFacts DEF EndPass, Jobs
  <2>5. QED
    BY <1>6, <2>1, <2>3, <2>4, BecomesLate DEF CloseRoundUnknown
<1>7. QED
  BY <1>3, <1>4, <1>5, <1>6

\* What a late transaction may do to a round: one that is over stays as it is or is closed,
\* and none is opened but by a late start.
Lands(i) ==
    /\ chain'[i] \in Rounds
    /\ chain'[i].staked = chain[i].staked /\ chain'[i].record = chain[i].record
    /\ chain'[i].status = "ABSENT" => ~chain'[i].ends \/ chain'[i] = chain[i]
    /\ chain[i].status \in {"CLAIMED", "CANCELLED", "ABSENT"}
           => \/ chain'[i].status \in {"CLAIMED", "CANCELLED", "ABSENT"}
              \/ chain[i].status = "ABSENT" /\ ~NoLateStart(i)
    /\ chain'[i].status = "OPEN"
           => \/ chain'[i] = chain[i]
              \/ chain[i].status = "ABSENT" /\ ~NoLateStart(i)

\* The late transaction has landed or expired: the only fault is over.
LEMMA LateGone ==
    ASSUME CrankInv, late # NoTx, late' = NoTx, UNCHANGED <<mem, pc, job, faults>>,
           DOMAIN chain' = RoundIds, chain' = [i \in DOMAIN chain' |-> chain'[i]],
           \A i \in RoundIds : Lands(i)
    PROVE  CrankInv'
PROOF
<1>1. /\ faults # 0 /\ pc \notin {"down", "recover"} /\ ~OnlyGrown'
      /\ \A i : NoLateStart(i)'
  BY Zenon DEF CrankInv, LateInv, StartupInv, OnlyGrown, NoLateStart, NoTx
<1>2. chain' \in [RoundIds -> Rounds]
  BY Zenon DEF Lands
<1>3. CrankTypes' /\ ChainInv'
  BY <1>2 DEF CrankInv, CrankTypes, ChainTypeOK, ChainInv, Lands
<1>4. BehindInv' /\ StartupInv' /\ LateInv'
  BY <1>1 DEF BehindInv, StartupInv, LateInv
<1>5. CleanupInv'
  <2>1. ASSUME pc \in CleanupPCs
        PROVE  Cleaning' /\ chain'[job.id].record = chain[job.id].record
    <3>1. Cleaning /\ job.id \in RoundIds
      BY <2>1, Zenon DEF CrankInv, CleanupInv, Cleaning
    <3>2. Lands(job.id)
      BY <3>1
    <3>3. QED
      BY <1>1, <3>1, <3>2, Zenon DEF Cleaning, Lands
  <2>2. QED
    BY <2>1, Zenon DEF CrankInv, CleanupInv, CleanupPCs
<1>6. LockInv'
  <2>1. ASSUME pc \in {"lockCheck", "lock"} PROVE Locking'
    <3>1. Locking /\ mem.cur \in RoundIds
      BY <2>1 DEF CrankInv, LockInv
    <3>2. Lands(mem.cur)
      BY <3>1
    <3>3. QED
      BY <1>1, <3>1, <3>2, Zenon DEF Locking, Lands, BufferOver
  <2>2. QED
    BY <2>1, Zenon DEF CrankInv, LockInv
<1>7. QED
  BY <1>3, <1>4, <1>5, <1>6, Zenon DEF CrankInv

\* A late transaction lands on the round that it was sent for, or expires.
LEMMA LateKeeps ==
    ASSUME CrankInv, LateLands \/ LateExpires
    PROVE  CrankInv'
PROOF
<1> DEFINE k == late.id
           r == chain[k]
<1>1. /\ late # NoTx /\ late' = NoTx /\ UNCHANGED <<mem, pc, job, faults>>
      /\ k \in RoundIds /\ r \in Rounds /\ chain \in [RoundIds -> Rounds]
  BY DEF LateLands, LateExpires, CrankInv, CrankTypes, ChainTypeOK, LateInv
<1>2. CASE chain' = chain
  <2>1. \A i \in RoundIds : Lands(i)
    BY <1>1, <1>2 DEF Lands
  <2>2. QED
    BY <1>1, <1>2, <2>1, LateGone
<1>3. ASSUME NEW q \in Rounds, SetRound(k, q), q.staked = r.staked, q.record = r.record,
             q.status = "ABSENT" => ~q.ends,
             r.status \in {"CLAIMED", "CANCELLED", "ABSENT"}
                 => \/ q.status \in {"CLAIMED", "CANCELLED", "ABSENT"}
                    \/ r.status = "ABSENT" /\ ~NoLateStart(k),
             q.status = "OPEN" => r.status = "ABSENT" /\ ~NoLateStart(k)
      PROVE  CrankInv'
  <2>1. chain' = [chain EXCEPT ![k] = q]
    BY <1>3 DEF SetRound
  <2>2. \A i \in RoundIds : chain'[i] = IF i = k THEN q ELSE chain[i]
    BY <1>1, <2>1
  <2>3. ASSUME NEW i \in RoundIds PROVE Lands(i)
    <3>1. CASE i = k
      BY <1>3, <2>2, <3>1, Zenon DEF Lands
    <3>2. CASE i # k
      BY <1>1, <2>2, <3>2 DEF Lands
    <3>3. QED
      BY <3>1, <3>2, Zenon
  <2>4. DOMAIN chain' = RoundIds /\ chain' = [i \in DOMAIN chain' |-> chain'[i]]
    BY <1>1, <2>1, Zenon
  <2>5. QED
    BY <1>1, <2>3, <2>4, LateGone
<1>4. CASE late.kind = "start" /\ CanStart(k) /\ SetRound(k, Started(r))
  BY <1>1, <1>3, <1>4 DEF Started, CanStart, Rounds, NoLateStart
<1>5. CASE r.status \in {"OPEN", "LOCKED"} /\ SetRound(k, InStatus(r, "VRF_REQUESTED"))
  BY <1>1, <1>3, <1>5, Zenon DEF InStatus, Rounds
<1>6. CASE Terminal(r) /\ SetRound(k, RoundClosed(r))
  <2>1. RoundClosed(r) \in Rounds
    BY <1>1, AbsentFacts, Zenon DEF RoundClosed, Absent, Rounds
  <2>2. QED
    BY <1>1, <1>3, <1>6, <2>1, Zenon DEF RoundClosed, Absent
<1>7. QED
  BY <1>2, <1>4, <1>5, <1>6 DEF LateLands, LateExpires, CanLock, CanRequestVrf

-----------------------------------------------------------------------------
(* The invariant. *)

\* The invariant holds before the first process starts.
LEMMA InitCrank ==
    ASSUME Init
    PROVE  CrankInv
PROOF
<1>1. chain \in [RoundIds -> Rounds] /\ \A i \in RoundIds : chain[i] = Absent
  BY AbsentFacts DEF Init, ChainInit
<1>2. CrankTypes
  BY <1>1, NoMemoryFacts, NoJobFacts DEF Init, CrankTypes, ChainTypeOK
<1>3. ChainInv
  BY <1>1 DEF ChainInv, Absent
<1>4. BehindInv /\ CleanupInv /\ LockInv /\ LateInv
  BY Zenon DEF Init, BehindInv, CleanupInv, CleanupPCs, LockInv, LateInv, NoMemory, NoJob
<1>5. StartupInv
  BY <1>1 DEF Init, StartupInv, NoMemory, NoJob, Absent
<1>6. QED
  BY <1>2, <1>3, <1>4, <1>5 DEF CrankInv

\* Every step keeps the invariant: of the crank, of a fault, of a late transaction, of
\* somebody else, of the clock.
LEMMA StepKeeps ==
    ASSUME MaxFaults <= 1, Counting, ScansAreSound, CrankInv, [Next]_vars
    PROVE  CrankInv'
PROOF
<1>1. CASE UNCHANGED vars
  <2>1. UNCHANGED <<chain, mem, job, pc, late, faults>>
    BY <1>1, Zenon DEF vars
  <2>2. CrankTypes' /\ ChainInv'
    BY <2>1, Zenon DEF CrankInv, CrankTypes, ChainTypeOK, ChainInv
  <2>3. BehindInv' /\ StartupInv' /\ LateInv'
    BY <2>1, Zenon DEF CrankInv, BehindInv, OnlyGrown, StartupInv, LateInv, BufferOver
  <2>4. CleanupInv'
    BY <2>1, Zenon DEF CrankInv, CleanupInv, Cleaning, NoLateStart, OnlyGrown, CleanupPCs
  <2>5. LockInv'
    BY <2>1, Zenon DEF CrankInv, LockInv, Locking, BufferOver, OnlyGrown, NoLateStart
  <2>6. QED
    BY <2>2, <2>3, <2>4, <2>5, Zenon DEF CrankInv
<1>2. CASE CrankStep
  BY <1>2, FindActiveRoundKeeps, RecoverKeeps, BeginTickKeeps, FetchBackgroundKeeps, ArchiveKeeps,
     FetchParticipantsKeeps, CloseParticipantKeeps, RecheckRoundKeeps, CloseRoundKeeps,
     FetchCurrentKeeps, ChecksKeep, StartRoundKeeps, CheckLockKeeps, LockAndVrfKeeps, Zenon
     DEF CrankStep
<1>3. CASE CrankFault
  BY <1>3, ArchiveKeeps, CloseParticipantKeeps, UnknownKeeps, ReadFailsKeep, CrashKeeps, Zenon
     DEF CrankFault
<1>4. QED
  BY <1>1, <1>2, <1>3, LateKeeps, OthersKeep, Zenon DEF Next

-----------------------------------------------------------------------------
(* What reaches the chain. *)

\* One instruction of the program, on one round.  Of the crank's own, the lock comes after
\* the buffer and the close when nobody has a stake.
Instruction(i) ==
    \/ CanStart(i) /\ SetRound(i, Started(chain[i]))
    \/ \E u \in Users :
           \/ UserDeposits(i, u) \/ UserLeaves(i, u) \/ UserRefunded(i, u)
           \/ /\ CanCloseParticipant(chain[i], u)
              /\ SetRound(i, ParticipantClosed(chain[i], u))
    \/ OracleDraws(i) \/ WinnerClaims(i) \/ AdminCancels(i) \/ OtherLocks(i)
    \/ /\ CanLock(chain[i]) /\ BufferOver(i)
       /\ SetRound(i, InStatus(chain[i], "VRF_REQUESTED"))
    \/ CanRequestVrf(chain[i]) /\ SetRound(i, InStatus(chain[i], "VRF_REQUESTED"))
    \/ /\ Terminal(chain[i]) /\ chain[i].staked = {}
       /\ SetRound(i, RoundClosed(chain[i]))

ChainStep == chain' = chain \/ TimeOfChain \/ \E i \in RoundIds : Instruction(i)

\* Every step sends the chain at most one instruction, or lets a second pass.
LEMMA StepsAreInstructions ==
    ASSUME CrankInv, [Next]_vars
    PROVE  ChainStep
PROOF
<1>1. CASE Others \/ Second
  BY <1>1 DEF Others, Second, ChainStep, Instruction
<1>2. CASE LateLands
  <2>1. late # NoTx /\ late.id \in RoundIds
    BY <1>2 DEF LateLands, CrankInv, LateInv
  <2>2. late.kind = "lock" => BufferOver(late.id)
    BY <2>1 DEF CrankInv, LateInv
  <2>3. late.kind = "close" => chain[late.id].staked = {}
    BY <2>1, Zenon DEF CrankInv, LateInv, ChainInv
  <2>4. chain' = chain \/ Instruction(late.id)
    BY <1>2, <2>2, <2>3, Zenon DEF LateLands, Instruction
  <2>5. QED
    BY <2>1, <2>4 DEF ChainStep
<1>3. ASSUME NEW u \in Users, CloseParticipant(u) \/ CloseParticipantUnknown(u)
      PROVE  ChainStep
  <2>1. job.id \in RoundIds
    BY <1>3
       DEF CloseParticipant, CloseParticipantUnknown, CrankInv, CleanupInv, CleanupPCs, Cleaning
  <2>2. QED
    BY <1>3, <2>1 DEF CloseParticipant, CloseParticipantUnknown, ChainStep, Instruction
<1>4. CASE CloseRound
  <2>1. job.id \in RoundIds /\ chain[job.id].record = {}
    BY <1>4, Zenon DEF CloseRound, CrankInv, CleanupInv, CleanupPCs, Cleaning
  <2>2. chain[job.id].staked = {}
    BY <2>1 DEF CrankInv, ChainInv
  <2>3. QED
    BY <1>4, <2>1, <2>2, Zenon DEF CloseRound, ChainStep, Instruction
<1>5. CASE StartRound
  BY <1>5 DEF StartRound, CanStart, ChainStep, Instruction
<1>6. CASE LockAndVrf
  <2>1. mem.cur \in RoundIds /\ BufferOver(mem.cur) /\ Account(mem.cur) = chain[mem.cur]
    BY <1>6 DEF LockAndVrf, CrankInv, LockInv, Locking, Account
  <2>2. QED
    BY <1>6, <2>1 DEF LockAndVrf, ChainStep, Instruction
<1>7. CASE RequestVrf
  <2>1. mem.cur \in RoundIds /\ Account(mem.cur) = chain[mem.cur]
    BY <1>7 DEF RequestVrf, CrankInv, LockInv, Account
  <2>2. QED
    BY <1>7, <2>1 DEF RequestVrf, ChainStep, Instruction
<1>8. CASE chain' = chain
  BY <1>8 DEF ChainStep
<1>9. CASE CrankStep
  BY <1>3, <1>4, <1>5, <1>6, <1>7, <1>8, <1>9, Zenon
     DEF CrankStep, FindActiveRound, RecoverBackgroundRounds, BeginTick, FetchBackground,
         BackgroundDone, ArchiveRound, FetchParticipants, RecheckRound, FetchCurrent, CheckStart,
         RecheckStart, CheckLock, RecheckLock, CheckVrf
<1>10. CASE CrankFault
  BY <1>3, <1>8, <1>10
     DEF CrankFault, ArchiveFault, CloseRoundUnknown, StartRoundUnknown, LockAndVrfUnknown,
         RequestVrfUnknown, BackgroundReadFails, CurrentReadFails, Crash
<1>11. QED
  BY <1>1, <1>2, <1>8, <1>9, <1>10 DEF Next, vars, LateExpires

\* An instruction sets its own round and leaves the others.
LEMMA SetRoundFacts ==
    ASSUME CrankInv, NEW k \in RoundIds, NEW q, SetRound(k, q)
    PROVE  \A i \in RoundIds : chain'[i] = IF i = k THEN q ELSE chain[i]
PROOF
BY DEF SetRound, CrankInv, CrankTypes, ChainTypeOK

\* A round that goes from open to its draw in one step is over its buffer.
LEMMA LockStep ==
    ASSUME CrankInv, ChainStep, NEW i \in RoundIds,
           chain[i].status = "OPEN", chain'[i].status = "VRF_REQUESTED"
    PROVE  chain[i].left <= -LOCK_BUFFER_SEC
PROOF
<1>1. chain[i] \in Rounds
  BY DEF CrankInv, CrankTypes, ChainTypeOK
<1>2. CASE TimeOfChain
  BY <1>1, <1>2, Zenon DEF TimeOfChain, SecondPasses, Rounds
<1>3. ASSUME NEW k \in RoundIds, Instruction(k), k # i PROVE FALSE
  <2>1. PICK q : SetRound(k, q)
    BY <1>3, Zenon DEF Instruction, UserDeposits, UserLeaves, UserRefunded, OracleDraws, WinnerClaims,
       AdminCancels, OtherLocks
  <2>2. QED
    BY <1>3, <2>1, SetRoundFacts
<1>4. CASE Instruction(i)
  <2> DEFINE r == chain[i]
  <2>1. ASSUME NEW q, SetRound(i, q) PROVE chain'[i] = q
    BY <2>1, SetRoundFacts
  <2>2. CASE BufferOver(i)
    BY <2>2 DEF BufferOver
  <2>3. CASE CanStart(i) \/ CanRequestVrf(r) \/ Terminal(r)
    BY <2>3, Zenon DEF CanStart, CanRequestVrf, Terminal
  <2>4. ASSUME NEW u \in Users,
               \/ UserDeposits(i, u) \/ UserLeaves(i, u) \/ UserRefunded(i, u)
               \/ CanCloseParticipant(r, u)
        PROVE  FALSE
    <3>1. CASE UserDeposits(i, u)
      <4>1. chain'[i] = Deposited(r, u)
        BY <2>1, <3>1 DEF UserDeposits
      <4>2. QED
        BY <1>1, <4>1, Zenon DEF Deposited, Rounds
    <3>2. CASE UserLeaves(i, u)
      <4>1. chain'[i] = Left(r, u)
        BY <2>1, <3>2 DEF UserLeaves
      <4>2. QED
        BY <1>1, <4>1 DEF Left, Rounds
    <3>3. QED
      BY <2>4, <3>1, <3>2 DEF UserRefunded, CanRefund, CanCloseParticipant, Terminal
  <2>5. CASE OracleDraws(i) \/ WinnerClaims(i)
    BY <2>5 DEF OracleDraws, WinnerClaims
  <2>6. CASE AdminCancels(i) \/ OtherLocks(i)
    <3>1. chain'[i] = InStatus(r, "CANCELLED") \/ chain'[i] = InStatus(r, "LOCKED")
      BY <2>1, <2>6 DEF AdminCancels, OtherLocks
    <3>2. QED
      BY <1>1, <3>1, Zenon DEF InStatus, Rounds
  <2>7. QED
    BY <1>4, <2>2, <2>3, <2>4, <2>5, <2>6, Zenon DEF Instruction
<1>5. QED
  BY <1>2, <1>3, <1>4 DEF ChainStep

=============================================================================

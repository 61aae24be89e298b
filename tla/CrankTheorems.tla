---------------------------- MODULE CrankTheorems ----------------------------
(***************************************************************************)
(* What is proved of the crank and the rounds that it drives, for every    *)
(* number of rounds, of players and of seconds: the invariant of           *)
(* CrankProofs, the lock after the buffer, the recovery of CrankRecovery   *)
(* and the contract of every round.  First come the facts that the lemmas  *)
(* of those two modules name as hypotheses: how subsets of the players are *)
(* counted, and that the scan of findActiveRound reports what it saw.      *)
(***************************************************************************)
EXTENDS CrankRecovery, TreeTheorems, FiniteSetTheorems

\* A leaf that names no prover is given to SMT, for so many seconds at most.
USE SMTT(60)

-----------------------------------------------------------------------------
(* Counting. *)

\* The participant records of a round are finitely many.
LEMMA RecordsFinite ==
    \A T \in SUBSET Users : IsFiniteSet(T) /\ Cardinality(T) \in Nat
PROOF
<1>1. IsFiniteSet(Users)
  BY ChainAssumption, FS_Interval DEF Users
<1>2. QED
  BY <1>1, FS_Subset, FS_CardinalityType

\* Closing one record leaves one less, and there is none left at zero.
LEMMA CountingHolds == Counting
PROOF
<1> SUFFICES ASSUME NEW T \in SUBSET Users
             PROVE  /\ Cardinality(T) \in Nat
                    /\ Cardinality(T) = 0 <=> T = {}
                    /\ \A u \in T : Cardinality(T \ {u}) = Cardinality(T) - 1
                    /\ \A R \in SUBSET T : Cardinality(R) <= Cardinality(T)
  BY Zenon DEF Counting
<1>1. IsFiniteSet(T) /\ Cardinality(T) \in Nat
  BY RecordsFinite
<1>2. Cardinality(T) = 0 <=> T = {}
  BY <1>1, FS_EmptySet, Zenon
<1>3. \A u \in T : Cardinality(T \ {u}) = Cardinality(T) - 1
  BY <1>1, FS_RemoveElement, Zenon
<1>4. \A R \in SUBSET T : Cardinality(R) <= Cardinality(T)
  BY <1>1, FS_Subset
<1>5. QED
  BY <1>1, <1>2, <1>3, <1>4, Zenon

\* The last of some rounds is one of them.
LEMMA MaximaHold == Maxima
PROOF
<1> SUFFICES ASSUME NEW T \in SUBSET RoundIds
             PROVE  Max(T \cup {0}) \in T \cup {0}
  BY Zenon DEF Maxima
<1> DEFINE S == T \cup {0}
           Below == {MaxRound - i : i \in S}
<1>1. MaxRound \in Nat /\ \A i \in S : i \in Nat /\ i <= MaxRound
  BY ChainAssumption DEF RoundIds
<1>2. Below \subseteq Nat /\ Below # {}
  BY <1>1
<1>3. PICK m \in Below : \A k \in Below : m <= k
  <2> HIDE DEF Below
  <2>1. QED
    BY <1>2, LeastElement, Zenon
<1>4. PICK i \in S : m = MaxRound - i
  BY <1>3
<1>5. \A k \in S : MaxRound - i <= MaxRound - k
  BY <1>3, <1>4
<1>6. \A k \in S : i >= k
  BY <1>1, <1>5
<1> HIDE DEF S, Below
<1>7. Max(S) \in S
  BY <1>6, Zenon DEF Max
<1>8. QED
  BY <1>7 DEF S

-----------------------------------------------------------------------------
(* The scan. *)

\* What the scan for a round knows, when it is true of the accounts.
Scans == [maxExisting : Nat, activeRound : Nat, nullStreak : Nat, over : BOOLEAN]
SoundScans == {scan \in Scans : SoundScan(scan)}

\* An account that is read as it is keeps the scan sound.
LEMMA SeeEntryFacts ==
    ASSUME NEW scan \in SoundScans, NEW id \in Nat
    PROVE  SeeEntry(scan, id, Account(id).status) \in SoundScans
PROOF
<1> DEFINE entry == Account(id).status
           over == scan.maxExisting > 0 /\ scan.nullStreak + 1 >= NULL_STREAK_LIMIT
<1>1. scan \in Scans /\ SoundScan(scan)
  BY Zenon DEF SoundScans
<1>2. scan.nullStreak + 1 \in Nat /\ 0 \in Nat /\ over \in BOOLEAN
  BY <1>1 DEF Scans
<1> HIDE DEF over
<1>3. CASE scan.over
  BY <1>3, Zenon DEF SeeEntry
<1>4. CASE ~scan.over /\ entry = "ABSENT"
  <2>1. SeeEntry(scan, id, entry) = [scan EXCEPT !.nullStreak = @ + 1, !.over = over]
    BY <1>4, Zenon DEF SeeEntry, over
  <2>2. SeeEntry(scan, id, entry) \in Scans
    BY <1>1, <1>2, <2>1, Zenon DEF Scans
  <2>3. /\ SeeEntry(scan, id, entry).activeRound = scan.activeRound
        /\ SeeEntry(scan, id, entry).maxExisting = scan.maxExisting
    BY <1>1, <2>1 DEF Scans
  <2>4. QED
    BY <1>1, <2>2, <2>3, Zenon DEF SoundScans, SoundScan
<1>5. CASE ~scan.over /\ entry = "INVALID"
  <2>1. SeeEntry(scan, id, entry) = [scan EXCEPT !.nullStreak = 0]
    BY <1>5 DEF SeeEntry
  <2>2. SeeEntry(scan, id, entry) \in Scans
    BY <1>1, <1>2, <2>1 DEF Scans
  <2>3. /\ SeeEntry(scan, id, entry).activeRound = scan.activeRound
        /\ SeeEntry(scan, id, entry).maxExisting = scan.maxExisting
    BY <1>1, <2>1 DEF Scans
  <2>4. QED
    BY <1>1, <2>2, <2>3, Zenon DEF SoundScans, SoundScan
<1>6. CASE ~scan.over /\ entry # "ABSENT" /\ entry # "INVALID"
  <2> DEFINE active == IF isActiveRoundStatus(entry) THEN id ELSE scan.activeRound
  <2>1. SeeEntry(scan, id, entry)
            = [scan EXCEPT !.nullStreak = 0, !.maxExisting = id, !.activeRound = active]
    BY <1>6, Zenon DEF SeeEntry
  <2>2. active \in Nat
    BY <1>1 DEF Scans
  <2>3. active # 0 => isActiveRoundStatus(Account(active).status)
    BY <1>1, Zenon DEF SoundScan
  <2>4. active = 0 /\ id # 0 => ~isActiveRoundStatus(entry)
    BY Zenon
  <2> HIDE DEF active
  <2>5. SeeEntry(scan, id, entry) \in Scans
    BY <1>1, <1>2, <2>1, <2>2, Zenon DEF Scans
  <2>6. SeeEntry(scan, id, entry).activeRound = active /\ SeeEntry(scan, id, entry).maxExisting = id
    BY <1>1, <2>1 DEF Scans
  <2>7. QED
    BY <1>6, <2>2, <2>3, <2>4, <2>5, <2>6, Zenon DEF SoundScans, SoundScan
<1>7. QED
  BY <1>3, <1>4, <1>5, <1>6, Zenon

\* findActiveRound reports an active round only when there is one, and otherwise the last
\* round that it found, which is over.
LEMMA ScanIsSound == ScansAreSound
PROOF
<1> SUFFICES ASSUME NEW archivedMax \in 0..MaxRound
             PROVE  SoundScan(ScanAt(archivedMax))
  BY Zenon DEF ScansAreSound
<1> DEFINE base == ScanFrom(archivedMax)
           entries == [k \in 1..BATCH |-> Account(base + k - 1).status]
           S == 0..BATCH
           F(h) == [k \in 0..BATCH |-> IF k = 0 THEN ScanStart
                                       ELSE SeeEntry(h[k - 1], base + k - 1, entries[k])]
           rank == [k \in S |-> k]
           first == [k \in S |-> ScanStart]
           pred == [k \in S |-> IF k = 0 THEN 0 ELSE k - 1]
           see == [k \in S |-> [v \in SoundScans |->
                      IF k = 0 THEN v ELSE SeeEntry(v, base + k - 1, Account(base + k - 1).status)]]
           seen == CHOOSE h : h = F(h)
<1>0. base \in Nat
  BY DEF ScanFrom
<1> HIDE DEF base
<1>1. /\ rank \in [S -> Nat] /\ pred \in [S -> S] /\ BATCH \in S
      /\ BATCH \in Nat /\ \A x \in S : rank[x] <= BATCH
      /\ \A x \in S : x \notin {0} => rank[pred[x]] < rank[x]
  BY ScanAssumption
<1>2. ScanStart \in SoundScans
  BY DEF ScanStart, SoundScans, Scans, SoundScan
<1>3. first \in [S -> SoundScans]
  BY <1>2
<1>4. see \in [S -> [SoundScans -> SoundScans]]
  <2>1. \A k \in S : k # 0 => base + k - 1 \in Nat
    BY <1>0, ScanAssumption
  <2>2. QED
    BY <2>1, SeeEntryFacts
<1>5. IsRecursion(S, SoundScans, rank, BATCH, {0}, first, pred, see)
  <2> HIDE DEF S, rank, first, pred, see
  <2>1. QED
    BY <1>1, <1>3, <1>4 DEF IsRecursion
<1>6. PICK f \in [S -> SoundScans] : \A x \in S : Recurs(f, x, {0}, first, pred, see)
  <2> HIDE DEF S, rank, first, pred, see
  <2>1. QED
    BY <1>5, RecursionExists
<1>7. \A h : \A x \in S : x \in {0} \/ h[pred[x]] \in SoundScans =>
          (Recurs(h, x, {0}, first, pred, see) <=> h[x] = F(h)[x])
  <2> SUFFICES ASSUME NEW h, NEW x \in S, x \in {0} \/ h[pred[x]] \in SoundScans
               PROVE  Recurs(h, x, {0}, first, pred, see) <=> h[x] = F(h)[x]
    BY Zenon
  <2>1. CASE x = 0
    BY <2>1 DEF Recurs
  <2>2. CASE x # 0
    <3>1. h[x - 1] \in SoundScans /\ pred[x] = x - 1 /\ x \in 1..BATCH
      BY <2>2
    <3>2. see[x][h[x - 1]] = SeeEntry(h[x - 1], base + x - 1, Account(base + x - 1).status)
      BY <2>2, <3>1, Zenon
    <3>3. F(h)[x] = SeeEntry(h[x - 1], base + x - 1, Account(base + x - 1).status)
      BY <2>2, <3>1, Zenon
    <3> HIDE DEF see, pred, first, F
    <3>4. QED
      BY <2>2, <3>1, <3>2, <3>3 DEF Recurs
  <2>3. QED
    BY <2>1, <2>2
<1>8. f = F(f)
  <2>1. \A x \in S : f[x] = F(f)[x]
    <3>1. \A x \in S : f[pred[x]] \in SoundScans
      BY <1>1, <1>6, Zenon
    <3> HIDE DEF F, pred, see, first, S
    <3>2. QED
      BY <1>6, <1>7, <3>1
  <2>2. QED
    BY <2>1
<1>9. seen = F(seen)
  <2> HIDE DEF F
  <2>1. QED
    BY <1>8, Zenon
<1>10. \A x \in S : seen[x] \in SoundScans
  <2>1. \A x \in S : seen[x] = F(seen)[x]
    BY <1>9, Zenon
  <2>2. \A x \in S : x \in {0} \/ seen[pred[x]] \in SoundScans
                        => Recurs(seen, x, {0}, first, pred, see)
    <3> HIDE DEF F, pred, see, first, S, seen
    <3>1. QED
      BY <2>1, <1>7
  <2> HIDE DEF S, rank, first, pred, see, seen
  <2>3. QED
    BY <1>5, <2>2, RecursionTyped
<1>11. ScanAt(archivedMax) = seen[BATCH]
  BY Zenon DEF ScanAt, SeeBatch, base
<1> HIDE DEF seen
<1>12. seen[BATCH] \in SoundScans
  BY <1>1, <1>10
<1>13. QED
  BY <1>11, <1>12, Zenon DEF SoundScans

-----------------------------------------------------------------------------
(* The invariants. *)

\* The invariant of the crank and the rounds: a round that is being cleaned up is over and
\* is closed only without records (handleTerminalRoundCleanup), one that is being locked is
\* over its buffer (handleLockAndVrf), and a transaction that lands late meets the round it
\* was sent for.  It holds when at most one read, write or process fails.
THEOREM CrankInvariant ==
    ASSUME MaxFaults <= 1
    PROVE  Spec => []CrankInv
PROOF
<1>1. Init => CrankInv
  BY InitCrank
<1>2. CrankInv /\ [Next]_vars => CrankInv'
  BY StepKeeps, CountingHolds, ScanIsSound
<1>3. QED
  BY <1>1, <1>2, PTL DEF Spec

\* The invariant of the crank's memory (runtime.ts): every round in the background is past
\* its lock and its draw, every round behind the current one that has a prize is in the
\* background, and whatever a process loses, the one that follows finds only past rounds
\* behind the round that its scan returns.  It holds when in addition the recovery of
\* recoverBackgroundRoundsOnStartup reaches back to the first round.
THEOREM RecoveryInvariant ==
    ASSUME MaxFaults <= 1, MaxRound <= STARTUP_BACKFILL_SCAN_ROUNDS
    PROVE  Spec => []RecoveryInv
PROOF
<1>1. Init => RecoveryInv
  BY InitRecovery
<1>2. CrankInv /\ RecoveryInv /\ [Next]_vars => RecoveryInv'
  BY StepRecovers, CountingHolds, MaximaHold, ScanIsSound
<1>3. QED
  BY <1>1, <1>2, CrankInvariant, PTL DEF Spec

\* No settled or claimed round is behind the current round without being in the background:
\* no order of a restart, a failed call, a late transaction and the steps of other wallets
\* makes the crank forget one.
THEOREM RoundsRemembered ==
    ASSUME MaxFaults <= 1, MaxRound <= STARTUP_BACKFILL_SCAN_ROUNDS
    PROVE  Spec => []NothingForgotten
PROOF
<1>1. CrankInv /\ RecoveryInv => NothingForgotten
  BY RecoveryImplies
<1>2. QED
  BY <1>1, CrankInvariant, RecoveryInvariant, PTL

\* The background work only archives and closes: no round that still has to be locked or
\* drawn is left to it.
THEOREM BackgroundOnlyCleans ==
    ASSUME MaxFaults <= 1, MaxRound <= STARTUP_BACKFILL_SCAN_ROUNDS
    PROVE  Spec => []BackgroundNeedsNoDraw
PROOF
<1>1. CrankInv /\ RecoveryInv => BackgroundNeedsNoDraw
  BY RecoveryImplies
<1>2. QED
  BY <1>1, CrankInvariant, RecoveryInvariant, PTL

\* handleLockAndVrf sends its transaction LOCK_BUFFER_SEC after the end of the countdown
\* that it read, and no fault, restart or late arrival makes it lock a round sooner.
THEOREM LocksAfterBuffer ==
    ASSUME MaxFaults <= 1
    PROVE  Spec => LockedAfterBuffer
PROOF
<1>1. CrankInv /\ [Next]_vars =>
          [\A i \in RoundIds :
              chain[i].status = "OPEN" /\ chain'[i].status = "VRF_REQUESTED"
                  => chain[i].left <= -LOCK_BUFFER_SEC]_vars
  BY StepsAreInstructions, LockStep
<1>2. QED
  BY <1>1, CrankInvariant, PTL DEF Spec, LockedAfterBuffer

-----------------------------------------------------------------------------
(* The contract of every round. *)

\* The sum of the stakes of one each is their number.
LEMMA StakesAreCounted ==
    ASSUME NEW n \in Nat, NEW T \in SUBSET (1..n)
    PROVE  Sum(n, [u \in 1..n |-> IF u \in T THEN 1 ELSE 0]) = Cardinality(T)
PROOF
<1> DEFINE g == [u \in 1..n |-> IF u \in T THEN 1 ELSE 0]
           s == PrefixSums(n, g)
           Wrong == {m \in 0..n : s[m] # Cardinality(T \cap (1..m))}
<1>1. g \in [1..n -> Int]
  OBVIOUS
<1>2. IsPrefixSums(s, n, g)
  <2> HIDE DEF g
  <2>1. QED
    BY <1>1, PrefixSumsDef
<1> HIDE DEF s
<1>3. SUFFICES ASSUME Wrong # {} PROVE FALSE
  <2>1. T \cap (1..n) = T
    BY Zenon
  <2>2. n \in 0..n /\ (n \in Wrong \/ s[n] = Cardinality(T \cap (1..n)))
    OBVIOUS
  <2>3. Sum(n, g) = s[n]
    BY DEF Sum, s
  <2> HIDE DEF g, Wrong
  <2>4. QED
    BY <2>1, <2>2, <2>3, Zenon DEF g
<1>4. PICK m \in Wrong : \A k \in Wrong : m <= k
  <2>1. Wrong \subseteq Nat
    OBVIOUS
  <2> HIDE DEF Wrong
  <2>2. QED
    BY <1>3, <2>1, LeastElement, Zenon
<1>5. m # 0
  <2>1. T \cap (1..0) = {}
    OBVIOUS
  <2>2. QED
    BY <1>2, <2>1, FS_EmptySet, Zenon DEF IsPrefixSums
<1>6. m - 1 \in 0..n /\ m \in 1..n /\ s[m-1] = Cardinality(T \cap (1..(m-1)))
  BY <1>4, <1>5
<1>7. s[m] = s[m-1] + g[m]
  BY <1>2, <1>6 DEF IsPrefixSums
<1>8. IsFiniteSet(T \cap (1..(m-1)))
  <2>1. IsFiniteSet(1..(m-1))
    BY <1>6, FS_Interval
  <2>2. QED
    BY <2>1, FS_Subset
<1>9. CASE m \in T
  <2>1. T \cap (1..m) = (T \cap (1..(m-1))) \cup {m} /\ m \notin T \cap (1..(m-1))
    BY <1>6, <1>9
  <2>2. Cardinality(T \cap (1..m)) = Cardinality(T \cap (1..(m-1))) + 1
    BY <1>8, <2>1, FS_AddElement
  <2>3. QED
    BY <1>4, <1>6, <1>7, <1>9, <2>2
<1>10. CASE m \notin T
  <2>1. T \cap (1..m) = T \cap (1..(m-1))
    BY <1>6, <1>10
  <2>2. g[m] = 0 /\ s[m-1] \in Int
    BY <1>2, <1>6, <1>10 DEF IsPrefixSums
  <2>3. QED
    BY <1>4, <1>6, <1>7, <2>1, <2>2
<1>11. QED
  BY <1>9, <1>10

\* The contract adds up what the round counts.
LEMMA ContractTotal ==
    ASSUME CrankInv, NEW i \in RoundIds
    PROVE  Contract(i)!Total = Cardinality(chain[i].staked)
PROOF
<1> DEFINE T == chain[i].staked
           st == [u \in Users |-> IF u \in T THEN 1 ELSE 0]
<1>1. T \in SUBSET Users
  BY DEF CrankInv, CrankTypes, ChainTypeOK, Rounds
<1>2. Sum(NumUsers, st) = Cardinality(T)
  BY <1>1, ChainAssumption, StakesAreCounted DEF Users
<1>3. Contract(i)!Total = Sum(NumUsers, st)
  BY DEF Contract!Total, Sum, PrefixSums
<1>4. QED
  BY <1>2, <1>3

\* Whatever the crank read too early, sent twice or lost with its memory, each round keeps
\* the contract that the program keeps (ContractImplemented in JackpotRecords), to which the
\* crank adds that it closes no round with a stake in it (handleTerminalRoundCleanup).
THEOREM CrankKeepsContracts ==
    ASSUME MaxFaults <= 1
    PROVE  Spec => ContractsKept
PROOF
<1>1. Init => \A i \in RoundIds : Contract(i)!ContractInit
  <2>1. SUFFICES ASSUME Init, NEW i \in RoundIds PROVE Contract(i)!ContractInit
    OBVIOUS
  <2>2. chain[i] = Absent
    BY <2>1 DEF Init, ChainInit
  <2>3. QED
    BY <2>2, FS_EmptySet DEF Contract!ContractInit, Absent, Users
<1>2. CrankInv /\ [Next]_vars =>
          [\A i \in RoundIds : [Contract(i)!ContractNext]_(Contract(i)!contractVars)]_vars
  <2>1. CrankInv => ContractTotals
    BY ContractTotal, Zenon DEF ContractTotals
  <2>2. QED
    BY <2>1, StepsAreInstructions, ChainKeepsContracts, CountingHolds
<1>3. QED
  BY <1>1, <1>2, CrankInvariant, PTL DEF Spec, ContractsKept

=============================================================================

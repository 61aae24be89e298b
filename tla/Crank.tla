-------------------------------- MODULE Crank --------------------------------
(***************************************************************************)
(* crank/src/index.ts: the service that starts, locks and cleans up        *)
(* rounds.  It is one thread; every await is a point where the chain moves *)
(* on, so each read of an account and each transaction is a step of its    *)
(* own and what was read is kept in the crank's memory.                    *)
(*                                                                         *)
(* Faults, of which there are at most MaxFaults: the process dies and is   *)
(* started again without its memory, a read fails, the outcome of a        *)
(* transaction is unknown (it then lands later or never), the archive      *)
(* refuses or loses a write.                                               *)
(*                                                                         *)
(* The rounds on chain are one account per round id with its status, the   *)
(* time left of its countdown, and the participant records with what they  *)
(* hold.  Jackpot models the same accounts in detail for one id; the       *)
(* contract both keep is RoundContract.  A user deposits at most one       *)
(* ticket per round, and the configuration does not change.                *)
(*                                                                         *)
(* Times are kept as the seconds that are left (wait) or have passed       *)
(* (vrfAge), so that the clock needs no bound.                             *)
(***************************************************************************)
EXTENDS FiniteSetsExt, CrankLogic

CONSTANTS
    NumUsers,
    MaxRound,           \* bound on the round ids that are started
    MinPlayers,         \* config.min_participants
    MinTickets,         \* config.min_total_tickets
    Duration,           \* config.round_duration_sec
    LOCK_BUFFER_SEC     \* how long after the countdown the crank waits

ASSUME ChainAssumption ==
    /\ NumUsers \in Nat /\ MaxRound \in Nat
    /\ MinPlayers \in Nat \ {0} /\ MinTickets \in Nat \ {0}
    /\ Duration \in Nat \ {0} /\ LOCK_BUFFER_SEC \in Nat

VARIABLE chain

Users == 1..NumUsers
RoundIds == 1..MaxRound

\* ends: end_ts is set.
Absent == [status |-> "ABSENT", ends |-> FALSE, left |-> 0, staked |-> {}, record |-> {}]

ChainInit == chain = [i \in RoundIds |-> Absent]

Rounds ==
    [status : {"ABSENT", "OPEN", "LOCKED", "VRF_REQUESTED", "SETTLED", "CLAIMED", "CANCELLED"},
     ends : BOOLEAN, left : (-LOCK_BUFFER_SEC)..Duration,
     staked : SUBSET Users, record : SUBSET Users]

ChainTypeOK == chain \in [RoundIds -> Rounds]

\* The account of a round id, as an RPC node returns it.
Account(i) == IF i \in RoundIds THEN chain[i] ELSE Absent

Enough(r) == Cardinality(r.record) >= MinPlayers /\ Cardinality(r.staked) >= MinTickets

Terminal(r) == r.status \in {"CLAIMED", "CANCELLED"}

-----------------------------------------------------------------------------
\* The effect of each instruction on the account, and the condition under which the
\* program accepts it.  A closed account keeps its participant records, which are
\* accounts of their own.
CanStart(i) == i \in RoundIds /\ chain[i].status = "ABSENT"
Started(r) == [r EXCEPT !.status = "OPEN"]

CanDeposit(r, u) == r.status = "OPEN" /\ (r.ends => r.left > 0) /\ u \notin r.staked
Deposited(r, u) ==
    LET joined == r.record \cup {u}
    IN  [r EXCEPT !.staked = @ \cup {u},
                  !.record = joined,
                  !.left = IF ~r.ends /\ Cardinality(joined) >= MinPlayers
                           THEN Duration ELSE @,
                  !.ends = @ \/ Cardinality(joined) >= MinPlayers]

CanLeave(r, u) == r.status = "OPEN" /\ r.staked = {u}
Left(r, u) == [r EXCEPT !.status = "CANCELLED", !.staked = {}]

CanLock(r) == r.status = "OPEN" /\ r.record # {} /\ Enough(r) /\ (r.ends => r.left <= 0)
CanRequestVrf(r) == r.status = "LOCKED" /\ Enough(r)

CanForceCancel(r) == r.status \in {"OPEN", "LOCKED", "VRF_REQUESTED"}

CanRefund(r, u) == r.status = "CANCELLED" /\ u \in r.staked
Refunded(r, u) == [r EXCEPT !.staked = @ \ {u}]

CanCloseParticipant(r, u) ==
    u \in r.record /\ Terminal(r) /\ (r.status = "CANCELLED" => u \notin r.staked)
ParticipantClosed(r, u) == [r EXCEPT !.record = @ \ {u}, !.staked = @ \ {u}]

RoundClosed(r) == [Absent EXCEPT !.staked = r.staked, !.record = r.record]

InStatus(r, status) == [r EXCEPT !.status = status]

SetRound(i, r) == chain' = [chain EXCEPT ![i] = r]

-----------------------------------------------------------------------------
\* What players, the winner, the oracle and the administrator do.
UserDeposits(i, u) == CanDeposit(chain[i], u) /\ SetRound(i, Deposited(chain[i], u))
UserLeaves(i, u) == CanLeave(chain[i], u) /\ SetRound(i, Left(chain[i], u))
UserRefunded(i, u) == CanRefund(chain[i], u) /\ SetRound(i, Refunded(chain[i], u))
OracleDraws(i) ==
    chain[i].status = "VRF_REQUESTED" /\ SetRound(i, InStatus(chain[i], "SETTLED"))
WinnerClaims(i) ==
    chain[i].status = "SETTLED" /\ SetRound(i, InStatus(chain[i], "CLAIMED"))
AdminCancels(i) ==
    CanForceCancel(chain[i]) /\ SetRound(i, InStatus(chain[i], "CANCELLED"))

\* Anyone may lock a round whose countdown is over.
OtherLocks(i) == CanLock(chain[i]) /\ SetRound(i, InStatus(chain[i], "LOCKED"))

\* One second of every countdown that runs.
SecondPasses(r) ==
    [r EXCEPT !.left = IF r.ends /\ @ > -LOCK_BUFFER_SEC THEN @ - 1 ELSE @]
TimeOfChain == chain' = [i \in RoundIds |-> SecondPasses(chain[i])]

-----------------------------------------------------------------------------
\* The crank.
CONSTANTS
    VRF_COOLDOWN_SEC,
    PARTICIPANT_CLEANUP_BATCH,
    STARTUP_BACKFILL_SCAN_ROUNDS,
    MaxFaults

ASSUME CrankAssumption ==
    /\ VRF_COOLDOWN_SEC \in Nat
    /\ PARTICIPANT_CLEANUP_BATCH \in Nat \ {0}
    /\ STARTUP_BACKFILL_SCAN_ROUNDS \in Nat
    /\ MaxFaults \in Nat

VARIABLES
    archive,        \* round ids in Firebase
    mem,            \* the module-level state of index.ts
    pc,             \* where the crank is
    job,            \* the local variables of the pass under way
    late,           \* a transaction whose outcome the crank did not learn
    faults          \* faults so far

vars == <<chain, archive, mem, pc, job, late, faults>>

\* currentRoundId, lastLockedRound, lastCreatedRound; backgroundRounds with the time to
\* the next attempt and the backoff of each; archivedRounds; the age of lastVrfSentAt.
NoMemory ==
    [cur |-> 0, lastLocked |-> 0, lastCreated |-> 0, background |-> {},
     wait |-> [i \in RoundIds |-> 0], backoff |-> [i \in RoundIds |-> 0],
     archived |-> {}, vrfAge |-> VRF_COOLDOWN_SEC]

\* The rounds of this pass, the round being cleaned up with the account that was read,
\* the participant records to close, and how many were found and closed.
NoJob ==
    [queue |-> {}, id |-> 0, seen |-> Absent, toClose |-> {}, existing |-> 0, closed |-> 0]

NoTx == [kind |-> "none", id |-> 0]

Init ==
    /\ ChainInit
    /\ archive = {}
    /\ mem = NoMemory
    /\ pc = "down"
    /\ job = NoJob
    /\ late = NoTx
    /\ faults = 0

PCs == {"down", "recover", "idle", "background", "archive", "participants", "closing",
        "close", "current", "startCheck", "start", "startRecheck", "lockCheck", "lock",
        "lockRecheck", "vrfCheck", "vrf"}

TypeOK ==
    /\ ChainTypeOK
    /\ archive \subseteq RoundIds
    /\ mem.cur \in 0..(MaxRound + 1)
    /\ mem.background \subseteq RoundIds /\ mem.archived \subseteq RoundIds
    /\ \A i \in RoundIds : /\ mem.wait[i] \in 0..Greater(CLEANUP_BACKOFF_MAX_SEC, CLOSE_DELAY_SEC)
                           /\ mem.backoff[i] \in 0..CLEANUP_BACKOFF_MAX_SEC
    /\ mem.vrfAge \in 0..VRF_COOLDOWN_SEC
    /\ pc \in PCs
    /\ job.queue \subseteq RoundIds /\ job.id \in 0..MaxRound
    /\ faults \in 0..MaxFaults

Fault == faults < MaxFaults /\ faults' = faults + 1

-----------------------------------------------------------------------------
\* trackBackgroundRound of each of some rounds; one that is tracked already keeps its times.
Tracked(m, ids) ==
    LET new == ids \ m.background
    IN  [m EXCEPT !.background = @ \cup new,
                  !.wait = [i \in RoundIds |-> IF i \in new THEN CLOSE_DELAY_SEC ELSE m.wait[i]],
                  !.backoff = [i \in RoundIds |-> IF i \in new THEN CLEANUP_BACKOFF_MIN_SEC
                                                  ELSE m.backoff[i]]]

\* clearBackgroundRound.
Cleared(m, i) ==
    [m EXCEPT !.background = @ \ {i}, !.archived = @ \ {i}, !.wait[i] = 0, !.backoff[i] = 0]

\* scheduleCleanupRetryOutcome, for an outcome that calls for a retry.
Scheduled(m, i, outcome) ==
    LET delay == RetryDelay(outcome, m.backoff[i])
    IN  [m EXCEPT !.backoff[i] = delay, !.wait[i] = delay]

\* allowCleanupNow.
Due(m, i) == m.wait[i] = 0

\* Mutant of Advanced: the round is not tracked.
AdvancedUntracked(m) == [m EXCEPT !.cur = @ + 1, !.lastLocked = 0]

\* The round is left to the background, and the next one is current.
Advanced(m) == [Tracked(m, {m.cur}) EXCEPT !.cur = @ + 1, !.lastLocked = 0]

-----------------------------------------------------------------------------
\* main: the round to begin with.  The archive may not answer, which counts as empty.
FindActiveRound ==
    /\ pc = "down"
    /\ \E archivedMax \in 0..MaxRound :
           LET from == ScanFrom(archivedMax)
               scan == SeeBatch(ScanStart, from,
                                [k \in 1..BATCH |-> Account(from + k - 1).status])
           IN  /\ \/ archivedMax = Max(archive \cup {0}) /\ UNCHANGED faults
                  \/ archivedMax = 0 /\ archive # {} /\ Fault
               /\ mem' = [NoMemory EXCEPT !.cur = ScanResult(scan, archivedMax)]
    /\ pc' = "recover"
    /\ UNCHANGED <<chain, archive, job, late>>

\* Mutant of Recoverable: a round that is still to be claimed is not recovered.
RecoverableTerminal(i) == Terminal(Account(i))

\* The rounds that a new process puts back into the background.
Recoverable(i) == Account(i).status \in {"SETTLED", "CLAIMED", "CANCELLED"}

\* recoverBackgroundRoundsOnStartup, of which the accounts fit in one batch.
RecoverBackgroundRounds ==
    /\ pc = "recover"
    /\ LET ids == {i \in RoundIds : /\ mem.cur > 1
                                    /\ i >= mem.cur - STARTUP_BACKFILL_SCAN_ROUNDS
                                    /\ i <= mem.cur
                                    /\ Recoverable(i)}
       IN  mem' = Tracked(mem, ids)
    /\ pc' = "idle"
    /\ UNCHANGED <<chain, archive, job, late, faults>>

\* tick begins: the background rounds are processed first, from a copy of the list.
BeginTick ==
    /\ pc = "idle"
    /\ job' = [NoJob EXCEPT !.queue = mem.background]
    /\ pc' = IF mem.background = {} THEN "current" ELSE "background"
    /\ UNCHANGED <<chain, archive, mem, late, faults>>

-----------------------------------------------------------------------------
\* processBackgroundRounds: one round is read.  A settled round waits for its winner.
FetchBackground(i) ==
    /\ pc = "background"
    /\ i \in job.queue
    /\ LET cleanup == Terminal(chain[i]) /\ Due(mem, i)
       IN  /\ mem' = IF chain[i].status = "ABSENT" THEN Cleared(mem, i) ELSE mem
           /\ job' = [NoJob EXCEPT !.queue = job.queue \ {i},
                                   !.id = IF cleanup THEN i ELSE 0,
                                   !.seen = IF cleanup THEN chain[i] ELSE Absent]
           /\ pc' = IF ~cleanup THEN "background"
                    ELSE IF i \in mem.archived THEN "participants" ELSE "archive"
    /\ UNCHANGED <<chain, archive, late, faults>>

BackgroundDone ==
    /\ pc = "background"
    /\ job.queue = {}
    /\ pc' = "current"
    /\ UNCHANGED <<chain, archive, mem, job, late, faults>>

\* A pass over a round ends; the rest of the queue is next.
EndPass(m) ==
    /\ mem' = m
    /\ job' = [NoJob EXCEPT !.queue = job.queue]
    /\ pc' = "background"

\* saveRoundToFirebase.
ArchiveRound ==
    /\ pc = "archive"
    /\ archive' = archive \cup {job.id}
    /\ mem' = [mem EXCEPT !.archived = @ \cup {job.id}]
    /\ pc' = "participants"
    /\ UNCHANGED <<chain, job, late, faults>>

\* The write fails, or it is refused as one that was made before (401 and 403), or it is
\* made and the answer is lost.
ArchiveFault ==
    /\ pc = "archive"
    /\ Fault
    /\ \/ UNCHANGED <<archive, mem>>
       \/ mem' = [mem EXCEPT !.archived = @ \cup {job.id}] /\ UNCHANGED archive
       \/ archive' = archive \cup {job.id} /\ UNCHANGED mem
    /\ pc' = "participants"
    /\ UNCHANGED <<chain, job, late>>

\* In a cancelled round a funded record waits for its refund.
Blocked(seen, i, u) == seen.status = "CANCELLED" /\ u \in chain[i].staked

\* cleanupParticipantPdas: the records that exist are read, and a batch of those that may
\* be closed is taken.
FetchParticipants ==
    /\ pc = "participants"
    /\ LET existing == job.seen.record \cap chain[job.id].record
           closable == {u \in existing : ~Blocked(job.seen, job.id, u)}
       IN  \E batch \in SUBSET closable :
               /\ Cardinality(batch) = Lesser(PARTICIPANT_CLEANUP_BATCH, Cardinality(closable))
               /\ job' = [job EXCEPT !.toClose = batch,
                                     !.existing = Cardinality(existing)]
    /\ pc' = "closing"
    /\ UNCHANGED <<chain, archive, mem, late, faults>>

\* One close_participant transaction; a failure is counted and does not stop the loop.
CloseParticipant(u) ==
    /\ pc = "closing"
    /\ u \in job.toClose
    /\ IF CanCloseParticipant(chain[job.id], u)
       THEN /\ SetRound(job.id, ParticipantClosed(chain[job.id], u))
            /\ job' = [job EXCEPT !.toClose = @ \ {u}, !.closed = @ + 1]
       ELSE /\ job' = [job EXCEPT !.toClose = @ \ {u}]
            /\ UNCHANGED chain
    /\ UNCHANGED <<archive, mem, pc, late, faults>>

CloseParticipantUnknown(u) ==
    /\ pc = "closing"
    /\ u \in job.toClose
    /\ Fault
    /\ job' = [job EXCEPT !.toClose = @ \ {u}]
    /\ \/ UNCHANGED chain
       \/ /\ CanCloseParticipant(chain[job.id], u)
          /\ SetRound(job.id, ParticipantClosed(chain[job.id], u))
    /\ UNCHANGED <<archive, mem, pc, late>>

\* Mutant of RecordsLeft: the records that were found are not compared with those closed.
RecordsLeftIgnored == FALSE

RecordsLeft == RetryNeeded(ParticipantsPending(job.existing, job.closed))

\* Records are left for another pass; otherwise the account is read again.
RecheckRound ==
    /\ pc = "closing"
    /\ job.toClose = {}
    /\ IF RecordsLeft
       THEN EndPass(Scheduled(mem, job.id, ParticipantsPending(job.existing, job.closed)))
       ELSE IF chain[job.id].status = "ABSENT" THEN EndPass(Cleared(mem, job.id))
       ELSE IF ~Terminal(chain[job.id])
       THEN EndPass(Scheduled(mem, job.id, Failed("left_terminal_state")))
       ELSE pc' = "close" /\ UNCHANGED <<mem, job>>
    /\ UNCHANGED <<chain, archive, late, faults>>

\* The close_round transaction, which the program accepts for a terminal round.
CloseRound ==
    /\ pc = "close"
    /\ IF Terminal(chain[job.id])
       THEN SetRound(job.id, RoundClosed(chain[job.id])) /\ EndPass(Cleared(mem, job.id))
       ELSE EndPass(Scheduled(mem, job.id, Failed("close_round_failed"))) /\ UNCHANGED chain
    /\ UNCHANGED <<archive, late, faults>>

\* A transaction whose outcome the crank does not learn: it lands later, or never.
Unknown(kind, id) ==
    /\ Fault
    /\ late' = IF late = NoTx THEN [kind |-> kind, id |-> id] ELSE late

CloseRoundUnknown ==
    /\ pc = "close"
    /\ Unknown("close", job.id)
    /\ EndPass(Scheduled(mem, job.id, Failed("close_round_failed")))
    /\ UNCHANGED <<chain, archive>>

-----------------------------------------------------------------------------
\* Mutant of NotYet: the buffer is not waited for.
NotYetUnbuffered(r) == ~r.ends \/ r.left > 0

\* The countdown has not begun, or is not over for LOCK_BUFFER_SEC seconds.
NotYet(r) == ~r.ends \/ r.left > -LOCK_BUFFER_SEC

\* tick: the current round is read.
FetchCurrent ==
    /\ pc = "current"
    /\ LET r == Account(mem.cur)
           \* settled, claimed or cancelled: the next round is current
           over == r.status \in {"SETTLED", "CLAIMED", "CANCELLED"}
       IN  /\ mem' = IF over THEN [Advanced(mem) EXCEPT !.vrfAge = VRF_COOLDOWN_SEC] ELSE mem
           /\ pc' = CASE r.status = "ABSENT" /\ mem.lastCreated < mem.cur -> "startCheck"
                      [] r.status = "OPEN" /\ mem.lastLocked # mem.cur /\ ~NotYet(r) -> "lockCheck"
                      [] r.status = "LOCKED" -> "vrfCheck"
                      [] OTHER -> "idle"
    /\ UNCHANGED <<chain, archive, job, late, faults>>

\* handleStartRound: the account is read once more.
CheckStart ==
    /\ pc = "startCheck"
    /\ IF Account(mem.cur).status = "ABSENT"
       THEN pc' = "start" /\ UNCHANGED mem
       ELSE pc' = "idle" /\ mem' = [mem EXCEPT !.lastCreated = mem.cur]
    /\ UNCHANGED <<chain, archive, job, late, faults>>

\* start_round; beyond MaxRound no round is started.
StartRound ==
    /\ pc = "start"
    /\ IF CanStart(mem.cur)
       THEN /\ SetRound(mem.cur, Started(chain[mem.cur]))
            /\ mem' = [mem EXCEPT !.lastCreated = mem.cur]
            /\ pc' = "idle"
       ELSE /\ UNCHANGED <<chain, mem>>
            /\ pc' = "startRecheck"
    /\ UNCHANGED <<archive, job, late, faults>>

StartRoundUnknown ==
    /\ pc = "start"
    /\ mem.cur \in RoundIds
    /\ Unknown("start", mem.cur)
    /\ pc' = "startRecheck"
    /\ UNCHANGED <<chain, archive, mem, job>>

\* Mutant of RecheckStart: a start that failed counts as done.
RecheckStartTrusting ==
    /\ pc = "startRecheck"
    /\ mem' = [mem EXCEPT !.lastCreated = mem.cur]
    /\ pc' = "idle"
    /\ UNCHANGED <<chain, archive, job, late, faults>>

\* After an error: somebody else may have created the round.
RecheckStart ==
    /\ pc = "startRecheck"
    /\ mem' = IF Account(mem.cur).status # "ABSENT"
              THEN [mem EXCEPT !.lastCreated = mem.cur] ELSE mem
    /\ pc' = "idle"
    /\ UNCHANGED <<chain, archive, job, late, faults>>

\* handleLockAndVrf: the account is read once more; without a deposit the round is left.
CheckLock ==
    /\ pc = "lockCheck"
    /\ LET fresh == Account(mem.cur)
       IN  IF fresh.status # "OPEN" THEN pc' = "idle" /\ UNCHANGED mem
           ELSE IF fresh.staked = {} THEN pc' = "idle" /\ mem' = Advanced(mem)
           ELSE pc' = "lock" /\ UNCHANGED mem
    /\ UNCHANGED <<chain, archive, job, late, faults>>

\* Mutant of TooFew: every refusal is taken for a lack of players.
TooFewAny(r) == TRUE

\* isMinRequirementsErrorMessage: the program's refusal names the minimum.
TooFew(r) == r.status = "OPEN" /\ r.record # {} /\ ~Enough(r)

\* lock_round and request_vrf in one transaction.
LockAndVrf ==
    /\ pc = "lock"
    /\ LET r == Account(mem.cur)
       IN  IF CanLock(r)
           THEN /\ SetRound(mem.cur, InStatus(r, "VRF_REQUESTED"))
                /\ mem' = [mem EXCEPT !.lastLocked = mem.cur, !.vrfAge = 0]
                /\ pc' = "idle"
           ELSE /\ UNCHANGED chain
                /\ mem' = IF TooFew(r) THEN Advanced(mem) ELSE mem
                /\ pc' = IF TooFew(r) THEN "idle" ELSE "lockRecheck"
    /\ UNCHANGED <<archive, job, late, faults>>

LockAndVrfUnknown ==
    /\ pc = "lock"
    /\ Unknown("lock", mem.cur)
    /\ pc' = "lockRecheck"
    /\ UNCHANGED <<chain, archive, mem, job>>

\* After an error: a round that is no longer open is not locked again.
RecheckLock ==
    /\ pc = "lockRecheck"
    /\ mem' = IF Account(mem.cur).status \notin {"OPEN", "ABSENT"}
              THEN [mem EXCEPT !.lastLocked = mem.cur] ELSE mem
    /\ pc' = "idle"
    /\ UNCHANGED <<chain, archive, job, late, faults>>

\* handleRequestVrf: the account is read once more, and the last request was long ago.
CheckVrf ==
    /\ pc = "vrfCheck"
    /\ pc' = IF Account(mem.cur).status = "LOCKED" /\ mem.vrfAge >= VRF_COOLDOWN_SEC
             THEN "vrf" ELSE "idle"
    /\ UNCHANGED <<chain, archive, mem, job, late, faults>>

RequestVrf ==
    /\ pc = "vrf"
    /\ LET r == Account(mem.cur)
       IN  IF CanRequestVrf(r)
           THEN /\ SetRound(mem.cur, InStatus(r, "VRF_REQUESTED"))
                /\ mem' = [mem EXCEPT !.vrfAge = 0]
           ELSE UNCHANGED <<chain, mem>>
    /\ pc' = "idle"
    /\ UNCHANGED <<archive, job, late, faults>>

RequestVrfUnknown ==
    /\ pc = "vrf"
    /\ Unknown("vrf", mem.cur)
    /\ pc' = "idle"
    /\ UNCHANGED <<chain, archive, mem, job>>

-----------------------------------------------------------------------------
\* A read of the background pass fails: the round is tried again later.
BackgroundReadFails ==
    /\ Fault
    /\ \/ \E i \in job.queue :
              /\ pc = "background"
              /\ mem' = Scheduled(mem, i, Failed("background_error"))
              /\ job' = [job EXCEPT !.queue = @ \ {i}]
              /\ UNCHANGED pc
       \/ /\ \/ pc = "participants"
             \/ pc = "closing" /\ job.toClose = {} /\ ~RecordsLeft
          /\ EndPass(Scheduled(mem, job.id, Failed("background_error")))
    /\ UNCHANGED <<chain, archive, late>>

\* A read of the current round fails, and with it the tick.
CurrentReadFails ==
    /\ pc \in {"current", "startCheck", "startRecheck", "lockCheck", "lockRecheck", "vrfCheck"}
    /\ Fault
    /\ pc' = "idle"
    /\ UNCHANGED <<chain, archive, mem, job, late>>

\* The process dies.
Crash ==
    /\ pc # "down"
    /\ Fault
    /\ mem' = NoMemory
    /\ job' = NoJob
    /\ pc' = "down"
    /\ UNCHANGED <<chain, archive, late>>

\* The transaction of unknown outcome lands, with what the program makes of it now, or
\* its blockhash expires.
LateLands ==
    /\ late # NoTx
    /\ LET r == chain[late.id]
       IN  CASE late.kind = "start" /\ CanStart(late.id) -> SetRound(late.id, Started(r))
             [] late.kind = "lock" /\ CanLock(r) -> SetRound(late.id, InStatus(r, "VRF_REQUESTED"))
             [] late.kind = "vrf" /\ CanRequestVrf(r) -> SetRound(late.id, InStatus(r, "VRF_REQUESTED"))
             [] late.kind = "close" /\ Terminal(r) -> SetRound(late.id, RoundClosed(r))
             [] OTHER -> UNCHANGED chain
    /\ late' = NoTx
    /\ UNCHANGED <<archive, mem, pc, job, faults>>

LateExpires ==
    /\ late # NoTx
    /\ late' = NoTx
    /\ UNCHANGED <<chain, archive, mem, pc, job, faults>>

CrankStep ==
    \/ FindActiveRound \/ RecoverBackgroundRounds \/ BeginTick
    \/ \E i \in RoundIds : FetchBackground(i)
    \/ BackgroundDone \/ ArchiveRound \/ FetchParticipants
    \/ \E u \in Users : CloseParticipant(u)
    \/ RecheckRound \/ CloseRound
    \/ FetchCurrent \/ CheckStart \/ StartRound \/ RecheckStart
    \/ CheckLock \/ LockAndVrf \/ RecheckLock \/ CheckVrf \/ RequestVrf

CrankFault ==
    \/ ArchiveFault \/ (\E u \in Users : CloseParticipantUnknown(u)) \/ CloseRoundUnknown
    \/ StartRoundUnknown \/ LockAndVrfUnknown \/ RequestVrfUnknown
    \/ BackgroundReadFails \/ CurrentReadFails \/ Crash

Others ==
    /\ \E i \in RoundIds :
           \/ \E u \in Users : UserDeposits(i, u) \/ UserLeaves(i, u) \/ UserRefunded(i, u)
           \/ OracleDraws(i) \/ WinnerClaims(i) \/ AdminCancels(i) \/ OtherLocks(i)
    /\ UNCHANGED <<archive, mem, pc, job, late, faults>>

Second ==
    /\ TimeOfChain
    /\ mem' = [mem EXCEPT !.wait = [i \in RoundIds |-> Greater(mem.wait[i] - 1, 0)],
                          !.vrfAge = Lesser(@ + 1, VRF_COOLDOWN_SEC)]
    /\ UNCHANGED <<archive, pc, job, late, faults>>

Next == CrankStep \/ CrankFault \/ LateLands \/ LateExpires \/ Others \/ Second

Spec == Init /\ [][Next]_vars

\* The oracle answers a request, or a depositor of a cancelled round takes the refund.
Answers ==
    /\ \E i \in RoundIds : OracleDraws(i) \/ \E u \in Users : UserRefunded(i, u)
    /\ UNCHANGED <<archive, mem, pc, job, late, faults>>

\* The crank goes on, time passes, and the oracle and the owners of refunds answer, which
\* they can do only finitely often; no player has to do anything else.
FairSpec == Spec /\ WF_vars(CrankStep) /\ WF_vars(Second) /\ WF_vars(Answers)

-----------------------------------------------------------------------------
Contract(i) == INSTANCE RoundContract WITH
    phase <- chain[i].status,
    countdown <- IF ~chain[i].ends THEN "none" ELSE IF chain[i].left > 0 THEN "running" ELSE "over",
    staked <- [u \in Users |-> IF u \in chain[i].staked THEN 1 ELSE 0],
    escrow <- IF chain[i].status = "CLAIMED" THEN 0 ELSE Cardinality(chain[i].staked),
    paid <- chain[i].status = "CLAIMED"

\* Whatever the crank read too early, sent twice or forgot in a crash, every round keeps
\* the contract; above all, no round is closed while it owes a refund or has records.
ContractsKept ==
    /\ \A i \in RoundIds : Contract(i)!ContractInit
    /\ [][\A i \in RoundIds : [Contract(i)!ContractNext]_(Contract(i)!contractVars)]_vars

Up == pc \notin {"down", "recover"}

\* A round that the crank left behind and that still has to be paid or closed is in its
\* background list, across every crash: no settled or claimed round is forgotten.
NothingForgotten ==
    Up => \A i \in RoundIds :
              i < mem.cur /\ chain[i].status \in {"SETTLED", "CLAIMED"} => i \in mem.background

\* A round in the background needs no more than its claim, its refunds and its cleanup: it
\* is not locked or waiting for a draw, and if it is open it can never be locked.
BackgroundNeedsNoDraw ==
    Up => \A i \in mem.background :
              /\ chain[i].status \notin {"LOCKED", "VRF_REQUESTED"}
              /\ chain[i].status = "OPEN" => ~Enough(chain[i])

\* The crank's lock comes no sooner than LOCK_BUFFER_SEC after the countdown.
LockedAfterBuffer ==
    [][\A i \in RoundIds :
          chain[i].status = "OPEN" /\ chain'[i].status = "VRF_REQUESTED"
              => chain[i].left <= -LOCK_BUFFER_SEC]_vars

\* A draw is followed by the next round, whether or not the winner claims, unless that one
\* is over already.
NextRoundOpens ==
    \A i \in 1..(MaxRound - 1) :
        chain[i].status = "SETTLED" ~> chain[i + 1].status # "ABSENT" \/ mem.cur > i + 1

\* What is over is cleaned up: a claimed round is closed, whatever faults came before; so is,
\* without a fault, a cancelled round whose depositors take their refunds, because the crank
\* keeps a round it has advanced past in its list until the account is gone.
RoundsAreClosed ==
    \A i \in RoundIds :
        /\ chain[i].status = "CLAIMED" ~> chain[i].status = "ABSENT"
        /\ chain[i].status = "CANCELLED" ~> chain[i].status = "ABSENT" \/ faults > 0

=============================================================================

------------------------------ MODULE RoundView ------------------------------
(***************************************************************************)
(* The round a browser tab shows (src/src/hooks/useJackpot.ts): the scan   *)
(* at startup, the polls and the account subscription that bring in the    *)
(* round's data, the timer that moves on to the next round, and the winner *)
(* modal of src/src/pages/Home.tsx that pauses it.  The chain is the       *)
(* environment: rounds are opened, finished and closed by the crank        *)
(* whatever the tab does.                                                  *)
(*                                                                         *)
(* A poll is asked for by a closure that captured the round id of its      *)
(* render; its answer may come after the tab has moved on.                 *)
(***************************************************************************)
EXTENDS Naturals, FiniteSets

CONSTANTS
    N,          \* rounds are numbered 1..N
    POLLS,      \* polls in flight at a time (bound of the model)
    WINDOW,     \* ids the startup scan looks at after the first (50)
    STREAK,     \* missing rounds that end the scan (5)
    LATE,       \* may an answer come after the tab has left its round?
    UNSEEN      \* may a round be closed before the tab has left it?

VARIABLES
    chain,      \* status of every round account
    boot,       \* the startup scan: initialized, and its local variables
    roundId,    \* the round the tab is on
    data,       \* roundData: the account last set, or NoData
    phase,      \* the phase shown
    parts,      \* the round the participants list belongs to, 0 when empty
    advance,    \* is the auto-advance timer running?
    modal,      \* winner modal: is it open, which round was dismissed
    polls,      \* polls in flight
    building    \* rounds whose participants are being fetched

client == <<boot, roundId, data, phase, parts, advance, modal, polls, building>>
vars == <<chain, client>>

Rounds == 1..N
Finished == {"settled", "claimed", "cancelled", "gone"}
NoData == [id |-> 0, status |-> "none"]

\* fetchRound: the account, or null when there is none
At(i) == IF i \in Rounds THEN chain[i] ELSE "none"
Exists(st) == st \notin {"none", "gone"}

\* phaseFromStatus, without the last seconds of an open round ("countdown")
phaseFromStatus(st) ==
    CASE st = "open" -> "open"
      [] st = "locked" -> "spinning"
      [] st \in {"settled", "claimed", "cancelled"} -> st
      [] OTHER -> "waiting"

Init ==
    /\ \E k \in 0..(N - 1) :
          chain = [i \in Rounds |-> IF i <= k THEN "gone" ELSE IF i = k + 1 THEN "open" ELSE "none"]
    /\ boot = [done |-> FALSE, id |-> 1, active |-> 0, max |-> 0, nulls |-> 0]
    /\ roundId = 1 /\ data = NoData /\ phase = "waiting" /\ parts = 0
    /\ advance = FALSE /\ modal = [open |-> FALSE, dismissed |-> 0]
    /\ polls = {} /\ building = {}

-----------------------------------------------------------------------------
(* The chain.                                                              *)

\* A round opens when the one before it has finished, and runs its course
Succ(i) ==
    CASE chain[i] = "none" -> IF i = 1 \/ chain[i - 1] \in Finished THEN {"open"} ELSE {}
      [] chain[i] = "open" -> {"locked", "cancelled"}
      [] chain[i] = "locked" -> {"settled", "cancelled"}
      [] chain[i] = "settled" -> {"claimed"}
      [] chain[i] \in {"claimed", "cancelled"} -> IF UNSEEN \/ roundId > i THEN {"gone"} ELSE {}
      [] OTHER -> {}

ChainStep ==
    \E i \in Rounds : \E st \in Succ(i) :
        /\ chain' = [chain EXCEPT ![i] = st]
        /\ UNCHANGED client

-----------------------------------------------------------------------------
(* The startup scan.                                                       *)

\* One fetch of the scan: skip gaps, stop after STREAK of them behind a round
ScanStep ==
    /\ ~boot.done /\ boot.id <= 1 + WINDOW
    /\ ~(boot.max > 0 /\ boot.nulls >= STREAK)
    /\ LET st == At(boot.id) IN
       boot' = IF Exists(st)
               THEN [boot EXCEPT !.id = @ + 1, !.nulls = 0, !.max = boot.id,
                       !.active = IF st \in {"open", "locked", "settled"} THEN boot.id ELSE @]
               ELSE [boot EXCEPT !.id = @ + 1, !.nulls = @ + 1]
    /\ UNCHANGED <<chain, roundId, data, phase, parts, advance, modal, polls, building>>

\* The round the scan settles on
ScanResult == IF boot.active > 0 THEN boot.active ELSE boot.max + 1

\* The scan is over
ScanEnds ==
    /\ ~boot.done
    /\ boot.id > 1 + WINDOW \/ (boot.max > 0 /\ boot.nulls >= STREAK)
    /\ boot' = [boot EXCEPT !.done = TRUE]
    /\ roundId' = ScanResult
    /\ UNCHANGED <<chain, data, phase, parts, advance, modal, polls, building>>

\* One of its requests failed: the tab stays on round 1
ScanFails ==
    /\ ~boot.done
    /\ boot' = [boot EXCEPT !.done = TRUE]
    /\ UNCHANGED <<chain, roundId, data, phase, parts, advance, modal, polls, building>>

-----------------------------------------------------------------------------
(* Round data.                                                             *)

\* The auto-advance effect runs when the phase or the round changes: the
\* running timer is cleared and a new one is set in the three end phases
Rearm(p, r) ==
    advance' = IF p = phase /\ r = roundId THEN advance
               ELSE p \in {"claimed", "cancelled", "settled"}

\* setRoundData, setPhase; the participants follow after two awaits
Show(i, st) ==
    /\ data' = [id |-> i, status |-> st]
    /\ phase' = phaseFromStatus(st)
    /\ Rearm(phaseFromStatus(st), roundId)
    /\ building' = building \cup {i}
    /\ parts' = parts

\* pollRound starts, from the timer, from a tab that becomes visible, or at
\* the end of a deposit or a claim
StartPoll ==
    /\ boot.done /\ Cardinality(polls) < POLLS
    /\ [id |-> roundId, st |-> "asked"] \notin polls
    /\ polls' = polls \cup {[id |-> roundId, st |-> "asked"]}
    /\ UNCHANGED <<chain, boot, roundId, data, phase, parts, advance, modal, building>>

\* The RPC node reads the account
ReadPoll ==
    \E p \in polls :
        /\ p.st = "asked"
        /\ polls' = (polls \ {p}) \cup {[p EXCEPT !.st = At(p.id)]}
        /\ UNCHANGED <<chain, boot, roundId, data, phase, parts, advance, modal, building>>

\* The answer reaches pollRound.  processRoundData compares the answer with
\* the round id of its own closure, the id the poll asked for: every poll
\* passes.  A null answer is not compared with anything
Answer(p) ==
    IF Exists(p.st)
    THEN Show(p.id, p.st)
    ELSE /\ data' = NoData /\ phase' = "waiting" /\ parts' = 0
         /\ Rearm("waiting", roundId)
         /\ UNCHANGED building

PollAnswered ==
    \E p \in polls :
        /\ p.st # "asked"
        /\ polls' = polls \ {p}
        /\ Answer(p)
        /\ UNCHANGED <<chain, boot, roundId, modal>>

\* fetchRound throws; the catch logs it
PollFails ==
    \E p \in polls :
        /\ polls' = polls \ {p}
        /\ UNCHANGED <<chain, boot, roundId, data, phase, parts, advance, modal, building>>

\* setParticipants, after the participants' accounts have been read
PartsBuilt ==
    \E i \in building :
        /\ building' = building \ {i}
        /\ parts' = i
        /\ UNCHANGED <<chain, boot, roundId, data, phase, advance, modal, polls>>

\* An event of the account subscription, with data that was current some time
\* ago at a round the tab may have left: the handler is the one of the last
\* render, so that the comparison with roundId does discard it
RoundEvent ==
    \E i \in Rounds :
        /\ boot.done /\ Exists(chain[i])
        /\ i = roundId
        /\ Show(i, chain[i])
        /\ UNCHANGED <<chain, boot, roundId, modal, polls>>

-----------------------------------------------------------------------------
(* Moving on.                                                              *)

\* The assignments of the timer and of nextRound.  With LATE = FALSE no
\* answer comes in for the round that is left
MoveOn ==
    /\ roundId' = roundId + 1
    /\ polls' = (IF LATE THEN polls ELSE {}) /\ building' = (IF LATE THEN building ELSE {})
    /\ data' = NoData /\ parts' = 0 /\ phase' = "waiting"
    /\ advance' = FALSE

\* The timer fires.  It does nothing while the modal is open, and is not set again
AutoAdvance ==
    /\ advance
    /\ IF modal.open
       THEN advance' = FALSE /\ UNCHANGED <<roundId, data, parts, phase, polls, building>>
       ELSE MoveOn
    /\ UNCHANGED <<chain, boot, modal>>

\* The winner's modal opens: when the wheel has stopped, or some seconds
\* after the data came in
OpenModal ==
    /\ phase = "settled" /\ data # NoData /\ ~modal.open
    /\ modal.dismissed # roundId
    /\ modal' = [modal EXCEPT !.open = TRUE]
    /\ UNCHANGED <<chain, boot, roundId, data, phase, parts, advance, polls, building>>

\* Mutant of CloseModal: a round that has been claimed meanwhile is not left
CloseModalSettledOnly ==
    /\ modal.open
    /\ modal' = [open |-> FALSE, dismissed |-> roundId]
    /\ IF phase = "settled" THEN MoveOn
       ELSE UNCHANGED <<roundId, data, parts, phase, advance, polls, building>>
    /\ UNCHANGED <<chain, boot>>

\* onClose of the modal: pause over, and on to the next round
CloseModal ==
    /\ modal.open
    /\ modal' = [open |-> FALSE, dismissed |-> roundId]
    /\ IF phase \in {"settled", "claimed"} THEN MoveOn
       ELSE UNCHANGED <<roundId, data, parts, phase, advance, polls, building>>
    /\ UNCHANGED <<chain, boot>>

Next ==
    \/ ChainStep \/ ScanStep \/ ScanEnds \/ ScanFails
    \/ StartPoll \/ ReadPoll \/ PollAnswered \/ PollFails \/ PartsBuilt \/ RoundEvent
    \/ AutoAdvance \/ OpenModal \/ CloseModal

Spec == Init /\ [][Next]_vars

-----------------------------------------------------------------------------
(* Properties.                                                             *)

\* A tab that is on a round that ends gets to the next one: "Auto-advance to
\* next round after claimed/cancelled/settled"
FollowsRounds ==
    \A i \in Rounds :
        (boot.done /\ roundId = i /\ Exists(chain[i]) /\ chain[i] \in Finished) ~> (roundId > i)

=============================================================================

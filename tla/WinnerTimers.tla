---------------------------- MODULE WinnerTimers ----------------------------
(***************************************************************************)
(* What happens in the winner's tab in the seconds after a round settles:  *)
(* the wheel lands (src/src/components/JackpotWheel.tsx), the winner modal *)
(* opens (src/src/pages/Home.tsx), the prize is saved and the round is     *)
(* left (src/src/hooks/useJackpot.ts), and the win is notified             *)
(* (src/src/contexts/JackpotContext.tsx).  All of it hangs on timers that  *)
(* start with the data that shows the round settled.  Time goes in ticks   *)
(* of half a second; a timer that is due fires before the next tick.       *)
(***************************************************************************)
EXTENDS Naturals, FiniteSets

CONSTANTS
    REVEAL,     \* WHEEL_RESULT_REVEAL_DELAY_MS, in ticks (11)
    LANDING,    \* LANDING_DURATION (12)
    ADVANCE,    \* SETTLED_ADVANCE_DELAY (20)
    ROUNDS,     \* rounds the user wins (bound of the model)
    REFRESH,    \* further data of a settled round, per round
    MISS,       \* may the data that shows a round spinning be missed?
    STARTUP     \* does the tab open on a settled round?

VARIABLES
    rid, phase,     \* roundId and phase of useJackpot
    t,              \* the timers: ticks to go, or Off
    wheel,          \* [phase |-> ..., was |-> wasSpinningRef]
    spinComplete,   \* of Home
    modal,          \* [open |-> ..., dismissed |-> dismissedWinnerRound]
    notice,         \* the refs of JackpotContext
    wins,           \* notifications pushed for each round won
    prizes, saved,  \* unclaimedPrizes, localStorage
    refreshes

vars == <<rid, phase, t, wheel, spinComplete, modal, notice, wins, prizes, saved, refreshes>>

Off == ADVANCE + 1
Timers == {"reveal", "modal", "notify", "advance", "landing"}
Rounds == 1..(ROUNDS + 1)
Due(x) == t[x] = 0
NoneDue == \A x \in Timers : ~Due(x)

Init ==
    /\ rid = 1 /\ phase = "waiting" /\ t = [x \in Timers |-> Off]
    /\ wheel = [phase |-> "idle", was |-> FALSE] /\ spinComplete = FALSE
    /\ modal = [open |-> FALSE, dismissed |-> 0]
    /\ notice = [notified |-> 0, scheduled |-> 0, unclaimed |-> {}]
    /\ wins = [r \in Rounds |-> 0] /\ prizes = {} /\ saved = {} /\ refreshes = 0

Tick ==
    /\ NoneDue /\ \E x \in Timers : t[x] # Off
    /\ t' = [x \in Timers |-> IF t[x] = Off THEN Off ELSE t[x] - 1]
    /\ UNCHANGED <<rid, phase, wheel, spinComplete, modal, notice, wins, prizes, saved, refreshes>>

\* The effect on unclaimedPrizes: notify the prizes that are new, but not the
\* round that was the last to be notified as settled
Listed(r) ==
    /\ prizes' = prizes \cup {r}
    /\ IF r \in notice.unclaimed
       THEN UNCHANGED <<notice, wins>>
       ELSE /\ notice' = [notice EXCEPT !.unclaimed = @ \cup {r}]
            /\ wins' = [wins EXCEPT ![r] = IF notice.notified = r THEN @ ELSE @ + 1]

\* The load at startup lists the settled round the scan found
LoadPrizes ==
    /\ STARTUP /\ rid = 1 /\ phase = "waiting" /\ prizes = {} /\ NoneDue
    /\ saved' = saved \cup {1}
    /\ Listed(1)
    /\ UNCHANGED <<rid, phase, t, wheel, spinComplete, modal, refreshes>>

\* The round is seen spinning: the wheel starts, cutting short what it does
SpinSeen ==
    /\ phase = "waiting" /\ rid <= ROUNDS /\ NoneDue /\ ~(STARTUP /\ rid = 1)
    /\ phase' = "spinning" /\ spinComplete' = FALSE
    /\ wheel' = [phase |-> "spinning", was |-> TRUE]
    /\ t' = [t EXCEPT !["landing"] = Off]
    /\ UNCHANGED <<rid, modal, notice, wins, prizes, saved, refreshes>>

Lands == wheel.was /\ wheel.phase # "landing"

\* Mutant of SettledSeen: the two delays of the auto-advance are swapped
SettledSeenSwapped ==
    /\ NoneDue /\ rid <= ROUNDS
    /\ \/ phase = "spinning" /\ UNCHANGED refreshes
       \/ phase = "waiting" /\ (MISS \/ (STARTUP /\ rid = 1)) /\ UNCHANGED refreshes
       \/ phase = "settled" /\ refreshes < REFRESH /\ refreshes' = refreshes + 1
    /\ phase' = "settled"
    /\ wheel' = IF Lands THEN [phase |-> "landing", was |-> FALSE] ELSE wheel
    /\ LET schedule == rid \notin {notice.notified, notice.scheduled} IN
       /\ notice' = [notice EXCEPT !.scheduled = IF schedule THEN rid ELSE @]
       /\ t' = [t EXCEPT !["reveal"] = REVEAL,
                   !["notify"] = IF schedule THEN REVEAL ELSE @,
                   !["advance"] = IF phase = "settled" THEN @ ELSE 4,
                   !["landing"] = IF Lands THEN LANDING ELSE @,
                   !["modal"] = IF spinComplete \/ modal.dismissed = rid THEN Off ELSE REVEAL]
    /\ modal' = [modal EXCEPT !.open = @ \/ (spinComplete /\ modal.dismissed # rid)]
    /\ UNCHANGED <<rid, spinComplete, wins, prizes, saved>>

\* Data shows the round settled and the user its winner: for the first time,
\* or again (a poll, an event, a tab that becomes visible).  New data is a new
\* roundData and a new winner object: the effects that depend on them start
\* their timers again, the one of JackpotContext only once per round
SettledSeen ==
    /\ NoneDue /\ rid <= ROUNDS
    /\ \/ phase = "spinning" /\ UNCHANGED refreshes
       \/ phase = "waiting" /\ (MISS \/ (STARTUP /\ rid = 1)) /\ UNCHANGED refreshes
       \/ phase = "settled" /\ refreshes < REFRESH /\ refreshes' = refreshes + 1
    /\ phase' = "settled"
    /\ wheel' = IF Lands THEN [phase |-> "landing", was |-> FALSE] ELSE wheel
    /\ LET schedule == rid \notin {notice.notified, notice.scheduled} IN
       /\ notice' = [notice EXCEPT !.scheduled = IF schedule THEN rid ELSE @]
       /\ t' = [t EXCEPT !["reveal"] = REVEAL,
                   !["notify"] = IF schedule THEN REVEAL ELSE @,
                   !["advance"] = IF phase = "settled" THEN @ ELSE ADVANCE,
                   !["landing"] = IF Lands THEN LANDING ELSE @,
                   !["modal"] = IF spinComplete \/ modal.dismissed = rid THEN Off ELSE REVEAL]
    /\ modal' = [modal EXCEPT !.open = @ \/ (spinComplete /\ modal.dismissed # rid)]
    /\ UNCHANGED <<rid, spinComplete, wins, prizes, saved>>

\* The reveal timer of useJackpot
RevealFires ==
    /\ Due("reveal")
    /\ t' = [t EXCEPT !["reveal"] = Off]
    /\ saved' = saved \cup {rid}
    /\ Listed(rid)
    /\ UNCHANGED <<rid, phase, wheel, spinComplete, modal, refreshes>>

\* The timer of JackpotContext
NotifyFires ==
    /\ Due("notify")
    /\ t' = [t EXCEPT !["notify"] = Off]
    /\ wins' = [wins EXCEPT ![notice.scheduled] = @ + 1]
    /\ notice' = [notice EXCEPT !.notified = notice.scheduled, !.scheduled = 0]
    /\ UNCHANGED <<rid, phase, wheel, spinComplete, modal, prizes, saved, refreshes>>

\* The fallback timer of Home
ModalFires ==
    /\ Due("modal")
    /\ t' = [t EXCEPT !["modal"] = Off]
    /\ modal' = [modal EXCEPT !.open = TRUE]
    /\ UNCHANGED <<rid, phase, wheel, spinComplete, notice, wins, prizes, saved, refreshes>>

\* The frame at the end of the landing: onSpinComplete, and the modal's effect
LandingEnds ==
    /\ Due("landing")
    /\ wheel' = [wheel EXCEPT !.phase = "celebration"] /\ spinComplete' = TRUE
    /\ LET shows == phase = "settled" /\ modal.dismissed # rid IN
       /\ modal' = [modal EXCEPT !.open = @ \/ shows]
       /\ t' = [t EXCEPT !["landing"] = Off, !["modal"] = IF shows THEN Off ELSE @]
    /\ UNCHANGED <<rid, phase, notice, wins, prizes, saved, refreshes>>

\* The confetti is gone
CelebrationEnds ==
    /\ wheel.phase = "celebration" /\ NoneDue
    /\ wheel' = [wheel EXCEPT !.phase = "idle"]
    /\ UNCHANGED <<rid, phase, t, spinComplete, modal, notice, wins, prizes, saved, refreshes>>

\* On to the next round: the effects' cleanups clear their timers
MoveOn(timers) ==
    /\ rid' = rid + 1 /\ phase' = "waiting" /\ refreshes' = 0
    /\ t' = [timers EXCEPT !["reveal"] = Off, !["modal"] = Off, !["advance"] = Off]

AdvanceFires ==
    /\ Due("advance")
    /\ IF modal.open
       THEN t' = [t EXCEPT !["advance"] = Off] /\ UNCHANGED <<rid, phase, refreshes>>
       ELSE MoveOn(t)
    /\ UNCHANGED <<wheel, spinComplete, modal, notice, wins, prizes, saved>>

\* onClose of the modal
CloseModal ==
    /\ modal.open /\ NoneDue
    /\ modal' = [open |-> FALSE, dismissed |-> rid]
    /\ IF phase = "settled" THEN MoveOn(t) ELSE UNCHANGED <<rid, phase, refreshes, t>>
    /\ UNCHANGED <<wheel, spinComplete, notice, wins, prizes, saved>>

Next ==
    \/ Tick \/ LoadPrizes \/ SpinSeen \/ SettledSeen
    \/ RevealFires \/ NotifyFires \/ ModalFires \/ LandingEnds \/ CelebrationEnds
    \/ AdvanceFires \/ CloseModal

Spec == Init /\ [][Next]_vars

-----------------------------------------------------------------------------
(* Properties.                                                             *)

\* "Save unclaimed prize to localStorage when round settles and current user
\* is winner": a round seen settled is not left before its prize is saved
LeavesSaved == rid' # rid => rid \in saved

\* Every win seen is notified, also when the tab moves on meanwhile, and the
\* wheel does not stay in its landing
WinNotified ==
    \A r \in Rounds : (rid = r /\ phase = "settled") ~> (wins[r] > 0 /\ wheel.phase # "landing")

\* The pause of the modal does not keep the tab on a round: once the modal is
\* closed or was never opened the tab gets to the next round
RoundIsLeft ==
    \A r \in Rounds : (rid = r /\ phase = "settled") ~> (rid > r)

=============================================================================

------------------------------ MODULE Missions ------------------------------
(***************************************************************************)
(* hooks/useMissions.ts: the missions of a wallet, kept in the state of a  *)
(* tab and in the browser's storage.  Daily and weekly missions start anew *)
(* where the data is loaded on a later day, the streak is counted there;   *)
(* deposits, rounds, wins and claims are tracked in the tab and saved.     *)
(*                                                                         *)
(* One mission of each kind is kept: a daily and a weekly one, the streak  *)
(* and the first win, with the volume of the week beside them.             *)
(***************************************************************************)
EXTENDS Integers, FiniteSets

CONSTANTS
    DAYS,       \* days (bound); a week has two
    ROUNDS,     \* rounds, deposits and wins of each kind (bound)
    RELOADS,    \* loads of the page (bound)
    REQUIRED,   \* mission |-> requirement
    REWARD,     \* mission |-> JUP
    LEVEL,      \* JUP for a level, times the level
    AMOUNT      \* tokens of a deposit; a token is worth one USDC or nothing

\* lastPlayDate before the first day.
NONE == -9

Ids == {"daily", "weekly", "streak", "win", "volume"}

VARIABLES
    day,        \* today
    data,       \* the tab's MissionsData
    stored,     \* the storage
    loads,      \* loads so far
    done,       \* history: events of each kind, and the value of the deposits
    days,       \* history: days of rounds and days of deposits
    claims      \* history: mission |-> claims

vars == <<day, data, stored, loads, done, days, claims>>

Mission == [progress |-> 0, completed |-> FALSE, claimed |-> FALSE]

\* The data of a wallet that has none.
DefaultData ==
    [m |-> [i \in Ids |-> Mission], jup |-> 0, level |-> 1, streak |-> 0, last |-> NONE, wins |-> 0]

\* getMonday, as the number of the week; a date that is none is in no week.
Week(d) == IF d = NONE THEN NONE ELSE d \div 2

\* loadMissionsData.  The streak counts the days between the two dates.
Loaded(d) ==
    LET renewed == (IF d.last # day THEN {"daily"} ELSE {}) \cup
                   (IF Week(day) # Week(d.last) THEN {"weekly", "volume"} ELSE {})
    IN [d EXCEPT !.m = [i \in Ids |-> IF i \in renewed THEN Mission ELSE d.m[i]],
                 !.streak = CASE d.last = NONE \/ d.last = day -> @ [] d.last = day - 1 -> @ + 1 [] OTHER -> 0]

\* updateAndSave.
UpdateAndSave(d) ==
    LET next == [d EXCEPT !.m = [i \in Ids |-> [d.m[i] EXCEPT !.completed = d.m[i].progress >= REQUIRED[i]]]]
    IN data' = next /\ stored' = next

Least(a, b) == IF a <= b THEN a ELSE b

\* A mission that is not completed gets that progress, up to its requirement.
Progress(d, i, n) ==
    IF d.m[i].completed THEN d ELSE [d EXCEPT !.m[i].progress = Least(n, REQUIRED[i])]

Init ==
    /\ day = 0 /\ data = DefaultData /\ stored = DefaultData /\ loads = 0
    /\ done = [i \in Ids |-> 0] /\ days = [round |-> {}, deposit |-> {}] /\ claims = [i \in Ids |-> 0]

\* The page is loaded, or the wallet connected.
Load ==
    /\ loads < RELOADS /\ loads' = loads + 1
    /\ data' = Loaded(stored)
    /\ UNCHANGED <<day, stored, done, days, claims>>

\* trackDeposit, called by handleDeposit with the amount of the token.
TrackDeposit(value) ==
    /\ done["daily"] < ROUNDS
    /\ UpdateAndSave(Progress(Progress([data EXCEPT !.last = day], "daily", data.m["daily"].progress + 1),
                              "volume", data.m["volume"].progress + AMOUNT))
    /\ done' = [done EXCEPT !["daily"] = @ + 1, !["volume"] = @ + value]
    /\ days' = [days EXCEPT !.deposit = @ \cup {day}]
    /\ UNCHANGED <<day, loads, claims>>

\* trackRoundPlayed, called by the provider when a round of the user has settled.
TrackRoundPlayed ==
    /\ done["weekly"] < ROUNDS
    /\ UpdateAndSave(Progress(Progress([data EXCEPT !.last = day], "weekly", data.m["weekly"].progress + 1),
                              "streak", data.streak + 1))
    /\ done' = [done EXCEPT !["weekly"] = @ + 1]
    /\ days' = [days EXCEPT !.round = @ \cup {day}]
    /\ UNCHANGED <<day, loads, claims>>

\* trackWin leaves the date alone.
TrackWin ==
    /\ done["win"] < ROUNDS
    /\ UpdateAndSave(Progress([data EXCEPT !.wins = @ + 1], "win", data.wins + 1))
    /\ done' = [done EXCEPT !["win"] = @ + 1]
    /\ UNCHANGED <<day, loads, days, claims>>

\* JUP for the levels below this one.
Below(level) == LEVEL * ((level * (level - 1)) \div 2)

\* The loop of claimMission: the highest level that the JUP pay for.
LevelUp(jup, level) ==
    LET all == jup + Below(level)
        top == CHOOSE l \in level .. level + jup : Below(l) <= all /\ all < Below(l + 1)
    IN [jup |-> all - Below(top), level |-> top]

\* claimMission's guard.
Claimable(i) == data.m[i].completed /\ ~data.m[i].claimed

\* claimMission leaves the date alone as well, and saves when there is nothing to claim.
ClaimMission(i) ==
    LET paid == LevelUp(data.jup + REWARD[i], data.level) IN
    /\ IF Claimable(i)
       THEN /\ UpdateAndSave([data EXCEPT !.m[i].claimed = TRUE, !.jup = paid.jup, !.level = paid.level])
            /\ claims' = [claims EXCEPT ![i] = @ + 1]
       ELSE UpdateAndSave(data) /\ UNCHANGED claims
    /\ UNCHANGED <<day, loads, done, days>>

\* Midnight; an open tab keeps its data.
NextDay ==
    /\ day < DAYS /\ day' = day + 1
    /\ UNCHANGED <<data, stored, loads, done, days, claims>>

Next ==
    \/ Load \/ NextDay \/ TrackRoundPlayed \/ TrackWin
    \/ \E value \in {0, AMOUNT} : TrackDeposit(value)
    \/ \E i \in Ids : ClaimMission(i)

Spec == Init /\ [][Next]_vars

\* Every reward was earned: a mission was claimed as often as the deposits, rounds or
\* wins suffice for, through reloads, new days and new weeks.
RewardsAreEarned ==
    \A i \in {"daily", "weekly", "win"} : claims[i] * REQUIRED[i] <= done[i]

\* No JUP are lost or made by the levels: those left and those spent on levels are
\* the rewards claimed, and those left are fewer than the next level takes.
JupIsConserved ==
    /\ data.jup + Below(data.level) =
         claims["daily"] * REWARD["daily"] + claims["weekly"] * REWARD["weekly"] +
         claims["streak"] * REWARD["streak"] + claims["win"] * REWARD["win"] + claims["volume"] * REWARD["volume"]
    /\ data.jup < data.level * LEVEL

\* A reload of the same day shows what the tab showed before it, except for what a new
\* day or week renews: nothing that was tracked or claimed is only in the tab.
ReloadKeeps ==
    data.last = day => Loaded(stored) = data

=============================================================================

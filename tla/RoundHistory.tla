---------------------------- MODULE RoundHistory ----------------------------
(***************************************************************************)
(* src/hooks/useRoundHistory.ts: the pages of past rounds.  Loads that the *)
(* user starts and loads of the poll overlap, and each finishes when its   *)
(* answers arrive.  A page is modelled by the ids that were asked for;     *)
(* RoundArchive models what is shown for one id.                           *)
(*                                                                         *)
(* Bounds: MaxId ids, Loads loads at a time, MaxClicks clicks of the user, *)
(* MaxFaults failed requests.                                              *)
(***************************************************************************)
EXTENDS Integers, FiniteSets

CONSTANTS PAGE_SIZE, MaxId, Loads, MaxClicks, MaxFaults

VARIABLES
    newest,         \* the last round id that was started
    maxRoundId,     \* maxRoundIdRef
    page,
    pollPage,       \* pollPageRef
    rounds,         \* the ids of the page that is shown
    load,           \* the loads under way
    clicks, faults

vars == <<newest, maxRoundId, page, pollPage, rounds, load, clicks, faults>>

-----------------------------------------------------------------------------
\* The ids of a page, newest first; none when the page is past the end.
PageIds(max, p) ==
    LET endId == max - p * PAGE_SIZE
        startId == IF endId - PAGE_SIZE + 1 > 1 THEN endId - PAGE_SIZE + 1 ELSE 1
    IN  startId..endId

\* Page 0 is the newest; totalPages bounds the pages that can be asked for.
LastPage(max) == (max + PAGE_SIZE - 1) \div PAGE_SIZE - 1

NoLoad == [kind |-> "none", at |-> "none", max |-> 0, page |-> 0]

Init ==
    /\ newest \in 1..MaxId
    /\ maxRoundId = 0
    /\ page = 0 /\ pollPage = 0
    /\ rounds = {}
    \* fetchInitial runs when the page is opened
    /\ load = [l \in Loads |-> IF l = CHOOSE k \in Loads : TRUE
                               THEN [NoLoad EXCEPT !.kind = "initial", !.at = "find", !.max = newest]
                               ELSE NoLoad]
    /\ clicks = 0 /\ faults = 0

Start(l, kind, at, max, p) ==
    /\ load[l] = NoLoad
    /\ load' = [load EXCEPT ![l] = [kind |-> kind, at |-> at, max |-> max, page |-> p]]

Finish(l) == load' = [load EXCEPT ![l] = NoLoad]

-----------------------------------------------------------------------------
\* A round is started.
NewRound ==
    /\ newest < MaxId
    /\ newest' = newest + 1
    /\ UNCHANGED <<maxRoundId, page, pollPage, rounds, load, clicks, faults>>

Click == clicks < MaxClicks /\ clicks' = clicks + 1

\* goToPage; the pages offered are those of totalPages.
GoToPage(l, target) ==
    /\ Click
    /\ maxRoundId > 0
    /\ target \in 0..LastPage(maxRoundId)
    /\ Start(l, "goto", "fetch", maxRoundId, target)
    /\ UNCHANGED <<newest, maxRoundId, page, pollPage, rounds, faults>>

\* refresh.  newest at the start bounds from below what the search will find.
Refresh(l) ==
    /\ Click
    /\ maxRoundId' = 0
    /\ page' = 0
    /\ Start(l, "initial", "find", newest, 0)
    /\ UNCHANGED <<newest, pollPage, rounds, faults>>

\* The poll's tick, every POLL_INTERVAL or when the tab becomes visible.
PollTick(l) ==
    /\ maxRoundId > 0
    /\ Start(l, "poll", "find", newest, maxRoundId)
    /\ UNCHANGED <<newest, maxRoundId, page, pollPage, rounds, clicks, faults>>

\* findMaxRoundId answers with the newest round of some moment since it was asked.
FoundInitial(l) ==
    /\ load[l].kind = "initial" /\ load[l].at = "find"
    /\ \E max \in load[l].max..newest :
           /\ maxRoundId' = max
           /\ load' = [load EXCEPT ![l].at = "fetch", ![l].max = max, ![l].page = 0]
    /\ UNCHANGED <<newest, page, pollPage, rounds, clicks, faults>>

\* In a poll, the load's page field holds the maximum that the tick began with until the
\* page to fetch is read from pollPageRef.
FoundPoll(l) ==
    /\ load[l].kind = "poll" /\ load[l].at = "find"
    /\ \E max \in load[l].max..newest :
           LET effectiveMax == IF max > load[l].page THEN max ELSE load[l].page
           IN  /\ maxRoundId' = IF max > load[l].page THEN max ELSE maxRoundId
               /\ load' = IF PageIds(effectiveMax, pollPage) = {}
                          THEN [load EXCEPT ![l] = NoLoad]
                          ELSE [load EXCEPT ![l].at = "fetch", ![l].max = effectiveMax,
                                            ![l].page = pollPage]
    /\ UNCHANGED <<newest, page, pollPage, rounds, clicks, faults>>

\* fetchRoundBatch answers: a poll replaces the rounds, the others the page as well.
Fetched(l) ==
    /\ load[l].at = "fetch"
    /\ rounds' = PageIds(load[l].max, load[l].page)
    /\ page' = IF load[l].kind = "poll" THEN page ELSE load[l].page
    /\ Finish(l)
    /\ UNCHANGED <<newest, maxRoundId, pollPage, clicks, faults>>

\* A request fails, and the load ends.
Fails(l) ==
    /\ load[l] # NoLoad
    /\ faults < MaxFaults
    /\ faults' = faults + 1
    /\ Finish(l)
    /\ UNCHANGED <<newest, maxRoundId, page, pollPage, rounds, clicks>>

\* Mutant of SyncPollPage: the reference keeps the first page.
SyncPollPageOnce ==
    /\ pollPage # 0
    /\ pollPage' = 0
    /\ UNCHANGED <<newest, maxRoundId, page, rounds, load, clicks, faults>>

\* The effect that keeps pollPageRef in step.
SyncPollPage ==
    /\ pollPage # page
    /\ pollPage' = page
    /\ UNCHANGED <<newest, maxRoundId, page, rounds, load, clicks, faults>>

Answer(l) == FoundInitial(l) \/ FoundPoll(l) \/ Fetched(l)

Next ==
    \/ NewRound \/ SyncPollPage
    \/ \E l \in Loads :
           \/ \E target \in 0..LastPage(MaxId) : GoToPage(l, target)
           \/ Refresh(l) \/ PollTick(l) \/ Answer(l) \/ Fails(l)

Spec == Init /\ [][Next]_vars

-----------------------------------------------------------------------------
Shown == rounds = PageIds(maxRoundId, page) /\ maxRoundId = newest

\* Once a first load has succeeded, whatever order answers arrive in, the list comes back
\* again and again to the rounds of the page that is selected, the newest included.
HistorySettles == <>[](maxRoundId > 0) => []<>Shown

=============================================================================

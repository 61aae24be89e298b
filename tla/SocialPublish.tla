--------------------------- MODULE SocialPublish ---------------------------
(***************************************************************************)
(* The crank publishes the outcome of a settled round on Tapestry, the     *)
(* social network: a "win" for the winner and a "loss" for every other     *)
(* participant.  The publication runs beside the main loop, one HTTP call  *)
(* after the other, and every call may fail, or succeed with its answer    *)
(* lost, or be cut off by the end of the process.                          *)
(***************************************************************************)
EXTENDS Naturals, Sequences, FiniteSets, SequencesExt

CONSTANTS
    N,          \* participants of the round, numbered in their order
    FAULTS,     \* calls that may fail (bound)
    RESTARTS    \* ends of the process (bound)

VARIABLES
    winner,     \* winner of the settled round
    advanced,   \* the main loop has gone on to the next round
    started,    \* the next round exists on chain
    job,        \* publication under way: who is left, and the call awaited
    profiles,   \* Tapestry: participants that have a profile
    contents,   \* Tapestry: the events that exist, by content id
    resolved,   \* participants whose profile id the job has obtained
    faults, restarts

vars == <<winner, advanced, started, job, profiles, contents, resolved, faults, restarts>>

Players == 1 .. N

\* No publication runs.
NoJob == [step |-> "none", todo |-> <<>>]

\* The events of the round in the order they are published, by content id (the
\* profile and the outcome): the win, then a loss for every other participant
\* in the order of the round's array.
Events(w) ==
    LET losers == SelectSeq([i \in Players |-> i], LAMBDA p : p # w)
    IN <<<<w, "win">>>> \o [i \in DOMAIN losers |-> <<losers[i], "loss">>]

\* The participant whose event is being published.
Current == Head(job.todo)[1]

Init ==
    /\ winner \in Players
    /\ advanced = FALSE /\ started = FALSE
    /\ job = NoJob
    /\ profiles \in SUBSET Players
    /\ contents = {} /\ resolved = {}
    /\ faults = 0 /\ restarts = 0

\* The main loop sees the round settled: it starts the publication without
\* waiting for it and goes on to the next round in the same tick.
Settled ==
    /\ ~advanced
    /\ job' = [step |-> "profile", todo |-> Events(winner)]
    /\ advanced' = TRUE
    /\ UNCHANGED <<winner, started, profiles, contents, resolved, faults, restarts>>

\* A later tick starts the next round.
StartNext ==
    /\ advanced /\ ~started
    /\ started' = TRUE
    /\ UNCHANGED <<winner, advanced, job, profiles, contents, resolved, faults, restarts>>

\* The job after the participant at its head is dealt with.
NextPlayer == IF Len(job.todo) = 1 THEN [job EXCEPT !.step = "over", !.todo = <<>>]
              ELSE [step |-> "profile", todo |-> Tail(job.todo)]

\* resolveProfileId comes back with null: the call failed, or timed out, with
\* or without having created the profile.  For the winner the whole publication
\* ends; for another participant the loop goes on.
ProfileFails ==
    /\ job.step = "profile"
    /\ faults < FAULTS
    /\ faults' = faults + 1
    /\ profiles' \in {profiles, profiles \union {Current}}
    /\ job' = IF Head(job.todo)[2] = "win" THEN [step |-> "over", todo |-> <<>>] ELSE NextPlayer
    /\ UNCHANGED <<winner, advanced, started, contents, resolved, restarts>>

\* resolveProfileId finds or creates the participant's profile.
ResolveProfileId ==
    /\ job.step = "profile"
    /\ profiles' = profiles \union {Current}
    /\ resolved' = resolved \union {Current}
    /\ job' = [job EXCEPT !.step = "create"]
    /\ UNCHANGED <<winner, advanced, started, contents, faults, restarts>>

\* Mutant of CreateFails: a failed call is not repeated.
CreateFailsOnce ==
    /\ job.step \in {"create", "retry"}
    /\ faults < FAULTS
    /\ faults' = faults + 1
    /\ contents' \in {contents, contents \union {Head(job.todo)}}
    /\ job' = NextPlayer
    /\ UNCHANGED <<winner, advanced, started, profiles, resolved, restarts>>

\* createContent fails, with or without having created the item.  The first
\* failure is followed by one more attempt, the second by the next participant.
CreateFails ==
    /\ job.step \in {"create", "retry"}
    /\ faults < FAULTS
    /\ faults' = faults + 1
    /\ contents' \in {contents, contents \union {Head(job.todo)}}
    /\ job' = IF job.step = "create" THEN [job EXCEPT !.step = "retry"] ELSE NextPlayer
    /\ UNCHANGED <<winner, advanced, started, profiles, resolved, restarts>>

\* createContent: Tapestry finds or creates the item of that content id.
CreateContent ==
    /\ job.step \in {"create", "retry"}
    /\ contents' = contents \union {Head(job.todo)}
    /\ job' = NextPlayer
    /\ UNCHANGED <<winner, advanced, started, profiles, resolved, faults, restarts>>

\* The process ends and is started again.  The newest round on chain is the
\* settled one until the next has been started.
Restart ==
    /\ restarts < RESTARTS
    /\ restarts' = restarts + 1
    /\ job' = NoJob
    /\ advanced' = started
    /\ UNCHANGED <<winner, started, profiles, contents, resolved, faults>>

Publication == ProfileFails \/ ResolveProfileId \/ CreateFails \/ CreateContent

Next == Settled \/ StartNext \/ Publication \/ Restart

\* The loop ticks on, and every call ends, by its answer or by its timeout.  That the loop
\* goes on does not need the latter: Tapestry owes it nothing, not even an answer.
Spec == Init /\ [][Next]_vars /\ WF_vars(Settled) /\ WF_vars(StartNext) /\ WF_vars(Publication)

\* publishRoundSettled: whatever fails and however often the publication is
\* started again, what is published is true: the winner's win and the losses of
\* the others, under profiles that exist.
PublishedIsTrue ==
    \A c \in contents : /\ c[1] \in profiles
                        /\ (c[2] = "win") <=> (c[1] = winner)

\* A single failure never costs the event of a participant whose profile was
\* resolved: createContent is repeated once, with the same content id.
ResolvedIsPublished ==
    (faults <= 1 /\ restarts = 0) =>
    \A p \in resolved : \/ \E c \in contents : c[1] = p
                        \/ job.step \in {"create", "retry"} /\ p = Current

\* The main loop starts the next round even if Tapestry never answers: the
\* publication "must never block round advancement".
TapestryNeverBlocks == <>[](advanced /\ started)

\* A started publication comes to an end, the round's last participant
\* included, unless the process ends first.
PublicationEnds == (job # NoJob) ~> (job.step \in {"none", "over"})

=============================================================================

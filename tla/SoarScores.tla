----------------------------- MODULE SoarScores -----------------------------
(***************************************************************************)
(* The volume leaderboard: the page that registers a wallet with SOAR, the *)
(* deposits and the page that submit a volume, the endpoint that adds what *)
(* the round archive knows and submits the score, and the list of scores   *)
(* that is polled.  SOAR itself, the archive and the deposits are external.*)
(***************************************************************************)
EXTENDS Naturals, FiniteSets, FiniteSetsExt

CONSTANTS
    Wallets,
    Values,     \* what a deposit of one token may be worth
    DEPOSITS,   \* deposits of a wallet (bound)
    CHANGES,    \* changes of the wallet (bound)
    VISITS,     \* visits of the page after the first (bound)
    REQUESTS,   \* submissions under way at a time (bound)
    POLLS,      \* reads of the leaderboard under way at a time (bound)
    FAULTS      \* failing calls (bound)

VARIABLES
    wallet,     \* the connected wallet
    changes,    \* changes of the wallet so far
    open,       \* the page is shown
    visit,      \* visits of the page so far
    status,     \* of the page
    check,      \* the wallet whose status the effect is reading, if any
    syncing,    \* a request of handleSyncVolume is awaited
    reg,        \* calls of handleRegister under way
    account,    \* wallets with a SOAR player account
    entry,      \* wallets registered for the leaderboard
    score,      \* wallet |-> highest score on the leaderboard
    volume,     \* wallet |-> USDC deposited
    archived,   \* wallet |-> USDC in the archived rounds
    stats,      \* wallet |-> totalVolume of the missions
    reqs,       \* requests to the endpoint under way
    board,      \* wallet |-> score shown
    polls,      \* reads of the leaderboard under way
    faults

page == <<wallet, changes, open, visit, status, check, syncing>>
chain == <<account, entry, score>>
money == <<volume, archived, stats>>
vars == <<page, reg, chain, money, reqs, board, polls, faults>>

Zero == [w \in Wallets |-> 0]

Init ==
    /\ wallet \in Wallets /\ changes = 0 /\ open = TRUE /\ visit = 0
    /\ status = "loading" /\ check = {wallet} /\ syncing = FALSE
    /\ account \in SUBSET Wallets /\ entry = {} /\ score = Zero
    /\ volume = Zero /\ archived = Zero /\ stats = Zero
    /\ reg = {} /\ reqs = {} /\ board = Zero /\ polls = {} /\ faults = 0

Fault == faults < FAULTS /\ faults' = faults + 1

\* Another wallet is connected; the effect of an open page reads its status and the
\* read under way is cancelled.
ConnectWallet(w) ==
    /\ w # wallet /\ changes < CHANGES /\ changes' = changes + 1
    /\ wallet' = w /\ check' = IF open THEN {w} ELSE {}
    /\ status' = IF open THEN "loading" ELSE status
    /\ UNCHANGED <<open, visit, syncing, reg, chain, money, reqs, board, polls, faults>>

\* The page is left, and its state with it.
Leave ==
    /\ open /\ open' = FALSE /\ check' = {} /\ status' = "loading" /\ syncing' = FALSE
    /\ UNCHANGED <<wallet, changes, visit, reg, chain, money, reqs, board, polls, faults>>

\* The page is opened, with a state of its own.
Visit ==
    /\ ~open /\ visit < VISITS /\ visit' = visit + 1
    /\ open' = TRUE /\ status' = "loading" /\ check' = {wallet}
    /\ UNCHANGED <<wallet, changes, syncing, reg, chain, money, reqs, board, polls, faults>>

\* checkSoarPlayerStatus answers; without an account the entry is not looked for.
CheckSoarPlayerStatus ==
    /\ check # {} /\ check' = {}
    /\ \/ status' = (IF check \subseteq account \cap entry THEN "registered" ELSE "not-registered") /\ UNCHANGED faults
       \/ Fault /\ status' = "not-registered"
    /\ UNCHANGED <<wallet, changes, open, visit, syncing, reg, chain, money, reqs, board, polls>>

\* What a call of handleRegister closes over.
Job == [of |-> wallet, cents |-> stats[wallet], visit |-> visit, at |-> "account", init |-> FALSE, register |-> FALSE]

\* handleRegister begins, behind a button that this visit's call disables meanwhile.
HandleRegister ==
    /\ open /\ status = "not-registered" /\ \A j \in reg : j.visit # visit
    /\ reg' = reg \cup {Job}
    /\ UNCHANGED <<page, chain, money, reqs, board, polls, faults>>

Moved(j, k) == reg' = (reg \ {j}) \cup {k}

\* ensureSoarPlayerInitialized reads the two accounts in turn.
ReadAccount(j) ==
    /\ j.at = "account"
    /\ Moved(j, [j EXCEPT !.at = "entry", !.init = j.of \notin account])
    /\ UNCHANGED <<page, chain, money, reqs, board, polls, faults>>

ReadEntry(j) ==
    /\ j.at = "entry"
    /\ Moved(j, [j EXCEPT !.at = IF j.init \/ j.of \notin entry THEN "send" ELSE "done",
                          !.register = j.of \notin entry])
    /\ UNCHANGED <<page, chain, money, reqs, board, polls, faults>>

\* SOAR refuses a transaction that makes what is there, or lacks what is not.
Refused(j) ==
    \/ j.init <=> (j.of \in account)
    \/ j.register /\ j.of \in entry

\* The transaction is signed, sent and confirmed, with all its instructions.
SendRegistration(j) ==
    /\ j.at = "send"
    /\ IF Refused(j) THEN reg' = reg \ {j} /\ UNCHANGED <<account, entry>>
       ELSE /\ Moved(j, [j EXCEPT !.at = "done"])
            /\ account' = account \cup {j.of}
            /\ entry' = IF j.register THEN entry \cup {j.of} ELSE entry
    /\ UNCHANGED <<page, score, money, reqs, board, polls, faults>>

\* The user rejects it, or a call fails: a transaction may have failed on the chain, which
\* is not looked at, or have succeeded although its confirmation is not seen.
RegistrationFails(j) ==
    /\ j.at # "done" /\ Fault
    /\ \/ reg' = reg \ {j} /\ UNCHANGED <<account, entry>>
       \/ /\ j.at = "send" /\ ~Refused(j) /\ reg' = reg \ {j}
          /\ account' = account \cup {j.of} /\ entry' = entry \cup {j.of}
       \/ j.at = "send" /\ Moved(j, [j EXCEPT !.at = "done"]) /\ UNCHANGED <<account, entry>>
    /\ UNCHANGED <<page, score, money, reqs, board, polls>>

Request(w, cents, sync) == [of |-> w, cents |-> cents, sync |-> sync, at |-> "volume"]

\* submitVolumeScoreViaApi posts to the endpoint.
SubmitVolumeScoreViaApi(w, cents, sync) ==
    /\ Cardinality(reqs) < REQUESTS
    /\ reqs' = reqs \cup {Request(w, cents, sync)}

\* Of the page that made the call only the visit at the time is left to tell.
RegisterDoneOn(j) ==
    /\ j.at = "done" /\ reg' = reg \ {j}
    /\ status' = IF open /\ visit = j.visit THEN "registered" ELSE status
    /\ UNCHANGED <<wallet, changes, open, visit, check, syncing, chain, money, board, polls, faults>>

\* handleRegister goes on, for the page as it is by now, with the volume as it was; nobody
\* waits for the answer.
RegisterDone(j) == RegisterDoneOn(j) /\ SubmitVolumeScoreViaApi(j.of, j.cents, FALSE)

\* handleSyncVolume, behind a button that is disabled until the answer.
HandleSyncVolume ==
    /\ open /\ status = "registered" /\ ~syncing /\ syncing' = TRUE
    /\ SubmitVolumeScoreViaApi(wallet, stats[wallet], TRUE)
    /\ UNCHANGED <<wallet, changes, open, visit, status, check, reg, chain, money, board, polls, faults>>

\* handleDeposit of the home page tracks a token for the missions and submits the sum of
\* before and now.
HandleDeposit(value) ==
    /\ ~open /\ stats[wallet] < DEPOSITS
    /\ volume' = [volume EXCEPT ![wallet] = @ + value]
    /\ stats' = [stats EXCEPT ![wallet] = @ + 1]
    /\ SubmitVolumeScoreViaApi(wallet, stats[wallet] + 1, FALSE)
    /\ UNCHANGED <<page, reg, chain, archived, board, polls, faults>>

\* A deposit from another browser.
DepositElsewhere(w) ==
    /\ volume[w] < DEPOSITS /\ volume' = [volume EXCEPT ![w] = @ + 1]
    /\ UNCHANGED <<page, reg, chain, archived, stats, reqs, board, polls, faults>>

\* The crank archives the rounds so far.
Archive(w) ==
    /\ archived[w] < volume[w] /\ archived' = [archived EXCEPT ![w] = volume[w]]
    /\ UNCHANGED <<page, reg, chain, volume, stats, reqs, board, polls, faults>>

\* A request goes on, or is answered.
Answered(q, r) ==
    /\ reqs' = (reqs \ {q}) \cup r
    /\ syncing' = (syncing /\ ~(q.sync /\ r = {}))
    /\ UNCHANGED <<wallet, changes, open, visit, status, check>>

\* Mutant of FinalVolumeCents: what the client knows comes on top.
FinalVolumeCentsSum(client, firebase) == client + firebase

\* finalVolumeCents.
FinalVolumeCents(client, firebase) == Max({client, firebase})

\* The endpoint reads the archive, where an error is a volume of nothing; a volume of
\* nothing is not submitted.
FetchPlayerVolumeFromFirebase(q) ==
    /\ q.at = "volume"
    /\ \E firebase \in {archived[q.of], 0} :
        /\ IF firebase = archived[q.of] THEN UNCHANGED faults ELSE Fault
        /\ LET cents == FinalVolumeCents(q.cents, firebase)
           IN Answered(q, IF cents = 0 THEN {} ELSE {[q EXCEPT !.at = "account", !.cents = cents]})
    /\ UNCHANGED <<reg, chain, money, board, polls>>

\* The two accounts are looked for; without one the answer is 428.
Preflight(q) ==
    /\ q.at \in {"account", "entry"}
    /\ Answered(q, IF q.of \notin (IF q.at = "account" THEN account ELSE entry) THEN {}
                   ELSE {[q EXCEPT !.at = IF q.at = "account" THEN "entry" ELSE "submit"]})
    /\ UNCHANGED <<reg, chain, money, board, polls, faults>>

\* The score is submitted and confirmed; the leaderboard keeps the highest.
SubmitScoreToLeaderBoard(q) ==
    /\ q.at = "submit" /\ Answered(q, {})
    /\ score' = [score EXCEPT ![q.of] = Max({@, q.cents})]
    /\ UNCHANGED <<reg, account, entry, money, board, polls, faults>>

\* The request is lost, or answered with an error.
SubmitFails(q) ==
    /\ Fault /\ Answered(q, {})
    /\ UNCHANGED <<reg, chain, money, board, polls>>

\* useSoarLeaderboard's interval or its button: fetchLeaderboard reads the scores.
Refresh ==
    /\ Cardinality(polls) < POLLS /\ polls' = polls \cup {score}
    /\ UNCHANGED <<page, reg, chain, money, reqs, board, faults>>

\* A list arrives; the latest to arrive is shown.
SetEntries(p) ==
    /\ polls' = polls \ {p} /\ board' = p
    /\ UNCHANGED <<page, reg, chain, money, reqs, faults>>

RegisterStep(j) == ReadAccount(j) \/ ReadEntry(j) \/ SendRegistration(j) \/ RegisterDone(j)

\* The endpoint's step for a request, as it is when all goes well.
SubmitStep(q) == Preflight(q) \/ SubmitScoreToLeaderBoard(q) \/ (FetchPlayerVolumeFromFirebase(q) /\ UNCHANGED faults)

Stages == {"volume", "account", "entry", "submit"}

\* A registration of a visit goes on.
RegisterGoesOn(v) == \E j \in reg : j.visit = v /\ RegisterStep(j)

\* The endpoint goes on with a request.
SubmitGoesOn(n, at, sync) ==
    \E q \in reqs : q.cents = n /\ q.at = at /\ q.sync = sync /\ SubmitStep(q)

\* A read of the leaderboard is answered.
BoardAnswers == \E p \in polls : SetEntries(p)

Next ==
    \/ \E w \in Wallets : ConnectWallet(w) \/ DepositElsewhere(w) \/ Archive(w)
    \/ Leave \/ Visit \/ CheckSoarPlayerStatus \/ HandleRegister \/ HandleSyncVolume
    \/ \E value \in Values : HandleDeposit(value)
    \/ \E j \in reg : RegisterStep(j) \/ RegistrationFails(j)
    \/ \E q \in reqs : SubmitStep(q) \/ FetchPlayerVolumeFromFirebase(q) \/ SubmitFails(q)
    \/ Refresh \/ BoardAnswers

Spec == Init /\ [][Next]_vars

\* Where tokens are counted by their value, no score exceeds what was deposited: the
\* volume of the browser and that of the archive are not added.
ScoreIsDeposited == \A w \in Wallets : score[w] <= volume[w]

\* Who registers is registered in the end, also when the account was there before, or when
\* two calls of two visits send the same transaction.
RegisterEnds == \A w \in Wallets : (\E j \in reg : j.of = w) ~> (w \in entry)

\* Who registers has the archived volume on the leaderboard in the end, although the
\* browser may know nothing of it.
RegisteredVolumeCounts ==
    \A w \in Wallets, n \in 1 .. 2 * DEPOSITS :
        (archived[w] >= n /\ \E j \in reg : j.of = w /\ j.at = "done") ~> (score[w] >= n)

\* The scores of the leaderboard are shown in the end, although reads overtake each other.
BoardCatchesUp == []<>(\A w \in Wallets : board[w] >= score[w])

=============================================================================

---------------------------- MODULE RoundArchive ----------------------------
(***************************************************************************)
(* The archive of one settled round in Firebase, which the history shows   *)
(* once the round's accounts are closed.  Two writers build the document   *)
(* from the round account and one participant record after another: the    *)
(* crank before it closes the accounts (crank/src/firebase.ts, a PATCH),   *)
(* and the winner's browser after a claim (src/lib/roundArchive.ts, a      *)
(* SET).  A record that cannot be read is replaced by an equal share.      *)
(*                                                                         *)
(* The database rules (database.rules.json) let both writers write again.  *)
(* Faults, at most MaxFaults: a read or a write fails, a write is made and *)
(* its answer is lost, the crank restarts.                                 *)
(***************************************************************************)
EXTENDS Integers, FiniteSets, FiniteSetsExt, Sequences, SequencesExt

CONSTANTS
    Stake,          \* usdc_total of each participant, in the order of the round
    Tabs,           \* browser tabs of the winner
    MaxFaults

VARIABLES
    status,         \* of the round account
    records,        \* participants whose record exists
    doc,            \* rounds/{roundId} in Firebase
    crank,          \* where the crank is with this round
    tab,            \* where each tab is with its claim
    pending,        \* claim transactions sent and not landed
    reader,         \* a visitor of the history
    faults

vars == <<status, records, doc, crank, tab, pending, reader, faults>>

Participants == DOMAIN Stake
Total == FoldSeq(LAMBDA a, b : a + b, 0, Stake)

NoDoc == [status |-> "none", deposits |-> <<>>, claimTx |-> "none"]

\* A writer has read deposits of the first Len(deposits) participants.
Idle == [at |-> "idle", deposits |-> <<>>]

\* archived: the id is in archivedRounds.
CrankIdle == [at |-> "idle", deposits |-> <<>>, archived |-> FALSE]

Init ==
    /\ status = "SETTLED"
    /\ records = Participants
    /\ doc = NoDoc
    /\ crank = CrankIdle
    /\ tab = [t \in Tabs |-> Idle]
    /\ pending = {}
    /\ reader = [at |-> "idle", shows |-> "nothing"]
    /\ faults = 0

Fault == faults < MaxFaults /\ faults' = faults + 1
NoFault == UNCHANGED faults

-----------------------------------------------------------------------------
\* One participant's entry: what the record holds, or an equal share of the total.
EqualShare == Total \div Len(Stake)

DepositOf(i) == IF i \in records THEN Stake[i] ELSE EqualShare

\* The next participant's entry is read; the fetch fails when the record is closed, and
\* it may fail when it is not.
ReadNext(deposits, more) ==
    LET i == Len(deposits) + 1
    IN  /\ i \in Participants
        /\ \/ more = Append(deposits, DepositOf(i)) /\ NoFault
           \/ i \in records /\ more = Append(deposits, EqualShare) /\ Fault

AllRead(deposits) == Len(deposits) = Len(Stake)

\* PATCH: the fields that the crank does not send are kept.
Merged(old, deposits) == [old EXCEPT !.status = "CLAIMED", !.deposits = deposits]

\* SET: the whole document, as claimed.
Replaced(deposits, tx) == [status |-> "CLAIMED", deposits |-> deposits, claimTx |-> tx]

-----------------------------------------------------------------------------
\* Mutant of CrankBegins: the accounts are closed before the round is archived.
CrankBeginsClosing ==
    /\ crank.at = "idle"
    /\ status = "CLAIMED"
    /\ crank' = [crank EXCEPT !.at = "closing", !.deposits = <<>>]
    /\ NoFault
    /\ UNCHANGED <<status, records, doc, tab, pending, reader>>

\* The cleanup of a claimed round begins with the archive, unless this process has
\* archived the round.
CrankBegins ==
    /\ crank.at = "idle"
    /\ status = "CLAIMED"
    /\ crank' = [crank EXCEPT !.at = IF crank.archived THEN "closing" ELSE "reading",
                              !.deposits = <<>>]
    /\ NoFault
    /\ UNCHANGED <<status, records, doc, tab, pending, reader>>

CrankReads ==
    /\ crank.at = "reading"
    /\ \E more \in {Append(crank.deposits, d) : d \in Range(Stake) \cup {EqualShare}} :
           /\ ReadNext(crank.deposits, more)
           /\ crank' = [crank EXCEPT !.deposits = more]
    /\ UNCHANGED <<status, records, doc, tab, pending, reader>>

\* saveRoundToFirebase of the crank.
CrankSaves ==
    /\ crank.at = "reading"
    /\ AllRead(crank.deposits)
    /\ doc' = Merged(doc, crank.deposits)
    /\ crank' = [crank EXCEPT !.at = "closing", !.archived = TRUE]
    /\ NoFault
    /\ UNCHANGED <<status, records, tab, pending, reader>>

\* The write fails, or is made and its answer is lost; the cleanup goes on.
CrankSaveFails ==
    /\ crank.at = "reading"
    /\ AllRead(crank.deposits)
    /\ Fault
    /\ doc' \in {doc, Merged(doc, crank.deposits)}
    /\ crank' = [crank EXCEPT !.at = "closing"]
    /\ UNCHANGED <<status, records, tab, pending, reader>>

\* One record is closed; a pass may end before all are.
CrankClosesRecord ==
    /\ crank.at = "closing"
    /\ \E i \in records : records' = records \ {i}
    /\ crank' \in {crank, [crank EXCEPT !.at = "idle"]}
    /\ NoFault
    /\ UNCHANGED <<status, doc, tab, pending, reader>>

CrankClosesRound ==
    /\ crank.at = "closing"
    /\ records = {}
    /\ status' = "ABSENT"
    /\ crank' = CrankIdle
    /\ NoFault
    /\ UNCHANGED <<records, doc, tab, pending, reader>>

CrankRestarts ==
    /\ Fault
    /\ crank' = CrankIdle
    /\ crank # crank'
    /\ UNCHANGED <<status, records, doc, tab, pending, reader>>

-----------------------------------------------------------------------------
\* claim: the transaction is sent and its confirmation is not waited for.
TabClaims(t) ==
    /\ tab[t].at = "idle"
    /\ status = "SETTLED"
    /\ tab' = [tab EXCEPT ![t].at = "sent"]
    /\ pending' = pending \cup {t}
    /\ NoFault
    /\ UNCHANGED <<status, records, doc, crank, reader>>

\* It lands, and is accepted once.
ClaimLands(t) ==
    /\ t \in pending
    /\ pending' = pending \ {t}
    /\ status' = IF status = "SETTLED" THEN "CLAIMED" ELSE status
    /\ NoFault
    /\ UNCHANGED <<records, doc, crank, tab, reader>>

\* The round is read again; when it is gone nothing is archived.
TabRefetches(t) ==
    /\ tab[t].at = "sent"
    /\ tab' = [tab EXCEPT ![t].at = IF status = "ABSENT" THEN "done" ELSE "reading"]
    /\ NoFault
    /\ UNCHANGED <<status, records, doc, crank, pending, reader>>

\* toHistoryRoundWithDeposits.
TabReads(t) ==
    /\ tab[t].at = "reading"
    /\ \E more \in {Append(tab[t].deposits, d) : d \in Range(Stake) \cup {EqualShare}} :
           /\ ReadNext(tab[t].deposits, more)
           /\ tab' = [tab EXCEPT ![t].deposits = more]
    /\ UNCHANGED <<status, records, doc, crank, pending, reader>>

\* saveRoundToFirebase of the browser, with the status CLAIMED whatever was read.
TabSaves(t) ==
    /\ tab[t].at = "reading"
    /\ AllRead(tab[t].deposits)
    /\ \/ doc' = Replaced(tab[t].deposits, t) /\ NoFault
       \/ Fault /\ UNCHANGED doc
    /\ tab' = [tab EXCEPT ![t].at = "done"]
    /\ UNCHANGED <<status, records, crank, pending, reader>>

-----------------------------------------------------------------------------
\* fetchRoundBatch, for this round: the account, and when there is none the archive.
ReaderAsksChain ==
    /\ reader.at = "idle"
    /\ reader' = IF status = "ABSENT" THEN [reader EXCEPT !.at = "archive"]
                 ELSE [reader EXCEPT !.shows = "round"]
    /\ NoFault
    /\ UNCHANGED <<status, records, doc, crank, tab, pending>>

\* A round that is not found, or cannot be fetched, is left out of the list.
ReaderAsksArchive ==
    /\ reader.at = "archive"
    /\ \/ reader' = [at |-> "idle", shows |-> IF doc = NoDoc THEN "gap" ELSE "round"] /\ NoFault
       \/ reader' = [at |-> "idle", shows |-> "gap"] /\ doc # NoDoc /\ Fault
    /\ UNCHANGED <<status, records, doc, crank, tab, pending>>

-----------------------------------------------------------------------------
CrankNext ==
    \/ CrankBegins \/ CrankReads \/ CrankSaves \/ CrankSaveFails
    \/ CrankClosesRecord \/ CrankClosesRound \/ CrankRestarts

Next ==
    \/ CrankNext
    \/ \E t \in Tabs : TabClaims(t) \/ ClaimLands(t) \/ TabRefetches(t) \/ TabReads(t) \/ TabSaves(t)
    \/ ReaderAsksChain \/ ReaderAsksArchive

Spec == Init /\ [][Next]_vars

\* With nothing failing but the crank's process.
RestartNext ==
    \/ CrankBegins \/ (CrankReads /\ NoFault) \/ CrankSaves
    \/ CrankClosesRecord \/ CrankClosesRound \/ CrankRestarts
    \/ \E t \in Tabs : TabClaims(t) \/ ClaimLands(t) \/ TabRefetches(t)
                       \/ ((TabReads(t) \/ TabSaves(t)) /\ NoFault)
    \/ ReaderAsksChain \/ (ReaderAsksArchive /\ NoFault)

-----------------------------------------------------------------------------
\* The history has no gap: at every moment, also between the closing of the accounts and
\* the reader's second question, the round is on chain or in the archive.
HistoryHasNoGap == reader.shows # "gap"

=============================================================================

---------------------------- MODULE RoundContract ----------------------------
(***************************************************************************)
(* What one round id promises its depositors and the services around it,   *)
(* without the accounts that keep the promise: a life cycle, a countdown   *)
(* that stands, an escrow that is paid out once or refunded, and no close  *)
(* of the round while a cancelled one owes a refund.                       *)
(*                                                                         *)
(* JackpotRecords shows that the program, with the crank closing its       *)
(* rounds, implements it; Crank uses it as what the chain is to a client.  *)
(***************************************************************************)
EXTENDS Integers

CONSTANT NumUsers

VARIABLES
    phase,          \* the status of the round
    countdown,      \* "none", "running" or "over"
    staked,         \* staked[u]: what user u paid in and was not paid back
    escrow,         \* what the round holds
    paid            \* the prize has left the escrow

contractVars == <<phase, countdown, staked, escrow, paid>>

\* The stakes of all users.
Total ==
    LET s[u \in 0..NumUsers] == IF u = 0 THEN 0 ELSE s[u-1] + staked[u]
    IN  s[NumUsers]

ContractInit ==
    /\ phase = "ABSENT"
    /\ countdown = "none"
    /\ staked = [u \in 1..NumUsers |-> 0]
    /\ escrow = 0
    /\ paid = FALSE

Start ==
    /\ phase = "ABSENT"
    /\ phase' = "OPEN"
    /\ countdown' = "none"
    /\ UNCHANGED <<staked, escrow, paid>>

\* A deposit is accepted until the countdown is over, and is held in full; one of them
\* starts the countdown.
Deposit(u) ==
    /\ phase = "OPEN"
    /\ countdown # "over"
    /\ escrow' \in Nat
    /\ escrow' > escrow
    /\ staked' = [staked EXCEPT ![u] = @ + (escrow' - escrow)]
    /\ countdown = "none" \/ countdown' = countdown
    /\ countdown' \in {"none", "running", "over"}
    /\ UNCHANGED <<phase, paid>>

CountdownEnds ==
    /\ countdown = "running"
    /\ countdown' = "over"
    /\ UNCHANGED <<phase, staked, escrow, paid>>

\* The only depositor leaves, and takes the round with them.
Leave(u) ==
    /\ phase = "OPEN"
    /\ Total = staked[u]
    /\ phase' = "CANCELLED"
    /\ staked' = [staked EXCEPT ![u] = 0]
    /\ escrow' = escrow - staked[u]
    /\ UNCHANGED <<countdown, paid>>

Lock ==
    /\ phase = "OPEN"
    /\ countdown # "running"
    /\ phase' = "LOCKED"
    /\ UNCHANGED <<countdown, staked, escrow, paid>>

RequestRandomness ==
    /\ phase = "LOCKED"
    /\ phase' = "VRF_REQUESTED"
    /\ UNCHANGED <<countdown, staked, escrow, paid>>

\* Both in one transaction, as the crank sends them.
LockAndRequest ==
    /\ phase = "OPEN"
    /\ countdown # "running"
    /\ phase' = "VRF_REQUESTED"
    /\ UNCHANGED <<countdown, staked, escrow, paid>>

Draw ==
    /\ phase = "VRF_REQUESTED"
    /\ phase' = "SETTLED"
    /\ UNCHANGED <<countdown, staked, escrow, paid>>

ForceCancel ==
    /\ phase \in {"OPEN", "LOCKED", "VRF_REQUESTED"}
    /\ phase' = "CANCELLED"
    /\ UNCHANGED <<countdown, staked, escrow, paid>>

\* The whole pot leaves the escrow in one step, to its receivers or to an executor who
\* finishes the claim later.
Pay ==
    /\ phase = "SETTLED"
    /\ ~paid
    /\ escrow >= Total
    /\ escrow' = escrow - Total
    /\ paid' = TRUE
    /\ phase' \in {"SETTLED", "CLAIMED"}
    /\ UNCHANGED <<countdown, staked>>

Finish ==
    /\ phase = "SETTLED"
    /\ paid
    /\ phase' = "CLAIMED"
    /\ UNCHANGED <<countdown, staked, escrow, paid>>

Refund(u) ==
    /\ phase = "CANCELLED"
    /\ escrow >= staked[u]
    /\ staked' = [staked EXCEPT ![u] = 0]
    /\ escrow' = escrow - staked[u]
    /\ UNCHANGED <<phase, countdown, paid>>

\* The record of a depositor of a paid round is dropped.
Drop(u) ==
    /\ phase = "CLAIMED"
    /\ staked' = [staked EXCEPT ![u] = 0]
    /\ UNCHANGED <<phase, countdown, escrow, paid>>

\* A finished round is closed when it owes nobody anything; the id can be used again.
Close ==
    /\ phase \in {"CLAIMED", "CANCELLED"}
    /\ \A u \in 1..NumUsers : staked[u] = 0
    /\ phase' = "ABSENT"
    /\ countdown' = "none"
    /\ escrow' = 0
    /\ paid' = FALSE
    /\ UNCHANGED staked

\* Somebody adds to the escrow and gets nothing for it.
Donation ==
    /\ escrow' \in Nat
    /\ escrow' > escrow
    /\ UNCHANGED <<phase, countdown, staked, paid>>

ContractNext ==
    \/ Start \/ CountdownEnds \/ Lock \/ RequestRandomness \/ LockAndRequest \/ Draw
    \/ ForceCancel \/ Pay \/ Finish \/ Close \/ Donation
    \/ \E u \in 1..NumUsers : Deposit(u) \/ Leave(u) \/ Refund(u) \/ Drop(u)

ContractSpec == ContractInit /\ [][ContractNext]_contractVars

=============================================================================

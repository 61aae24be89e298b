--------------------------- MODULE JackpotRecords ---------------------------
(***************************************************************************)
(* What the Round account says of the participant records, under           *)
(* OperatedSpec, where the crank closes a round only after every record:   *)
(* the totals are the sums of the records, the vault holds what every      *)
(* depositor can claim back, the rounds keep RoundContract, and the tree   *)
(* of the account summarises the tickets of the records, so that the       *)
(* descent of vrf_callback returns the owner of the drawn ticket.          *)
(***************************************************************************)
EXTENDS JackpotSafety, TreeTheorems

\* A leaf that names no prover is given to SMT, for so many seconds at most.
USE SMTT(60)

-----------------------------------------------------------------------------
\* The inductive invariant.  TotalsAgree says nothing of a cancelled round, whose
\* totals claim_refund does not touch, so what the vault owes is stated for it apart; a
\* new round starts with empty totals, so no record may survive the old one; and closing
\* a record may not lose a stake.
RefundInv ==
    /\ TypeOK
    /\ VaultCoversPot
    /\ TotalsAgree
    /\ round.status = "CANCELLED" => vault >= Sum(NumUsers, Stakes)
    /\ round.status = "ABSENT" => \A u \in Users : ~participant[u].exists
    /\ \A u \in Users : ~participant[u].exists => Stakes[u] = 0 /\ Tickets[u] = 0

-----------------------------------------------------------------------------
(* The draw. *)

\* Somebody can still deposit into the round or win it.
InPlay(status) == status \in {"OPEN", "LOCKED", "VRF_REQUESTED", "SETTLED"}

\* The array of the round and the indices of the records name each other, without a gap
\* in the array.
IndicesAgree ==
    /\ \A u \in Users : participant[u].exists => participant[u].index \in Indices
    /\ \A u \in Users, i \in Indices :
           round.participants[i] = u <=> participant[u].exists /\ participant[u].index = i
    /\ \A i \in Indices : round.participants[i] = NoKey <=> i > round.participants_count

\* The tree and the total are those of the tickets at each index.
TreeAgrees ==
    /\ HoldsRanges(round.bit, TicketsAt)
    /\ round.total_tickets = Sum(MAX_PARTICIPANTS, TicketsAt)
    /\ round.total_tickets <= U64_MAX

\* The inductive invariant.  That no record outlives its round (RefundInv) gives a new
\* round its empty array.
DrawInv ==
    /\ RefundInv
    /\ InPlay(round.status) => IndicesAgree /\ TreeAgrees
    /\ WinnerOwnsTicket

\* The tickets at the indices are natural numbers.
LEMMA TicketsAtType == ASSUME TypeOK PROVE TicketsAt \in [Indices -> Nat]
PROOF
<1>1. \A i \in Indices : round.participants[i] \in Users \cup {NoKey}
  BY DEF TypeOK, Round
<1>2. \A u \in Users : participant[u].tickets_total \in Nat
  BY Zenon DEF TypeOK, Participant
<1>3. QED
  BY <1>1, <1>2, Zenon DEF TicketsAt

\* A step that changes neither the records nor what the round says of them.
LEMMA DrawKept ==
    ASSUME DrawInv, RefundInv', UNCHANGED participant,
           round'.bit = round.bit,
           round'.participants = round.participants,
           round'.participants_count = round.participants_count,
           round'.total_tickets = round.total_tickets,
           InPlay(round'.status) => InPlay(round.status),
           round'.status = "SETTLED" => /\ round.status = "SETTLED"
                                        /\ round'.winner = round.winner
                                        /\ round'.winning_ticket = round.winning_ticket
    PROVE  DrawInv'
PROOF
<1>1. TicketsAt' = TicketsAt
  BY Zenon DEF TicketsAt
<1>2. InPlay(round'.status) => IndicesAgree'
  BY DEF DrawInv, IndicesAgree
<1>3. InPlay(round'.status) => TreeAgrees'
  BY <1>1, Zenon DEF DrawInv, TreeAgrees, HoldsRanges, Sum
<1>4. WinnerOwnsTicket'
  BY <1>1 DEF DrawInv, WinnerOwnsTicket
<1>5. QED
  BY <1>2, <1>3, <1>4, Zenon DEF DrawInv

\* A new round has an empty array and an empty tree.
LEMMA StartDraws == ASSUME DrawInv, StartRound, RefundInv' PROVE DrawInv'
PROOF
<1>1. round' = [NoRound EXCEPT !.status = "OPEN"] /\ UNCHANGED participant
  BY DEF StartRound
<1>2. /\ round'.status = "OPEN" /\ round'.total_tickets = 0 /\ round'.bit = EmptyTree
      /\ round'.participants_count = 0
      /\ \A i \in Indices : round'.participants[i] = NoKey
  BY <1>1 DEF NoRound
<1>3. \A u \in Users : ~participant'[u].exists /\ u # NoKey
  BY <1>1, JackpotAssumption, Zenon DEF DrawInv, RefundInv, StartRound, Wallets
<1>4. IndicesAgree'
  <2>1. \A i \in Indices : i > 0
    BY NodeTypes
  <2>2. QED
    BY <1>2, <1>3, <2>1 DEF IndicesAgree
<1>5. TicketsAt' = [i \in Indices |-> 0]
  BY <1>2 DEF TicketsAt
<1>6. TreeAgrees'
  <2>1. \A g : g = [i \in Indices |-> 0] =>
                  HoldsRanges(EmptyTree, g) /\ Sum(MAX_PARTICIPANTS, g) = 0
    <3> SUFFICES ASSUME NEW g, g = [i \in Indices |-> 0]
                 PROVE  HoldsRanges(EmptyTree, g) /\ Sum(MAX_PARTICIPANTS, g) = 0
      OBVIOUS
    <3>1. g \in [Indices -> Nat] /\ \A i \in Indices : g[i] = 0
      OBVIOUS
    <3>2. Sum(MAX_PARTICIPANTS, g) = 0
      BY <3>1, SumZero, FenwickAssumption DEF Indices
    <3>3. QED
      BY <3>1, <3>2, TreeEmpty
  <2>2. HoldsRanges(round'.bit, TicketsAt') /\ Sum(MAX_PARTICIPANTS, TicketsAt') = 0
    BY <1>2, <1>5, <2>1, Zenon
  <2>3. QED
    BY <1>2, <2>2, FenwickAssumption DEF TreeAgrees, HoldsRanges, Sum
<1>7. QED
  BY <1>2, <1>4, <1>6, Zenon DEF DrawInv, WinnerOwnsTicket

\* The callback draws a ticket between 1 and the total, and the descent finds the index
\* that owns it; an index that owns a ticket is a participant's.
LEMMA CallbackDraws ==
    ASSUME DrawInv, NEW rand \in 0..(round.total_tickets - 1), VrfCallback(rand), RefundInv'
    PROVE  DrawInv'
PROOF
<1> DEFINE t == WinningTicket(rand, round.total_tickets)
           found == BitFindPrefix(round.bit, t)
           g == TicketsAt
           s == PrefixSums(MAX_PARTICIPANTS, TicketsAt)
<1>1. /\ TypeOK /\ round \in Round /\ round.bit \in [Indices -> Nat]
      /\ round.total_tickets \in Nat
  BY Zenon DEF DrawInv, RefundInv, TypeOK, Round
<1>2. round.status = "VRF_REQUESTED"
  BY Zenon DEF VrfCallback, CallbackStatusOk
<1>3. IndicesAgree /\ TreeAgrees
  BY <1>2, Zenon DEF DrawInv, InPlay
<1>4. t \in 1..Sum(MAX_PARTICIPANTS, TicketsAt)
  <2>1. rand % round.total_tickets = rand
    BY <1>1
  <2>2. t = rand + 1
    BY <2>1, Zenon DEF WinningTicket
  <2>3. QED
    BY <1>1, <1>3, <2>2 DEF TreeAgrees
<1>5. /\ found.index \in Indices
      /\ s[found.index - 1] < t
      /\ t <= s[found.index]
  <2> HIDE DEF t
  <2>1. TicketsAt \in [Indices -> Nat]
    BY <1>1, TicketsAtType
  <2>2. HoldsRanges(round.bit, TicketsAt) /\ Sum(MAX_PARTICIPANTS, TicketsAt) <= U64_MAX
    BY <1>3 DEF TreeAgrees
  <2>3. QED
    BY <1>1, <1>4, <2>1, <2>2, FindsOwner, Zenon
<1>6. /\ round' = [round EXCEPT !.status = "SETTLED", !.winning_ticket = t,
                                !.winner = round.participants[found.index]]
      /\ UNCHANGED participant
  BY DEF VrfCallback
<1> HIDE DEF t, found
<1>7. /\ round'.status = "SETTLED" /\ round'.winning_ticket = t
      /\ round'.winner = round.participants[found.index]
      /\ round'.bit = round.bit /\ round'.participants = round.participants
      /\ round'.participants_count = round.participants_count
      /\ round'.total_tickets = round.total_tickets
  BY <1>1, <1>6, Zenon DEF Round
<1>8. TicketsAt' = TicketsAt
  BY <1>6, <1>7 DEF TicketsAt
<1>9. round.participants[found.index] \in Users
  <2>1. TicketsAt \in [1..MAX_PARTICIPANTS -> Int] /\ MAX_PARTICIPANTS \in Nat
    BY <1>1, TicketsAtType, FenwickAssumption DEF Indices
  <2>2. IsPrefixSums(s, MAX_PARTICIPANTS, TicketsAt)
    BY <2>1, PrefixSumsDef
  <2> HIDE DEF s
  <2>3. /\ found.index \in 1..MAX_PARTICIPANTS /\ found.index \in 0..MAX_PARTICIPANTS
        /\ found.index - 1 \in 0..MAX_PARTICIPANTS
    BY <1>5, <2>1 DEF Indices
  <2>4. /\ s[found.index] = s[found.index - 1] + TicketsAt[found.index]
        /\ s[found.index - 1] \in Int /\ s[found.index] \in Int
    BY <2>1, <2>2, <2>3 DEF IsPrefixSums
  <2>5. t \in Nat
    BY <1>4
  <2>6. TicketsAt[found.index] # 0
    BY <1>5, <2>4, <2>5
  <2>7. QED
    BY <1>1, <1>5, <2>6, Zenon DEF TicketsAt, Round
<1>10. WinnerOwnsTicket'
  BY <1>5, <1>7, <1>8, <1>9 DEF WinnerOwnsTicket
<1>11. IndicesAgree'
  BY <1>3, <1>6, <1>7 DEF IndicesAgree
<1>12. TreeAgrees'
  BY <1>3, <1>7, <1>8, Zenon DEF TreeAgrees, HoldsRanges, Sum
<1>13. QED
  BY <1>10, <1>11, <1>12 DEF DrawInv

\* The record, the array, the tree and the total after a deposit of u.
LEMMA DepositDraws == ASSUME DrawInv, DepositsNext, RefundInv' PROVE DrawInv'
PROOF
<1>a. PICK u \in Users : \E before \in 0..usdc[u], min_out \in MinOuts :
                              DepositAny(u, before, min_out)
  BY Zenon DEF DepositsNext
<1>b. PICK before \in 0..usdc[u], min_out \in MinOuts : DepositAny(u, before, min_out)
  BY <1>a
<1> DEFINE delta == usdc[u] - before
           added == delta \div config.ticket_unit
           p == JoinedParticipant(u)
           old == participant[u].exists
           count == round.participants_count
<1>1. /\ TypeOK /\ TypeOK' /\ round \in Round /\ participant \in [Users -> Participant]
      /\ round.bit \in [Indices -> Nat] /\ round.total_tickets \in Nat
      /\ round.participants \in [Indices -> Users \cup {NoKey}]
      /\ count \in 0..MAX_PARTICIPANTS /\ count \in Nat
  <2>1. TypeOK /\ TypeOK'
    BY Zenon DEF DrawInv, RefundInv
  <2>2. round \in Round /\ participant \in [Users -> Participant]
    BY <2>1, Zenon DEF TypeOK
  <2>3. /\ round.bit \in [Indices -> Nat] /\ round.total_tickets \in Nat
        /\ round.participants \in [Indices -> Users \cup {NoKey}]
        /\ count \in 0..MAX_PARTICIPANTS
    BY <2>2, Zenon DEF Round
  <2>4. count \in Nat
    BY <2>3, FenwickAssumption
  <2>5. QED
    BY <2>1, <2>2, <2>3, <2>4, Zenon
<1>2. round.status = "OPEN"
  BY <1>b, Zenon DEF DepositAny, DepositAllowed
<1>3. IndicesAgree /\ TreeAgrees
  BY <1>2 DEF DrawInv, InPlay
<1>4. added \in Nat
  <2>1. delta \in Nat
    <3>1. usdc[u] \in Nat
      BY <1>1, Zenon DEF TypeOK, Wallets
    <3>2. QED
      BY <3>1
  <2>2. config.ticket_unit \in Nat /\ config.ticket_unit # 0
    BY <1>1, <1>b, Zenon DEF TypeOK, Config, DepositAny
  <2> HIDE DEF delta
  <2>3. QED
    BY <2>1, <2>2
\* The index of the record: the old one, or the first free one of the array.
<1>5. /\ p.exists /\ p.index \in Indices
      /\ p.tickets_total = TicketsAt[p.index]
      /\ p.index = IF old THEN participant[u].index ELSE count + 1
      /\ p \in Participant
  <2>1. CASE old
    <3>1. p = participant[u] /\ p \in Participant
      BY <1>1, <2>1, Zenon DEF JoinedParticipant
    <3>2. p.index \in Indices /\ round.participants[p.index] = u
      BY <1>3, <2>1, <3>1 DEF IndicesAgree
    <3>3. u # NoKey
      BY JackpotAssumption, Zenon DEF Wallets
    <3>4. QED
      BY <2>1, <3>1, <3>2, <3>3, Zenon DEF TicketsAt
  <2>2. CASE ~old
    <3>1. count + 1 \in Indices
      BY <1>1, <1>b, <2>2, FenwickAssumption DEF DepositAny, RoomFor, Indices
    <3>2. p = [NoParticipant EXCEPT !.exists = TRUE, !.index = count + 1]
      BY <2>2, Zenon DEF JoinedParticipant
    <3>3. round.participants[count + 1] = NoKey
      BY <1>1, <1>3, <3>1 DEF IndicesAgree
    <3>4. count + 1 \in 0..MAX_PARTICIPANTS
      BY <3>1, NodeTypes, Zenon
    <3>5. /\ p.exists /\ p.index = count + 1 /\ p.tickets_total = 0
          /\ p.usdc_total = 0 /\ p.deposits_count = 0
      BY <3>2, Zenon DEF NoParticipant
    <3>6. p \in Participant
      <4>1. p = [exists |-> TRUE, index |-> count + 1, tickets_total |-> 0,
                 usdc_total |-> 0, deposits_count |-> 0]
        BY <3>2, Zenon DEF NoParticipant
      <4> HIDE DEF p, count
      <4>2. QED
        BY <3>4, <4>1, Zenon DEF Participant
    <3>7. TicketsAt[count + 1] = 0
      BY <3>1, <3>3, Zenon DEF TicketsAt
    <3>8. QED
      BY <2>2, <3>1, <3>5, <3>6, <3>7, Zenon
  <2>3. QED
    BY <2>1, <2>2
<1> HIDE DEF added, p
<1>6. /\ participant'[u].exists
      /\ participant'[u].index = p.index
      /\ participant'[u].tickets_total = p.tickets_total + added
      /\ \A v \in Users : v # u => participant'[v] = participant[v]
  <2>1. participant' = [participant EXCEPT ![u] =
               [p EXCEPT !.tickets_total = @ + added,
                         !.usdc_total = @ + delta,
                         !.deposits_count = @ + 1]]
    BY <1>b, Zenon DEF DepositAny, p, added
  <2> HIDE DEF delta
  <2>2. QED
    BY <1>1, <1>5, <2>1 DEF Participant
<1>7. /\ round'.status = "OPEN"
      /\ round'.participants_count = JoinedCount(u)
      /\ round'.participants = JoinedArray(u)
      /\ round'.total_tickets = round.total_tickets + added
      /\ round'.bit = BitAdd(round.bit, p.index, added)
      /\ round.total_tickets + added <= U64_MAX
  BY <1>1, <1>2, <1>b, Zenon DEF Round, DepositAny, added, p
\* The array names u at that index and is otherwise the same.
<1>8. /\ round'.participants[p.index] = u
      /\ \A i \in Indices : i # p.index => round'.participants[i] = round.participants[i]
      /\ round'.participants_count = IF old THEN count ELSE count + 1
  <2>1. CASE old
    <3>1. round.participants[p.index] = u
      BY <1>3, <1>5, <2>1, Zenon DEF IndicesAgree
    <3>2. round'.participants = round.participants /\ round'.participants_count = count
      BY <1>1, <1>7, <2>1 DEF JoinedArray, JoinedCount
    <3>3. QED
      BY <2>1, <3>1, <3>2, Zenon
  <2>2. CASE ~old
    BY <1>1, <1>5, <1>7, <2>2, Zenon DEF JoinedArray, JoinedCount
  <2>3. QED
    BY <2>1, <2>2, Zenon
<1>9. \A v \in Users : v # NoKey
  BY JackpotAssumption, Zenon DEF Wallets
\* Nobody else has that index.
<1>10. \A v \in Users : v # u => /\ round.participants[p.index] # v
                                 /\ ~(participant[v].exists /\ participant[v].index = p.index)
  <2> SUFFICES ASSUME NEW v \in Users, v # u PROVE round.participants[p.index] # v
    BY <1>3, <1>5 DEF IndicesAgree
  <2>1. CASE old
    BY <1>3, <1>5, <2>1, Zenon DEF IndicesAgree
  <2>2. CASE ~old
    BY <1>1, <1>3, <1>5, <1>9, <2>2 DEF IndicesAgree
  <2>3. QED
    BY <2>1, <2>2, Zenon
<1>11. \A i \in Indices : i # p.index => round.participants[i] # u
  <2> SUFFICES ASSUME NEW i \in Indices, round.participants[i] = u PROVE i = p.index
    BY Zenon
  <2>1. old /\ participant[u].index = i
    BY <1>3, Zenon DEF IndicesAgree
  <2>2. QED
    BY <1>5, <2>1
<1>12. IndicesAgree'
  <2>1. ASSUME NEW v \in Users, participant'[v].exists PROVE participant'[v].index \in Indices
    BY <1>3, <1>5, <1>6, <2>1, Zenon DEF IndicesAgree
  <2>2. ASSUME NEW v \in Users, NEW i \in Indices
        PROVE  round'.participants[i] = v <=> participant'[v].exists /\ participant'[v].index = i
    <3>1. CASE v = u
      BY <1>5, <1>6, <1>8, <1>11, <3>1, Zenon
    <3>2. CASE v # u /\ i = p.index
      BY <1>6, <1>8, <1>10, <3>2, Zenon
    <3>3. CASE v # u /\ i # p.index
      BY <1>3, <1>6, <1>8, <3>3 DEF IndicesAgree
    <3>4. QED
      BY <3>1, <3>2, <3>3, Zenon
  <2>3. ASSUME NEW i \in Indices
        PROVE  round'.participants[i] = NoKey <=> i > round'.participants_count
    <3>0. i \in Nat /\ p.index \in Nat
      BY <1>5, NodeTypes, Zenon
    <3>1. round.participants[i] = NoKey <=> i > count
      BY <1>3, Zenon DEF IndicesAgree
    <3>2. CASE old
      <4>1. round.participants[p.index] = u
        BY <1>3, <1>5, <3>2, Zenon DEF IndicesAgree
      <4>2. QED
        BY <1>8, <3>1, <3>2, <4>1, Zenon
    <3>3. CASE ~old /\ i = p.index
      BY <1>1, <1>5, <1>8, <1>9, <3>0, <3>3
    <3>4. CASE ~old /\ i # p.index
      BY <1>1, <1>5, <1>8, <3>0, <3>1, <3>4
    <3>5. QED
      BY <3>2, <3>3, <3>4, Zenon
  <2>4. QED
    BY <2>1, <2>2, <2>3 DEF IndicesAgree
\* The table of tickets changes at that index.
<1>13. /\ TicketsAt \in [Indices -> Nat] /\ TicketsAt' \in [Indices -> Nat]
       /\ TicketsAt'[p.index] - TicketsAt[p.index] = added
       /\ SameExceptAt(p.index, TicketsAt, TicketsAt')
  <2>1. TicketsAt \in [Indices -> Nat] /\ TicketsAt' \in [Indices -> Nat]
    <3>1. \A i \in Indices : round'.participants[i] \in Users \cup {NoKey}
      BY <1>1 DEF TypeOK, Round
    <3>2. \A v \in Users : participant'[v].tickets_total \in Nat
      BY <1>1, Zenon DEF TypeOK, Participant
    <3>3. TicketsAt' \in [Indices -> Nat]
      BY <3>1, <3>2, Zenon DEF TicketsAt
    <3>4. QED
      BY <1>1, <3>3, TicketsAtType, Zenon
  <2>2. TicketsAt'[p.index] = TicketsAt[p.index] + added
    <3>1. TicketsAt'[p.index] = participant'[u].tickets_total
      BY <1>5, <1>8, <1>9, Zenon DEF TicketsAt
    <3>2. QED
      BY <1>5, <1>6, <3>1, Zenon
  <2>3. TicketsAt'[p.index] - TicketsAt[p.index] = added
    BY <1>4, <1>5, <2>1, <2>2
  <2>4. ASSUME NEW i \in Indices, i # p.index PROVE TicketsAt'[i] = TicketsAt[i]
    <3>1. round'.participants[i] = round.participants[i]
      BY <1>8, <2>4, Zenon
    <3>2. round.participants[i] # u /\ round.participants[i] \in Users \cup {NoKey}
      BY <1>1, <1>11, <2>4, Zenon
    <3>3. CASE round.participants[i] = NoKey
      BY <3>1, <3>3, Zenon DEF TicketsAt
    <3>4. CASE round.participants[i] # NoKey
      <4>1. participant'[round.participants[i]] = participant[round.participants[i]]
        BY <1>6, <3>2, <3>4, Zenon
      <4>2. QED
        BY <3>1, <3>4, <4>1, Zenon DEF TicketsAt
    <3>5. QED
      BY <3>3, <3>4
  <2>5. QED
    BY <2>1, <2>3, <2>4 DEF SameExceptAt
<1>14. TreeAgrees'
  <2>1. /\ HoldsRanges(round.bit, TicketsAt)
        /\ round.total_tickets = Sum(MAX_PARTICIPANTS, TicketsAt)
    BY <1>3 DEF TreeAgrees
  <2>2. /\ HoldsRanges(BitAdd(round.bit, p.index, added), TicketsAt')
        /\ Sum(MAX_PARTICIPANTS, TicketsAt') =
              Sum(MAX_PARTICIPANTS, TicketsAt) - TicketsAt[p.index] + TicketsAt'[p.index]
    <3> DEFINE change == TicketsAt'[p.index] - TicketsAt[p.index]
    <3>1. p.index \in Indices /\ SameExceptAt(p.index, TicketsAt, TicketsAt')
      BY <1>5, <1>13
    <3>2. /\ HoldsRanges(BitAdd(round.bit, p.index, change), TicketsAt')
          /\ Sum(MAX_PARTICIPANTS, TicketsAt') =
                Sum(MAX_PARTICIPANTS, TicketsAt) - TicketsAt[p.index] + TicketsAt'[p.index]
      BY <1>13, <2>1, <3>1, TreeUpdate
    <3>3. change = added
      BY <1>13, Zenon
    <3> HIDE DEF change
    <3>4. QED
      BY <3>2, <3>3, Zenon
  <2>3. TicketsAt[p.index] \in Nat /\ TicketsAt'[p.index] \in Nat
    BY <1>5, <1>13, Zenon
  <2>4. Sum(MAX_PARTICIPANTS, TicketsAt') = round.total_tickets + added
    BY <1>1, <1>4, <1>13, <2>1, <2>2, <2>3
  <2>5. QED
    BY <1>7, <2>2, <2>4, Zenon DEF TreeAgrees, HoldsRanges, Sum
<1>15. QED
  BY <1>7, <1>12, <1>14, Zenon DEF DrawInv, WinnerOwnsTicket

\* The other steps of the lifecycle keep the records, the array and the tree.
LEMMA LifecycleDraws == ASSUME DrawInv, LifecycleNext, RefundInv' PROVE DrawInv'
PROOF
<1>0. round \in Round
  BY Zenon DEF DrawInv, RefundInv, TypeOK
<1>1. CASE StartRound
  BY <1>1, StartDraws
<1>2. CASE LockRound
  <2>1. /\ UNCHANGED participant /\ round.status = "OPEN"
        /\ round' = [round EXCEPT !.status = "LOCKED"]
    BY <1>2 DEF LockRound
  <2>2. QED
    BY <1>0, <2>1, DrawKept DEF Round, InPlay
<1>3. ASSUME NEW payer \in Payers, RequestVrf(payer) PROVE DrawInv'
  <2>1. /\ UNCHANGED participant /\ round.status = "LOCKED"
        /\ round' = [round EXCEPT !.status = "VRF_REQUESTED", !.vrf_payer = payer]
    BY <1>3 DEF RequestVrf
  <2>2. QED
    BY <1>0, <2>1, DrawKept DEF Round, InPlay
<1>4. ASSUME NEW rand \in 0..(round.total_tickets - 1), VrfCallback(rand) PROVE DrawInv'
  BY <1>4, CallbackDraws, Zenon
<1>5. ASSUME NEW a \in Admins, AdminForceCancel(a) PROVE DrawInv'
  <2>1. UNCHANGED participant /\ round' = [round EXCEPT !.status = "CANCELLED"]
    BY <1>5, Zenon DEF AdminForceCancel
  <2>2. QED
    BY <1>0, <2>1, DrawKept DEF Round, InPlay
<1>6. QED
  BY <1>1, <1>2, <1>3, <1>4, <1>5 DEF LifecycleNext, VrfNext

\* A refund leaves the round cancelled, where nothing is drawn.
LEMMA RefundDraws == ASSUME DrawInv, RefundsNext, RefundInv' PROVE DrawInv'
PROOF
<1>1. round'.status = "CANCELLED"
  BY RefundEffect DEF DrawInv, RefundInv
<1>2. QED
  BY <1>1, Zenon DEF DrawInv, InPlay, WinnerOwnsTicket

\* The steps of a degen claim keep the records.
LEMMA DegenKeepsRecords == ASSUME DegenExecutionNext PROVE UNCHANGED participant
PROOF
<1>1. ASSUME NEW e, NEW u, NEW k, NEW t, NEW m, NEW min_out_raw, NEW payer_given,
             BeginDegenExecution(e, u, k, t, m, min_out_raw, payer_given)
      PROVE  UNCHANGED participant
  BY <1>1, Zenon DEF BeginDegenExecution
<1>2. ASSUME NEW u, NEW status, NEW k, NEW t, NEW payer_given,
             PayInUsdc(u, status, k, t, payer_given)
      PROVE  UNCHANGED participant
  BY <1>2, Zenon DEF PayInUsdc
<1>3. ASSUME NEW e, NEW u, NEW other_empty, FinalizeDegenSuccess(e, u, other_empty)
      PROVE  UNCHANGED participant
  BY <1>3, Zenon DEF FinalizeDegenSuccess
<1>4. QED
  BY <1>1, <1>2, <1>3, Zenon
  DEF DegenExecutionNext, ClaimDegen, ClaimDegenFallback, AutoClaimDegenFallback

\* The payments of a settled round keep its draw.
LEMMA PaymentDraws ==
    ASSUME DrawInv, ClaimsNext \/ DegenVrfNext \/ DegenExecutionNext, RefundInv'
    PROVE  DrawInv'
PROOF
<1>0. TypeOK /\ round \in Round
  BY Zenon DEF DrawInv, RefundInv, TypeOK
<1>1. CASE ClaimsNext
  <2>1. UNCHANGED participant
    BY <1>1, Zenon DEF ClaimsNext, Claim, AutoClaim, PayWinner
  <2>2. PICK b \in BOOLEAN :
             round' = [round EXCEPT !.status = "CLAIMED", !.vrf_reimbursed = b]
    BY <1>0, <1>1, ClaimEffect, Zenon
  <2>3. QED
    BY <1>0, <2>1, <2>2, DrawKept DEF Round, InPlay
<1>2. CASE DegenVrfNext
  <2>1. UNCHANGED participant
    BY <1>2, Zenon DEF DegenVrfNext, RequestDegenVrf, DegenVrfCallback
  <2>2. /\ round.status = "SETTLED"
        /\ \E to \in {"NONE", "VRF_REQUESTED", "VRF_READY"} :
              round' = [round EXCEPT !.degen_mode = to]
    BY <1>0, <1>2, DegenVrfEffect, Zenon
  <2>3. QED
    BY <1>0, <2>1, <2>2, DrawKept DEF Round, InPlay
<1>3. CASE DegenExecutionNext
  <2>1. UNCHANGED participant
    BY <1>3, DegenKeepsRecords
  <2>2. PICK u \in Users : BeginEffect(u) \/ PayEffect(u) \/ FinalizeEffect(u)
    BY <1>0, <1>3, DegenExecutionEffect
  <2>3. /\ round.status = "SETTLED"
        /\ round'.bit = round.bit /\ round'.participants = round.participants
        /\ round'.participants_count = round.participants_count
        /\ round'.total_tickets = round.total_tickets
        /\ round'.winner = round.winner /\ round'.winning_ticket = round.winning_ticket
    BY <1>0, <2>2, Zenon DEF BeginEffect, PayEffect, FinalizeEffect, DegenReady, Round
  <2>4. QED
    BY <2>1, <2>3, DrawKept DEF InPlay
<1>4. QED
  BY <1>1, <1>2, <1>3

\* Cleanup is for a round that is over; what remains does not touch round and records.
LEMMA OtherDraws ==
    ASSUME DrawInv, RefundInv',
           \/ \E u \in Users : CloseParticipant(u)
           \/ CrankCloses
           \/ AdminNext
           \/ EnvironmentNext
           \/ UNCHANGED vars
    PROVE  DrawInv'
PROOF
<1>1. CASE \E u \in Users : CloseParticipant(u)
  <2>1. round' = round /\ round.status \in {"CLAIMED", "CANCELLED"}
    BY <1>1, Zenon DEF CloseParticipant, Terminal
  <2>2. QED
    BY <2>1, Zenon DEF DrawInv, InPlay, WinnerOwnsTicket
<1>2. CASE CrankCloses
  <2>1. round'.status = "ABSENT"
    BY <1>2, BlankRound, Zenon DEF CrankCloses, CloseRound
  <2>2. QED
    BY <2>1, Zenon DEF DrawInv, InPlay, WinnerOwnsTicket
<1>3. CASE AdminNext \/ EnvironmentNext \/ UNCHANGED vars
  <2>1. ASSUME AdminNext PROVE UNCHANGED <<participant, round>>
    BY <2>1, Zenon DEF AdminNext, InitConfig, UpdateConfig, UpsertDegenConfig,
                       SetTreasuryUsdcAta, TransferAdmin
  <2>2. ASSUME EnvironmentNext PROVE UNCHANGED <<participant, round>>
    BY <2>2, Zenon DEF EnvironmentNext, Tick, Swap, Donate
  <2>3. ASSUME UNCHANGED vars PROVE UNCHANGED <<participant, round>>
    BY <2>3, Zenon DEF vars
  <2>4. QED
    BY <1>3, <2>1, <2>2, <2>3, DrawKept, Zenon
<1>4. QED
  BY <1>1, <1>2, <1>3

-----------------------------------------------------------------------------
(* The records. *)

\* The functions that are summed have numbers as values, and so have their sums.
LEMMA StakeTypes ==
    ASSUME TypeOK
    PROVE  /\ NumUsers \in Nat
           /\ Stakes \in [1..NumUsers -> Nat] /\ Stakes \in [1..NumUsers -> Int]
           /\ Tickets \in [1..NumUsers -> Nat] /\ Tickets \in [1..NumUsers -> Int]
           /\ Sum(NumUsers, Stakes) \in Nat /\ Sum(NumUsers, Tickets) \in Nat
PROOF
<1>1. NumUsers \in Nat
  BY JackpotAssumption
<1>2. \A u \in 1..NumUsers : participant[u].usdc_total \in Nat /\ participant[u].tickets_total \in Nat
  BY DEF TypeOK, Users, Participant
<1>3. Stakes \in [1..NumUsers -> Nat] /\ Tickets \in [1..NumUsers -> Nat]
  BY <1>2 DEF Stakes, Tickets, Users
<1>4. Stakes \in [1..NumUsers -> Int] /\ Tickets \in [1..NumUsers -> Int]
  BY <1>2 DEF Stakes, Tickets, Users
<1>5. QED
  BY <1>1, <1>3, <1>4, SumNonNegative, Zenon

\* A step that changes one record changes the sums by the change of that record.
LEMMA OneRecord ==
    ASSUME TypeOK, TypeOK', NEW u \in Users,
           \A v \in Users \ {u} : participant'[v] = participant[v]
    PROVE  /\ Sum(NumUsers, Stakes') = Sum(NumUsers, Stakes) - participant[u].usdc_total
                                                           + participant'[u].usdc_total
           /\ Sum(NumUsers, Tickets') = Sum(NumUsers, Tickets) - participant[u].tickets_total
                                                             + participant'[u].tickets_total
PROOF
<1>1. /\ NumUsers \in Nat /\ u \in 1..NumUsers
      /\ Stakes \in [1..NumUsers -> Int] /\ Tickets \in [1..NumUsers -> Int]
  BY StakeTypes DEF Users
<1>2. Stakes' \in [1..NumUsers -> Int] /\ Tickets' \in [1..NumUsers -> Int]
  <2>1. \A v \in 1..NumUsers : /\ participant'[v].usdc_total \in Nat
                              /\ participant'[v].tickets_total \in Nat
    BY Zenon DEF TypeOK, Users, Participant
  <2>2. QED
    BY <2>1 DEF Stakes, Tickets, Users
<1>3. \A i \in 1..NumUsers : i # u => Stakes'[i] = Stakes[i] /\ Tickets'[i] = Tickets[i]
  BY DEF Stakes, Tickets, Users
<1>4. /\ Stakes[u] = participant[u].usdc_total /\ Stakes'[u] = participant'[u].usdc_total
      /\ Tickets[u] = participant[u].tickets_total
      /\ Tickets'[u] = participant'[u].tickets_total
  BY DEF Stakes, Tickets
<1>5. Sum(NumUsers, Stakes') = Sum(NumUsers, Stakes) - Stakes[u] + Stakes'[u]
  BY <1>1, <1>2, <1>3, SumUpdate, Zenon
<1>6. Sum(NumUsers, Tickets') = Sum(NumUsers, Tickets) - Tickets[u] + Tickets'[u]
  BY <1>1, <1>2, <1>3, SumUpdate, Zenon
<1>7. QED
  BY <1>4, <1>5, <1>6

\* Without participant records the sums are zero.
LEMMA NoRecords ==
    ASSUME TypeOK, \A u \in Users : Stakes[u] = 0 /\ Tickets[u] = 0
    PROVE  Sum(NumUsers, Stakes) = 0 /\ Sum(NumUsers, Tickets) = 0
PROOF
<1>1. /\ NumUsers \in Nat /\ Stakes \in [1..NumUsers -> Int]
      /\ Tickets \in [1..NumUsers -> Int]
  BY StakeTypes
<1>2. \A i \in 1..NumUsers : Stakes[i] = 0 /\ Tickets[i] = 0
  BY DEF Users
<1>3. QED
  BY <1>1, <1>2, SumZero

\* The part of RefundInv that is about records and sums, for a step that changes no
\* record.
LEMMA RecordsKept ==
    ASSUME RefundInv, TypeOK', VaultCoversPot', UNCHANGED participant,
           round'.status = round.status \/ round'.status = "CLAIMED",
           round.status = "CANCELLED" => vault' >= vault,
           round'.total_usdc = round.total_usdc,
           round'.total_tickets = round.total_tickets
    PROVE  RefundInv'
PROOF
<1>1. Stakes' = Stakes /\ Tickets' = Tickets
  BY DEF Stakes, Tickets
<1>2. Sum(NumUsers, Stakes) \in Nat /\ vault \in Nat /\ vault' \in Nat
  BY StakeTypes, Zenon DEF RefundInv, TypeOK
<1>3. TotalsAgree'
  BY <1>1, Zenon DEF RefundInv, TotalsAgree
<1>4. (round.status = "CANCELLED" => vault >= Sum(NumUsers, Stakes))'
  BY <1>1, <1>2 DEF RefundInv
<1>5. QED
  BY <1>1, <1>3, <1>4, Zenon DEF RefundInv

-----------------------------------------------------------------------------
\* Starting a round: no record of an earlier round is left, so the sums are zero.
\* Leaving it by force: the pot in the vault becomes the refunds.
LEMMA LifecycleRefunds == ASSUME RefundInv, LifecycleNext, TypeOK', VaultCoversPot' PROVE RefundInv'
PROOF
<1>1. Stakes' = Stakes /\ Tickets' = Tickets /\ UNCHANGED <<participant, vault>>
  BY LifecycleEffect DEF Stakes, Tickets, RefundInv
<1>2. CASE /\ round.status = "ABSENT"
           /\ round' = [NoRound EXCEPT !.status = "OPEN"]
  <2>1. Sum(NumUsers, Stakes) = 0 /\ Sum(NumUsers, Tickets) = 0
    BY <1>2, NoRecords DEF RefundInv
  <2>2. round'.status = "OPEN" /\ round'.total_usdc = 0 /\ round'.total_tickets = 0
    BY <1>2, BlankRound, Zenon
  <2>3. TotalsAgree'
    BY <1>1, <2>1, <2>2 DEF TotalsAgree
  <2>4. QED
    BY <1>1, <2>2, <2>3 DEF RefundInv
<1>3. CASE /\ round.status \in {"OPEN", "LOCKED", "VRF_REQUESTED"}
           /\ round'.total_usdc = round.total_usdc
           /\ round'.total_tickets = round.total_tickets
           /\ round'.status \in {"LOCKED", "VRF_REQUESTED", "SETTLED", "CANCELLED"}
  <2>1. /\ round.total_usdc = Sum(NumUsers, Stakes)
        /\ round.total_tickets = Sum(NumUsers, Tickets)
        /\ vault >= round.total_usdc
    BY <1>3 DEF RefundInv, TotalsAgree, VaultCoversPot, PrizeHeld
  <2>2. TotalsAgree'
    BY <1>1, <1>3, <2>1 DEF TotalsAgree
  <2>3. QED
    BY <1>1, <1>3, <2>1, <2>2, Zenon DEF RefundInv
<1>4. QED
  BY <1>2, <1>3, LifecycleEffect DEF RefundInv

\* A deposit adds the same amounts to the record and to the totals; a record that did not
\* exist had no stake.
LEMMA DepositRefunds == ASSUME RefundInv, DepositsNext, TypeOK', VaultCoversPot' PROVE RefundInv'
PROOF
<1>a. PICK u \in Users : \E before \in 0..usdc[u], min_out \in MinOuts :
                              DepositAny(u, before, min_out)
  BY DEF DepositsNext
<1>b. PICK before \in 0..usdc[u], min_out \in MinOuts : DepositAny(u, before, min_out)
  BY <1>a
<1> DEFINE delta == usdc[u] - before
           tickets == delta \div config.ticket_unit
           p == JoinedParticipant(u)
<1>0. TypeOK
  BY DEF RefundInv
<1>1. delta \in Nat
  BY <1>0 DEF TypeOK, Wallets
<1>2. tickets \in Nat
  <2>1. config.ticket_unit \in Nat /\ config.ticket_unit # 0
    BY <1>0, <1>b, Zenon DEF TypeOK, Config, DepositAny
  <2> HIDE DEF delta
  <2>2. QED
    BY <1>1, <2>1
<1>3. /\ p.exists
      /\ p.usdc_total = participant[u].usdc_total
      /\ p.tickets_total = participant[u].tickets_total
  <2>1. CASE participant[u].exists
    BY <2>1 DEF JoinedParticipant
  <2>2. CASE ~participant[u].exists
    BY <2>2 DEF JoinedParticipant, NoParticipant, RefundInv, Stakes, Tickets
  <2>3. QED
    BY <2>1, <2>2
<1>4. p \in [exists : BOOLEAN, index : Int, tickets_total : Nat, usdc_total : Nat,
             deposits_count : Nat]
  <2>1. CASE participant[u].exists
    BY <1>0, <2>1 DEF JoinedParticipant, TypeOK, Participant
  <2>2. CASE ~participant[u].exists
    <3>1. round.participants_count + 1 \in Int
      BY <1>0, FenwickAssumption DEF TypeOK, Round
    <3>2. QED
      BY <2>2, <3>1, Zenon DEF JoinedParticipant, NoParticipant
  <2>3. QED
    BY <2>1, <2>2
<1> HIDE DEF delta, tickets, p
<1>5. participant' = [participant EXCEPT ![u] =
               [p EXCEPT !.tickets_total = @ + tickets,
                         !.usdc_total = @ + delta,
                         !.deposits_count = @ + 1]]
  BY <1>b, Zenon DEF DepositAny, p, tickets, delta
<1>6. /\ participant'[u].exists
      /\ participant'[u].usdc_total = participant[u].usdc_total + delta
      /\ participant'[u].tickets_total = participant[u].tickets_total + tickets
      /\ \A v \in Users \ {u} : participant'[v] = participant[v]
  <2>1. participant \in [Users -> Participant]
    BY <1>0, Zenon DEF TypeOK
  <2>2. QED
    BY <1>3, <1>4, <1>5, <2>1
<1>7. /\ round.status = "OPEN" /\ round'.status = "OPEN"
      /\ round'.total_usdc = round.total_usdc + delta
      /\ round'.total_tickets = round.total_tickets + tickets
  BY <1>0, <1>b, Zenon DEF TypeOK, Round, DepositAny, DepositAllowed, AddToPot, tickets, delta
<1>8. /\ participant[u].usdc_total \in Nat /\ participant[u].tickets_total \in Nat
      /\ Sum(NumUsers, Stakes) \in Nat /\ Sum(NumUsers, Tickets) \in Nat
  BY <1>0, StakeTypes, Zenon DEF TypeOK, Participant
<1>9. /\ Sum(NumUsers, Stakes') = Sum(NumUsers, Stakes) + delta
      /\ Sum(NumUsers, Tickets') = Sum(NumUsers, Tickets) + tickets
  <2>1. /\ Sum(NumUsers, Stakes') = Sum(NumUsers, Stakes) - participant[u].usdc_total
                                                        + participant'[u].usdc_total
        /\ Sum(NumUsers, Tickets') = Sum(NumUsers, Tickets) - participant[u].tickets_total
                                                          + participant'[u].tickets_total
    BY <1>0, <1>6, OneRecord
  <2>2. QED
    BY <1>1, <1>2, <1>6, <1>8, <2>1
<1>10. TotalsAgree'
  BY <1>7, <1>9, Zenon DEF RefundInv, TotalsAgree
<1>11. \A v \in Users : ~participant'[v].exists => Stakes'[v] = 0 /\ Tickets'[v] = 0
  BY <1>6 DEF RefundInv, Stakes, Tickets
<1>12. QED
  BY <1>7, <1>10, <1>11 DEF RefundInv

\* A refund takes the same amount from the vault and from the sum of the stakes.
LEMMA RefundRefunds == ASSUME RefundInv, RefundsNext, TypeOK', VaultCoversPot' PROVE RefundInv'
PROOF
<1>0. TypeOK
  BY DEF RefundInv
<1>1. PICK u \in Users : CancelRound(u) \/ ClaimRefund(u)
  BY Zenon DEF RefundsNext
<1> DEFINE p == participant[u]
<1>2. p \in Participant /\ p.usdc_total \in Nat /\ p.tickets_total \in Nat /\ p.exists
  BY <1>0, <1>1, Zenon DEF TypeOK, Participant, CancelRound, ClaimRefund
<1>3. participant' = [participant EXCEPT ![u] = Emptied(p)]
  BY <1>1, Zenon DEF CancelRound, ClaimRefund, Refunded
<1>4. /\ participant'[u].exists /\ participant'[u].usdc_total = 0
      /\ participant'[u].tickets_total = 0
      /\ \A v \in Users \ {u} : participant'[v] = participant[v]
  BY <1>0, <1>2, <1>3, Zenon DEF TypeOK, Participant, Emptied
<1>5. Sum(NumUsers, Stakes) \in Nat /\ vault \in Nat /\ round.total_usdc \in Nat
  BY <1>0, StakeTypes, Zenon DEF TypeOK, Round
<1>6. Sum(NumUsers, Stakes') = Sum(NumUsers, Stakes) - p.usdc_total
  <2>1. Sum(NumUsers, Stakes') = Sum(NumUsers, Stakes) - p.usdc_total
                                                    + participant'[u].usdc_total
    BY <1>0, <1>4, OneRecord, Zenon
  <2>2. QED
    BY <1>2, <1>4, <1>5, <2>1
<1>7. vault' = vault - p.usdc_total
  BY <1>1, Zenon DEF CancelRound, ClaimRefund, TransferRefund
<1>8. round'.status = "CANCELLED" /\ round.status \in {"OPEN", "CANCELLED"}
  BY <1>0, RefundEffect
<1>9. vault >= Sum(NumUsers, Stakes)
  BY <1>5, <1>8, Zenon DEF RefundInv, TotalsAgree, VaultCoversPot, PrizeHeld
<1> HIDE DEF p
<1>10. vault' >= Sum(NumUsers, Stakes')
  BY <1>2, <1>5, <1>6, <1>7, <1>9
<1>11. \A v \in Users : ~participant'[v].exists => Stakes'[v] = 0 /\ Tickets'[v] = 0
  BY <1>4 DEF RefundInv, Stakes, Tickets
<1>12. QED
  BY <1>8, <1>10, <1>11, Zenon DEF RefundInv, TotalsAgree

\* Payments of a settled round keep the records and leave no refund to cover.
LEMMA PaymentRefunds ==
    ASSUME RefundInv, ClaimsNext \/ DegenVrfNext \/ DegenExecutionNext, TypeOK', VaultCoversPot'
    PROVE  RefundInv'
PROOF
<1>0. TypeOK /\ round \in Round
  BY DEF RefundInv, TypeOK
<1>1. CASE ClaimsNext
  <2>1. UNCHANGED participant
    BY <1>1, Zenon DEF ClaimsNext, Claim, AutoClaim, PayWinner
  <2>2. /\ round.status = "SETTLED" /\ round'.status = "CLAIMED"
        /\ round'.total_usdc = round.total_usdc
        /\ round'.total_tickets = round.total_tickets
    BY <1>0, <1>1, ClaimEffect, Zenon DEF Round
  <2>3. QED
    BY <2>1, <2>2, RecordsKept
<1>2. CASE DegenVrfNext
  <2>1. UNCHANGED participant
    BY <1>2, Zenon DEF DegenVrfNext, RequestDegenVrf, DegenVrfCallback
  <2>2. /\ round.status = "SETTLED" /\ round'.status = "SETTLED"
        /\ round'.total_usdc = round.total_usdc
        /\ round'.total_tickets = round.total_tickets
    BY <1>0, <1>2, DegenVrfEffect DEF Round
  <2>3. QED
    BY <2>1, <2>2, RecordsKept
<1>3. CASE DegenExecutionNext
  <2>1. UNCHANGED participant
    BY <1>3, DegenKeepsRecords
  <2>2. PICK u \in Users : BeginEffect(u) \/ PayEffect(u) \/ FinalizeEffect(u)
    BY <1>0, <1>3, DegenExecutionEffect
  <2>3. /\ round.status = "SETTLED" /\ round'.status \in {"SETTLED", "CLAIMED"}
        /\ round'.total_usdc = round.total_usdc
        /\ round'.total_tickets = round.total_tickets
    BY <1>0, <2>2, Zenon DEF BeginEffect, PayEffect, FinalizeEffect, DegenReady, Round
  <2>4. QED
    BY <2>1, <2>3, RecordsKept
<1>4. QED
  BY <1>1, <1>2, <1>3

\* A record is closed in a cancelled round only when it is owed nothing, and the crank
\* closes the round only when no record is left.
LEMMA CleanupRefunds ==
    ASSUME RefundInv, (\E u \in Users : CloseParticipant(u)) \/ CrankCloses,
           TypeOK', VaultCoversPot'
    PROVE  RefundInv'
PROOF
<1>0. TypeOK
  BY DEF RefundInv
<1>1. ASSUME NEW u \in Users, CloseParticipant(u) PROVE RefundInv'
  <2>1. /\ participant'[u].usdc_total = 0 /\ participant'[u].tickets_total = 0
        /\ \A v \in Users \ {u} : participant'[v] = participant[v]
    BY <1>0, <1>1 DEF TypeOK, CloseParticipant, NoParticipant
  <2>2. /\ round' = round /\ vault' = vault
        /\ round.status \in {"CLAIMED", "CANCELLED"}
        /\ round.status = "CANCELLED" => participant[u].usdc_total = 0
    BY <1>1 DEF CloseParticipant, Terminal, NothingOwed
  <2>3. Sum(NumUsers, Stakes) \in Nat
    BY <1>0, StakeTypes
  <2>4. round.status = "CANCELLED" => Sum(NumUsers, Stakes') = Sum(NumUsers, Stakes)
    <3>1. Sum(NumUsers, Stakes') = Sum(NumUsers, Stakes) - participant[u].usdc_total
                                                      + participant'[u].usdc_total
      BY <1>0, <2>1, OneRecord, Zenon
    <3>2. QED
      BY <2>1, <2>2, <2>3, <3>1
  <2>5. \A v \in Users : ~participant'[v].exists => Stakes'[v] = 0 /\ Tickets'[v] = 0
    BY <2>1, Zenon DEF RefundInv, Stakes, Tickets
  <2>6. QED
    BY <2>2, <2>4, <2>5, Zenon DEF RefundInv, TotalsAgree
<1>2. ASSUME CrankCloses PROVE RefundInv'
  <2>1. round'.status = "ABSENT" /\ UNCHANGED participant
    BY <1>2, BlankRound, Zenon DEF CrankCloses, CloseRound
  <2>2. \A u \in Users : ~participant'[u].exists
    BY <1>2, <2>1 DEF CrankCloses
  <2>3. Stakes' = Stakes /\ Tickets' = Tickets
    BY <2>1 DEF Stakes, Tickets
  <2>4. QED
    BY <2>1, <2>2, <2>3 DEF RefundInv, TotalsAgree
<1>3. QED
  BY <1>1, <1>2

\* The administrator's configuration, the clock, swaps and donations keep the records and
\* take nothing from the vault.
LEMMA QuietRefunds ==
    ASSUME RefundInv, AdminNext \/ EnvironmentNext \/ UNCHANGED vars, TypeOK', VaultCoversPot'
    PROVE  RefundInv'
PROOF
<1>0. vault \in Nat /\ usdc \in [Wallets -> Nat]
  BY Zenon DEF RefundInv, TypeOK
<1>1. CASE AdminNext
  <2>1. UNCHANGED <<participant, round, vault>>
    BY <1>1, Zenon DEF AdminNext, InitConfig, UpdateConfig, UpsertDegenConfig,
                SetTreasuryUsdcAta, TransferAdmin
  <2>2. QED
    BY <1>0, <2>1, RecordsKept
<1>2. CASE EnvironmentNext
  <2>1. UNCHANGED <<participant, round>>
    BY <1>2 DEF EnvironmentNext, Tick, Swap, Donate
  <2>2. vault' >= vault
    BY <1>0, <1>2, EnvironmentAssumption DEF EnvironmentNext, Tick, Swap, Donate
  <2>3. QED
    BY <2>1, <2>2, RecordsKept
<1>3. CASE UNCHANGED vars
  <2>1. UNCHANGED <<participant, round, vault>>
    BY <1>3 DEF vars
  <2>2. QED
    BY <1>0, <2>1, RecordsKept
<1>4. QED
  BY <1>1, <1>2, <1>3

-----------------------------------------------------------------------------
\* RefundInv is an invariant of the operated program.
LEMMA RefundInvariant == OperatedSpec => []RefundInv
PROOF
<1>1. Init => RefundInv
  <2> SUFFICES ASSUME Init PROVE RefundInv
    OBVIOUS
  <2>1. TypeOK
    BY TypeInit
  <2>2. round.status = "ABSENT"
    BY BlankRound, Zenon DEF Init
  <2>3. \A u \in Users : ~participant[u].exists /\ Stakes[u] = 0 /\ Tickets[u] = 0
    BY DEF Init, NoParticipant, Stakes, Tickets
  <2>4. QED
    BY <2>1, <2>2, <2>3 DEF RefundInv, VaultCoversPot, PrizeHeld, TotalsAgree
<1>2. RefundInv /\ [OperatedNext]_vars => RefundInv'
  <2> SUFFICES ASSUME RefundInv, [OperatedNext]_vars PROVE RefundInv'
    OBVIOUS
  <2>1. TypeOK /\ VaultCoversPot
    BY DEF RefundInv
  <2>2. TypeOK' /\ VaultCoversPot'
    BY <2>1, TypeStep, VaultStep
  <2>3. QED
    BY <2>2, LifecycleRefunds, DepositRefunds, RefundRefunds, PaymentRefunds,
       CleanupRefunds, QuietRefunds
    DEF OperatedNext, InstructionNext
<1>3. QED
  BY <1>1, <1>2, PTL DEF OperatedSpec

\* As the crank operates the program, every depositor of a round that has not paid its
\* prize can be refunded (RefundsCovered), for any number of users and of rounds with
\* the same id.
THEOREM RefundsSafe == OperatedSpec => []RefundsCovered
PROOF
<1>1. RefundInv => RefundsCovered
  <2> SUFFICES ASSUME RefundInv, PrizeHeld \/ round.status = "CANCELLED"
               PROVE  vault >= Sum(NumUsers, Stakes)
    BY DEF RefundsCovered
  <2>1. CASE PrizeHeld
    BY <2>1 DEF RefundInv, VaultCoversPot, PrizeHeld, TotalsAgree
  <2>2. CASE round.status = "CANCELLED"
    BY <2>2 DEF RefundInv
  <2>3. QED
    BY <2>1, <2>2
<1>2. QED
  BY <1>1, RefundInvariant, PTL

\* The round's totals are the sums of the participant records (TotalsAgree).
THEOREM TotalsCorrect == OperatedSpec => []TotalsAgree
PROOF
<1>1. RefundInv => TotalsAgree
  BY DEF RefundInv
<1>2. QED
  BY <1>1, RefundInvariant, PTL

\* As the crank operates the program, the winner is the owner of the drawn ticket
\* (WinnerOwnsTicket), for any number of users and places, any deposits and any rounds
\* with the same id.
THEOREM WinnerIsOwner == OperatedSpec => []WinnerOwnsTicket
PROOF
<1>1. Init => WinnerOwnsTicket /\ ~InPlay(round.status)
  BY BlankRound, Zenon DEF Init, InPlay, WinnerOwnsTicket
<1>2. RefundInv /\ WinnerOwnsTicket /\ ~InPlay(round.status) => DrawInv
  BY Zenon DEF DrawInv
<1>3. DrawInv /\ RefundInv' /\ [OperatedNext]_vars => DrawInv'
  BY LifecycleDraws, DepositDraws, RefundDraws, PaymentDraws, OtherDraws
  DEF OperatedNext, InstructionNext
<1>4. DrawInv => WinnerOwnsTicket
  BY DEF DrawInv
<1>5. QED
  BY <1>1, <1>2, <1>3, <1>4, RefundInvariant, PTL DEF OperatedSpec

-----------------------------------------------------------------------------
(* The program, with the crank closing its rounds, implements the contract of a round: *)
(* every step of OperatedSpec is a step of the contract or leaves what the contract     *)
(* speaks of alone.                                                                     *)

\* What the simulation needs of a state: the sums are the totals, the vault covers them,
\* and only a settled round has an execution under way.
SimInv == RefundInv /\ DegenAccountsAgree

\* A step of the contract, or none.
Simulated == Contract!ContractNext \/ UNCHANGED Contract!contractVars

\* The contract adds up the stakes as the program's properties do.
LEMMA SameTotal == Contract!Total = Sum(NumUsers, Stakes)
PROOF
BY DEF Contract!Total, Sum, PrefixSums

\* A step that leaves the status, the end of the countdown, the clock, the stakes, the
\* vault and the degen mode alone is no step of the contract.
LEMMA Unseen ==
    ASSUME UNCHANGED <<now, participant, vault>>,
           round'.status = round.status, round'.end_ts = round.end_ts,
           PrizePaid' = PrizePaid
    PROVE  Simulated
PROOF
<1>1. CountdownOf' = CountdownOf /\ Stakes' = Stakes
  BY DEF CountdownOf, Stakes
<1>2. QED
  BY <1>1 DEF Simulated, Contract!contractVars

-----------------------------------------------------------------------------
\* Starting, locking, drawing and force-cancelling change the status alone.
LEMMA LifecycleSimulated == ASSUME SimInv, LifecycleNext PROVE Simulated
PROOF
<1>0. TypeOK /\ round \in Round
  BY DEF SimInv, RefundInv, TypeOK
<1>1. UNCHANGED <<vault, participant>> /\ Stakes' = Stakes
  BY <1>0, LifecycleEffect, Zenon DEF Stakes
<1>2. round.status # "SETTLED" => round.degen_mode # "EXECUTING"
  BY DEF SimInv, DegenAccountsAgree, ActiveClaim
<1>3. CASE StartRound
  <2>1. /\ round.status = "ABSENT" /\ round'.status = "OPEN" /\ round'.end_ts = 0
    BY <1>3, BlankRound, Zenon DEF StartRound
  <2>2. Contract!Start
    BY <1>1, <2>1 DEF Contract!Start, CountdownOf, PrizePaid
  <2>3. QED
    BY <2>2 DEF Simulated, Contract!ContractNext
<1>4. CASE LockRound
  <2>1. /\ round.status = "OPEN" /\ round'.status = "LOCKED" /\ now >= round.end_ts
        /\ round'.end_ts = round.end_ts /\ now' = now
        /\ now \in Nat /\ round.end_ts \in Nat
    BY <1>0, <1>4 DEF LockRound, Round, TypeOK
  <2>2. Contract!Lock
    BY <1>1, <2>1 DEF Contract!Lock, CountdownOf, PrizePaid
  <2>3. QED
    BY <2>2 DEF Simulated, Contract!ContractNext
<1>5. CASE \E p \in Payers : RequestVrf(p)
  <2>1. /\ round.status = "LOCKED" /\ round'.status = "VRF_REQUESTED"
        /\ round'.end_ts = round.end_ts /\ now' = now
    BY <1>0, <1>5 DEF RequestVrf, Round
  <2>2. Contract!RequestRandomness
    BY <1>1, <2>1 DEF Contract!RequestRandomness, CountdownOf, PrizePaid
  <2>3. QED
    BY <2>2 DEF Simulated, Contract!ContractNext
<1>6. CASE \E rand \in 0..(round.total_tickets - 1) : VrfCallback(rand)
  <2>1. /\ round.status = "VRF_REQUESTED" /\ round'.status = "SETTLED"
        /\ round'.end_ts = round.end_ts /\ now' = now
        /\ round'.degen_mode = round.degen_mode
    BY <1>0, <1>6 DEF VrfCallback, CallbackStatusOk, Round
  <2>2. Contract!Draw
    BY <1>1, <1>2, <2>1 DEF Contract!Draw, CountdownOf, PrizePaid
  <2>3. QED
    BY <2>2 DEF Simulated, Contract!ContractNext
<1>7. CASE \E a \in Admins : AdminForceCancel(a)
  <2>1. /\ round.status \in {"OPEN", "LOCKED", "VRF_REQUESTED"}
        /\ round'.status = "CANCELLED" /\ round'.end_ts = round.end_ts /\ now' = now
    BY <1>0, <1>7 DEF AdminForceCancel, ForceCancellable, Round
  <2>2. Contract!ForceCancel
    BY <1>1, <2>1 DEF Contract!ForceCancel, CountdownOf, PrizePaid
  <2>3. QED
    BY <2>2 DEF Simulated, Contract!ContractNext
<1>8. QED
  BY <1>3, <1>4, <1>5, <1>6, <1>7 DEF LifecycleNext, VrfNext

\* A deposit is accepted only while the countdown is not over, and does not move it.
LEMMA DepositSimulated == ASSUME SimInv, DepositsNext, TypeOK' PROVE Simulated
PROOF
<1>0. TypeOK /\ round \in Round
  BY Zenon DEF SimInv, RefundInv, TypeOK
<1>a. PICK u \in Users : \E before \in 0..usdc[u], min_out \in MinOuts :
                              DepositAny(u, before, min_out)
  BY Zenon DEF DepositsNext
<1>b. PICK before \in 0..usdc[u], min_out \in MinOuts : DepositAny(u, before, min_out)
  BY <1>a
<1> DEFINE delta == usdc[u] - before
<1>1. delta \in Nat /\ vault \in Nat /\ vault' \in Nat /\ u \in 1..NumUsers
  <2>1. vault \in Nat /\ vault' \in Nat
    BY <1>0, Zenon DEF TypeOK
  <2>2. u \in 1..NumUsers /\ usdc[u] \in Nat
    BY <1>0, Zenon DEF TypeOK, Wallets, Users
  <2>3. delta \in Nat
    BY <2>2
  <2>4. QED
    BY <2>1, <2>2, <2>3, Zenon
<1>2. delta # 0
  <2>1. config.ticket_unit \in Nat /\ config.ticket_unit # 0 /\ delta \div config.ticket_unit # 0
    BY <1>0, <1>b, Zenon DEF TypeOK, Config, DepositAny
  <2> HIDE DEF delta
  <2>2. QED
    BY <1>1, <2>1
<1>3. vault' = vault + delta /\ now' = now
  BY <1>b, Zenon DEF DepositAny
<1>4. /\ participant' = [participant EXCEPT ![u] =
             [JoinedParticipant(u) EXCEPT
                 !.tickets_total = @ + delta \div config.ticket_unit,
                 !.usdc_total = @ + delta,
                 !.deposits_count = @ + 1]]
      /\ round.status = "OPEN" /\ round'.status = "OPEN"
      /\ ~(round.end_ts # 0 /\ now >= round.end_ts)
      /\ round'.end_ts = EndTs(JoinedCount(u))
  BY <1>0, <1>b DEF DepositAny, DepositAllowed, Round
<1>5. JoinedParticipant(u).usdc_total = participant[u].usdc_total
  BY DEF JoinedParticipant, NoParticipant, SimInv, RefundInv, Stakes
<1>5a. JoinedParticipant(u) \in [exists : BOOLEAN, index : Int, tickets_total : Nat,
                                 usdc_total : Nat, deposits_count : Nat]
  <2>1. CASE participant[u].exists
    BY <1>0, <2>1 DEF JoinedParticipant, TypeOK, Participant
  <2>2. CASE ~participant[u].exists
    <3>1. round.participants_count + 1 \in Int
      BY <1>0, FenwickAssumption DEF Round
    <3>2. QED
      BY <2>2, <3>1, Zenon DEF JoinedParticipant, NoParticipant
  <2>3. QED
    BY <2>1, <2>2
<1> HIDE DEF delta
<1>6. /\ participant'[u].usdc_total = participant[u].usdc_total + delta
      /\ \A v \in Users \ {u} : participant'[v] = participant[v]
  BY <1>0, <1>4, <1>5, <1>5a DEF TypeOK
<1>7. Stakes' = [Stakes EXCEPT ![u] = @ + delta]
  BY <1>6, Zenon DEF Stakes
<1>8. vault' - vault = delta /\ vault' > vault
  BY <1>1, <1>2, <1>3
<1>9. round.end_ts # 0 => round'.end_ts = round.end_ts
  BY <1>4 DEF EndTs
<1>10. /\ CountdownOf # "over"
       /\ CountdownOf = "none" \/ CountdownOf' = CountdownOf
       /\ CountdownOf' \in {"none", "running", "over"}
  <2>1. now \in Nat /\ round.end_ts \in Nat
    BY <1>0 DEF TypeOK, Round
  <2>2. QED
    BY <1>3, <1>4, <1>9, <2>1 DEF CountdownOf
<1>11. Contract!Deposit(u)
  BY <1>1, <1>4, <1>7, <1>8, <1>10, Zenon DEF Contract!Deposit, PrizePaid
<1>12. QED
  BY <1>1, <1>11, Zenon DEF Simulated, Contract!ContractNext

\* A refund pays exactly the stake of one user; the one who leaves an open round is alone.
LEMMA RefundSimulated == ASSUME SimInv, RefundsNext PROVE Simulated
PROOF
<1>0. TypeOK /\ round \in Round
  BY DEF SimInv, RefundInv, TypeOK
<1>1. PICK u \in Users : CancelRound(u) \/ ClaimRefund(u)
  BY DEF RefundsNext
<1>2. /\ u \in 1..NumUsers /\ participant[u] \in Participant
      /\ participant[u].usdc_total \in Nat /\ vault \in Nat
  BY <1>0 DEF TypeOK, Users, Participant
<1>3. participant' = [participant EXCEPT ![u] = Emptied(participant[u])]
  BY <1>1 DEF CancelRound, ClaimRefund, Refunded
<1>4. Stakes' = [Stakes EXCEPT ![u] = 0]
  BY <1>0, <1>2, <1>3, Zenon DEF TypeOK, Participant, Emptied, Stakes
<1>5. /\ vault' = vault - participant[u].usdc_total /\ vault >= participant[u].usdc_total
      /\ now' = now /\ Stakes[u] = participant[u].usdc_total
  BY <1>1 DEF CancelRound, ClaimRefund, TransferRefund, Stakes
<1>6. CASE CancelRound(u)
  <2>1. /\ round.status = "OPEN" /\ round.total_usdc = participant[u].usdc_total
        /\ round'.end_ts = round.end_ts
    BY <1>0, <1>6 DEF CancelRound, SoleDepositor, Round
  <2>2. round'.status = "CANCELLED"
    BY <1>0, <1>1, RefundEffect DEF RefundsNext
  <2>3. Contract!Total = Stakes[u]
    BY <1>5, <2>1, SameTotal DEF SimInv, RefundInv, TotalsAgree
  <2>4. Contract!Leave(u)
    BY <1>4, <1>5, <2>1, <2>2, <2>3, Zenon DEF Contract!Leave, CountdownOf, PrizePaid
  <2>5. QED
    BY <1>2, <2>4 DEF Simulated, Contract!ContractNext
<1>7. CASE ClaimRefund(u)
  <2>1. round.status = "CANCELLED" /\ round' = round
    BY <1>7, Zenon DEF ClaimRefund
  <2>2. Contract!Refund(u)
    BY <1>4, <1>5, <2>1 DEF Contract!Refund, CountdownOf, PrizePaid
  <2>3. QED
    BY <1>2, <2>2, Zenon DEF Simulated, Contract!ContractNext
<1>8. QED
  BY <1>1, <1>6, <1>7

-----------------------------------------------------------------------------
\* The payments and the degen steps leave the clock, the records and the countdown alone.
LEMMA PaymentKeeps ==
    ASSUME TypeOK, ClaimsNext \/ DegenVrfNext \/ DegenExecutionNext
    PROVE  UNCHANGED <<now, participant>>
PROOF
<1>1. CASE ClaimsNext
  BY <1>1, Zenon DEF ClaimsNext, Claim, AutoClaim, PayWinner
<1>2. CASE DegenVrfNext
  BY <1>2, Zenon DEF DegenVrfNext, RequestDegenVrf, DegenVrfCallback
<1>3. CASE DegenExecutionNext
  <2>1. ASSUME NEW e, NEW u, NEW k, NEW t, NEW m, NEW min_out_raw, NEW payer_given,
               BeginDegenExecution(e, u, k, t, m, min_out_raw, payer_given)
        PROVE  UNCHANGED <<now, participant>>
    BY <2>1, Zenon DEF BeginDegenExecution
  <2>2. ASSUME NEW u, NEW status, NEW k, NEW t, NEW payer_given,
               PayInUsdc(u, status, k, t, payer_given)
        PROVE  UNCHANGED <<now, participant>>
    BY <2>2, Zenon DEF PayInUsdc
  <2>3. ASSUME NEW e, NEW u, NEW other_empty, FinalizeDegenSuccess(e, u, other_empty)
        PROVE  UNCHANGED <<now, participant>>
    BY <2>3, Zenon DEF FinalizeDegenSuccess
  <2>4. QED
    BY <1>3, <2>1, <2>2, <2>3, Zenon
    DEF DegenExecutionNext, ClaimDegen, ClaimDegenFallback, AutoClaimDegenFallback
<1>4. QED
  BY <1>1, <1>2, <1>3, Zenon

\* A step that takes the pot from the vault of a settled round is the contract's payment.
LEMMA PotTaken ==
    ASSUME SimInv, UNCHANGED <<now, participant>>,
           round.status = "SETTLED", round.degen_mode # "EXECUTING",
           vault' = vault - round.total_usdc, round'.end_ts = round.end_ts,
           \/ round'.status = "CLAIMED"
           \/ round'.status = "SETTLED" /\ round'.degen_mode = "EXECUTING"
    PROVE  Simulated
PROOF
<1>1. Contract!Total = round.total_usdc /\ vault >= round.total_usdc
  BY SameTotal, Zenon DEF SimInv, RefundInv, TotalsAgree, VaultCoversPot, PrizeHeld
<1>2. CountdownOf' = CountdownOf /\ Stakes' = Stakes
  BY Zenon DEF CountdownOf, Stakes
<1>3. PrizePaid = FALSE /\ PrizePaid' = TRUE
  BY Zenon DEF PrizePaid
<1>4. Contract!Pay
  BY <1>1, <1>2, <1>3, Zenon DEF Contract!Pay
<1>5. QED
  BY <1>4, Zenon DEF Simulated, Contract!ContractNext

\* The prize is paid once, whichever claim path is taken.
LEMMA PaymentSimulated ==
    ASSUME SimInv, ClaimsNext \/ DegenVrfNext \/ DegenExecutionNext
    PROVE  Simulated
PROOF
<1>0. TypeOK /\ round \in Round
  BY Zenon DEF SimInv, RefundInv, TypeOK
<1>1. UNCHANGED <<now, participant>>
  BY <1>0, PaymentKeeps
<1>2. CASE ClaimsNext
  <2>1. /\ round.status = "SETTLED" /\ round.degen_mode = "NONE"
        /\ vault' = vault - round.total_usdc
        /\ round'.status = "CLAIMED" /\ round'.end_ts = round.end_ts
    BY <1>0, <1>2, ClaimEffect, Zenon DEF Round
  <2>2. QED
    BY <1>1, <2>1, PotTaken
<1>3. CASE DegenVrfNext
  <2>1. /\ round.status = "SETTLED" /\ round'.status = "SETTLED" /\ vault' = vault
        /\ round'.end_ts = round.end_ts
        /\ round.degen_mode # "EXECUTING" /\ round'.degen_mode # "EXECUTING"
    BY <1>0, <1>3, DegenVrfEffect DEF Round
  <2>2. PrizePaid' = PrizePaid
    BY <2>1 DEF PrizePaid
  <2>3. QED
    BY <1>1, <2>1, <2>2, Unseen
<1>4. CASE DegenExecutionNext
  <2>1. PICK u \in Users : BeginEffect(u) \/ PayEffect(u) \/ FinalizeEffect(u)
    BY <1>0, <1>4, DegenExecutionEffect
  <2>2. CASE BeginEffect(u) \/ PayEffect(u)
    <3>1. /\ round.status = "SETTLED" /\ round.degen_mode # "EXECUTING"
          /\ vault' = vault - round.total_usdc /\ round'.end_ts = round.end_ts
          /\ \/ round'.status = "CLAIMED"
             \/ round'.status = "SETTLED" /\ round'.degen_mode = "EXECUTING"
      BY <1>0, <2>2, Zenon DEF BeginEffect, PayEffect, DegenReady, Round
    <3>2. QED
      BY <1>1, <3>1, PotTaken
  <2>3. CASE FinalizeEffect(u)
    <3>1. /\ round.status = "SETTLED" /\ round.degen_mode = "EXECUTING" /\ vault' = vault
          /\ round'.status = "CLAIMED" /\ round'.end_ts = round.end_ts
      BY <1>0, <2>3, Zenon DEF FinalizeEffect, Round
    <3>2. CountdownOf' = CountdownOf /\ Stakes' = Stakes
      BY <1>1, <3>1 DEF CountdownOf, Stakes
    <3>3. PrizePaid = TRUE /\ PrizePaid' = TRUE
      BY <3>1 DEF PrizePaid
    <3>4. Contract!Finish
      BY <3>1, <3>2, <3>3 DEF Contract!Finish
    <3>5. QED
      BY <3>4 DEF Simulated, Contract!ContractNext
  <2>4. QED
    BY <2>1, <2>2, <2>3
<1>5. QED
  BY <1>2, <1>3, <1>4, Zenon

\* Closing a record drops the stake of a paid round only, and the crank closes a round
\* that has no record, hence no stake, left.
LEMMA CleanupSimulated ==
    ASSUME SimInv, (\E u \in Users : CloseParticipant(u)) \/ CrankCloses
    PROVE  Simulated
PROOF
<1>0. TypeOK
  BY DEF SimInv, RefundInv
<1>1. ASSUME NEW u \in Users, CloseParticipant(u) PROVE Simulated
  <2>1. /\ participant' = [participant EXCEPT ![u] = NoParticipant]
        /\ UNCHANGED <<now, round, vault>> /\ u \in 1..NumUsers
        /\ round.status \in {"CLAIMED", "CANCELLED"}
        /\ round.status = "CANCELLED" => participant[u].usdc_total = 0
    BY <1>1 DEF CloseParticipant, Terminal, NothingOwed, Users
  <2>2. CountdownOf' = CountdownOf /\ PrizePaid' = PrizePaid
    BY <2>1 DEF CountdownOf, PrizePaid
  <2>3. Stakes' = [Stakes EXCEPT ![u] = 0]
    BY <1>0, <2>1, Zenon DEF Stakes, TypeOK, NoParticipant
  <2>4. CASE round.status = "CLAIMED"
    <3>1. Contract!Drop(u)
      BY <2>1, <2>2, <2>3, <2>4 DEF Contract!Drop
    <3>2. QED
      BY <2>1, <3>1, Zenon DEF Simulated, Contract!ContractNext
  <2>5. CASE round.status = "CANCELLED"
    <3>1. Stakes' = Stakes
      BY <2>1, <2>3, <2>5 DEF Stakes
    <3>2. QED
      BY <2>1, <2>2, <3>1 DEF Simulated, Contract!contractVars
  <2>6. QED
    BY <2>1, <2>4, <2>5, Zenon
<1>2. ASSUME CrankCloses PROVE Simulated
  <2>1. /\ round.status \in {"CLAIMED", "CANCELLED"} /\ round'.status = "ABSENT"
        /\ round'.end_ts = 0 /\ vault' = 0 /\ UNCHANGED participant
        /\ \A u \in Users : ~participant[u].exists
    BY <1>2, BlankRound, Zenon DEF CrankCloses, CloseRound, Terminal
  <2>2. \A u \in 1..NumUsers : Stakes[u] = 0
    BY <2>1 DEF SimInv, RefundInv, Users
  <2>3. Contract!Close
    BY <2>1, <2>2 DEF Contract!Close, CountdownOf, PrizePaid, Stakes
  <2>4. QED
    BY <2>3, Zenon DEF Simulated, Contract!ContractNext
<1>3. QED
  BY <1>1, <1>2

\* Time passes, and others move their own funds.
LEMMA QuietSimulated ==
    ASSUME SimInv, AdminNext \/ EnvironmentNext \/ UNCHANGED vars
    PROVE  Simulated
PROOF
<1>0. TypeOK /\ now \in Nat /\ vault \in Nat /\ round.end_ts \in Nat
  <2>1. TypeOK /\ now \in Nat /\ vault \in Nat /\ round \in Round
    BY Zenon DEF SimInv, RefundInv, TypeOK
  <2>2. QED
    BY <2>1 DEF Round
<1>1. CASE AdminNext \/ UNCHANGED vars
  <2>1. UNCHANGED <<now, participant, round, vault>>
    BY <1>1, Zenon DEF AdminNext, InitConfig, UpdateConfig, UpsertDegenConfig,
                SetTreasuryUsdcAta, TransferAdmin, vars
  <2>2. QED
    BY <2>1, Unseen, Zenon DEF PrizePaid
<1>2. CASE Tick
  <2>1. now' = now + 1 /\ UNCHANGED <<participant, round, vault>>
    BY <1>2 DEF Tick
  <2>2. Stakes' = Stakes /\ PrizePaid' = PrizePaid
    BY <2>1 DEF Stakes, PrizePaid
  <2>3. CASE CountdownOf' = CountdownOf
    BY <2>1, <2>2, <2>3 DEF Simulated, Contract!contractVars
  <2>4. CASE CountdownOf' # CountdownOf
    <3>1. CountdownOf = "running" /\ CountdownOf' = "over"
      BY <1>0, <2>1, <2>4 DEF CountdownOf
    <3>2. Contract!CountdownEnds
      BY <2>1, <2>2, <3>1 DEF Contract!CountdownEnds
    <3>3. QED
      BY <3>2, Zenon DEF Simulated, Contract!ContractNext
  <2>5. QED
    BY <2>3, <2>4
<1>3. CASE \E e \in Executors, u \in Users, m \in Tokens, out \in SwapOuts :
               \E amount \in 1..usdc[e] : Swap(e, u, m, amount, out)
  <2>1. UNCHANGED <<now, participant, round, vault>>
    BY <1>3 DEF Swap
  <2>2. QED
    BY <2>1, Unseen DEF PrizePaid
<1>4. ASSUME NEW w \in Donors, NEW amount \in 1..usdc[w], Donate(w, amount)
      PROVE  Simulated
  <2>1. /\ vault' = vault + amount /\ UNCHANGED <<now, participant, round>>
        /\ amount \in Nat /\ amount > 0
    BY <1>0, <1>4, EnvironmentAssumption DEF Donate, TypeOK
  <2>2. Stakes' = Stakes /\ PrizePaid' = PrizePaid /\ CountdownOf' = CountdownOf
    BY <2>1 DEF Stakes, PrizePaid, CountdownOf
  <2>3. Contract!Donation
    BY <1>0, <2>1, <2>2 DEF Contract!Donation
  <2>4. QED
    BY <2>3 DEF Simulated, Contract!ContractNext
<1>5. QED
  BY <1>1, <1>2, <1>3, <1>4, Zenon DEF EnvironmentNext

-----------------------------------------------------------------------------
\* The program, with the crank closing its rounds, implements the contract of a round
\* (RoundContractKept): whoever relies on RoundContract alone relies on the program, for
\* any number of users, deposits and reuses of the round id.
THEOREM ContractImplemented == OperatedSpec => RoundContractKept
PROOF
<1>1. Init => Contract!ContractInit
  <2> SUFFICES ASSUME Init PROVE Contract!ContractInit
    OBVIOUS
  <2>1. round.status = "ABSENT" /\ round.end_ts = 0 /\ vault = 0
    BY BlankRound, Zenon DEF Init
  <2>2. Stakes = [u \in 1..NumUsers |-> 0]
    BY Zenon DEF Init, Stakes, NoParticipant, Users
  <2>3. QED
    BY <2>1, <2>2 DEF Contract!ContractInit, CountdownOf, PrizePaid
<1>2. Init => DegenAccountsAgree
  BY BlankRound DEF Init, NoDegenClaim, DegenAccountsAgree, ActiveClaim
<1>3. RefundInv /\ DegenAccountsAgree /\ [OperatedNext]_vars => DegenAccountsAgree'
  BY AgreeStep DEF RefundInv
<1>4. SimInv /\ RefundInv' /\ [OperatedNext]_vars
        => [Contract!ContractNext]_(Contract!contractVars)
  <2> SUFFICES ASSUME SimInv, RefundInv', [OperatedNext]_vars PROVE Simulated
    BY DEF Simulated
  <2>1. TypeOK'
    BY DEF RefundInv
  <2>2. QED
    BY <2>1, LifecycleSimulated, DepositSimulated, RefundSimulated, PaymentSimulated,
       CleanupSimulated, QuietSimulated
    DEF OperatedNext, InstructionNext
<1>5. QED
  BY <1>1, <1>2, <1>3, <1>4, RefundInvariant, PTL
  DEF OperatedSpec, RoundContractKept, Contract!ContractSpec, SimInv

=============================================================================

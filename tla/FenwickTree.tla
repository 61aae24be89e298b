---------------------------- MODULE FenwickTree ----------------------------
(***************************************************************************)
(* The tree of Fenwick.tla driven by any sequence of the updates that      *)
(* deposit_any (bit_add) and cancel_round (bit_sub) make, beside the table *)
(* of tickets per participant index that it summarises.                    *)
(***************************************************************************)
EXTENDS TreeTheorems

CONSTANTS
    Touched,        \* the participant indices that updates are made for
    MaxTickets      \* bound on the tickets of one participant

VARIABLES bit, tickets
vars == <<bit, tickets>>

Init ==
    /\ bit = EmptyTree
    /\ tickets = [i \in Indices |-> 0]

\* The tickets of the participants 1..i.
PrefixSum(i) == PrefixSums(MAX_PARTICIPANTS, tickets)[i]

\* The check of total_tickets that deposit_any makes before it updates the tree.
TotalOk(d) == PrefixSum(MAX_PARTICIPANTS) + d <= U64_MAX

\* deposit_any adds the tickets of one deposit.
Add(i, d) ==
    /\ tickets[i] + d <= MaxTickets
    /\ TotalOk(d)
    /\ BitAddOk(bit, i, d)
    /\ bit' = BitAdd(bit, i, d)
    /\ tickets' = [tickets EXCEPT ![i] = @ + d]

\* cancel_round removes all the tickets of a participant.
RemoveAll(i) ==
    /\ tickets[i] > 0
    /\ BitSubOk(bit, i, tickets[i])
    /\ bit' = BitSub(bit, i, tickets[i])
    /\ tickets' = [tickets EXCEPT ![i] = 0]

Next == \E i \in Touched : RemoveAll(i) \/ \E d \in 1..MaxTickets : Add(i, d)

Spec == Init /\ [][Next]_vars

-----------------------------------------------------------------------------
\* Each node holds the tickets of the range of indices it stands for.
NodesHoldRanges ==
    \A i \in Indices : bit[i] = PrefixSum(i) - PrefixSum(i - LowBit[i])

\* bit_find_prefix returns the participant who owns the ticket: every ticket
\* number from 1 to the total falls into the range of the returned index, and the
\* descent never overflows.
FindPrefixIsOwner ==
    \A t \in 1..PrefixSum(MAX_PARTICIPANTS) :
        LET found == BitFindPrefix(bit, t)
        IN  /\ found.ok
            /\ found.index \in Indices
            /\ PrefixSum(found.index - 1) < t
            /\ t <= PrefixSum(found.index)

\* A refund is never refused by the tree: the tickets of a participant can always
\* be subtracted from every node above the participant's index.
SubNeverUnderflows == \A i \in Indices : BitSubOk(bit, i, tickets[i])

\* A deposit that passes the check of total_tickets is never refused by the tree: a node
\* holds at most the total, also after tickets were removed.
AddNeverOverflows ==
    \A i \in Indices, d \in 1..U64_MAX : TotalOk(d) => BitAddOk(bit, i, d)

-----------------------------------------------------------------------------
(* The four properties, for every number of participants, every bound on the tickets *)
(* and every width of the integers.                                                   *)

\* The inductive invariant: the tree summarises the table, whose total fits a u64.
TreeInv ==
    /\ bit \in [Indices -> Nat]
    /\ tickets \in [Indices -> Nat]
    /\ HoldsRanges(bit, tickets)
    /\ Sum(MAX_PARTICIPANTS, tickets) <= U64_MAX

\* A leaf that names no prover is given to SMT, for so many seconds at most.
USE SMTT(60)

\* An update of the tree and of one entry of the table that keeps the total within the
\* u64 keeps the invariant.
LEMMA UpdateKeepsTree ==
    ASSUME TreeInv, NEW u \in Indices, NEW n \in Nat,
           tickets' = [tickets EXCEPT ![u] = n],
           bit' = BitAdd(bit, u, n - tickets[u]),
           Sum(MAX_PARTICIPANTS, tickets) - tickets[u] + n <= U64_MAX
    PROVE  TreeInv'
PROOF
<1>1. /\ tickets' \in [Indices -> Nat]
      /\ tickets'[u] = n
      /\ SameExceptAt(u, tickets, tickets')
  BY DEF TreeInv, SameExceptAt
<1>2. \A h \in [Indices -> Nat] :
          SameExceptAt(u, tickets, h) =>
              /\ BitAdd(bit, u, h[u] - tickets[u]) \in [Indices -> Nat]
              /\ HoldsRanges(BitAdd(bit, u, h[u] - tickets[u]), h)
              /\ Sum(MAX_PARTICIPANTS, h) = Sum(MAX_PARTICIPANTS, tickets) - tickets[u] + h[u]
  <2>1. tickets \in [Indices -> Nat] /\ HoldsRanges(bit, tickets)
    BY DEF TreeInv
  <2>2. QED
    BY <2>1, TreeUpdate
<1>3. /\ bit' \in [Indices -> Nat]
      /\ HoldsRanges(bit', tickets')
      /\ Sum(MAX_PARTICIPANTS, tickets') = Sum(MAX_PARTICIPANTS, tickets) - tickets[u] + n
  BY <1>1, <1>2, Zenon
<1>4. QED
  BY <1>1, <1>3, Zenon DEF TreeInv, HoldsRanges, Sum

\* What the invariant says of the tree in one state.
LEMMA TreeInvIsExact ==
    ASSUME TreeInv
    PROVE  NodesHoldRanges /\ FindPrefixIsOwner /\ SubNeverUnderflows /\ AddNeverOverflows
PROOF
<1>1. NodesHoldRanges
  BY DEF TreeInv, NodesHoldRanges, HoldsRanges, PrefixSum
<1>2. FindPrefixIsOwner
  <2>1. ASSUME NEW t \in 1..PrefixSum(MAX_PARTICIPANTS)
        PROVE  LET found == BitFindPrefix(bit, t)
               IN  /\ found.ok
                   /\ found.index \in Indices
                   /\ PrefixSum(found.index - 1) < t
                   /\ t <= PrefixSum(found.index)
    <3>1. t \in 1..Sum(MAX_PARTICIPANTS, tickets)
      BY DEF PrefixSum, Sum
    <3>2. QED
      BY <3>1, FindsOwner DEF PrefixSum, TreeInv
  <2>2. QED
    BY <2>1 DEF FindPrefixIsOwner
<1>3. SubNeverUnderflows
  <2>1. ASSUME NEW i \in Indices PROVE BitSubOk(bit, i, tickets[i])
    <3>1. ASSUME NEW j \in Path[i] PROVE bit[j] >= tickets[i]
      <4>1. j \in Indices
        BY PathCovers
      <4>2. bit[j] \in Nat /\ tickets[i] <= bit[j] /\ tickets[i] \in Nat
        BY <4>1, NodeBounds DEF TreeInv
      <4>3. QED
        BY <4>2
    <3>2. QED
      BY <3>1 DEF BitSubOk
  <2>2. QED
    BY <2>1 DEF SubNeverUnderflows
<1>4. AddNeverOverflows
  <2>1. ASSUME NEW i \in Indices, NEW d \in 1..U64_MAX, TotalOk(d)
        PROVE  BitAddOk(bit, i, d)
    <3>1. Sum(MAX_PARTICIPANTS, tickets) + d <= U64_MAX
      BY <2>1 DEF TotalOk, PrefixSum, Sum
    <3>2. Sum(MAX_PARTICIPANTS, tickets) \in Int
      BY SumType, FenwickAssumption DEF TreeInv, Indices
    <3>3. ASSUME NEW j \in Path[i] PROVE bit[j] + d <= U64_MAX
      <4>1. j \in Indices
        BY PathCovers
      <4>2. bit[j] \in Nat /\ bit[j] <= Sum(MAX_PARTICIPANTS, tickets)
        BY <4>1, NodeBounds DEF TreeInv
      <4>3. QED
        BY <3>1, <3>2, <4>2, FenwickAssumption
    <3>4. QED
      BY <3>3 DEF BitAddOk
  <2>2. QED
    BY <2>1 DEF AddNeverOverflows
<1>5. QED
  BY <1>1, <1>2, <1>3, <1>4

\* After any deposits (bit_add) and refunds (bit_sub) the tree is exact: nodes hold their
\* ranges, bit_find_prefix returns the owner of every ticket, no refund underflows and no
\* deposit within the total overflows.
THEOREM TreeStaysExact ==
    ASSUME Touched \subseteq Indices, MaxTickets \in Nat
    PROVE  Spec => [](/\ NodesHoldRanges
                      /\ FindPrefixIsOwner
                      /\ SubNeverUnderflows
                      /\ AddNeverOverflows)
PROOF
<1>1. Init => TreeInv
  <2> SUFFICES ASSUME Init PROVE TreeInv
    OBVIOUS
  <2>1. /\ bit \in [Indices -> Nat]
        /\ tickets \in [Indices -> Nat]
        /\ \A i \in Indices : tickets[i] = 0
    BY DEF Init, EmptyTree
  <2>2. HoldsRanges(bit, tickets)
    BY <2>1, TreeEmpty DEF Init
  <2>3. Sum(MAX_PARTICIPANTS, tickets) = 0
    BY <2>1, SumZero, FenwickAssumption DEF Indices
  <2>4. QED
    BY <2>1, <2>2, <2>3, FenwickAssumption DEF TreeInv
<1>2. TreeInv /\ [Next]_vars => TreeInv'
  <2> SUFFICES ASSUME TreeInv, [Next]_vars PROVE TreeInv'
    OBVIOUS
  <2>1. ASSUME NEW u \in Indices PROVE tickets[u] \in Nat /\ Sum(MAX_PARTICIPANTS, tickets) \in Int
    BY SumType, FenwickAssumption DEF TreeInv, Indices
  <2>2. ASSUME NEW u \in Touched, RemoveAll(u) PROVE TreeInv'
    <3>1. u \in Indices
      OBVIOUS
    <3>2. tickets' = [tickets EXCEPT ![u] = 0]
      BY <2>2 DEF RemoveAll
    <3>4. bit' = BitAdd(bit, u, 0 - tickets[u])
      BY <2>1, <2>2, <3>1, BitSubIsBitAdd DEF RemoveAll, TreeInv
    <3>5. Sum(MAX_PARTICIPANTS, tickets) - tickets[u] + 0 <= U64_MAX
      BY <2>1, <3>1, FenwickAssumption DEF TreeInv
    <3>6. QED
      BY <3>1, <3>2, <3>4, <3>5, UpdateKeepsTree, Zenon
  <2>3. ASSUME NEW u \in Touched, NEW d \in 1..MaxTickets, Add(u, d) PROVE TreeInv'
    <3>1. u \in Indices /\ d \in Nat
      OBVIOUS
    <3>2. tickets' = [tickets EXCEPT ![u] = tickets[u] + d] /\ tickets[u] + d \in Nat
      BY <2>1, <2>3, <3>1 DEF Add
    <3>4. bit' = BitAdd(bit, u, (tickets[u] + d) - tickets[u])
      <4>1. (tickets[u] + d) - tickets[u] = d
        BY <2>1, <3>1
      <4>2. QED
        BY <2>3, <4>1 DEF Add
    <3>5. Sum(MAX_PARTICIPANTS, tickets) + d <= U64_MAX
      BY <2>3 DEF Add, TotalOk, PrefixSum, Sum
    <3>6. Sum(MAX_PARTICIPANTS, tickets) - tickets[u] + (tickets[u] + d) <= U64_MAX
      BY <2>1, <3>1, <3>5, FenwickAssumption
    <3>7. QED
      BY <3>1, <3>2, <3>4, <3>6, UpdateKeepsTree, Zenon
  <2>4. ASSUME UNCHANGED vars PROVE TreeInv'
    BY <2>4 DEF vars, TreeInv, HoldsRanges
  <2>5. QED
    BY <2>2, <2>3, <2>4 DEF Next
<1>3. QED
  BY <1>1, <1>2, TreeInvIsExact, PTL DEF Spec

=============================================================================

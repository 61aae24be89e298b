------------------------------ MODULE Fenwick ------------------------------
(***************************************************************************)
(* The Fenwick (binary indexed) tree that the Round account keeps in its   *)
(* `bit` array: node i holds the tickets of the participant indices        *)
(* (i - lowbit(i)) + 1 .. i.  Node 0 of the array is never touched, so the *)
(* tree is a function on 1..MAX_PARTICIPANTS.                              *)
(***************************************************************************)
EXTENDS Integers

CONSTANTS
    MAX_PARTICIPANTS,   \* ROUND_FENWICK_NODE_COUNT - 1, 200 on chain
    U64_MAX             \* the largest value of a checked u64

ASSUME FenwickAssumption ==
    /\ MAX_PARTICIPANTS \in Nat \ {0}
    /\ U64_MAX \in Nat \ {0}

Indices == 1..MAX_PARTICIPANTS

EmptyTree == [i \in Indices |-> 0]

\* index & (!index + 1): the lowest bit that is set.
LowBit[i \in Indices] == IF i % 2 = 1 THEN 1 ELSE 2 * LowBit[i \div 2]

\* The nodes that the loop of bit_add and bit_sub visits, starting at index.
Path[index \in Indices] ==
    {index} \cup (IF index + LowBit[index] \in Indices
                  THEN Path[index + LowBit[index]] ELSE {})

\* The checks that let the loops finish: the index is a node, and no checked
\* operation overflows.
BitAddOk(bit, index, delta) ==
    index \in Indices /\ \A i \in Path[index] : bit[i] + delta <= U64_MAX

BitSubOk(bit, index, delta) ==
    index \in Indices /\ \A i \in Path[index] : bit[i] >= delta

BitAdd(bit, index, delta) ==
    [i \in Indices |-> IF i \in Path[index] THEN bit[i] + delta ELSE bit[i]]

BitSub(bit, index, delta) ==
    [i \in Indices |-> IF i \in Path[index] THEN bit[i] - delta ELSE bit[i]]

\* Mutant of Descend: a node that ends exactly at the target is stepped over.
DescendInclusive(bit, target, s, step) ==
    LET next == s.idx + step
        cand == s.cur + bit[next]
    IN  IF next > MAX_PARTICIPANTS THEN s
        ELSE IF cand > U64_MAX THEN [s EXCEPT !.ok = FALSE]
        ELSE IF cand <= target THEN [s EXCEPT !.idx = next, !.cur = cand]
        ELSE s

\* One iteration of the descent of bit_find_prefix.
Descend(bit, target, s, step) ==
    LET next == s.idx + step
        cand == s.cur + bit[next]
    IN  IF next > MAX_PARTICIPANTS THEN s
        ELSE IF cand > U64_MAX THEN [s EXCEPT !.ok = FALSE]
        ELSE IF cand < target THEN [s EXCEPT !.idx = next, !.cur = cand]
        ELSE s

\* The descent, whose steps are the powers of two from bit_mask down to 1: after[step] is
\* the state after the iteration with that step.  bit_mask itself is above
\* MAX_PARTICIPANTS, and its iteration changes nothing.
Descent(bit, target) ==
    LET after[step \in 1..(2 * MAX_PARTICIPANTS)] ==
            IF step > MAX_PARTICIPANTS THEN [idx |-> 0, cur |-> 0, ok |-> TRUE]
            ELSE Descend(bit, target, after[2 * step], step)
    IN  after

\* The result when ok, and MathOverflow otherwise.
BitFindPrefix(bit, target) ==
    LET last == Descent(bit, target)[1]
    IN  [index |-> last.idx + 1, ok |-> last.ok]

-----------------------------------------------------------------------------
\* What the tree adds up: PrefixSums(n, g)[i] is g[1] + ... + g[i].
PrefixSums(n, g) ==
    LET s[i \in 0..n] == IF i = 0 THEN 0 ELSE s[i-1] + g[i]
    IN  s

Sum(n, g) == PrefixSums(n, g)[n]

=============================================================================

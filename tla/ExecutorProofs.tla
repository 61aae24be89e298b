--------------------------- MODULE ExecutorProofs ---------------------------
(***************************************************************************)
(* Theorems about DegenExecutor.  However late, often or in whatever order *)
(* its transactions land, a claim is paid whole; and, when nothing         *)
(* disturbs the executor, its three nested loops miss no candidate that    *)
(* could have been paid.                                                   *)
(***************************************************************************)
EXTENDS DegenExecutor, Integers, TLAPS

\* A leaf that names no prover is given to SMT, for so many seconds at most.
USE SMTT(60)

\* The amounts of the claim are amounts.
AmountsAssumed == TOTAL \in Nat /\ REIMBURSE \in Nat /\ FEES \in Nat

\* What PrizeWhole needs to be inductive: the balances are numbers.
PrizeInv ==
    /\ fee \in Int /\ ata \in Int /\ drained \in Int /\ dust \in Int
    /\ PrizeWhole

\* A swap lands only with the payout of now and the balance of now, so that nothing of
\* the prize stays in the executor's account and nothing of it goes to the treasury.
LEMMA LandingIsWhole ==
    ASSUME AmountsAssumed, PrizeInv, NEW tx \in txs, Land(tx)
    PROVE  PrizeInv'
<1>1. Payout \in Int
    BY DEF AmountsAssumed, PrizeInv, Payout, reimburseVrf
<1>2. CASE tx.kind = "fallback"
    BY <1>2 DEF Land, PrizeInv, PrizeWhole
<1>3. CASE tx.kind # "fallback"
    <2>1. tx.drain = ata /\ tx.payout = Payout
        BY <1>3 DEF Land, LandsWhole
    <2>2. ata' = 0 /\ drained' = drained + ata
        BY <1>1, <1>3, <2>1 DEF Land
    <2>3. paid'.got = paid'.owed
        BY <1>3, <2>1 DEF Land
    <2> QED
        BY <1>3, <2>2, <2>3 DEF Land, PrizeInv, PrizeWhole
<1> QED
    BY <1>2, <1>3

\* The winner gets the whole payout that begin moves, and the treasury only what others
\* left in the executor's account, with any number of faults, crashes and repeated
\* transactions (processReadyClaim and buildExecutionTx of degenExecutor.ts).
THEOREM PrizeIsWhole ==
    ASSUME AmountsAssumed
    PROVE  Spec => []PrizeWhole
<1>1. Init => PrizeInv
    BY DEF Init, PrizeInv, PrizeWhole
<1>2. PrizeInv /\ [Next]_vars => PrizeInv'
    <2> SUFFICES ASSUME PrizeInv, [Next]_vars
                 PROVE  PrizeInv'
        OBVIOUS
    <2>1. ASSUME NEW tx \in txs, Land(tx)
          PROVE  PrizeInv'
        BY <2>1, LandingIsWhole
    <2>2. ASSUME NEW tx \in txs, LandFails(tx) \/ Expires(tx)
          PROVE  PrizeInv'
        BY <2>2 DEF LandFails, Expires, chain, PrizeInv, PrizeWhole
    <2>3. CASE Foreign
        <3>1. Payout \in Int
            BY DEF AmountsAssumed, PrizeInv, Payout, reimburseVrf
        <3> QED
            BY <2>3, <3>1 DEF Foreign, AmountsAssumed, PrizeInv, PrizeWhole
    <2>4. CASE Executor
        BY <2>4 DEF Executor, Poll, StartCandidate, Attempt, Confirmed, ConfirmThrows,
                    Fallback, chain, PrizeInv, PrizeWhole
    <2>5. CASE Crash
        BY <2>5 DEF Crash, chain, PrizeInv, PrizeWhole
    <2>6. CASE UNCHANGED vars
        BY <2>6 DEF vars, chain, PrizeInv, PrizeWhole
    <2> QED
        BY <2>1, <2>2, <2>3, <2>4, <2>5, <2>6 DEF Next
<1>3. PrizeInv => PrizeWhole
    BY DEF PrizeInv
<1> QED
    BY <1>1, <1>2, <1>3, PTL DEF Spec

-----------------------------------------------------------------------------
\* Nothing disturbs the executor: no request fails, the fee stays, and every token has a
\* single-hop route.  It may be restarted, and others may send it USDC.
Undisturbed ==
    /\ RANKS \in Nat \ {0} /\ SLIPS \in Nat \ {0} /\ ACCS \in Nat \ {0}
    /\ Fits \subseteq Nat \ {0} /\ Accepts \subseteq Nat \ {0} /\ Directs = {TRUE}
    /\ TOTAL \in Nat /\ REIMBURSE \in Nat
    /\ FAULTS = 0 /\ FEES = 0

LoopRecords ==
    [pc : {"idle", "candidate", "attempt", "confirm", "fallback"}, rank : Ranks,
     slip : 1..SLIPS, acc : 1..Single, sized : BOOLEAN,
     seen : {"none", "size", "slippage", "other"}, payout : Int]

\* A loop record that a step of the executor may leave: it goes on with the payout of now,
\* or is idle.
Continues(e) == e \in LoopRecords /\ (e.pc # "idle" => e.payout = Payout)

\* What mintOwnerCache says is true.
CacheIsTrue ==
    /\ cache \in [Ranks -> {"unread", "ok", "none"}]
    /\ \A r \in Ranks : /\ cache[r] = "none" => market[r].kind = "unsupported"
                        /\ cache[r] = "ok" => market[r].kind # "unsupported"

NoneExpired == \A tx \in txs : tx.state # "expired"

LoopTypes ==
    /\ fee = 2 /\ faults = 0 /\ market \in [Ranks -> Markets]
    /\ Continues(ex) /\ CacheIsTrue /\ NoneExpired

\* The candidates before rank r cannot be paid.
NoneBefore(r) == \A q \in Ranks : q < r => ~Viable(q)

\* While the claim is ready: no candidate was left that could be paid, and no slippage that
\* the market of the present one would have accepted.
Thorough(e) ==
    /\ e.pc \in {"candidate", "attempt", "confirm"} => NoneBefore(e.rank)
    /\ e.pc = "fallback" => NoneBefore(RANKS + 1)
    /\ e.pc = "attempt" =>
          /\ market[e.rank].kind \in {"usdc", "token"}
          /\ Viable(e.rank) => e.slip <= market[e.rank].accepts

LoopInv ==
    /\ LoopTypes
    /\ claim = "READY" => Thorough(ex)
    /\ FallbackIsLast

\* A market is one of the four kinds, and its numbers are numbers.
LEMMA MarketTypes ==
    ASSUME Undisturbed, LoopTypes, NEW r \in Ranks
    PROVE  /\ market[r].kind \in {"usdc", "unsupported", "no_route", "token"}
           /\ market[r].fits \in Nat \ {0} /\ market[r].accepts \in Nat \ {0}
           /\ market[r].direct = TRUE
           /\ market[r].kind # "token" => market[r].fits = 1 /\ market[r].accepts = 1
<1>1. market[r] \in Markets
    BY DEF LoopTypes
<1>2. CASE market[r] \in {Usdc, Plain("unsupported"), Plain("no_route")}
    BY <1>2 DEF Usdc, Plain
<1>3. CASE market[r] \in [kind : {"token"}, fits : Fits, accepts : Accepts, direct : Directs]
    BY <1>3, Zenon DEF Undisturbed
<1> QED
    BY <1>1, <1>2, <1>3, Zenon DEF Markets

\* The end of a candidate: a candidate that cannot be paid is left for the next one, or for
\* the fallback after the last.
LEMMA NextIsThorough ==
    ASSUME Undisturbed, LoopTypes, ex.pc # "idle"
    PROVE  /\ Continues(NextCandidate)
           /\ NoneBefore(ex.rank) /\ ~Viable(ex.rank) => Thorough(NextCandidate)
<1>1. ex \in LoopRecords /\ ex.payout = Payout /\ ex.rank \in 1..RANKS /\ RANKS \in Nat
    BY DEF LoopTypes, Continues, LoopRecords, Ranks, Undisturbed
<1>2. CASE ex.rank < RANKS
    <2>1. NextCandidate = [ex EXCEPT !.pc = "candidate", !.rank = @ + 1, !.seen = "none"]
        BY <1>2 DEF NextCandidate
    <2>2. NextCandidate \in LoopRecords
        <3>1. ex.rank + 1 \in Ranks
            BY <1>1, <1>2 DEF Ranks
        <3> QED
            BY <1>1, <2>1, <3>1, Zenon DEF LoopRecords
    <2>3. NextCandidate.pc = "candidate" /\ NextCandidate.rank = ex.rank + 1
          /\ NextCandidate.payout = ex.payout
        BY <1>1, <2>1 DEF LoopRecords
    <2>4. ASSUME NoneBefore(ex.rank), ~Viable(ex.rank)
          PROVE  NoneBefore(ex.rank + 1)
        BY <1>1, <2>4 DEF NoneBefore, Ranks
    <2> QED
        BY <1>1, <2>2, <2>3, <2>4 DEF Continues, Thorough
<1>3. CASE ~(ex.rank < RANKS)
    <2>1. NextCandidate = [ex EXCEPT !.pc = "fallback", !.seen = "none"]
        BY <1>3 DEF NextCandidate
    <2>2. NextCandidate \in LoopRecords
        BY <1>1, <2>1, Zenon DEF LoopRecords
    <2>3. NextCandidate.pc = "fallback" /\ NextCandidate.payout = ex.payout
        BY <1>1, <2>1 DEF LoopRecords
    <2>4. ASSUME NoneBefore(ex.rank), ~Viable(ex.rank)
          PROVE  NoneBefore(RANKS + 1)
        BY <1>1, <1>3, <2>4 DEF NoneBefore, Ranks
    <2> QED
        BY <1>1, <2>2, <2>3, <2>4 DEF Continues, Thorough
<1> QED
    BY <1>2, <1>3

\* The end of a slippage: the next one is tried, unless there is none or the candidate is
\* USDC itself.
LEMMA SlipIsThorough ==
    ASSUME Undisturbed, LoopTypes, ex.pc # "idle",
           NEW e \in LoopRecords, e.rank = ex.rank, e.payout = ex.payout
    PROVE  /\ Continues(AfterSlip(e))
           /\ /\ NoneBefore(ex.rank)
              /\ market[ex.rank].kind \in {"usdc", "token"}
              /\ Viable(ex.rank) => /\ market[ex.rank].kind = "token"
                                    /\ e.slip < market[ex.rank].accepts
              => Thorough(AfterSlip(e))
<1>1. ex.payout = Payout /\ e.slip \in 1..SLIPS /\ SLIPS \in Nat /\ ACCS \in Nat
      /\ ex.rank \in Ranks
    BY DEF LoopTypes, Continues, LoopRecords, Undisturbed
<1>2. market[ex.rank].accepts \in Nat
    BY <1>1, MarketTypes, Zenon
<1>3. CASE e.slip < SLIPS /\ market[e.rank].kind # "usdc"
    <2>1. AfterSlip(e) = [e EXCEPT !.pc = "attempt", !.slip = @ + 1, !.acc = 1, !.sized = FALSE]
        BY <1>3 DEF AfterSlip
    <2>2. AfterSlip(e) \in LoopRecords
        <3>1. e.slip + 1 \in 1..SLIPS /\ 1 \in 1..Single
            BY <1>1, <1>3 DEF Single
        <3> QED
            BY <2>1, <3>1, Zenon DEF LoopRecords
    <2>3. /\ AfterSlip(e).pc = "attempt" /\ AfterSlip(e).rank = ex.rank
          /\ AfterSlip(e).slip = e.slip + 1 /\ AfterSlip(e).payout = ex.payout
        BY <2>1 DEF LoopRecords
    <2>4. e.slip < market[ex.rank].accepts => e.slip + 1 <= market[ex.rank].accepts
        BY <1>1, <1>2
    <2>5. Continues(AfterSlip(e))
        BY <1>1, <2>2, <2>3 DEF Continues
    <2> QED
        BY <2>3, <2>4, <2>5 DEF Thorough
<1>4. CASE ~(e.slip < SLIPS /\ market[e.rank].kind # "usdc")
    <2>1. AfterSlip(e) = NextCandidate
        BY <1>4 DEF AfterSlip
    <2>2. ASSUME Viable(ex.rank) => /\ market[ex.rank].kind = "token"
                                    /\ e.slip < market[ex.rank].accepts
          PROVE  ~Viable(ex.rank)
        BY <1>1, <1>2, <1>4, <2>2 DEF Viable
    <2> QED
        BY <2>1, <2>2, NextIsThorough
<1> QED
    BY <1>3, <1>4

\* An attempt that does not go out: a quote, a size or a simulation says no.  Only a market
\* that cannot be paid makes the loops go past the candidate.
LEMMA FailedIsThorough ==
    ASSUME Undisturbed, LoopTypes, ex.pc = "attempt", Outcome # "sent"
    PROVE  /\ Continues(Failed(Outcome))
           /\ claim = "READY" /\ Thorough(ex) => Thorough(Failed(Outcome))
<1> DEFINE mk == market[ex.rank]
           e == [ex EXCEPT !.seen = Outcome]
<1>1. /\ ex \in LoopRecords /\ ex.payout = Payout /\ ex.rank \in Ranks /\ ex.slip \in 1..SLIPS
      /\ ex.acc \in 1..Single /\ ACCS \in Nat \ {0} /\ SLIPS \in Nat \ {0}
    BY DEF LoopTypes, Continues, LoopRecords, Undisturbed
<1>2. /\ mk.kind \in {"usdc", "unsupported", "no_route", "token"}
      /\ mk.fits \in Nat \ {0} /\ mk.accepts \in Nat \ {0} /\ mk.direct = TRUE
      /\ mk.kind # "token" => mk.fits = 1 /\ mk.accepts = 1
    BY <1>1, MarketTypes, Zenon
<1>3. Outcome \in {"other", "size", "slippage"}
    BY DEF Outcome
<1>4. e \in LoopRecords /\ e.rank = ex.rank /\ e.slip = ex.slip /\ e.payout = ex.payout
      /\ e.acc = ex.acc /\ e.sized = ex.sized /\ e.pc = "attempt"
    BY <1>1, <1>3 DEF LoopRecords
<1>5. CASE Outcome = "other"
    <2>1. Failed(Outcome) = NextCandidate
        BY <1>5 DEF Failed
    <2>2. claim # "READY"
        <3>1. ~LandsWhole(Tx)
            BY <1>2, <1>5 DEF Outcome, Quoted
        <3> QED
            BY <1>1, <3>1 DEF LandsWhole, Tx
    <2> QED
        BY <2>1, <2>2, NextIsThorough
<1>6. CASE Outcome = "size"
    <2>1. ex.acc < mk.fits /\ mk.kind = "token"
        BY <1>1, <1>2, <1>6 DEF Outcome
    <2>2. ASSUME NEW a \in 1..Single, Failed(Outcome) = [e EXCEPT !.acc = a, !.sized = TRUE]
          PROVE  /\ Continues(Failed(Outcome))
                 /\ Thorough(ex) => Thorough(Failed(Outcome))
        <3> DEFINE f == [e EXCEPT !.acc = a, !.sized = TRUE]
        <3>1. f \in LoopRecords /\ f.rank = ex.rank /\ f.slip = ex.slip /\ f.payout = ex.payout
              /\ f.pc = "attempt"
            BY <1>4, Zenon DEF LoopRecords
        <3>2. Failed(Outcome) = f
            BY <2>2
        <3> HIDE DEF f
        <3> QED
            BY <1>1, <3>1, <3>2 DEF Continues, Thorough
    <2>3. CASE ex.acc < ACCS
        <3>1. Failed(Outcome) = [e EXCEPT !.acc = @ + 1, !.sized = TRUE]
            BY <1>1, <1>6, <2>1, <2>3 DEF Failed
        <3>2. Failed(Outcome) = [e EXCEPT !.acc = ex.acc + 1, !.sized = TRUE]
            BY <1>4, <3>1
        <3>3. ex.acc + 1 \in 1..Single
            BY <1>1, <2>3 DEF Single
        <3> QED
            BY <3>2, <3>3, <2>2, Zenon
    <2>4. CASE ex.acc = ACCS
        <3>1. Failed(Outcome) = [e EXCEPT !.acc = Single, !.sized = TRUE]
            BY <1>1, <1>6, <2>1, <2>4 DEF Failed
        <3>2. Single \in 1..Single
            BY <1>1 DEF Single
        <3> QED
            BY <3>1, <3>2, <2>2, Zenon
    <2>5. CASE ~(ex.acc < ACCS \/ ex.acc = ACCS)
        <3>1. Failed(Outcome) = AfterSlip(e)
            BY <1>6, <2>1, <2>5 DEF Failed
        <3>2. ~Viable(ex.rank)
            BY <1>1, <1>2, <2>1, <2>5 DEF Viable, Single
        <3> HIDE DEF e
        <3> QED
            BY <1>4, <3>1, <3>2, <2>1, SlipIsThorough DEF Thorough
    <2> QED
        BY <2>3, <2>4, <2>5
<1>7. CASE Outcome = "slippage"
    <2>1. ex.slip < mk.accepts /\ mk.kind = "token"
        BY <1>1, <1>2, <1>7 DEF Outcome
    <2>2. CASE ex.acc # Single /\ ex.sized
        <3>1. Failed(Outcome) = [e EXCEPT !.acc = Single]
            BY <1>4, <1>7, <2>2 DEF Failed, AfterAccs
        <3>2. Single \in 1..Single
            BY <1>1 DEF Single
        <3> DEFINE f == [e EXCEPT !.acc = Single]
        <3>3. f \in LoopRecords /\ f.rank = ex.rank /\ f.slip = ex.slip /\ f.payout = ex.payout
              /\ f.pc = "attempt"
            BY <1>4, <3>2, Zenon DEF LoopRecords
        <3>4. Failed(Outcome) = f
            BY <3>1
        <3> HIDE DEF f
        <3> QED
            BY <1>1, <3>4, <3>3 DEF Continues, Thorough
    <2>3. CASE ~(ex.acc # Single /\ ex.sized)
        <3>1. Failed(Outcome) = AfterSlip(e)
            BY <1>4, <1>7, <2>3 DEF Failed, AfterAccs
        <3> HIDE DEF e
        <3> QED
            BY <1>4, <3>1, <2>1, SlipIsThorough DEF Thorough
    <2> QED
        BY <2>2, <2>3
<1> QED
    BY <1>3, <1>5, <1>6, <1>7

\* A step keeps the invariant when the record that it leaves is thorough, the cache stays
\* true and no transaction expires.
LEMMA LoopStep ==
    ASSUME LoopTypes, FallbackIsLast, NEW e, ex' = e, Continues(e),
           claim' = "READY" => Thorough(e),
           UNCHANGED <<fee, faults, market, fallback>>, CacheIsTrue', NoneExpired'
    PROVE  LoopInv'
<1>1. Payout' = Payout
    BY DEF Payout, reimburseVrf
<1>2. LoopTypes'
    BY <1>1 DEF LoopTypes, Continues
<1>3. claim' = "READY" => Thorough(ex)'
    BY DEF Thorough, NoneBefore, Viable
<1>4. FallbackIsLast'
    BY DEF FallbackIsLast, Viable
<1> QED
    BY <1>2, <1>3, <1>4 DEF LoopInv

\* The loops begin with the first candidate, whose predecessors are none.
LEMMA PollIsThorough ==
    ASSUME Undisturbed, LoopInv, Poll
    PROVE  LoopInv'
<1> DEFINE e == [Idle EXCEPT !.pc = "candidate", !.payout = Payout]
<1>1. Payout \in Int
    BY DEF Undisturbed, LoopInv, LoopTypes, Payout, reimburseVrf
<1>2. 1 \in Ranks /\ 1 \in 1..SLIPS /\ 1 \in 1..Single
    BY DEF Undisturbed, Ranks, Single
<1>3. e \in LoopRecords /\ e.pc = "candidate" /\ e.rank = 1 /\ e.payout = Payout
    BY <1>1, <1>2, Zenon DEF LoopRecords, Idle
<1>4. NoneBefore(1)
    BY DEF NoneBefore, Ranks
<1>5. ex' = e /\ UNCHANGED <<claim, fee, faults, market, fallback, cache, txs>>
    BY DEF Poll, chain
<1> HIDE DEF e
<1>6. Continues(e) /\ Thorough(e)
    BY <1>3, <1>4 DEF Continues, Thorough
<1>7. CacheIsTrue' /\ NoneExpired'
    BY <1>5 DEF LoopInv, LoopTypes, CacheIsTrue, NoneExpired
<1> QED
    BY <1>5, <1>6, <1>7, LoopStep DEF LoopInv

\* A candidate is begun if it is USDC or its mint exists and a route is quoted, and
\* otherwise it cannot be paid.
LEMMA StartIsThorough ==
    ASSUME Undisturbed, LoopInv, StartCandidate
    PROVE  LoopInv'
<1> DEFINE kind == market[ex.rank].kind
           first == [ex EXCEPT !.pc = "attempt", !.slip = 1, !.acc = 1, !.sized = FALSE]
<1>1. /\ ex \in LoopRecords /\ ex.payout = Payout /\ ex.rank \in Ranks /\ ex.pc = "candidate"
      /\ 1 \in 1..SLIPS /\ 1 \in 1..Single /\ 1 # Single
    BY DEF LoopInv, LoopTypes, Continues, LoopRecords, StartCandidate, Undisturbed, Single
<1>2. /\ kind \in {"usdc", "unsupported", "no_route", "token"}
      /\ market[ex.rank].accepts \in Nat \ {0}
    BY <1>1, MarketTypes, Zenon DEF LoopInv
<1>3. UNCHANGED <<claim, fee, txs, market, fallback>>
    BY DEF StartCandidate, chain
<1>4. faults' = faults /\ ~Fault
    BY DEF StartCandidate, Fault, NoFault, MintOwner, Undisturbed, LoopInv, LoopTypes
<1>5. NoneExpired'
    BY <1>3 DEF LoopInv, LoopTypes, NoneExpired
<1>6. first \in LoopRecords /\ first.pc = "attempt" /\ first.rank = ex.rank /\ first.slip = 1
      /\ first.payout = Payout
    BY <1>1, Zenon DEF LoopRecords
<1> HIDE DEF first
<1>7. ASSUME kind \in {"usdc", "token"}
      PROVE  Continues(first) /\ (claim' = "READY" => Thorough(first))
    BY <1>1, <1>2, <1>3, <1>6, <1>7 DEF Continues, Thorough, LoopInv
<1>8. ASSUME kind \in {"unsupported", "no_route"}
      PROVE  Continues(NextCandidate) /\ (claim' = "READY" => Thorough(NextCandidate))
    <2>1. ~Viable(ex.rank)
        BY <1>8 DEF Viable
    <2> QED
        BY <1>1, <1>3, <2>1, NextIsThorough DEF LoopInv, Thorough
<1>9. CASE kind = "usdc" /\ ex' = first /\ UNCHANGED cache
    <2>1. CacheIsTrue'
        BY <1>3, <1>9 DEF LoopInv, LoopTypes, CacheIsTrue
    <2> QED
        BY <1>3, <1>4, <1>5, <1>7, <1>9, <2>1, LoopStep DEF LoopInv
<1>10. ASSUME NEW owner \in {"ok", "none"}, kind # "usdc", MintOwner(owner),
              ex' = IF owner = "ok" /\ Quoted(1) THEN first ELSE NextCandidate
       PROVE  LoopInv'
    <2>1. owner = "none" <=> kind = "unsupported"
        BY <1>1, <1>4, <1>10 DEF MintOwner, LoopInv, LoopTypes, CacheIsTrue
    <2>2. CacheIsTrue'
        BY <1>1, <1>3, <1>10, <2>1 DEF MintOwner, LoopInv, LoopTypes, CacheIsTrue
    <2>3. CASE kind = "token"
        <3>1. ex' = first
            BY <1>1, <1>10, <2>1, <2>3 DEF Quoted
        <3> QED
            BY <1>3, <1>4, <1>5, <1>7, <2>2, <2>3, <3>1, LoopStep DEF LoopInv
    <2>4. CASE kind # "token"
        <3>1. ex' = NextCandidate
            BY <1>1, <1>10, <2>4 DEF Quoted
        <3>2. kind \in {"unsupported", "no_route"}
            BY <1>2, <1>10, <2>4
        <3> QED
            BY <1>3, <1>4, <1>5, <1>8, <2>2, <3>1, <3>2, LoopStep DEF LoopInv
    <2> QED
        BY <2>3, <2>4
<1> QED
    BY <1>4, <1>9, <1>10 DEF StartCandidate, first

\* An attempt that goes out is confirmed next; one that does not leaves the loops thorough.
LEMMA AttemptIsThorough ==
    ASSUME Undisturbed, LoopInv, Attempt
    PROVE  LoopInv'
<1>1. ex \in LoopRecords /\ ex.payout = Payout /\ ex.pc = "attempt"
    BY DEF LoopInv, LoopTypes, Continues, Attempt
<1>2. UNCHANGED <<claim, fee, market, cache, fallback>>
    BY DEF Attempt, chain
<1>3. faults' = faults /\ ~Fault
    BY DEF Attempt, Fault, NoFault, Undisturbed, LoopInv, LoopTypes
<1>4. CacheIsTrue'
    BY <1>2 DEF LoopInv, LoopTypes, CacheIsTrue
<1>5. CASE Outcome = "sent" /\ txs' = Open \cup {Tx} /\ ex' = [ex EXCEPT !.pc = "confirm", !.seen = "none"]
    <2> DEFINE e == [ex EXCEPT !.pc = "confirm", !.seen = "none"]
    <2>1. e \in LoopRecords /\ e.pc = "confirm" /\ e.rank = ex.rank /\ e.payout = Payout
        BY <1>1, Zenon DEF LoopRecords
    <2>2. ex' = e
        BY <1>5
    <2> HIDE DEF e
    <2>3. Continues(e) /\ (claim' = "READY" => Thorough(e))
        BY <1>1, <1>2, <2>1 DEF Continues, Thorough, LoopInv
    <2>4. NoneExpired'
        BY <1>5 DEF Open, Tx, LoopInv, LoopTypes, NoneExpired
    <2> QED
        BY <1>2, <1>3, <1>4, <2>2, <2>3, <2>4, LoopStep DEF LoopInv
<1>6. CASE Outcome # "sent" /\ ex' = Failed(Outcome) /\ UNCHANGED txs
    <2>1. Continues(Failed(Outcome)) /\ (claim' = "READY" => Thorough(Failed(Outcome)))
        BY <1>1, <1>2, <1>6, FailedIsThorough DEF LoopInv
    <2>2. NoneExpired'
        BY <1>6 DEF LoopInv, LoopTypes, NoneExpired
    <2> QED
        BY <1>2, <1>3, <1>4, <1>6, <2>1, <2>2, LoopStep DEF LoopInv
<1> QED
    BY <1>3, <1>5, <1>6 DEF Attempt

\* The executor is idle after a restart, when a confirmation returns, and after the fallback,
\* which it sends only when it has been through all candidates of a claim that is still
\* ready.
LEMMA IdleIsThorough ==
    ASSUME Undisturbed, LoopInv, Confirmed \/ Fallback \/ Crash
    PROVE  LoopInv'
<1>1. 1 \in Ranks /\ 1 \in 1..SLIPS /\ 1 \in 1..Single
    BY DEF Undisturbed, Ranks, Single
<1>2. Continues(Idle) /\ Thorough(Idle)
    BY <1>1 DEF Continues, Thorough, Idle, LoopRecords
<1>3. ex' = Idle /\ UNCHANGED <<claim, fee, market, faults>>
    BY DEF Confirmed, Fallback, Crash, chain
<1>4. CacheIsTrue'
    <2>1. cache' = cache \/ cache' = [r \in Ranks |-> "unread"]
        BY DEF Confirmed, Fallback, Crash
    <2> QED
        BY <1>3, <2>1 DEF LoopInv, LoopTypes, CacheIsTrue
<1>5. NoneExpired'
    BY DEF Confirmed, Fallback, Crash, FallbackTx, LoopInv, LoopTypes, NoneExpired
<1>6. CASE UNCHANGED fallback
    BY <1>2, <1>3, <1>4, <1>5, <1>6, LoopStep DEF LoopInv
<1>7. CASE fallback' # fallback
    <2>1. claim = "READY" /\ ex.pc = "fallback"
        BY <1>7 DEF Confirmed, Fallback, Crash, LandsWhole
    <2>2. \A r \in Ranks : ~Viable(r)
        BY <2>1 DEF LoopInv, Thorough, NoneBefore, Ranks, Undisturbed
    <2>3. FallbackIsLast'
        BY <1>3, <2>2 DEF FallbackIsLast, Viable
    <2>4. LoopTypes'
        BY <1>2, <1>3, <1>4, <1>5 DEF LoopInv, LoopTypes, Continues, Payout
    <2>5. Thorough(ex)'
        BY <1>3 DEF Thorough, Idle
    <2> QED
        BY <2>3, <2>4, <2>5 DEF LoopInv
<1> QED
    BY <1>6, <1>7

\* What happens on chain makes no claim ready again, and nothing expires.
LEMMA ChainIsThorough ==
    ASSUME Undisturbed, LoopInv,
           Foreign \/ \E tx \in txs : Land(tx) \/ LandFails(tx) \/ Expires(tx)
    PROVE  LoopInv'
<1>1. UNCHANGED <<ex, market, cache, fallback>>
    BY DEF Foreign, Land, LandFails, Expires
<1>2. fee' = fee
    BY DEF Foreign, Land, LandFails, Expires, chain, Undisturbed
<1>3. claim' = "READY" => claim = "READY"
    BY DEF Foreign, Land, LandFails, Expires, chain
<1>4. faults' = faults /\ ~Fault
    BY DEF Foreign, Land, LandFails, Expires, Fault, NoFault, Undisturbed, LoopInv, LoopTypes
<1>5. NoneExpired'
    <2>1. CASE Foreign
        BY <2>1 DEF Foreign, LoopInv, LoopTypes, NoneExpired
    <2>2. ASSUME NEW tx \in txs, Land(tx)
          PROVE  NoneExpired'
        BY <2>2 DEF Land, LoopInv, LoopTypes, NoneExpired
    <2>3. ASSUME NEW tx \in txs, LandFails(tx)
          PROVE  NoneExpired'
        <3>1. PICK s \in {"price", "state"} :
                  txs' = (txs \ {tx}) \cup {[tx EXCEPT !.state = s]}
            BY <2>3 DEF LandFails
        <3>2. [tx EXCEPT !.state = s].state = s
            BY <2>3
        <3> QED
            BY <3>1, <3>2, Zenon DEF LoopInv, LoopTypes, NoneExpired
    <2> QED
        BY <1>4, <2>1, <2>2, <2>3 DEF Expires
<1>6. CacheIsTrue'
    BY <1>1 DEF LoopInv, LoopTypes, CacheIsTrue
<1>7. Continues(ex) /\ (claim' = "READY" => Thorough(ex))
    BY <1>3 DEF LoopInv, LoopTypes
<1> QED
    BY <1>1, <1>2, <1>4, <1>5, <1>6, <1>7, LoopStep DEF LoopInv

\* Undisturbed but for restarts, the executor sends the fallback only if none of the
\* candidates could have been paid, for any number of candidates, of slippages and of
\* account limits (the loops of processReadyClaim in degenExecutor.ts).
THEOREM FallbackComesLast ==
    ASSUME Undisturbed
    PROVE  Spec => []FallbackIsLast
<1>1. Init => LoopInv
    <2> SUFFICES ASSUME Init PROVE LoopInv
        OBVIOUS
    <2>1. 1 \in Ranks /\ 1 \in 1..SLIPS /\ 1 \in 1..Single
        BY DEF Undisturbed, Ranks, Single
    <2>2. Continues(ex) /\ Thorough(ex)
        BY <2>1 DEF Init, Continues, Thorough, Idle, LoopRecords
    <2>3. CacheIsTrue /\ NoneExpired /\ FallbackIsLast
        BY DEF Init, CacheIsTrue, NoneExpired, FallbackIsLast
    <2> QED
        BY <2>2, <2>3 DEF Init, LoopInv, LoopTypes
<1>2. LoopInv /\ [Next]_vars => LoopInv'
    <2> SUFFICES ASSUME LoopInv, [Next]_vars
                 PROVE  LoopInv'
        OBVIOUS
    <2>1. ~Fault
        BY DEF Fault, Undisturbed, LoopInv, LoopTypes
    <2>2. ~ConfirmThrows
        BY <2>1 DEF ConfirmThrows, Mine, LoopInv, LoopTypes, NoneExpired
    <2>4. CASE UNCHANGED vars
        BY <2>4 DEF vars, chain, LoopInv, LoopTypes, Continues, Payout, reimburseVrf,
                    CacheIsTrue, NoneExpired, Thorough, NoneBefore, Viable, FallbackIsLast
    <2> QED
        BY <2>2, <2>4, PollIsThorough, StartIsThorough, AttemptIsThorough,
           IdleIsThorough, ChainIsThorough DEF Next, Executor
<1>3. LoopInv => FallbackIsLast
    BY DEF LoopInv
<1> QED
    BY <1>1, <1>2, <1>3, PTL DEF Spec

=============================================================================

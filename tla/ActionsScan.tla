----------------------------- MODULE ActionsScan -----------------------------
(***************************************************************************)
(* The Solana Actions endpoints that choose a round for the caller         *)
(* (lib/api/actions-shared.ts and api/actions/).  A request that names no  *)
(* round gets one from scanRoundIds, which reads round accounts in batches *)
(* and keeps its result for a few seconds in a cache shared by all         *)
(* requests of the server; the claim and refund endpoints then look        *)
(* downwards from the last round they know for one of the wallet's.        *)
(*                                                                         *)
(* Every read of the chain is a step of its own, so rounds open, settle,   *)
(* are claimed, cancelled and closed in the middle of a request.  One      *)
(* wallet asks; "won" and "owed" are the rounds it won and the cancelled   *)
(* ones that owe it a refund, "degen" one it won and asked a token for.    *)
(***************************************************************************)
EXTENDS Naturals, SequencesExt

CONSTANTS
    Requests,       \* requests served at the same time
    N,              \* rounds are numbered 1..N
    Outcomes,       \* what may become of a finished round (bound of the model)
    Endpoints,      \* endpoints asked in a run
    Queries,        \* roundId parameters of the requests, 0 for none (bound of the model)
    BATCH,          \* ROUND_SCAN_BATCH (20)
    MAX_SCAN,       \* ROUND_SCAN_MAX (200)
    STREAK,         \* ROUND_SCAN_NULL_STREAK_LIMIT (20)
    LOOKBACK,       \* ELIGIBILITY_LOOKBACK_ROUNDS (300)
    TTL,            \* CURRENT_ROUND_CACHE_TTL_MS (5 s)
    DURATION,       \* ticks a round stays open at least
    MAXT            \* last tick of the clock (bound of the model)

VARIABLES
    chain,      \* status of every round account
    opened,     \* when a round opened
    left,       \* when a round stopped being open, 0 before
    now,
    cache,      \* currentRoundCache; 0 is undefined
    req         \* the requests

vars == <<chain, opened, left, now, cache, req>>

Rounds == 1..N
Settled == {"won", "degen", "lost"}

\* An account that was never made or was closed is null.
Null(i) == i > N \/ chain[i] \in {"none", "gone"}

isJoinableRoundStatus(st) == st = "open"

isActiveRoundStatus(st) == st \in {"open", "locked"} \cup Settled

Idle == [pc |-> "idle", ep |-> "round", q |-> 0, mode |-> "active", asked |-> 0, was |-> {},
         from |-> 0, base |-> 0, scan |-> <<>>, latest |-> 0, ids |-> <<>>,
         roundId |-> 0, found |-> 0, status |-> 0, cached |-> FALSE, bad |-> FALSE]

Init ==
    /\ chain = [i \in Rounds |-> "none"]
    /\ opened = [i \in Rounds |-> 0] /\ left = [i \in Rounds |-> 0]
    /\ now = 1
    /\ cache = [ts |-> 0, active |-> 0, joinable |-> 0]
    /\ req = [r \in Requests |-> Idle]

-----------------------------------------------------------------------------
(* The chain and the clock. *)

Tick == now < MAXT /\ now' = now + 1 /\ UNCHANGED <<chain, opened, left, cache, req>>

\* The next round opens when no round is running.
Open(i) ==
    /\ chain[i] = "none"
    /\ \A j \in Rounds : chain[j] \notin {"open", "locked"} /\ (j < i => chain[j] # "none")
    /\ chain' = [chain EXCEPT ![i] = "open"]
    /\ opened' = [opened EXCEPT ![i] = now]
    /\ UNCHANGED <<left, now, cache, req>>

Lock(i) ==
    /\ chain[i] = "open" /\ now >= opened[i] + DURATION
    /\ chain' = [chain EXCEPT ![i] = "locked"]
    /\ left' = [left EXCEPT ![i] = now]
    /\ UNCHANGED <<opened, now, cache, req>>

\* A locked round is drawn or cancelled; a settled one is claimed, in USDC or as a
\* token; a finished one is closed.
Becomes(st) ==
    CASE st = "locked" -> {"won", "lost", "cancelled", "owed"}
      [] st = "won" -> {"degen", "claimed"}
      [] st \in {"degen", "lost"} -> {"claimed"}
      [] st \in {"claimed", "cancelled", "owed"} -> {"gone"}
      [] OTHER -> {}

Finish(i) ==
    \E st \in Becomes(chain[i]) \cap Outcomes :
        /\ chain' = [chain EXCEPT ![i] = st]
        /\ UNCHANGED <<opened, left, now, cache, req>>

-----------------------------------------------------------------------------
(* scanRoundIds: the cached round of the mode if it is young enough, else  *)
(* batches from two below the last known round.                            *)

Cached(mode) == IF mode = "joinable" THEN cache.joinable ELSE cache.active

CacheHit(mode) == now - cache.ts < TTL /\ Cached(mode) > 0

Seed(mode) ==
    LET other == IF mode = "joinable" THEN cache.active ELSE cache.joinable
    IN  IF Cached(mode) > 0 THEN Cached(mode) ELSE IF other > 0 THEN other ELSE 1

ScanStart(mode) == IF Seed(mode) > 3 THEN Seed(mode) - 2 ELSE 1

NoScan == [maxExisting |-> 0, active |-> 0, joinable |-> 0, nulls |-> 0, over |-> FALSE]

\* One account of a batch.
SeeRound(s, id) ==
    IF s.over THEN s
    ELSE IF Null(id)
    THEN [s EXCEPT !.nulls = @ + 1, !.over = s.maxExisting > 0 /\ s.nulls + 1 >= STREAK]
    ELSE [s EXCEPT !.nulls = 0, !.maxExisting = id,
                   !.active = IF isActiveRoundStatus(chain[id]) THEN id ELSE @,
                   !.joinable = IF isJoinableRoundStatus(chain[id]) THEN id ELSE @]

SeeBatch(s, base) ==
    FoldLeft(LAMBDA acc, k : SeeRound(acc, base + k - 1), s, [k \in 1..BATCH |-> k])

\* The entry a scan leaves, dated when the scan began.
CacheOf(s, started) ==
    [ts |-> started, active |-> IF s.active > 0 THEN s.active ELSE Max({1, s.maxExisting}),
     joinable |-> s.joinable]

-----------------------------------------------------------------------------
(* What an endpoint does with the round it was given.                      *)

Looks(ep) == ep \in {"claim", "claim-degen", "open-degen", "claim-refund"}
Fetches(ep) == ep \in {"round", "join"}
Reports(ep) == ep \in {"claim", "claim-degen", "claim-refund"}

\* The answer, without the local variables of the handler.
Reply(rq, status, id, found) ==
    [Idle EXCEPT !.pc = "done", !.ep = rq.ep, !.q = rq.q, !.mode = rq.mode, !.asked = rq.asked,
                 !.was = rq.was, !.cached = rq.cached, !.bad = rq.bad,
                 !.status = status, !.roundId = id, !.found = found]

\* serializeEligibilityError: the metadata of the claims is sent whatever was found; the
\* other endpoints pass the error on.
NotFound(rq) == Reply(rq, IF Reports(rq.ep) THEN 200 ELSE 404, rq.q, 0)

\* The scan gave id, or nothing.
Resolved(rq, id) ==
    IF id = 0 THEN NotFound(rq)
    ELSE IF Looks(rq.ep)
    THEN [rq EXCEPT !.pc = "look", !.latest = id, !.base = id, !.from = 0, !.scan = <<>>]
    ELSE IF Fetches(rq.ep) THEN [Reply(rq, 0, id, 0) EXCEPT !.pc = "fetch"]
    ELSE Reply(rq, IF rq.bad THEN 400 ELSE 200, id, 0)

\* resolveRoundId and getLatestKnownRoundId
Scan(r, rq, mode) ==
    IF CacheHit(mode)
    THEN req' = [req EXCEPT ![r] = Resolved([rq EXCEPT !.mode = mode, !.cached = TRUE],
                                            Cached(mode))]
    ELSE req' = [req EXCEPT ![r] = [rq EXCEPT !.pc = "scan", !.mode = mode,
                                        !.from = ScanStart(mode), !.base = ScanStart(mode),
                                        !.scan = NoScan]]

ScanBatch(r) ==
    LET rq == req[r]
        s == SeeBatch(rq.scan, rq.base)
        last == s.over \/ rq.base + BATCH > rq.from + MAX_SCAN
        entry == CacheOf(s, rq.asked)
    IN  /\ rq.pc = "scan"
        /\ IF last
           THEN /\ cache' = entry
                /\ req' = [req EXCEPT ![r] =
                       Resolved([rq EXCEPT !.scan = s],
                                IF rq.mode = "joinable" THEN entry.joinable ELSE entry.active)]
           ELSE /\ req' = [req EXCEPT ![r].scan = s, ![r].base = rq.base + BATCH]
                /\ UNCHANGED cache
        /\ UNCHANGED <<chain, opened, left, now>>

\* descendingBatches: the ids of the next batch, down to the first one looked at
MinRound(latest) == IF latest > LOOKBACK THEN latest - LOOKBACK ELSE 1

LookIds(rq) ==
    [k \in 1..(IF rq.base - BATCH >= MinRound(rq.latest) THEN BATCH
               ELSE rq.base + 1 - MinRound(rq.latest)) |-> rq.base - k + 1]

\* The first of ids that has the property, as the loops return it.
FirstOf(ids, P(_)) ==
    LET hits == SelectSeq(ids, P) IN IF hits = <<>> THEN 0 ELSE Head(hits)

LookNext(rq) ==
    IF rq.base - BATCH < MinRound(rq.latest) THEN NotFound(rq)
    ELSE [rq EXCEPT !.pc = "look", !.base = @ - BATCH]

Found(rq, id) == Reply(rq, 200, IF rq.q > 0 THEN rq.q ELSE id, id)

\* findLatestClaimableRoundId: a settled round of the wallet, whatever its degen mode
LookClaimable(r) ==
    LET rq == req[r]
        id == FirstOf(LookIds(rq), LAMBDA i : ~Null(i) /\ chain[i] \in {"won", "degen"})
    IN  /\ rq.pc = "look" /\ rq.ep # "claim-refund"
        /\ req' = [req EXCEPT ![r] = IF id > 0 THEN Found(rq, id) ELSE LookNext(rq)]
        /\ UNCHANGED <<chain, opened, left, now, cache>>

\* findLatestRefundableRoundId reads the rounds of a batch, and then the wallet's records
\* in those that are cancelled.
LookCancelled(r) ==
    LET rq == req[r]
        ids == SelectSeq(LookIds(rq), LAMBDA i : ~Null(i) /\ chain[i] \in {"cancelled", "owed"})
    IN  /\ rq.pc = "look" /\ rq.ep = "claim-refund"
        /\ req' = [req EXCEPT ![r] = IF ids = <<>> THEN LookNext(rq)
                                     ELSE [rq EXCEPT !.pc = "records", !.ids = ids]]
        /\ UNCHANGED <<chain, opened, left, now, cache>>

LookRefundable(r) ==
    LET rq == req[r]
        id == FirstOf(rq.ids, LAMBDA i : chain[i] = "owed")
        rest == [rq EXCEPT !.ids = <<>>]
    IN  /\ rq.pc = "records"
        /\ req' = [req EXCEPT ![r] = IF id > 0 THEN Found(rest, id) ELSE LookNext(rest)]
        /\ UNCHANGED <<chain, opened, left, now, cache>>

-----------------------------------------------------------------------------
(* The endpoints.  q: the roundId of the query, 0 when there is none.      *)

Begin(r, ep, q) ==
    /\ req[r].pc = "idle" /\ ep \in Endpoints
    /\ UNCHANGED <<chain, opened, left, now, cache>>

\* The status an endpoint wants a round to have.  was remembers the rounds that had it when
\* the request came.
Wanted(ep) ==
    CASE ep \in {"claim", "claim-degen", "open-degen"} -> "won"
      [] ep = "claim-refund" -> "owed"
      [] OTHER -> "open"

Asked(ep, q) ==
    [Idle EXCEPT !.ep = ep, !.q = q, !.asked = now,
                 !.was = {i \in Rounds : chain[i] = Wanted(ep)}]

Goto(r, rq) == req' = [req EXCEPT ![r] = rq]

\* GET /round: an active round, whose account is then read
RoundEndpoint(r, q) ==
    /\ Begin(r, "round", q)
    /\ LET rq == Asked("round", q)
       IN  IF q > 0 THEN Goto(r, [rq EXCEPT !.pc = "fetch", !.roundId = q])
           ELSE Scan(r, rq, "active")

\* GET /join: links for a joinable round, and what its account says
JoinEndpoint(r, q) ==
    /\ Begin(r, "join", q)
    /\ LET rq == Asked("join", q)
       IN  IF q > 0 THEN Goto(r, [rq EXCEPT !.pc = "fetch", !.roundId = q])
           ELSE Scan(r, rq, "joinable")

\* GET /join-batch: links for a joinable round
JoinBatchEndpoint(r, q) ==
    /\ Begin(r, "join-batch", q)
    /\ LET rq == Asked("join-batch", q)
       IN  IF q > 0 THEN Goto(r, Resolved(rq, q)) ELSE Scan(r, rq, "joinable")

\* parseBatchLegs: no legs, up to five of them with a mint and an amount, or an error
LegsOk(legs) == legs # "invalid"

\* POST /join-batch: a link into the application; the legs are looked at last
OpenBatch(r, q) ==
    \E legs \in {"none", "valid", "invalid"} :
        /\ Begin(r, "open-batch", q)
        /\ LET rq == [Asked("open-batch", q) EXCEPT !.bad = ~LegsOk(legs)]
           IN  IF q > 0 THEN Goto(r, Resolved(rq, q)) ELSE Scan(r, rq, "joinable")

\* GET /claim with the wallet's account: which of its prizes can be claimed
ClaimEndpoint(r, q) == Begin(r, "claim", q) /\ Scan(r, Asked("claim", q), "active")

\* GET /claim-degen with the wallet's account
ClaimDegenEndpoint(r, q) ==
    Begin(r, "claim-degen", q) /\ Scan(r, Asked("claim-degen", q), "active")

\* POST /claim-degen: a link into the application for a prize of the wallet
OpenDegen(r, q) ==
    /\ Begin(r, "open-degen", q)
    /\ LET rq == Asked("open-degen", q)
       IN  IF q > 0 THEN Goto(r, Reply(rq, 200, q, 0))
           ELSE Scan(r, rq, "active")

\* GET /claim-refund with the wallet's account
ClaimRefundEndpoint(r, q) ==
    Begin(r, "claim-refund", q) /\ Scan(r, Asked("claim-refund", q), "active")

\* fetchParsedRound: /round answers 404 without an account, /join leaves it out.
Fetch(r) ==
    LET rq == req[r]
    IN  /\ rq.pc = "fetch"
        /\ Goto(r, Reply(rq, IF rq.ep = "round" /\ Null(rq.roundId) THEN 404 ELSE 200,
                         rq.roundId, 0))
        /\ UNCHANGED <<chain, opened, left, now, cache>>

\* The caller has the answer.
Answered(r) ==
    /\ req[r].pc = "done"
    /\ Goto(r, Idle)
    /\ UNCHANGED <<chain, opened, left, now, cache>>

Ask(r, q) ==
    \/ RoundEndpoint(r, q) \/ JoinEndpoint(r, q) \/ JoinBatchEndpoint(r, q) \/ OpenBatch(r, q)
    \/ ClaimEndpoint(r, q) \/ ClaimDegenEndpoint(r, q) \/ OpenDegen(r, q)
    \/ ClaimRefundEndpoint(r, q)

Serve(r) ==
    \/ ScanBatch(r) \/ LookClaimable(r) \/ LookCancelled(r) \/ LookRefundable(r)
    \/ Fetch(r) \/ Answered(r)

Next ==
    \/ Tick
    \/ \E i \in Rounds : Open(i) \/ Lock(i) \/ Finish(i)
    \/ \E r \in Requests : Serve(r) \/ \E q \in Queries : Ask(r, q)

Spec == Init /\ [][Next]_vars
-----------------------------------------------------------------------------
(* Properties. *)

Done(r) == req[r].pc = "done"
Joins(r) == req[r].mode = "joinable" /\ req[r].q = 0

\* A round chosen for joining was open less than the cache's lifetime before the request
\* came, however long the scan that chose it took and whoever's scan it was.
JoinableIsFresh ==
    \A r \in Requests :
        LET id == req[r].roundId
        IN  Done(r) /\ Joins(r) /\ id > 0 =>
                /\ id \in Rounds /\ chain[id] # "none"
                /\ left[id] = 0 \/ left[id] + TTL > req[r].asked

\* A scan for a round to join that was not answered from the cache misses no round that
\* was open from its beginning to its end.
OpenRoundFound ==
    \A r \in Requests : Done(r) /\ Joins(r) /\ ~req[r].cached =>
        \A i \in req[r].was : chain[i] = "open" => req[r].roundId = i

\* A wallet that is told it has nothing to claim had no prize waiting for it all through
\* the request.
PrizeFound ==
    \A r \in Requests : Done(r) /\ req[r].ep \in {"claim", "claim-degen"} /\ req[r].found = 0 =>
        \A i \in req[r].was : chain[i] # "won"

=============================================================================

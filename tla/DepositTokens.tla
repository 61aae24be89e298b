--------------------------- MODULE DepositTokens ---------------------------
(***************************************************************************)
(* hooks/useJackpot.ts: which token each participant is shown to have      *)
(* deposited. The cache of the followed round is an object behind a ref:   *)
(* polls replace it when the round changes, resolveDepositTokens fills it  *)
(* from the round's transactions, and depositMany adds the user's own      *)
(* tokens; each of them goes on after its awaits with what it read before. *)
(***************************************************************************)
EXTENDS Integers, FiniteSets, FiniteSetsExt

CONSTANTS
    Users, Me,       \* the players, and the one whose browser this is
    Tokens,          \* the mints other than USDC
    ROUNDS,          \* rounds 1..ROUNDS
    Deposits,        \* deposits that may happen: a round, a user and a mint each
    LIMIT,           \* signatures one request returns
    POLLS,           \* polls that may be under way at once
    FAILS            \* bound on requests that fail

\* Cache objects: one behind the ref and one for every activity that may still hold one.
Objects == 1..(POLLS + 3)

VARIABLES
    roundId,     \* the round followed
    onChain,     \* the deposits made
    ref,         \* depositTokensCacheRef.current
    cache,       \* the cache objects
    polls,       \* calls of processRoundData under way
    resolves,    \* calls of resolveDepositTokens under way
    own,         \* the end of a depositMany under way
    failed       \* requests that failed so far

vars == <<roundId, onChain, ref, cache, polls, resolves, own, failed>>

EmptyCache(r) == [roundId |-> r, map |-> [u \in Users |-> {}], processed |-> {},
                  resolving |-> FALSE, cooling |-> FALSE]

NoOwn == [at |-> "none", object |-> 1, mint |-> "usdc"]

Init ==
    /\ roundId = 1 /\ onChain = {} /\ ref = 1
    /\ cache = [o \in Objects |-> EmptyCache(0)]
    /\ polls = {} /\ resolves = {} /\ own = NoOwn /\ failed = 0

DepositsIn(r) == {d \in onChain : d.round = r}
Participants(r) == {d.user : d \in DepositsIn(r)}

\* An object that nothing refers to any more.
FreshObject ==
    CHOOSE o \in Objects : o # ref /\ o \notin {c.object : c \in resolves}
                           /\ ~(own.at # "none" /\ own.object = o)

\* The cache is replaced when it belongs to another round.
ResetFor(r) ==
    IF cache[ref].roundId = r THEN UNCHANGED <<ref, cache>>
    ELSE /\ ref' = FreshObject
         /\ cache' = [cache EXCEPT ![FreshObject] = EmptyCache(r)]

-----------------------------------------------------------------------------
(* processRoundData and resolveDepositTokens. *)

\* The data of the followed round arrive: the cache is made that round's, and the
\* participants' records are requested.
ProcessRoundData ==
    /\ Cardinality(polls) < POLLS
    /\ ResetFor(roundId)
    /\ polls' = polls \cup {[round |-> roundId, parts |-> Participants(roundId)]}
    /\ UNCHANGED <<roundId, onChain, resolves, own, failed>>

\* Whether resolveDepositTokens goes past its early returns for these participants.
ShouldResolve(parts) ==
    /\ ~cache[ref].resolving
    /\ ~cache[ref].cooling
    /\ \E u \in parts : cache[ref].map[u] = {}

\* The call that a poll makes without waiting: it works on the object behind the ref at
\* that time, and first asks for the signatures of the poll's round.
ResolveDepositTokens(p) ==
    IF p.parts # {} /\ ShouldResolve(p.parts)
    THEN /\ cache' = [cache EXCEPT ![ref].resolving = TRUE, ![ref].cooling = TRUE]
         /\ resolves' = resolves \cup {[object |-> ref, round |-> p.round, parts |-> p.parts,
                                        at |-> "signatures", sigs |-> {}, found |-> {}]}
    ELSE UNCHANGED <<cache, resolves>>

\* The participants' records have arrived; with participants, their tokens are resolved.
ShowParticipants(p) ==
    /\ p \in polls
    /\ polls' = polls \ {p}
    /\ ResolveDepositTokens(p)
    /\ UNCHANGED <<roundId, onChain, ref, own, failed>>

\* The flag of the cache is taken back when a call ends.
Done(c) == cache' = [cache EXCEPT ![c.object].resolving = FALSE]

\* The newest signatures arrive, and those not processed before are looked up.
GotSignatures(c) ==
    /\ c \in resolves /\ c.at = "signatures"
    /\ \E newest \in SUBSET DepositsIn(c.round) :
           /\ Cardinality(newest) = IF Cardinality(DepositsIn(c.round)) < LIMIT
                                    THEN Cardinality(DepositsIn(c.round)) ELSE LIMIT
           /\ LET newSigs == newest \ cache[c.object].processed
              IN  IF newSigs = {}
                  THEN Done(c) /\ resolves' = resolves \ {c}
                  ELSE /\ resolves' = (resolves \ {c}) \cup
                                          {[c EXCEPT !.at = "transactions", !.sigs = newSigs]}
                       /\ UNCHANGED cache
    /\ UNCHANGED <<roundId, onChain, ref, polls, own, failed>>

\* The transactions arrive, some requests perhaps failing. Every signature counts as
\* processed; the mints come from the answers whose signer is a participant.
GotTransactions(c) ==
    /\ c \in resolves /\ c.at = "transactions"
    /\ \E missed \in SUBSET c.sigs :
           LET found == {s \in c.sigs \ missed : s.user \in c.parts /\ s.mint \in Tokens}
           IN  /\ failed + Cardinality(missed) <= FAILS
               /\ failed' = failed + Cardinality(missed)
               /\ cache' = [cache EXCEPT
                      ![c.object].processed = @ \cup c.sigs,
                      ![c.object].resolving = IF found = {} THEN FALSE ELSE @]
               /\ resolves' = (resolves \ {c}) \cup
                      (IF found = {} THEN {} ELSE {[c EXCEPT !.at = "metadata", !.found = found]})
    /\ UNCHANGED <<roundId, onChain, ref, polls, own>>

\* Mutant of GotMetadata: the tokens found are the user's own.
GotMetadataMine(c) ==
    /\ c \in resolves /\ c.at = "metadata"
    /\ cache' = [cache EXCEPT ![c.object].map[Me] = @ \cup {s.mint : s \in c.found},
                             ![c.object].resolving = FALSE]
    /\ resolves' = resolves \ {c}
    /\ UNCHANGED <<roundId, onChain, ref, polls, own, failed>>

\* The names of the mints arrive and are merged into the cache.
GotMetadata(c) ==
    /\ c \in resolves /\ c.at = "metadata"
    /\ cache' = [cache EXCEPT
           ![c.object].map = [u \in Users |-> @[u] \cup {s.mint : s \in {f \in c.found : f.user = u}}],
           ![c.object].resolving = FALSE]
    /\ resolves' = resolves \ {c}
    /\ UNCHANGED <<roundId, onChain, ref, polls, own, failed>>

\* A request for the signatures or for the names fails: the call ends, and what it has
\* marked as processed stays so.
ResolveFails(c) ==
    /\ c \in resolves /\ c.at \in {"signatures", "metadata"}
    /\ failed < FAILS /\ failed' = failed + 1
    /\ Done(c)
    /\ resolves' = resolves \ {c}
    /\ UNCHANGED <<roundId, onChain, ref, polls, own>>

\* RESOLVE_COOLDOWN_MS have passed.
CooledDown(o) ==
    /\ cache[o].cooling
    /\ cache' = [cache EXCEPT ![o].cooling = FALSE]
    /\ UNCHANGED <<roundId, onChain, ref, polls, resolves, own, failed>>

-----------------------------------------------------------------------------
(* depositMany, and the rest of the world. *)

\* The deposit is sent; a cache of another round is replaced, but the object that was
\* there before is the one that will be written.
OwnDeposit(d) ==
    /\ own.at = "none" /\ d.user = Me /\ d \notin onChain /\ d.round = roundId
    /\ onChain' = onChain \cup {d}
    /\ ResetFor(roundId)
    /\ own' = IF d.mint \in Tokens THEN [at |-> "metadata", object |-> ref, mint |-> d.mint] ELSE own
    /\ UNCHANGED <<roundId, polls, resolves, failed>>

\* The name of the user's token arrives, or the request fails and a later poll is left
\* to find it.
OwnToken ==
    /\ own.at = "metadata"
    /\ own' = NoOwn
    /\ \/ /\ cache' = [cache EXCEPT ![own.object].map[Me] = @ \cup {own.mint}]
          /\ UNCHANGED failed
       \/ /\ failed < FAILS /\ failed' = failed + 1
          /\ UNCHANGED cache
    /\ UNCHANGED <<roundId, onChain, ref, polls, resolves>>

\* Another player deposits.
OtherDeposit(d) ==
    /\ d.user # Me /\ d \notin onChain /\ d.round = roundId
    /\ onChain' = onChain \cup {d}
    /\ UNCHANGED <<roundId, ref, cache, polls, resolves, own, failed>>

\* The client turns to the next round; calls under way keep the old one.
NextRound ==
    /\ roundId < ROUNDS
    /\ roundId' = roundId + 1
    /\ UNCHANGED <<onChain, ref, cache, polls, resolves, own, failed>>

\* The resolver that works on a cache goes on.
ResolveStep(o) ==
    \E c \in resolves :
        c.object = o /\ (GotSignatures(c) \/ GotTransactions(c) \/ GotMetadata(c))

Next ==
    \/ ProcessRoundData
    \/ \E p \in polls : ShowParticipants(p)
    \/ \E o \in Objects : ResolveStep(o)
    \/ \E c \in resolves : ResolveFails(c)
    \/ \E o \in Objects : CooledDown(o)
    \/ \E d \in Deposits : OwnDeposit(d) \/ OtherDeposit(d)
    \/ OwnToken \/ NextRound

Spec == Init /\ [][Next]_vars

-----------------------------------------------------------------------------
(* Properties. *)

\* A cache has at most one resolveDepositTokens at work on it, whatever polls overlap
\* (useJackpot.ts:363).
OneResolverAtATime ==
    /\ \A c, d \in resolves : c.object = d.object => c = d
    /\ \A c \in resolves : cache[c.object].resolving

\* A user is shown only with tokens that user has deposited, in this round or before
\* (useJackpot.ts:396, 411).
EveryTokenWasDeposited ==
    \A o \in Objects, u \in Users : \A t \in cache[o].map[u] :
        \E r \in 1..ROUNDS : [round |-> r, user |-> u, mint |-> t] \in onChain

\* Whatever fails, the cache in use does not stay marked as being resolved, which would keep
\* every later poll from resolving (useJackpot.ts:374, 461).
ResolverLetsGo == []<>(~cache[ref].resolving)

=============================================================================

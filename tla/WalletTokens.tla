---------------------------- MODULE WalletTokens ----------------------------
(***************************************************************************)
(* useWalletTokens: the tokens of the connected wallet, read in parts when *)
(* the wallet changes or a caller asks, put together by mint and shown.    *)
(* Names and pictures come from a list that all reads share; they change   *)
(* nothing that is modelled but when a read goes on.                       *)
(***************************************************************************)
EXTENDS Naturals, FiniteSets, FiniteSetsExt

CONSTANTS
    Wallets, None,
    Amounts,    \* what an account may hold, in the smallest units
    GRAIN,      \* smallest units of SOL in a millionth
    FETCHES,    \* reads of a behaviour (bound)
    MOVES,      \* deposits (bound)
    FAULTS      \* failing calls (bound)

VARIABLES
    wallet,     \* the connected wallet or None
    hold,       \* wallet |-> account |-> smallest units
    tokens,     \* mint |-> millionths, shown
    shown,      \* of which wallet, and whether nothing failed or moved since its read began
    loading,
    fetches,    \* reads under way
    started,    \* reads so far
    jup,        \* fetchingJupiterTokens: "none", "pending", "cached" or "failed"
    moves, faults

vars == <<wallet, hold, tokens, shown, loading, fetches, started, jup, moves, faults>>

\* The wallet's SOL, and its token accounts: two of one mint, one of the newer program.
Accounts == {"sol", "wsol", "tok", "tok2", "t22"}

\* The three calls made together, and the accounts each returns.
Part == [sol |-> {"sol"}, v1 |-> {"wsol", "tok", "tok2"}, v2022 |-> {"t22"}]

Parts == DOMAIN Part

\* byMintRaw's key for an account: SOL has one of its own.
Key(a) == IF a = "tok2" THEN "tok" ELSE a

Keys == {Key(a) : a \in Accounts}

\* The mint a key is shown under: WSOL stands for SOL.
Mint(k) == IF k = "sol" THEN "wsol" ELSE k

Mints == {Mint(k) : k \in Keys}

\* Whole millionths: SOL has nine decimals, the other tokens six.
ToUiAmount(k, raw) == IF Mint(k) = "wsol" THEN raw \div GRAIN ELSE raw

\* The amounts of the accounts are added by key.
ByMintRaw(raw) == [k \in Keys |-> MapThenSumSet(LAMBDA a : raw[a], {a \in Accounts : Key(a) = k})]

\* finalTokens: SOL and WSOL, each turned to millionths, are one token.
FinalTokens(raw) ==
    [m \in Mints |-> MapThenSumSet(LAMBDA k : ToUiAmount(k, ByMintRaw(raw)[k]), {k \in Keys : Mint(k) = m})]

Nothing == [a \in Accounts |-> 0]

NoTokens == [m \in Mints |-> 0]

Init ==
    /\ wallet = None /\ tokens = NoTokens /\ shown = [of |-> None, exact |-> FALSE]
    /\ hold \in [Wallets -> {Nothing} \cup [Accounts -> Amounts]]
    /\ loading = FALSE /\ fetches = {} /\ started = 0 /\ jup = "none" /\ moves = 0 /\ faults = 0

Fault == faults < FAULTS /\ faults' = faults + 1

\* fetchTokens begins, beside the reads under way: the list of names is asked for once, and the three calls are made.
Begin(w, others) ==
    /\ started < FETCHES /\ started' = started + 1 /\ loading' = TRUE
    /\ fetches' = others \cup {[id |-> started, of |-> w, at |-> "read", todo |-> Parts,
                                raw |-> Nothing, exact |-> TRUE]}
    /\ jup' = IF jup = "none" THEN "pending" ELSE jup

\* The wallet is connected, changed or disconnected, and the effect calls fetchTokens.
ConnectWallet(w) ==
    /\ w # wallet /\ wallet' = w
    /\ IF w = None THEN /\ tokens' = NoTokens /\ shown' = [of |-> None, exact |-> FALSE]
                        /\ UNCHANGED <<loading, fetches, started, jup>>
       ELSE Begin(w, fetches) /\ UNCHANGED <<tokens, shown>>
    /\ UNCHANGED <<hold, moves, faults>>

\* A deposit empties an account, after which the page refetches.
DepositAndRefetch(a) ==
    /\ wallet # None /\ hold[wallet][a] > 0
    /\ moves < MOVES /\ moves' = moves + 1
    /\ hold' = [hold EXCEPT ![wallet][a] = 0]
    /\ Begin(wallet, {[f EXCEPT !.exact = @ /\ f.of # wallet] : f \in fetches})
    /\ shown' = [shown EXCEPT !.exact = @ /\ shown.of # wallet]
    /\ UNCHANGED <<wallet, tokens, faults>>

Moved(f, g) == fetches' = (fetches \ {f}) \cup {g}

\* One of the calls answers with the accounts as they are.
ReadPart(f, p) ==
    /\ f.at = "read" /\ p \in f.todo
    /\ Moved(f, [f EXCEPT !.todo = @ \ {p},
                          !.raw = [a \in Accounts |-> IF a \in Part[p] THEN hold[f.of][a] ELSE @[a]]])
    /\ UNCHANGED <<wallet, hold, tokens, shown, loading, started, jup, moves, faults>>

\* One of the calls fails, and counts as an answer without accounts.
ReadPartFails(f, p) ==
    /\ f.at = "read" /\ p \in f.todo /\ Fault
    /\ Moved(f, [f EXCEPT !.todo = @ \ {p}, !.exact = FALSE])
    /\ UNCHANGED <<wallet, hold, tokens, shown, loading, started, jup, moves>>

\* setTokens and the finally block.
SetTokens(f, t) ==
    /\ fetches' = fetches \ {f} /\ loading' = FALSE
    /\ tokens' = t /\ shown' = [of |-> f.of, exact |-> f.exact]

\* All have answered: an empty wallet is shown at once.
Aggregate(f) ==
    /\ f.at = "read" /\ f.todo = {}
    /\ IF ByMintRaw(f.raw) = [k \in Keys |-> 0] THEN SetTokens(f, NoTokens)
       ELSE Moved(f, [f EXCEPT !.at = "mints"]) /\ UNCHANGED <<tokens, shown, loading>>
    /\ UNCHANGED <<wallet, hold, started, jup, moves, faults>>

\* The mints are read for their decimals.
ReadMints(f) ==
    /\ f.at = "mints" /\ Moved(f, [f EXCEPT !.at = "meta"])
    /\ UNCHANGED <<wallet, hold, tokens, shown, loading, started, jup, moves, faults>>

\* That fails, and the tokens shown stay.
ReadMintsFails(f) ==
    /\ f.at = "mints" /\ Fault
    /\ fetches' = fetches \ {f} /\ loading' = FALSE
    /\ UNCHANGED <<wallet, hold, tokens, shown, started, jup, moves>>

\* The list of names arrives, or fails for good: the promise is kept.
JupiterAnswers ==
    /\ jup = "pending" /\ jup' = "cached"
    /\ UNCHANGED <<wallet, hold, tokens, shown, loading, fetches, started, moves, faults>>

JupiterFails ==
    /\ jup = "pending" /\ Fault /\ jup' = "failed"
    /\ UNCHANGED <<wallet, hold, tokens, shown, loading, fetches, started, moves>>

\* getJupiterTokens has answered, with the list or without.
JupiterTokensSettled == jup \in {"cached", "failed"}

\* The names are there, those the list lacks looked up; then the prices, if they come.
ReadMeta(f) ==
    /\ f.at = "meta" /\ JupiterTokensSettled /\ Moved(f, [f EXCEPT !.at = "prices"])
    /\ UNCHANGED <<wallet, hold, tokens, shown, loading, started, jup, moves, faults>>

Finish(f) ==
    /\ f.at = "prices" /\ SetTokens(f, FinalTokens(f.raw))
    /\ UNCHANGED <<wallet, hold, started, jup, moves, faults>>

FetchStep(f) == Aggregate(f) \/ ReadMints(f) \/ ReadMeta(f) \/ Finish(f) \/ \E p \in Parts : ReadPart(f, p)

\* A read goes on.
ReadGoesOn(n) == \E f \in fetches : f.id = n /\ FetchStep(f)

Next ==
    \/ \E w \in Wallets \cup {None} : ConnectWallet(w)
    \/ \E a \in Accounts : DepositAndRefetch(a)
    \/ \E f \in fetches : FetchStep(f) \/ ReadMintsFails(f) \/ \E p \in Parts : ReadPartFails(f, p)
    \/ JupiterAnswers \/ JupiterFails

Spec == Init /\ [][Next]_vars

Held(w, m) == MapThenSumSet(LAMBDA a : hold[w][a], {a \in Accounts : Mint(Key(a)) = m})

\* A read that nothing disturbed shows what the wallet holds, whether names and prices came
\* or not: never more, and less by under a millionth for each of SOL and WSOL only.
UndisturbedIsExact ==
    shown.exact =>
        \A m \in Mints :
            IF m = "wsol" THEN /\ tokens[m] * GRAIN <= Held(shown.of, m)
                               /\ Held(shown.of, m) <= tokens[m] * GRAIN + 2 * (GRAIN - 1)
            ELSE tokens[m] = Held(shown.of, m)

\* The list does not stay at loading, although reads may wait for a shared list that fails.
LoadingEnds == loading ~> ~loading

=============================================================================

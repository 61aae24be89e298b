---------------------------- MODULE DepositForm ----------------------------
(***************************************************************************)
(* components/DepositPanel.tsx: the form a deposit is typed into, with the *)
(* quotes it fetches some time after the last change, and the batch of     *)
(* legs put together from it; and what useJackpot's depositMany takes of   *)
(* each leg.  Answers to quotes come late, in any order, or not at all.    *)
(***************************************************************************)
EXTENDS Naturals, Sequences, FiniteSets, SequencesExt

CONSTANTS
    Tokens,     \* mints other than USDC
    USDC, None,
    Amounts,    \* amounts that are typed
    Slippages,  \* slippage limits to choose from
    BALANCE,    \* of every mint
    PRICE,      \* of a token, in USDC
    MIN,        \* MIN_DEPOSIT_USDC
    MAXLEGS,    \* MAX_MULTI_DEPOSIT_LEGS, or 0 without onDepositMany
    MERGES,     \* additions to one leg (bound)
    FETCHES,    \* quotes under way at a time (bound)
    FAILS       \* quotes that fail (bound)

VARIABLES
    form,       \* mint, amount (0 is empty), inputMode and slippage
    due,        \* the debounce timer runs; its arguments are those of the form
    loading,    \* quoteLoading
    preview,    \* quotePreview
    fetches,    \* quotes under way
    batch,      \* batchLegs
    busy,       \* the loading prop: a deposit is being sent
    sent,       \* what the deposit takes: a leg and a swap each
    failed      \* quotes that failed so far

vars == <<form, due, loading, preview, fetches, batch, busy, sent, failed>>

\* Jupiter's answer to a request: ExactIn for an amount of the token, ExactOut for one of USDC.
Quote(f) ==
    IF f.mode = "token" THEN [mint |-> f.mint, in |-> f.amount, out |-> f.amount * PRICE]
    ELSE [mint |-> f.mint, in |-> (f.amount + PRICE - 1) \div PRICE, out |-> f.amount]

\* The effect starts a timer for such a form.
Quotable(f) == f.mint # USDC /\ f.amount > 0

Init ==
    /\ form = [mint |-> USDC, amount |-> 0, mode |-> "token", slip |-> CHOOSE s \in Slippages : TRUE]
    /\ due = FALSE /\ loading = FALSE /\ preview = None /\ fetches = {}
    /\ batch = <<>> /\ busy = FALSE /\ sent = {} /\ failed = 0

\* The form changes, and with it the effect: the timer starts anew or, without
\* anything to quote, is stopped and the preview removed.
Render(new, p) ==
    /\ form' = new
    /\ due' = IF new = form THEN due ELSE Quotable(new)
    /\ preview' = IF new # form /\ ~Quotable(new) THEN None ELSE p

\* The input field and the quick-fill buttons.
Type(a) ==
    /\ ~busy /\ Render([form EXCEPT !.amount = a], preview)
    /\ UNCHANGED <<loading, fetches, batch, busy, sent, failed>>

\* handleSelectToken.
HandleSelectToken(m) ==
    /\ Render([form EXCEPT !.mint = m, !.amount = 0, !.mode = "token"], None)
    /\ UNCHANGED <<loading, fetches, batch, busy, sent, failed>>

\* toggleInputMode.
ToggleInputMode ==
    /\ form.mint # USDC
    /\ Render([form EXCEPT !.mode = IF @ = "token" THEN "usdc" ELSE "token", !.amount = 0], None)
    /\ UNCHANGED <<loading, fetches, batch, busy, sent, failed>>

\* The slippage buttons, shown with a preview.
SetSlippage(s) ==
    /\ preview # None /\ ~loading /\ Quotable(form)
    /\ Render([form EXCEPT !.slip = s], preview)
    /\ UNCHANGED <<loading, fetches, batch, busy, sent, failed>>

\* The timer fires and fetchQuote asks Jupiter.
FetchQuote ==
    /\ due /\ Cardinality(fetches) < FETCHES
    /\ due' = FALSE /\ loading' = TRUE
    /\ fetches' = fetches \cup {form}
    /\ UNCHANGED <<form, preview, batch, busy, sent, failed>>

\* Mutant of GotQuote: the flag is reset where the quote fails only.
GotQuoteLoading(f) ==
    /\ fetches' = fetches \ {f}
    /\ preview' = Quote(f)
    /\ UNCHANGED <<form, due, loading, batch, busy, sent, failed>>

\* An answer is shown, whatever the form says by now.
GotQuote(f) ==
    /\ fetches' = fetches \ {f}
    /\ preview' = Quote(f) /\ loading' = FALSE
    /\ UNCHANGED <<form, due, batch, busy, sent, failed>>

\* A quote fails or times out.
QuoteFails(f) ==
    /\ failed < FAILS /\ failed' = failed + 1
    /\ fetches' = fetches \ {f}
    /\ preview' = None /\ loading' = FALSE
    /\ UNCHANGED <<form, due, batch, busy, sent>>

BelowMinimum ==
    IF form.mint = USDC THEN form.amount < MIN ELSE preview # None /\ preview.out < MIN

\* exceedsBalance; in USDC mode the cost is only known from the preview.
ExceedsBalance ==
    IF form.mint = USDC \/ form.mode = "token" THEN form.amount > BALANCE
    ELSE preview = None \/ preview.in > BALANCE

DepositDisabled == busy \/ form.amount = 0 \/ BelowMinimum \/ ExceedsBalance

QuoteMatches(leg) == leg.mint = USDC \/ leg.quote = None \/ leg.quote.mint = leg.mint

\* depositMany: a leg is swapped as its quote says, or as a new quote for its
\* amount does; a quote for another mint fails the deposit as a whole.
Takes(legs) ==
    {[leg |-> leg, mint |-> leg.mint,
      in |-> IF leg.mint = USDC \/ leg.quote = None THEN leg.amount ELSE leg.quote.in] :
        leg \in IF \A leg \in legs : QuoteMatches(leg) THEN legs ELSE {}}

\* handleDeposit, behind its button.
HandleDeposit ==
    /\ ~DepositDisabled /\ ~loading
    /\ busy' = TRUE
    /\ sent' = Takes({[mint |-> form.mint, amount |-> form.amount, quote |-> preview, mode |-> form.mode, times |-> 1]})
    /\ Render([form EXCEPT !.amount = 0], None)
    /\ UNCHANGED <<loading, fetches, batch, failed>>

InBatch(m) == \E i \in 1 .. Len(batch) : batch[i].mint = m

\* upsertBatchLeg: the amount is added to that of the mint's leg, whose quote is
\* replaced.  (No fields of the code: times counts the additions, mode is the
\* mode of the form.)
UpsertBatchLeg(leg) ==
    IF ~InBatch(leg.mint) THEN Append(batch, leg)
    ELSE [i \in 1 .. Len(batch) |->
            IF batch[i].mint # leg.mint THEN batch[i]
            ELSE [leg EXCEPT !.amount = @ + batch[i].amount, !.times = @ + batch[i].times,
                             !.quote = IF @ = None THEN batch[i].quote ELSE @]]

\* addToBatchDisabled.
AddDisabled ==
    \/ DepositDisabled \/ loading
    \/ Len(batch) >= MAXLEGS /\ ~InBatch(form.mint)
    \/ form.mint # USDC /\ preview = None

\* handleAddToBatch.  A leg holds an amount of its token.
HandleAddToBatch ==
    /\ ~AddDisabled /\ \A i \in 1 .. Len(batch) : batch[i].mint = form.mint => batch[i].times < MERGES
    /\ batch' = UpsertBatchLeg([mint |-> form.mint, quote |-> preview, mode |-> form.mode, times |-> 1,
                                amount |-> IF form.mode = "usdc" THEN preview.in ELSE form.amount])
    /\ Render([form EXCEPT !.amount = 0, !.mode = "token"], None)
    /\ UNCHANGED <<loading, fetches, busy, sent, failed>>

Without(m) == SelectSeq(batch, LAMBDA leg : leg.mint # m)

\* removeBatchLeg.
RemoveBatchLeg(m) ==
    /\ InBatch(m) /\ batch' = Without(m)
    /\ UNCHANGED <<form, due, loading, preview, fetches, busy, sent, failed>>

\* editBatchLeg: the leg goes back into the form.
EditBatchLeg(i) ==
    /\ batch' = Without(batch[i].mint)
    /\ Render([form EXCEPT !.mint = batch[i].mint, !.amount = batch[i].amount, !.mode = "token"], None)
    /\ UNCHANGED <<loading, fetches, busy, sent, failed>>

\* handleDepositBatch, behind a button that waits for the draft to be added.
HandleDepositBatch ==
    /\ ~busy /\ ~loading /\ batch # <<>> /\ form.amount = 0
    /\ busy' = TRUE /\ sent' = Takes(ToSet(batch)) /\ batch' = <<>>
    /\ Render(form, None)
    /\ UNCHANGED <<loading, fetches, failed>>

\* The deposit has come back.
DepositDone ==
    /\ busy /\ busy' = FALSE /\ sent' = {}
    /\ UNCHANGED <<form, due, loading, preview, fetches, batch, failed>>

Click ==
    \/ \E a \in Amounts \cup {0} : a # form.amount /\ Type(a)
    \/ \E m \in Tokens \cup {USDC} : HandleSelectToken(m) \/ RemoveBatchLeg(m)
    \/ ToggleInputMode
    \/ \E s \in Slippages \ {form.slip} : SetSlippage(s)
    \/ HandleDeposit \/ HandleAddToBatch \/ HandleDepositBatch
    \/ \E i \in 1 .. Len(batch) : EditBatchLeg(i)

\* A quote under way is answered.
QuoteAnswered == \E f \in fetches : GotQuote(f)

Next ==
    \/ Click \/ FetchQuote \/ DepositDone \/ QuoteAnswered
    \/ \E f \in fetches : QuoteFails(f)

Spec == Init /\ [][Next]_vars

\* A batch has at most MAX_MULTI_DEPOSIT_LEGS legs and one for each mint, so that
\* depositMany never refuses it for its size or for a mint twice.
BatchIsAccepted ==
    /\ Len(batch) <= MAXLEGS
    /\ \A i, j \in 1 .. Len(batch) : batch[i].mint = batch[j].mint => i = j

\* What a deposit swaps is the mint that was chosen, although the form sends along
\* whatever quote came last: depositMany refuses the others.
TakesChosenToken == \A t \in sent : t.mint = t.leg.mint

\* Nothing worth less than the minimum is sent, by the button or in a batch, as far
\* as the form knows what it is worth.
SentAboveMinimum ==
    \A t \in sent : IF t.leg.mint = USDC THEN t.leg.amount >= MIN
                    ELSE t.leg.quote # None => t.leg.quote.out >= MIN

\* An amount typed in USDC is never sent without the quote that says how many tokens
\* it is: depositMany would take it for an amount of tokens.
UsdcIsNotTakenForTokens == \A t \in sent : t.leg.quote = None => t.leg.mode = "token"

\* "Debounced quote fetch for non-USDC tokens": a form left alone gets a preview,
\* although slow quotes of earlier forms are under way.
QuoteComes ==
    []<>((form.mint # USDC /\ form.amount > 0) => preview # None) \/ []<><<form' # form>>_vars

\* quoteLoading, which blocks every button, ends.
LoadingEnds == loading ~> ~loading

=============================================================================

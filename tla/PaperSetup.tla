----------------------------- MODULE PaperSetup -----------------------------
(***************************************************************************)
(* From a market profile to a saved paper draft (src/src/deployments.ts,    *)
(* static-paper-setup-*.ts, rangekeeper-paper-setup-*.ts,                   *)
(* *-paper-draft-admission.ts, paper-setup-preflight.ts, and the draft      *)
(* methods of deployments/store.ts).  A browser asks for a review of a      *)
(* setup, and later posts it back under a request id of its own; the server *)
(* samples everything again at the reviewed source before it saves.         *)
(*                                                                          *)
(* A source is the time of a block and the fork it is on.  A draft's        *)
(* allocation is what its source sized, so it is named by the source, plus  *)
(* the native coin it sets aside for gas.                                   *)
(***************************************************************************)
EXTENDS Integers, Sequences, SequencesExt

CONSTANTS
    Browsers,       \* browser tabs; all post under the same request id
    Kind,           \* the strategy each sets up, "static" or "rangekeeper"
    Prices,         \* market gas prices
    MaxAge,         \* age of every reading an admission accepts
    CacheSize,      \* reviews a cache keeps
    MaxSetupTime, MaxSetupForks, MaxTargets, MaxVersions, MaxStops   \* bounds

VARIABLES
    setupNow, setupFork, marketGas,
    target,         \* indexer_pools.target_set_hash of the pool
    profile,        \* target the registered profile was verified with, 0: none
    version,        \* newest static gas rows of the candidate, 0: none
    cache,          \* reviews of this process, oldest first
    busy,           \* paperSetupBusy: a preflight of either strategy is running
    stops,          \* times the server was restarted
    campaignRow,    \* the campaign saved under the request id
    tab

setupVars == <<setupNow, setupFork, marketGas, target, profile, version, cache,
               busy, stops, campaignRow, tab>>
worldVars == <<setupNow, setupFork, marketGas, target, profile>>

NoSource == [at |-> 0, fork |-> 0]
NoCosts == [price |-> 0, at |-> 0, version |-> 0, fork |-> 0]
NoReview == [source |-> NoSource, costs |-> NoCosts]
Unsaved == [strategy |-> "", source |-> NoSource, native |-> 0, price |-> 0, fork |-> 0,
            shown |-> 0, saved |-> 0, deleted |-> FALSE]
FreshTab == [pc |-> "idle", pinned |-> FALSE, source |-> NoSource,
             costs |-> NoCosts, review |-> NoReview, id |-> 0, had |-> FALSE, answer |-> ""]

SetupInit ==
    /\ setupNow = 0 /\ setupFork = 0 /\ marketGas = CHOOSE p \in Prices : TRUE
    /\ target = 1 /\ profile = 0 /\ version = 0
    /\ cache = [s \in Range(Kind) |-> <<>>] /\ busy = FALSE
    /\ stops = 0 /\ campaignRow = Unsaved /\ tab = [b \in Browsers |-> FreshTab]

At(b, pc) == tab[b].pc = pc
Set(b, state) == tab' = [tab EXCEPT ![b] = state]
Fresh(at) == setupNow - at <= MaxAge

\* Mutant: the check after the readings compares ages only.
StillFresh(source) == Fresh(source.at)

verifyCanonical(source) == source.fork = setupFork /\ Fresh(source.at)

\* paperSetupProfile refuses a profile whose pool changed its target set.
paperSetupProfile == profile # 0 /\ profile = target

----------------------------------------------------------------------------
(* Answers.  Refused: nothing was saved and the browser may start over.     *)

Answer(b, a) ==
    Set(b, [FreshTab EXCEPT !.pc = "answered", !.answer = a, !.had = tab[b].had,
                            !.review = IF a = "unknown" THEN tab[b].review ELSE NoReview,
                            !.id = IF a = "unknown" THEN tab[b].id ELSE 0])

\* matchDraftRequest: the row is looked up by request id and compared with what
\* the browser now asks for; its lifecycle is not looked at.
Asks(b) == [strategy |-> Kind[b], source |-> tab[b].review.source]
Holds == [strategy |-> campaignRow.strategy, source |-> campaignRow.source]
Matches(b) == campaignRow # Unsaved /\ Holds = Asks(b)

Refuse(b) == Answer(b, "refused")

----------------------------------------------------------------------------
(* A preflight, for a review or pinned to the source of one.                *)

\* The latch, the registered profile and the pool frame.
readFrame(b, pinned) ==
    LET source == IF pinned THEN tab[b].review.source
                  ELSE [at |-> setupNow, fork |-> setupFork]
        state == [tab[b] EXCEPT !.pinned = pinned, !.source = source] IN
    /\ tab' = [tab EXCEPT ![b] =
                 IF ~busy /\ paperSetupProfile /\ verifyCanonical(source)
                 THEN [state EXCEPT !.pc = "framed"]
                 ELSE IF pinned
                 THEN [FreshTab EXCEPT !.pc = "answered", !.answer = "refused", !.had = tab[b].had]
                 ELSE tab[b]]
    /\ busy' = (busy \/ tab'[b].pc = "framed")
    /\ UNCHANGED <<worldVars, version, cache, stops, campaignRow>>

ReviewSetup(b) ==
    /\ At(b, "idle")
    /\ readFrame(b, FALSE)

AdmissionPreflight(b) ==
    /\ At(b, "looked") /\ readFrame(b, TRUE)

\* Static costs come from registered gas rows.  A review without rows samples,
\* registers and starts over at the same source; an admission without rows is
\* refused.  RangeKeeper samples its candidate every time and registers nothing,
\* so its sample is a function of the source.
readGas(b) ==
    LET t == tab[b]
        rows == IF Kind[b] = "static" THEN version ELSE 1 IN
    /\ At(b, "framed")
    /\ IF rows # 0
       THEN /\ Set(b, [t EXCEPT !.pc = "priced",
                               !.costs = [price |-> marketGas, at |-> setupNow,
                                          version |-> rows, fork |-> setupFork]])
            /\ UNCHANGED busy
       ELSE IF t.pinned THEN Refuse(b) /\ busy' = FALSE
       ELSE Set(b, [t EXCEPT !.pc = "unsampled"]) /\ UNCHANGED busy
    /\ UNCHANGED <<worldVars, version, cache, stops, campaignRow>>

prepareStaticPaperSetup(b) ==
    /\ At(b, "unsampled")
    /\ IF verifyCanonical(tab[b].source) /\ paperSetupProfile
       THEN /\ version < MaxVersions /\ version' = version + 1
            /\ Set(b, [tab[b] EXCEPT !.pc = "framed"]) /\ UNCHANGED busy
       ELSE Set(b, FreshTab) /\ busy' = FALSE /\ UNCHANGED version
    /\ UNCHANGED <<worldVars, cache, stops, campaignRow>>

Expiry(t) == (IF t.source.at < t.costs.at THEN t.source.at ELSE t.costs.at) + MaxAge
Live(entries) == SelectSeq(entries, LAMBDA e : e.expires > setupNow)
Newest(entries) == IF Len(entries) > CacheSize THEN Tail(entries) ELSE entries

\* The preflight ends: a review is captured and shown, an admission goes on to
\* its comparisons.
capture(b) ==
    LET t == tab[b]
        review == [source |-> t.source, costs |-> t.costs]
        entry == [id |-> b, review |-> review, expires |-> Expiry(t)] IN
    /\ At(b, "priced")
    /\ busy' = FALSE
    /\ IF ~verifyCanonical(t.source) \/ (~t.pinned /\ Expiry(t) <= setupNow)
       THEN /\ IF t.pinned THEN Refuse(b) ELSE Set(b, FreshTab)
            /\ UNCHANGED cache
       ELSE IF t.pinned THEN Set(b, [t EXCEPT !.pc = "checked"]) /\ UNCHANGED cache
       ELSE /\ Set(b, [FreshTab EXCEPT !.pc = "shown", !.review = review, !.id = stops])
            /\ cache' = [cache EXCEPT ![Kind[b]] = Newest(Append(Live(@), entry))]
    /\ UNCHANGED <<worldVars, version, stops, campaignRow>>

----------------------------------------------------------------------------
(* The admission.                                                           *)

\* Mutant: a review that is not in the cache is taken from the browser.
FromBrowser(b) == TRUE

lookupCapturedReview(b) ==
    \E i \in DOMAIN cache[Kind[b]] :
        LET e == cache[Kind[b]][i] IN
        e.id = b /\ e.expires > setupNow /\ e.review = tab[b].review

\* Mutant: the review is looked up before the request id.
ReviewFirst(b) == IF lookupCapturedReview(b) THEN "looked" ELSE "refused"

\* The request id is reconciled before the review, which a restart has lost.
findDraftRequest(b) ==
    IF Matches(b) THEN "created"
    ELSE IF campaignRow # Unsaved THEN "conflict"
    ELSE IF lookupCapturedReview(b) THEN "looked" ELSE "refused"

Submit(b) ==
    LET step == findDraftRequest(b) IN
    /\ tab[b].pc = "shown" \/ (tab[b].pc = "answered" /\ tab[b].answer = "unknown")
    /\ IF step = "looked"
       THEN Set(b, [tab[b] EXCEPT !.pc = step, !.answer = "", !.had = Matches(b)])
       ELSE Set(b, [FreshTab EXCEPT !.pc = "answered", !.answer = step, !.had = Matches(b)])
    /\ UNCHANGED <<worldVars, version, cache, busy, stops, campaignRow>>

BoundPrice(price) == (price * 5 + 3) \div 4

\* Mutant: the bound is not compared with the price of the admission.
AnyPrice(approved, fresh) == TRUE

reviewedCostsCoverFreshGasQuote(approved, fresh) == fresh.price <= BoundPrice(approved.price)

CostsAdmitted(b) ==
    LET approved == tab[b].review.costs
        fresh == tab[b].costs IN
    /\ Fresh(tab[b].source.at) /\ Fresh(approved.at) /\ Fresh(fresh.at)
    /\ approved.version = fresh.version
    /\ reviewedCostsCoverFreshGasQuote(approved, fresh)

createDraftFromSetup(b) ==
    /\ At(b, "checked")
    /\ IF CostsAdmitted(b) /\ paperSetupProfile
       THEN Set(b, [tab[b] EXCEPT !.pc = "saving"]) ELSE Refuse(b)
    /\ UNCHANGED <<worldVars, version, cache, busy, stops, campaignRow>>

\* The browser sets aside exactly the gas the review bounded.
insertDraft(b) ==
    LET t == tab[b]
        row == [strategy |-> Kind[b], source |-> t.review.source,
                native |-> BoundPrice(t.review.costs.price), price |-> t.costs.price,
                fork |-> t.costs.fork, shown |-> t.id, saved |-> stops, deleted |-> FALSE] IN
    IF campaignRow # Unsaved THEN campaignRow
    ELSE IF paperSetupProfile THEN row ELSE Unsaved

\* createDraftWithRequestId; the answer may be lost on its way to the browser.
createDraftWithRequestId(b) ==
    /\ At(b, "saving")
    /\ campaignRow' = insertDraft(b)
    /\ \/ Answer(b, IF campaignRow' = Unsaved THEN "unknown"
                    ELSE IF campaignRow'.strategy = Kind[b]
                            /\ campaignRow'.source = tab[b].review.source
                         THEN "created" ELSE "conflict")
       \/ Answer(b, "unknown")
    /\ UNCHANGED <<worldVars, version, cache, busy, stops>>

StartOver(b) ==
    /\ At(b, "answered") /\ tab[b].answer # "unknown"
    /\ Set(b, FreshTab)
    /\ UNCHANGED <<worldVars, version, cache, busy, stops, campaignRow>>

----------------------------------------------------------------------------
(* Everything else that moves.                                              *)

\* registerVerifiedMarketProfile inserts a profile once; registering it again
\* returns the row with the target set it was first verified with.
registerVerifiedMarketProfile ==
    /\ profile = 0 /\ profile' = target
    /\ UNCHANGED <<setupNow, setupFork, marketGas, target, version, cache, busy, stops,
                   campaignRow, tab>>

\* Another candidate's sampling, or the sampling command, adds newer rows.
registerPaperGasEvidence ==
    /\ version < MaxVersions /\ version' = version + 1
    /\ UNCHANGED <<worldVars, cache, busy, stops, campaignRow, tab>>

deleteStaticPaperDraft ==
    /\ campaignRow.strategy = "static" /\ ~campaignRow.deleted
    /\ campaignRow' = [campaignRow EXCEPT !.deleted = TRUE]
    /\ UNCHANGED <<worldVars, version, cache, busy, stops, tab>>

\* The server stops: reviews, latches and running requests are gone.
Restart ==
    /\ stops < MaxStops /\ stops' = stops + 1
    /\ cache' = [s \in Range(Kind) |-> <<>>] /\ busy' = FALSE
    /\ tab' = [b \in Browsers |->
                 IF tab[b].pc \in {"idle", "shown", "answered"} THEN tab[b]
                 ELSE IF tab[b].pc \in {"looked", "checked", "saving"} \/ tab[b].pinned
                 THEN [FreshTab EXCEPT !.pc = "answered", !.answer = "unknown",
                                       !.had = tab[b].had, !.review = tab[b].review,
                                       !.id = tab[b].id]
                 ELSE FreshTab]
    /\ UNCHANGED <<worldVars, version, campaignRow>>

SetupTick ==
    /\ setupNow < MaxSetupTime /\ setupNow' = setupNow + 1
    /\ \E p \in Prices : marketGas' = p
    /\ UNCHANGED <<setupFork, target, profile, version, cache, busy, stops, campaignRow, tab>>

SetupReorg ==
    /\ setupFork < MaxSetupForks /\ setupFork' = setupFork + 1
    /\ UNCHANGED <<setupNow, marketGas, target, profile, version, cache, busy, stops,
                   campaignRow, tab>>

TargetSetChanges ==
    /\ target < MaxTargets /\ target' = target + 1
    /\ UNCHANGED <<setupNow, setupFork, marketGas, profile, version, cache, busy, stops,
                   campaignRow, tab>>

SetupNext ==
    \/ \E b \in Browsers :
        \/ ReviewSetup(b) \/ AdmissionPreflight(b) \/ readGas(b)
        \/ prepareStaticPaperSetup(b) \/ capture(b) \/ Submit(b)
        \/ createDraftFromSetup(b) \/ createDraftWithRequestId(b) \/ StartOver(b)
    \/ registerVerifiedMarketProfile \/ registerPaperGasEvidence
    \/ deleteStaticPaperDraft \/ Restart \/ SetupTick \/ SetupReorg \/ TargetSetChanges

----------------------------------------------------------------------------
\* A saved draft sets aside enough native coin for the gas price that was
\* current when it was admitted, however the price moved since its review.
FundedForFreshGas == campaignRow.native >= campaignRow.price

\* The price a draft was admitted with was read while its source block was still
\* on the chain (the order of readGasPrice and verifyCanonical).
PricedOnSource == campaignRow.fork = campaignRow.source.fork

\* A draft rests on a review this very process showed (the review cache: "a
\* restart intentionally invalidates outstanding reviews").
ReviewedByThisProcess == campaignRow.shown = campaignRow.saved

\* A browser that posts a draft already saved under its request id is never
\* refused: "a saved draft retry is reconciled first".
SavedIsReconciled ==
    \A b \in Browsers : tab[b].had => tab[b].answer \notin {"refused", "conflict"}

\* A saved draft was reviewed by this server, priced on its own source and
\* funded for the gas price at admission; a retry after it was saved is told
\* so.
DraftsSound ==
    /\ FundedForFreshGas
    /\ PricedOnSource
    /\ ReviewedByThisProcess
    /\ SavedIsReconciled
=============================================================================

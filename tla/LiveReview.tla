----------------------------- MODULE LiveReview -----------------------------
(***************************************************************************)
(* From the operator's wallet to an admitted live campaign                  *)
(* (rangekeeper-live-setup-runtime.ts, rangekeeper-live-setup-preflight.ts, *)
(* rangekeeper-live-review-runtime.ts, rangekeeper-live-review-admission.ts,*)
(* live-wallet-reader.ts, live-wallet-commitments.ts, live-wallet-store.ts).*)
(* A review observes the wallet at the newest checkpointed block, persists  *)
(* the snapshot, sizes a campaign on the free balance and records itself;   *)
(* an admission observes the same block again, then consumes the review and *)
(* reserves its capital under the wallet lock.  The queue that spends the   *)
(* reservations is LiveWalletQueue; here it is three external steps.        *)
(*                                                                          *)
(* A block holds the wallet's balance (one token) and nonce as of it; its   *)
(* height is its timestamp and the height of the chain is the clock.        *)
(***************************************************************************)
EXTENDS Integers, Sequences, FiniteSetsExt, Functions

CONSTANTS
    Requests,       \* admission request ids, each posted by its own client
    Budget,         \* capitalQuoteRaw of every setup
    MaxAge,         \* MAX_SOURCE_AGE_SECONDS, and the candidate's life
    Confirmations,  \* 64 blocks
    StartBalance, MaxHeight, MaxLiveForks, MaxReviews    \* bounds

VARIABLES
    lchain, liveForks,
    checkpoint,     \* covered_through of the wallet-scoped transfer history
    walletRow,      \* deployment_live_wallets and its tokens
    allocations,    \* deployment_live_allocations, amount by campaign
    outbox,         \* the unresolved stage, and the block that mined it
    reviews,        \* deployment_live_reviews
    liveJobs,       \* deployment_live_jobs by idempotency key
    reviewer,       \* the setup preflight, one at a time (liveSetupBusy)
    client          \* the admission of each request

lvVars == <<lchain, liveForks, checkpoint, walletRow, allocations, outbox, reviews,
            liveJobs, reviewer, client>>
chainVars == <<lchain, liveForks, checkpoint>>
storeVars == <<walletRow, allocations, outbox, reviews, liveJobs>>

NoSource == [block |-> 0, fork |-> 0]
NoAllocations == [r \in Requests |-> 0]
NoObservation == [source |-> NoSource, bal |-> 0, nonce |-> 0, commitments |-> NoAllocations]
NoJob == [review |-> 0, total |-> 0, seen |-> 0]
IdleReviewer == [pc |-> "idle", obs |-> NoObservation, need |-> 0, gen |-> 0]
IdleClient == [pc |-> "idle", review |-> 0, seen |-> 0, retry |-> FALSE, answer |-> "none"]
Uninitialized == [gen |-> 0, status |-> "uninitialized", source |-> NoSource, bal |-> 0,
                  nonce |-> 0, commitments |-> NoAllocations]

LiveInit ==
    /\ lchain = <<[fork |-> 0, bal |-> StartBalance, nonce |-> 0]>> /\ liveForks = 0
    /\ checkpoint = [block |-> 1, fork |-> 0]
    /\ walletRow = Uninitialized /\ allocations = NoAllocations
    /\ outbox = [status |-> "none", campaign |-> 0, block |-> 0]
    /\ reviews = <<>> /\ liveJobs = [r \in Requests |-> NoJob]
    /\ reviewer = IdleReviewer /\ client = [r \in Requests |-> IdleClient]

Height == Len(lchain)
Tip == lchain[Height]
Total(a) == FoldFunction(+, 0, a)
Unresolved == outbox.status # "none"
Fresh(source) == Height - source.block <= MaxAge

\* What eth_getTransactionCount(pending) answers now.
pendingNonce == Tip.nonce + IF outbox.status = "signed" THEN 1 ELSE 0

verifyPinnedSource(source) ==
    /\ Height >= source.block + Confirmations
    /\ lchain[source.block].fork = source.fork

liveWalletSourceNotBefore(current, pinned) ==
    current = pinned \/ current.block > pinned.block

(***************************************************************************)
(* One observation of the wallet at a source: the commitments in one        *)
(* repeatable-read transaction, then the reads by block number, then the    *)
(* source again.                                                            *)
(***************************************************************************)

\* A wallet with allocations is known only through a snapshot that agrees
\* with them, is no newer than the source and is still on the chain.
commitmentsKnown(source) ==
    Total(allocations) > 0 =>
        /\ walletRow.commitments = allocations /\ walletRow.status = "available"
        /\ walletRow.source.block <= source.block
        /\ lchain[walletRow.source.block].fork = walletRow.source.fork
        /\ ~Unresolved

\* Mutant: the wallet's newest transactions are not looked at.
SourceOnly(source) == Fresh(source)

\* wallet_canonical_pending_nonce_mismatch: nothing has left the wallet since.
walletReadable(source) ==
    Fresh(source) /\ lchain[source.block].nonce = pendingNonce

readWalletAllocation(source) ==
    [source |-> source, bal |-> lchain[source.block].bal,
     nonce |-> lchain[source.block].nonce, commitments |-> allocations]

liveWalletInventoryMatchesState(obs) ==
    /\ walletRow.bal = obs.bal /\ walletRow.nonce = obs.nonce
    /\ walletRow.commitments = obs.commitments

\* live_wallet_unattributed_inventory_change
Attributed(obs) == Total(obs.commitments) > 0 => liveWalletInventoryMatchesState(obs)

(***************************************************************************)
(* The persisted snapshot.                                                  *)
(***************************************************************************)

\* Mutant: the generation follows the commitments, not the balances.
CommitmentsChanged(obs) == walletRow.gen = 0 \/ walletRow.commitments # obs.commitments

contentChanged(obs) == walletRow.gen = 0 \/ ~liveWalletInventoryMatchesState(obs)

applyWalletSnapshot(obs) ==
    walletRow' =
        [gen |-> walletRow.gen + IF contentChanged(obs) THEN 1 ELSE 0,
         status |-> IF Fresh(obs.source) /\ Total(obs.commitments) <= obs.bal
                    THEN "available" ELSE "blocked",
         source |-> obs.source, bal |-> obs.bal, nonce |-> obs.nonce,
         commitments |-> obs.commitments]

\* What a snapshot without a receipt may overwrite: never a newer block or
\* another hash of the same one, never balances that allocations rest on.
mayApply(obs) ==
    /\ ~Unresolved
    /\ liveWalletSourceNotBefore(obs.source, walletRow.source)
    /\ obs.commitments = allocations
    /\ (Total(allocations) > 0 /\ walletRow.gen > 0)
         => (walletRow.bal = obs.bal /\ walletRow.nonce = obs.nonce)

(***************************************************************************)
(* The setup preflight.                                                     *)
(***************************************************************************)
Reviewing(pc) == reviewer.pc = pc
unavailable == reviewer' = IdleReviewer

\* reviewSource and readFrame: the newest checkpoint, if it is canonical.
reviewSource ==
    /\ Reviewing("idle") /\ Len(reviews) < MaxReviews
    /\ verifyPinnedSource(checkpoint) /\ Fresh(checkpoint)
    /\ reviewer' = [IdleReviewer EXCEPT !.pc = "commitments", !.obs.source = checkpoint]
    /\ UNCHANGED <<chainVars, storeVars, client>>

readLiveWalletCommitments ==
    /\ Reviewing("commitments")
    /\ IF commitmentsKnown(reviewer.obs.source)
       THEN reviewer' = [reviewer EXCEPT !.pc = "wallet", !.obs.commitments = allocations]
       ELSE unavailable
    /\ UNCHANGED <<chainVars, storeVars, client>>

observeWallet ==
    LET obs == [readWalletAllocation(reviewer.obs.source)
                  EXCEPT !.commitments = reviewer.obs.commitments] IN
    /\ Reviewing("wallet")
    /\ IF walletReadable(obs.source) /\ Attributed(obs)
       THEN reviewer' = [reviewer EXCEPT !.pc = "observed", !.obs = obs]
       ELSE unavailable
    /\ UNCHANGED <<chainVars, storeVars, client>>

\* The canonical checks after the reads, and the wallet-locked snapshot.
refreshSnapshot ==
    /\ Reviewing("observed")
    /\ IF verifyPinnedSource(reviewer.obs.source) /\ mayApply(reviewer.obs)
       THEN /\ applyWalletSnapshot(reviewer.obs)
            /\ reviewer' = [reviewer EXCEPT !.pc = "sized"]
       ELSE unavailable /\ UNCHANGED walletRow
    /\ UNCHANGED <<chainVars, allocations, outbox, reviews, liveJobs, client>>

allocateQuoteBudget(obs) == Min({Budget, obs.bal - Total(obs.commitments)})

\* A candidate is sized on what no other campaign holds.
candidateSized(obs) == walletRow.status = "available" /\ allocateQuoteBudget(obs) > 0

\* Simulation and the last canonical and commitment checks.
buildSetupPreflight ==
    LET obs == reviewer.obs IN
    /\ Reviewing("sized")
    /\ IF /\ candidateSized(obs)
          /\ verifyPinnedSource(obs.source) /\ Fresh(obs.source)
          /\ commitmentsKnown(obs.source) /\ allocations = obs.commitments
       THEN reviewer' = [reviewer EXCEPT !.pc = "built", !.need = allocateQuoteBudget(obs)]
       ELSE unavailable
    /\ UNCHANGED <<chainVars, storeVars, client>>

\* recordRangeKeeperLiveSetupReview reads the state before the lock.
readWalletState ==
    LET obs == reviewer.obs IN
    /\ Reviewing("built")
    /\ IF /\ verifyPinnedSource(obs.source) /\ Fresh(obs.source)
          /\ walletRow.status = "available" /\ liveWalletInventoryMatchesState(obs)
          /\ liveWalletSourceNotBefore(walletRow.source, obs.source)
       THEN reviewer' = [reviewer EXCEPT !.pc = "record", !.gen = walletRow.gen]
       ELSE unavailable
    /\ UNCHANGED <<chainVars, storeVars, client>>

recordReview ==
    LET obs == reviewer.obs IN
    /\ Reviewing("record")
    /\ IF /\ ~Unresolved /\ walletRow.status = "available"
          /\ walletRow.gen = reviewer.gen /\ walletRow.commitments = obs.commitments
          /\ liveWalletSourceNotBefore(walletRow.source, obs.source)
       THEN reviews' = Append(reviews, [obs |-> obs, gen |-> reviewer.gen,
                                        need |-> reviewer.need, consumed |-> FALSE])
       ELSE UNCHANGED reviews
    /\ unavailable
    /\ UNCHANGED <<chainVars, walletRow, allocations, outbox, liveJobs, client>>

(***************************************************************************)
(* Admission.                                                               *)
(***************************************************************************)
Admitting(r, pc) == client[r].pc = pc
Answer(r, a) == client' = [client EXCEPT ![r] = [IdleClient EXCEPT !.retry = client[r].retry,
                                                                   !.answer = a]]
Step(r, pc) == client' = [client EXCEPT ![r].pc = pc]
Posted(r) == reviews[client[r].review]

\* Mutant: the review is validated before the request id is looked up.
NeverFound(r, v) == FALSE

lookupLiveJobByRequest(r, v) == liveJobs[r] # NoJob

admitSetup(r, v) ==
    /\ Admitting(r, "idle")
    /\ client' = [client EXCEPT ![r] =
          IF lookupLiveJobByRequest(r, v)
          THEN [IdleClient EXCEPT !.retry = liveJobs[r].review = v,
                  !.answer = IF liveJobs[r].review = v THEN "queued" ELSE "conflict"]
          ELSE [IdleClient EXCEPT !.pc = "lookup", !.review = v,
                  !.retry = liveJobs[r].review = v]]
    /\ UNCHANGED <<chainVars, storeVars, reviewer>>

\* The state may only have advanced since the review, on the chain.
stateAdmits(v) ==
    /\ walletRow.status = "available" /\ walletRow.gen = v.gen
    /\ walletRow.commitments = v.obs.commitments
    /\ liveWalletSourceNotBefore(walletRow.source, v.obs.source)

checkReview(r) ==
    LET v == Posted(r) IN
    /\ Admitting(r, "lookup")
    /\ IF /\ ~v.consumed /\ Fresh(v.obs.source) /\ stateAdmits(v)
          /\ walletRow.source # v.obs.source => verifyPinnedSource(walletRow.source)
       THEN Step(r, "pinned") ELSE Answer(r, "unavailable")
    /\ UNCHANGED <<chainVars, storeVars, reviewer>>

reviewMatchesPayload(source, payload) == readWalletAllocation(source) = payload

\* revalidatePinnedReview observes the wallet again at the reviewed source.
reobserve(r) ==
    LET source == Posted(r).obs.source IN
    /\ Admitting(r, "pinned")
    /\ IF /\ verifyPinnedSource(source) /\ commitmentsKnown(source)
          /\ walletReadable(source) /\ reviewMatchesPayload(source, Posted(r).obs)
       THEN client' = [client EXCEPT ![r].pc = "observed", ![r].seen = Tip.bal]
       ELSE Answer(r, "unavailable")
    /\ UNCHANGED <<chainVars, storeVars, reviewer>>

revalidatePinnedReview(r) ==
    LET obs == Posted(r).obs IN
    /\ Admitting(r, "observed")
    /\ IF /\ verifyPinnedSource(obs.source) /\ Attributed(obs)
          /\ liveWalletInventoryMatchesState(obs) /\ walletRow.source = obs.source
       THEN Step(r, "fresh") ELSE Answer(r, "unavailable")
    /\ UNCHANGED <<chainVars, storeVars, reviewer>>

\* Mutant: the wallet transaction relies on the checks made before its lock.
CheckedBefore(v) == TRUE

consumable(v) == ~v.consumed /\ stateAdmits(v)

consumeReviewAndReserve(r) ==
    LET v == Posted(r)
        reserved == [allocations EXCEPT ![r] = v.need] IN
    /\ Admitting(r, "fresh")
    /\ IF /\ consumable(v) /\ Fresh(v.obs.source) /\ verifyPinnedSource(v.obs.source)
          /\ walletRow.source.block # v.obs.source.block => verifyPinnedSource(walletRow.source)
          /\ Total(reserved) <= walletRow.bal
       THEN /\ allocations' = reserved
            /\ walletRow' = [walletRow EXCEPT !.gen = @ + 1, !.commitments = reserved]
            /\ reviews' = [reviews EXCEPT ![client[r].review].consumed = TRUE]
            /\ liveJobs' = [liveJobs EXCEPT ![r] = [review |-> client[r].review,
                              total |-> Total(reserved), seen |-> client[r].seen]]
            /\ Answer(r, "queued")
       ELSE Answer(r, "unavailable") /\ UNCHANGED <<walletRow, allocations, reviews, liveJobs>>
    /\ UNCHANGED <<chainVars, outbox, reviewer>>

(***************************************************************************)
(* The queue's steps on the same rows, and the chain.                       *)
(***************************************************************************)
signStage(r) ==
    /\ ~Unresolved /\ allocations[r] > 0 /\ walletRow.status = "available"
    /\ outbox' = [status |-> "signed", campaign |-> r, block |-> 0]
    /\ UNCHANGED <<chainVars, walletRow, allocations, reviews, liveJobs, reviewer, client>>

\* The receipt's own snapshot carries its proof; the campaign pays for it.
bookReceipt ==
    LET at == outbox.block
        paid == [allocations EXCEPT ![outbox.campaign] = @ - 1] IN
    /\ outbox.status = "mined" /\ Height >= at + Confirmations
    /\ allocations' = paid /\ outbox' = [status |-> "none", campaign |-> 0, block |-> 0]
    /\ walletRow' = [gen |-> walletRow.gen + 1,
                     status |-> IF Total(paid) <= lchain[at].bal /\ Height - at <= MaxAge
                                THEN "available" ELSE "blocked",
                     source |-> [block |-> at, fork |-> lchain[at].fork],
                     bal |-> lchain[at].bal, nonce |-> lchain[at].nonce, commitments |-> paid]
    /\ UNCHANGED <<chainVars, reviews, liveJobs, reviewer, client>>

\* A closed campaign's capital is the wallet's again.
releaseLiveWalletAllocation(r) ==
    LET left == [allocations EXCEPT ![r] = 0] IN
    /\ allocations[r] > 0 /\ ~Unresolved
    /\ allocations' = left
    /\ walletRow' = [walletRow EXCEPT !.gen = @ + 1, !.commitments = left]
    /\ UNCHANGED <<chainVars, outbox, reviews, liveJobs, reviewer, client>>

ExtendHistory ==
    /\ checkpoint' = [block |-> Height, fork |-> Tip.fork] /\ checkpoint' # checkpoint
    /\ UNCHANGED <<lchain, liveForks, storeVars, reviewer, client>>

\* A block with a deposit, a transfer the operator makes by hand, or the signed
\* stage.
NewBlock ==
    LET paid == [fork |-> liveForks, bal |-> Tip.bal - 1, nonce |-> Tip.nonce + 1] IN
    /\ Height < MaxHeight
    /\ \/ lchain' = Append(lchain, [Tip EXCEPT !.fork = liveForks, !.bal = @ + 1])
       \/ outbox.status # "mined" /\ Tip.bal > 0 /\ lchain' = Append(lchain, paid)
    /\ outbox' = IF outbox.status = "signed" /\ lchain' = Append(lchain, paid)
                 THEN [outbox EXCEPT !.status = "mined", !.block = Height + 1] ELSE outbox
    /\ UNCHANGED <<liveForks, checkpoint, walletRow, allocations, reviews, liveJobs, reviewer,
                   client>>

\* The last block is replaced by an empty one; a stage it held is pending again.
Reorg ==
    /\ liveForks < MaxLiveForks /\ Height > 1 /\ liveForks' = liveForks + 1
    /\ lchain' = [lchain EXCEPT ![Height] = [lchain[Height - 1] EXCEPT !.fork = liveForks']]
    /\ outbox' = IF outbox.status = "mined" /\ outbox.block = Height
                 THEN [outbox EXCEPT !.status = "signed", !.block = 0] ELSE outbox
    /\ UNCHANGED <<checkpoint, walletRow, allocations, reviews, liveJobs, reviewer, client>>

LiveNext ==
    \/ reviewSource \/ readLiveWalletCommitments \/ observeWallet \/ refreshSnapshot
    \/ buildSetupPreflight \/ readWalletState \/ recordReview
    \/ \E r \in Requests : \/ \E v \in DOMAIN reviews : admitSetup(r, v)
                           \/ checkReview(r) \/ reobserve(r) \/ revalidatePinnedReview(r)
                           \/ consumeReviewAndReserve(r)
                           \/ signStage(r) \/ releaseLiveWalletAllocation(r)
    \/ bookReceipt \/ ExtendHistory \/ NewBlock \/ Reorg

(***************************************************************************)
(* Properties.                                                              *)
(***************************************************************************)

\* What an admission has reserved, with everything reserved before it, was in
\* the wallet at the head of the chain when the admission looked, whatever was
\* deposited, withdrawn by hand, spent by the queue or reorganised since the
\* review (readLiveWalletAllocation's pending nonce check).
ReservedWasThere == \A r \in Requests : liveJobs[r].total <= liveJobs[r].seen

\* Two admissions never both spend one review, under whatever request ids they
\* race (consumeReviewAndReserve).
ReviewOnce ==
    \A r, s \in Requests : liveJobs[r].review = liveJobs[s].review => r = s \/ liveJobs[r] = NoJob

\* A review of the current generation describes the wallet as it is persisted
\* (applyWalletSnapshotInTransaction: "generation is a content version").
GenerationIsContent ==
    \A k \in DOMAIN reviews :
        reviews[k].gen = walletRow.gen => liveWalletInventoryMatchesState(reviews[k].obs)

\* A client that posts again what was admitted is told so, however old the
\* review is by then (admitRangeKeeperLiveSetup's replay lookup).
RetryIsQueued ==
    \A r \in Requests : (client[r].retry /\ client[r].answer # "none") => client[r].answer = "queued"

\* An admitted campaign reserves what the wallet had, consumes its review
\* once, and a retry finds the job it queued; a wallet generation stands for
\* one content.
AdmissionSound ==
    /\ ReservedWasThere
    /\ ReviewOnce
    /\ GenerationIsContent
    /\ RetryIsQueued
=============================================================================

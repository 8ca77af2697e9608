--------------------------- MODULE ManagementHold ---------------------------
(***************************************************************************)
(* The management hold of the live wallet                                  *)
(* (deployments/live-management-hold.ts).  An operator's close preview     *)
(* pins the wallet snapshot and the campaign's state hash; the worker's    *)
(* holding observer moves both.  A session lock keeps them apart while the *)
(* preview is made, the recorded review itself until it expires or is      *)
(* consumed (rangekeeper-live-management.ts,                               *)
(* rangekeeper-live-management-observer.ts).                               *)
(*                                                                         *)
(* A unit of time is half a minute and has one confirmed block, which is   *)
(* named by it.  The state hash is the number of marks behind it, the      *)
(* wallet's content its generation.  What a fork simulation, a quote or a  *)
(* reference says is a verdict.  The lock ends with its timer; the loss of *)
(* its database session is left out.                                       *)
(***************************************************************************)
EXTENDS Naturals, Sequences

CONSTANTS
    ReviewLife,    \* life of a review after its source
    MaxHold,       \* LIVE_MANAGEMENT_HOLD_MAX_MS
    ReadDelay,     \* bound: from the lock to the source of the preview
    RefreshAfter,  \* DEPLOYMENT_LIVE_SNAPSHOT_REFRESH_AFTER_SECONDS
    MaxClock, MaxMarks, MaxPreviews, MaxTurns  \* bounds

VARIABLES
    hclock,
    purse,       \* deployment_live_wallets: source, generation, last writer
    marked,      \* the campaign's state hash
    closes,      \* deployment_live_reviews of closes
    ownJob,      \* a close of the campaign is queued
    lane,        \* a sibling's turn: "quiet" or "inflight"
    turns,       \* sibling turns so far
    holdLock,    \* the advisory lock: who, since when
    closer,      \* the command service
    observer,    \* the worker's observer
    upkeep       \* the worker's snapshot maintenance

holdVars == <<hclock, purse, marked, closes, ownJob, lane, turns, holdLock, closer, observer, upkeep>>

Resting == [pc |-> "idle", source |-> 0, hash |-> 0, gen |-> 0]
NoHolder == [by |-> "nobody", since |-> 0]

HoldInit ==
    /\ hclock = 1
    /\ purse = [source |-> 1, gen |-> 1, by |-> "preview"]
    /\ marked = 0 /\ closes = <<>> /\ ownJob = FALSE
    /\ lane = "quiet" /\ turns = 0
    /\ holdLock = NoHolder /\ closer = Resting /\ observer = Resting /\ upkeep = Resting

-----------------------------------------------------------------------------
Pending(r) == ~r.used /\ hclock < r.expires

\* mutant: a recorded review holds nobody back.
NeverPending == FALSE
liveWalletHasPendingManagementReview == \E i \in DOMAIN closes : Pending(closes[i])

\* A snapshot is written unless a transaction is unresolved or it goes back.
Refreshable(source) == lane = "quiet" /\ source >= purse.source
refresh(source, who) ==
    purse' = IF source = purse.source THEN purse ELSE [purse EXCEPT !.source = source, !.by = who]

Fails(actor) == [actor EXCEPT !.pc = "release"]
At(actor, pc) == [actor EXCEPT !.pc = pc]

-----------------------------------------------------------------------------
\* withLiveManagementPreviewHold: the lock on a connection of its own.
acquireHold ==
    /\ closer.pc = "idle" /\ holdLock = NoHolder /\ Len(closes) < MaxPreviews
    /\ holdLock' = [by |-> "preview", since |-> hclock]
    /\ closer' = At(Resting, "reread")
    /\ UNCHANGED <<hclock, purse, marked, closes, ownJob, lane, turns, observer, upkeep>>

\* The timer destroys the connection; the preview itself goes on.
holdTimesOut ==
    /\ holdLock.by = "preview" /\ hclock >= holdLock.since + MaxHold
    /\ holdLock' = NoHolder
    /\ UNCHANGED <<hclock, purse, marked, closes, ownJob, lane, turns, closer, observer, upkeep>>

releaseHold ==
    /\ closer.pc = "release"
    /\ closer' = Resting
    /\ holdLock' = IF holdLock.by = "preview" THEN NoHolder ELSE holdLock
    /\ UNCHANGED <<hclock, purse, marked, closes, ownJob, lane, turns, observer, upkeep>>

PreviewFrame == UNCHANGED <<hclock, marked, ownJob, lane, turns, holdLock, observer, upkeep>>

\* closePreview: the campaign is read again under the hold.
rereadCampaign ==
    /\ closer.pc = "reread"
    /\ closer' = IF ownJob THEN Fails(closer) ELSE [closer EXCEPT !.pc = "source", !.hash = marked]
    /\ UNCHANGED <<purse, closes>> /\ PreviewFrame

\* collect: the lane, the profiles, the newest confirmed source.
sourceNow ==
    /\ closer.pc = "source"
    /\ holdLock.by = "preview" /\ hclock <= holdLock.since + ReadDelay
    /\ closer' = IF lane = "quiet" THEN [closer EXCEPT !.pc = "refresh", !.source = hclock] ELSE Fails(closer)
    /\ UNCHANGED <<purse, closes>> /\ PreviewFrame

refreshPreview ==
    /\ closer.pc = "refresh"
    /\ IF Refreshable(closer.source)
       THEN refresh(closer.source, "preview") /\ closer' = At(closer, "price")
       ELSE closer' = Fails(closer) /\ UNCHANGED purse
    /\ UNCHANGED closes /\ PreviewFrame

\* managementCosts: the exit simulated on a fork of the source, or not.
managementCosts ==
    /\ closer.pc = "price"
    /\ \E priced \in BOOLEAN : closer' = IF priced THEN At(closer, "wallet") ELSE Fails(closer)
    /\ UNCHANGED <<purse, closes>> /\ PreviewFrame

\* recordRangeKeeperLiveManagementReview, up to the payload.
freezeReview ==
    /\ closer.pc = "wallet"
    /\ closer' = IF hclock < closer.source + ReviewLife /\ purse.source = closer.source
                  THEN [closer EXCEPT !.pc = "verify", !.gen = purse.gen] ELSE Fails(closer)
    /\ UNCHANGED <<purse, closes>> /\ PreviewFrame

verifyPinned ==
    /\ closer.pc = "verify"
    /\ closer' = IF purse.source = closer.source /\ purse.gen = closer.gen
                  THEN At(closer, "save") ELSE Fails(closer)
    /\ UNCHANGED <<purse, closes>> /\ PreviewFrame

\* recordReview's transaction asks for the generation, not for the source.
recordReview ==
    /\ closer.pc = "save"
    /\ closes' = IF lane = "quiet" /\ purse.gen = closer.gen /\ purse.source >= closer.source
                 THEN Append(closes, [hash |-> closer.hash, source |-> closer.source, gen |-> closer.gen,
                                      expires |-> closer.source + ReviewLife, used |-> FALSE])
                 ELSE closes
    /\ closer' = At(closer, "release")
    /\ UNCHANGED purse /\ PreviewFrame

\* enqueueRangeKeeperLiveManagementReview: the queue's transaction compares
\* everything that the reads before it compared.  A conversion is quoted again
\* (verifyConvertFresh), which may refuse: then nothing happens.
enqueue(i) ==
    /\ Pending(closes[i]) /\ lane = "quiet" /\ ~ownJob
    /\ closes[i].hash = marked /\ closes[i].source = purse.source /\ closes[i].gen = purse.gen
    /\ closes' = [closes EXCEPT ![i].used = TRUE]
    /\ ownJob' = TRUE
    /\ UNCHANGED <<hclock, purse, marked, lane, turns, holdLock, closer, observer, upkeep>>

-----------------------------------------------------------------------------
ObserverFrame == UNCHANGED <<hclock, closes, ownJob, lane, turns, closer, upkeep>>

\* observeHoldingCampaigns: a held campaign without work of its own, and the
\* lock without waiting.
tryAcquireLiveWalletObservationLease ==
    /\ observer.pc = "idle" /\ lane = "quiet" /\ ~ownJob /\ marked < MaxMarks
    /\ holdLock = NoHolder
    /\ holdLock' = [by |-> "observer", since |-> hclock]
    /\ observer' = At(Resting, "pending")
    /\ UNCHANGED <<purse, marked>> /\ ObserverFrame

observePending ==
    /\ observer.pc = "pending"
    /\ observer' = IF liveWalletHasPendingManagementReview THEN Fails(observer) ELSE At(observer, "source")
    /\ UNCHANGED <<purse, marked, holdLock>> /\ ObserverFrame

observeSource ==
    /\ observer.pc = "source"
    /\ observer' = IF lane = "quiet" THEN [observer EXCEPT !.pc = "refresh", !.source = hclock] ELSE Fails(observer)
    /\ UNCHANGED <<purse, marked, holdLock>> /\ ObserverFrame

refreshObserved ==
    /\ observer.pc = "refresh"
    /\ IF Refreshable(observer.source)
       THEN refresh(observer.source, "observer") /\ observer' = At(observer, "compare")
       ELSE observer' = Fails(observer) /\ UNCHANGED purse
    /\ UNCHANGED <<marked, holdLock>> /\ ObserverFrame

compareWallet ==
    /\ observer.pc = "compare"
    /\ observer' = IF purse.source = observer.source THEN At(observer, "mark") ELSE Fails(observer)
    /\ UNCHANGED <<purse, marked, holdLock>> /\ ObserverFrame

\* mutant: the mark does not look at the queue again.
AnyLane == TRUE
laneAllowsMark == lane = "quiet" /\ ~ownJob

recordRangeKeeperLiveValuationMark ==
    /\ observer.pc = "mark"
    /\ marked' = IF laneAllowsMark THEN marked + 1 ELSE marked
    /\ observer' = Fails(observer)
    /\ UNCHANGED <<purse, holdLock>> /\ ObserverFrame

releaseLease ==
    /\ observer.pc = "release"
    /\ observer' = Resting
    /\ holdLock' = NoHolder
    /\ UNCHANGED <<purse, marked>> /\ ObserverFrame

-----------------------------------------------------------------------------
\* createLiveWorkerMaintenance keeps the snapshot fresh and asks for no hold.
UpkeepFrame == UNCHANGED <<hclock, marked, closes, ownJob, lane, turns, holdLock, closer, observer>>

upkeepSource ==
    /\ upkeep.pc = "idle" /\ hclock > purse.source
    /\ upkeep' = [Resting EXCEPT !.pc = "check", !.source = hclock]
    /\ UNCHANGED purse /\ UpkeepFrame

upkeepCheck ==
    /\ upkeep.pc = "check"
    /\ upkeep' = IF hclock > purse.source + RefreshAfter THEN At(upkeep, "refresh") ELSE Resting
    /\ UNCHANGED purse /\ UpkeepFrame

upkeepRefresh ==
    /\ upkeep.pc = "refresh"
    /\ IF Refreshable(upkeep.source) /\ ~ownJob THEN refresh(upkeep.source, "upkeep") ELSE UNCHANGED purse
    /\ upkeep' = Resting
    /\ UpkeepFrame

\* A sibling's transaction, from its claim to the snapshot of its receipt.
SiblingStarts ==
    /\ lane = "quiet" /\ turns < MaxTurns
    /\ lane' = "inflight" /\ turns' = turns + 1
    /\ UNCHANGED <<hclock, purse, marked, closes, ownJob, holdLock, closer, observer, upkeep>>

SiblingReceipt ==
    /\ lane = "inflight"
    /\ lane' = "quiet"
    /\ purse' = [source |-> hclock, gen |-> purse.gen + 1, by |-> "queue"]
    /\ UNCHANGED <<hclock, marked, closes, ownJob, turns, holdLock, closer, observer, upkeep>>

HalfMinute ==
    /\ hclock < MaxClock
    /\ hclock' = hclock + 1
    /\ UNCHANGED <<purse, marked, closes, ownJob, lane, turns, holdLock, closer, observer, upkeep>>

HoldNext ==
    \/ acquireHold \/ holdTimesOut \/ releaseHold
    \/ rereadCampaign \/ sourceNow \/ refreshPreview \/ managementCosts
    \/ freezeReview \/ verifyPinned \/ recordReview
    \/ \E i \in DOMAIN closes : enqueue(i)
    \/ tryAcquireLiveWalletObservationLease \/ observePending \/ observeSource
    \/ refreshObserved \/ compareWallet \/ recordRangeKeeperLiveValuationMark \/ releaseLease
    \/ upkeepSource \/ upkeepCheck \/ upkeepRefresh
    \/ SiblingStarts \/ SiblingReceipt \/ HalfMinute

HoldSpec == HoldInit /\ [][HoldNext]_holdVars

-----------------------------------------------------------------------------
\* The observer leaves an operator's close alone: the state hash a live review
\* or a queued close is bound to is the campaign's, and if the wallet's source
\* is no longer the pinned one, it was not the observer who moved it.  It holds
\* through previews that outlive their lock, because the hold outlasts the
\* review it may still record (live-management-hold.ts).
ReviewUndisturbed ==
    \A i \in DOMAIN closes :
        /\ Pending(closes[i]) \/ closes[i].used => closes[i].hash = marked
        /\ Pending(closes[i]) => closes[i].source = purse.source \/ purse.by # "observer"
=============================================================================

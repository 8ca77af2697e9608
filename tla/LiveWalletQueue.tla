--------------------------- MODULE LiveWalletQueue ---------------------------
(***************************************************************************)
(* The shared live wallet: the durable job queue of live-wallet-queue.ts,  *)
(* the wallet row, reservations and releases of live-wallet-store.ts, the  *)
(* worker of rangekeeper-live-wallet-worker.ts with its adapters, and the  *)
(* chain as the worker sees it.                                            *)
(*                                                                         *)
(* Every queue or store operation is one SERIALIZABLE transaction under    *)
(* the wallet's advisory lock, so it is one action here.  A worker's turn  *)
(* (execute) is a sequence of such transactions with remote calls between  *)
(* them; other workers, the operator and the chain run in between, and a   *)
(* worker may crash, stall past its lease, or fail at any of them.         *)
(*                                                                         *)
(* A lease token is fresh for each claim and a worker runs one turn at a   *)
(* time, so the worker's identity stands for the token of its present      *)
(* turn.  Blocks, prices, amounts and hashes are left out; a transaction   *)
(* is identified with the outbox row whose intent it signs, because the    *)
(* signer is deterministic and signs only persisted intents.               *)
(***************************************************************************)
EXTENDS Naturals, FiniteSets, RangeKeeperStage

CONSTANTS
  Workers,      \* executions of the worker loop that may overlap
  Campaigns,    \* campaigns of this wallet
  Held,         \* campaigns whose opening finished before the run starts
  Kinds,        \* the management jobs the instance enqueues
  MaxJobs,      \* bound: rows of deployment_live_jobs
  MaxRows,      \* bound: rows of deployment_live_stage_outbox
  MaxFaults,    \* bound: crashes, stalls, failed calls, reverts, drops
  None          \* SQL NULL

ASSUME NoneAssumption == None \notin Workers \union Campaigns
ASSUME HeldAssumption == Held \subseteq Campaigns
ASSUME KindsAssumption == Kinds \subseteq {"change_range", "close_retain", "close_convert"}
ASSUME BoundsAssumption == MaxJobs \in Nat /\ MaxRows \in Nat /\ MaxFaults \in Nat

JobIds == 1 .. MaxJobs
RowIds == 1 .. MaxRows

VARIABLES
  job,      \* deployment_live_jobs
  ahead,    \* ahead[j]: the queued jobs with a smaller fairness_sequence
  outbox,   \* deployment_live_stage_outbox, in created_at order
  effects,  \* rows whose effect id is in deployment_live_runtime_events
  wallet,   \* deployment_live_wallets
  camp,     \* campaign, allocation, open review and runtime state
  chain,    \* the canonical chain and the mempool
  worker,   \* the local state of each worker's turn
  faults    \* faults spent so far

vars == <<job, ahead, outbox, effects, wallet, camp, chain, worker, faults>>

-----------------------------------------------------------------------------
(* Types.                                                                  *)

InFlight == {"preflighting", "executing", "confirming", "reconciling"}
ActiveStatus == InFlight \union {"blocked"}
PendingStatus == ActiveStatus \union {"queued"}
JobStatus == PendingStatus \union {"none", "succeeded", "rejected", "cancelled"}
EXIT_KINDS == {"close_retain", "close_convert"}

(***************************************************************************)
(* ready: attempt = 0 or PARKED_RETRY_SECONDS have passed since the job    *)
(* yielded.  started: the job's management transition is recorded.  live:  *)
(* lease_until is in the future.  rev: the campaign's state revision that  *)
(* the frozen review of a management job is bound to.                      *)
(***************************************************************************)
JobRecord ==
  [kind: JobKinds, status: JobStatus, camp: Campaigns \union {None},
   rev: Nat, lease: Workers \union {None}, live: BOOLEAN, ready: BOOLEAN,
   started: BOOLEAN]

OutboxStatus == {"none", "prepared", "signed", "confirmed", "reverted", "cancelled"}

(***************************************************************************)
(* <<plan, rev, retry>> is the stage key: deriveRangeKeeperStage hashes    *)
(* the plan with the campaign's state revision and appends the number of   *)
(* cancelled intents.  gen is before.walletGeneration, exit the exit       *)
(* permission the stage was authorized under.                              *)
(***************************************************************************)
Row ==
  [job: JobIds \union {0}, plan: Plans, rev: Nat, retry: Nat, nonce: Nat,
   gen: Nat, exit: {"none", "exit", "convert"}, status: OutboxStatus,
   cleanup: {"none", "managed", "closed_empty"}]

WalletRow == [status: {"available", "blocked"}, gen: Nat, nonce: Nat]

(***************************************************************************)
(* review: wallet generation of the unconsumed open review, 0 if none.     *)
(* costs: receipts booked in costEvents.                                   *)
(***************************************************************************)
Campaign ==
  [life: {"none", "opening", "active", "closed"},
   alloc: {"none", "reserved", "active", "released"},
   review: Nat, state: StrategyState, rev: Nat, costs: Nat]

ChainState ==
  [nonce: Nat, mempool: SUBSET RowIds,
   result: [RowIds -> {"none", "success", "reverted"}], allowance: BOOLEAN]

PCs == {"idle", "init", "effect", "plan", "prepare", "verify", "cancel", "sign",
        "record", "raw", "confirming", "publish", "wait", "reconcile", "settle",
        "finish", "lifecycle", "release", "block"}

(***************************************************************************)
(* row and seen: the outbox row of the turn and its status as the claim    *)
(* returned it; plan, rev, retry, nonce: the proposal for prepareStage.    *)
(***************************************************************************)
Turn ==
  [pc: PCs, job: JobIds \union {0}, row: RowIds \union {0}, seen: OutboxStatus,
   plan: Plans \union {"none"}, rev: Nat, retry: Nat, nonce: Nat]

TypeOK ==
  /\ job \in [JobIds -> JobRecord]
  /\ ahead \in [JobIds -> SUBSET JobIds]
  /\ outbox \in [RowIds -> Row]
  /\ effects \in SUBSET RowIds
  /\ wallet \in WalletRow
  /\ camp \in [Campaigns -> Campaign]
  /\ chain \in ChainState
  /\ worker \in [Workers -> Turn]
  /\ faults \in 0 .. MaxFaults

-----------------------------------------------------------------------------
(* Initial state: an observed wallet, whose observation may have been too  *)
(* old.  The finished jobs and receipts of the held campaigns are history  *)
(* and are not represented.                                                *)

NoJob == [kind |-> "open", status |-> "none", camp |-> None, rev |-> 0,
          lease |-> None, live |-> FALSE, ready |-> TRUE, started |-> FALSE]

NoRow == [job |-> 0, plan |-> "approve", rev |-> 0, retry |-> 0, nonce |-> 0,
          gen |-> 0, exit |-> "none", status |-> "none", cleanup |-> "none"]

IdleTurn == [pc |-> "idle", job |-> 0, row |-> 0, seen |-> "none",
             plan |-> "none", rev |-> 0, retry |-> 0, nonce |-> 0]

NewCampaign == [life |-> "none", alloc |-> "none", review |-> 0,
                state |-> Uninitialized, rev |-> 0, costs |-> 0]

HeldCampaign == [NewCampaign EXCEPT !.life = "active", !.alloc = "active",
                                    !.state = HoldingState, !.rev = 1]

Init ==
  /\ job = [j \in JobIds |-> NoJob]
  /\ ahead = [j \in JobIds |-> {}]
  /\ outbox = [r \in RowIds |-> NoRow]
  /\ effects = {}
  /\ \E status \in {"available", "blocked"} :
       wallet = [status |-> status, gen |-> 1, nonce |-> 0]
  /\ camp = [c \in Campaigns |-> IF c \in Held THEN HeldCampaign ELSE NewCampaign]
  /\ chain = [nonce |-> 0, mempool |-> {}, result |-> [r \in RowIds |-> "none"],
              allowance |-> Held # {}]
  /\ worker = [w \in Workers |-> IdleTurn]
  /\ faults = 0

-----------------------------------------------------------------------------
(* Queries.                                                                *)

Unresolved == \E r \in RowIds : outbox[r].status \in {"prepared", "signed"}
Rows(j) == {r \in RowIds : outbox[r].job = j /\ outbox[r].status # "none"}
CurrentRows(j) == {r \in Rows(j) : outbox[r].status # "cancelled"}

\* Mutant: the stage key does not count the cancelled intents.
RetriesIgnored(j) == 0

Retries(j) == Cardinality(Rows(j) \ CurrentRows(j))

\* ORDER BY created_at DESC LIMIT 1; 0 stands for no row.
IsLast(r, S) == IF S = {} THEN r = 0 ELSE r \in S /\ \A q \in S : q <= r

ActiveJob(j) == job[j].status \in ActiveStatus
PendingJob(j) == job[j].status \in PendingStatus
InFlightLane == \E j \in JobIds : job[j].status \in InFlight

\* Mutant: a campaign's blocked job is overlooked.
CampaignWorkIgnoresBlocked(c) ==
  \E j \in JobIds : job[j].status \in PendingStatus \ {"blocked"} /\ job[j].camp = c

CampaignWork(c) == \E j \in JobIds : PendingJob(j) /\ job[j].camp = c

\* A lifecycle other than closed or draft keeps the pool's pairs in use.
UsesPairs(c) == camp[c].life \in {"opening", "active"}

\* Mutant: the closing campaign counts as a user of its own pairs.
SharedWithItself(c) == \E d \in Campaigns : UsesPairs(d)

Shared(c) == \E d \in Campaigns \ {c} : UsesPairs(d)

FreshJob(j) == job[j].status = "none" /\ \A i \in 1 .. j - 1 : job[i].status # "none"
FreshRow(r) == outbox[r].status = "none" /\ \A q \in 1 .. r - 1 : outbox[q].status # "none"

Turning(w) == worker[w].pc # "idle"
JobOf(w) == job[worker[w].job]
RowOf(w) == outbox[worker[w].row]
CampOf(w) == JobOf(w).camp
StateOf(w) == camp[CampOf(w)].state

\* owned(): the lease token matches and has not expired.
Owned(w) == Turning(w) /\ JobOf(w).lease = w /\ JobOf(w).live

At(pc, j, r) == [IdleTurn EXCEPT !.pc = pc, !.job = j, !.row = r]
Goto(w, pc) == worker' = [worker EXCEPT ![w] = At(pc, worker[w].job, worker[w].row)]
EndTurn(w) == worker' = [worker EXCEPT ![w] = IdleTurn]

Fault == faults < MaxFaults /\ faults' = faults + 1

-----------------------------------------------------------------------------
(***************************************************************************)
(* Admission: the operator's dashboard and the automatic manager.  The     *)
(* review of a management job binds the campaign's state revision, which   *)
(* nothing changes while the job waits, so review and enqueue are one      *)
(* step; an open review is separate because time passes before `start`.    *)
(***************************************************************************)
InsertJob(j, c, kind) ==
  /\ job' = [job EXCEPT ![j] = [NoJob EXCEPT !.kind = kind, !.status = "queued",
                                              !.camp = c, !.rev = camp[c].rev]]
  /\ ahead' = [ahead EXCEPT ![j] = {i \in JobIds : job[i].status = "queued"}]

\* The preview refreshes the snapshot first, which needs a settled lane.
RecordReview(c) ==
  /\ camp[c].life = "none"
  /\ ~Unresolved
  /\ wallet.status = "available"
  /\ camp[c].review # wallet.gen
  /\ camp' = [camp EXCEPT ![c].review = wallet.gen]
  /\ UNCHANGED <<job, ahead, outbox, effects, wallet, chain, worker, faults>>

\* consumeReviewAndReserve.
Reserve(c) ==
  /\ camp[c].life = "none"
  /\ camp[c].review = wallet.gen
  /\ wallet.status = "available"
  /\ \E j \in JobIds : FreshJob(j) /\ InsertJob(j, c, "open")
  /\ camp' = [camp EXCEPT ![c].life = "opening", ![c].alloc = "reserved", ![c].review = 0]
  /\ wallet' = [wallet EXCEPT !.gen = @ + 1]
  /\ UNCHANGED <<outbox, effects, chain, worker, faults>>

LaneQuiet == wallet.status = "available" /\ ~InFlightLane /\ ~Unresolved

Enqueue(c, kind) ==
  /\ LaneQuiet
  /\ ~CampaignWork(c)
  /\ camp[c].life = "active" /\ camp[c].alloc = "active"
  /\ camp[c].state.phase = "holding" /\ camp[c].state.nft
  /\ \E j \in JobIds : FreshJob(j) /\ InsertJob(j, c, kind)
  /\ UNCHANGED <<outbox, effects, wallet, camp, chain, worker, faults>>

Dequeue(j) == [i \in JobIds |-> IF i = j THEN {} ELSE ahead[i] \ {j}]

CancelQueued(j) ==
  /\ job[j].status = "queued" /\ job[j].kind # "open"
  /\ Rows(j) = {}
  /\ job' = [job EXCEPT ![j].status = "cancelled"]
  /\ ahead' = Dequeue(j)
  /\ UNCHANGED <<outbox, effects, wallet, camp, chain, worker, faults>>

\* planCampaign on a recenter in progress: install a fresh candidate ...
Replan(c, swap) ==
  /\ LaneQuiet
  /\ camp[c].life = "active"
  /\ IsAwaitingReplan(camp[c].state)
  /\ camp' = [camp EXCEPT ![c].state = ReplanTransition(@, swap), ![c].rev = @ + 1]
  /\ UNCHANGED <<job, ahead, outbox, effects, wallet, chain, worker, faults>>

\* ... or convert it to a retained exit.
SafetyExit(c) ==
  /\ LaneQuiet
  /\ camp[c].life = "active"
  /\ camp[c].state.phase = "recenter"
  /\ camp' = [camp EXCEPT ![c].state = RecenterToRetainExit(@), ![c].rev = @ + 1]
  /\ UNCHANGED <<job, ahead, outbox, effects, wallet, chain, worker, faults>>

(***************************************************************************)
(* refreshSnapshot with unchanged content re-anchors the wallet and makes  *)
(* it available again.  The dashboard's preview needs only a settled       *)
(* lane; the worker loop's maintenance (requireIdleQueue) also needs that  *)
(* no job is pending or leased.                                            *)
(***************************************************************************)
DashboardRefresh ==
  /\ wallet.status = "blocked"
  /\ ~Unresolved
  /\ wallet' = [wallet EXCEPT !.status = "available"]
  /\ UNCHANGED <<job, ahead, outbox, effects, camp, chain, worker, faults>>

MaintenanceRefresh ==
  /\ wallet.status = "blocked"
  /\ ~Unresolved
  /\ \A j \in JobIds : ~PendingJob(j) /\ ~job[j].live
  /\ wallet' = [wallet EXCEPT !.status = "available"]
  /\ UNCHANGED <<job, ahead, outbox, effects, camp, chain, worker, faults>>

-----------------------------------------------------------------------------
(* Time.  A lease running out under a working turn is a stall, a fault.    *)

LeaseExpire(j) ==
  /\ job[j].live
  /\ IF \E w \in Workers : Turning(w) /\ worker[w].job = j /\ job[j].lease = w
     THEN Fault ELSE UNCHANGED faults
  /\ job' = [job EXCEPT ![j].live = FALSE]
  /\ UNCHANGED <<ahead, outbox, effects, wallet, camp, chain, worker>>

ParkElapsed(j) ==
  /\ job[j].status = "queued" /\ ~job[j].ready
  /\ job' = [job EXCEPT ![j].ready = TRUE]
  /\ UNCHANGED <<ahead, outbox, effects, wallet, camp, chain, worker, faults>>

-----------------------------------------------------------------------------
(***************************************************************************)
(* recoverFinishedOpenings and recoverFinishedManagement, at the start of  *)
(* every execute.  Both queries look at the job's newest row, whatever its *)
(* status.  A close is recovered in two transactions, like the lifecycle   *)
(* step it replays: the terminal event, then the release.                  *)
(***************************************************************************)
OpenedCampaign(c) ==
  IF camp[c].life = "opening"
  THEN [camp[c] EXCEPT !.life = "active", !.alloc = "active", !.rev = @ + 1]
  ELSE camp[c]

ClosedCampaign(c) ==
  [camp[c] EXCEPT !.life = "closed", !.state = ClosedState(@), !.rev = @ + 1]

IsFinalRow(kind, r) ==
  \/ outbox[r].status = "confirmed"
  \/ kind = "close_convert" /\ outbox[r].status = "reverted" /\ outbox[r].plan = "swap"

CanRecoverOpening(j) ==
  /\ job[j].status = "succeeded" /\ job[j].kind = "open"
  /\ camp[job[j].camp].life = "opening"
  /\ camp[job[j].camp].state.phase = "holding"
  /\ \E r \in RowIds : /\ IsLast(r, Rows(j))
                       /\ outbox[r].status = "confirmed"
                       /\ outbox[r].cleanup # "none"

CanRecoverClose(j) ==
  /\ job[j].status = "succeeded" /\ job[j].kind # "open"
  /\ camp[job[j].camp].life = "active"
  /\ CanClose(camp[job[j].camp].state)
  /\ \E r \in RowIds : /\ IsLast(r, Rows(j))
                       /\ IsFinalRow(job[j].kind, r)
                       /\ outbox[r].cleanup = "closed_empty"

(***************************************************************************)
(* releaseLiveWalletAllocation refuses while a job of the allocation is    *)
(* not terminal or one of its transactions is unresolved, or while an NFT  *)
(* is not retired.                                                         *)
(***************************************************************************)
CanRelease(c) ==
  /\ camp[c].life = "closed"
  /\ camp[c].alloc # "released"
  /\ ~CampaignWork(c)
  /\ \A r \in RowIds : outbox[r].status \in {"prepared", "signed"}
                         => job[outbox[r].job].camp # c
  /\ ~camp[c].state.nft

ReleaseAllocation(c) ==
  /\ camp' = [camp EXCEPT ![c].alloc = "released"]
  /\ wallet' = [wallet EXCEPT !.gen = @ + 1]

\* Mutant: the release is looked up by the lifecycle of an unfinished close.
CanRecoverReleaseOfActive(j) ==
  /\ job[j].status = "succeeded" /\ job[j].kind # "open"
  /\ camp[job[j].camp].life = "active"
  /\ CanRelease(job[j].camp)

CanRecoverRelease(j) ==
  /\ job[j].status = "succeeded" /\ job[j].kind # "open"
  /\ CanRelease(job[j].camp)

SomeIdle == \E w \in Workers : ~Turning(w)

RecoverOpening(j) ==
  /\ SomeIdle
  /\ CanRecoverOpening(j)
  /\ camp' = [camp EXCEPT ![job[j].camp] = OpenedCampaign(job[j].camp)]
  /\ UNCHANGED <<job, ahead, outbox, effects, wallet, chain, worker, faults>>

RecoverClose(j) ==
  /\ SomeIdle
  /\ CanRecoverClose(j)
  /\ camp' = [camp EXCEPT ![job[j].camp] = ClosedCampaign(job[j].camp)]
  /\ UNCHANGED <<job, ahead, outbox, effects, wallet, chain, worker, faults>>

RecoverRelease(j) ==
  /\ SomeIdle
  /\ CanRecoverRelease(j)
  /\ ReleaseAllocation(job[j].camp)
  /\ UNCHANGED <<job, ahead, outbox, effects, chain, worker, faults>>

(***************************************************************************)
(* A turn claims after its maintenance; maintenance that failed (it is     *)
(* best effort), or that ran before another turn finished, is a fault.     *)
(***************************************************************************)
Maintained ==
  IF \E j \in JobIds : CanRecoverOpening(j) \/ CanRecoverClose(j) \/ CanRecoverRelease(j)
  THEN Fault ELSE UNCHANGED faults

-----------------------------------------------------------------------------
(***************************************************************************)
(* claimNext.  Queued work is picked exits first, then in fairness order;  *)
(* every caller leaves the priority at its default.  The update that moves *)
(* the claimed campaign's other queued jobs to the tail has no row to      *)
(* move: OneJobPerCampaign.                                                *)
(***************************************************************************)
Exit(j) == job[j].kind \in EXIT_KINDS
Eligible(excluded) ==
  {j \in JobIds : job[j].status = "queued" /\ job[j].ready /\ job[j].camp # excluded}

QueuedPick(excluded, j) ==
  LET waiting == Eligible(excluded)
      class == IF \E i \in waiting : Exit(i) THEN {i \in waiting : Exit(i)} ELSE waiting
  IN  j \in class /\ ahead[j] \intersect class = {}

\* A blocked job without an unresolved transaction gives way to a sibling.
YieldsTo(a, j) ==
  /\ job[a].status = "blocked"
  /\ wallet.status = "available"
  /\ ~Unresolved
  /\ QueuedPick(job[a].camp, j)
  /\ Exit(j) \/ ~Exit(a)

BeginTurn(w, j) ==
  \E r \in RowIds \union {0} :
    /\ IsLast(r, CurrentRows(j))
    /\ worker' = [worker EXCEPT ![w] = [At("init", j, r) EXCEPT
                    !.seen = IF r = 0 THEN "none" ELSE outbox[r].status]]

\* Mutant: a blocked job is taken for a free lane.
LaneFreeOfInFlight == ~InFlightLane

LaneFree == \A a \in JobIds : ~ActiveJob(a)

Lease(record, w, status) ==
  [record EXCEPT !.status = status, !.lease = w, !.live = TRUE]

ClaimQueued(w) ==
  /\ ~Turning(w)
  /\ Maintained
  /\ LaneFree
  /\ wallet.status = "available"
  /\ \E j \in JobIds :
       /\ QueuedPick(None, j)
       /\ job' = [job EXCEPT ![j] = Lease(@, w, "preflighting")]
       /\ ahead' = Dequeue(j)
       /\ BeginTurn(w, j)
  /\ UNCHANGED <<outbox, effects, wallet, camp, chain>>

ClaimYield(w) ==
  /\ ~Turning(w)
  /\ Maintained
  /\ \E a \in JobIds, j \in JobIds :
       /\ ActiveJob(a) /\ YieldsTo(a, j)
       /\ job' = [job EXCEPT ![a].status = "queued", ![a].lease = None,
                             ![a].live = FALSE, ![a].ready = FALSE,
                             ![j] = Lease(@, w, "preflighting")]
       /\ ahead' = [Dequeue(j) EXCEPT ![a] = {i \in JobIds \ {j} : job[i].status = "queued"}]
       /\ BeginTurn(w, j)
  /\ UNCHANGED <<outbox, effects, wallet, camp, chain>>

\* A blocked job without a lease is resumed only to resolve a transaction.
Resumable(a) ==
  IF job[a].status = "blocked" /\ job[a].lease = None
  THEN \E r \in Rows(a) : outbox[r].status \in {"prepared", "signed"}
  ELSE ~job[a].live

ClaimActive(w) ==
  /\ ~Turning(w)
  /\ Maintained
  /\ \E a \in JobIds :
       /\ ActiveJob(a)
       /\ \A j \in JobIds : ~YieldsTo(a, j)
       /\ Resumable(a)
       /\ job' = [job EXCEPT ![a] = Lease(@, w,
                    IF @.status = "blocked" THEN "reconciling" ELSE @.status)]
       /\ BeginTurn(w, a)
  /\ UNCHANGED <<ahead, outbox, effects, wallet, camp, chain>>

-----------------------------------------------------------------------------
(***************************************************************************)
(* The turn.  `block` is the worker's common error exit: transition the    *)
(* job to blocked, keeping the lease, if the turn still owns it.           *)
(***************************************************************************)
BlockTurn(w) ==
  /\ worker[w].pc = "block"
  /\ job' = IF Owned(w) /\ PendingJob(worker[w].job)
            THEN [job EXCEPT ![worker[w].job].status = "blocked"] ELSE job
  /\ EndTurn(w)
  /\ UNCHANGED <<ahead, outbox, effects, wallet, camp, chain, faults>>

\* Where the turn goes once the campaign is prepared for the job.
Resume(w) ==
  LET t == worker[w]
  IN  Goto(w, CASE t.row = 0 -> "plan"
                [] t.row # 0 /\ t.seen \in {"confirmed", "reverted"} -> "effect"
                [] t.row # 0 /\ t.seen = "prepared" -> "verify"
                [] t.row # 0 /\ t.seen \notin {"confirmed", "reverted", "prepared"} -> "raw")

\* initializeOpeningCampaign: idempotent, and not fenced by the lease.
InitializeOpening(w, swap) ==
  /\ worker[w].pc = "init" /\ JobOf(w).kind = "open"
  /\ camp' = IF StateOf(w).phase = "none"
             THEN [camp EXCEPT ![CampOf(w)].state = EntryState(swap), ![CampOf(w)].rev = 1]
             ELSE camp
  /\ Resume(w)
  /\ UNCHANGED <<job, ahead, outbox, effects, wallet, chain, faults>>

\* prepareManagementCampaign: the transition is recorded once per job.
CanStart(w) ==
  camp[CampOf(w)].rev = JobOf(w).rev /\ StateOf(w).phase = "holding" /\ StateOf(w).nft

PrepareManagement(w, swap) ==
  /\ worker[w].pc = "init" /\ JobOf(w).kind # "open"
  /\ JobOf(w).started \/ CanStart(w)
  /\ IF JobOf(w).started THEN UNCHANGED <<camp, job>>
     ELSE /\ camp' = [camp EXCEPT ![CampOf(w)].state = ManagementTransition(@, JobOf(w).kind, swap),
                                  ![CampOf(w)].rev = @ + 1]
          /\ job' = [job EXCEPT ![worker[w].job].started = TRUE]
  /\ Resume(w)
  /\ UNCHANGED <<ahead, outbox, effects, wallet, chain, faults>>

(***************************************************************************)
(* A frozen review that expired, or that no longer fits the campaign, is   *)
(* rejected if the turn owns the job and every row of it is cancelled.     *)
(***************************************************************************)
RejectReview(w) ==
  /\ worker[w].pc = "init" /\ JobOf(w).kind # "open" /\ ~JobOf(w).started
  /\ \/ JobOf(w).kind = "change_range" /\ Fault
     \/ ~CanStart(w) /\ UNCHANGED faults
  /\ IF worker[w].row = 0 /\ Owned(w) /\ CurrentRows(worker[w].job) = {}
     THEN job' = [job EXCEPT ![worker[w].job].status = "rejected"] /\ EndTurn(w)
     ELSE Goto(w, "block") /\ UNCHANGED job
  /\ UNCHANGED <<ahead, outbox, effects, wallet, camp, chain>>

(***************************************************************************)
(* applyRangeKeeperLiveReceiptEffectInTransaction, idempotent by effect    *)
(* id: campaign c after the receipt of row r.  Only a convert exit reads   *)
(* risky afterwards, so elsewhere it is not a choice.                      *)
(***************************************************************************)
RiskyAfter(s, plan) == IF plan = "withdraw" /\ IsConvertExit(s) THEN BOOLEAN ELSE {TRUE}

\* Mutant: a replayed receipt is booked again.
EffectedAgain(c, kind, r, outcome, risky) ==
  [camp[c] EXCEPT !.state = ReceiptEffect(@, kind, outbox[r].plan, outcome, risky),
                  !.rev = @ + 1, !.costs = @ + 1]

Effected(c, kind, r, outcome, risky) ==
  IF r \in effects THEN camp[c]
  ELSE [camp[c] EXCEPT
          !.state = ReceiptEffect(@, kind, outbox[r].plan, outcome, risky),
          !.rev = @ + 1, !.costs = @ + 1]

Outcome(r) == IF outbox[r].status = "confirmed" THEN "success" ELSE "reverted"

\* revertedStageRecovered: the campaign the reverted row settles into.
Recovery(record, kind, plan) ==
  CASE kind = "change_range" /\ plan = "withdraw" /\ IsRetainedExit(record.state) /\ record.state.nft ->
         {record}
    [] kind = "change_range" /\ plan = "withdraw" /\ CanRecoverRevertedWithdrawal(record.state) ->
         {[record EXCEPT !.state = RecenterToRetainExit(@), !.rev = @ + 1]}
    [] kind = "close_convert" /\ plan = "swap" /\ IsRetainedExit(record.state) /\ ~record.state.nft ->
         {record}
    [] OTHER -> {}

\* The resume of an attributed row: replay its effect, then recover a revert.
ResumeEffect(w) ==
  /\ worker[w].pc = "effect"
  /\ \E risky \in RiskyAfter(StateOf(w), RowOf(w).plan) :
       LET r == worker[w].row
           applied == Effected(CampOf(w), JobOf(w).kind, r, Outcome(r), risky)
           settled == IF RowOf(w).status = "confirmed" THEN {applied}
                      ELSE Recovery(applied, JobOf(w).kind, RowOf(w).plan)
       IN  IF settled = {}
           THEN camp' = [camp EXCEPT ![CampOf(w)] = applied] /\ Goto(w, "block")
           ELSE /\ \E record \in settled : camp' = [camp EXCEPT ![CampOf(w)] = record]
                /\ Goto(w, "plan")
  /\ effects' = effects \union {worker[w].row}
  /\ UNCHANGED <<job, ahead, outbox, wallet, chain, faults>>

-----------------------------------------------------------------------------
(* Planning and freezing a stage.                                          *)

PendingNonce ==
  chain.nonce + Cardinality({outbox[r].nonce : r \in chain.mempool})

\* Mutant: a stage is planned on the snapshot as it is.
RefreshSkipped(w) == wallet.status

\* Mutant: a refreshed wallet is left in a status of its own.
RefreshPending(w) ==
  IF JobOf(w).kind # "open" /\ ~Unresolved THEN "refreshing" ELSE wallet.status

\* refreshWalletSnapshot before a stage of a management job.
RefreshedStatus(w) ==
  IF JobOf(w).kind # "open" /\ ~Unresolved THEN "available" ELSE wallet.status

(***************************************************************************)
(* planNext: wait for a replan, complete, or propose a stage for the       *)
(* canonical nonce.  A wallet that is not available, or a job that would   *)
(* complete without any receipt, is an error.                              *)
(***************************************************************************)
Plan(w) ==
  /\ worker[w].pc = "plan"
  /\ LET c == CampOf(w)
         t == worker[w]
         stage == NextStage(StateOf(w), chain.allowance, Shared(c))
     IN  /\ wallet' = [wallet EXCEPT !.status = RefreshedStatus(w)]
         /\ CASE IsAwaitingReplan(StateOf(w)) \/ RefreshedStatus(w) # "available" -> Goto(w, "block")
              [] OTHER ->
                   IF stage = "complete"
                   THEN Goto(w, IF t.row = 0 THEN "block" ELSE "finish")
                   ELSE worker' = [worker EXCEPT ![w] = [At("prepare", t.job, t.row) EXCEPT
                          !.plan = stage, !.rev = camp[c].rev,
                          !.retry = Retries(t.job), !.nonce = wallet.nonce]]
  /\ UNCHANGED <<job, ahead, outbox, effects, camp, chain, faults>>

(***************************************************************************)
(* settleManagementStage after a recoverable planning error: a transaction *)
(* of its own, fenced by the state hash and not by the lease.  A wait or a *)
(* replan blocks the job; an exit plans again.                             *)
(***************************************************************************)
PlanError(w) ==
  /\ worker[w].pc = "plan"
  /\ Fault
  /\ \E t \in Settlements(StateOf(w), JobOf(w).kind) :
       IF t = StateOf(w)
       THEN UNCHANGED camp /\ Goto(w, "block")
       ELSE /\ camp' = [camp EXCEPT ![CampOf(w)].state = t, ![CampOf(w)].rev = @ + 1]
            /\ Goto(w, IF t.phase = "exit" THEN "plan" ELSE "block")
  /\ UNCHANGED <<job, ahead, outbox, effects, wallet, chain>>

\* prepareStage: the fence, the canonical nonce and the strategy's authorization.
CanPrepare(w) ==
  LET t == worker[w]
      c == CampOf(w)
  IN  /\ Owned(w)
      /\ JobOf(w).status \in {"preflighting", "executing", "reconciling"}
      /\ wallet.status = "available"
      /\ wallet.nonce = t.nonce /\ PendingNonce = t.nonce
      /\ NextStage(camp[c].state, chain.allowance, Shared(c)) = t.plan
      /\ camp[c].rev = t.rev
      /\ Retries(t.job) = t.retry

PrepareStage(w) ==
  /\ worker[w].pc = "prepare"
  /\ CanPrepare(w)
  /\ \E r \in RowIds :
       /\ FreshRow(r)
       /\ outbox' = [outbox EXCEPT ![r] =
            [job |-> worker[w].job, plan |-> worker[w].plan, rev |-> worker[w].rev,
             retry |-> worker[w].retry, nonce |-> worker[w].nonce, gen |-> wallet.gen,
             exit |-> ExitPermission(StateOf(w), JobOf(w).kind),
             status |-> "prepared", cleanup |-> "none"]]
       /\ worker' = [worker EXCEPT ![w] = At("verify", worker[w].job, r)]
  /\ job' = [job EXCEPT ![worker[w].job].status = "executing"]
  /\ UNCHANGED <<ahead, effects, wallet, camp, chain, faults>>

PrepareRefused(w) ==
  /\ worker[w].pc = "prepare"
  /\ ~CanPrepare(w)
  /\ Goto(w, "block")
  /\ UNCHANGED <<job, ahead, outbox, effects, wallet, camp, chain, faults>>

-----------------------------------------------------------------------------
(* Signing and publishing.                                                 *)

\* verifyPreparedIntent, on the wallet and the campaign as they are now.
Verified(w) ==
  LET r == RowOf(w)
      c == camp[CampOf(w)]
  IN  /\ wallet.status = "available"
      /\ wallet.gen = r.gen
      /\ wallet.nonce = r.nonce /\ PendingNonce = r.nonce
      /\ ExitPermission(c.state, JobOf(w).kind) = r.exit
      /\ IF JobOf(w).kind = "open" THEN c.life = "opening"
         ELSE c.life = "active" /\ JobOf(w).started
      /\ MaySign(c.state, JobOf(w).kind)

VerifyIntent(w) ==
  /\ worker[w].pc = "verify"
  /\ Goto(w, IF Verified(w) THEN "sign" ELSE "cancel")
  /\ UNCHANGED <<job, ahead, outbox, effects, wallet, camp, chain, faults>>

\* The source aged past the observation gap, or the authorization expired.
IntentExpired(w) ==
  /\ worker[w].pc = "verify"
  /\ Fault
  /\ Goto(w, "cancel")
  /\ UNCHANGED <<job, ahead, outbox, effects, wallet, camp, chain>>

\* Mutant: neither the lease nor the row's status is checked.
CanCancelAny(w) == TRUE

CanCancel(w) == Owned(w) /\ RowOf(w).status = "prepared"

CancelPrepared(w) ==
  /\ worker[w].pc = "cancel"
  /\ outbox' = IF CanCancel(w)
               THEN [outbox EXCEPT ![worker[w].row].status = "cancelled"] ELSE outbox
  /\ Goto(w, "block")
  /\ UNCHANGED <<job, ahead, effects, wallet, camp, chain, faults>>

\* Mutant: the bytes are published before they are recorded.
SignThenPublish(w) ==
  /\ worker[w].pc = "sign"
  /\ Goto(w, IF Owned(w) THEN "publish" ELSE "block")
  /\ UNCHANGED <<job, ahead, outbox, effects, wallet, camp, chain, faults>>

\* renewLease, then signIntent: the signature is local until it is recorded.
Sign(w) ==
  /\ worker[w].pc = "sign"
  /\ Goto(w, IF Owned(w) THEN "record" ELSE "block")
  /\ UNCHANGED <<job, ahead, outbox, effects, wallet, camp, chain, faults>>

\* Mutant: a turn that lost its lease records its signature.
CanRecordUnfenced(w) == RowOf(w).status \in {"prepared", "signed"}

CanRecord(w) == Owned(w) /\ RowOf(w).status \in {"prepared", "signed"}

\* recordSigned; a second record of the same bytes changes nothing.
RecordSigned(w) ==
  /\ worker[w].pc = "record"
  /\ IF CanRecord(w)
     THEN outbox' = [outbox EXCEPT ![worker[w].row].status = "signed"] /\ Goto(w, "raw")
     ELSE UNCHANGED outbox /\ Goto(w, "block")
  /\ UNCHANGED <<job, ahead, effects, wallet, camp, chain, faults>>

SignedRaw(r) == outbox[r].status \in {"signed", "confirmed", "reverted"}
Canonical(r) == chain.result[r] # "none"

\* Mutant: the bytes are published without a look at the chain first.
ReadRawOnly(w) ==
  /\ worker[w].pc = "raw"
  /\ Goto(w, IF SignedRaw(worker[w].row) THEN "confirming" ELSE "block")
  /\ UNCHANGED <<job, ahead, outbox, effects, wallet, camp, chain, faults>>

\* readPersistedRaw and hasCanonicalReceipt, which an RPC error makes false.
ReadRaw(w) ==
  /\ worker[w].pc = "raw"
  /\ LET r == worker[w].row
     IN  \/ /\ Goto(w, CASE ~SignedRaw(r) -> "block"
                       [] SignedRaw(r) /\ Canonical(r) -> "reconcile"
                       [] SignedRaw(r) /\ ~Canonical(r) -> "confirming")
            /\ UNCHANGED faults
         \/ SignedRaw(r) /\ Canonical(r) /\ Goto(w, "confirming") /\ Fault
  /\ UNCHANGED <<job, ahead, outbox, effects, wallet, camp, chain>>

\* transition to confirming and renewLease, before the bytes leave.
BeginPublish(w) ==
  /\ worker[w].pc = "confirming"
  /\ IF Owned(w) /\ PendingJob(worker[w].job)
     THEN job' = [job EXCEPT ![worker[w].job].status = "confirming"] /\ Goto(w, "publish")
     ELSE UNCHANGED job /\ Goto(w, "block")
  /\ UNCHANGED <<ahead, outbox, effects, wallet, camp, chain, faults>>

(***************************************************************************)
(* publishRaw: the node takes the bytes while their nonce is open and      *)
(* refuses a mined nonce.  A lost acknowledgement looks like a failure.    *)
(***************************************************************************)
Publish(w) ==
  /\ worker[w].pc = "publish"
  /\ IF RowOf(w).nonce >= chain.nonce
     THEN /\ chain' = [chain EXCEPT !.mempool = @ \union {worker[w].row}]
          /\ \/ Goto(w, "wait") /\ UNCHANGED faults
             \/ Goto(w, "block") /\ Fault
     ELSE UNCHANGED <<chain, faults>> /\ Goto(w, "block")
  /\ UNCHANGED <<job, ahead, outbox, effects, wallet, camp>>

\* waitForCanonicalReceipt; a dropped transaction always times out.
AwaitReceipt(w) ==
  /\ worker[w].pc = "wait"
  /\ \/ Canonical(worker[w].row) /\ Goto(w, "reconcile")
     \/ ~Canonical(worker[w].row) /\ worker[w].row \notin chain.mempool /\ Goto(w, "block")
  /\ UNCHANGED <<job, ahead, outbox, effects, wallet, camp, chain, faults>>

-----------------------------------------------------------------------------
(* Reconciling, finishing, and the lifecycle handoff.                      *)

CanReconcile(w) ==
  /\ Owned(w)
  /\ RowOf(w).status = "signed"
  /\ Canonical(worker[w].row)
  /\ RowOf(w).gen = wallet.gen

\* Mutant: a mined transaction is taken for a successful one.
VerdictAssumed(r) == "success"

Verdict(r) == chain.result[r]

\* Mutant: the snapshot keeps the spent nonce.
ReceiptWalletKeepsNonce(r, status) ==
  [status |-> status, gen |-> wallet.gen + 1, nonce |-> outbox[r].nonce]

ReceiptWallet(r, status) ==
  [status |-> status, gen |-> wallet.gen + 1, nonce |-> outbox[r].nonce + 1]

(***************************************************************************)
(* reconcileStage: wallet snapshot, outbox row, job and campaign effect in *)
(* one transaction.  A receipt older than 180 seconds blocks the wallet.   *)
(***************************************************************************)
Reconcile(w) ==
  /\ worker[w].pc = "reconcile"
  /\ CanReconcile(w)
  /\ LET r == worker[w].row
         outcome == Verdict(r)
     IN  /\ \E risky \in RiskyAfter(StateOf(w), RowOf(w).plan) :
              camp' = [camp EXCEPT ![CampOf(w)] =
                         Effected(CampOf(w), JobOf(w).kind, r, outcome, risky)]
         /\ effects' = effects \union {r}
         /\ \E status \in {"available", "blocked"} :
              /\ wallet' = ReceiptWallet(r, status)
              /\ IF status = "blocked" THEN Fault ELSE UNCHANGED faults
         /\ outbox' = [outbox EXCEPT ![r].status =
                         IF outcome = "success" THEN "confirmed" ELSE "reverted"]
         /\ job' = [job EXCEPT ![worker[w].job].status =
                      IF outcome = "success" THEN "reconciling" ELSE "blocked"]
  /\ Goto(w, "settle")
  /\ UNCHANGED <<ahead, chain>>

\* An attributed row is returned to its owner unchanged; the rest is an error.
ReconcileNothing(w) ==
  /\ worker[w].pc = "reconcile"
  /\ ~CanReconcile(w)
  /\ Goto(w, IF Owned(w) /\ RowOf(w).status \in {"confirmed", "reverted"} THEN "settle" ELSE "block")
  /\ UNCHANGED <<job, ahead, outbox, effects, wallet, camp, chain, faults>>

(***************************************************************************)
(* After the receipt: replay its effect, then yield the lease of a         *)
(* confirmed stage (yieldAfterConfirmedReceipt) or block a reverted one.   *)
(***************************************************************************)
Settle(w) ==
  /\ worker[w].pc = "settle"
  /\ \E risky \in RiskyAfter(StateOf(w), RowOf(w).plan) :
       camp' = [camp EXCEPT ![CampOf(w)] =
                  Effected(CampOf(w), JobOf(w).kind, worker[w].row, Outcome(worker[w].row), risky)]
  /\ effects' = effects \union {worker[w].row}
  /\ IF RowOf(w).status = "confirmed" /\ Owned(w) /\ JobOf(w).status = "reconciling" /\ ~Unresolved
     THEN /\ job' = [job EXCEPT ![worker[w].job].lease = None, ![worker[w].job].live = FALSE]
          /\ EndTurn(w)
     ELSE UNCHANGED job /\ Goto(w, "block")
  /\ UNCHANGED <<ahead, outbox, wallet, chain, faults>>

Custody(w) ==
  IF JobOf(w).kind \in EXIT_KINDS \/ IsManagedExit(StateOf(w)) THEN "closed_empty" ELSE "managed"

\* verifyCleanup: custody, allowances and the settlement of a reverted stage.
CleanupProved(w) ==
  LET c == CampOf(w)
      reverted == {r \in Rows(worker[w].job) : outbox[r].status = "reverted"}
  IN  /\ JobOf(w).kind \in {"close_convert", "change_range"} /\ reverted # {}
           => IsRetainedExit(StateOf(w))
      /\ IF Custody(w) = "closed_empty"
         THEN ~StateOf(w).nft /\ (chain.allowance => Shared(c))
         ELSE StateOf(w).nft
      /\ PendingNonce = wallet.nonce

\* finish: only attributed rows, apart from the reverts the job settled.
CanFinish(w) ==
  /\ Owned(w)
  /\ CleanupProved(w)
  /\ JobOf(w).kind = "open" => Custody(w) = "managed"
  /\ ~Unresolved
  /\ \A r \in CurrentRows(worker[w].job) :
       \/ outbox[r].status = "confirmed"
       \/ /\ outbox[r].status = "reverted"
          /\ <<JobOf(w).kind, outbox[r].plan>> \in
               {<<"close_convert", "swap">>, <<"change_range", "withdraw">>}
  /\ \E r \in Rows(worker[w].job) : IsFinalRow(JobOf(w).kind, r)

Finish(w) ==
  /\ worker[w].pc = "finish"
  /\ IF CanFinish(w)
     THEN LET j == worker[w].job
              final == {r \in Rows(j) : IsFinalRow(JobOf(w).kind, r)}
          IN  /\ \E r \in final : IsLast(r, final)
                   /\ outbox' = [outbox EXCEPT ![r].cleanup = Custody(w)]
              /\ job' = [job EXCEPT ![j].status = "succeeded", ![j].lease = None, ![j].live = FALSE]
              /\ IF JobOf(w).kind = "open" \/ Custody(w) = "closed_empty"
                 THEN Goto(w, "lifecycle") ELSE EndTurn(w)
     ELSE UNCHANGED <<outbox, job>> /\ Goto(w, "block")
  /\ UNCHANGED <<ahead, effects, wallet, camp, chain, faults>>

\* completeOpeningLifecycle, or the terminal event of completeManagedLifecycle.
Lifecycle(w) ==
  /\ worker[w].pc = "lifecycle"
  /\ LET c == CampOf(w)
     IN  \/ /\ JobOf(w).kind = "open"
            /\ camp' = IF StateOf(w).phase = "holding"
                       THEN [camp EXCEPT ![c] = OpenedCampaign(c)] ELSE camp
            /\ EndTurn(w)
         \/ /\ JobOf(w).kind # "open"
            /\ IF CanClose(StateOf(w)) /\ IsFinalRow(JobOf(w).kind, worker[w].row)
               THEN camp' = [camp EXCEPT ![c] = ClosedCampaign(c)] /\ Goto(w, "release")
               ELSE UNCHANGED camp /\ EndTurn(w)
  /\ UNCHANGED <<job, ahead, outbox, effects, wallet, chain, faults>>

Release(w) ==
  /\ worker[w].pc = "release"
  /\ IF CanRelease(CampOf(w)) THEN ReleaseAllocation(CampOf(w)) ELSE UNCHANGED <<camp, wallet>>
  /\ EndTurn(w)
  /\ UNCHANGED <<job, ahead, outbox, effects, chain, faults>>

-----------------------------------------------------------------------------
(* Failures of a turn: an exception, and a crash.                          *)

Fail(w) ==
  /\ Turning(w) /\ worker[w].pc # "block"
  /\ Fault
  /\ IF worker[w].pc \in {"lifecycle", "release"} THEN EndTurn(w) ELSE Goto(w, "block")
  /\ UNCHANGED <<job, ahead, outbox, effects, wallet, camp, chain>>

Crash(w) ==
  /\ Turning(w)
  /\ Fault
  /\ EndTurn(w)
  /\ UNCHANGED <<job, ahead, outbox, effects, wallet, camp, chain>>

-----------------------------------------------------------------------------
(***************************************************************************)
(* The chain (external): the transaction with the next nonce is mined,     *)
(* successfully or reverted, and whatever else used that nonce is void; a  *)
(* node may also drop a transaction it accepted.                           *)
(***************************************************************************)
AllowanceAfter(plan, outcome) ==
  CASE outcome = "success" /\ plan = "approve" -> TRUE
    [] outcome = "success" /\ plan = "revoke" -> FALSE
    [] OTHER -> chain.allowance

Mine(r) ==
  /\ r \in chain.mempool
  /\ outbox[r].nonce = chain.nonce
  /\ \E outcome \in {"success", "reverted"} :
       /\ IF outcome = "reverted" THEN Fault ELSE UNCHANGED faults
       /\ chain' = [nonce |-> chain.nonce + 1,
                    mempool |-> {q \in chain.mempool : outbox[q].nonce > chain.nonce},
                    result |-> [chain.result EXCEPT ![r] = outcome],
                    allowance |-> AllowanceAfter(outbox[r].plan, outcome)]
  /\ UNCHANGED <<job, ahead, outbox, effects, wallet, camp, worker>>

Drop(r) ==
  /\ r \in chain.mempool
  /\ Fault
  /\ chain' = [chain EXCEPT !.mempool = @ \ {r}]
  /\ UNCHANGED <<job, ahead, outbox, effects, wallet, camp, worker>>

-----------------------------------------------------------------------------
(* The next-state relation, by actor.                                      *)

Operator ==
  \/ DashboardRefresh
  \/ \E c \in Campaigns : RecordReview(c) \/ Reserve(c)
  \/ \E j \in JobIds : CancelQueued(j)

Manager ==
  \E c \in Campaigns :
    \/ \E kind \in Kinds : Enqueue(c, kind)
    \/ \E swap \in {"none", "todo"} : Replan(c, swap)
    \/ SafetyExit(c)

Clock == \E j \in JobIds : LeaseExpire(j) \/ ParkElapsed(j)

Maintain ==
  \/ MaintenanceRefresh
  \/ \E j \in JobIds : RecoverOpening(j) \/ RecoverClose(j) \/ RecoverRelease(j)

Claim(w) == ClaimQueued(w) \/ ClaimYield(w) \/ ClaimActive(w)

Step(w) ==
  \/ \E swap \in {"none", "todo"} : InitializeOpening(w, swap) \/ PrepareManagement(w, swap)
  \/ RejectReview(w) \/ ResumeEffect(w) \/ Plan(w)
  \/ PrepareStage(w) \/ PrepareRefused(w)
  \/ VerifyIntent(w) \/ CancelPrepared(w) \/ Sign(w) \/ RecordSigned(w)
  \/ ReadRaw(w) \/ BeginPublish(w) \/ Publish(w) \/ AwaitReceipt(w)
  \/ Reconcile(w) \/ ReconcileNothing(w) \/ Settle(w)
  \/ Finish(w) \/ Lifecycle(w) \/ Release(w) \/ BlockTurn(w)

Failure(w) == PlanError(w) \/ IntentExpired(w) \/ Fail(w) \/ Crash(w)

Network == \E r \in RowIds : Mine(r) \/ Drop(r)

Next ==
  \/ Operator \/ Manager \/ Clock \/ Maintain \/ Network
  \/ \E w \in Workers : Claim(w) \/ Step(w) \/ Failure(w)

Spec == Init /\ [][Next]_vars

(***************************************************************************)
(* Fairness.  The worker loop keeps turning and a turn keeps stepping;     *)
(* leases and parking run out on the database clock; the node keeps mining *)
(* the next nonce it holds.  Every execute runs the recoveries, and then   *)
(* the manager's observation if the lane is quiet, before it claims: work  *)
(* of the manager that is possible again and again is done.  Faults,       *)
(* operator requests and drops are owed nothing.                           *)
(***************************************************************************)
Fairness ==
  /\ \A j \in JobIds :
       /\ WF_vars(LeaseExpire(j) /\ UNCHANGED faults)
       /\ WF_vars(ParkElapsed(j))
       /\ WF_vars(RecoverOpening(j) \/ RecoverClose(j) \/ RecoverRelease(j))
  /\ WF_vars(MaintenanceRefresh)
  /\ \A c \in Campaigns :
       /\ SF_vars(SafetyExit(c) \/ \E swap \in {"none", "todo"} : Replan(c, swap))
       /\ SF_vars(\E kind \in Kinds \intersect EXIT_KINDS : Enqueue(c, kind))
  /\ \A w \in Workers : WF_vars(Claim(w)) /\ WF_vars(Step(w))
  /\ \A r \in RowIds : WF_vars(Mine(r))

FairSpec == Spec /\ Fairness

-----------------------------------------------------------------------------
(* Safety.                                                                 *)

(***************************************************************************)
(* One transaction lane per wallet: at most one job is active, at most one *)
(* outbox row is unresolved, and the unresolved row belongs to the active  *)
(* job.  The database enforces the first two with partial unique indexes;  *)
(* this shows that the queue's own checks never run into them.             *)
(***************************************************************************)
OneLane ==
  /\ \A i, j \in JobIds : ActiveJob(i) /\ ActiveJob(j) => i = j
  /\ \A q, r \in RowIds :
       outbox[q].status \in {"prepared", "signed"} /\ outbox[r].status \in {"prepared", "signed"}
         => q = r
  /\ \A r \in RowIds : outbox[r].status \in {"prepared", "signed"} => ActiveJob(outbox[r].job)

\* A campaign never has two pending jobs, so its fairness update moves none.
OneJobPerCampaign ==
  \A i, j \in JobIds : PendingJob(i) /\ PendingJob(j) /\ job[i].camp = job[j].camp => i = j

(***************************************************************************)
(* A nonce is never spent twice: two rows that were not cancelled have     *)
(* different nonces, an unresolved row holds the wallet's next nonce, and  *)
(* the wallet is at most one mined, still signed, row behind the chain.    *)
(***************************************************************************)
NonceUsedOnce ==
  /\ \A q, r \in RowIds :
       /\ outbox[q].status \notin {"none", "cancelled"}
       /\ outbox[r].status \notin {"none", "cancelled"}
       /\ outbox[q].nonce = outbox[r].nonce
       => q = r
  /\ \A r \in RowIds : outbox[r].status \in {"prepared", "signed"} => outbox[r].nonce = wallet.nonce
  /\ wallet.nonce <= chain.nonce
  /\ chain.nonce > wallet.nonce
       => \E r \in RowIds : outbox[r].status = "signed" /\ Canonical(r) /\ chain.nonce = wallet.nonce + 1

(***************************************************************************)
(* Whatever a node has accepted is a persisted signed row, so a restart    *)
(* can find it; in particular a cancelled row was never published.  A row  *)
(* is attributed with the chain's own verdict.                             *)
(***************************************************************************)
PublishedIsPersisted ==
  \A r \in RowIds :
    /\ r \in chain.mempool \/ Canonical(r) => SignedRaw(r)
    /\ outbox[r].status \in {"confirmed", "reverted"} => chain.result[r] = Outcome(r)

(***************************************************************************)
(* Every receipt is booked into its campaign exactly once, whatever        *)
(* crashes, retries and replays happen: costEvents has one entry for each  *)
(* attributed row of the campaign's jobs.                                  *)
(***************************************************************************)
BookedOnce ==
  /\ effects = {r \in RowIds : outbox[r].status \in {"confirmed", "reverted"}}
  /\ \A c \in Campaigns :
       camp[c].costs = Cardinality({r \in effects : job[outbox[r].job].camp = c})

(***************************************************************************)
(* "Never replay a completed swap": no job confirms the same economic      *)
(* stage twice.                                                            *)
(***************************************************************************)
StageOnce ==
  \A q, r \in RowIds :
    /\ outbox[q].status = "confirmed" /\ outbox[r].status = "confirmed"
    /\ outbox[q].job = outbox[r].job
    /\ outbox[q].plan = outbox[r].plan
    /\ outbox[q].plan \in {"swap", "mint", "withdraw"}
    => q = r

(***************************************************************************)
(* A stage key is never reused: prepareStage always inserts, it never      *)
(* meets a frozen row with the key of its proposal.                        *)
(***************************************************************************)
StageKeyFresh ==
  \A q, r \in RowIds :
    /\ outbox[q].status # "none" /\ outbox[r].status # "none"
    /\ outbox[q].job = outbox[r].job /\ outbox[q].plan = outbox[r].plan
    /\ outbox[q].rev = outbox[r].rev /\ outbox[q].retry = outbox[r].retry
    => q = r

(***************************************************************************)
(* The strategy state tells the truth about custody: outside an unresolved *)
(* transaction a campaign believes in a position exactly if its mined      *)
(* mints exceed its mined withdrawals, and it never owns two.              *)
(***************************************************************************)
Mined(c, plan) ==
  Cardinality({r \in RowIds : /\ outbox[r].plan = plan
                              /\ chain.result[r] = "success"
                              /\ job[outbox[r].job].camp = c})

Minted(c) == Mined(c, "mint") + (IF c \in Held THEN 1 ELSE 0)

CustodyTrue ==
  \A c \in Campaigns :
    /\ Minted(c) \in {Mined(c, "withdraw"), Mined(c, "withdraw") + 1}
    /\ (\A r \in RowIds : outbox[r].status = "signed" => job[outbox[r].job].camp # c)
         => (camp[c].state.nft <=> Minted(c) = Mined(c, "withdraw") + 1)

(***************************************************************************)
(* Capital is released only when nothing of the campaign is left on the    *)
(* wallet: no position on the chain, no pending job, no transaction.       *)
(***************************************************************************)
ReleasedIsEmpty ==
  \A c \in Campaigns :
    camp[c].alloc = "released" =>
      /\ Minted(c) = Mined(c, "withdraw")
      /\ ~CampaignWork(c)
      /\ \A r \in RowIds : outbox[r].status \in {"prepared", "signed"}
                             => job[outbox[r].job].camp # c

(***************************************************************************)
(* A closing campaign leaves an allowance only for a sibling that still    *)
(* uses the pair: without campaigns the wallet rests with none.            *)
(***************************************************************************)
NoAllowanceAtRest ==
  (\A c \in Campaigns : camp[c].life \in {"none", "closed"}) => ~chain.allowance

(***************************************************************************)
(* Only follow-up work that no worker ever started is cancelled: a         *)
(* cancelled job has left its campaign alone (cancelQueued).               *)
(***************************************************************************)
CancelledNeverStarted ==
  \A j \in JobIds : job[j].status = "cancelled" => ~job[j].started

-----------------------------------------------------------------------------
(* Action properties.                                                      *)

(***************************************************************************)
(* A turn whose lease was lost, or taken over, writes no outbox row: every *)
(* write belongs to the job whose live lease its turn holds.               *)
(***************************************************************************)
FencedWrites ==
  [][\A r \in RowIds : outbox'[r] # outbox[r] =>
       \E w \in Workers : Owned(w) /\ worker[w].job = outbox'[r].job]_vars

-----------------------------------------------------------------------------
(* The wallet as a nonce lane: see NonceLane.                              *)

LanePhase ==
  IF \E r \in RowIds : outbox[r].status = "signed" THEN "committed"
  ELSE IF \E r \in RowIds : outbox[r].status = "prepared" THEN "frozen"
  ELSE "free"

Lane == INSTANCE NonceLane WITH
          phase <- LanePhase, next <- wallet.nonce, included <- chain.nonce > wallet.nonce

(***************************************************************************)
(* The queue, its workers and the chain implement the lane: "never         *)
(* advance past an unresolved signed nonce".                               *)
(***************************************************************************)
ImplementsLane == Lane!Spec

-----------------------------------------------------------------------------
(* Liveness, under FairSpec.                                               *)

(***************************************************************************)
(* Signed bytes are never left behind: every signed row is eventually      *)
(* attributed to its canonical receipt, whatever crashes, stalls, lost     *)
(* acknowledgements and dropped transactions come before.                  *)
(***************************************************************************)
SignedResolved ==
  \A r \in RowIds :
    outbox[r].status = "signed" ~> outbox[r].status \in {"confirmed", "reverted"}

(***************************************************************************)
(* An exit that started completes: its capital is released, unless a       *)
(* reverted transaction halts the campaign.                                *)
(***************************************************************************)
ExitCompletes ==
  \A j \in JobIds :
    (Exit(j) /\ job[j].started)
      ~> \E c \in Campaigns :
           job[j].camp = c /\ (camp[c].alloc = "released" \/ camp[c].state.phase = "halted")

(***************************************************************************)
(* A close that finished is completed: recoverFinishedManagement replays   *)
(* the lifecycle step a crash cut off, and the capital is released.        *)
(***************************************************************************)
CloseReleased ==
  \A j \in JobIds :
    (job[j].status = "succeeded" /\ \E r \in Rows(j) : outbox[r].cleanup = "closed_empty")
      ~> \E c \in Campaigns : job[j].camp = c /\ camp[c].alloc = "released"

(***************************************************************************)
(* "A blocked campaign cannot starve a sibling's exit": the manager's exit *)
(* of a held campaign is eventually queued (or the job bound is used up).  *)
(***************************************************************************)
ExitAdmitted ==
  \A c \in Held :
    (camp[c].life = "active" /\ camp[c].state.phase = "holding")
      ~> (CampaignWork(c) \/ camp[c].life = "closed" \/ \A j \in JobIds : job[j].status # "none")

\* A campaign's book is true through recenters, converting exits, reverts and
\* crashes: economic stages are confirmed once under fresh keys, receipts are
\* booked once, and the strategy state says what the wallet holds.
CampaignTrue == StageOnce /\ StageKeyFresh /\ CustodyTrue /\ BookedOnce

\* Campaigns that share the wallet keep apart: one pending job each, and
\* capital goes back only when the campaign holds nothing.
SiblingsSafe == OneJobPerCampaign /\ ReleasedIsEmpty

\* An exit comes to its end and hands its capital back, whatever fault
\* interrupts finish, the terminal event or the release.
ExitReleased == ExitCompletes /\ CloseReleased
=============================================================================

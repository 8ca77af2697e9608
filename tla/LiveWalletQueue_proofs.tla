----------------------- MODULE LiveWalletQueue_proofs -----------------------
(***************************************************************************)
(* Proofs about LiveWalletQueue, for any workers, campaigns and bounds:    *)
(*                                                                         *)
(*   TypeCorrect, TypeSafe   every variable keeps its type; the inductive  *)
(*                           strengthening TypeInv also says that a used   *)
(*                           job has a campaign and a turn has a job.      *)
(*   LaneSafe                one active job, one unresolved transaction;   *)
(*                           inductive with LaneInv.                       *)
(*   WritesFenced            an outbox row is written only under the live  *)
(*                           lease of its job.                             *)
(*                                                                         *)
(* First the lemmas about the strategy's operators, then one lemma for     *)
(* each way an action updates a variable, and one or more for each action. *)
(***************************************************************************)
EXTENDS LiveWalletQueue, TLAPS, FiniteSetTheorems

-----------------------------------------------------------------------------
(* The operators of RangeKeeperStage stay inside their types.              *)

LEMMA NextStageType ==
  ASSUME NEW s \in StrategyState, NEW allowance \in BOOLEAN, NEW shared \in BOOLEAN
  PROVE  NextStage(s, allowance, shared) \in Plans \union {"complete"}
BY DEF NextStage, ExitStage, CandidateStage, StrategyState, Plans, IsConvertExit

LEMMA ReceiptEffectType ==
  ASSUME NEW s \in StrategyState, NEW kind, NEW plan \in Plans,
         NEW outcome \in {"success", "reverted"}, NEW risky \in BOOLEAN
  PROVE  ReceiptEffect(s, kind, plan, outcome, risky) \in StrategyState
<1>1. CASE outcome = "reverted"
  <2>1. RevertedEffect(s, kind, plan) \in StrategyState
    BY DEF RevertedEffect, DegradeConvertToRetain, StrategyState, Phases
  <2> QED BY <1>1, <2>1 DEF ReceiptEffect
<1>2. CASE outcome = "success"
  <2>1. WithdrawEffect(s, risky) \in StrategyState
    BY DEF WithdrawEffect, StrategyState, Phases
  <2>2. SwapEffect(s) \in StrategyState
    BY DEF SwapEffect, StrategyState, Phases
  <2>3. MintEffect(s) \in StrategyState
    BY DEF MintEffect, StrategyState, Phases
  <2> QED BY <1>2, <2>1, <2>2, <2>3 DEF ReceiptEffect, Plans
<1> QED BY <1>1, <1>2

LEMMA SettlementsType ==
  ASSUME NEW s \in StrategyState, NEW kind
  PROVE  Settlements(s, kind) \subseteq StrategyState
<1>1. /\ DegradeConvertToRetain(s) \in StrategyState
      /\ RecenterToRetainExit(s) \in StrategyState
      /\ [s EXCEPT !.candidate = FALSE, !.swap = "none"] \in StrategyState
  BY DEF DegradeConvertToRetain, RecenterToRetainExit, StrategyState, Phases
<1> QED BY <1>1 DEF Settlements

-----------------------------------------------------------------------------
(* Type correctness.                                                       *)

JobsOK == \A j \in JobIds : job[j].status # "none" => job[j].camp \in Campaigns

RowPCs == {"effect", "verify", "cancel", "sign", "record", "raw", "confirming", "publish",
           "wait", "reconcile", "settle"}

TurnsOK ==
  \A w \in Workers : Turning(w) =>
    /\ worker[w].job \in JobIds /\ job[worker[w].job].status # "none"
    /\ worker[w].pc \in RowPCs => worker[w].row \in RowIds
    /\ worker[w].pc = "prepare" => worker[w].plan \in Plans

TypeInv == TypeOK /\ JobsOK /\ TurnsOK

LEMMA RetriesType == ASSUME NEW j PROVE Retries(j) \in Nat
<1>1. IsFiniteSet(RowIds)
  BY FS_Interval, BoundsAssumption DEF RowIds
<1>2. IsFiniteSet(Rows(j) \ CurrentRows(j))
  BY <1>1, FS_Subset DEF Rows
<1> QED BY <1>2, FS_CardinalityType DEF Retries

LEMMA TypeInit == Init => TypeInv
<1> SUFFICES ASSUME Init PROVE TypeInv
  OBVIOUS
<1> USE DEF Init
<1>1. job \in [JobIds -> JobRecord]
  BY DEF NoJob, JobRecord, JobKinds, JobStatus
<1>2. outbox \in [RowIds -> Row]
  BY DEF NoRow, Row, Plans, OutboxStatus
<1>3. camp \in [Campaigns -> Campaign]
  <2>1. Uninitialized \in StrategyState /\ HoldingState \in StrategyState
    BY DEF Uninitialized, HoldingState, StrategyState, Phases
  <2>2. NewCampaign \in Campaign
    BY <2>1 DEF NewCampaign, Campaign
  <2>3. HeldCampaign \in Campaign
    BY <2>1, <2>2 DEF HeldCampaign, Campaign
  <2> QED BY <2>2, <2>3
<1>4. worker \in [Workers -> Turn]
  BY DEF IdleTurn, Turn, PCs, OutboxStatus
<1>5. wallet \in WalletRow /\ chain \in ChainState /\ faults \in 0 .. MaxFaults
  BY BoundsAssumption DEF WalletRow, ChainState
<1>6. ahead \in [JobIds -> SUBSET JobIds] /\ effects \in SUBSET RowIds
  OBVIOUS
<1>7. JobsOK /\ TurnsOK
  BY DEF JobsOK, TurnsOK, NoJob, IdleTurn, Turning
<1> QED BY <1>1, <1>2, <1>3, <1>4, <1>5, <1>6, <1>7 DEF TypeInv, TypeOK

-----------------------------------------------------------------------------
(* What a step does to one variable, as far as types go.                   *)

\* Jobs stay typed, and a row of the table stays a row of the table.
JobKept ==
  /\ job' \in [JobIds -> JobRecord]
  /\ JobsOK'
  /\ \A j \in JobIds : job[j].status # "none" => job'[j].status # "none"

TurnOK(t) ==
  t.pc # "idle" =>
    /\ t.job \in JobIds /\ job[t.job].status # "none"
    /\ t.pc \in RowPCs => t.row \in RowIds
    /\ t.pc = "prepare" => t.plan \in Plans

WorkerKept == worker' \in [Workers -> Turn] /\ TurnsOK'

LEMMA JobSame == ASSUME TypeInv, UNCHANGED job PROVE JobKept
BY DEF TypeInv, TypeOK, JobsOK, JobKept

LEMMA JobSet ==
  ASSUME TypeInv, NEW j \in JobIds, NEW v \in JobRecord, v.status # "none",
         v.camp \in Campaigns, job' = [job EXCEPT ![j] = v]
  PROVE  JobKept
BY DEF TypeInv, TypeOK, JobsOK, JobKept

LEMMA JobStatusSet ==
  ASSUME TypeInv, NEW j \in JobIds, job[j].status # "none",
         NEW s \in JobStatus \ {"none"}, job' = [job EXCEPT ![j].status = s]
  PROVE  JobKept
<1>1. [job[j] EXCEPT !.status = s] \in JobRecord
  BY DEF TypeInv, TypeOK, JobRecord
<1>2. /\ [job[j] EXCEPT !.status = s].status = s
      /\ [job[j] EXCEPT !.status = s].camp = job[j].camp
  BY DEF TypeInv, TypeOK, JobRecord
<1>3. job[j].camp \in Campaigns
  BY DEF TypeInv, JobsOK
<1> DEFINE v == [job[j] EXCEPT !.status = s]
<1>4. v \in JobRecord /\ v.status # "none" /\ v.camp \in Campaigns
  BY <1>1, <1>2, <1>3
<1>5. job' = [job EXCEPT ![j] = v]
  OBVIOUS
<1> HIDE DEF v
<1> QED BY <1>4, <1>5, JobSet

LEMMA WorkerSame == ASSUME TypeInv, JobKept, UNCHANGED worker PROVE WorkerKept
BY DEF TypeInv, TypeOK, JobKept, WorkerKept, TurnsOK, Turning

LEMMA WorkerSet ==
  ASSUME TypeInv, JobKept, NEW w \in Workers, NEW t \in Turn, TurnOK(t),
         worker' = [worker EXCEPT ![w] = t]
  PROVE  WorkerKept
BY DEF TypeInv, TypeOK, JobKept, WorkerKept, TurnsOK, Turning, TurnOK

LEMMA AtType ==
  ASSUME NEW pc \in PCs, NEW j \in JobIds \union {0}, NEW r \in RowIds \union {0}
  PROVE  /\ At(pc, j, r) \in Turn
         /\ At(pc, j, r).pc = pc /\ At(pc, j, r).job = j /\ At(pc, j, r).row = r
BY DEF At, IdleTurn, Turn, PCs, OutboxStatus

LEMMA GotoType ==
  ASSUME TypeInv, JobKept, NEW w \in Workers, Turning(w), NEW pc \in PCs \ {"prepare"},
         pc \in RowPCs => worker[w].row \in RowIds, Goto(w, pc)
  PROVE  WorkerKept
<1> DEFINE t == At(pc, worker[w].job, worker[w].row)
<1>1. worker[w].job \in JobIds /\ worker[w].row \in RowIds \union {0}
      /\ job[worker[w].job].status # "none"
  BY DEF TypeInv, TypeOK, TurnsOK, Turn
<1>2. t \in Turn /\ t.pc = pc /\ t.job = worker[w].job /\ t.row = worker[w].row
  BY <1>1, AtType
<1>3. worker' = [worker EXCEPT ![w] = t]
  BY DEF Goto
<1> HIDE DEF t
<1>4. TurnOK(t)
  BY <1>1, <1>2 DEF TurnOK
<1> QED BY <1>2, <1>3, <1>4, WorkerSet

LEMMA EndTurnType ==
  ASSUME TypeInv, JobKept, NEW w \in Workers, EndTurn(w)
  PROVE  WorkerKept
<1>1. IdleTurn \in Turn /\ IdleTurn.pc = "idle"
  BY DEF IdleTurn, Turn, PCs, OutboxStatus
<1> QED BY <1>1, WorkerSet DEF EndTurn, TurnOK

LEMMA CampSet ==
  ASSUME TypeInv, NEW c, NEW v, c \in Campaigns => v \in Campaign,
         camp' = [camp EXCEPT ![c] = v]
  PROVE  camp' \in [Campaigns -> Campaign]
BY DEF TypeInv, TypeOK

\* A new strategy state is recorded under the next revision.
LEMMA CampStateSet ==
  ASSUME TypeInv, NEW c, NEW s, c \in Campaigns => s \in StrategyState,
         camp' = [camp EXCEPT ![c].state = s, ![c].rev = camp[c].rev + 1]
  PROVE  camp' \in [Campaigns -> Campaign]
<1> DEFINE v == [camp[c] EXCEPT !.state = s, !.rev = camp[c].rev + 1]
<1>1. c \in Campaigns => v \in Campaign
  BY DEF TypeInv, TypeOK, Campaign
<1>2. camp' = [camp EXCEPT ![c] = v]
  BY DEF TypeInv, TypeOK, Campaign
<1> HIDE DEF v
<1> QED BY <1>1, <1>2, CampSet

LEMMA FaultType == ASSUME TypeInv, Fault \/ UNCHANGED faults PROVE faults' \in 0 .. MaxFaults
BY BoundsAssumption DEF TypeInv, TypeOK, Fault

LEMMA RowSet ==
  ASSUME TypeInv, NEW r, NEW v, r \in RowIds => v \in Row, outbox' = [outbox EXCEPT ![r] = v]
  PROVE  outbox' \in [RowIds -> Row]
BY DEF TypeInv, TypeOK

LEMMA RowStatusSet ==
  ASSUME TypeInv, NEW r, NEW s \in OutboxStatus, outbox' = [outbox EXCEPT ![r].status = s]
  PROVE  outbox' \in [RowIds -> Row]
<1>1. r \in RowIds => [outbox[r] EXCEPT !.status = s] \in Row
  BY DEF TypeInv, TypeOK, Row
<1> QED BY <1>1, RowSet DEF TypeInv, TypeOK

-----------------------------------------------------------------------------
(* Type correctness, action by action: admission, time and maintenance.    *)

LEMMA TransitionTypes ==
  ASSUME NEW s \in StrategyState, NEW kind, NEW swap \in {"none", "todo"}
  PROVE  /\ ReplanTransition(s, swap) \in StrategyState
         /\ RecenterToRetainExit(s) \in StrategyState
         /\ ClosedState(s) \in StrategyState
         /\ ManagementTransition(s, kind, swap) \in StrategyState
         /\ EntryState(swap) \in StrategyState
<1>1. ReplanTransition(s, swap) \in StrategyState
  BY DEF ReplanTransition, StrategyState
<1>2. RecenterToRetainExit(s) \in StrategyState
  BY DEF RecenterToRetainExit, StrategyState, Phases
<1>3. ClosedState(s) \in StrategyState
  BY DEF ClosedState, StrategyState, Phases
<1>4. ManagementTransition(s, kind, swap) \in StrategyState
  BY DEF ManagementTransition, StrategyState, Phases
<1>5. EntryState(swap) \in StrategyState
  BY DEF EntryState, Uninitialized, StrategyState, Phases
<1> QED BY <1>1, <1>2, <1>3, <1>4, <1>5

LEMMA CampTyped ==
  ASSUME TypeInv, NEW c \in Campaigns
  PROVE  camp[c] \in Campaign /\ camp[c].state \in StrategyState /\ camp[c].rev \in Nat
<1>1. camp[c] \in Campaign
  BY DEF TypeInv, TypeOK
<1> QED BY <1>1 DEF Campaign

LEMMA InsertJobType ==
  ASSUME TypeInv, NEW j \in JobIds, NEW c \in Campaigns, NEW kind \in JobKinds,
         InsertJob(j, c, kind)
  PROVE  JobKept /\ ahead' \in [JobIds -> SUBSET JobIds]
<1> DEFINE v == [NoJob EXCEPT !.kind = kind, !.status = "queued", !.camp = c, !.rev = camp[c].rev]
<1>1. v \in JobRecord /\ v.status = "queued" /\ v.camp = c
  BY DEF NoJob, JobRecord, JobStatus, PendingStatus, TypeInv, TypeOK, Campaign
<1>2. job' = [job EXCEPT ![j] = v]
  BY DEF InsertJob
<1> HIDE DEF v
<1>3. JobKept
  BY <1>1, <1>2, JobSet
<1> QED BY <1>3 DEF InsertJob, TypeInv, TypeOK

LEMMA DequeueType == ASSUME TypeInv, NEW j PROVE Dequeue(j) \in [JobIds -> SUBSET JobIds]
BY DEF TypeInv, TypeOK, Dequeue

LEMMA TypeOperator == ASSUME TypeInv, Operator PROVE TypeInv'
<1>1. CASE DashboardRefresh
  <2>1. wallet' \in WalletRow
    BY <1>1 DEF DashboardRefresh, TypeInv, TypeOK, WalletRow
  <2>2. JobKept
    BY <1>1, JobSame DEF DashboardRefresh
  <2>3. WorkerKept
    BY <1>1, <2>2, WorkerSame DEF DashboardRefresh
  <2> QED BY <1>1, <2>1, <2>2, <2>3 DEF DashboardRefresh, TypeInv, TypeOK, JobKept, WorkerKept
<1>2. ASSUME NEW c \in Campaigns, RecordReview(c) PROVE TypeInv'
  <2>1. [camp[c] EXCEPT !.review = wallet.gen] \in Campaign
    BY DEF TypeInv, TypeOK, Campaign, WalletRow
  <2>2. camp' \in [Campaigns -> Campaign]
    BY <1>2, <2>1, CampSet DEF RecordReview
  <2>3. JobKept
    BY <1>2, JobSame DEF RecordReview
  <2>4. WorkerKept
    BY <1>2, <2>3, WorkerSame DEF RecordReview
  <2> QED BY <1>2, <2>2, <2>3, <2>4 DEF RecordReview, TypeInv, TypeOK, JobKept, WorkerKept
<1>3. ASSUME NEW c \in Campaigns, Reserve(c) PROVE TypeInv'
  <2>1. JobKept /\ ahead' \in [JobIds -> SUBSET JobIds]
    BY <1>3, InsertJobType DEF Reserve, JobKinds
  <2>2. [camp[c] EXCEPT !.life = "opening", !.alloc = "reserved", !.review = 0] \in Campaign
    BY DEF TypeInv, TypeOK, Campaign
  <2>3. camp' = [camp EXCEPT ![c] = [camp[c] EXCEPT !.life = "opening", !.alloc = "reserved", !.review = 0]]
    BY <1>3 DEF Reserve, TypeInv, TypeOK, Campaign
  <2>4. camp' \in [Campaigns -> Campaign]
    BY <2>2, <2>3, CampSet
  <2>5. WorkerKept
    BY <1>3, <2>1, WorkerSame DEF Reserve
  <2>6. wallet' \in WalletRow
    BY <1>3 DEF Reserve, TypeInv, TypeOK, WalletRow
  <2> QED BY <1>3, <2>1, <2>4, <2>5, <2>6 DEF Reserve, TypeInv, TypeOK, JobKept, WorkerKept
<1>4. ASSUME NEW j \in JobIds, CancelQueued(j) PROVE TypeInv'
  <2>1. JobKept
    BY <1>4, JobStatusSet DEF CancelQueued, JobStatus
  <2>2. WorkerKept
    BY <1>4, <2>1, WorkerSame DEF CancelQueued
  <2> QED BY <1>4, <2>1, <2>2, DequeueType DEF CancelQueued, TypeInv, TypeOK, JobKept, WorkerKept
<1> QED BY <1>1, <1>2, <1>3, <1>4 DEF Operator

LEMMA TypeManager == ASSUME TypeInv, Manager PROVE TypeInv'
<1>1. ASSUME NEW c \in Campaigns, NEW kind \in Kinds, Enqueue(c, kind) PROVE TypeInv'
  <2>1. JobKept /\ ahead' \in [JobIds -> SUBSET JobIds]
    BY <1>1, InsertJobType, KindsAssumption DEF Enqueue, JobKinds
  <2>2. WorkerKept
    BY <1>1, <2>1, WorkerSame DEF Enqueue
  <2> QED BY <1>1, <2>1, <2>2 DEF Enqueue, TypeInv, TypeOK, JobKept, WorkerKept
<1>2. ASSUME NEW c \in Campaigns, NEW swap \in {"none", "todo"}, Replan(c, swap) PROVE TypeInv'
  <2>1. ReplanTransition(camp[c].state, swap) \in StrategyState
    BY CampTyped, TransitionTypes
  <2>2. camp' \in [Campaigns -> Campaign]
    BY <1>2, <2>1, CampStateSet DEF Replan
  <2>3. JobKept
    BY <1>2, JobSame DEF Replan
  <2>4. WorkerKept
    BY <1>2, <2>3, WorkerSame DEF Replan
  <2> QED BY <1>2, <2>2, <2>3, <2>4 DEF Replan, TypeInv, TypeOK, JobKept, WorkerKept
<1>3. ASSUME NEW c \in Campaigns, SafetyExit(c) PROVE TypeInv'
  <2>1. RecenterToRetainExit(camp[c].state) \in StrategyState
    BY CampTyped, TransitionTypes
  <2>2. camp' \in [Campaigns -> Campaign]
    BY <1>3, <2>1, CampStateSet DEF SafetyExit
  <2>3. JobKept
    BY <1>3, JobSame DEF SafetyExit
  <2>4. WorkerKept
    BY <1>3, <2>3, WorkerSame DEF SafetyExit
  <2> QED BY <1>3, <2>2, <2>3, <2>4 DEF SafetyExit, TypeInv, TypeOK, JobKept, WorkerKept
<1> QED BY <1>1, <1>2, <1>3 DEF Manager

LEMMA TypeClock == ASSUME TypeInv, Clock PROVE TypeInv'
<1>1. ASSUME NEW j \in JobIds, LeaseExpire(j) PROVE TypeInv'
  <2> DEFINE v == [job[j] EXCEPT !.live = FALSE]
  <2>1. v \in JobRecord /\ v.status = job[j].status /\ v.camp = job[j].camp
    BY DEF TypeInv, TypeOK, JobRecord
  <2>2. job' = [job EXCEPT ![j] = v]
    BY <1>1 DEF LeaseExpire
  <2> HIDE DEF v
  <2>3. JobKept
    BY <2>1, <2>2 DEF TypeInv, TypeOK, JobsOK, JobKept
  <2>4. WorkerKept
    BY <1>1, <2>3, WorkerSame DEF LeaseExpire
  <2>5. faults' \in 0 .. MaxFaults
    BY <1>1, FaultType DEF LeaseExpire
  <2> QED BY <1>1, <2>3, <2>4, <2>5 DEF LeaseExpire, TypeInv, TypeOK, JobKept, WorkerKept
<1>2. ASSUME NEW j \in JobIds, ParkElapsed(j) PROVE TypeInv'
  <2> DEFINE v == [job[j] EXCEPT !.ready = TRUE]
  <2>1. v \in JobRecord /\ v.status = job[j].status /\ v.camp = job[j].camp
    BY DEF TypeInv, TypeOK, JobRecord
  <2>2. job' = [job EXCEPT ![j] = v]
    BY <1>2 DEF ParkElapsed
  <2> HIDE DEF v
  <2>3. JobKept
    BY <2>1, <2>2 DEF TypeInv, TypeOK, JobsOK, JobKept
  <2>4. WorkerKept
    BY <1>2, <2>3, WorkerSame DEF ParkElapsed
  <2> QED BY <1>2, <2>3, <2>4 DEF ParkElapsed, TypeInv, TypeOK, JobKept, WorkerKept
<1> QED BY <1>1, <1>2 DEF Clock

LEMMA CampaignOpened ==
  ASSUME NEW v \in Campaign
  PROVE  [v EXCEPT !.life = "active", !.alloc = "active", !.rev = @ + 1] \in Campaign
<1>1. \A n \in Nat : [v EXCEPT !.life = "active", !.alloc = "active", !.rev = n] \in Campaign
  BY DEF Campaign
<1>2. v.rev + 1 \in Nat
  BY DEF Campaign
<1> QED BY <1>1, <1>2

LEMMA CampaignClosed ==
  ASSUME NEW v \in Campaign, ClosedState(v.state) \in StrategyState
  PROVE  [v EXCEPT !.life = "closed", !.state = ClosedState(@), !.rev = @ + 1] \in Campaign
<1>1. \A n \in Nat, s \in StrategyState :
        [v EXCEPT !.life = "closed", !.state = s, !.rev = n] \in Campaign
  BY DEF Campaign
<1>2. v.rev + 1 \in Nat
  BY DEF Campaign
<1> QED BY <1>1, <1>2

LEMMA OpenedType == ASSUME TypeInv, NEW c \in Campaigns PROVE OpenedCampaign(c) \in Campaign
<1>1. camp[c] \in Campaign
  BY CampTyped
<1>2. [camp[c] EXCEPT !.life = "active", !.alloc = "active", !.rev = @ + 1] \in Campaign
  BY <1>1, CampaignOpened
<1> QED BY <1>1, <1>2 DEF OpenedCampaign

LEMMA ClosedType == ASSUME TypeInv, NEW c \in Campaigns PROVE ClosedCampaign(c) \in Campaign
<1>1. camp[c] \in Campaign /\ ClosedState(camp[c].state) \in StrategyState
  BY CampTyped, TransitionTypes
<1> QED BY <1>1, CampaignClosed DEF ClosedCampaign

LEMMA ReleaseType ==
  ASSUME TypeInv, NEW c, ReleaseAllocation(c)
  PROVE  camp' \in [Campaigns -> Campaign] /\ wallet' \in WalletRow
<1>1. c \in Campaigns => [camp[c] EXCEPT !.alloc = "released"] \in Campaign
  BY DEF TypeInv, TypeOK, Campaign
<1>2. camp' \in [Campaigns -> Campaign]
  BY <1>1, CampSet DEF ReleaseAllocation
<1> QED BY <1>2 DEF ReleaseAllocation, TypeInv, TypeOK, WalletRow

LEMMA TypeMaintain == ASSUME TypeInv, Maintain PROVE TypeInv'
<1>1. CASE MaintenanceRefresh
  <2>1. wallet' \in WalletRow
    BY <1>1 DEF MaintenanceRefresh, TypeInv, TypeOK, WalletRow
  <2>2. JobKept
    BY <1>1, JobSame DEF MaintenanceRefresh
  <2>3. WorkerKept
    BY <1>1, <2>2, WorkerSame DEF MaintenanceRefresh
  <2> QED BY <1>1, <2>1, <2>2, <2>3 DEF MaintenanceRefresh, TypeInv, TypeOK, JobKept, WorkerKept
<1>2. ASSUME NEW j \in JobIds, RecoverOpening(j) PROVE TypeInv'
  <2>1. camp' \in [Campaigns -> Campaign]
    BY <1>2, OpenedType, CampSet DEF RecoverOpening
  <2>2. JobKept
    BY <1>2, JobSame DEF RecoverOpening
  <2>3. WorkerKept
    BY <1>2, <2>2, WorkerSame DEF RecoverOpening
  <2> QED BY <1>2, <2>1, <2>2, <2>3 DEF RecoverOpening, TypeInv, TypeOK, JobKept, WorkerKept
<1>3. ASSUME NEW j \in JobIds, RecoverClose(j) PROVE TypeInv'
  <2>1. camp' \in [Campaigns -> Campaign]
    BY <1>3, ClosedType, CampSet DEF RecoverClose
  <2>2. JobKept
    BY <1>3, JobSame DEF RecoverClose
  <2>3. WorkerKept
    BY <1>3, <2>2, WorkerSame DEF RecoverClose
  <2> QED BY <1>3, <2>1, <2>2, <2>3 DEF RecoverClose, TypeInv, TypeOK, JobKept, WorkerKept
<1>4. ASSUME NEW j \in JobIds, RecoverRelease(j) PROVE TypeInv'
  <2>1. camp' \in [Campaigns -> Campaign] /\ wallet' \in WalletRow
    BY <1>4, ReleaseType DEF RecoverRelease
  <2>2. JobKept
    BY <1>4, JobSame DEF RecoverRelease
  <2>3. WorkerKept
    BY <1>4, <2>2, WorkerSame DEF RecoverRelease
  <2> QED BY <1>4, <2>1, <2>2, <2>3 DEF RecoverRelease, TypeInv, TypeOK, JobKept, WorkerKept
<1> QED BY <1>1, <1>2, <1>3, <1>4 DEF Maintain

-----------------------------------------------------------------------------
(* Type correctness: claims, the network and failures.                     *)

LEMMA LeaseType ==
  ASSUME NEW v \in JobRecord, NEW w \in Workers, NEW s \in JobStatus
  PROVE  /\ Lease(v, w, s) \in JobRecord
         /\ Lease(v, w, s).status = s /\ Lease(v, w, s).camp = v.camp
         /\ Lease(v, w, s).lease = w
BY DEF Lease, JobRecord

LEMMA BeginTurnType ==
  ASSUME TypeInv, JobKept, NEW w \in Workers, NEW j \in JobIds, job[j].status # "none",
         BeginTurn(w, j)
  PROVE  WorkerKept
<1>1. PICK r \in RowIds \union {0} :
        worker' = [worker EXCEPT ![w] = [At("init", j, r) EXCEPT
                     !.seen = IF r = 0 THEN "none" ELSE outbox[r].status]]
  BY DEF BeginTurn
<1> DEFINE t == [At("init", j, r) EXCEPT !.seen = IF r = 0 THEN "none" ELSE outbox[r].status]
<1>2. At("init", j, r) \in Turn /\ At("init", j, r).pc = "init" /\ At("init", j, r).job = j
  BY AtType DEF PCs
<1>3. (IF r = 0 THEN "none" ELSE outbox[r].status) \in OutboxStatus
  BY DEF TypeInv, TypeOK, Row, OutboxStatus
<1>4. t \in Turn /\ t.pc = "init" /\ t.job = j
  BY <1>2, <1>3 DEF Turn
<1>5. worker' = [worker EXCEPT ![w] = t]
  BY <1>1
<1> HIDE DEF t
<1>6. TurnOK(t)
  BY <1>4 DEF TurnOK, RowPCs
<1> QED BY <1>4, <1>5, <1>6, WorkerSet

LEMMA JobTyped ==
  ASSUME TypeInv, NEW j \in JobIds
  PROVE  job[j] \in JobRecord /\ job[j].status \in JobStatus
BY DEF TypeInv, TypeOK, JobRecord

LEMMA JobLeased ==
  ASSUME TypeInv, NEW j \in JobIds, job[j].status # "none", NEW w \in Workers,
         NEW s \in JobStatus \ {"none"}, job' = [job EXCEPT ![j] = Lease(job[j], w, s)]
  PROVE  JobKept
<1>1. /\ Lease(job[j], w, s) \in JobRecord
      /\ Lease(job[j], w, s).status # "none"
      /\ Lease(job[j], w, s).camp \in Campaigns
  BY JobTyped, LeaseType DEF TypeInv, JobsOK
<1> QED BY <1>1, JobSet

LEMMA TypeClaim == ASSUME TypeInv, NEW w \in Workers, Claim(w) PROVE TypeInv'
<1>1. CASE ClaimQueued(w)
  <2>1. PICK j \in JobIds :
          /\ QueuedPick(None, j)
          /\ job' = [job EXCEPT ![j] = Lease(@, w, "preflighting")]
          /\ ahead' = Dequeue(j)
          /\ BeginTurn(w, j)
    BY <1>1 DEF ClaimQueued
  <2>2. job[j].status = "queued"
    BY <2>1 DEF QueuedPick, Eligible
  <2>3. JobKept
    BY <2>1, <2>2, JobLeased DEF JobStatus, PendingStatus, ActiveStatus, InFlight
  <2>4. WorkerKept
    BY <2>1, <2>2, <2>3, BeginTurnType
  <2>5. faults' \in 0 .. MaxFaults
    BY <1>1, FaultType DEF ClaimQueued, Maintained
  <2> QED BY <1>1, <2>1, <2>3, <2>4, <2>5, DequeueType
          DEF ClaimQueued, TypeInv, TypeOK, JobKept, WorkerKept
<1>2. CASE ClaimYield(w)
  <2>1. PICK a \in JobIds, j \in JobIds :
          /\ ActiveJob(a) /\ YieldsTo(a, j)
          /\ job' = [job EXCEPT ![a].status = "queued", ![a].lease = None,
                                ![a].live = FALSE, ![a].ready = FALSE,
                                ![j] = Lease(@, w, "preflighting")]
          /\ ahead' = [Dequeue(j) EXCEPT ![a] = {i \in JobIds \ {j} : job[i].status = "queued"}]
          /\ BeginTurn(w, j)
    BY <1>2 DEF ClaimYield
  <2>2. job[j].status = "queued" /\ job[a].status = "blocked" /\ a # j
    BY <2>1 DEF YieldsTo, QueuedPick, Eligible
  <2> DEFINE u == [job[a] EXCEPT !.status = "queued", !.lease = None, !.live = FALSE, !.ready = FALSE]
             v == Lease(job[j], w, "preflighting")
  <2>3. u \in JobRecord /\ u.status = "queued" /\ u.camp = job[a].camp
    BY JobTyped DEF JobRecord, JobStatus, PendingStatus
  <2>4. v \in JobRecord /\ v.status = "preflighting" /\ v.camp = job[j].camp
    <3>1. "preflighting" \in JobStatus
      BY DEF JobStatus, PendingStatus, ActiveStatus, InFlight
    <3> QED BY <3>1, JobTyped, LeaseType
  <2>5. job' = [i \in JobIds |-> IF i = j THEN v ELSE IF i = a THEN u ELSE job[i]]
    BY <2>1, <2>2 DEF TypeInv, TypeOK
  <2> HIDE DEF u, v
  <2>6. JobKept
    BY <2>2, <2>3, <2>4, <2>5 DEF TypeInv, TypeOK, JobsOK, JobKept
  <2>7. WorkerKept
    BY <2>1, <2>2, <2>6, BeginTurnType
  <2>8. faults' \in 0 .. MaxFaults
    BY <1>2, FaultType DEF ClaimYield, Maintained
  <2>9. ahead' \in [JobIds -> SUBSET JobIds]
    BY <2>1, DequeueType
  <2> QED BY <1>2, <2>6, <2>7, <2>8, <2>9 DEF ClaimYield, TypeInv, TypeOK, JobKept, WorkerKept
<1>3. CASE ClaimActive(w)
  <2>1. PICK a \in JobIds :
          /\ ActiveJob(a)
          /\ job' = [job EXCEPT ![a] = Lease(@, w,
                       IF @.status = "blocked" THEN "reconciling" ELSE @.status)]
          /\ BeginTurn(w, a)
    BY <1>3 DEF ClaimActive
  <2> DEFINE s == IF job[a].status = "blocked" THEN "reconciling" ELSE job[a].status
  <2>2. s \in JobStatus \ {"none"} /\ job[a].status # "none"
    BY <2>1, JobTyped DEF ActiveJob, JobStatus, PendingStatus, ActiveStatus, InFlight
  <2>3. job' = [job EXCEPT ![a] = Lease(job[a], w, s)]
    BY <2>1
  <2> HIDE DEF s
  <2>4. JobKept
    BY <2>2, <2>3, JobLeased
  <2>5. WorkerKept
    BY <2>1, <2>2, <2>4, BeginTurnType
  <2>6. faults' \in 0 .. MaxFaults
    BY <1>3, FaultType DEF ClaimActive, Maintained
  <2> QED BY <1>3, <2>4, <2>5, <2>6 DEF ClaimActive, TypeInv, TypeOK, JobKept, WorkerKept
<1> QED BY <1>1, <1>2, <1>3 DEF Claim

LEMMA TypeNetwork == ASSUME TypeInv, Network PROVE TypeInv'
<1>1. ASSUME NEW r \in RowIds, Mine(r) PROVE TypeInv'
  <2>1. JobKept
    BY <1>1, JobSame DEF Mine
  <2>2. WorkerKept
    BY <1>1, <2>1, WorkerSame DEF Mine
  <2>3. PICK outcome \in {"success", "reverted"} :
          /\ IF outcome = "reverted" THEN Fault ELSE UNCHANGED faults
          /\ chain' = [nonce |-> chain.nonce + 1,
                       mempool |-> {q \in chain.mempool : outbox[q].nonce > chain.nonce},
                       result |-> [chain.result EXCEPT ![r] = outcome],
                       allowance |-> AllowanceAfter(outbox[r].plan, outcome)]
    BY <1>1 DEF Mine
  <2>4. faults' \in 0 .. MaxFaults
    BY <2>3, FaultType
  <2>5. /\ chain.nonce + 1 \in Nat
        /\ {q \in chain.mempool : outbox[q].nonce > chain.nonce} \in SUBSET RowIds
        /\ [chain.result EXCEPT ![r] = outcome] \in [RowIds -> {"none", "success", "reverted"}]
        /\ AllowanceAfter(outbox[r].plan, outcome) \in BOOLEAN
    <3>1. chain \in ChainState
      BY DEF TypeInv, TypeOK
    <3>2. chain.nonce \in Nat /\ chain.mempool \in SUBSET RowIds /\ chain.allowance \in BOOLEAN
          /\ chain.result \in [RowIds -> {"none", "success", "reverted"}]
      BY <3>1 DEF ChainState
    <3>3. AllowanceAfter(outbox[r].plan, outcome) \in {TRUE, FALSE, chain.allowance}
      BY DEF AllowanceAfter
    <3>4. AllowanceAfter(outbox[r].plan, outcome) \in BOOLEAN
      BY <3>2, <3>3
    <3> QED BY <3>2, <3>4
  <2>6. chain' \in ChainState
    BY <2>3, <2>5 DEF ChainState
  <2> QED BY <1>1, <2>1, <2>2, <2>4, <2>6 DEF Mine, TypeInv, TypeOK, JobKept, WorkerKept
<1>2. ASSUME NEW r \in RowIds, Drop(r) PROVE TypeInv'
  <2>1. JobKept
    BY <1>2, JobSame DEF Drop
  <2>2. WorkerKept
    BY <1>2, <2>1, WorkerSame DEF Drop
  <2>3. chain' \in ChainState
    BY <1>2 DEF Drop, TypeInv, TypeOK, ChainState
  <2>4. faults' \in 0 .. MaxFaults
    BY <1>2, FaultType DEF Drop
  <2> QED BY <1>2, <2>1, <2>2, <2>3, <2>4 DEF Drop, TypeInv, TypeOK, JobKept, WorkerKept
<1> QED BY <1>1, <1>2 DEF Network

\* The campaign of a running turn exists, and its row is what its step needs.
LEMMA TurnTyped ==
  ASSUME TypeInv, NEW w \in Workers, Turning(w)
  PROVE  /\ worker[w] \in Turn /\ worker[w].job \in JobIds
         /\ JobOf(w) \in JobRecord /\ JobOf(w).status # "none"
         /\ CampOf(w) \in Campaigns
         /\ StateOf(w) \in StrategyState
         /\ worker[w].pc \in RowPCs => worker[w].row \in RowIds /\ RowOf(w) \in Row
<1>1. worker[w] \in Turn /\ worker[w].job \in JobIds /\ JobOf(w) \in JobRecord
      /\ JobOf(w).status # "none"
  BY DEF TypeInv, TypeOK, TurnsOK, JobOf
<1>2. CampOf(w) \in Campaigns
  BY <1>1 DEF TypeInv, JobsOK, CampOf, JobOf
<1>3. StateOf(w) \in StrategyState
  BY <1>2, CampTyped DEF StateOf
<1> QED BY <1>1, <1>2, <1>3 DEF TypeInv, TypeOK, TurnsOK, RowOf

LEMMA TypeFailure == ASSUME TypeInv, NEW w \in Workers, Failure(w) PROVE TypeInv'
<1>1. CASE PlanError(w)
  <2>1. Turning(w)
    BY <1>1 DEF PlanError, Turning
  <2>2. PICK t \in Settlements(StateOf(w), JobOf(w).kind) :
          IF t = StateOf(w)
          THEN UNCHANGED camp /\ Goto(w, "block")
          ELSE /\ camp' = [camp EXCEPT ![CampOf(w)].state = t, ![CampOf(w)].rev = @ + 1]
               /\ Goto(w, IF t.phase = "exit" THEN "plan" ELSE "block")
    BY <1>1 DEF PlanError
  <2>3. t \in StrategyState
    BY <2>1, TurnTyped, SettlementsType
  <2>4. camp' \in [Campaigns -> Campaign]
    BY <2>2, <2>3, CampStateSet DEF TypeInv, TypeOK
  <2>5. JobKept
    BY <1>1, JobSame DEF PlanError
  <2>6. WorkerKept
    BY <2>1, <2>2, <2>5, GotoType DEF PCs, RowPCs
  <2>7. faults' \in 0 .. MaxFaults
    BY <1>1, FaultType DEF PlanError
  <2> QED BY <1>1, <2>4, <2>5, <2>6, <2>7 DEF PlanError, TypeInv, TypeOK, JobKept, WorkerKept
<1>2. CASE IntentExpired(w)
  <2>1. Turning(w) /\ worker[w].row \in RowIds
    BY <1>2, TurnTyped DEF IntentExpired, Turning, RowPCs
  <2>2. JobKept
    BY <1>2, JobSame DEF IntentExpired
  <2>3. WorkerKept
    BY <1>2, <2>1, <2>2, GotoType DEF IntentExpired, PCs
  <2>4. faults' \in 0 .. MaxFaults
    BY <1>2, FaultType DEF IntentExpired
  <2> QED BY <1>2, <2>2, <2>3, <2>4 DEF IntentExpired, TypeInv, TypeOK, JobKept, WorkerKept
<1>3. CASE Fail(w)
  <2>1. Turning(w)
    BY <1>3 DEF Fail
  <2>2. JobKept
    BY <1>3, JobSame DEF Fail
  <2>3. WorkerKept
    BY <1>3, <2>1, <2>2, GotoType, EndTurnType DEF Fail, PCs, RowPCs
  <2>4. faults' \in 0 .. MaxFaults
    BY <1>3, FaultType DEF Fail
  <2> QED BY <1>3, <2>2, <2>3, <2>4 DEF Fail, TypeInv, TypeOK, JobKept, WorkerKept
<1>4. CASE Crash(w)
  <2>1. JobKept
    BY <1>4, JobSame DEF Crash
  <2>2. WorkerKept
    BY <1>4, <2>1, EndTurnType DEF Crash
  <2>3. faults' \in 0 .. MaxFaults
    BY <1>4, FaultType DEF Crash
  <2> QED BY <1>4, <2>1, <2>2, <2>3 DEF Crash, TypeInv, TypeOK, JobKept, WorkerKept
<1> QED BY <1>1, <1>2, <1>3, <1>4 DEF Failure

-----------------------------------------------------------------------------
(* Type correctness: the steps of a turn.                                  *)

LEMMA ResumeType ==
  ASSUME TypeInv, JobKept, NEW w \in Workers, Turning(w), Resume(w)
  PROVE  WorkerKept
<1>1. worker[w] \in Turn
  BY TurnTyped
<1>2. worker[w].row \in RowIds \union {0}
  BY <1>1 DEF Turn
<1>3. CASE worker[w].row = 0
  <2>1. Goto(w, "plan")
    BY <1>3 DEF Resume
  <2> QED BY <2>1, GotoType DEF PCs, RowPCs
<1>4. CASE worker[w].row # 0 /\ worker[w].seen \in {"confirmed", "reverted"}
  <2>1. Goto(w, "effect")
    BY <1>4 DEF Resume
  <2> QED BY <1>2, <1>4, <2>1, GotoType DEF PCs, RowPCs
<1>5. CASE worker[w].row # 0 /\ worker[w].seen = "prepared"
  <2>1. Goto(w, "verify")
    BY <1>5 DEF Resume
  <2> QED BY <1>2, <1>5, <2>1, GotoType DEF PCs, RowPCs
<1>6. CASE worker[w].row # 0 /\ worker[w].seen \notin {"confirmed", "reverted", "prepared"}
  <2>1. Goto(w, "raw")
    BY <1>6 DEF Resume
  <2> QED BY <1>2, <1>6, <2>1, GotoType DEF PCs, RowPCs
<1> QED BY <1>3, <1>4, <1>5, <1>6

LEMMA RiskyType == ASSUME NEW s, NEW plan, NEW b \in RiskyAfter(s, plan) PROVE b \in BOOLEAN
BY DEF RiskyAfter

LEMMA CampaignEffect ==
  ASSUME NEW v \in Campaign, NEW s \in StrategyState
  PROVE  [v EXCEPT !.state = s, !.rev = @ + 1, !.costs = @ + 1] \in Campaign
<1>1. \A n \in Nat, m \in Nat : [v EXCEPT !.state = s, !.rev = n, !.costs = m] \in Campaign
  BY DEF Campaign
<1>2. v.rev + 1 \in Nat /\ v.costs + 1 \in Nat
  BY DEF Campaign
<1> QED BY <1>1, <1>2

LEMMA EffectedType ==
  ASSUME TypeInv, NEW c \in Campaigns, NEW kind, NEW r \in RowIds,
         NEW outcome \in {"success", "reverted"}, NEW risky \in BOOLEAN
  PROVE  Effected(c, kind, r, outcome, risky) \in Campaign
<1>1. camp[c] \in Campaign /\ camp[c].state \in StrategyState
  BY CampTyped
<1>2. outbox[r].plan \in Plans
  BY DEF TypeInv, TypeOK, Row
<1>3. ReceiptEffect(camp[c].state, kind, outbox[r].plan, outcome, risky) \in StrategyState
  BY <1>1, <1>2, ReceiptEffectType
<1> QED BY <1>1, <1>3, CampaignEffect DEF Effected

LEMMA RecoveryType ==
  ASSUME NEW v \in Campaign, NEW kind, NEW plan
  PROVE  Recovery(v, kind, plan) \subseteq Campaign
<1>1. v.state \in StrategyState
  BY DEF Campaign
<1>2. RecenterToRetainExit(v.state) \in StrategyState
  BY <1>1, TransitionTypes
<1>3. \A n \in Nat, s \in StrategyState : [v EXCEPT !.state = s, !.rev = n] \in Campaign
  BY DEF Campaign
<1>4. v.rev + 1 \in Nat
  BY DEF Campaign
<1>5. [v EXCEPT !.state = RecenterToRetainExit(@), !.rev = @ + 1] \in Campaign
  BY <1>2, <1>3, <1>4
<1> QED BY <1>5 DEF Recovery

LEMMA TypePrepareJob ==
  ASSUME TypeInv, NEW w \in Workers, NEW swap \in {"none", "todo"},
         InitializeOpening(w, swap) \/ PrepareManagement(w, swap)
  PROVE  TypeInv'
<1>1. Turning(w)
  BY DEF InitializeOpening, PrepareManagement, Turning
<1> DEFINE c == CampOf(w)
<1>2. c \in Campaigns /\ camp[c] \in Campaign /\ StateOf(w) = camp[c].state
      /\ StateOf(w) \in StrategyState
  BY <1>1, TurnTyped, CampTyped DEF StateOf
<1>3. CASE InitializeOpening(w, swap)
  <2>1. [camp[c] EXCEPT !.state = EntryState(swap), !.rev = 1] \in Campaign
    BY <1>2, TransitionTypes DEF Campaign
  <2>2. camp' \in [Campaigns -> Campaign]
    <3>1. CASE camp' = camp
      BY <3>1 DEF TypeInv, TypeOK
    <3>2. CASE camp' = [camp EXCEPT ![c].state = EntryState(swap), ![c].rev = 1]
      <4>1. camp' = [camp EXCEPT ![c] = [camp[c] EXCEPT !.state = EntryState(swap), !.rev = 1]]
        BY <1>2, <3>2 DEF TypeInv, TypeOK, Campaign
      <4> QED BY <2>1, <4>1, CampSet
    <3> QED BY <1>3, <3>1, <3>2 DEF InitializeOpening
  <2>3. JobKept
    BY <1>3, JobSame DEF InitializeOpening
  <2>4. WorkerKept
    BY <1>1, <1>3, <2>3, ResumeType DEF InitializeOpening
  <2> QED BY <1>3, <2>2, <2>3, <2>4 DEF InitializeOpening, TypeInv, TypeOK, JobKept, WorkerKept
<1>4. CASE PrepareManagement(w, swap)
  <2>1. JobKept /\ camp' \in [Campaigns -> Campaign]
    <3>1. CASE JobOf(w).started
      BY <1>4, <3>1, JobSame DEF PrepareManagement, TypeInv, TypeOK
    <3>2. CASE ~JobOf(w).started
      <4>1. ManagementTransition(StateOf(w), JobOf(w).kind, swap) \in StrategyState
        BY <1>2, TransitionTypes
      <4>2. camp' = [camp EXCEPT ![c].state = ManagementTransition(StateOf(w), JobOf(w).kind, swap),
                                 ![c].rev = camp[c].rev + 1]
        BY <1>2, <1>4, <3>2 DEF PrepareManagement, StateOf
      <4>3. camp' \in [Campaigns -> Campaign]
        BY <4>1, <4>2, CampStateSet
      <4> DEFINE v == [JobOf(w) EXCEPT !.started = TRUE]
      <4>4. v \in JobRecord /\ v.status # "none" /\ v.camp \in Campaigns
        BY <1>1, <1>2, TurnTyped DEF JobRecord, CampOf
      <4>5. job' = [job EXCEPT ![worker[w].job] = v]
        BY <1>4, <3>2 DEF PrepareManagement, JobOf
      <4> HIDE DEF v
      <4> QED BY <1>1, <4>3, <4>4, <4>5, TurnTyped, JobSet
    <3> QED BY <3>1, <3>2
  <2>2. WorkerKept
    BY <1>1, <1>4, <2>1, ResumeType DEF PrepareManagement
  <2> QED BY <1>4, <2>1, <2>2 DEF PrepareManagement, TypeInv, TypeOK, JobKept, WorkerKept
<1> QED BY <1>3, <1>4

LEMMA TypeRejectReview == ASSUME TypeInv, NEW w \in Workers, RejectReview(w) PROVE TypeInv'
<1>1. Turning(w)
  BY DEF RejectReview, Turning
<1>2. JobKept
  BY <1>1, JobSame, JobStatusSet, TurnTyped DEF RejectReview, JobOf, JobStatus
<1>3. WorkerKept
  BY <1>1, <1>2, GotoType, EndTurnType DEF RejectReview, PCs, RowPCs
<1>4. faults' \in 0 .. MaxFaults
  BY FaultType DEF RejectReview
<1> QED BY <1>2, <1>3, <1>4 DEF RejectReview, TypeInv, TypeOK, JobKept, WorkerKept

LEMMA TypeResumeEffect == ASSUME TypeInv, NEW w \in Workers, ResumeEffect(w) PROVE TypeInv'
<1> DEFINE r == worker[w].row
           c == CampOf(w)
<1>1. Turning(w) /\ r \in RowIds /\ c \in Campaigns
  BY TurnTyped DEF ResumeEffect, Turning, RowPCs
<1>2. PICK risky \in RiskyAfter(StateOf(w), RowOf(w).plan) :
        LET applied == Effected(c, JobOf(w).kind, r, Outcome(r), risky)
            settled == IF RowOf(w).status = "confirmed" THEN {applied}
                       ELSE Recovery(applied, JobOf(w).kind, RowOf(w).plan)
        IN  IF settled = {}
            THEN camp' = [camp EXCEPT ![c] = applied] /\ Goto(w, "block")
            ELSE /\ \E record \in settled : camp' = [camp EXCEPT ![c] = record]
                 /\ Goto(w, "plan")
  BY DEF ResumeEffect
<1> DEFINE applied == Effected(c, JobOf(w).kind, r, Outcome(r), risky)
           settled == IF RowOf(w).status = "confirmed" THEN {applied}
                      ELSE Recovery(applied, JobOf(w).kind, RowOf(w).plan)
<1>3. Outcome(r) \in {"success", "reverted"} /\ risky \in BOOLEAN
  BY RiskyType DEF Outcome
<1>4. applied \in Campaign
  BY <1>1, <1>3, EffectedType
<1>5. settled \subseteq Campaign
  BY <1>4, RecoveryType
<1>6. /\ \E record \in settled \union {applied} : camp' = [camp EXCEPT ![c] = record]
      /\ Goto(w, "block") \/ Goto(w, "plan")
  BY <1>2
<1> HIDE DEF applied, settled
<1>7. camp' \in [Campaigns -> Campaign]
  BY <1>4, <1>5, <1>6, CampSet
<1>8. JobKept
  BY JobSame DEF ResumeEffect
<1>9. WorkerKept
  BY <1>1, <1>6, <1>8, GotoType DEF PCs, RowPCs
<1>10. effects' \in SUBSET RowIds
  BY <1>1 DEF ResumeEffect, TypeInv, TypeOK
<1> QED BY <1>7, <1>8, <1>9, <1>10 DEF ResumeEffect, TypeInv, TypeOK, JobKept, WorkerKept

LEMMA TypePlan == ASSUME TypeInv, NEW w \in Workers, Plan(w) PROVE TypeInv'
<1> DEFINE c == CampOf(w)
           t == worker[w]
           stage == NextStage(StateOf(w), chain.allowance, Shared(c))
           proposal == [At("prepare", t.job, t.row) EXCEPT !.plan = stage,
                          !.rev = camp[c].rev, !.retry = Retries(t.job), !.nonce = wallet.nonce]
<1>1. Turning(w) /\ c \in Campaigns /\ StateOf(w) \in StrategyState
      /\ t \in Turn /\ t.job \in JobIds /\ JobOf(w).status # "none"
  BY TurnTyped DEF Plan, Turning
<1>2. JobKept
  BY JobSame DEF Plan
<1>3. wallet' \in WalletRow
  <2>1. RefreshedStatus(w) \in {"available", "blocked"}
    BY DEF RefreshedStatus, TypeInv, TypeOK, WalletRow
  <2> QED BY <2>1 DEF Plan, TypeInv, TypeOK, WalletRow
<1>4. \/ Goto(w, "block") \/ Goto(w, "finish")
      \/ stage # "complete" /\ worker' = [worker EXCEPT ![w] = proposal]
  BY DEF Plan
<1>5. CASE Goto(w, "block") \/ Goto(w, "finish")
  <2>1. WorkerKept
    BY <1>1, <1>2, <1>5, GotoType DEF PCs, RowPCs
  <2> QED BY <1>2, <1>3, <2>1 DEF Plan, TypeInv, TypeOK, JobKept, WorkerKept
<1>6. CASE stage # "complete" /\ worker' = [worker EXCEPT ![w] = proposal]
  <2>1. stage \in Plans
    <3>1. chain.allowance \in BOOLEAN
      BY DEF TypeInv, TypeOK, ChainState
    <3>2. Shared(c) \in BOOLEAN
      BY DEF Shared
    <3> QED BY <1>1, <1>6, <3>1, <3>2, NextStageType
  <2>2. camp[c].rev \in Nat /\ Retries(t.job) \in Nat /\ wallet.nonce \in Nat
    BY <1>1, CampTyped, RetriesType DEF TypeInv, TypeOK, WalletRow
  <2>3. t.row \in RowIds \union {0}
    BY <1>1 DEF Turn
  <2>4. At("prepare", t.job, t.row) \in Turn /\ At("prepare", t.job, t.row).pc = "prepare"
        /\ At("prepare", t.job, t.row).job = t.job
    BY <1>1, <2>3, AtType DEF PCs
  <2> HIDE DEF stage
  <2>5. proposal \in Turn /\ proposal.pc = "prepare" /\ proposal.job = t.job
        /\ proposal.plan \in Plans
    BY <2>1, <2>2, <2>4 DEF Turn
  <2> HIDE DEF proposal
  <2>6. TurnOK(proposal)
    BY <1>1, <2>5 DEF TurnOK, RowPCs, JobOf
  <2>7. WorkerKept
    BY <1>2, <1>6, <2>5, <2>6, WorkerSet
  <2> QED BY <1>2, <1>3, <2>7 DEF Plan, TypeInv, TypeOK, JobKept, WorkerKept
<1> QED BY <1>4, <1>5, <1>6

LEMMA PermissionType ==
  ASSUME NEW s, NEW kind PROVE ExitPermission(s, kind) \in {"none", "exit", "convert"}
BY DEF ExitPermission

LEMMA TypePrepareStage == ASSUME TypeInv, NEW w \in Workers, PrepareStage(w) PROVE TypeInv'
<1> DEFINE t == worker[w]
<1>1. Turning(w) /\ t \in Turn /\ t.job \in JobIds /\ JobOf(w).status # "none"
  BY TurnTyped DEF PrepareStage, Turning
<1>2. t.plan \in Plans
  BY <1>1 DEF PrepareStage, TypeInv, TurnsOK
<1>3. PICK r \in RowIds :
        /\ outbox' = [outbox EXCEPT ![r] =
             [job |-> t.job, plan |-> t.plan, rev |-> t.rev, retry |-> t.retry, nonce |-> t.nonce,
              gen |-> wallet.gen, exit |-> ExitPermission(StateOf(w), JobOf(w).kind),
              status |-> "prepared", cleanup |-> "none"]]
        /\ worker' = [worker EXCEPT ![w] = At("verify", t.job, r)]
  BY DEF PrepareStage
<1>4. JobKept
  BY <1>1, JobStatusSet DEF PrepareStage, JobOf, JobStatus, PendingStatus, ActiveStatus, InFlight
<1>5. outbox' \in [RowIds -> Row]
  <2> DEFINE v == [job |-> t.job, plan |-> t.plan, rev |-> t.rev, retry |-> t.retry,
                   nonce |-> t.nonce, gen |-> wallet.gen,
                   exit |-> ExitPermission(StateOf(w), JobOf(w).kind),
                   status |-> "prepared", cleanup |-> "none"]
  <2>1. t.rev \in Nat /\ t.retry \in Nat /\ t.nonce \in Nat /\ wallet.gen \in Nat
    BY <1>1 DEF Turn, TypeInv, TypeOK, WalletRow
  <2>2. v \in Row
    BY <1>1, <1>2, <2>1, PermissionType DEF Row, OutboxStatus
  <2>3. outbox' = [outbox EXCEPT ![r] = v]
    BY <1>3
  <2> HIDE DEF v
  <2> QED BY <2>2, <2>3, RowSet
<1>6. WorkerKept
  <2>1. At("verify", t.job, r) \in Turn /\ At("verify", t.job, r).pc = "verify"
        /\ At("verify", t.job, r).job = t.job /\ At("verify", t.job, r).row = r
    BY <1>1, AtType DEF PCs
  <2>2. TurnOK(At("verify", t.job, r))
    BY <1>1, <2>1 DEF TurnOK, JobOf
  <2> QED BY <1>3, <1>4, <2>1, <2>2, WorkerSet
<1> QED BY <1>4, <1>5, <1>6 DEF PrepareStage, TypeInv, TypeOK, JobKept, WorkerKept

\* The steps that change nothing but the turn itself, and an outbox row.
LEMMA TypeSign ==
  ASSUME TypeInv, NEW w \in Workers,
         \/ PrepareRefused(w) \/ VerifyIntent(w) \/ CancelPrepared(w) \/ Sign(w)
         \/ RecordSigned(w) \/ ReadRaw(w) \/ AwaitReceipt(w) \/ ReconcileNothing(w)
  PROVE  TypeInv'
<1>1. Turning(w)
  BY DEF PrepareRefused, VerifyIntent, CancelPrepared, Sign, RecordSigned, ReadRaw, AwaitReceipt,
         ReconcileNothing, Turning
<1>2. JobKept
  BY JobSame DEF PrepareRefused, VerifyIntent, CancelPrepared, Sign, RecordSigned, ReadRaw,
                 AwaitReceipt, ReconcileNothing
<1>3. CASE PrepareRefused(w)
  <2>1. WorkerKept
    BY <1>1, <1>2, <1>3, GotoType DEF PrepareRefused, PCs, RowPCs
  <2> QED BY <1>2, <1>3, <2>1 DEF PrepareRefused, TypeInv, TypeOK, JobKept, WorkerKept
<1>4. CASE VerifyIntent(w)
  <2>1. worker[w].row \in RowIds
    BY <1>1, <1>4, TurnTyped DEF VerifyIntent, RowPCs
  <2>2. WorkerKept
    BY <1>1, <1>2, <1>4, <2>1, GotoType DEF VerifyIntent, PCs
  <2> QED BY <1>2, <1>4, <2>2 DEF VerifyIntent, TypeInv, TypeOK, JobKept, WorkerKept
<1>5. CASE CancelPrepared(w)
  <2>1. WorkerKept
    BY <1>1, <1>2, <1>5, GotoType DEF CancelPrepared, PCs, RowPCs
  <2>2. outbox' \in [RowIds -> Row]
    BY <1>5, RowStatusSet DEF CancelPrepared, OutboxStatus, TypeInv, TypeOK
  <2> QED BY <1>2, <1>5, <2>1, <2>2 DEF CancelPrepared, TypeInv, TypeOK, JobKept, WorkerKept
<1>6. CASE Sign(w)
  <2>1. worker[w].row \in RowIds
    BY <1>1, <1>6, TurnTyped DEF Sign, RowPCs
  <2>2. WorkerKept
    BY <1>1, <1>2, <1>6, <2>1, GotoType DEF Sign, PCs
  <2> QED BY <1>2, <1>6, <2>2 DEF Sign, TypeInv, TypeOK, JobKept, WorkerKept
<1>7. CASE RecordSigned(w)
  <2>1. worker[w].row \in RowIds
    BY <1>1, <1>7, TurnTyped DEF RecordSigned, RowPCs
  <2>2. WorkerKept
    BY <1>1, <1>2, <1>7, <2>1, GotoType DEF RecordSigned, PCs
  <2>3. outbox' \in [RowIds -> Row]
    BY <1>7, RowStatusSet DEF RecordSigned, OutboxStatus, TypeInv, TypeOK
  <2> QED BY <1>2, <1>7, <2>2, <2>3 DEF RecordSigned, TypeInv, TypeOK, JobKept, WorkerKept
<1>8. CASE ReadRaw(w)
  <2>1. worker[w].row \in RowIds
    BY <1>1, <1>8, TurnTyped DEF ReadRaw, RowPCs
  <2>2. Goto(w, "block") \/ Goto(w, "reconcile") \/ Goto(w, "confirming")
    BY <1>8 DEF ReadRaw
  <2>3. WorkerKept
    BY <1>1, <1>2, <2>1, <2>2, GotoType DEF PCs
  <2>4. faults' \in 0 .. MaxFaults
    BY <1>8, FaultType DEF ReadRaw
  <2> QED BY <1>2, <1>8, <2>3, <2>4 DEF ReadRaw, TypeInv, TypeOK, JobKept, WorkerKept
<1>9. CASE AwaitReceipt(w)
  <2>1. worker[w].row \in RowIds
    BY <1>1, <1>9, TurnTyped DEF AwaitReceipt, RowPCs
  <2>2. WorkerKept
    BY <1>1, <1>2, <1>9, <2>1, GotoType DEF AwaitReceipt, PCs
  <2> QED BY <1>2, <1>9, <2>2 DEF AwaitReceipt, TypeInv, TypeOK, JobKept, WorkerKept
<1>10. CASE ReconcileNothing(w)
  <2>1. worker[w].row \in RowIds
    BY <1>1, <1>10, TurnTyped DEF ReconcileNothing, RowPCs
  <2>2. WorkerKept
    BY <1>1, <1>2, <1>10, <2>1, GotoType DEF ReconcileNothing, PCs
  <2> QED BY <1>2, <1>10, <2>2 DEF ReconcileNothing, TypeInv, TypeOK, JobKept, WorkerKept
<1> QED BY <1>3, <1>4, <1>5, <1>6, <1>7, <1>8, <1>9, <1>10

LEMMA TypePublish ==
  ASSUME TypeInv, NEW w \in Workers, BeginPublish(w) \/ Publish(w)
  PROVE  TypeInv'
<1>1. Turning(w) /\ worker[w].row \in RowIds /\ worker[w].job \in JobIds /\ JobOf(w).status # "none"
  BY TurnTyped DEF BeginPublish, Publish, Turning, RowPCs
<1>2. CASE BeginPublish(w)
  <2>1. JobKept
    BY <1>1, <1>2, JobSame, JobStatusSet
       DEF BeginPublish, JobOf, JobStatus, PendingStatus, ActiveStatus, InFlight
  <2>2. WorkerKept
    BY <1>1, <1>2, <2>1, GotoType DEF BeginPublish, PCs
  <2> QED BY <1>2, <2>1, <2>2 DEF BeginPublish, TypeInv, TypeOK, JobKept, WorkerKept
<1>3. CASE Publish(w)
  <2>1. JobKept
    BY <1>3, JobSame DEF Publish
  <2>2. WorkerKept
    BY <1>1, <1>3, <2>1, GotoType DEF Publish, PCs
  <2>3. faults' \in 0 .. MaxFaults
    BY <1>3, FaultType DEF Publish
  <2>4. chain' \in ChainState
    BY <1>1, <1>3 DEF Publish, TypeInv, TypeOK, ChainState
  <2> QED BY <1>3, <2>1, <2>2, <2>3, <2>4 DEF Publish, TypeInv, TypeOK, JobKept, WorkerKept
<1> QED BY <1>2, <1>3

LEMMA TypeReconcile == ASSUME TypeInv, NEW w \in Workers, Reconcile(w) PROVE TypeInv'
<1> DEFINE r == worker[w].row
           c == CampOf(w)
<1>1. /\ Turning(w) /\ r \in RowIds /\ c \in Campaigns
      /\ worker[w].job \in JobIds /\ JobOf(w).status # "none"
  BY TurnTyped DEF Reconcile, Turning, RowPCs
<1>2. Verdict(r) \in {"success", "reverted"}
  BY <1>1 DEF Reconcile, CanReconcile, Canonical, Verdict, TypeInv, TypeOK, ChainState
<1>3. camp' \in [Campaigns -> Campaign]
  <2>1. PICK risky \in RiskyAfter(StateOf(w), RowOf(w).plan) :
          camp' = [camp EXCEPT ![c] = Effected(c, JobOf(w).kind, r, Verdict(r), risky)]
    BY DEF Reconcile
  <2>2. risky \in BOOLEAN
    BY RiskyType
  <2> DEFINE outcome == Verdict(r)
  <2>3. outcome \in {"success", "reverted"}
    BY <1>2
  <2> HIDE DEF outcome
  <2>4. Effected(c, JobOf(w).kind, r, outcome, risky) \in Campaign
    BY <1>1, <2>2, <2>3, EffectedType
  <2> QED BY <2>1, <2>4, CampSet DEF outcome
<1>4. effects' \in SUBSET RowIds
  BY <1>1 DEF Reconcile, TypeInv, TypeOK
<1>5. wallet' \in WalletRow /\ faults' \in 0 .. MaxFaults
  <2>1. PICK status \in {"available", "blocked"} :
          /\ wallet' = ReceiptWallet(r, status)
          /\ IF status = "blocked" THEN Fault ELSE UNCHANGED faults
    BY DEF Reconcile
  <2>2. outbox[r].nonce + 1 \in Nat /\ wallet.gen + 1 \in Nat
    BY <1>1 DEF TypeInv, TypeOK, Row, WalletRow
  <2>3. wallet' \in WalletRow
    BY <2>1, <2>2 DEF ReceiptWallet, WalletRow
  <2> QED BY <2>1, <2>3, FaultType
<1>6. outbox' \in [RowIds -> Row]
  BY RowStatusSet DEF Reconcile, OutboxStatus
<1>7. JobKept
  BY <1>1, JobStatusSet DEF Reconcile, JobOf, JobStatus, PendingStatus, ActiveStatus, InFlight
<1>8. WorkerKept
  BY <1>1, <1>7, GotoType DEF Reconcile, PCs
<1> QED BY <1>3, <1>4, <1>5, <1>6, <1>7, <1>8
        DEF Reconcile, TypeInv, TypeOK, JobKept, WorkerKept

\* Handing back the lease keeps the job otherwise as it was.
LEMMA JobReleased ==
  ASSUME NEW v \in JobRecord, NEW s \in JobStatus
  PROVE  /\ [v EXCEPT !.lease = None, !.live = FALSE] \in JobRecord
         /\ [v EXCEPT !.status = s, !.lease = None, !.live = FALSE] \in JobRecord
BY DEF JobRecord

LEMMA TypeSettle == ASSUME TypeInv, NEW w \in Workers, Settle(w) PROVE TypeInv'
<1> DEFINE r == worker[w].row
           c == CampOf(w)
           j == worker[w].job
<1>1. /\ Turning(w) /\ r \in RowIds /\ c \in Campaigns
      /\ j \in JobIds /\ job[j] \in JobRecord /\ job[j].status # "none" /\ job[j].camp \in Campaigns
  BY TurnTyped DEF Settle, Turning, RowPCs, JobOf, CampOf
<1>2. camp' \in [Campaigns -> Campaign]
  <2>1. PICK risky \in RiskyAfter(StateOf(w), RowOf(w).plan) :
          camp' = [camp EXCEPT ![c] = Effected(c, JobOf(w).kind, r, Outcome(r), risky)]
    BY DEF Settle
  <2>2. Outcome(r) \in {"success", "reverted"}
    BY DEF Outcome
  <2>3. Effected(c, JobOf(w).kind, r, Outcome(r), risky) \in Campaign
    BY <1>1, <2>2, RiskyType, EffectedType
  <2> QED BY <2>1, <2>3, CampSet
<1>3. JobKept
  <2>1. CASE UNCHANGED job
    BY <2>1, JobSame
  <2>2. CASE job' = [job EXCEPT ![j].lease = None, ![j].live = FALSE]
    <3> DEFINE v == [job[j] EXCEPT !.lease = None, !.live = FALSE]
    <3>1. v \in JobRecord /\ v.status = job[j].status /\ v.camp = job[j].camp
      BY <1>1, JobReleased, JobTyped DEF JobRecord
    <3>2. job' = [job EXCEPT ![j] = v]
      BY <1>1, <2>2 DEF TypeInv, TypeOK
    <3> HIDE DEF v
    <3> QED BY <1>1, <3>1, <3>2, JobSet
  <2> QED BY <2>1, <2>2 DEF Settle
<1>4. WorkerKept
  BY <1>1, <1>3, GotoType, EndTurnType DEF Settle, PCs, RowPCs
<1>5. effects' \in SUBSET RowIds
  BY <1>1 DEF Settle, TypeInv, TypeOK
<1> QED BY <1>2, <1>3, <1>4, <1>5 DEF Settle, TypeInv, TypeOK, JobKept, WorkerKept

LEMMA TypeFinish == ASSUME TypeInv, NEW w \in Workers, Finish(w) PROVE TypeInv'
<1> DEFINE j == worker[w].job
           final == {r \in Rows(j) : IsFinalRow(JobOf(w).kind, r)}
<1>1. /\ Turning(w) /\ j \in JobIds
      /\ job[j] \in JobRecord /\ job[j].status # "none" /\ job[j].camp \in Campaigns
  BY TurnTyped DEF Finish, Turning, JobOf, CampOf
<1>2. CASE CanFinish(w)
  <2>1. JobKept
    <3> DEFINE v == [job[j] EXCEPT !.status = "succeeded", !.lease = None, !.live = FALSE]
    <3>1. v \in JobRecord /\ v.status = "succeeded" /\ v.camp = job[j].camp
      BY <1>1, JobReleased DEF JobRecord, JobStatus
    <3>2. job' = [job EXCEPT ![j].status = "succeeded", ![j].lease = None, ![j].live = FALSE]
      BY <1>2 DEF Finish
    <3>3. job' = [job EXCEPT ![j] = v]
      BY <1>1, <3>2 DEF TypeInv, TypeOK
    <3> HIDE DEF v
    <3> QED BY <1>1, <3>1, <3>3, JobSet
  <2>2. PICK r \in final : outbox' = [outbox EXCEPT ![r].cleanup = Custody(w)]
    BY <1>2 DEF Finish
  <2>3. r \in RowIds /\ outbox[r] \in Row /\ Custody(w) \in {"managed", "closed_empty"}
    BY <2>2 DEF Rows, TypeInv, TypeOK, Custody
  <2>4. [outbox[r] EXCEPT !.cleanup = Custody(w)] \in Row
    BY <2>3 DEF Row
  <2>5. outbox' \in [RowIds -> Row]
    BY <2>2, <2>4, RowSet
  <2>6. WorkerKept
    BY <1>1, <1>2, <2>1, GotoType, EndTurnType DEF Finish, PCs, RowPCs
  <2> QED BY <2>1, <2>5, <2>6 DEF Finish, TypeInv, TypeOK, JobKept, WorkerKept
<1>3. CASE ~CanFinish(w)
  <2>1. JobKept
    BY <1>3, JobSame DEF Finish
  <2>2. WorkerKept
    BY <1>1, <1>3, <2>1, GotoType DEF Finish, PCs, RowPCs
  <2> QED BY <1>3, <2>1, <2>2 DEF Finish, TypeInv, TypeOK, JobKept, WorkerKept
<1> QED BY <1>2, <1>3

LEMMA TypeHandoff ==
  ASSUME TypeInv, NEW w \in Workers, Lifecycle(w) \/ Release(w) \/ BlockTurn(w)
  PROVE  TypeInv'
<1>1. /\ Turning(w) /\ worker[w].job \in JobIds /\ JobOf(w).status # "none"
      /\ CampOf(w) \in Campaigns
  BY TurnTyped DEF Lifecycle, Release, BlockTurn, Turning
<1>2. CASE Lifecycle(w)
  <2>1. camp' \in [Campaigns -> Campaign]
    BY <1>1, <1>2, OpenedType, ClosedType, CampSet DEF Lifecycle, TypeInv, TypeOK
  <2>2. JobKept
    BY <1>2, JobSame DEF Lifecycle
  <2>3. WorkerKept
    BY <1>1, <1>2, <2>2, GotoType, EndTurnType DEF Lifecycle, PCs, RowPCs
  <2> QED BY <1>2, <2>1, <2>2, <2>3 DEF Lifecycle, TypeInv, TypeOK, JobKept, WorkerKept
<1>3. CASE Release(w)
  <2>1. camp' \in [Campaigns -> Campaign] /\ wallet' \in WalletRow
    BY <1>3, ReleaseType DEF Release, TypeInv, TypeOK
  <2>2. JobKept
    BY <1>3, JobSame DEF Release
  <2>3. WorkerKept
    BY <1>3, <2>2, EndTurnType DEF Release
  <2> QED BY <1>3, <2>1, <2>2, <2>3 DEF Release, TypeInv, TypeOK, JobKept, WorkerKept
<1>4. CASE BlockTurn(w)
  <2>1. JobKept
    BY <1>1, <1>4, JobSame, JobStatusSet
       DEF BlockTurn, JobOf, JobStatus, PendingStatus, ActiveStatus
  <2>2. WorkerKept
    BY <1>4, <2>1, EndTurnType DEF BlockTurn
  <2> QED BY <1>4, <2>1, <2>2 DEF BlockTurn, TypeInv, TypeOK, JobKept, WorkerKept
<1> QED BY <1>2, <1>3, <1>4

LEMMA TypeStep == ASSUME TypeInv, NEW w \in Workers, Step(w) PROVE TypeInv'
BY TypePrepareJob, TypeRejectReview, TypeResumeEffect, TypePlan, TypePrepareStage, TypeSign,
   TypePublish, TypeReconcile, TypeSettle, TypeFinish, TypeHandoff DEF Step

LEMMA TypeNext == ASSUME TypeInv, [Next]_vars PROVE TypeInv'
<1>1. CASE Next
  BY <1>1, TypeOperator, TypeManager, TypeClock, TypeMaintain, TypeNetwork, TypeClaim, TypeStep,
     TypeFailure DEF Next
<1>2. CASE UNCHANGED vars
  <2>1. JobKept /\ UNCHANGED worker
    BY <1>2, JobSame DEF vars
  <2>2. WorkerKept
    BY <2>1, WorkerSame
  <2> QED BY <1>2, <2>1, <2>2 DEF vars, TypeInv, TypeOK, JobKept, WorkerKept
<1> QED BY <1>1, <1>2

(***************************************************************************)
(* Type correctness, with what a turn may rely on: its job exists and      *)
(* belongs to a campaign, and its outbox row and proposal are there at the *)
(* steps of execute that read them.                                        *)
(***************************************************************************)
THEOREM TypeCorrect == Spec => []TypeInv
BY TypeInit, TypeNext, PTL DEF Spec

-----------------------------------------------------------------------------
(***************************************************************************)
(* One lane.  OneLane is not inductive.  What keeps it: only an active job *)
(* has a lease (so a turn that owns a job acts for the active one), a turn *)
(* works on a row of its own job, a turn that is about to freeze a stage   *)
(* and still holds the lease has no open row, and an open row is the       *)
(* newest of the outbox, so that the newest row a claim sees is the open   *)
(* one if there is one.                                                    *)
(***************************************************************************)
OpenRow(r) == outbox[r].status \in {"prepared", "signed"}

LeaseInv == \A j \in JobIds : job[j].status \in {"none", "queued"} => job[j].lease = None

RowInv ==
  \A w \in Workers :
    Turning(w) /\ worker[w].row # 0 =>
      outbox[worker[w].row].job = worker[w].job /\ outbox[worker[w].row].status # "none"

BeforeFreeze(t) ==
  \/ t.pc \in {"effect", "plan", "prepare"}
  \/ t.pc = "init" /\ (t.row = 0 \/ t.seen \in {"confirmed", "reverted"})

FreezeInv ==
  \A w \in Workers :
    BeforeFreeze(worker[w]) /\ job[worker[w].job].lease = w =>
      \A r \in RowIds : OpenRow(r) => outbox[r].job # worker[w].job

NewestInv == \A q, r \in RowIds : OpenRow(r) /\ outbox[q].status # "none" => q <= r

PrefixInv == \A p, q \in RowIds : p < q /\ outbox[q].status # "none" => outbox[p].status # "none"

RowJobs == \A r \in RowIds : outbox[r].status # "none" => outbox[r].job \in JobIds

LaneInv == OneLane /\ RowJobs /\ LeaseInv /\ RowInv /\ FreezeInv /\ NewestInv /\ PrefixInv

(***************************************************************************)
(* The shape of nearly every step.  No job becomes active, none that keeps *)
(* an open row stops being active, and no lease is granted; no row is      *)
(* opened; and the turn stays on its job and row, without coming before a  *)
(* freeze if it was not there already.                                     *)
(***************************************************************************)
JobsLane ==
  /\ LeaseInv'
  /\ \A j \in JobIds :
       /\ ActiveJob(j)' => ActiveJob(j)
       /\ ActiveJob(j) /\ (\E r \in RowIds : OpenRow(r)' /\ outbox[r].job = j) => ActiveJob(j)'
       /\ job'[j].lease \in {job[j].lease, None}

RowsLane ==
  \A r \in RowIds :
    /\ outbox'[r].job = outbox[r].job
    /\ OpenRow(r)' => OpenRow(r)
    /\ outbox'[r].status = "none" <=> outbox[r].status = "none"

SameTurn(w) ==
  /\ Turning(w)
  /\ worker'[w].job = worker[w].job
  /\ worker'[w].row = worker[w].row
  /\ BeforeFreeze(worker'[w]) => BeforeFreeze(worker[w])

WorkerLane ==
  \A w \in Workers : worker'[w] = worker[w] \/ worker'[w].pc = "idle" \/ SameTurn(w)

LEMMA LaneInit == ASSUME Init PROVE LaneInv
<1>1. \A j \in JobIds : job[j].status = "none" /\ job[j].lease = None
  BY DEF Init, NoJob
<1>2. \A r \in RowIds : outbox[r].status = "none"
  BY DEF Init, NoRow
<1>3. \A w \in Workers : worker[w].pc = "idle"
  BY DEF Init, IdleTurn
<1>4. OneLane
  BY <1>1, <1>2 DEF OneLane, ActiveJob, ActiveStatus, InFlight
<1>5. RowJobs /\ LeaseInv /\ RowInv /\ FreezeInv /\ NewestInv /\ PrefixInv
  BY <1>1, <1>2, <1>3 DEF RowJobs, LeaseInv, RowInv, FreezeInv, NewestInv, PrefixInv, BeforeFreeze, OpenRow, Turning
<1> QED BY <1>4, <1>5 DEF LaneInv

LEMMA LaneFrame ==
  ASSUME TypeInv, TypeInv', LaneInv, JobsLane, RowsLane, WorkerLane
  PROVE  LaneInv'
<1>1. RowJobs'
  BY DEF LaneInv, RowJobs, RowsLane
<1>2. OneLane'
  <2>1. \A i, j \in JobIds : ActiveJob(i)' /\ ActiveJob(j)' => i = j
    BY DEF LaneInv, OneLane, JobsLane
  <2>2. \A q, r \in RowIds : OpenRow(q)' /\ OpenRow(r)' => q = r
    BY DEF LaneInv, OneLane, RowsLane, OpenRow
  <2>3. ASSUME NEW r \in RowIds, OpenRow(r)' PROVE job'[outbox'[r].job].status \in ActiveStatus
    <3>1. PICK j \in JobIds : j = outbox[r].job
      BY <2>3 DEF LaneInv, RowJobs, RowsLane, OpenRow
    <3>2. ActiveJob(j)
      BY <2>3, <3>1 DEF LaneInv, OneLane, RowsLane, OpenRow
    <3>3. ActiveJob(j)'
      BY <2>3, <3>1, <3>2 DEF JobsLane
    <3> QED BY <3>1, <3>3 DEF RowsLane, ActiveJob
  <2> QED BY <2>1, <2>2, <2>3 DEF OneLane, OpenRow, ActiveJob
<1>3. LeaseInv'
  BY DEF JobsLane
<1>4. RowInv'
  <2> SUFFICES ASSUME NEW w \in Workers, Turning(w)', worker'[w].row # 0
               PROVE  /\ outbox'[worker'[w].row].job = worker'[w].job
                      /\ outbox'[worker'[w].row].status # "none"
    BY DEF RowInv
  <2>1. worker'[w].row \in RowIds
    BY DEF TypeInv, TypeOK, Turn
  <2>2. Turning(w) /\ worker'[w].job = worker[w].job /\ worker'[w].row = worker[w].row
    BY DEF WorkerLane, SameTurn, Turning
  <2> QED BY <2>1, <2>2 DEF LaneInv, RowInv, RowsLane
<1>5. FreezeInv'
  <2> SUFFICES ASSUME NEW w \in Workers, BeforeFreeze(worker'[w]),
                      job'[worker'[w].job].lease = w, NEW r \in RowIds, OpenRow(r)'
               PROVE  outbox'[r].job # worker'[w].job
    BY DEF FreezeInv, BeforeFreeze
  <2>1. BeforeFreeze(worker[w]) /\ worker'[w].job = worker[w].job
    BY DEF WorkerLane, SameTurn, BeforeFreeze
  <2>2. worker[w].job \in JobIds
    BY <2>1 DEF TypeInv, TurnsOK, Turning, BeforeFreeze
  <2>3. job[worker[w].job].lease = w
    BY <2>1, <2>2, NoneAssumption DEF JobsLane
  <2> QED BY <2>1, <2>3 DEF LaneInv, FreezeInv, RowsLane
<1>6. NewestInv'
  BY DEF LaneInv, NewestInv, RowsLane
<1>7. PrefixInv'
  BY DEF LaneInv, PrefixInv, RowsLane
<1> QED BY <1>1, <1>2, <1>3, <1>4, <1>5, <1>6, <1>7 DEF LaneInv

LEMMA JobsSame == ASSUME LaneInv, UNCHANGED job PROVE JobsLane
BY DEF LaneInv, LeaseInv, JobsLane, ActiveJob

LEMMA RowsSame == ASSUME UNCHANGED outbox PROVE RowsLane
BY DEF RowsLane, OpenRow

LEMMA TurnsSame == ASSUME UNCHANGED worker PROVE WorkerLane
BY DEF WorkerLane

LEMMA LaneGoto ==
  ASSUME TypeInv, NEW w \in Workers, Turning(w), NEW pc \in PCs \ {"init"}, Goto(w, pc),
         pc \in {"effect", "plan", "prepare"} => BeforeFreeze(worker[w])
  PROVE  WorkerLane
<1>1. worker[w] \in Turn /\ worker[w].job \in JobIds \union {0} /\ worker[w].row \in RowIds \union {0}
  BY DEF TypeInv, TypeOK, Turn
<1> DEFINE t == At(pc, worker[w].job, worker[w].row)
<1>2. t.pc = pc /\ t.job = worker[w].job /\ t.row = worker[w].row
  BY <1>1, AtType
<1>3. worker' = [worker EXCEPT ![w] = t]
  BY DEF Goto
<1> HIDE DEF t
<1>4. worker'[w] = t /\ \A u \in Workers : u # w => worker'[u] = worker[u]
  BY <1>3 DEF TypeInv, TypeOK
<1>5. SameTurn(w)
  BY <1>2, <1>4 DEF SameTurn, BeforeFreeze
<1> QED BY <1>4, <1>5 DEF WorkerLane

LEMMA LaneEndTurn == ASSUME TypeInv, NEW w \in Workers, EndTurn(w) PROVE WorkerLane
<1>1. worker'[w] = IdleTurn /\ \A u \in Workers : u # w => worker'[u] = worker[u]
  BY DEF EndTurn, TypeInv, TypeOK
<1> QED BY <1>1 DEF WorkerLane, IdleTurn

\* A turn that owns its job owns the active one.
LEMMA OwnedActive ==
  ASSUME TypeInv, LaneInv, NEW w \in Workers, Owned(w)
  PROVE  worker[w].job \in JobIds /\ job[worker[w].job].lease = w
         /\ job[worker[w].job].status \notin {"none", "queued"}
<1>1. worker[w].job \in JobIds /\ job[worker[w].job].lease = w
  BY DEF Owned, JobOf, TypeInv, TurnsOK
<1> QED BY <1>1, NoneAssumption DEF LaneInv, LeaseInv

LEMMA JobsSet ==
  ASSUME TypeInv, LaneInv, NEW j \in JobIds, NEW v, job' = [job EXCEPT ![j] = v],
         v.lease \in {job[j].lease, None},
         v.status \in {"none", "queued"} => v.lease = None,
         v.status \in ActiveStatus => ActiveJob(j),
         ActiveJob(j) /\ (\E r \in RowIds : OpenRow(r)' /\ outbox[r].job = j)
           => v.status \in ActiveStatus
  PROVE  JobsLane
<1>1. job'[j] = v /\ \A i \in JobIds : i # j => job'[i] = job[i]
  BY DEF TypeInv, TypeOK
<1>2. LeaseInv'
  BY <1>1 DEF LaneInv, LeaseInv
<1> QED BY <1>1, <1>2 DEF JobsLane, ActiveJob

LEMMA JobsStatusSet ==
  ASSUME TypeInv, LaneInv, NEW j \in JobIds, NEW s, job' = [job EXCEPT ![j].status = s],
         s \notin {"none", "queued"},
         s \in ActiveStatus => ActiveJob(j),
         ActiveJob(j) /\ (\E r \in RowIds : OpenRow(r)' /\ outbox[r].job = j) => s \in ActiveStatus
  PROVE  JobsLane
<1> DEFINE v == [job[j] EXCEPT !.status = s]
<1>1. v.status = s /\ v.lease = job[j].lease
  BY JobTyped DEF JobRecord
<1>2. job' = [job EXCEPT ![j] = v]
  OBVIOUS
<1> HIDE DEF v
<1> QED BY <1>1, <1>2, JobsSet

LEMMA RowsStatusSet ==
  ASSUME TypeInv, NEW r \in RowIds, NEW s, outbox' = [outbox EXCEPT ![r].status = s],
         outbox[r].status # "none", s # "none", s \in {"prepared", "signed"} => OpenRow(r)
  PROVE  RowsLane
<1> DEFINE v == [outbox[r] EXCEPT !.status = s]
<1>1. v.status = s /\ v.job = outbox[r].job
  BY DEF TypeInv, TypeOK, Row
<1>2. outbox'[r] = v /\ \A q \in RowIds : q # r => outbox'[q] = outbox[q]
  BY DEF TypeInv, TypeOK
<1> HIDE DEF v
<1> QED BY <1>1, <1>2 DEF RowsLane, OpenRow

LEMMA LaneInsertJob ==
  ASSUME TypeInv, LaneInv, NEW j \in JobIds, NEW c, NEW kind, FreshJob(j), InsertJob(j, c, kind)
  PROVE  JobsLane
<1> DEFINE v == [NoJob EXCEPT !.kind = kind, !.status = "queued", !.camp = c, !.rev = camp[c].rev]
<1>1. v.status = "queued" /\ v.lease = None
  BY DEF NoJob
<1>2. job' = [job EXCEPT ![j] = v]
  BY DEF InsertJob
<1> HIDE DEF v
<1>3. ~ActiveJob(j)
  BY DEF FreshJob, ActiveJob, ActiveStatus, InFlight
<1> QED BY <1>1, <1>2, <1>3, JobsSet DEF ActiveStatus, InFlight

\* Steps of the operator, the manager, the clock, the maintenance and the chain.
LEMMA LaneOutside ==
  ASSUME TypeInv, TypeInv', LaneInv, Operator \/ Manager \/ Clock \/ Maintain \/ Network
  PROVE  LaneInv'
<1>1. RowsLane
  <2>1. UNCHANGED outbox
    BY DEF Operator, DashboardRefresh, RecordReview, Reserve, CancelQueued, Manager, Enqueue, Replan,
           SafetyExit, Clock, LeaseExpire, ParkElapsed, Maintain, MaintenanceRefresh,
           RecoverOpening, RecoverClose, RecoverRelease, Network, Mine, Drop
  <2> QED BY <2>1, RowsSame
<1>2. WorkerLane
  <2>1. UNCHANGED worker
    BY DEF Operator, DashboardRefresh, RecordReview, Reserve, CancelQueued, Manager, Enqueue, Replan,
           SafetyExit, Clock, LeaseExpire, ParkElapsed, Maintain, MaintenanceRefresh,
           RecoverOpening, RecoverClose, RecoverRelease, Network, Mine, Drop
  <2> QED BY <2>1, TurnsSame
<1>3. JobsLane
  <2>1. ASSUME NEW c \in Campaigns, Reserve(c) PROVE JobsLane
    BY <2>1, LaneInsertJob DEF Reserve
  <2>2. ASSUME NEW c \in Campaigns, NEW kind, Enqueue(c, kind) PROVE JobsLane
    BY <2>2, LaneInsertJob DEF Enqueue
  <2>3. ASSUME NEW j \in JobIds, CancelQueued(j) PROVE JobsLane
    <3>1. ~ActiveJob(j)
      BY <2>3 DEF CancelQueued, ActiveJob, ActiveStatus, InFlight
    <3>2. job' = [job EXCEPT ![j].status = "cancelled"]
      BY <2>3 DEF CancelQueued
    <3>3. "cancelled" \notin ActiveStatus
      BY DEF ActiveStatus, InFlight
    <3> QED BY <3>1, <3>2, <3>3, JobsStatusSet
  <2>4. ASSUME NEW j \in JobIds, LeaseExpire(j) \/ ParkElapsed(j) PROVE JobsLane
    <3>1. PICK v : /\ job' = [job EXCEPT ![j] = v]
                   /\ v.status = job[j].status /\ v.lease = job[j].lease
      <4>1. CASE LeaseExpire(j)
        <5>1. job' = [job EXCEPT ![j] = [job[j] EXCEPT !.live = FALSE]]
          BY <4>1 DEF LeaseExpire
        <5>2. /\ [job[j] EXCEPT !.live = FALSE].status = job[j].status
              /\ [job[j] EXCEPT !.live = FALSE].lease = job[j].lease
          BY JobTyped DEF JobRecord
        <5> QED BY <5>1, <5>2
      <4>2. CASE ParkElapsed(j)
        <5>1. job' = [job EXCEPT ![j] = [job[j] EXCEPT !.ready = TRUE]]
          BY <4>2 DEF ParkElapsed
        <5>2. /\ [job[j] EXCEPT !.ready = TRUE].status = job[j].status
              /\ [job[j] EXCEPT !.ready = TRUE].lease = job[j].lease
          BY JobTyped DEF JobRecord
        <5> QED BY <5>1, <5>2
      <4> QED BY <2>4, <4>1, <4>2
    <3> QED BY <3>1, JobsSet DEF LaneInv, LeaseInv, ActiveJob
  <2>5. CASE UNCHANGED job
    BY <2>5, JobsSame
  <2>6. CASE DashboardRefresh \/ Maintain \/ Network
    BY <2>5, <2>6 DEF DashboardRefresh, Maintain, MaintenanceRefresh, RecoverOpening, RecoverClose,
                      RecoverRelease, Network, Mine, Drop
  <2>7. ASSUME NEW c \in Campaigns, NEW swap, RecordReview(c) \/ Replan(c, swap) \/ SafetyExit(c)
        PROVE  JobsLane
    BY <2>5, <2>7 DEF RecordReview, Replan, SafetyExit
  <2> QED BY <2>1, <2>2, <2>3, <2>4, <2>6, <2>7 DEF Operator, Manager, Clock
<1> QED BY <1>1, <1>2, <1>3, LaneFrame

LEMMA LaneFailure ==
  ASSUME TypeInv, TypeInv', LaneInv, NEW w \in Workers, Failure(w)
  PROVE  LaneInv'
<1>1. UNCHANGED job /\ UNCHANGED outbox
  BY DEF Failure, PlanError, IntentExpired, Fail, Crash
<1>2. WorkerLane
  <2>1. CASE PlanError(w)
    <3>1. Turning(w) /\ BeforeFreeze(worker[w])
      BY <2>1 DEF PlanError, Turning, BeforeFreeze
    <3>2. Goto(w, "block") \/ Goto(w, "plan")
      BY <2>1 DEF PlanError
    <3> QED BY <3>1, <3>2, LaneGoto DEF PCs
  <2>2. CASE IntentExpired(w)
    BY <2>2, LaneGoto DEF IntentExpired, Turning, PCs
  <2>3. CASE Fail(w)
    BY <2>3, LaneGoto, LaneEndTurn DEF Fail, PCs
  <2>4. CASE Crash(w)
    BY <2>4, LaneEndTurn DEF Crash
  <2> QED BY <2>1, <2>2, <2>3, <2>4 DEF Failure
<1> QED BY <1>1, <1>2, JobsSame, RowsSame, LaneFrame

\* Steps of a turn that neither write a row nor change a job.
LEMMA LaneResume ==
  ASSUME TypeInv, NEW w \in Workers, worker[w].pc = "init", Resume(w)
  PROVE  WorkerLane
<1>1. Turning(w)
  BY DEF Turning
<1>2. CASE worker[w].row = 0
  <2>1. Goto(w, "plan") /\ BeforeFreeze(worker[w])
    BY <1>2 DEF Resume, BeforeFreeze
  <2> QED BY <1>1, <2>1, LaneGoto DEF PCs
<1>3. CASE worker[w].row # 0 /\ worker[w].seen \in {"confirmed", "reverted"}
  <2>1. Goto(w, "effect") /\ BeforeFreeze(worker[w])
    BY <1>3 DEF Resume, BeforeFreeze
  <2> QED BY <1>1, <2>1, LaneGoto DEF PCs
<1>4. CASE worker[w].row # 0 /\ worker[w].seen = "prepared"
  <2>1. Goto(w, "verify")
    BY <1>4 DEF Resume
  <2> QED BY <1>1, <2>1, LaneGoto DEF PCs
<1>5. CASE worker[w].row # 0 /\ worker[w].seen \notin {"confirmed", "reverted", "prepared"}
  <2>1. Goto(w, "raw")
    BY <1>5 DEF Resume
  <2> QED BY <1>1, <2>1, LaneGoto DEF PCs
<1> QED BY <1>2, <1>3, <1>4, <1>5

LEMMA LanePlan == ASSUME TypeInv, NEW w \in Workers, Plan(w) PROVE WorkerLane
<1>1. Turning(w) /\ BeforeFreeze(worker[w])
  BY DEF Plan, Turning, BeforeFreeze
<1>2. CASE Goto(w, "block") \/ Goto(w, "finish")
  BY <1>1, <1>2, LaneGoto DEF PCs
<1> DEFINE t == [At("prepare", worker[w].job, worker[w].row) EXCEPT
                   !.plan = NextStage(StateOf(w), chain.allowance, Shared(CampOf(w))),
                   !.rev = camp[CampOf(w)].rev,
                   !.retry = Retries(worker[w].job), !.nonce = wallet.nonce]
<1>3. CASE worker' = [worker EXCEPT ![w] = t]
  <2>2. t.job = worker[w].job /\ t.row = worker[w].row
    BY DEF At, IdleTurn
  <2>3. worker' = [worker EXCEPT ![w] = t]
    BY <1>3
  <2> HIDE DEF t
  <2>4. worker'[w] = t /\ \A u \in Workers : u # w => worker'[u] = worker[u]
    BY <2>3 DEF TypeInv, TypeOK
  <2> QED BY <1>1, <2>2, <2>4 DEF WorkerLane, SameTurn
<1>4. \/ Goto(w, "block") \/ Goto(w, "finish")
      \/ worker' = [worker EXCEPT ![w] = t]
  BY DEF Plan
<1> QED BY <1>2, <1>3, <1>4

LEMMA LaneQuietStep ==
  ASSUME TypeInv, TypeInv', LaneInv, NEW w \in Workers,
         \/ ResumeEffect(w) \/ Plan(w) \/ PrepareRefused(w) \/ VerifyIntent(w) \/ Sign(w)
         \/ ReadRaw(w) \/ Publish(w) \/ AwaitReceipt(w) \/ ReconcileNothing(w)
         \/ Lifecycle(w) \/ Release(w)
         \/ \E swap \in {"none", "todo"} : InitializeOpening(w, swap)
  PROVE  LaneInv'
<1>1. UNCHANGED job /\ UNCHANGED outbox
  BY DEF ResumeEffect, Plan, PrepareRefused, VerifyIntent, Sign, ReadRaw, Publish, AwaitReceipt,
         ReconcileNothing, Lifecycle, Release, InitializeOpening
<1>2. WorkerLane
  <2>1. CASE ResumeEffect(w)
    <3>1. Turning(w) /\ BeforeFreeze(worker[w])
      BY <2>1 DEF ResumeEffect, Turning, BeforeFreeze
    <3>2. Goto(w, "block") \/ Goto(w, "plan")
      BY <2>1 DEF ResumeEffect
    <3> QED BY <3>1, <3>2, LaneGoto DEF PCs
  <2>2. CASE Plan(w)
    BY <2>2, LanePlan
  <2>3. CASE PrepareRefused(w)
    BY <2>3, LaneGoto DEF PrepareRefused, Turning, PCs
  <2>4. CASE VerifyIntent(w)
    <3>1. Turning(w) /\ (Goto(w, "sign") \/ Goto(w, "cancel"))
      BY <2>4 DEF VerifyIntent, Turning
    <3> QED BY <3>1, LaneGoto DEF PCs
  <2>5. CASE Sign(w)
    <3>1. Turning(w) /\ (Goto(w, "record") \/ Goto(w, "block"))
      BY <2>5 DEF Sign, Turning
    <3> QED BY <3>1, LaneGoto DEF PCs
  <2>6. CASE ReadRaw(w)
    <3>1. Turning(w) /\ (Goto(w, "block") \/ Goto(w, "reconcile") \/ Goto(w, "confirming"))
      BY <2>6 DEF ReadRaw, Turning
    <3> QED BY <3>1, LaneGoto DEF PCs
  <2>7. CASE Publish(w)
    <3>1. Turning(w) /\ (Goto(w, "block") \/ Goto(w, "wait"))
      BY <2>7 DEF Publish, Turning
    <3> QED BY <3>1, LaneGoto DEF PCs
  <2>8. CASE AwaitReceipt(w)
    <3>1. Turning(w) /\ (Goto(w, "block") \/ Goto(w, "reconcile"))
      BY <2>8 DEF AwaitReceipt, Turning
    <3> QED BY <3>1, LaneGoto DEF PCs
  <2>9. CASE ReconcileNothing(w)
    <3>1. Turning(w) /\ (Goto(w, "block") \/ Goto(w, "settle"))
      BY <2>9 DEF ReconcileNothing, Turning
    <3> QED BY <3>1, LaneGoto DEF PCs
  <2>10. CASE Lifecycle(w) \/ Release(w)
    <3>1. Turning(w) /\ (EndTurn(w) \/ Goto(w, "release"))
      BY <2>10 DEF Lifecycle, Release, Turning
    <3> QED BY <3>1, LaneGoto, LaneEndTurn DEF PCs
  <2>11. CASE \E swap \in {"none", "todo"} : InitializeOpening(w, swap)
    BY <2>11, LaneResume DEF InitializeOpening
  <2> QED BY <2>1, <2>2, <2>3, <2>4, <2>5, <2>6, <2>7, <2>8, <2>9, <2>10, <2>11
<1> QED BY <1>1, <1>2, JobsSame, RowsSame, LaneFrame

\* Steps of a turn that change its job and write no row.
LEMMA LaneJobStep ==
  ASSUME TypeInv, TypeInv', LaneInv, NEW w \in Workers,
         \/ RejectReview(w) \/ BeginPublish(w) \/ Settle(w) \/ BlockTurn(w)
         \/ \E swap \in {"none", "todo"} : PrepareManagement(w, swap)
  PROVE  LaneInv'
<1> DEFINE j == worker[w].job
<1>1. UNCHANGED outbox /\ Turning(w)
  BY DEF RejectReview, BeginPublish, Settle, BlockTurn, PrepareManagement, Turning
<1>2. RowsLane /\ j \in JobIds
  BY <1>1, RowsSame DEF TypeInv, TurnsOK
<1>3. CASE RejectReview(w)
  <2>1. WorkerLane
    BY <1>1, <1>3, LaneGoto, LaneEndTurn DEF RejectReview, PCs
  <2>2. CASE UNCHANGED job
    BY <1>2, <2>1, <2>2, JobsSame, LaneFrame
  <2>3. CASE CurrentRows(j) = {} /\ job' = [job EXCEPT ![j].status = "rejected"]
    <3>1. ~(\E r \in RowIds : OpenRow(r)' /\ outbox[r].job = j)
      BY <1>1, <2>3 DEF CurrentRows, Rows, OpenRow
    <3>2. "rejected" \notin ActiveStatus
      BY DEF ActiveStatus, InFlight
    <3>3. JobsLane
      <4> HIDE DEF j
      <4>1. \/ ~ActiveJob(j)
            \/ ~(\E r \in RowIds : OpenRow(r)' /\ outbox[r].job = j)
        BY <3>1
      <4> QED BY <1>2, <2>3, <4>1, <3>2, JobsStatusSet
    <3> QED BY <1>2, <2>1, <3>3, LaneFrame
  <2> QED BY <1>3, <2>2, <2>3 DEF RejectReview
<1>4. CASE BeginPublish(w) \/ BlockTurn(w)
  <2>1. WorkerLane
    BY <1>1, <1>4, LaneGoto, LaneEndTurn DEF BeginPublish, BlockTurn, PCs
  <2>2. CASE UNCHANGED job
    BY <1>2, <2>1, <2>2, JobsSame, LaneFrame
  <2>3. CASE Owned(w) /\ PendingJob(j) /\ \E s \in ActiveStatus : job' = [job EXCEPT ![j].status = s]
    <3>1. PICK s \in ActiveStatus : job' = [job EXCEPT ![j].status = s]
      BY <2>3
    <3>2. ActiveJob(j)
      BY <2>3, OwnedActive DEF PendingJob, PendingStatus, ActiveJob
    <3>3. s \notin {"none", "queued"}
      BY DEF ActiveStatus, InFlight
    <3>4. JobsLane
      BY <1>2, <3>1, <3>2, <3>3, JobsStatusSet
    <3> QED BY <1>2, <2>1, <3>4, LaneFrame
  <2>4. "blocked" \in ActiveStatus /\ "confirming" \in ActiveStatus
    BY DEF ActiveStatus, InFlight
  <2> QED BY <1>4, <2>2, <2>3, <2>4 DEF BeginPublish, BlockTurn
<1>5. CASE Settle(w)
  <2>1. WorkerLane
    BY <1>1, <1>5, LaneGoto, LaneEndTurn DEF Settle, PCs
  <2>2. CASE UNCHANGED job
    BY <1>2, <2>1, <2>2, JobsSame, LaneFrame
  <2>3. CASE job' = [job EXCEPT ![j].lease = None, ![j].live = FALSE]
    <3> DEFINE v == [job[j] EXCEPT !.lease = None, !.live = FALSE]
    <3>1. v.status = job[j].status /\ v.lease = None
      BY <1>2, JobTyped DEF JobRecord
    <3>2. job' = [job EXCEPT ![j] = v]
      BY <1>2, <2>3 DEF TypeInv, TypeOK
    <3> HIDE DEF v
    <3>3. JobsLane
      BY <1>2, <3>1, <3>2, JobsSet DEF ActiveJob
    <3> QED BY <1>2, <2>1, <3>3, LaneFrame
  <2> QED BY <1>5, <2>2, <2>3 DEF Settle
<1>6. ASSUME NEW swap \in {"none", "todo"}, PrepareManagement(w, swap) PROVE LaneInv'
  <2>1. WorkerLane
    BY <1>6, LaneResume DEF PrepareManagement
  <2>2. CASE UNCHANGED job
    BY <1>2, <2>1, <2>2, JobsSame, LaneFrame
  <2>3. CASE job' = [job EXCEPT ![j].started = TRUE]
    <3> DEFINE v == [job[j] EXCEPT !.started = TRUE]
    <3>1. v.status = job[j].status /\ v.lease = job[j].lease
      BY <1>2, JobTyped DEF JobRecord
    <3>2. job' = [job EXCEPT ![j] = v]
      BY <2>3
    <3> HIDE DEF v
    <3>3. JobsLane
      BY <1>2, <3>1, <3>2, JobsSet DEF ActiveJob, LaneInv, LeaseInv
    <3> QED BY <1>2, <2>1, <3>3, LaneFrame
  <2> QED BY <1>6, <2>2, <2>3 DEF PrepareManagement
<1> QED BY <1>3, <1>4, <1>5, <1>6

\* Steps of a turn that write its row.
LEMMA LaneRowStep ==
  ASSUME TypeInv, TypeInv', LaneInv, NEW w \in Workers,
         CancelPrepared(w) \/ RecordSigned(w) \/ Reconcile(w)
  PROVE  LaneInv'
<1> DEFINE j == worker[w].job
           r == worker[w].row
<1>1. Turning(w)
  BY DEF CancelPrepared, RecordSigned, Reconcile, Turning
<1>2. j \in JobIds /\ r \in RowIds
  BY <1>1 DEF CancelPrepared, RecordSigned, Reconcile, TypeInv, TurnsOK, RowPCs
<1>3. outbox[r].job = j /\ outbox[r].status # "none"
  BY <1>1, <1>2 DEF LaneInv, RowInv, RowIds
<1>4. WorkerLane
  BY <1>1, LaneGoto DEF CancelPrepared, RecordSigned, Reconcile, PCs
<1>5. ASSUME UNCHANGED outbox, UNCHANGED job PROVE LaneInv'
  BY <1>4, <1>5, JobsSame, RowsSame, LaneFrame
<1>6. CASE CancelPrepared(w)
  <2>1. UNCHANGED job
    BY <1>6 DEF CancelPrepared
  <2>2. CASE outbox' = [outbox EXCEPT ![r].status = "cancelled"]
    <3>1. RowsLane
      <4> HIDE DEF r
      <4>1. "cancelled" # "none" /\ "cancelled" \notin {"prepared", "signed"}
        OBVIOUS
      <4> QED BY <1>2, <1>3, <2>2, <4>1, RowsStatusSet
    <3> QED BY <1>4, <2>1, <3>1, JobsSame, LaneFrame
  <2> QED BY <1>5, <1>6, <2>1, <2>2 DEF CancelPrepared
<1>7. CASE RecordSigned(w)
  <2>1. UNCHANGED job
    BY <1>7 DEF RecordSigned
  <2>2. CASE outbox[r].status \in {"prepared", "signed"}
             /\ outbox' = [outbox EXCEPT ![r].status = "signed"]
    <3>1. RowsLane
      <4> HIDE DEF r
      <4>1. OpenRow(r)
        BY <2>2 DEF OpenRow
      <4> QED BY <1>2, <1>3, <2>2, <4>1, RowsStatusSet
    <3> QED BY <1>4, <2>1, <3>1, JobsSame, LaneFrame
  <2> QED BY <1>5, <1>7, <2>1, <2>2 DEF RecordSigned, CanRecord, RowOf
<1>8. CASE Reconcile(w)
  <2>1. PICK s \in {"confirmed", "reverted"} : outbox' = [outbox EXCEPT ![r].status = s]
    BY <1>8 DEF Reconcile
  <2>2. PICK k \in {"reconciling", "blocked"} : job' = [job EXCEPT ![j].status = k]
    BY <1>8 DEF Reconcile
  <2>3. RowsLane
    <3> HIDE DEF r
    <3> QED BY <1>2, <1>3, <2>1, RowsStatusSet
  <2>4. ActiveJob(j)
    BY <1>2, <1>3, <1>8 DEF Reconcile, CanReconcile, RowOf, LaneInv, OneLane
  <2>5. k \in ActiveStatus /\ k \notin {"none", "queued"}
    BY DEF ActiveStatus, InFlight
  <2>6. JobsLane
    <3> HIDE DEF j
    <3> QED BY <1>2, <2>2, <2>4, <2>5, JobsStatusSet
  <2> QED BY <1>4, <2>3, <2>6, LaneFrame
<1> QED BY <1>6, <1>7, <1>8

LEMMA LaneFinish == ASSUME TypeInv, TypeInv', LaneInv, NEW w \in Workers, Finish(w) PROVE LaneInv'
<1> DEFINE j == worker[w].job
<1>1. Turning(w) /\ j \in JobIds
  BY DEF Finish, Turning, TypeInv, TurnsOK
<1>2. WorkerLane
  BY <1>1, LaneGoto, LaneEndTurn DEF Finish, PCs
<1>3. CASE ~CanFinish(w)
  BY <1>2, <1>3, JobsSame, RowsSame, LaneFrame DEF Finish
<1>4. CASE CanFinish(w)
  <2>1. PICK r \in RowIds : \E cleanup : outbox' = [outbox EXCEPT ![r].cleanup = cleanup]
    BY <1>4 DEF Finish, Rows
  <2>2. \A q \in RowIds : outbox'[q].job = outbox[q].job /\ outbox'[q].status = outbox[q].status
    BY <2>1 DEF TypeInv, TypeOK, Row
  <2>3. RowsLane
    BY <2>2 DEF RowsLane, OpenRow
  <2>4. ~(\E q \in RowIds : OpenRow(q)' /\ outbox[q].job = j)
    BY <1>4, <2>2 DEF CanFinish, Unresolved, OpenRow
  <2> DEFINE v == [job[j] EXCEPT !.status = "succeeded", !.lease = None, !.live = FALSE]
  <2>5. v.status = "succeeded" /\ v.lease = None
    BY <1>1, JobTyped DEF JobRecord
  <2>6. job' = [job EXCEPT ![j].status = "succeeded", ![j].lease = None, ![j].live = FALSE]
    BY <1>4 DEF Finish
  <2>7. job' = [job EXCEPT ![j] = v]
    BY <1>1, <2>6 DEF TypeInv, TypeOK
  <2>8. v.status \notin ActiveStatus
    BY <2>5 DEF ActiveStatus, InFlight
  <2> HIDE DEF v, j
  <2>9. JobsLane
    BY <1>1, <2>4, <2>5, <2>7, <2>8, JobsSet
  <2> QED BY <1>2, <2>3, <2>9, LaneFrame
<1> QED BY <1>3, <1>4

\* A claim grants the lease of a job that is then the only active one.
LEMMA LaneGrant ==
  ASSUME TypeInv, TypeInv', LaneInv, UNCHANGED outbox,
         NEW w \in Workers, NEW j \in JobIds, BeginTurn(w, j),
         job'[j].lease = w, job'[j].status \in ActiveStatus,
         \A i \in JobIds \ {j} :
           /\ ~ActiveJob(i)'
           /\ job'[i].lease \in {job[i].lease, None}
           /\ job'[i].status \in {"none", "queued"} => job'[i].lease = None,
         \A r \in RowIds : OpenRow(r) => outbox[r].job = j
  PROVE  LaneInv'
<1>1. PICK r \in RowIds \union {0} :
        /\ IsLast(r, CurrentRows(j))
        /\ worker' = [worker EXCEPT ![w] = [At("init", j, r) EXCEPT
                        !.seen = IF r = 0 THEN "none" ELSE outbox[r].status]]
  BY DEF BeginTurn
<1> DEFINE t == [At("init", j, r) EXCEPT !.seen = IF r = 0 THEN "none" ELSE outbox[r].status]
<1>2. t.pc = "init" /\ t.job = j /\ t.row = r /\ (r # 0 => t.seen = outbox[r].status)
  BY DEF At, IdleTurn
<1>3. worker' = [worker EXCEPT ![w] = t]
  BY <1>1
<1> HIDE DEF t
<1>4. worker'[w] = t /\ \A u \in Workers : u # w => worker'[u] = worker[u]
  BY <1>3 DEF TypeInv, TypeOK
<1>5. 0 \notin RowIds /\ \A q \in RowIds : q \in Nat
  BY DEF RowIds
<1>6. IF r = 0 THEN CurrentRows(j) = {}
               ELSE r \in CurrentRows(j) /\ \A q \in CurrentRows(j) : q <= r
  BY <1>1, <1>5 DEF IsLast, CurrentRows, Rows
<1>7. RowJobs' /\ NewestInv' /\ PrefixInv'
  BY DEF LaneInv, RowJobs, NewestInv, PrefixInv, OpenRow
<1>8. LeaseInv'
  BY DEF LeaseInv, ActiveStatus, InFlight
<1>9. OneLane'
  BY DEF LaneInv, OneLane, ActiveJob, OpenRow
<1>10. RowInv'
  <2> SUFFICES ASSUME NEW u \in Workers, Turning(u)', worker'[u].row # 0
               PROVE  /\ outbox'[worker'[u].row].job = worker'[u].job
                      /\ outbox'[worker'[u].row].status # "none"
    BY DEF RowInv
  <2>1. CASE u = w
    BY <1>2, <1>4, <1>6, <2>1 DEF CurrentRows, Rows
  <2>2. CASE u # w
    BY <1>4, <2>2 DEF LaneInv, RowInv, Turning
  <2> QED BY <2>1, <2>2
<1>11. FreezeInv'
  <2> SUFFICES ASSUME NEW u \in Workers, BeforeFreeze(worker'[u]),
                      job'[worker'[u].job].lease = u, NEW q \in RowIds, OpenRow(q)
               PROVE  outbox[q].job # worker'[u].job
    BY DEF FreezeInv, BeforeFreeze, OpenRow
  <2>1. CASE u = w
    <3>1. SUFFICES ASSUME outbox[q].job = j PROVE FALSE
      BY <1>2, <1>4, <2>1
    <3>2. q \in CurrentRows(j)
      BY <3>1 DEF CurrentRows, Rows, OpenRow
    <3>3. r # 0 /\ r \in RowIds /\ outbox[r].status \in {"confirmed", "reverted"}
      BY <1>2, <1>4, <1>6, <2>1, <3>2 DEF BeforeFreeze
    <3>4. q <= r /\ r <= q
      BY <1>6, <3>2, <3>3 DEF LaneInv, NewestInv
    <3>5. q = r
      BY <1>5, <3>3, <3>4
    <3> QED BY <3>3, <3>5 DEF OpenRow
  <2>2. CASE u # w
    <3>1. worker'[u] = worker[u] /\ worker[u].job \in JobIds
      BY <1>4, <2>2 DEF TypeInv, TurnsOK, Turning, BeforeFreeze
    <3>2. worker[u].job # j
      BY <2>2, <3>1
    <3>3. job[worker[u].job].lease = u
      BY <3>1, <3>2, NoneAssumption
    <3> QED BY <3>1, <3>3 DEF LaneInv, FreezeInv
  <2> QED BY <2>1, <2>2
<1> QED BY <1>7, <1>8, <1>9, <1>10, <1>11 DEF LaneInv

LEMMA LaneClaim == ASSUME TypeInv, TypeInv', LaneInv, NEW w \in Workers, Claim(w) PROVE LaneInv'
<1>1. CASE ClaimQueued(w)
  <2>1. PICK j \in JobIds : /\ job' = [job EXCEPT ![j] = Lease(job[j], w, "preflighting")]
                            /\ BeginTurn(w, j)
    BY <1>1 DEF ClaimQueued
  <2>2. /\ Lease(job[j], w, "preflighting").status = "preflighting"
        /\ Lease(job[j], w, "preflighting").lease = w
    BY JobTyped, LeaseType DEF JobStatus, PendingStatus, ActiveStatus, InFlight
  <2>3. /\ job'[j].lease = w /\ job'[j].status \in ActiveStatus
        /\ \A i \in JobIds \ {j} : job'[i] = job[i]
    BY <2>1, <2>2 DEF TypeInv, TypeOK, ActiveStatus, InFlight
  <2>4. \A i \in JobIds : ~ActiveJob(i)
    BY <1>1 DEF ClaimQueued, LaneFree
  <2>5. \A r \in RowIds : ~OpenRow(r)
    BY <2>4 DEF OpenRow, LaneInv, OneLane, RowJobs
  <2>6. \A i \in JobIds \ {j} :
          /\ ~ActiveJob(i)'
          /\ job'[i].lease \in {job[i].lease, None}
          /\ job'[i].status \in {"none", "queued"} => job'[i].lease = None
    BY <2>3, <2>4 DEF ActiveJob, LaneInv, LeaseInv
  <2>7. UNCHANGED outbox
    BY <1>1 DEF ClaimQueued
  <2> QED BY <2>1, <2>3, <2>5, <2>6, <2>7, LaneGrant
<1>2. CASE ClaimYield(w)
  <2>1. PICK a \in JobIds, j \in JobIds :
          /\ ActiveJob(a) /\ YieldsTo(a, j)
          /\ job' = [job EXCEPT ![a].status = "queued", ![a].lease = None,
                                ![a].live = FALSE, ![a].ready = FALSE,
                                ![j] = Lease(@, w, "preflighting")]
          /\ BeginTurn(w, j)
    BY <1>2 DEF ClaimYield
  <2>2. a # j
    BY <2>1 DEF YieldsTo, QueuedPick, Eligible
  <2> DEFINE v == [job[a] EXCEPT !.status = "queued", !.lease = None, !.live = FALSE, !.ready = FALSE]
  <2>3. v.status = "queued" /\ v.lease = None
    BY JobTyped DEF JobRecord
  <2>4. /\ Lease(job[j], w, "preflighting").status = "preflighting"
        /\ Lease(job[j], w, "preflighting").lease = w
    BY JobTyped, LeaseType DEF JobStatus, PendingStatus, ActiveStatus, InFlight
  <2>5. job' = [job EXCEPT ![a] = v, ![j] = Lease(job[j], w, "preflighting")]
    BY <2>1, <2>2 DEF TypeInv, TypeOK
  <2> HIDE DEF v
  <2>6. /\ job'[a] = v /\ job'[j] = Lease(job[j], w, "preflighting")
        /\ \A i \in JobIds \ {a, j} : job'[i] = job[i]
    BY <2>2, <2>5 DEF TypeInv, TypeOK
  <2>7. job'[j].lease = w /\ job'[j].status \in ActiveStatus
    BY <2>4, <2>6 DEF ActiveStatus, InFlight
  <2>8. \A i \in JobIds \ {j} :
          /\ ~ActiveJob(i)'
          /\ job'[i].lease \in {job[i].lease, None}
          /\ job'[i].status \in {"none", "queued"} => job'[i].lease = None
    <3> SUFFICES ASSUME NEW i \in JobIds, i # j
                 PROVE  /\ ~ActiveJob(i)'
                        /\ job'[i].lease \in {job[i].lease, None}
                        /\ job'[i].status \in {"none", "queued"} => job'[i].lease = None
      OBVIOUS
    <3>1. CASE i = a
      BY <2>3, <2>6, <3>1 DEF ActiveJob, ActiveStatus, InFlight
    <3>2. CASE i # a
      BY <2>1, <2>6, <3>2 DEF ActiveJob, LaneInv, OneLane, LeaseInv
    <3> QED BY <3>1, <3>2
  <2>9. \A r \in RowIds : ~OpenRow(r)
    BY <2>1 DEF YieldsTo, Unresolved, OpenRow
  <2>10. UNCHANGED outbox
    BY <1>2 DEF ClaimYield
  <2> QED BY <2>1, <2>7, <2>8, <2>9, <2>10, LaneGrant
<1>3. CASE ClaimActive(w)
  <2>1. PICK a \in JobIds : /\ ActiveJob(a)
                            /\ job' = [job EXCEPT ![a] = Lease(job[a], w,
                                         IF job[a].status = "blocked" THEN "reconciling" ELSE job[a].status)]
                            /\ BeginTurn(w, a)
    BY <1>3 DEF ClaimActive
  <2> DEFINE s == IF job[a].status = "blocked" THEN "reconciling" ELSE job[a].status
  <2>2. s \in ActiveStatus /\ s \in JobStatus
    BY <2>1 DEF ActiveJob, JobStatus, PendingStatus, ActiveStatus, InFlight
  <2>3. job' = [job EXCEPT ![a] = Lease(job[a], w, s)]
    BY <2>1
  <2> HIDE DEF s
  <2>4. Lease(job[a], w, s).status = s /\ Lease(job[a], w, s).lease = w
    BY <2>2, JobTyped, LeaseType
  <2>5. /\ job'[a].lease = w /\ job'[a].status \in ActiveStatus
        /\ \A i \in JobIds \ {a} : job'[i] = job[i]
    BY <2>2, <2>3, <2>4 DEF TypeInv, TypeOK
  <2>6. \A i \in JobIds \ {a} :
          /\ ~ActiveJob(i)'
          /\ job'[i].lease \in {job[i].lease, None}
          /\ job'[i].status \in {"none", "queued"} => job'[i].lease = None
    BY <2>1, <2>5 DEF ActiveJob, LaneInv, OneLane, LeaseInv
  <2>7. \A r \in RowIds : OpenRow(r) => outbox[r].job = a
    BY <2>1 DEF OpenRow, LaneInv, OneLane, RowJobs
  <2>8. UNCHANGED outbox
    BY <1>3 DEF ClaimActive
  <2> QED BY <2>1, <2>5, <2>6, <2>7, <2>8, LaneGrant
<1> QED BY <1>1, <1>2, <1>3 DEF Claim

\* The freeze: the only step that opens a row.
LEMMA LanePrepare == ASSUME TypeInv, TypeInv', LaneInv, NEW w \in Workers, PrepareStage(w) PROVE LaneInv'
<1> DEFINE j == worker[w].job
<1>1. Owned(w) /\ worker[w].pc = "prepare" /\ Turning(w)
      /\ job[j].status \in {"preflighting", "executing", "reconciling"}
  BY DEF PrepareStage, CanPrepare, JobOf, Turning
<1>2. j \in JobIds /\ job[j].lease = w /\ ActiveJob(j)
  BY <1>1, OwnedActive DEF ActiveJob, ActiveStatus, InFlight
<1>3. \A q \in RowIds : ~OpenRow(q)
  <2> SUFFICES ASSUME NEW q \in RowIds, OpenRow(q) PROVE FALSE
    OBVIOUS
  <2>1. outbox[q].job \in JobIds /\ ActiveJob(outbox[q].job)
    BY DEF OpenRow, LaneInv, OneLane, RowJobs
  <2>2. outbox[q].job = j
    BY <1>2, <2>1 DEF LaneInv, OneLane
  <2> QED BY <1>1, <1>2, <2>2 DEF LaneInv, FreezeInv, BeforeFreeze
<1>4. PICK r \in RowIds :
        /\ FreshRow(r)
        /\ outbox' = [outbox EXCEPT ![r] =
             [job |-> j, plan |-> worker[w].plan, rev |-> worker[w].rev,
              retry |-> worker[w].retry, nonce |-> worker[w].nonce, gen |-> wallet.gen,
              exit |-> ExitPermission(StateOf(w), JobOf(w).kind),
              status |-> "prepared", cleanup |-> "none"]]
        /\ worker' = [worker EXCEPT ![w] = At("verify", j, r)]
  BY DEF PrepareStage
<1>5. /\ outbox'[r].job = j /\ outbox'[r].status = "prepared"
      /\ \A q \in RowIds : q # r => outbox'[q] = outbox[q]
  BY <1>4 DEF TypeInv, TypeOK
<1>6. /\ worker'[w].pc = "verify" /\ worker'[w].job = j /\ worker'[w].row = r
      /\ \A u \in Workers : u # w => worker'[u] = worker[u]
  <2>1. /\ At("verify", j, r).pc = "verify" /\ At("verify", j, r).job = j
        /\ At("verify", j, r).row = r
    BY <1>2, AtType DEF PCs
  <2> QED BY <1>4, <2>1 DEF TypeInv, TypeOK
<1>7. /\ job'[j].status = "executing" /\ job'[j].lease = job[j].lease
      /\ \A i \in JobIds : i # j => job'[i] = job[i]
  <2>1. job' = [job EXCEPT ![j].status = "executing"]
    BY DEF PrepareStage
  <2> QED BY <1>2, <2>1 DEF TypeInv, TypeOK, JobRecord
<1>8. \A q \in RowIds : outbox[q].status # "none" => q < r
  <2> SUFFICES ASSUME NEW q \in RowIds, outbox[q].status # "none" PROVE q < r
    OBVIOUS
  <2>1. q # r /\ outbox[r].status = "none"
    BY <1>4 DEF FreshRow
  <2>2. ~(r < q)
    BY <2>1 DEF LaneInv, PrefixInv
  <2> QED BY <2>1, <2>2, BoundsAssumption DEF RowIds
<1>9. \A p \in RowIds : p < r => outbox[p].status # "none"
  BY <1>4, BoundsAssumption DEF FreshRow, RowIds
<1> HIDE DEF j
<1>10. \A q \in RowIds : OpenRow(q)' <=> q = r
  BY <1>3, <1>5 DEF OpenRow
<1>11. RowJobs'
  BY <1>2, <1>5 DEF LaneInv, RowJobs
<1>12. OneLane'
  <2>1. \A i \in JobIds : ActiveJob(i)' <=> i = j
    BY <1>2, <1>7 DEF LaneInv, OneLane, ActiveJob, ActiveStatus, InFlight
  <2>2. job'[outbox'[r].job].status \in ActiveStatus
    BY <1>2, <1>5, <1>7 DEF ActiveStatus, InFlight
  <2> QED BY <1>10, <2>1, <2>2 DEF OneLane, OpenRow, ActiveJob
<1>13. LeaseInv'
  BY <1>2, <1>7 DEF LaneInv, LeaseInv
<1>14. RowInv'
  <2> SUFFICES ASSUME NEW u \in Workers, Turning(u)', worker'[u].row # 0
               PROVE  /\ outbox'[worker'[u].row].job = worker'[u].job
                      /\ outbox'[worker'[u].row].status # "none"
    BY DEF RowInv
  <2>1. CASE u = w
    BY <1>5, <1>6, <2>1
  <2>2. CASE u # w
    <3>1. worker'[u] = worker[u] /\ worker[u].row \in RowIds
      BY <1>6, <2>2 DEF TypeInv, TypeOK, Turn
    <3>2. outbox[worker[u].row].job = worker[u].job /\ outbox[worker[u].row].status # "none"
      BY <3>1 DEF LaneInv, RowInv, Turning
    <3>3. worker[u].row # r
      BY <1>4, <3>2 DEF FreshRow
    <3> QED BY <1>5, <3>1, <3>2, <3>3
  <2> QED BY <2>1, <2>2
<1>15. FreezeInv'
  <2> SUFFICES ASSUME NEW u \in Workers, BeforeFreeze(worker'[u]),
                      job'[worker'[u].job].lease = u
               PROVE  worker'[u].job # j
    BY <1>5, <1>10 DEF FreezeInv, BeforeFreeze
  <2>1. u # w
    BY <1>6 DEF BeforeFreeze
  <2> QED BY <1>2, <1>6, <1>7, <2>1
<1>16. NewestInv'
  BY <1>5, <1>8, <1>10, BoundsAssumption DEF NewestInv, RowIds
<1>17. PrefixInv'
  <2> SUFFICES ASSUME NEW p \in RowIds, NEW q \in RowIds, p < q, outbox'[q].status # "none"
               PROVE  outbox'[p].status # "none"
    BY DEF PrefixInv
  <2>1. CASE q = r
    <3>1. p # r /\ outbox[p].status # "none"
      BY <1>9, <2>1, BoundsAssumption DEF RowIds
    <3> QED BY <1>5, <3>1
  <2>2. CASE q # r
    <3>1. outbox[p].status # "none"
      BY <1>5, <2>2 DEF LaneInv, PrefixInv
    <3>2. p # r
      BY <1>4, <3>1 DEF FreshRow
    <3> QED BY <1>5, <3>1, <3>2
  <2> QED BY <2>1, <2>2
<1> QED BY <1>11, <1>12, <1>13, <1>14, <1>15, <1>16, <1>17 DEF LaneInv

LEMMA LaneNext == ASSUME TypeInv, TypeInv', LaneInv, [Next]_vars PROVE LaneInv'
<1>1. ASSUME NEW w \in Workers, Step(w) PROVE LaneInv'
  BY <1>1, LaneQuietStep, LaneJobStep, LaneRowStep, LaneFinish, LanePrepare DEF Step
<1>2. CASE UNCHANGED vars
  <2>1. UNCHANGED job /\ UNCHANGED outbox /\ UNCHANGED worker
    BY <1>2 DEF vars
  <2> QED BY <2>1, JobsSame, RowsSame, TurnsSame, LaneFrame
<1> QED BY <1>1, <1>2, LaneOutside, LaneClaim, LaneFailure DEF Next

LEMMA LaneCorrect == Spec => []LaneInv
<1>1. Init => LaneInv
  BY LaneInit
<1>2. TypeInv /\ TypeInv' /\ LaneInv /\ [Next]_vars => LaneInv'
  BY LaneNext
<1> QED BY <1>1, <1>2, TypeCorrect, PTL DEF Spec

(***************************************************************************)
(* Every value the code stores has its type, in every run of any number of *)
(* workers, campaigns, jobs, transactions and faults.                      *)
(***************************************************************************)
THEOREM TypeSafe == Spec => []TypeOK
<1>1. TypeInv => TypeOK
  BY DEF TypeInv
<1> QED BY <1>1, TypeCorrect, PTL

(***************************************************************************)
(* The wallet has one transaction lane: claimNext, yieldAfterConfirmed-    *)
(* Receipt, prepareStage and the fences keep at most one job active and at *)
(* most one transaction unresolved, which belongs to that job, however     *)
(* claims, expired leases and crashes interleave.                          *)
(***************************************************************************)
THEOREM LaneSafe == Spec => []OneLane
<1>1. LaneInv => OneLane
  BY DEF LaneInv
<1> QED BY <1>1, LaneCorrect, PTL

\* The turn that writes rows in this step, and what it owns.
LEMMA WriterOwns ==
  ASSUME TypeInv, LaneInv, NEW w \in Workers, Claim(w) \/ Step(w) \/ Failure(w),
         NEW r \in RowIds, outbox'[r] # outbox[r]
  PROVE  Owned(w) /\ worker[w].job = outbox'[r].job
<1>1. CASE PrepareStage(w)
  <2>1. Owned(w)
    BY <1>1 DEF PrepareStage, CanPrepare
  <2>2. PICK q \in RowIds : \E v : outbox' = [outbox EXCEPT ![q] = v] /\ v.job = worker[w].job
    <3> DEFINE v == [job |-> worker[w].job, plan |-> worker[w].plan, rev |-> worker[w].rev,
                     retry |-> worker[w].retry, nonce |-> worker[w].nonce, gen |-> wallet.gen,
                     exit |-> ExitPermission(StateOf(w), JobOf(w).kind),
                     status |-> "prepared", cleanup |-> "none"]
    <3>1. PICK q \in RowIds : outbox' = [outbox EXCEPT ![q] = v]
      BY <1>1 DEF PrepareStage
    <3>2. v.job = worker[w].job
      OBVIOUS
    <3> HIDE DEF v
    <3> QED BY <3>1, <3>2
  <2>3. PICK v : outbox' = [outbox EXCEPT ![q] = v] /\ v.job = worker[w].job
    BY <2>2
  <2>4. DOMAIN outbox = RowIds
    BY DEF TypeInv, TypeOK
  <2>5. outbox'[r] = IF r = q THEN v ELSE outbox[r]
    BY <2>3, <2>4
  <2> QED BY <2>1, <2>3, <2>5
<1>2. CASE CancelPrepared(w) \/ RecordSigned(w) \/ Reconcile(w)
  <2>1. Owned(w) /\ \E s : outbox' = [outbox EXCEPT ![worker[w].row].status = s]
    BY <1>2 DEF CancelPrepared, CanCancel, RecordSigned, CanRecord, Reconcile, CanReconcile
  <2>2. worker[w].row = r /\ outbox'[r].job = outbox[r].job
    BY <2>1 DEF TypeInv, TypeOK, Row
  <2>3. Turning(w) /\ worker[w].row # 0
    BY <2>1, <2>2 DEF Owned, RowIds
  <2> QED BY <2>1, <2>2, <2>3 DEF LaneInv, RowInv
<1>3. CASE Finish(w)
  <2>1. CanFinish(w)
    BY <1>3 DEF Finish
  <2>2. PICK q \in Rows(worker[w].job) : \E v : outbox' = [outbox EXCEPT ![q].cleanup = v]
    BY <1>3, <2>1 DEF Finish
  <2>3. q \in RowIds /\ outbox[q].job = worker[w].job
    BY <2>2 DEF Rows
  <2>4. q = r /\ outbox'[r].job = outbox[r].job
    BY <2>2, <2>3 DEF TypeInv, TypeOK, Row
  <2> QED BY <2>1, <2>3, <2>4 DEF CanFinish
<1>4. CASE UNCHANGED outbox
  BY <1>4
<1>5. CASE Claim(w) \/ Failure(w)
  BY <1>4, <1>5 DEF Claim, ClaimQueued, ClaimYield, ClaimActive, Failure, PlanError, IntentExpired,
                    Fail, Crash
<1>6. CASE Step(w)
  <2>1. \/ PrepareStage(w) \/ CancelPrepared(w) \/ RecordSigned(w) \/ Reconcile(w) \/ Finish(w)
        \/ UNCHANGED outbox
    BY <1>6 DEF Step, InitializeOpening, PrepareManagement, RejectReview, ResumeEffect, Plan,
                PrepareRefused, VerifyIntent, Sign, ReadRaw, BeginPublish, Publish, AwaitReceipt,
                ReconcileNothing, Settle, Lifecycle, Release, BlockTurn
  <2> QED BY <1>1, <1>2, <1>3, <1>4, <2>1
<1> QED BY <1>5, <1>6

(***************************************************************************)
(* The lease is a fence: whatever a stalled, superseded or crashed turn    *)
(* does later, a row of the outbox is only ever inserted or changed by the *)
(* turn that holds the unexpired lease of the row's own job.               *)
(***************************************************************************)
THEOREM WritesFenced == Spec => FencedWrites
<1>1. TypeInv /\ LaneInv /\ [Next]_vars
        => [\A r \in RowIds : outbox'[r] # outbox[r] =>
              \E w \in Workers : Owned(w) /\ worker[w].job = outbox'[r].job]_vars
  <2> SUFFICES ASSUME TypeInv, LaneInv, Next, NEW r \in RowIds, outbox'[r] # outbox[r]
               PROVE  \E w \in Workers : Owned(w) /\ worker[w].job = outbox'[r].job
    OBVIOUS
  <2>1. CASE Operator \/ Manager \/ Clock \/ Maintain \/ Network
    <3>1. UNCHANGED outbox
      BY <2>1 DEF Operator, DashboardRefresh, RecordReview, Reserve, CancelQueued, Manager, Enqueue,
                  Replan, SafetyExit, Clock, LeaseExpire, ParkElapsed, Maintain, MaintenanceRefresh,
                  RecoverOpening, RecoverClose, RecoverRelease, Network, Mine, Drop
    <3> QED BY <3>1
  <2>2. ASSUME NEW w \in Workers, Claim(w) \/ Step(w) \/ Failure(w)
        PROVE  \E u \in Workers : Owned(u) /\ worker[u].job = outbox'[r].job
    BY <2>2, WriterOwns
  <2> QED BY <2>1, <2>2 DEF Next
<1> QED BY <1>1, TypeCorrect, LaneCorrect, PTL DEF Spec, FencedWrites

=============================================================================

------------------------ MODULE LiveWalletBook_proofs ------------------------
(***************************************************************************)
(* Proofs about what the shared wallet books, for any workers, campaigns   *)
(* and bounds:                                                             *)
(*                                                                         *)
(*   BookTrue       a campaign's book is true: economic stages are         *)
(*                  confirmed once, stage keys are never reused, every     *)
(*                  receipt is booked once, and the strategy state says    *)
(*                  what the wallet holds on the chain.                    *)
(*   SiblingsApart  one pending job for each campaign, and capital is      *)
(*                  released only when nothing of the campaign is left.    *)
(*                                                                         *)
(* None of these is inductive.  BookInv adds what the turns know (TurnInv),*)
(* which jobs a campaign can have (JobInv), what the state revisions order *)
(* (RevisionInv), and how the open row, the confirmed rows and the chain   *)
(* relate to the strategy state (FitInv, DoneInv, PositionInv).  Nearly    *)
(* every step is calm (CalmStep): it moves a campaign only in ways that    *)
(* preserve all of this.  The steps that are not have a lemma each:        *)
(* admission, the start of a management job, the freeze of a stage, its    *)
(* cancellation, the receipt, and the block.                               *)
(***************************************************************************)
EXTENDS LiveWalletNonce_proofs

-----------------------------------------------------------------------------
(* The invariant.                                                          *)

RowCamp(r) == job[outbox[r].job].camp
UsedRow(r) == outbox[r].status # "none"
ManagementJob(j) == job[j].status # "none" /\ job[j].kind # "open"

\* The campaign is prepared for the job: initialized, or its transition recorded.
Begun(j) ==
  IF job[j].kind = "open" THEN camp[job[j].camp].state.phase # "none" ELSE job[j].started

TurnFits(w) ==
  /\ worker[w].pc \notin {"idle", "init", "block"} => Begun(worker[w].job)
  /\ \/ worker[w].pc \in {"effect", "settle"}
     \/ worker[w].pc = "init" /\ worker[w].seen \in {"confirmed", "reverted"}
     => worker[w].row \in RowIds /\ SettledRow(worker[w].row)
  /\ worker[w].pc \in {"lifecycle", "release"} => job[worker[w].job].status = "succeeded"

TurnInv == \A w \in Workers : TurnFits(w)

\* Which jobs a campaign has, and when.
JobInv ==
  /\ OneJobPerCampaign
  /\ \A j \in JobIds : job[j].status # "none" =>
       /\ camp[job[j].camp].life # "none"
       /\ job[j].kind # "open" => camp[job[j].camp].life \in {"active", "closed"}
       /\ job[j].kind = "open" /\ PendingJob(j) => camp[job[j].camp].life = "opening"
       /\ job[j].status = "succeeded" => job[j].lease = None
  /\ \A i, j \in JobIds :
       /\ job[i].status # "none" /\ job[i].kind = "open"
       /\ job[j].status # "none" /\ job[j].kind = "open"
       /\ job[i].camp = job[j].camp
       => i = j

\* Revisions tell the transition of a pending job from those of jobs that ended unstarted.
RevisionInv ==
  /\ \A j \in JobIds : ManagementJob(j) => camp[job[j].camp].state.phase # "none"
  /\ \A c \in Campaigns : camp[c].state.phase = "none" => camp[c].rev = 0 /\ ~camp[c].state.nft
  /\ \A j \in JobIds : job[j].status # "none" => job[j].rev <= camp[job[j].camp].rev
  /\ \A i, j \in JobIds :
       /\ ManagementJob(i) /\ ~job[i].started
       /\ ManagementJob(j) /\ PendingJob(j) /\ job[j].started
       /\ job[i].camp = job[j].camp
       => job[i].rev < camp[job[j].camp].rev

\* Rows belong to jobs that had begun.
RowJobInv ==
  \A r \in RowIds : UsedRow(r) => job[outbox[r].job].status # "none" /\ Begun(outbox[r].job)

\* Stage keys: a settled row has an older revision, a cancelled one a smaller retry count.
KeyInv ==
  /\ \A r \in RowIds : UsedRow(r) =>
       /\ outbox[r].rev <= camp[RowCamp(r)].rev
       /\ outbox[r].retry <= Retries(outbox[r].job)
       /\ SettledRow(r) => outbox[r].rev < camp[RowCamp(r)].rev
       /\ outbox[r].status = "cancelled" => outbox[r].retry < Retries(outbox[r].job)
  /\ StageKeyFresh

\* The stage of the open row is still possible in the campaign's state.
FitInv ==
  \A r \in RowIds : OpenRow(r) =>
    /\ camp[RowCamp(r)].state.phase \notin {"none", "holding", "halted"}
    /\ outbox[r].plan = "withdraw" => camp[RowCamp(r)].state.nft
    /\ outbox[r].plan \in {"swap", "mint"} => ~camp[RowCamp(r)].state.nft

\* States from which the planner does not ask for a swap until the next transition.
Swapped(s) ==
  \/ s.phase \in {"holding", "halted", "closed"}
  \/ s.phase \in {"entry", "recenter"} /\ s.swap = "done"
  \/ s.phase = "exit" /\ (s.exitMode # "convert" \/ (~s.nft /\ ~s.risky))

\* What a job has confirmed is not planned for it again.
DoneInv ==
  /\ \A r \in RowIds :
       outbox[r].status = "confirmed" /\ PendingJob(outbox[r].job) =>
         /\ outbox[r].plan = "withdraw" =>
              ~camp[RowCamp(r)].state.nft \/ camp[RowCamp(r)].state.phase = "holding"
         /\ outbox[r].plan = "mint" => camp[RowCamp(r)].state.phase = "holding"
         /\ outbox[r].plan = "swap" => Swapped(camp[RowCamp(r)].state)
  /\ \A q, r \in RowIds :
       /\ outbox[q].status = "confirmed" /\ OpenRow(r)
       /\ outbox[q].job = outbox[r].job
       => outbox[q].plan # outbox[r].plan \/ outbox[r].plan \notin {"swap", "mint", "withdraw"}
  /\ StageOnce

\* The chain's mints and withdrawals against the campaign's belief.
PositionInv ==
  \A c \in Campaigns :
    /\ (\A r \in RowIds :
          OpenRow(r) /\ chain.result[r] = "success" /\ RowCamp(r) = c
            => outbox[r].plan \notin {"mint", "withdraw"})
         => Minted(c) = Mined(c, "withdraw") + (IF camp[c].state.nft THEN 1 ELSE 0)
    /\ \A r \in RowIds :
         OpenRow(r) /\ chain.result[r] = "success" /\ RowCamp(r) = c =>
           /\ outbox[r].plan = "mint" => Minted(c) = Mined(c, "withdraw") + 1
           /\ outbox[r].plan = "withdraw" => Minted(c) = Mined(c, "withdraw")

\* Released capital stays released, and its campaign is over.
ReleasedInv ==
  /\ ReleasedIsEmpty
  /\ \A c \in Campaigns : camp[c].alloc = "released" => camp[c].life = "closed"

BookInv ==
  TurnInv /\ JobInv /\ RevisionInv /\ RowJobInv /\ KeyInv /\ FitInv /\ DoneInv
    /\ PositionInv /\ BookedOnce /\ ReleasedInv

-----------------------------------------------------------------------------
(* Calm steps.                                                             *)

\* What every transition but that of a receipt keeps of a strategy state ...
KeepsPosition(s, t) ==
  /\ t.nft = s.nft
  /\ s.phase # "none" => t.phase # "none"
  /\ s.phase \notin {"none", "holding", "halted"} => t.phase \notin {"none", "holding", "halted"}

\* ... and every one but the start of a management job.
CalmState(s, t) ==
  /\ KeepsPosition(s, t)
  /\ s.phase = "holding" => t.phase = "holding"
  /\ Swapped(s) => Swapped(t)

JobCalm(j) ==
  /\ job[j].status = "none" <=> job'[j].status = "none"
  /\ job'[j].camp = job[j].camp /\ job'[j].kind = job[j].kind /\ job'[j].rev = job[j].rev
  /\ job[j].started => job'[j].started
  /\ PendingJob(j)' => PendingJob(j)
  /\ job[j].status = "succeeded" => job'[j].status = "succeeded"
  /\ job'[j].status = "succeeded" => job'[j].lease = None

JobsCalm == \A j \in JobIds : JobCalm(j)
NoStart == \A j \in JobIds : job'[j].started = job[j].started

LifeCalm(c) ==
  \/ camp'[c].life = camp[c].life
  \/ /\ camp[c].life \notin {"none", "closed"} /\ camp'[c].life \in {"active", "closed"}
     /\ \A j \in JobIds : PendingJob(j) /\ job[j].kind = "open" => job[j].camp # c

CampCalm(c) ==
  /\ camp[c].rev <= camp'[c].rev
  /\ camp'[c].state.phase = "none" => camp'[c].rev = camp[c].rev
  /\ camp'[c].costs = camp[c].costs
  /\ LifeCalm(c)
  /\ camp'[c].alloc = "released" => camp[c].alloc = "released" \/ CanRelease(c)

CampsCalm ==
  \A c \in Campaigns : CampCalm(c) /\ CalmState(camp[c].state, camp'[c].state)

RowCalm(r) ==
  /\ outbox'[r].job = outbox[r].job /\ outbox'[r].plan = outbox[r].plan
  /\ outbox'[r].rev = outbox[r].rev /\ outbox'[r].retry = outbox[r].retry
  /\ outbox'[r].status = outbox[r].status \/ (OpenRow(r) /\ OpenRow(r)')

RowsCalm == \A r \in RowIds : RowCalm(r)

TurnsCalm == \A w \in Workers : worker'[w] = worker[w] \/ TurnFits(w)'

CalmStep ==
  /\ JobsCalm /\ NoStart /\ CampsCalm /\ RowsCalm /\ TurnsCalm
  /\ effects' = effects /\ chain'.result = chain.result

LEMMA KeepsRefl == ASSUME NEW s PROVE CalmState(s, s)
BY DEF CalmState, KeepsPosition

LEMMA CalmTransitions ==
  ASSUME NEW s \in StrategyState, NEW swap, NEW kind
  PROVE  /\ s.phase = "none" /\ ~s.nft => CalmState(s, EntryState(swap))
         /\ IsAwaitingReplan(s) => CalmState(s, ReplanTransition(s, swap))
         /\ s.phase = "recenter" => CalmState(s, RecenterToRetainExit(s))
         /\ CanRecoverRevertedWithdrawal(s) => CalmState(s, RecenterToRetainExit(s))
         /\ CanClose(s) => CalmState(s, ClosedState(s))
         /\ \A t \in Settlements(s, kind) : CalmState(s, t)
<1>1. s.phase = "none" /\ ~s.nft => CalmState(s, EntryState(swap))
  BY DEF StrategyState, CalmState, KeepsPosition, Swapped, EntryState, Uninitialized
<1>2. IsAwaitingReplan(s) => CalmState(s, ReplanTransition(s, swap))
  BY DEF StrategyState, CalmState, KeepsPosition, Swapped, IsAwaitingReplan, ReplanTransition
<1>3. s.phase = "recenter" => CalmState(s, RecenterToRetainExit(s))
  BY DEF StrategyState, CalmState, KeepsPosition, Swapped, RecenterToRetainExit
<1>4. CanRecoverRevertedWithdrawal(s) => CalmState(s, RecenterToRetainExit(s))
  BY DEF StrategyState, CalmState, KeepsPosition, Swapped, RecenterToRetainExit, CanRecoverRevertedWithdrawal
<1>5. CanClose(s) => CalmState(s, ClosedState(s))
  BY DEF StrategyState, CalmState, KeepsPosition, Swapped, CanClose, IsManagedExit, ClosedState
<1>6. ASSUME NEW t \in Settlements(s, kind) PROVE CalmState(s, t)
  <2>1. ConversionUnavailable(s) => CalmState(s, DegradeConvertToRetain(s))
    BY DEF StrategyState, CalmState, KeepsPosition, Swapped, ConversionUnavailable, IsConvertExit, DegradeConvertToRetain
  <2>2. s.phase = "recenter" /\ s.swap # "done" => CalmState(s, [s EXCEPT !.candidate = FALSE, !.swap = "none"])
    BY DEF StrategyState, CalmState, KeepsPosition, Swapped
  <2>3. \/ t = s
        \/ ConversionUnavailable(s) /\ t = DegradeConvertToRetain(s)
        \/ s.phase = "recenter" /\ t = RecenterToRetainExit(s)
        \/ s.phase = "recenter" /\ s.swap # "done" /\ t = [s EXCEPT !.candidate = FALSE, !.swap = "none"]
    BY <1>6 DEF Settlements
  <2> QED BY <1>3, <2>1, <2>2, <2>3, KeepsRefl
<1> QED BY <1>1, <1>2, <1>3, <1>4, <1>5, <1>6

LEMMA CampSameCalm ==
  ASSUME TypeInv, NEW c \in Campaigns, camp'[c] = camp[c]
  PROVE  CampCalm(c) /\ CalmState(camp[c].state, camp'[c].state)
BY KeepsRefl, CampTyped DEF CampCalm, LifeCalm

LEMMA CampsSame == ASSUME TypeInv, UNCHANGED camp PROVE CampsCalm
BY CampSameCalm DEF CampsCalm

\* A new strategy state under the next revision.
LEMMA CampsStateCalm ==
  ASSUME TypeInv, NEW c, NEW s, camp' = [camp EXCEPT ![c].state = s, ![c].rev = camp[c].rev + 1],
         c \in Campaigns => camp[c].state.phase # "none" /\ CalmState(camp[c].state, s)
  PROVE  CampsCalm
<1> SUFFICES ASSUME NEW d \in Campaigns
             PROVE  CampCalm(d) /\ CalmState(camp[d].state, camp'[d].state)
  BY DEF CampsCalm
<1>1. CASE d # c
  BY <1>1, CampSameCalm DEF TypeInv, TypeOK
<1>2. CASE d = c
  <2>1. camp[c] \in Campaign /\ camp[c].rev \in Nat
    BY <1>2, CampTyped
  <2>2. /\ camp'[c].state = s /\ camp'[c].rev = camp[c].rev + 1 /\ camp'[c].costs = camp[c].costs
        /\ camp'[c].life = camp[c].life /\ camp'[c].alloc = camp[c].alloc
    BY <1>2, <2>1 DEF TypeInv, TypeOK, Campaign
  <2>3. s.phase # "none"
    BY <1>2 DEF CalmState, KeepsPosition
  <2> QED BY <1>2, <2>1, <2>2, <2>3 DEF CampCalm, LifeCalm
<1> QED BY <1>1, <1>2

LEMMA RowsSameCalm == ASSUME UNCHANGED outbox PROVE RowsCalm
BY DEF RowsCalm, RowCalm

LEMMA JobsSameCalm == ASSUME JobInv, UNCHANGED job PROVE JobsCalm /\ NoStart
BY DEF JobInv, JobsCalm, JobCalm, NoStart, PendingJob

\* One job takes a new record.
LEMMA JobSetCalm ==
  ASSUME TypeInv, JobInv, NEW j \in JobIds, NEW v, job' = [job EXCEPT ![j] = v],
         job[j].status # "none" /\ v.status # "none",
         v.camp = job[j].camp /\ v.kind = job[j].kind /\ v.rev = job[j].rev /\ v.started = job[j].started,
         v.status \in PendingStatus => PendingJob(j),
         job[j].status = "succeeded" => v.status = "succeeded",
         v.status = "succeeded" => v.lease = None
  PROVE  JobsCalm /\ NoStart
<1>1. job'[j] = v /\ \A i \in JobIds : i # j => job'[i] = job[i]
  BY DEF TypeInv, TypeOK
<1>2. JobCalm(j) /\ job'[j].started = job[j].started
  BY <1>1 DEF JobCalm, PendingJob
<1>3. \A i \in JobIds : i # j => JobCalm(i) /\ job'[i].started = job[i].started
  BY <1>1 DEF JobInv, JobCalm, PendingJob
<1> QED BY <1>2, <1>3 DEF JobsCalm, NoStart

LEMMA JobStatusCalm ==
  ASSUME TypeInv, JobInv, NEW j \in JobIds, NEW s \in JobStatus \ {"none", "succeeded"},
         job' = [job EXCEPT ![j].status = s],
         job[j].status \notin {"none", "succeeded"},
         s \in PendingStatus => PendingJob(j)
  PROVE  JobsCalm /\ NoStart
<1> DEFINE v == [job[j] EXCEPT !.status = s]
<1>1. /\ v.status = s /\ v.camp = job[j].camp /\ v.kind = job[j].kind /\ v.rev = job[j].rev
      /\ v.started = job[j].started
  BY JobTyped DEF JobRecord
<1>2. job' = [job EXCEPT ![j] = v]
  OBVIOUS
<1> HIDE DEF v
<1> QED BY <1>1, <1>2, JobSetCalm

\* Turns that stay where they are, stop, block, or go on from where they are.
LEMMA TurnsSameCalm == ASSUME UNCHANGED worker PROVE TurnsCalm
BY DEF TurnsCalm

LEMMA TurnOther ==
  ASSUME TypeInv, NEW w \in Workers, NEW t, worker' = [worker EXCEPT ![w] = t], TurnFits(w)'
  PROVE  TurnsCalm
BY DEF TurnsCalm, TypeInv, TypeOK

LEMMA TurnGotoIs ==
  ASSUME TypeInv, NEW w \in Workers, NEW pc, Goto(w, pc)
  PROVE  /\ worker'[w].pc = pc /\ worker'[w].job = worker[w].job /\ worker'[w].row = worker[w].row
         /\ worker'[w].seen = "none"
         /\ worker' = [worker EXCEPT ![w] = At(pc, worker[w].job, worker[w].row)]
BY DEF Goto, At, IdleTurn, TypeInv, TypeOK

LEMMA BegunKept ==
  ASSUME TypeInv, \A c \in Campaigns : camp[c].state.phase # "none" => camp'[c].state.phase # "none",
         NEW j \in JobIds, JobCalm(j), job[j].status # "none", Begun(j)
  PROVE  Begun(j)'
<1>1. job[j].camp \in Campaigns /\ job'[j].camp = job[j].camp /\ job'[j].kind = job[j].kind
      /\ (job[j].started => job'[j].started)
  BY DEF TypeInv, JobsOK, JobCalm
<1> QED BY <1>1 DEF Begun

\* A turn that goes on from where it is.
LEMMA GotoCalm ==
  ASSUME TypeInv, NEW w \in Workers, NEW pc \in PCs \ {"idle", "init"}, Goto(w, pc),
         NEW j, j = worker[w].job, NEW r, r = worker[w].row,
         pc # "block" => Begun(j)',
         pc \in {"effect", "settle"} => r \in RowIds /\ SettledRow(r)',
         pc \in {"lifecycle", "release"} => job'[j].status = "succeeded"
  PROVE  TurnsCalm
<1>1. /\ worker'[w].pc = pc /\ worker'[w].job = j /\ worker'[w].row = r
      /\ worker' = [worker EXCEPT ![w] = At(pc, j, r)]
  BY TurnGotoIs
<1>2. TurnFits(w)'
  BY <1>1 DEF TurnFits, SettledRow, Begun
<1> QED BY <1>1, <1>2, TurnOther

LEMMA EndTurnCalm == ASSUME TypeInv, NEW w \in Workers, EndTurn(w) PROVE TurnsCalm
<1>1. worker'[w].pc = "idle"
  BY DEF EndTurn, TypeInv, TypeOK, IdleTurn
<1>2. TurnFits(w)'
  BY <1>1 DEF TurnFits
<1> QED BY <1>2, TurnOther DEF EndTurn

LEMMA BlockCalm == ASSUME TypeInv, NEW w \in Workers, Goto(w, "block") PROVE TurnsCalm
<1>1. PICK j, r : j = worker[w].job /\ r = worker[w].row
  OBVIOUS
<1> QED BY <1>1, GotoCalm DEF PCs

\* The common case: no special step, and the campaign stays prepared.
LEMMA MoveCalm ==
  ASSUME TypeInv, TurnInv, JobsCalm, CampsCalm, NEW w \in Workers,
         worker[w].pc \notin {"idle", "init", "block"},
         NEW pc \in PCs \ {"idle", "init", "effect", "settle", "lifecycle", "release"}, Goto(w, pc)
  PROVE  TurnsCalm
<1>1. PICK j \in JobIds : j = worker[w].job
  BY DEF TypeInv, TurnsOK, Turning
<1>2. PICK r : r = worker[w].row
  OBVIOUS
<1>3. Begun(j) /\ job[j].status # "none"
  BY <1>1 DEF TurnInv, TurnFits, TypeInv, TurnsOK, Turning
<1>4. Begun(j)'
  BY <1>3, BegunKept DEF JobsCalm, CampsCalm, CalmState, KeepsPosition
<1> QED BY <1>1, <1>2, <1>4, GotoCalm

LEMMA CalmIntro ==
  ASSUME JobsCalm, NoStart, CampsCalm, RowsCalm, TurnsCalm, effects' = effects,
         chain'.result = chain.result
  PROVE  CalmStep
BY DEF CalmStep

\* The operator, the manager, the clock, the maintenance and a dropped transaction.
LEMMA CalmOperator ==
  ASSUME TypeInv, BookInv,
         \/ DashboardRefresh
         \/ \E c \in Campaigns : RecordReview(c)
         \/ \E j \in JobIds : CancelQueued(j)
  PROVE  CalmStep
<1>1. RowsCalm /\ TurnsCalm /\ effects' = effects /\ chain'.result = chain.result
  BY RowsSameCalm, TurnsSameCalm DEF DashboardRefresh, RecordReview, CancelQueued
<1>2. CASE DashboardRefresh
  <2>1. UNCHANGED job /\ UNCHANGED camp
    BY <1>2 DEF DashboardRefresh
  <2> QED BY <1>1, <2>1, JobsSameCalm, CampsSame, CalmIntro DEF BookInv
<1>3. ASSUME NEW c \in Campaigns, RecordReview(c) PROVE CalmStep
  <2>1. UNCHANGED job
    BY <1>3 DEF RecordReview
  <2>2. CampsCalm
    <3>1. camp' = [camp EXCEPT ![c].review = wallet.gen]
      BY <1>3 DEF RecordReview
    <3>2. \A d \in Campaigns :
            /\ camp'[d].state = camp[d].state /\ camp'[d].rev = camp[d].rev
            /\ camp'[d].costs = camp[d].costs /\ camp'[d].life = camp[d].life
            /\ camp'[d].alloc = camp[d].alloc
      BY <3>1 DEF TypeInv, TypeOK, Campaign
    <3> QED BY <3>2, CampTyped, KeepsRefl DEF CampsCalm, CampCalm, LifeCalm
  <2> QED BY <1>1, <2>1, <2>2, JobsSameCalm, CalmIntro DEF BookInv
<1>4. ASSUME NEW j \in JobIds, CancelQueued(j) PROVE CalmStep
  <2>1. UNCHANGED camp /\ job[j].status = "queued" /\ job' = [job EXCEPT ![j].status = "cancelled"]
    BY <1>4 DEF CancelQueued
  <2>2. "cancelled" \in JobStatus \ {"none", "succeeded"} /\ "cancelled" \notin PendingStatus
    BY DEF JobStatus, PendingStatus, ActiveStatus, InFlight
  <2>3. JobsCalm /\ NoStart
    BY <2>1, <2>2, JobStatusCalm DEF BookInv
  <2> QED BY <1>1, <2>1, <2>3, CampsSame, CalmIntro
<1> QED BY <1>2, <1>3, <1>4

LEMMA CalmManager ==
  ASSUME TypeInv, BookInv, NEW c \in Campaigns,
         SafetyExit(c) \/ \E swap \in {"none", "todo"} : Replan(c, swap)
  PROVE  CalmStep
<1>1. /\ RowsCalm /\ TurnsCalm /\ effects' = effects /\ chain'.result = chain.result
      /\ UNCHANGED job
  BY RowsSameCalm, TurnsSameCalm DEF SafetyExit, Replan
<1>2. camp[c].state \in StrategyState
  BY CampTyped
<1>3. CampsCalm
  <2>1. CASE SafetyExit(c)
    <3>1. camp[c].state.phase = "recenter"
      BY <2>1 DEF SafetyExit
    <3>2. CalmState(camp[c].state, RecenterToRetainExit(camp[c].state))
      BY <1>2, <3>1, CalmTransitions
    <3> QED BY <2>1, <3>1, <3>2, CampsStateCalm DEF SafetyExit
  <2>2. ASSUME NEW swap \in {"none", "todo"}, Replan(c, swap) PROVE CampsCalm
    <3>1. IsAwaitingReplan(camp[c].state)
      BY <2>2 DEF Replan
    <3>2. CalmState(camp[c].state, ReplanTransition(camp[c].state, swap))
      BY <1>2, <3>1, CalmTransitions
    <3> QED BY <2>2, <3>1, <3>2, CampsStateCalm DEF Replan, IsAwaitingReplan
  <2> QED BY <2>1, <2>2
<1> QED BY <1>1, <1>3, JobsSameCalm, CalmIntro DEF BookInv

LEMMA CalmClock == ASSUME TypeInv, BookInv, Clock PROVE CalmStep
<1>1. /\ RowsCalm /\ TurnsCalm /\ CampsCalm /\ effects' = effects /\ chain'.result = chain.result
  BY RowsSameCalm, TurnsSameCalm, CampsSame DEF Clock, LeaseExpire, ParkElapsed
<1>2. ASSUME NEW j \in JobIds, LeaseExpire(j) \/ ParkElapsed(j) PROVE JobsCalm /\ NoStart
  <2>1. PICK v : /\ job' = [job EXCEPT ![j] = v]
                 /\ v.status = job[j].status /\ v.lease = job[j].lease /\ v.camp = job[j].camp
                 /\ v.kind = job[j].kind /\ v.rev = job[j].rev /\ v.started = job[j].started
    <3>1. CASE LeaseExpire(j)
      <4>1. job' = [job EXCEPT ![j] = [job[j] EXCEPT !.live = FALSE]]
        BY <3>1 DEF LeaseExpire
      <4> DEFINE v == [job[j] EXCEPT !.live = FALSE]
      <4>2. /\ v.status = job[j].status /\ v.lease = job[j].lease /\ v.camp = job[j].camp
            /\ v.kind = job[j].kind /\ v.rev = job[j].rev /\ v.started = job[j].started
        BY JobTyped DEF JobRecord
      <4> QED BY <4>1, <4>2
    <3>2. CASE ParkElapsed(j)
      <4>1. job' = [job EXCEPT ![j] = [job[j] EXCEPT !.ready = TRUE]]
        BY <3>2 DEF ParkElapsed
      <4> DEFINE v == [job[j] EXCEPT !.ready = TRUE]
      <4>2. /\ v.status = job[j].status /\ v.lease = job[j].lease /\ v.camp = job[j].camp
            /\ v.kind = job[j].kind /\ v.rev = job[j].rev /\ v.started = job[j].started
        BY JobTyped DEF JobRecord
      <4> QED BY <4>1, <4>2
    <3> QED BY <1>2, <3>1, <3>2
  <2>2. CASE job[j].status # "none"
    BY <2>1, <2>2, JobSetCalm DEF BookInv, JobInv, PendingJob
  <2>3. CASE job[j].status = "none"
    <3>1. \A i \in JobIds : /\ job'[i].status = job[i].status /\ job'[i].camp = job[i].camp
                            /\ job'[i].kind = job[i].kind /\ job'[i].rev = job[i].rev
                            /\ job'[i].started = job[i].started /\ job'[i].lease = job[i].lease
      BY <2>1 DEF TypeInv, TypeOK
    <3> QED BY <3>1 DEF BookInv, JobInv, JobsCalm, JobCalm, NoStart, PendingJob
  <2> QED BY <2>2, <2>3
<1> QED BY <1>1, <1>2, CalmIntro DEF Clock


-----------------------------------------------------------------------------
(* Calm steps: maintenance, claims and failures.                           *)

\* One campaign takes a new record.
LEMMA CampSetCalm ==
  ASSUME TypeInv, NEW c \in Campaigns, NEW v, camp' = [camp EXCEPT ![c] = v],
         camp[c].rev <= v.rev, v.state.phase = "none" => v.rev = camp[c].rev,
         v.costs = camp[c].costs,
         \/ v.life = camp[c].life
         \/ /\ camp[c].life \notin {"none", "closed"} /\ v.life \in {"active", "closed"}
            /\ \A j \in JobIds : PendingJob(j) /\ job[j].kind = "open" => job[j].camp # c,
         v.alloc = "released" => camp[c].alloc = "released" \/ CanRelease(c),
         CalmState(camp[c].state, v.state)
  PROVE  CampsCalm
<1>1. camp'[c] = v /\ \A d \in Campaigns : d # c => camp'[d] = camp[d]
  BY DEF TypeInv, TypeOK
<1>2. CampCalm(c) /\ CalmState(camp[c].state, camp'[c].state)
  BY <1>1 DEF CampCalm, LifeCalm
<1> QED BY <1>1, <1>2, CampSameCalm DEF CampsCalm

LEMMA OpenedCalm ==
  ASSUME TypeInv, JobInv, NEW j \in JobIds, job[j].status = "succeeded", job[j].kind = "open",
         NEW c \in Campaigns, c = job[j].camp, camp[c].state.phase = "holding",
         camp' = [camp EXCEPT ![c] = OpenedCampaign(c)]
  PROVE  CampsCalm
<1> DEFINE v == OpenedCampaign(c)
<1>1. CASE camp[c].life = "opening"
  <2>1. /\ v.life = "active" /\ v.alloc = "active" /\ v.rev = camp[c].rev + 1
        /\ v.state = camp[c].state /\ v.costs = camp[c].costs
    BY <1>1, CampTyped DEF OpenedCampaign, Campaign
  <2>2. \A i \in JobIds : PendingJob(i) /\ job[i].kind = "open" => job[i].camp # c
    BY DEF JobInv, PendingJob, PendingStatus, ActiveStatus, InFlight
  <2> HIDE DEF v
  <2>3. camp[c].rev <= v.rev /\ CalmState(camp[c].state, v.state)
    BY <2>1, CampTyped, KeepsRefl
  <2> QED BY <1>1, <2>1, <2>2, <2>3, CampSetCalm DEF v
<1>2. CASE camp[c].life # "opening"
  <2>1. camp'[c] = camp[c] /\ \A d \in Campaigns : d # c => camp'[d] = camp[d]
    BY <1>2 DEF OpenedCampaign, TypeInv, TypeOK
  <2> QED BY <2>1, CampSameCalm DEF CampsCalm
<1> QED BY <1>1, <1>2

LEMMA ClosedCalm ==
  ASSUME TypeInv, JobInv, NEW c \in Campaigns, camp[c].life \in {"active", "closed"},
         CanClose(camp[c].state), camp' = [camp EXCEPT ![c] = ClosedCampaign(c)]
  PROVE  CampsCalm
<1> DEFINE v == ClosedCampaign(c)
<1>1. /\ v.life = "closed" /\ v.alloc = camp[c].alloc /\ v.rev = camp[c].rev + 1
      /\ v.state = ClosedState(camp[c].state) /\ v.costs = camp[c].costs
  BY CampTyped DEF ClosedCampaign, Campaign
<1>2. camp[c].life = "active" =>
        \A i \in JobIds : PendingJob(i) /\ job[i].kind = "open" => job[i].camp # c
  BY DEF JobInv, PendingJob, PendingStatus, ActiveStatus, InFlight
<1>3. v.state.phase = "closed"
  BY <1>1, CampTyped DEF ClosedState, StrategyState
<1> HIDE DEF v
<1>4. camp[c].rev <= v.rev /\ CalmState(camp[c].state, v.state)
  BY <1>1, CampTyped, CalmTransitions
<1>5. \/ v.life = camp[c].life
      \/ /\ camp[c].life \notin {"none", "closed"} /\ v.life \in {"active", "closed"}
         /\ \A j \in JobIds : PendingJob(j) /\ job[j].kind = "open" => job[j].camp # c
  BY <1>1, <1>2
<1> QED BY <1>1, <1>3, <1>4, <1>5, CampSetCalm DEF v

LEMMA ReleasedCalm ==
  ASSUME TypeInv, NEW c \in Campaigns, CanRelease(c), camp' = [camp EXCEPT ![c].alloc = "released"]
  PROVE  CampsCalm
<1> DEFINE v == [camp[c] EXCEPT !.alloc = "released"]
<1>1. /\ v.life = camp[c].life /\ v.rev = camp[c].rev /\ v.state = camp[c].state
      /\ v.costs = camp[c].costs
  BY CampTyped DEF Campaign
<1>2. camp' = [camp EXCEPT ![c] = v]
  OBVIOUS
<1> HIDE DEF v
<1>3. camp[c].rev <= v.rev /\ CalmState(camp[c].state, v.state)
  BY <1>1, CampTyped, KeepsRefl
<1> QED BY <1>1, <1>2, <1>3, CampSetCalm

LEMMA CalmMaintain == ASSUME TypeInv, BookInv, Maintain PROVE CalmStep
<1>1. /\ RowsCalm /\ TurnsCalm /\ JobsCalm /\ NoStart
      /\ effects' = effects /\ chain'.result = chain.result
  <2>1. UNCHANGED job /\ UNCHANGED outbox /\ UNCHANGED worker /\ UNCHANGED effects /\ UNCHANGED chain
    BY DEF Maintain, MaintenanceRefresh, RecoverOpening, RecoverClose, RecoverRelease
  <2> QED BY <2>1, RowsSameCalm, TurnsSameCalm, JobsSameCalm DEF BookInv
<1>2. CASE MaintenanceRefresh
  <2>1. UNCHANGED camp
    BY <1>2 DEF MaintenanceRefresh
  <2> QED BY <1>1, <2>1, CampsSame, CalmIntro
<1>3. ASSUME NEW j \in JobIds, RecoverOpening(j) \/ RecoverClose(j) \/ RecoverRelease(j)
      PROVE  CampsCalm
  <2>1. PICK c \in Campaigns : c = job[j].camp
    BY <1>3 DEF RecoverOpening, RecoverClose, RecoverRelease, CanRecoverOpening, CanRecoverClose,
              CanRecoverRelease, TypeInv, JobsOK
  <2>2. CASE RecoverOpening(j)
    BY <2>1, <2>2, OpenedCalm DEF RecoverOpening, CanRecoverOpening, BookInv
  <2>3. CASE RecoverClose(j)
    BY <2>1, <2>3, ClosedCalm DEF RecoverClose, CanRecoverClose, BookInv
  <2>4. CASE RecoverRelease(j)
    BY <2>1, <2>4, ReleasedCalm DEF RecoverRelease, CanRecoverRelease, ReleaseAllocation
  <2> QED BY <1>3, <2>2, <2>3, <2>4
<1> QED BY <1>1, <1>2, <1>3, CalmIntro DEF Maintain

LEMMA BeginTurnCalm ==
  ASSUME TypeInv, UNCHANGED outbox, NEW w \in Workers, NEW j \in JobIds, BeginTurn(w, j)
  PROVE  TurnsCalm
<1>1. PICK r \in RowIds \union {0} :
        worker' = [worker EXCEPT ![w] = [At("init", j, r) EXCEPT
                     !.seen = IF r = 0 THEN "none" ELSE outbox[r].status]]
  BY DEF BeginTurn
<1> DEFINE t == [At("init", j, r) EXCEPT !.seen = IF r = 0 THEN "none" ELSE outbox[r].status]
<1>2. t.pc = "init" /\ t.row = r /\ t.seen = (IF r = 0 THEN "none" ELSE outbox[r].status)
  BY DEF At, IdleTurn
<1>3. worker' = [worker EXCEPT ![w] = t]
  BY <1>1
<1> HIDE DEF t
<1>4. worker'[w] = t
  BY <1>3 DEF TypeInv, TypeOK
<1>5. r # 0 => r \in RowIds
  BY <1>1
<1>6. TurnFits(w)'
  BY <1>2, <1>4, <1>5 DEF TurnFits, SettledRow
<1> QED BY <1>3, <1>6, TurnOther

LEMMA CalmClaim == ASSUME TypeInv, LaneInv, BookInv, NEW w \in Workers, Claim(w) PROVE CalmStep
<1>1. /\ RowsCalm /\ CampsCalm /\ effects' = effects /\ chain'.result = chain.result
      /\ UNCHANGED outbox
  BY RowsSameCalm, CampsSame DEF Claim, ClaimQueued, ClaimYield, ClaimActive
<1>2. TurnsCalm
  BY <1>1, BeginTurnCalm DEF Claim, ClaimQueued, ClaimYield, ClaimActive
<1>3. ASSUME NEW j \in JobIds, PendingJob(j), NEW s \in ActiveStatus,
             NEW v, v = Lease(job[j], w, s)
      PROVE  /\ v.status = s /\ v.camp = job[j].camp /\ v.kind = job[j].kind
             /\ v.rev = job[j].rev /\ v.started = job[j].started
  BY <1>3, JobTyped DEF Lease, JobRecord
<1>4. JobsCalm /\ NoStart
  <2>1. CASE ClaimQueued(w) \/ ClaimActive(w)
    <3>1. PICK j \in JobIds, s \in ActiveStatus :
            PendingJob(j) /\ job' = [job EXCEPT ![j] = Lease(@, w, s)]
      BY <2>1 DEF ClaimQueued, ClaimActive, ActiveJob, PendingJob, PendingStatus, ActiveStatus, InFlight,
                  QueuedPick, Eligible
    <3> DEFINE v == Lease(job[j], w, s)
    <3>2. /\ v.status = s /\ v.camp = job[j].camp /\ v.kind = job[j].kind
          /\ v.rev = job[j].rev /\ v.started = job[j].started
      BY <1>3, <3>1
    <3>3. job' = [job EXCEPT ![j] = v]
      BY <3>1
    <3> HIDE DEF v
    <3>4. job[j].status \notin {"none", "succeeded"} /\ v.status \notin {"none", "succeeded"}
      BY <3>1, <3>2 DEF PendingJob, PendingStatus, ActiveStatus, InFlight
    <3> QED BY <3>1, <3>2, <3>3, <3>4, JobSetCalm DEF BookInv
  <2>2. CASE ClaimYield(w)
    <3>1. PICK a \in JobIds, j \in JobIds :
            /\ ActiveJob(a) /\ YieldsTo(a, j)
            /\ job' = [job EXCEPT ![a].status = "queued", ![a].lease = None,
                                  ![a].live = FALSE, ![a].ready = FALSE,
                                  ![j] = Lease(@, w, "preflighting")]
      BY <2>2 DEF ClaimYield
    <3>2. job[j].status = "queued" /\ job[a].status = "blocked" /\ a # j
      BY <3>1 DEF YieldsTo, QueuedPick, Eligible
    <3> DEFINE v == Lease(job[j], w, "preflighting")
    <3>3. /\ v.status = "preflighting" /\ v.camp = job[j].camp /\ v.kind = job[j].kind
          /\ v.rev = job[j].rev /\ v.started = job[j].started
      BY <1>3, <3>2 DEF PendingJob, PendingStatus, ActiveStatus, InFlight
    <3>4. /\ job'[j] = v
          /\ job'[a] = [job[a] EXCEPT !.status = "queued", !.lease = None, !.live = FALSE, !.ready = FALSE]
          /\ \A i \in JobIds : i \notin {a, j} => job'[i] = job[i]
      BY <3>1, <3>2 DEF TypeInv, TypeOK
    <3>5. /\ job'[a].status = "queued" /\ job'[a].camp = job[a].camp /\ job'[a].kind = job[a].kind
          /\ job'[a].rev = job[a].rev /\ job'[a].started = job[a].started
      BY <3>4, JobTyped DEF JobRecord
    <3> HIDE DEF v
    <3>6. JobCalm(a) /\ JobCalm(j)
      BY <3>2, <3>3, <3>4, <3>5 DEF JobCalm, PendingJob, PendingStatus, ActiveStatus, InFlight
    <3>7. \A i \in JobIds : i \notin {a, j} => JobCalm(i)
      BY <3>4 DEF JobCalm, PendingJob, BookInv, JobInv
    <3> QED BY <3>3, <3>4, <3>5, <3>6, <3>7 DEF JobsCalm, NoStart
  <2> QED BY <2>1, <2>2 DEF Claim
<1> QED BY <1>1, <1>2, <1>4, CalmIntro

-----------------------------------------------------------------------------
(* Calm steps: the turn.                                                   *)

LEMMA TurnBegun ==
  ASSUME TypeInv, BookInv, NEW w \in Workers, worker[w].pc \notin {"idle", "init", "block"}
  PROVE  /\ worker[w].job \in JobIds /\ job[worker[w].job].status # "none"
         /\ Begun(worker[w].job) /\ CampOf(w) \in Campaigns /\ StateOf(w).phase # "none"
<1>1. worker[w].job \in JobIds /\ job[worker[w].job].status # "none" /\ CampOf(w) \in Campaigns
  BY TurnTyped DEF Turning, JobOf
<1>2. Begun(worker[w].job)
  BY DEF BookInv, TurnInv, TurnFits
<1>3. StateOf(w).phase # "none"
  BY <1>1, <1>2 DEF Begun, StateOf, CampOf, JobOf, BookInv, RevisionInv, ManagementJob
<1> QED BY <1>1, <1>2, <1>3

\* A settled row keeps its status, and its effect is booked.
LEMMA SettledKept == ASSUME RowsCalm, NEW r \in RowIds, SettledRow(r) PROVE SettledRow(r)'
BY DEF RowsCalm, RowCalm, OpenRow, SettledRow

LEMMA SettledBooked == ASSUME BookInv, NEW r \in RowIds, SettledRow(r) PROVE r \in effects
BY DEF BookInv, BookedOnce, SettledRow

LEMMA CalmFailure == ASSUME TypeInv, LaneInv, BookInv, NEW w \in Workers, Failure(w) PROVE CalmStep
<1>1. /\ RowsCalm /\ JobsCalm /\ NoStart /\ effects' = effects /\ chain'.result = chain.result
  <2>1. UNCHANGED job /\ UNCHANGED outbox /\ UNCHANGED effects /\ UNCHANGED chain
    BY DEF Failure, PlanError, IntentExpired, Fail, Crash
  <2> QED BY <2>1, RowsSameCalm, JobsSameCalm DEF BookInv
<1>2. TurnInv
  BY DEF BookInv
<1>3. CASE PlanError(w)
  <2>1. worker[w].pc = "plan" /\ Turning(w)
    BY <1>3 DEF PlanError, Turning
  <2>2. PICK t \in Settlements(StateOf(w), JobOf(w).kind) :
          IF t = StateOf(w)
          THEN UNCHANGED camp /\ Goto(w, "block")
          ELSE /\ camp' = [camp EXCEPT ![CampOf(w)].state = t, ![CampOf(w)].rev = @ + 1]
               /\ Goto(w, IF t.phase = "exit" THEN "plan" ELSE "block")
    BY <1>3 DEF PlanError
  <2>3. CampsCalm
    <3>1. StateOf(w) \in StrategyState /\ CampOf(w) \in Campaigns
      BY <2>1, TurnTyped
    <3>2. StateOf(w).phase # "none"
      BY <2>1, TurnBegun
    <3>3. CalmState(StateOf(w), t)
      BY <3>1, CalmTransitions
    <3>4. CASE t = StateOf(w)
      BY <2>2, <3>4, CampsSame
    <3>5. CASE t # StateOf(w)
      <4>1. camp' = [camp EXCEPT ![CampOf(w)].state = t, ![CampOf(w)].rev = camp[CampOf(w)].rev + 1]
        BY <2>2, <3>5
      <4> QED BY <3>2, <3>3, <4>1, CampsStateCalm DEF StateOf
    <3> QED BY <3>4, <3>5
  <2>4. Goto(w, "plan") \/ Goto(w, "block")
    BY <2>2
  <2>5. TurnsCalm
    BY <1>1, <1>2, <2>1, <2>3, <2>4, MoveCalm DEF PCs
  <2> QED BY <1>1, <2>3, <2>5, CalmIntro
<1>4. CASE IntentExpired(w)
  <2>1. CampsCalm
    BY <1>4, CampsSame DEF IntentExpired
  <2>2. TurnsCalm
    BY <1>1, <1>2, <1>4, <2>1, MoveCalm DEF IntentExpired, PCs
  <2> QED BY <1>1, <2>1, <2>2, CalmIntro
<1>5. CASE Fail(w) \/ Crash(w)
  <2>1. CampsCalm
    BY <1>5, CampsSame DEF Fail, Crash
  <2>2. TurnsCalm
    BY <1>5, BlockCalm, EndTurnCalm DEF Fail, Crash
  <2> QED BY <1>1, <2>1, <2>2, CalmIntro
<1> QED BY <1>3, <1>4, <1>5 DEF Failure

LEMMA CalmDrop == ASSUME TypeInv, BookInv, NEW r, Drop(r) PROVE CalmStep
<1>1. /\ UNCHANGED job /\ UNCHANGED outbox /\ UNCHANGED effects /\ UNCHANGED camp /\ UNCHANGED worker
      /\ chain' = [chain EXCEPT !.mempool = @ \ {r}]
  BY DEF Drop
<1>2. chain'.result = chain.result
  BY <1>1 DEF TypeInv, TypeOK, ChainState
<1> QED BY <1>1, <1>2, RowsSameCalm, JobsSameCalm, TurnsSameCalm, CampsSame, CalmIntro DEF BookInv

LEMMA ResumeCalm ==
  ASSUME TypeInv, BookInv, RowsCalm, NEW w \in Workers, worker[w].pc = "init",
         NEW j, j = worker[w].job, Begun(j)', Resume(w)
  PROVE  TurnsCalm
<1>1. PICK r : r = worker[w].row
  OBVIOUS
<1>2. CASE r # 0 /\ worker[w].seen \in {"confirmed", "reverted"}
  <2>1. r \in RowIds /\ SettledRow(r)
    BY <1>1, <1>2 DEF BookInv, TurnInv, TurnFits
  <2>2. SettledRow(r)'
    BY <2>1, SettledKept
  <2>3. Goto(w, "effect")
    BY <1>1, <1>2 DEF Resume
  <2> QED BY <1>1, <2>1, <2>2, <2>3, GotoCalm DEF PCs
<1>3. CASE ~(r # 0 /\ worker[w].seen \in {"confirmed", "reverted"})
  <2>1. Goto(w, "plan") \/ Goto(w, "verify") \/ Goto(w, "raw")
    BY <1>1, <1>3 DEF Resume
  <2> QED BY <1>1, <2>1, GotoCalm DEF PCs
<1> QED BY <1>2, <1>3

LEMMA CalmInitialize ==
  ASSUME TypeInv, BookInv, NEW w \in Workers, NEW swap \in {"none", "todo"},
         InitializeOpening(w, swap)
  PROVE  CalmStep
<1>1. /\ UNCHANGED job /\ UNCHANGED outbox /\ UNCHANGED effects /\ UNCHANGED chain
      /\ worker[w].pc = "init" /\ JobOf(w).kind = "open" /\ Resume(w)
  BY DEF InitializeOpening
<1>2. JobsCalm /\ NoStart /\ RowsCalm
  BY <1>1, RowsSameCalm, JobsSameCalm DEF BookInv
<1>3. PICK j \in JobIds : j = worker[w].job
  BY <1>1, TurnTyped DEF Turning
<1>4. PICK c \in Campaigns : c = job[j].camp
  BY <1>1, <1>3, TurnTyped DEF Turning, CampOf, JobOf
<1>5. CampsCalm /\ camp'[c].state.phase # "none"
  <2>1. CASE camp[c].state.phase = "none"
    <3> DEFINE v == [camp[c] EXCEPT !.state = EntryState(swap), !.rev = 1]
    <3>1. camp' = [camp EXCEPT ![c] = v]
      BY <1>3, <1>4, <2>1, CampTyped DEF InitializeOpening, StateOf, CampOf, JobOf, Campaign, TypeInv, TypeOK
    <3>2. /\ v.state = EntryState(swap) /\ v.rev = 1 /\ v.costs = camp[c].costs
          /\ v.life = camp[c].life /\ v.alloc = camp[c].alloc
      BY CampTyped DEF Campaign
    <3>3. camp[c].rev = 0 /\ ~camp[c].state.nft
      BY <2>1 DEF BookInv, RevisionInv
    <3>4. CalmState(camp[c].state, EntryState(swap))
      BY <2>1, <3>3, CampTyped, CalmTransitions
    <3>5. EntryState(swap).phase = "entry"
      BY DEF EntryState, Uninitialized
    <3> HIDE DEF v
    <3>6. CampsCalm
      <4>1. camp[c].rev <= v.rev /\ v.state.phase # "none" /\ CalmState(camp[c].state, v.state)
        BY <3>2, <3>3, <3>4, <3>5
      <4> QED BY <3>1, <3>2, <4>1, CampSetCalm
    <3>7. camp'[c] = v
      BY <3>1 DEF TypeInv, TypeOK
    <3> QED BY <3>2, <3>5, <3>6, <3>7
  <2>2. CASE camp[c].state.phase # "none"
    <3>1. UNCHANGED camp
      BY <1>3, <1>4, <2>2 DEF InitializeOpening, StateOf, CampOf, JobOf
    <3> QED BY <2>2, <3>1, CampsSame
  <2> QED BY <2>1, <2>2
<1>6. Begun(j)'
  BY <1>1, <1>3, <1>4, <1>5 DEF Begun, JobOf
<1>7. TurnsCalm
  BY <1>1, <1>2, <1>3, <1>6, ResumeCalm
<1> QED BY <1>1, <1>2, <1>5, <1>7, CalmIntro

LEMMA CalmPrepared ==
  ASSUME TypeInv, BookInv, NEW w \in Workers, NEW swap, PrepareManagement(w, swap), JobOf(w).started
  PROVE  CalmStep
<1>1. /\ UNCHANGED job /\ UNCHANGED camp /\ UNCHANGED outbox /\ UNCHANGED effects /\ UNCHANGED chain
      /\ worker[w].pc = "init" /\ JobOf(w).kind # "open" /\ Resume(w)
  BY DEF PrepareManagement
<1>2. JobsCalm /\ NoStart /\ RowsCalm /\ CampsCalm
  BY <1>1, RowsSameCalm, JobsSameCalm, CampsSame DEF BookInv
<1>3. PICK j \in JobIds : j = worker[w].job
  BY <1>1, TurnTyped DEF Turning
<1>4. Begun(j)'
  BY <1>1, <1>3 DEF Begun, JobOf
<1>5. TurnsCalm
  BY <1>1, <1>2, <1>3, <1>4, ResumeCalm
<1> QED BY <1>1, <1>2, <1>5, CalmIntro

\* A turn that owns its job, which is pending or ended without success.
LEMMA OwnedUnfinished ==
  ASSUME TypeInv, BookInv, NEW w \in Workers, Owned(w)
  PROVE  worker[w].job \in JobIds /\ job[worker[w].job].status \notin {"none", "succeeded"}
<1>1. worker[w].job \in JobIds /\ job[worker[w].job].status # "none" /\ job[worker[w].job].lease = w
  BY TurnTyped DEF Owned, JobOf
<1> QED BY <1>1, NoneAssumption DEF BookInv, JobInv

LEMMA CalmRejectReview ==
  ASSUME TypeInv, BookInv, NEW w \in Workers, RejectReview(w)
  PROVE  CalmStep
<1>1. /\ UNCHANGED camp /\ UNCHANGED outbox /\ UNCHANGED effects /\ UNCHANGED chain
      /\ worker[w].pc = "init"
  BY DEF RejectReview
<1>2. RowsCalm /\ CampsCalm
  BY <1>1, RowsSameCalm, CampsSame
<1>3. TurnsCalm
  BY EndTurnCalm, BlockCalm DEF RejectReview
<1>4. JobsCalm /\ NoStart
  <2>1. CASE UNCHANGED job
    BY <2>1, JobsSameCalm DEF BookInv
  <2>2. CASE Owned(w) /\ job' = [job EXCEPT ![worker[w].job].status = "rejected"]
    <3>1. worker[w].job \in JobIds /\ job[worker[w].job].status \notin {"none", "succeeded"}
      BY <2>2, OwnedUnfinished
    <3>2. "rejected" \in JobStatus \ {"none", "succeeded"} /\ "rejected" \notin PendingStatus
      BY DEF JobStatus, PendingStatus, ActiveStatus, InFlight
    <3> QED BY <2>2, <3>1, <3>2, JobStatusCalm DEF BookInv
  <2> QED BY <2>1, <2>2 DEF RejectReview
<1> QED BY <1>1, <1>2, <1>3, <1>4, CalmIntro

LEMMA CalmResumeEffect ==
  ASSUME TypeInv, BookInv, NEW w \in Workers, ResumeEffect(w)
  PROVE  CalmStep
<1>1. /\ UNCHANGED job /\ UNCHANGED outbox /\ UNCHANGED chain /\ worker[w].pc = "effect"
      /\ effects' = effects \union {worker[w].row} /\ Turning(w)
  BY DEF ResumeEffect, Turning
<1>2. JobsCalm /\ NoStart /\ RowsCalm
  BY <1>1, RowsSameCalm, JobsSameCalm DEF BookInv
<1>3. PICK r \in RowIds : r = worker[w].row /\ SettledRow(r) /\ r \in effects
  BY <1>1, SettledBooked DEF BookInv, TurnInv, TurnFits
<1>4. effects' = effects
  BY <1>1, <1>3
<1>5. PICK c \in Campaigns : c = CampOf(w)
  BY <1>1, TurnTyped
<1>6. \A kind, outcome, risky : Effected(c, kind, r, outcome, risky) = camp[c]
  BY <1>3 DEF Effected
<1>7. \/ camp' = [camp EXCEPT ![c] = camp[c]]
      \/ \E record \in Recovery(camp[c], JobOf(w).kind, RowOf(w).plan) : camp' = [camp EXCEPT ![c] = record]
  BY <1>3, <1>5, <1>6 DEF ResumeEffect
<1>8. CampsCalm
  <2>1. CASE camp' = [camp EXCEPT ![c] = camp[c]]
    BY <2>1, CampsSame DEF TypeInv, TypeOK
  <2>2. ASSUME CanRecoverRevertedWithdrawal(camp[c].state),
               camp' = [camp EXCEPT ![c] = [camp[c] EXCEPT !.state = RecenterToRetainExit(@), !.rev = @ + 1]]
        PROVE  CampsCalm
    <3>1. camp' = [camp EXCEPT ![c].state = RecenterToRetainExit(camp[c].state), ![c].rev = camp[c].rev + 1]
      BY <2>2 DEF TypeInv, TypeOK, Campaign
    <3>2. CalmState(camp[c].state, RecenterToRetainExit(camp[c].state))
      BY <2>2, CampTyped, CalmTransitions
    <3> QED BY <2>2, <3>1, <3>2, CampsStateCalm DEF CanRecoverRevertedWithdrawal
  <2> QED BY <1>7, <2>1, <2>2 DEF Recovery
<1>9. Goto(w, "plan") \/ Goto(w, "block")
  BY DEF ResumeEffect
<1>10. TurnsCalm
  BY <1>1, <1>2, <1>8, <1>9, MoveCalm DEF PCs, BookInv
<1> QED BY <1>1, <1>2, <1>4, <1>8, <1>10, CalmIntro

LEMMA CalmPlan == ASSUME TypeInv, BookInv, NEW w \in Workers, Plan(w) PROVE CalmStep
<1>1. /\ UNCHANGED job /\ UNCHANGED camp /\ UNCHANGED outbox /\ UNCHANGED effects /\ UNCHANGED chain
      /\ worker[w].pc = "plan" /\ Turning(w)
  BY DEF Plan, Turning
<1>2. JobsCalm /\ NoStart /\ RowsCalm /\ CampsCalm
  BY <1>1, RowsSameCalm, JobsSameCalm, CampsSame DEF BookInv
<1> DEFINE t == [At("prepare", worker[w].job, worker[w].row) EXCEPT
                   !.plan = NextStage(StateOf(w), chain.allowance, Shared(CampOf(w))),
                   !.rev = camp[CampOf(w)].rev,
                   !.retry = Retries(worker[w].job), !.nonce = wallet.nonce]
<1>3. \/ Goto(w, "block") \/ Goto(w, "finish")
      \/ worker' = [worker EXCEPT ![w] = t]
  BY DEF Plan
<1>4. CASE Goto(w, "block") \/ Goto(w, "finish")
  <2>1. TurnsCalm
    BY <1>1, <1>2, <1>4, MoveCalm DEF PCs, BookInv
  <2> QED BY <1>1, <1>2, <2>1, CalmIntro
<1>5. CASE worker' = [worker EXCEPT ![w] = t]
  <2>1. PICK j \in JobIds : j = worker[w].job
    BY <1>1, TurnTyped
  <2>2. t.pc = "prepare" /\ t.job = j
    BY <2>1 DEF At, IdleTurn
  <2>3. worker' = [worker EXCEPT ![w] = t]
    BY <1>5
  <2> HIDE DEF t
  <2>4. worker'[w] = t
    BY <2>3 DEF TypeInv, TypeOK
  <2>5. Begun(j)'
    BY <1>1, <2>1, TurnBegun DEF Begun
  <2>6. TurnFits(w)'
    BY <2>2, <2>4, <2>5 DEF TurnFits, Begun
  <2>7. TurnsCalm
    BY <2>3, <2>6, TurnOther
  <2> QED BY <1>1, <1>2, <2>7, CalmIntro
<1> QED BY <1>3, <1>4, <1>5

\* Steps that move the turn, at most.
LEMMA CalmMoves ==
  ASSUME TypeInv, BookInv, NEW w \in Workers,
         \/ PrepareRefused(w) \/ VerifyIntent(w) \/ Sign(w) \/ ReadRaw(w) \/ Publish(w)
         \/ AwaitReceipt(w) \/ (CancelPrepared(w) /\ ~CanCancel(w))
  PROVE  CalmStep
<1>1. /\ UNCHANGED job /\ UNCHANGED camp /\ UNCHANGED outbox /\ UNCHANGED effects
      /\ worker[w].pc \notin {"idle", "init", "block"}
  BY DEF PrepareRefused, VerifyIntent, Sign, ReadRaw, Publish, AwaitReceipt, CancelPrepared
<1>2. JobsCalm /\ NoStart /\ RowsCalm /\ CampsCalm
  BY <1>1, RowsSameCalm, JobsSameCalm, CampsSame DEF BookInv
<1>3. chain'.result = chain.result
  <2>1. UNCHANGED chain \/ chain' = [chain EXCEPT !.mempool = @ \union {worker[w].row}]
    BY DEF PrepareRefused, VerifyIntent, Sign, ReadRaw, Publish, AwaitReceipt, CancelPrepared
  <2> QED BY <2>1 DEF TypeInv, TypeOK, ChainState
<1>4. \E pc \in {"block", "sign", "cancel", "record", "reconcile", "confirming", "wait"} : Goto(w, pc)
  BY DEF PrepareRefused, VerifyIntent, Sign, ReadRaw, Publish, AwaitReceipt, CancelPrepared
<1>5. TurnsCalm
  BY <1>1, <1>2, <1>4, MoveCalm DEF PCs, BookInv
<1> QED BY <1>1, <1>2, <1>3, <1>5, CalmIntro

LEMMA CalmRecord == ASSUME TypeInv, BookInv, NEW w \in Workers, RecordSigned(w) PROVE CalmStep
<1>1. /\ UNCHANGED job /\ UNCHANGED camp /\ UNCHANGED effects /\ UNCHANGED chain
      /\ worker[w].pc = "record"
  BY DEF RecordSigned
<1>2. JobsCalm /\ NoStart /\ CampsCalm
  BY <1>1, JobsSameCalm, CampsSame DEF BookInv
<1>3. RowsCalm
  <2>1. CASE CanRecord(w)
    <3>1. PICK r : r = worker[w].row
      OBVIOUS
    <3>2. OpenRow(r) /\ outbox' = [outbox EXCEPT ![r].status = "signed"]
      BY <2>1, <3>1 DEF RecordSigned, CanRecord, RowOf, OpenRow
    <3>3. \A q \in RowIds :
            /\ outbox'[q].job = outbox[q].job /\ outbox'[q].plan = outbox[q].plan
            /\ outbox'[q].rev = outbox[q].rev /\ outbox'[q].retry = outbox[q].retry
            /\ outbox'[q].status = IF q = r THEN "signed" ELSE outbox[q].status
      BY <3>2 DEF TypeInv, TypeOK, Row
    <3> QED BY <3>2, <3>3 DEF RowsCalm, RowCalm, OpenRow
  <2>2. CASE ~CanRecord(w)
    BY <2>2, RowsSameCalm DEF RecordSigned
  <2> QED BY <2>1, <2>2
<1>4. Goto(w, "raw") \/ Goto(w, "block")
  BY DEF RecordSigned
<1>5. TurnsCalm
  BY <1>1, <1>2, <1>4, MoveCalm DEF PCs, BookInv
<1> QED BY <1>1, <1>2, <1>3, <1>5, CalmIntro

LEMMA CalmBeginPublish == ASSUME TypeInv, BookInv, NEW w \in Workers, BeginPublish(w) PROVE CalmStep
<1>1. /\ UNCHANGED outbox /\ UNCHANGED camp /\ UNCHANGED effects /\ UNCHANGED chain
      /\ worker[w].pc = "confirming" /\ Turning(w)
  BY DEF BeginPublish, Turning
<1>2. RowsCalm /\ CampsCalm
  BY <1>1, RowsSameCalm, CampsSame
<1>3. JobsCalm /\ NoStart
  <2>1. CASE UNCHANGED job
    BY <2>1, JobsSameCalm DEF BookInv
  <2>2. CASE PendingJob(worker[w].job) /\ job' = [job EXCEPT ![worker[w].job].status = "confirming"]
    <3>1. worker[w].job \in JobIds /\ job[worker[w].job].status \notin {"none", "succeeded"}
      BY <1>1, <2>2, TurnTyped DEF PendingJob, PendingStatus, ActiveStatus, InFlight
    <3>2. "confirming" \in JobStatus \ {"none", "succeeded"}
      BY DEF JobStatus, PendingStatus, ActiveStatus, InFlight
    <3> QED BY <2>2, <3>1, <3>2, JobStatusCalm DEF BookInv
  <2> QED BY <2>1, <2>2 DEF BeginPublish
<1>4. Goto(w, "publish") \/ Goto(w, "block")
  BY DEF BeginPublish
<1>5. TurnsCalm
  BY <1>1, <1>2, <1>3, <1>4, MoveCalm DEF PCs, BookInv
<1> QED BY <1>1, <1>2, <1>3, <1>5, CalmIntro

LEMMA CalmNothing == ASSUME TypeInv, LaneInv, BookInv, NEW w \in Workers, ReconcileNothing(w) PROVE CalmStep
<1>1. /\ UNCHANGED job /\ UNCHANGED camp /\ UNCHANGED outbox /\ UNCHANGED effects /\ UNCHANGED chain
      /\ worker[w].pc = "reconcile"
  BY DEF ReconcileNothing
<1>2. JobsCalm /\ NoStart /\ RowsCalm /\ CampsCalm
  BY <1>1, RowsSameCalm, JobsSameCalm, CampsSame DEF BookInv
<1>3. PICK r \in RowIds : r = worker[w].row
  BY <1>1, TurnTyped DEF Turning, RowPCs
<1>4. PICK j \in JobIds : j = worker[w].job
  BY <1>1, TurnTyped DEF Turning
<1>5. Begun(j)'
  BY <1>1, <1>4, TurnBegun DEF Begun
<1>6. \/ Goto(w, "block")
      \/ Goto(w, "settle") /\ SettledRow(r)'
  BY <1>1, <1>3 DEF ReconcileNothing, RowOf, SettledRow
<1>7. TurnsCalm
  BY <1>3, <1>4, <1>5, <1>6, GotoCalm DEF PCs
<1> QED BY <1>1, <1>2, <1>7, CalmIntro

LEMMA CalmSettle == ASSUME TypeInv, BookInv, NEW w \in Workers, Settle(w) PROVE CalmStep
<1>1. /\ UNCHANGED outbox /\ UNCHANGED chain /\ worker[w].pc = "settle"
      /\ effects' = effects \union {worker[w].row} /\ Turning(w)
  BY DEF Settle, Turning
<1>2. PICK r \in RowIds : r = worker[w].row /\ SettledRow(r) /\ r \in effects
  BY <1>1, SettledBooked DEF BookInv, TurnInv, TurnFits
<1>3. effects' = effects /\ RowsCalm
  BY <1>1, <1>2, RowsSameCalm
<1>4. UNCHANGED camp
  <2>1. camp' = [camp EXCEPT ![CampOf(w)] = camp[CampOf(w)]]
    BY <1>2 DEF Settle, Effected
  <2> QED BY <2>1 DEF TypeInv, TypeOK
<1>5. PICK j \in JobIds : j = worker[w].job /\ job[j].status # "none"
  BY <1>1, TurnTyped DEF JobOf
<1>6. JobsCalm /\ NoStart
  <2>1. CASE UNCHANGED job
    BY <2>1, JobsSameCalm DEF BookInv
  <2>2. CASE job' = [job EXCEPT ![j].lease = None, ![j].live = FALSE]
    <3> DEFINE v == [job[j] EXCEPT !.lease = None, !.live = FALSE]
    <3>1. /\ v.status = job[j].status /\ v.camp = job[j].camp /\ v.kind = job[j].kind
          /\ v.rev = job[j].rev /\ v.started = job[j].started /\ v.lease = None
      BY JobTyped DEF JobRecord
    <3>2. job' = [job EXCEPT ![j] = v]
      BY <2>2 DEF TypeInv, TypeOK, JobRecord
    <3> HIDE DEF v
    <3>3. v.status \in PendingStatus => PendingJob(j)
      BY <3>1 DEF PendingJob
    <3>4. v.status = "succeeded" => v.lease = None
      BY <3>1
    <3>5. JobInv /\ job[j].status # "none" /\ v.status # "none"
      BY <1>5, <3>1 DEF BookInv
    <3>6. v.camp = job[j].camp /\ v.kind = job[j].kind /\ v.rev = job[j].rev
          /\ v.started = job[j].started
      BY <3>1
    <3>7. job[j].status = "succeeded" => v.status = "succeeded"
      BY <3>1
    <3> QED BY <3>2, <3>3, <3>4, <3>5, <3>6, <3>7, JobSetCalm
  <2> QED BY <1>5, <2>1, <2>2 DEF Settle
<1>7. TurnsCalm
  BY EndTurnCalm, BlockCalm DEF Settle
<1> QED BY <1>1, <1>3, <1>4, <1>6, <1>7, CampsSame, CalmIntro

LEMMA CalmFinish == ASSUME TypeInv, BookInv, NEW w \in Workers, Finish(w) PROVE CalmStep
<1>1. /\ UNCHANGED camp /\ UNCHANGED effects /\ UNCHANGED chain /\ worker[w].pc = "finish" /\ Turning(w)
  BY DEF Finish, Turning
<1>2. PICK j \in JobIds : j = worker[w].job /\ job[j].status # "none" /\ Begun(j)
  BY <1>1, TurnBegun
<1>3. CASE ~CanFinish(w)
  <2>1. UNCHANGED job /\ UNCHANGED outbox /\ Goto(w, "block")
    BY <1>3 DEF Finish
  <2> QED BY <1>1, <2>1, CampsSame, JobsSameCalm, RowsSameCalm, BlockCalm, CalmIntro DEF BookInv
<1>4. CASE CanFinish(w)
  <2>1. RowsCalm
    <3>1. \E r, c : outbox' = [outbox EXCEPT ![r].cleanup = c]
      BY <1>4 DEF Finish
    <3> QED BY <3>1 DEF RowsCalm, RowCalm, TypeInv, TypeOK, Row
  <2> DEFINE v == [job[j] EXCEPT !.status = "succeeded", !.lease = None, !.live = FALSE]
  <2>2. /\ v.status = "succeeded" /\ v.camp = job[j].camp /\ v.kind = job[j].kind
        /\ v.rev = job[j].rev /\ v.started = job[j].started /\ v.lease = None
    BY JobTyped DEF JobRecord
  <2>3. job' = [job EXCEPT ![j] = v]
    BY <1>2, <1>4 DEF Finish, TypeInv, TypeOK, JobRecord
  <2> HIDE DEF v
  <2>4. JobsCalm /\ NoStart
    BY <1>2, <2>2, <2>3, JobSetCalm DEF BookInv, PendingStatus, ActiveStatus, InFlight
  <2>5. job'[j].status = "succeeded" /\ Begun(j)'
    BY <1>1, <1>2, <2>2, <2>3 DEF Begun, TypeInv, TypeOK
  <2>6. EndTurn(w) \/ Goto(w, "lifecycle")
    BY <1>4 DEF Finish
  <2>7. PICK r : r = worker[w].row
    OBVIOUS
  <2>8. TurnsCalm
    BY <1>2, <2>5, <2>6, <2>7, EndTurnCalm, GotoCalm DEF PCs
  <2> QED BY <1>1, <2>1, <2>4, <2>8, CampsSame, CalmIntro
<1> QED BY <1>3, <1>4

LEMMA CalmLifecycle == ASSUME TypeInv, BookInv, NEW w \in Workers, Lifecycle(w) PROVE CalmStep
<1>1. /\ UNCHANGED job /\ UNCHANGED outbox /\ UNCHANGED effects /\ UNCHANGED chain
      /\ worker[w].pc = "lifecycle"
  BY DEF Lifecycle
<1>2. JobsCalm /\ NoStart /\ RowsCalm
  BY <1>1, RowsSameCalm, JobsSameCalm DEF BookInv
<1>3. PICK j \in JobIds : j = worker[w].job /\ job[j].status = "succeeded" /\ Begun(j)
  BY <1>1, TurnBegun DEF BookInv, TurnInv, TurnFits
<1>4. PICK c \in Campaigns : c = job[j].camp
  BY <1>1, <1>3, TurnTyped DEF Turning, CampOf, JobOf
<1>5. CampsCalm
  <2>1. CASE UNCHANGED camp
    BY <2>1, CampsSame
  <2>2. CASE JobOf(w).kind = "open" /\ StateOf(w).phase = "holding" /\ camp' = [camp EXCEPT ![c] = OpenedCampaign(c)]
    BY <1>3, <1>4, <2>2, OpenedCalm DEF StateOf, CampOf, JobOf, BookInv
  <2>3. CASE JobOf(w).kind # "open" /\ CanClose(StateOf(w)) /\ camp' = [camp EXCEPT ![c] = ClosedCampaign(c)]
    <3>1. camp[c].life \in {"active", "closed"}
      BY <1>3, <1>4, <2>3 DEF BookInv, JobInv, JobOf
    <3> QED BY <1>3, <1>4, <2>3, <3>1, ClosedCalm DEF StateOf, CampOf, JobOf, BookInv
  <2> QED BY <1>3, <1>4, <2>1, <2>2, <2>3 DEF Lifecycle, CampOf, JobOf
<1>6. Begun(j)'
  BY <1>2, <1>3, <1>5, BegunKept DEF JobsCalm, CampsCalm, CalmState, KeepsPosition
<1>7. EndTurn(w) \/ Goto(w, "release")
  BY DEF Lifecycle
<1>8. PICK r : r = worker[w].row
  OBVIOUS
<1>9. TurnsCalm
  BY <1>1, <1>3, <1>6, <1>7, <1>8, EndTurnCalm, GotoCalm DEF PCs
<1> QED BY <1>1, <1>2, <1>5, <1>9, CalmIntro

LEMMA CalmRelease == ASSUME TypeInv, BookInv, NEW w \in Workers, Release(w) PROVE CalmStep
<1>1. /\ UNCHANGED job /\ UNCHANGED outbox /\ UNCHANGED effects /\ UNCHANGED chain
      /\ worker[w].pc = "release" /\ EndTurn(w)
  BY DEF Release
<1>2. PICK c \in Campaigns : c = CampOf(w)
  BY <1>1, TurnTyped DEF Turning
<1>3. CampsCalm
  BY <1>2, CampsSame, ReleasedCalm DEF Release, ReleaseAllocation
<1> QED BY <1>1, <1>3, RowsSameCalm, JobsSameCalm, EndTurnCalm, CalmIntro DEF BookInv

LEMMA CalmBlock == ASSUME TypeInv, BookInv, NEW w \in Workers, BlockTurn(w) PROVE CalmStep
<1>1. /\ UNCHANGED camp /\ UNCHANGED outbox /\ UNCHANGED effects /\ UNCHANGED chain
      /\ worker[w].pc = "block" /\ EndTurn(w) /\ Turning(w)
  BY DEF BlockTurn, Turning
<1>2. JobsCalm /\ NoStart
  <2>1. CASE UNCHANGED job
    BY <2>1, JobsSameCalm DEF BookInv
  <2>2. CASE PendingJob(worker[w].job) /\ job' = [job EXCEPT ![worker[w].job].status = "blocked"]
    <3>1. worker[w].job \in JobIds /\ job[worker[w].job].status \notin {"none", "succeeded"}
      BY <1>1, <2>2, TurnTyped DEF PendingJob, PendingStatus, ActiveStatus, InFlight
    <3>2. "blocked" \in JobStatus \ {"none", "succeeded"}
      BY DEF JobStatus, PendingStatus, ActiveStatus, InFlight
    <3> QED BY <2>2, <3>1, <3>2, JobStatusCalm DEF BookInv
  <2> QED BY <2>1, <2>2 DEF BlockTurn
<1> QED BY <1>1, <1>2, RowsSameCalm, CampsSame, EndTurnCalm, CalmIntro

-----------------------------------------------------------------------------
(* What preserves each part of the invariant.                              *)

JobsKeep == \A j \in JobIds : job[j].status # "none" => JobCalm(j)

\* A row that was written stays what it is, and a settled or cancelled one stays that.
RowsKeep ==
  \A r \in RowIds : UsedRow(r) =>
    /\ outbox'[r].job = outbox[r].job /\ outbox'[r].plan = outbox[r].plan
    /\ outbox'[r].rev = outbox[r].rev /\ outbox'[r].retry = outbox[r].retry
    /\ UsedRow(r)'
    /\ ~OpenRow(r) => outbox'[r].status = outbox[r].status

NoNewRow == \A r \in RowIds : UsedRow(r)' => UsedRow(r)
NoNewOpen == \A r \in RowIds : OpenRow(r)' => OpenRow(r)
NoneSettled == \A r \in RowIds : SettledRow(r)' => SettledRow(r)

RevsCalm ==
  \A c \in Campaigns :
    /\ camp[c].rev <= camp'[c].rev
    /\ camp[c].state.phase # "none" => camp'[c].state.phase # "none"
    /\ camp'[c].state.phase = "none" => camp'[c].rev = camp[c].rev /\ camp'[c].state.nft = camp[c].state.nft

LivesCalm == \A c \in Campaigns : LifeCalm(c)
PositionsKept == \A c \in Campaigns : KeepsPosition(camp[c].state, camp'[c].state)

LEMMA RowsKept2 == ASSUME RowsCalm PROVE RowsKeep /\ NoNewRow /\ NoNewOpen /\ NoneSettled
BY DEF RowsCalm, RowCalm, RowsKeep, NoNewRow, NoNewOpen, NoneSettled, UsedRow, OpenRow, SettledRow

\* The campaign of a row.
LEMMA RowCampIs ==
  ASSUME TypeInv, LaneInv, BookInv, NEW r \in RowIds, UsedRow(r)
  PROVE  outbox[r].job \in JobIds /\ job[outbox[r].job].status # "none" /\ RowCamp(r) \in Campaigns
BY DEF LaneInv, RowJobs, BookInv, RowJobInv, TypeInv, JobsOK, UsedRow, RowCamp

LEMMA RowCampKept ==
  ASSUME TypeInv, LaneInv, BookInv, JobsKeep, RowsKeep, NEW r \in RowIds, UsedRow(r)
  PROVE  RowCamp(r)' = RowCamp(r)
BY RowCampIs DEF JobsKeep, JobCalm, RowsKeep, RowCamp

LEMMA TurnFrame ==
  ASSUME TypeInv, BookInv, JobsKeep, RevsCalm, RowsKeep, TurnsCalm
  PROVE  TurnInv'
<1> SUFFICES ASSUME NEW w \in Workers PROVE TurnFits(w)'
  BY DEF TurnInv
<1>1. CASE worker'[w] # worker[w]
  BY <1>1 DEF TurnsCalm
<1>2. CASE worker'[w] = worker[w] /\ Turning(w)
  <2>1. PICK j \in JobIds : j = worker[w].job /\ job[j].status # "none"
    BY <1>2, TurnTyped DEF JobOf
  <2>2. JobCalm(j)
    BY <2>1 DEF JobsKeep
  <2>3. TurnFits(w)
    BY DEF BookInv, TurnInv
  <2>4. Begun(j) => Begun(j)'
    BY <2>1, <2>2, BegunKept DEF RevsCalm
  <2>5. \A r \in RowIds : SettledRow(r) => SettledRow(r)'
    BY DEF RowsKeep, SettledRow, OpenRow, UsedRow
  <2>6. job[j].status = "succeeded" => job'[j].status = "succeeded"
    BY <2>2 DEF JobCalm
  <2>7. worker'[w].pc \notin {"idle", "init", "block"} => Begun(worker[w].job)'
    BY <1>2, <2>1, <2>3, <2>4 DEF TurnFits, Begun
  <2>8. worker'[w].row \in RowIds /\ SettledRow(worker[w].row) => SettledRow(worker[w].row)'
    BY <1>2, <2>5 DEF SettledRow
  <2> QED BY <1>2, <2>1, <2>3, <2>6, <2>7, <2>8 DEF TurnFits, Begun, SettledRow
<1>3. CASE worker'[w] = worker[w] /\ ~Turning(w)
  BY <1>3 DEF TurnFits, Turning
<1> QED BY <1>1, <1>2, <1>3

LEMMA JobFrame ==
  ASSUME TypeInv, BookInv, JobsCalm, LivesCalm
  PROVE  JobInv'
<1>1. \A j \in JobIds : JobCalm(j) /\ (job[j].status # "none" => job[j].camp \in Campaigns)
  BY DEF JobsCalm, TypeInv, JobsOK
<1>2. OneJobPerCampaign'
  BY <1>1 DEF JobCalm, BookInv, JobInv, OneJobPerCampaign, PendingJob
<1>3. ASSUME NEW j \in JobIds, job'[j].status # "none"
      PROVE  /\ camp'[job'[j].camp].life # "none"
             /\ job'[j].kind # "open" => camp'[job'[j].camp].life \in {"active", "closed"}
             /\ job'[j].kind = "open" /\ PendingJob(j)' => camp'[job'[j].camp].life = "opening"
             /\ job'[j].status = "succeeded" => job'[j].lease = None
  <2>1. PICK c \in Campaigns : c = job[j].camp
    BY <1>1, <1>3 DEF JobCalm
  <2>2. /\ job[j].status # "none" /\ job'[j].camp = c /\ job'[j].kind = job[j].kind
        /\ PendingJob(j)' => PendingJob(j)
    BY <1>1, <1>3, <2>1 DEF JobCalm
  <2>3. /\ camp[c].life # "none"
        /\ job[j].kind # "open" => camp[c].life \in {"active", "closed"}
        /\ job[j].kind = "open" /\ PendingJob(j) => camp[c].life = "opening"
    BY <2>1, <2>2 DEF BookInv, JobInv
  <2>4. LifeCalm(c)
    BY DEF LivesCalm
  <2> QED BY <1>1, <2>1, <2>2, <2>3, <2>4 DEF LifeCalm, JobCalm
<1>4. \A i, j \in JobIds :
        /\ job'[i].status # "none" /\ job'[i].kind = "open"
        /\ job'[j].status # "none" /\ job'[j].kind = "open"
        /\ job'[i].camp = job'[j].camp
        => i = j
  BY <1>1 DEF JobCalm, BookInv, JobInv
<1> QED BY <1>2, <1>3, <1>4 DEF JobInv

\* Apart from what a started job of the campaign means for the unstarted ones.
LEMMA RevisionBase ==
  ASSUME TypeInv, TypeInv', BookInv, JobsCalm, RevsCalm
  PROVE  /\ \A j \in JobIds : ManagementJob(j)' => camp'[job'[j].camp].state.phase # "none"
         /\ \A c \in Campaigns : camp'[c].state.phase = "none" => camp'[c].rev = 0 /\ ~camp'[c].state.nft
         /\ \A j \in JobIds : job'[j].status # "none" => job'[j].rev <= camp'[job'[j].camp].rev
<1>1. \A j \in JobIds : JobCalm(j) /\ (job[j].status # "none" => job[j].camp \in Campaigns)
  BY DEF JobsCalm, TypeInv, JobsOK
<1>2. \A j \in JobIds : ManagementJob(j)' => camp'[job'[j].camp].state.phase # "none"
  BY <1>1 DEF JobCalm, ManagementJob, BookInv, RevisionInv, RevsCalm
<1>3. \A c \in Campaigns : camp'[c].state.phase = "none" => camp'[c].rev = 0 /\ ~camp'[c].state.nft
  BY DEF BookInv, RevisionInv, RevsCalm
<1>4. ASSUME NEW j \in JobIds, job'[j].status # "none" PROVE job'[j].rev <= camp'[job'[j].camp].rev
  <2>1. PICK c \in Campaigns : c = job[j].camp
    BY <1>1, <1>4 DEF JobCalm
  <2>2. job'[j].camp = c /\ job'[j].rev = job[j].rev /\ job[j].rev <= camp[c].rev
    BY <1>1, <1>4, <2>1 DEF JobCalm, BookInv, RevisionInv
  <2>3. job[j].rev \in Nat /\ camp[c].rev \in Nat /\ camp'[c].rev \in Nat
    BY JobTyped DEF JobRecord, TypeInv, TypeOK, Campaign
  <2>4. camp[c].rev <= camp'[c].rev
    BY DEF RevsCalm
  <2> QED BY <2>2, <2>3, <2>4
<1> QED BY <1>2, <1>3, <1>4

LEMMA RevisionFrame ==
  ASSUME TypeInv, TypeInv', BookInv, JobsCalm, NoStart, RevsCalm
  PROVE  RevisionInv'
<1>1. ASSUME NEW i \in JobIds, NEW j \in JobIds,
             ManagementJob(i)', ~job'[i].started, ManagementJob(j)', PendingJob(j)', job'[j].started,
             job'[i].camp = job'[j].camp
      PROVE  job'[i].rev < camp'[job'[j].camp].rev
  <2>1. JobCalm(i) /\ JobCalm(j)
    BY DEF JobsCalm
  <2>2. PICK c \in Campaigns : c = job[j].camp
    BY <1>1, <2>1 DEF ManagementJob, JobCalm, TypeInv, JobsOK
  <2>3. /\ ManagementJob(i) /\ ~job[i].started /\ ManagementJob(j) /\ PendingJob(j) /\ job[j].started
        /\ job[i].camp = c /\ job'[j].camp = c /\ job'[i].rev = job[i].rev
    BY <1>1, <2>1, <2>2 DEF ManagementJob, JobCalm, NoStart
  <2>4. job[i].rev < camp[c].rev
    BY <2>2, <2>3 DEF BookInv, RevisionInv
  <2>5. job[i].rev \in Nat /\ camp[c].rev \in Nat /\ camp'[c].rev \in Nat /\ camp[c].rev <= camp'[c].rev
    BY JobTyped DEF JobRecord, TypeInv, TypeOK, Campaign, RevsCalm
  <2> QED BY <2>3, <2>4, <2>5
<1> QED BY <1>1, RevisionBase DEF RevisionInv

LEMMA RowJobFrame ==
  ASSUME TypeInv, LaneInv, BookInv, JobsKeep, RevsCalm, RowsKeep,
         NEW r \in RowIds, UsedRow(r)
  PROVE  job'[outbox'[r].job].status # "none" /\ Begun(outbox[r].job)'
<1>1. PICK j \in JobIds : j = outbox[r].job /\ job[j].status # "none" /\ Begun(j)
  BY RowCampIs DEF BookInv, RowJobInv
<1>2. outbox'[r].job = j /\ JobCalm(j)
  BY <1>1 DEF RowsKeep, JobsKeep
<1>3. Begun(j)'
  BY <1>1, <1>2, BegunKept DEF RevsCalm
<1>4. job'[j].status # "none"
  BY <1>1, <1>2 DEF JobCalm
<1> QED BY <1>2, <1>3, <1>4 DEF Begun

LEMMA RetriesKept ==
  ASSUME NEW j,
         \A r \in RowIds : outbox'[r].job = j /\ outbox'[r].status = "cancelled"
                             <=> outbox[r].job = j /\ outbox[r].status = "cancelled"
  PROVE  Retries(j)' = Retries(j)
<1> DEFINE S == {r \in RowIds : outbox[r].job = j /\ outbox[r].status = "cancelled"}
           T == {r \in RowIds : outbox'[r].job = j /\ outbox'[r].status = "cancelled"}
<1>1. Rows(j) \ CurrentRows(j) = S
  BY DEF Rows, CurrentRows
<1>2. (Rows(j) \ CurrentRows(j))' = T
  BY DEF Rows, CurrentRows
<1>3. S = T
  OBVIOUS
<1> QED BY <1>1, <1>2, <1>3 DEF Retries

LEMMA KeyFrame ==
  ASSUME TypeInv, TypeInv', LaneInv, BookInv, JobsKeep, RevsCalm, RowsCalm
  PROVE  KeyInv'
<1>1. \A r \in RowIds : RowCalm(r)
  BY DEF RowsCalm
<1>2. StageKeyFresh'
  BY <1>1 DEF RowCalm, OpenRow, BookInv, KeyInv, StageKeyFresh
<1>3. ASSUME NEW r \in RowIds, UsedRow(r)'
      PROVE  /\ outbox'[r].rev <= camp'[RowCamp(r)'].rev
             /\ outbox'[r].retry <= Retries(outbox[r].job)'
             /\ SettledRow(r)' => outbox'[r].rev < camp'[RowCamp(r)'].rev
             /\ outbox'[r].status = "cancelled" => outbox'[r].retry < Retries(outbox[r].job)'
  <2>1. UsedRow(r) /\ RowsKeep
    BY <1>3, RowsKept2 DEF NoNewRow
  <2>2. PICK c \in Campaigns : c = RowCamp(r) /\ RowCamp(r)' = c
    BY <2>1, RowCampIs, RowCampKept
  <2>3. PICK j \in JobIds : j = outbox[r].job
    BY <2>1, RowCampIs
  <2>4. Retries(j)' = Retries(j)
    BY <1>1, RetriesKept DEF RowCalm, OpenRow
  <2>5. /\ outbox'[r].rev = outbox[r].rev /\ outbox'[r].retry = outbox[r].retry
        /\ SettledRow(r)' => SettledRow(r)
        /\ outbox'[r].status = "cancelled" => outbox[r].status = "cancelled"
    BY <1>1 DEF RowCalm, OpenRow, SettledRow
  <2>6. /\ outbox[r].rev <= camp[c].rev /\ outbox[r].retry <= Retries(j)
        /\ SettledRow(r) => outbox[r].rev < camp[c].rev
        /\ outbox[r].status = "cancelled" => outbox[r].retry < Retries(j)
    BY <2>1, <2>2, <2>3 DEF BookInv, KeyInv
  <2>7. outbox[r].rev \in Nat /\ camp[c].rev \in Nat /\ camp'[c].rev \in Nat /\ camp[c].rev <= camp'[c].rev
    BY DEF TypeInv, TypeOK, Row, Campaign, RevsCalm
  <2>8. outbox'[r].rev <= camp'[c].rev /\ (SettledRow(r)' => outbox'[r].rev < camp'[c].rev)
    BY <2>5, <2>6, <2>7
  <2>9. /\ outbox'[r].retry <= Retries(outbox[r].job)'
        /\ outbox'[r].status = "cancelled" => outbox'[r].retry < Retries(outbox[r].job)'
    <3>1. outbox'[r].job = j
      BY <1>1, <2>3 DEF RowCalm
    <3> QED BY <2>4, <2>5, <2>6, <3>1
  <2> QED BY <2>2, <2>8, <2>9
<1> QED BY <1>2, <1>3 DEF KeyInv

LEMMA FitFrame ==
  ASSUME TypeInv, LaneInv, BookInv, JobsKeep, PositionsKept, RowsKeep, NoNewOpen
  PROVE  FitInv'
<1> SUFFICES ASSUME NEW r \in RowIds, OpenRow(r)'
             PROVE  /\ camp'[RowCamp(r)'].state.phase \notin {"none", "holding", "halted"}
                    /\ outbox'[r].plan = "withdraw" => camp'[RowCamp(r)'].state.nft
                    /\ outbox'[r].plan \in {"swap", "mint"} => ~camp'[RowCamp(r)'].state.nft
  BY DEF FitInv
<1>1. OpenRow(r) /\ UsedRow(r)
  BY DEF NoNewOpen, OpenRow, UsedRow
<1>2. PICK c \in Campaigns : c = RowCamp(r) /\ RowCamp(r)' = c
  BY <1>1, RowCampIs, RowCampKept
<1>3. outbox'[r].plan = outbox[r].plan
  BY <1>1 DEF RowsKeep
<1>4. KeepsPosition(camp[c].state, camp'[c].state)
  BY DEF PositionsKept
<1>5. /\ camp[c].state.phase \notin {"none", "holding", "halted"}
      /\ outbox[r].plan = "withdraw" => camp[c].state.nft
      /\ outbox[r].plan \in {"swap", "mint"} => ~camp[c].state.nft
  BY <1>1, <1>2 DEF BookInv, FitInv
<1> QED BY <1>2, <1>3, <1>4, <1>5 DEF KeepsPosition

\* The three parts of DoneInv.
LEMMA DoneStates ==
  ASSUME TypeInv, LaneInv, BookInv, JobsKeep, RowsKeep, NoneSettled,
         \A c \in Campaigns : CalmState(camp[c].state, camp'[c].state),
         NEW r \in RowIds, outbox'[r].status = "confirmed", PendingJob(outbox[r].job)'
  PROVE  /\ outbox'[r].plan = "withdraw" =>
              ~camp'[RowCamp(r)'].state.nft \/ camp'[RowCamp(r)'].state.phase = "holding"
         /\ outbox'[r].plan = "mint" => camp'[RowCamp(r)'].state.phase = "holding"
         /\ outbox'[r].plan = "swap" => Swapped(camp'[RowCamp(r)'].state)
<1>1. outbox[r].status = "confirmed" /\ UsedRow(r)
  BY DEF NoneSettled, RowsKeep, SettledRow, OpenRow, UsedRow
<1>2. PICK c \in Campaigns : c = RowCamp(r) /\ RowCamp(r)' = c
  BY <1>1, RowCampIs, RowCampKept
<1>3. PICK j \in JobIds : j = outbox[r].job /\ job[j].status # "none"
  BY <1>1, RowCampIs
<1>4. outbox'[r].plan = outbox[r].plan /\ outbox'[r].job = j
  BY <1>1, <1>3 DEF RowsKeep
<1>5. PendingJob(j)
  BY <1>3, <1>4 DEF JobsKeep, JobCalm, PendingJob
<1>6. /\ outbox[r].plan = "withdraw" => ~camp[c].state.nft \/ camp[c].state.phase = "holding"
      /\ outbox[r].plan = "mint" => camp[c].state.phase = "holding"
      /\ outbox[r].plan = "swap" => Swapped(camp[c].state)
  BY <1>1, <1>2, <1>3, <1>5 DEF BookInv, DoneInv
<1>7. /\ camp[c].state.phase = "holding" => camp'[c].state.phase = "holding"
      /\ camp'[c].state.nft = camp[c].state.nft
      /\ Swapped(camp[c].state) => Swapped(camp'[c].state)
  BY DEF CalmState, KeepsPosition
<1> HIDE DEF Swapped
<1> QED BY <1>2, <1>4, <1>6, <1>7

LEMMA StageOnceKept == ASSUME BookInv, RowsKeep, NoneSettled PROVE StageOnce'
<1>1. \A r \in RowIds : outbox'[r].status = "confirmed" =>
        /\ outbox[r].status = "confirmed" /\ outbox'[r].plan = outbox[r].plan
        /\ outbox'[r].job = outbox[r].job
  BY DEF NoneSettled, RowsKeep, SettledRow, OpenRow, UsedRow
<1> QED BY <1>1 DEF BookInv, DoneInv, StageOnce

LEMMA DoneRows ==
  ASSUME BookInv, RowsKeep, NoNewOpen, NoneSettled
  PROVE  \A q, r \in RowIds :
           /\ outbox'[q].status = "confirmed" /\ OpenRow(r)'
           /\ outbox'[q].job = outbox'[r].job
           => outbox'[q].plan # outbox'[r].plan \/ outbox'[r].plan \notin {"swap", "mint", "withdraw"}
<1>1. \A r \in RowIds : outbox'[r].status = "confirmed" =>
        /\ outbox[r].status = "confirmed" /\ outbox'[r].plan = outbox[r].plan
        /\ outbox'[r].job = outbox[r].job
  BY DEF NoneSettled, RowsKeep, SettledRow, OpenRow, UsedRow
<1>2. \A r \in RowIds : OpenRow(r)' =>
        OpenRow(r) /\ outbox'[r].plan = outbox[r].plan /\ outbox'[r].job = outbox[r].job
  BY DEF NoNewOpen, RowsKeep, OpenRow, UsedRow
<1> QED BY <1>1, <1>2 DEF BookInv, DoneInv

LEMMA DoneFrame ==
  ASSUME TypeInv, LaneInv, BookInv, JobsKeep, RowsKeep, NoNewOpen, NoneSettled,
         \A c \in Campaigns : CalmState(camp[c].state, camp'[c].state)
  PROVE  DoneInv'
<1>1. \A r \in RowIds : outbox'[r].status = "confirmed" /\ PendingJob(outbox[r].job)' =>
        /\ outbox'[r].plan = "withdraw" =>
             ~camp'[RowCamp(r)'].state.nft \/ camp'[RowCamp(r)'].state.phase = "holding"
        /\ outbox'[r].plan = "mint" => camp'[RowCamp(r)'].state.phase = "holding"
        /\ outbox'[r].plan = "swap" => Swapped(camp'[RowCamp(r)'].state)
  BY DoneStates
<1> QED BY <1>1, DoneRows, StageOnceKept DEF DoneInv

LEMMA MinedUsed ==
  ASSUME NonceInv, NEW r \in RowIds, chain.result[r] = "success"
  PROVE  UsedRow(r) /\ (OpenRow(r) => outbox[r].status = "signed") /\ outbox[r].status # "cancelled"
BY DEF NonceInv, PublishedIsPersisted, Canonical, SignedRaw, UsedRow, OpenRow

LEMMA MinedKept ==
  ASSUME TypeInv, LaneInv, NonceInv, BookInv, JobsKeep, RowsKeep, chain'.result = chain.result,
         NEW c, NEW plan
  PROVE  Mined(c, plan)' = Mined(c, plan) /\ Minted(c)' = Minted(c)
<1>1. ASSUME NEW p PROVE Mined(c, p)' = Mined(c, p)
  <2> DEFINE S == {r \in RowIds : outbox[r].plan = p /\ chain.result[r] = "success" /\ RowCamp(r) = c}
             T == {r \in RowIds : outbox'[r].plan = p /\ chain'.result[r] = "success" /\ RowCamp(r)' = c}
  <2>1. \A r \in RowIds : chain.result[r] = "success" =>
          outbox'[r].plan = outbox[r].plan /\ RowCamp(r)' = RowCamp(r)
    BY MinedUsed, RowCampKept DEF RowsKeep
  <2>2. S = T
    BY <2>1
  <2>3. Mined(c, p) = Cardinality(S) /\ Mined(c, p)' = Cardinality(T)
    BY DEF Mined, RowCamp
  <2> QED BY <2>2, <2>3
<1> QED BY <1>1 DEF Minted

LEMMA PositionFrame ==
  ASSUME TypeInv, LaneInv, NonceInv, BookInv, JobsKeep, RowsKeep, PositionsKept,
         chain'.result = chain.result,
         \A r \in RowIds : chain.result[r] = "success" => (OpenRow(r)' <=> OpenRow(r))
  PROVE  PositionInv'
<1> SUFFICES ASSUME NEW c \in Campaigns
             PROVE  /\ (\A r \in RowIds :
                          OpenRow(r)' /\ chain'.result[r] = "success" /\ RowCamp(r)' = c
                            => outbox'[r].plan \notin {"mint", "withdraw"})
                         => Minted(c)' = Mined(c, "withdraw")' + (IF camp'[c].state.nft THEN 1 ELSE 0)
                    /\ \A r \in RowIds :
                         OpenRow(r)' /\ chain'.result[r] = "success" /\ RowCamp(r)' = c =>
                           /\ outbox'[r].plan = "mint" => Minted(c)' = Mined(c, "withdraw")' + 1
                           /\ outbox'[r].plan = "withdraw" => Minted(c)' = Mined(c, "withdraw")'
  BY DEF PositionInv
<1>1. Minted(c)' = Minted(c) /\ Mined(c, "withdraw")' = Mined(c, "withdraw")
  BY MinedKept
<1>2. \A r \in RowIds : chain.result[r] = "success" =>
        /\ OpenRow(r)' <=> OpenRow(r)
        /\ RowCamp(r)' = RowCamp(r)
        /\ outbox'[r].plan = outbox[r].plan
  BY MinedUsed, RowCampKept DEF RowsKeep
<1>3. camp'[c].state.nft = camp[c].state.nft
  BY DEF PositionsKept, KeepsPosition
<1>4. /\ (\A r \in RowIds :
            OpenRow(r) /\ chain.result[r] = "success" /\ RowCamp(r) = c
              => outbox[r].plan \notin {"mint", "withdraw"})
           => Minted(c) = Mined(c, "withdraw") + (IF camp[c].state.nft THEN 1 ELSE 0)
      /\ \A r \in RowIds :
           OpenRow(r) /\ chain.result[r] = "success" /\ RowCamp(r) = c =>
             /\ outbox[r].plan = "mint" => Minted(c) = Mined(c, "withdraw") + 1
             /\ outbox[r].plan = "withdraw" => Minted(c) = Mined(c, "withdraw")
  BY DEF BookInv, PositionInv
<1> QED BY <1>1, <1>2, <1>3, <1>4

LEMMA BookedFrame ==
  ASSUME TypeInv, LaneInv, BookInv, JobsKeep, RowsKeep, NoneSettled, effects' = effects,
         \A c \in Campaigns : camp'[c].costs = camp[c].costs
  PROVE  BookedOnce'
<1>1. effects' = {r \in RowIds : SettledRow(r)'}
  <2>1. \A r \in RowIds : SettledRow(r)' <=> SettledRow(r)
    BY DEF NoneSettled, RowsKeep, SettledRow, OpenRow, UsedRow
  <2>2. effects = {r \in RowIds : SettledRow(r)}
    BY DEF BookInv, BookedOnce, SettledRow
  <2> QED BY <2>1, <2>2
<1>2. ASSUME NEW c \in Campaigns
      PROVE  camp'[c].costs = Cardinality({r \in effects' : RowCamp(r)' = c})
  <2>1. \A r \in effects : r \in RowIds /\ UsedRow(r)
    BY DEF BookInv, BookedOnce, UsedRow
  <2>2. \A r \in effects : RowCamp(r)' = RowCamp(r)
    BY <2>1, RowCampKept
  <2>3. {r \in effects' : RowCamp(r)' = c} = {r \in effects : RowCamp(r) = c}
    BY <2>2
  <2>4. camp[c].costs = Cardinality({r \in effects : RowCamp(r) = c})
    BY DEF BookInv, BookedOnce, RowCamp
  <2> QED BY <2>3, <2>4
<1> QED BY <1>1, <1>2 DEF BookedOnce, SettledRow, RowCamp

LEMMA MinedNat == ASSUME NEW c, NEW plan PROVE Mined(c, plan) \in Nat
<1> DEFINE S == {r \in RowIds : /\ outbox[r].plan = plan
                               /\ chain.result[r] = "success"
                               /\ job[outbox[r].job].camp = c}
<1>1. IsFiniteSet(RowIds)
  BY FS_Interval, BoundsAssumption DEF RowIds
<1>2. IsFiniteSet(S)
  BY <1>1, FS_Subset
<1>3. Mined(c, plan) = Cardinality(S)
  BY DEF Mined
<1> QED BY <1>2, <1>3, FS_CardinalityType

LEMMA ReleasedFrame ==
  ASSUME TypeInv, LaneInv, NonceInv, BookInv, JobsCalm, RowsKeep, LivesCalm, NoNewOpen,
         chain'.result = chain.result,
         \A c \in Campaigns : camp'[c].alloc = "released" => camp[c].alloc = "released" \/ CanRelease(c)
  PROVE  ReleasedInv'
<1> SUFFICES ASSUME NEW c \in Campaigns, camp'[c].alloc = "released"
             PROVE  /\ Minted(c)' = Mined(c, "withdraw")'
                    /\ ~CampaignWork(c)'
                    /\ \A r \in RowIds : OpenRow(r)' => RowCamp(r)' # c
                    /\ camp'[c].life = "closed"
  BY DEF ReleasedInv, ReleasedIsEmpty, OpenRow, RowCamp
<1>1. /\ Minted(c) = Mined(c, "withdraw") /\ ~CampaignWork(c) /\ camp[c].life = "closed"
      /\ \A r \in RowIds : OpenRow(r) => RowCamp(r) # c
  <2>1. CASE camp[c].alloc = "released"
    BY <2>1 DEF BookInv, ReleasedInv, ReleasedIsEmpty, OpenRow, RowCamp
  <2>2. CASE CanRelease(c)
    <3>1. /\ camp[c].life = "closed" /\ ~CampaignWork(c) /\ ~camp[c].state.nft
          /\ \A r \in RowIds : OpenRow(r) => RowCamp(r) # c
      BY <2>2 DEF CanRelease, OpenRow, RowCamp
    <3>2. Minted(c) = Mined(c, "withdraw") + 0
      BY <3>1 DEF BookInv, PositionInv
    <3>3. Mined(c, "withdraw") \in Nat
      BY MinedNat
    <3> QED BY <3>1, <3>2, <3>3
  <2> QED BY <2>1, <2>2
<1>2. JobsKeep
  BY DEF JobsCalm, JobsKeep
<1>3. Minted(c)' = Minted(c) /\ Mined(c, "withdraw")' = Mined(c, "withdraw")
  BY <1>2, MinedKept
<1>4. ~CampaignWork(c)'
  BY <1>1 DEF CampaignWork, JobsCalm, JobCalm
<1>5. \A r \in RowIds : OpenRow(r)' => RowCamp(r)' # c
  <2> SUFFICES ASSUME NEW r \in RowIds, OpenRow(r)' PROVE RowCamp(r)' # c
    OBVIOUS
  <2>1. OpenRow(r) /\ UsedRow(r)
    BY DEF NoNewOpen, OpenRow, UsedRow
  <2> QED BY <1>1, <1>2, <2>1, RowCampKept
<1>6. camp'[c].life = "closed"
  BY <1>1 DEF LivesCalm, LifeCalm
<1> QED BY <1>1, <1>3, <1>4, <1>5, <1>6

\* A step that is calm but for the start of a job: everything but RevisionInv and DoneInv.
LEMMA NearlyCalm ==
  ASSUME TypeInv, TypeInv', LaneInv, NonceInv, BookInv, JobsCalm,
         \A c \in Campaigns : CampCalm(c), PositionsKept, RowsCalm, TurnsCalm,
         effects' = effects, chain'.result = chain.result
  PROVE  /\ JobsKeep /\ RowsKeep /\ NoNewRow /\ NoNewOpen /\ NoneSettled /\ RevsCalm
         /\ TurnInv' /\ JobInv' /\ RowJobInv' /\ KeyInv' /\ FitInv' /\ PositionInv' /\ BookedOnce'
         /\ ReleasedInv'
<1>1. JobsKeep
  BY DEF JobsCalm, JobsKeep
<1>2. RowsKeep /\ NoNewRow /\ NoNewOpen /\ NoneSettled
  BY RowsKept2
<1>3. RevsCalm /\ LivesCalm
  BY DEF CampCalm, PositionsKept, KeepsPosition, RevsCalm, LivesCalm
<1>4. TurnInv' /\ JobInv' /\ KeyInv' /\ FitInv'
  BY <1>1, <1>2, <1>3, TurnFrame, JobFrame, KeyFrame, FitFrame
<1>5. RowJobInv'
  <2>1. \A r \in RowIds : UsedRow(r)' =>
          job'[outbox'[r].job].status # "none" /\ Begun(outbox[r].job)' /\ outbox'[r].job = outbox[r].job
    BY <1>1, <1>2, <1>3, RowJobFrame DEF NoNewRow, RowsKeep
  <2> QED BY <2>1 DEF RowJobInv, Begun
<1>6. PositionInv'
  <2>1. \A r \in RowIds : OpenRow(r)' <=> OpenRow(r)
    BY DEF RowsCalm, RowCalm, OpenRow
  <2> QED BY <1>1, <1>2, <2>1, PositionFrame
<1>7. BookedOnce' /\ ReleasedInv'
  BY <1>1, <1>2, <1>3, BookedFrame, ReleasedFrame DEF CampCalm
<1> QED BY <1>1, <1>2, <1>3, <1>4, <1>5, <1>6, <1>7

LEMMA CalmPreserves ==
  ASSUME TypeInv, TypeInv', LaneInv, NonceInv, BookInv, CalmStep
  PROVE  BookInv'
<1>1. /\ JobsCalm /\ NoStart /\ RowsCalm /\ TurnsCalm /\ effects' = effects
      /\ chain'.result = chain.result
      /\ \A c \in Campaigns : CampCalm(c)
      /\ \A c \in Campaigns : CalmState(camp[c].state, camp'[c].state)
  BY DEF CalmStep, CampsCalm
<1>2. PositionsKept
  BY <1>1 DEF CalmState, PositionsKept
<1>3. /\ JobsKeep /\ RowsKeep /\ NoNewRow /\ NoNewOpen /\ NoneSettled /\ RevsCalm
      /\ TurnInv' /\ JobInv' /\ RowJobInv' /\ KeyInv' /\ FitInv' /\ PositionInv' /\ BookedOnce'
      /\ ReleasedInv'
  BY <1>1, <1>2, NearlyCalm
<1>4. RevisionInv' /\ DoneInv'
  BY <1>1, <1>3, RevisionFrame, DoneFrame
<1> QED BY <1>3, <1>4 DEF BookInv

-----------------------------------------------------------------------------
(* The initial state, and admission.                                       *)

LEMMA NothingMined ==
  ASSUME \A r \in RowIds : chain.result[r] = "none", NEW c, NEW plan
  PROVE  Mined(c, plan) = 0
<1>1. {r \in RowIds : outbox[r].plan = plan /\ chain.result[r] = "success" /\ job[outbox[r].job].camp = c} = {}
  OBVIOUS
<1> QED BY <1>1, FS_EmptySet DEF Mined

LEMMA BookInit == ASSUME Init PROVE BookInv
<1>1. /\ \A j \in JobIds : job[j].status = "none"
      /\ \A r \in RowIds : outbox[r].status = "none" /\ chain.result[r] = "none"
      /\ \A w \in Workers : worker[w].pc = "idle"
      /\ effects = {}
  BY DEF Init, NoJob, NoRow, IdleTurn
<1>2. \A c \in Campaigns : camp[c] = IF c \in Held THEN HeldCampaign ELSE NewCampaign
  BY DEF Init
<1>3. /\ HeldCampaign.state.nft /\ HeldCampaign.state.phase = "holding" /\ HeldCampaign.costs = 0
      /\ HeldCampaign.alloc = "active"
      /\ ~NewCampaign.state.nft /\ NewCampaign.rev = 0 /\ NewCampaign.costs = 0
      /\ NewCampaign.alloc = "none"
  BY DEF HeldCampaign, NewCampaign, HoldingState, Uninitialized
<1>4. TurnInv
  BY <1>1 DEF TurnInv, TurnFits
<1>5. JobInv
  BY <1>1 DEF JobInv, OneJobPerCampaign, PendingJob, PendingStatus, ActiveStatus, InFlight
<1>6. RevisionInv
  BY <1>1, <1>2, <1>3 DEF RevisionInv, ManagementJob
<1>7. RowJobInv /\ KeyInv /\ FitInv /\ DoneInv
  BY <1>1 DEF RowJobInv, KeyInv, FitInv, DoneInv, UsedRow, OpenRow, StageKeyFresh, StageOnce
<1>8. PositionInv
  <2>1. \A c \in Campaigns : /\ Minted(c) = IF c \in Held THEN 1 ELSE 0
                             /\ Mined(c, "withdraw") = 0
    BY <1>1, NothingMined DEF Minted
  <2> QED BY <1>1, <1>2, <1>3, <2>1 DEF PositionInv, OpenRow
<1>9. BookedOnce
  <2>1. \A c \in Campaigns : {r \in effects : job[outbox[r].job].camp = c} = {}
    BY <1>1
  <2> QED BY <1>1, <1>2, <1>3, <2>1, FS_EmptySet DEF BookedOnce
<1>10. ReleasedInv
  BY <1>2, <1>3 DEF ReleasedInv, ReleasedIsEmpty
<1> QED BY <1>4, <1>5, <1>6, <1>7, <1>8, <1>9, <1>10 DEF BookInv

(***************************************************************************)
(* A job is added to a campaign that has no pending one: an opening to a   *)
(* campaign that has no job at all, a management job to one that holds.    *)
(***************************************************************************)
LEMMA InsertPreserves ==
  ASSUME TypeInv, TypeInv', LaneInv, NonceInv, BookInv,
         NEW j \in JobIds, job[j].status = "none",
         NEW c \in Campaigns, NEW kind \in JobKinds, InsertJob(j, c, kind),
         UNCHANGED <<outbox, effects, chain, worker>>,
         \A d \in Campaigns : /\ camp'[d].state = camp[d].state /\ camp'[d].rev = camp[d].rev
                              /\ camp'[d].costs = camp[d].costs
                              /\ d # c => camp'[d].life = camp[d].life /\ camp'[d].alloc = camp[d].alloc,
         camp[c].alloc # "released" /\ camp'[c].alloc # "released",
         ~CampaignWork(c),
         \/ /\ kind = "open" /\ camp[c].life = "none" /\ camp'[c].life = "opening"
         \/ /\ kind # "open" /\ camp[c].life = "active" /\ camp'[c].life = "active"
            /\ camp[c].state.phase = "holding"
  PROVE  BookInv'
<1>1. /\ job'[j].status = "queued" /\ job'[j].camp = c /\ job'[j].kind = kind
      /\ job'[j].rev = camp[c].rev /\ ~job'[j].started
      /\ \A i \in JobIds : i # j => job'[i] = job[i]
  <2> DEFINE v == [NoJob EXCEPT !.kind = kind, !.status = "queued", !.camp = c, !.rev = camp[c].rev]
  <2>1. v.status = "queued" /\ v.camp = c /\ v.kind = kind /\ v.rev = camp[c].rev /\ ~v.started
    BY DEF NoJob
  <2>2. job' = [job EXCEPT ![j] = v]
    BY DEF InsertJob
  <2> HIDE DEF v
  <2> QED BY <2>1, <2>2 DEF TypeInv, TypeOK
<1>2. JobsKeep
  BY <1>1 DEF JobsKeep, JobCalm, PendingJob, BookInv, JobInv
<1>3. RowsCalm /\ TurnsCalm /\ effects' = effects /\ chain'.result = chain.result
  BY RowsSameCalm, TurnsSameCalm
<1>4. RowsKeep /\ NoNewRow /\ NoNewOpen /\ NoneSettled
  BY <1>3, RowsKept2
<1>5. RevsCalm /\ PositionsKept /\ \A d \in Campaigns : CalmState(camp[d].state, camp'[d].state)
  BY KeepsRefl, CampTyped DEF RevsCalm, PositionsKept, KeepsPosition
<1>6. TurnInv' /\ KeyInv' /\ FitInv' /\ DoneInv'
  BY <1>2, <1>3, <1>4, <1>5, TurnFrame, KeyFrame, FitFrame, DoneFrame
<1>7. RowJobInv'
  <2>1. \A r \in RowIds : UsedRow(r)' =>
          job'[outbox'[r].job].status # "none" /\ Begun(outbox[r].job)' /\ outbox'[r].job = outbox[r].job
    BY <1>2, <1>4, <1>5, RowJobFrame DEF NoNewRow, RowsKeep
  <2> QED BY <2>1 DEF RowJobInv, Begun
<1>8. PositionInv' /\ BookedOnce'
  BY <1>2, <1>3, <1>4, <1>5, PositionFrame, BookedFrame DEF OpenRow
<1>9. JobInv'
  <2>1. OneJobPerCampaign'
    BY <1>1 DEF OneJobPerCampaign, PendingJob, CampaignWork, BookInv, JobInv
  <2>2. ASSUME NEW i \in JobIds, job'[i].status # "none"
        PROVE  /\ camp'[job'[i].camp].life # "none"
               /\ job'[i].kind # "open" => camp'[job'[i].camp].life \in {"active", "closed"}
               /\ job'[i].kind = "open" /\ PendingJob(i)' => camp'[job'[i].camp].life = "opening"
               /\ job'[i].status = "succeeded" => job'[i].lease = None
    <3>1. CASE i = j
      BY <1>1, <3>1
    <3>2. CASE i # j
      <4>1. PICK d \in Campaigns : d = job[i].camp
        BY <1>1, <2>2, <3>2 DEF TypeInv, JobsOK
      <4>2. /\ job'[i] = job[i] /\ camp[d].life # "none"
            /\ job[i].kind # "open" => camp[d].life \in {"active", "closed"}
            /\ job[i].kind = "open" /\ PendingJob(i) => camp[d].life = "opening"
            /\ job[i].status = "succeeded" => job[i].lease = None
        BY <1>1, <2>2, <3>2, <4>1 DEF BookInv, JobInv
      <4>3. camp'[d].life = camp[d].life
        BY <4>2
      <4> QED BY <4>1, <4>2, <4>3 DEF PendingJob
    <3> QED BY <3>1, <3>2
  <2>3. \A i, k \in JobIds :
          /\ job'[i].status # "none" /\ job'[i].kind = "open"
          /\ job'[k].status # "none" /\ job'[k].kind = "open"
          /\ job'[i].camp = job'[k].camp
          => i = k
    BY <1>1 DEF BookInv, JobInv
  <2> QED BY <2>1, <2>2, <2>3 DEF JobInv
<1>10. RevisionInv'
  <2>1. \A i \in JobIds : ManagementJob(i)' => camp'[job'[i].camp].state.phase # "none"
    BY <1>1 DEF BookInv, RevisionInv, ManagementJob, TypeInv, JobsOK
  <2>2. \A d \in Campaigns : camp'[d].state.phase = "none" => camp'[d].rev = 0 /\ ~camp'[d].state.nft
    BY DEF BookInv, RevisionInv
  <2>3. \A i \in JobIds : job'[i].status # "none" => job'[i].rev <= camp'[job'[i].camp].rev
    BY <1>1, CampTyped DEF BookInv, RevisionInv, TypeInv, JobsOK
  <2>4. ASSUME NEW i \in JobIds, NEW k \in JobIds,
               ManagementJob(i)', ~job'[i].started, ManagementJob(k)', PendingJob(k)', job'[k].started,
               job'[i].camp = job'[k].camp
        PROVE  job'[i].rev < camp'[job'[k].camp].rev
    <3>1. k # j /\ job'[k] = job[k]
      BY <1>1, <2>4
    <3>2. i # j
      BY <1>1, <2>4, <3>1 DEF CampaignWork, PendingJob
    <3>3. job[i].rev < camp[job[k].camp].rev
      BY <1>1, <2>4, <3>1, <3>2 DEF BookInv, RevisionInv, ManagementJob, PendingJob
    <3>4. job[k].camp \in Campaigns
      BY <2>4, <3>1 DEF TypeInv, JobsOK, ManagementJob
    <3> QED BY <1>1, <3>1, <3>2, <3>3, <3>4
  <2> QED BY <2>1, <2>2, <2>3, <2>4 DEF RevisionInv
<1>11. ReleasedInv'
  <2> SUFFICES ASSUME NEW d \in Campaigns, camp'[d].alloc = "released"
               PROVE  /\ Minted(d)' = Mined(d, "withdraw")'
                      /\ ~CampaignWork(d)'
                      /\ \A r \in RowIds : OpenRow(r)' => RowCamp(r)' # d
                      /\ camp'[d].life = "closed"
    BY DEF ReleasedInv, ReleasedIsEmpty, OpenRow, RowCamp
  <2>1. d # c /\ camp[d].alloc = "released" /\ camp'[d].life = camp[d].life
    OBVIOUS
  <2>2. /\ Minted(d) = Mined(d, "withdraw") /\ ~CampaignWork(d) /\ camp[d].life = "closed"
        /\ \A r \in RowIds : OpenRow(r) => RowCamp(r) # d
    BY <2>1 DEF BookInv, ReleasedInv, ReleasedIsEmpty, OpenRow, RowCamp
  <2>3. Minted(d)' = Minted(d) /\ Mined(d, "withdraw")' = Mined(d, "withdraw")
    BY <1>2, <1>3, <1>4, MinedKept
  <2>4. ~CampaignWork(d)'
    BY <1>1, <2>1, <2>2 DEF CampaignWork, PendingJob
  <2>5. \A r \in RowIds : OpenRow(r)' => RowCamp(r)' # d
    BY <1>2, <1>4, <2>2, RowCampKept DEF NoNewOpen, OpenRow, UsedRow
  <2> QED BY <2>1, <2>2, <2>3, <2>4, <2>5
<1> QED BY <1>6, <1>7, <1>8, <1>9, <1>10, <1>11 DEF BookInv

LEMMA BookReserve ==
  ASSUME TypeInv, TypeInv', LaneInv, NonceInv, BookInv, NEW c \in Campaigns, Reserve(c)
  PROVE  BookInv'
<1>1. PICK j \in JobIds : FreshJob(j) /\ InsertJob(j, c, "open")
  BY DEF Reserve
<1>2. /\ job[j].status = "none" /\ "open" \in JobKinds
      /\ UNCHANGED <<outbox, effects, chain, worker>> /\ camp[c].life = "none"
  BY <1>1 DEF Reserve, FreshJob, JobKinds
<1>3. /\ camp'[c].life = "opening" /\ camp'[c].alloc = "reserved"
      /\ \A d \in Campaigns : /\ camp'[d].state = camp[d].state /\ camp'[d].rev = camp[d].rev
                              /\ camp'[d].costs = camp[d].costs
                              /\ d # c => camp'[d].life = camp[d].life /\ camp'[d].alloc = camp[d].alloc
  BY DEF Reserve, TypeInv, TypeOK, Campaign
<1>4. camp[c].alloc # "released"
  BY <1>2 DEF BookInv, ReleasedInv
<1>5. ~CampaignWork(c)
  BY <1>2 DEF BookInv, JobInv, CampaignWork, PendingJob, PendingStatus, ActiveStatus, InFlight
<1> QED BY <1>1, <1>2, <1>3, <1>4, <1>5, InsertPreserves

LEMMA BookEnqueue ==
  ASSUME TypeInv, TypeInv', LaneInv, NonceInv, BookInv, NEW c \in Campaigns, NEW kind \in Kinds,
         Enqueue(c, kind)
  PROVE  BookInv'
<1>1. PICK j \in JobIds : FreshJob(j) /\ InsertJob(j, c, kind)
  BY DEF Enqueue
<1>2. /\ job[j].status = "none" /\ UNCHANGED <<outbox, effects, chain, worker>> /\ UNCHANGED camp
      /\ camp[c].life = "active" /\ camp[c].alloc = "active" /\ camp[c].state.phase = "holding"
      /\ ~CampaignWork(c)
  BY <1>1 DEF Enqueue, FreshJob
<1>3. kind \in JobKinds /\ kind # "open"
  BY KindsAssumption DEF JobKinds
<1>4. /\ camp'[c].life = "active" /\ camp'[c].alloc # "released"
      /\ \A d \in Campaigns : /\ camp'[d].state = camp[d].state /\ camp'[d].rev = camp[d].rev
                              /\ camp'[d].costs = camp[d].costs
                              /\ d # c => camp'[d].life = camp[d].life /\ camp'[d].alloc = camp[d].alloc
  BY <1>2
<1> QED BY <1>1, <1>2, <1>3, <1>4, InsertPreserves

-----------------------------------------------------------------------------
(***************************************************************************)
(* The start of a management job: the campaign leaves its held position,   *)
(* which is no surprise to another pending job, because there is none with *)
(* a transaction.  An opening would need another lifecycle, and a started  *)
(* job a newer revision than the one this review is bound to.              *)
(***************************************************************************)
LEMMA BookStart ==
  ASSUME TypeInv, TypeInv', LaneInv, NonceInv, BookInv, NEW w \in Workers, NEW swap,
         PrepareManagement(w, swap), ~JobOf(w).started
  PROVE  BookInv'
<1>1. /\ UNCHANGED outbox /\ UNCHANGED effects /\ UNCHANGED chain /\ worker[w].pc = "init"
      /\ Resume(w) /\ CanStart(w) /\ JobOf(w).kind # "open" /\ Turning(w)
  BY DEF PrepareManagement, Turning
<1>2. PICK j \in JobIds : /\ j = worker[w].job /\ job[j].status # "none" /\ job[j].kind # "open"
                          /\ ~job[j].started
  BY <1>1, TurnTyped DEF JobOf
<1>3. PICK c \in Campaigns : c = job[j].camp
  BY <1>2 DEF TypeInv, JobsOK
<1> DEFINE s == ManagementTransition(camp[c].state, job[j].kind, swap)
<1>4. /\ camp' = [camp EXCEPT ![c].state = s, ![c].rev = camp[c].rev + 1]
      /\ job' = [job EXCEPT ![j].started = TRUE]
  BY <1>2, <1>3 DEF PrepareManagement, JobOf, CampOf
<1>5. camp[c].rev = job[j].rev /\ camp[c].state.phase = "holding"
  BY <1>1, <1>2, <1>3 DEF CanStart, CampOf, JobOf, StateOf
<1>6. s.nft = camp[c].state.nft /\ s.phase \in {"recenter", "exit"}
  BY CampTyped DEF ManagementTransition, StrategyState
<1> HIDE DEF s
<1>7. /\ camp'[c].state = s /\ camp'[c].rev = camp[c].rev + 1 /\ camp'[c].costs = camp[c].costs
      /\ camp'[c].life = camp[c].life /\ camp'[c].alloc = camp[c].alloc
      /\ \A d \in Campaigns : d # c => camp'[d] = camp[d]
  BY <1>4 DEF TypeInv, TypeOK, Campaign
<1>8. /\ job'[j].started
      /\ \A i \in JobIds : /\ job'[i].status = job[i].status /\ job'[i].camp = job[i].camp
                           /\ job'[i].kind = job[i].kind /\ job'[i].rev = job[i].rev
                           /\ job'[i].lease = job[i].lease
                           /\ i # j => job'[i].started = job[i].started
  <2> DEFINE v == [job[j] EXCEPT !.started = TRUE]
  <2>1. /\ v.status = job[j].status /\ v.camp = job[j].camp /\ v.kind = job[j].kind
        /\ v.rev = job[j].rev /\ v.lease = job[j].lease /\ v.started
    BY JobTyped DEF JobRecord
  <2>2. job' = [job EXCEPT ![j] = v]
    BY <1>4
  <2> HIDE DEF v
  <2> QED BY <2>1, <2>2 DEF TypeInv, TypeOK
<1>9. JobsCalm
  BY <1>2, <1>8 DEF JobsCalm, JobCalm, PendingJob, BookInv, JobInv
<1>10. \A d \in Campaigns : CampCalm(d)
  <2>1. CampCalm(c)
    BY <1>6, <1>7, CampTyped DEF CampCalm, LifeCalm
  <2> QED BY <1>7, <2>1, CampSameCalm
<1>11. PositionsKept
  BY <1>5, <1>6, <1>7, KeepsRefl DEF PositionsKept, KeepsPosition
<1>12. RowsCalm
  BY <1>1, RowsSameCalm
<1>13. Begun(j)'
  BY <1>2, <1>8 DEF Begun
<1>14. TurnsCalm
  BY <1>1, <1>2, <1>12, <1>13, ResumeCalm
<1>15. /\ JobsKeep /\ RowsKeep /\ NoNewRow /\ NoNewOpen /\ NoneSettled /\ RevsCalm
       /\ TurnInv' /\ JobInv' /\ RowJobInv' /\ KeyInv' /\ FitInv' /\ PositionInv' /\ BookedOnce'
       /\ ReleasedInv'
  BY <1>1, <1>9, <1>10, <1>11, <1>12, <1>14, NearlyCalm
<1>16. RevisionInv'
  <2>1. ASSUME NEW i \in JobIds, NEW k \in JobIds,
               ManagementJob(i)', ~job'[i].started, ManagementJob(k)', PendingJob(k)', job'[k].started,
               job'[i].camp = job'[k].camp
        PROVE  job'[i].rev < camp'[job'[k].camp].rev
    <3>1. i # j /\ ManagementJob(i) /\ ~job[i].started /\ job[i].camp = job[k].camp
          /\ ManagementJob(k) /\ PendingJob(k)
      BY <1>8, <2>1 DEF ManagementJob, PendingJob
    <3>2. PICK d \in Campaigns : d = job[k].camp
      BY <3>1 DEF ManagementJob, TypeInv, JobsOK
    <3>3. job[i].rev \in Nat /\ camp[c].rev \in Nat /\ camp[d].rev \in Nat
      BY JobTyped, CampTyped DEF JobRecord
    <3>4. CASE d = c
      <4>1. job[i].rev <= camp[c].rev
        BY <3>1, <3>2, <3>4 DEF BookInv, RevisionInv, ManagementJob
      <4>2. job'[k].camp = c /\ job'[i].rev = job[i].rev
        BY <1>8, <3>2, <3>4
      <4>3. camp'[c].rev = camp[c].rev + 1
        BY <1>7
      <4> HIDE DEF s
      <4> QED BY <3>3, <4>1, <4>2, <4>3
    <3>5. CASE d # c
      <4>1. k # j /\ job[k].started
        BY <1>3, <1>8, <2>1, <3>2, <3>5
      <4>2. job[i].rev < camp[d].rev
        BY <3>1, <3>2, <4>1 DEF BookInv, RevisionInv
      <4> QED BY <1>7, <1>8, <3>2, <3>5, <4>2
    <3> QED BY <3>4, <3>5
  <2> QED BY <1>9, <1>15, <2>1, RevisionBase DEF RevisionInv
<1>17. DoneInv'
  <2>1. ASSUME NEW r \in RowIds, UsedRow(r), PendingJob(outbox[r].job)'
        PROVE  /\ RowCamp(r) \in Campaigns \ {c} /\ RowCamp(r)' = RowCamp(r) /\ PendingJob(outbox[r].job)
               /\ outbox[r].job \in JobIds
    <3>1. PICK k \in JobIds : k = outbox[r].job /\ job[k].status # "none" /\ Begun(k)
      BY <2>1, RowCampIs DEF BookInv, RowJobInv
    <3>2. PendingJob(k)
      BY <1>1, <1>8, <2>1, <3>1 DEF PendingJob
    <3>3. job[k].camp # c
      <4>1. CASE job[k].kind = "open"
        BY <1>2, <1>3, <3>1, <3>2, <4>1 DEF BookInv, JobInv
      <4>2. CASE job[k].kind # "open"
        <5>1. job[k].started
          BY <3>1, <4>2 DEF Begun
        <5>2. ManagementJob(j) /\ ManagementJob(k)
          BY <1>2, <3>1, <4>2 DEF ManagementJob
        <5>3. job[j].camp = job[k].camp => job[j].rev < camp[job[k].camp].rev
          BY <1>2, <3>2, <5>1, <5>2 DEF BookInv, RevisionInv
        <5> QED BY <1>3, <1>5, <5>3, CampTyped
      <4> QED BY <4>1, <4>2
    <3> QED BY <1>15, <2>1, <3>1, <3>2, <3>3, RowCampIs, RowCampKept DEF RowCamp
  <2>2. ASSUME NEW r \in RowIds, outbox'[r].status = "confirmed", PendingJob(outbox[r].job)'
        PROVE  /\ outbox'[r].plan = "withdraw" =>
                    ~camp'[RowCamp(r)'].state.nft \/ camp'[RowCamp(r)'].state.phase = "holding"
               /\ outbox'[r].plan = "mint" => camp'[RowCamp(r)'].state.phase = "holding"
               /\ outbox'[r].plan = "swap" => Swapped(camp'[RowCamp(r)'].state)
    <3>1. outbox[r].status = "confirmed" /\ UsedRow(r)
      BY <1>1, <2>2 DEF UsedRow
    <3>2. PICK d \in Campaigns \ {c} : d = RowCamp(r) /\ RowCamp(r)' = d
      BY <2>1, <2>2, <3>1
    <3>3. PendingJob(outbox[r].job)
      BY <2>1, <2>2, <3>1
    <3>4. camp'[d] = camp[d]
      BY <1>7
    <3>5. /\ outbox[r].plan = "withdraw" => ~camp[d].state.nft \/ camp[d].state.phase = "holding"
          /\ outbox[r].plan = "mint" => camp[d].state.phase = "holding"
          /\ outbox[r].plan = "swap" => Swapped(camp[d].state)
      BY <3>1, <3>2, <3>3 DEF BookInv, DoneInv
    <3> QED BY <1>1, <3>2, <3>4, <3>5
  <2> QED BY <1>15, <2>2, DoneRows, StageOnceKept DEF DoneInv
<1> QED BY <1>15, <1>16, <1>17 DEF BookInv

-----------------------------------------------------------------------------
(* The freeze of a stage, and its cancellation.                            *)

\* What the planner asks for fits the state, and is not a swap that was made.
LEMMA StageFits ==
  ASSUME NEW s \in StrategyState, NEW allowance \in BOOLEAN, NEW shared \in BOOLEAN,
         NEW p \in Plans, NextStage(s, allowance, shared) = p
  PROVE  /\ s.phase \in {"entry", "recenter", "exit"}
         /\ p = "withdraw" => s.nft
         /\ p \in {"swap", "mint"} => ~s.nft
         /\ p = "swap" => ~Swapped(s)
<1>1. CASE s.phase = "exit"
  BY <1>1 DEF NextStage, ExitStage, Plans, Swapped, IsConvertExit, StrategyState
<1>2. CASE s.phase \in {"entry", "recenter"} /\ s.candidate
  BY <1>2 DEF NextStage, CandidateStage, Plans, Swapped, StrategyState
<1>3. CASE s.phase # "exit" /\ ~(s.phase \in {"entry", "recenter"} /\ s.candidate)
  BY <1>3 DEF NextStage, Plans
<1> QED BY <1>1, <1>2, <1>3

LEMMA BookPrepare ==
  ASSUME TypeInv, TypeInv', LaneInv, LaneInv', NonceInv, BookInv, NEW w \in Workers, PrepareStage(w)
  PROVE  BookInv'
<1>1. PICK j \in JobIds : j = worker[w].job
  BY TurnTyped DEF PrepareStage, Turning
<1>2. /\ worker[w].pc = "prepare" /\ Turning(w) /\ Begun(j) /\ job[j].status # "none"
      /\ UNCHANGED effects /\ UNCHANGED camp /\ UNCHANGED chain
      /\ job[j].status \in {"preflighting", "executing", "reconciling"}
      /\ job' = [job EXCEPT ![j].status = "executing"]
  BY <1>1, TurnBegun DEF PrepareStage, CanPrepare, JobOf, Turning
<1>3. PICK c \in Campaigns : c = job[j].camp
  BY <1>2 DEF TypeInv, JobsOK
<1>4. PICK p \in Plans : p = worker[w].plan
  BY <1>2 DEF TypeInv, TurnsOK
<1>5. /\ NextStage(camp[c].state, chain.allowance, Shared(c)) = p
      /\ camp[c].rev = worker[w].rev /\ Retries(j) = worker[w].retry
  BY <1>1, <1>3, <1>4 DEF PrepareStage, CanPrepare, CampOf, JobOf
<1>6. PICK q \in RowIds :
        /\ FreshRow(q)
        /\ outbox' = [outbox EXCEPT ![q] =
             [job |-> j, plan |-> p, rev |-> worker[w].rev,
              retry |-> worker[w].retry, nonce |-> worker[w].nonce, gen |-> wallet.gen,
              exit |-> ExitPermission(StateOf(w), JobOf(w).kind),
              status |-> "prepared", cleanup |-> "none"]]
        /\ worker' = [worker EXCEPT ![w] = At("verify", j, q)]
  BY <1>1, <1>4 DEF PrepareStage
<1>7. /\ outbox'[q].job = j /\ outbox'[q].plan = p /\ outbox'[q].status = "prepared"
      /\ outbox'[q].rev = camp[c].rev /\ outbox'[q].retry = Retries(j)
      /\ outbox[q].status = "none"
      /\ \A x \in RowIds : x # q => outbox'[x] = outbox[x]
  BY <1>5, <1>6 DEF FreshRow, TypeInv, TypeOK
<1>8. \A x \in RowIds : ~OpenRow(x)
  <2> SUFFICES ASSUME NEW x \in RowIds, OpenRow(x) PROVE FALSE
    OBVIOUS
  <2>1. x # q /\ OpenRow(x)' /\ OpenRow(q)'
    BY <1>7 DEF OpenRow
  <2> QED BY <2>1 DEF LaneInv, OneLane, OpenRow
<1>9. PendingJob(j) /\ CampaignWork(c)
  BY <1>2, <1>3 DEF PendingJob, PendingStatus, ActiveStatus, InFlight, CampaignWork
<1>10. JobsCalm /\ NoStart
  <2>1. "executing" \in JobStatus \ {"none", "succeeded"} /\ job[j].status \notin {"none", "succeeded"}
    BY <1>2 DEF JobStatus, PendingStatus, ActiveStatus, InFlight
  <2> QED BY <1>2, <1>9, <2>1, JobStatusCalm DEF BookInv
<1>11. /\ CampsCalm /\ RevsCalm /\ LivesCalm
       /\ \A d \in Campaigns : CalmState(camp[d].state, camp'[d].state)
  BY <1>2, CampsSame DEF CampsCalm, CampCalm, RevsCalm, LivesCalm, CalmState, KeepsPosition
<1>12. JobsKeep /\ PositionsKept
  BY <1>10, <1>11 DEF JobsCalm, JobsKeep, CalmState, PositionsKept
<1>13. RowsKeep /\ NoneSettled
  BY <1>7 DEF RowsKeep, NoneSettled, UsedRow, SettledRow
<1>14. job'[j].camp = c /\ Begun(j)' /\ job'[j].status # "none"
  BY <1>2, <1>3, <1>10, <1>11, BegunKept DEF JobsCalm, JobCalm, CalmState, KeepsPosition
<1>15. TurnsCalm
  <2>1. worker'[w].pc = "verify" /\ worker'[w].job = j
    <3>1. At("verify", j, q).pc = "verify" /\ At("verify", j, q).job = j
      BY DEF At, IdleTurn
    <3> QED BY <1>6, <3>1 DEF TypeInv, TypeOK
  <2>2. TurnFits(w)'
    BY <1>14, <2>1 DEF TurnFits, Begun
  <2> QED BY <1>6, <2>2, TurnOther
<1>16. TurnInv' /\ JobInv' /\ RevisionInv'
  BY <1>10, <1>11, <1>12, <1>13, <1>15, TurnFrame, JobFrame, RevisionFrame
<1>17. RowJobInv'
  <2>1. ASSUME NEW x \in RowIds, UsedRow(x)'
        PROVE  job'[outbox'[x].job].status # "none" /\ (\A i \in JobIds : i = outbox'[x].job => Begun(i)')
               /\ outbox'[x].job \in JobIds
    <3>1. CASE x = q
      BY <1>7, <1>14, <3>1
    <3>2. CASE x # q
      <4>1. UsedRow(x) /\ outbox'[x].job = outbox[x].job
        BY <1>7, <2>1, <3>2 DEF UsedRow
      <4>2. job'[outbox'[x].job].status # "none" /\ Begun(outbox[x].job)'
        BY <1>11, <1>12, <1>13, <4>1, RowJobFrame
      <4> QED BY <4>1, <4>2, RowCampIs DEF Begun
    <3> QED BY <3>1, <3>2
  <2> QED BY <2>1 DEF RowJobInv, Begun
<1>18. PositionInv'
  <2>1. chain.result[q] # "success"
    BY <1>7, MinedUsed DEF UsedRow
  <2>2. \A x \in RowIds : chain.result[x] = "success" => (OpenRow(x)' <=> OpenRow(x))
    BY <1>7, <2>1 DEF OpenRow
  <2> QED BY <1>2, <1>12, <1>13, <2>2, PositionFrame
<1>19. BookedOnce'
  BY <1>2, <1>12, <1>13, BookedFrame
<1>20. RowCamp(q)' = c
  BY <1>7, <1>14 DEF RowCamp
<1>21. \A x \in RowIds : OpenRow(x)' => x = q
  BY <1>7, <1>8 DEF OpenRow
<1>22. Shared(c) \in BOOLEAN /\ chain.allowance \in BOOLEAN
  BY DEF Shared, TypeInv, TypeOK, ChainState
<1>23. /\ camp[c].state.phase \in {"entry", "recenter", "exit"}
       /\ p = "withdraw" => camp[c].state.nft
       /\ p \in {"swap", "mint"} => ~camp[c].state.nft
       /\ p = "swap" => ~Swapped(camp[c].state)
  BY <1>5, <1>22, CampTyped, StageFits
<1>24. FitInv'
  BY <1>2, <1>7, <1>20, <1>21, <1>23 DEF FitInv
<1>25. DoneInv'
  <2>1. ASSUME NEW x \in RowIds, outbox'[x].status = "confirmed", outbox'[x].job = j,
               outbox'[x].plan = p, p \in {"swap", "mint", "withdraw"}
        PROVE  FALSE
    <3>1. x # q /\ outbox'[x] = outbox[x]
      BY <1>7, <2>1
    <3>2. RowCamp(x) = c
      BY <1>3, <2>1, <3>1 DEF RowCamp
    <3>3. /\ p = "withdraw" => ~camp[c].state.nft \/ camp[c].state.phase = "holding"
          /\ p = "mint" => camp[c].state.phase = "holding"
          /\ p = "swap" => Swapped(camp[c].state)
      BY <1>9, <2>1, <3>1, <3>2 DEF BookInv, DoneInv
    <3> HIDE DEF Swapped
    <3> QED BY <1>23, <2>1, <3>3
  <2>2. \A x, r \in RowIds :
          /\ outbox'[x].status = "confirmed" /\ OpenRow(r)'
          /\ outbox'[x].job = outbox'[r].job
          => outbox'[x].plan # outbox'[r].plan \/ outbox'[r].plan \notin {"swap", "mint", "withdraw"}
    BY <1>7, <1>21, <2>1
  <2>3. \A r \in RowIds : outbox'[r].status = "confirmed" /\ PendingJob(outbox[r].job)' =>
          /\ outbox'[r].plan = "withdraw" =>
               ~camp'[RowCamp(r)'].state.nft \/ camp'[RowCamp(r)'].state.phase = "holding"
          /\ outbox'[r].plan = "mint" => camp'[RowCamp(r)'].state.phase = "holding"
          /\ outbox'[r].plan = "swap" => Swapped(camp'[RowCamp(r)'].state)
    BY <1>11, <1>12, <1>13, DoneStates
  <2> QED BY <1>13, <2>2, <2>3, StageOnceKept DEF DoneInv
<1>26. KeyInv'
  <2>1. ASSUME NEW i PROVE Retries(i)' = Retries(i)
    BY <1>7, RetriesKept
  <2>2. ASSUME NEW x \in RowIds, UsedRow(x), x # q
        PROVE  /\ RowCamp(x) \in Campaigns /\ RowCamp(x)' = RowCamp(x) /\ outbox'[x] = outbox[x]
               /\ outbox[x].rev <= camp[RowCamp(x)].rev /\ outbox[x].retry <= Retries(outbox[x].job)
               /\ SettledRow(x) => outbox[x].rev < camp[RowCamp(x)].rev
               /\ outbox[x].status = "cancelled" => outbox[x].retry < Retries(outbox[x].job)
               /\ SettledRow(x) \/ outbox[x].status = "cancelled"
               /\ outbox[x].job \in JobIds
    <3>1. outbox[x].status \in OutboxStatus
      BY DEF TypeInv, TypeOK, Row
    <3> QED BY <1>7, <1>8, <1>12, <1>13, <2>2, <3>1, RowCampIs, RowCampKept
            DEF BookInv, KeyInv, OpenRow, SettledRow, UsedRow, OutboxStatus
  <2>3. ASSUME NEW x \in RowIds, UsedRow(x)'
        PROVE  /\ outbox'[x].rev <= camp'[RowCamp(x)'].rev
               /\ outbox'[x].retry <= Retries(outbox[x].job)'
               /\ SettledRow(x)' => outbox'[x].rev < camp'[RowCamp(x)'].rev
               /\ outbox'[x].status = "cancelled" => outbox'[x].retry < Retries(outbox[x].job)'
    <3>1. CASE x = q
      <4>1. Retries(outbox[x].job)' = Retries(j)
        BY <1>7, <2>1, <3>1
      <4>2. ~SettledRow(x)'
        BY <1>7, <3>1 DEF SettledRow
      <4>3. Retries(j) \in Nat /\ camp[c].rev \in Nat
        BY RetriesType, CampTyped
      <4> QED BY <1>2, <1>7, <1>20, <3>1, <4>1, <4>2, <4>3
    <3>2. CASE x # q
      <4>1. UsedRow(x) /\ outbox'[x] = outbox[x]
        BY <1>7, <2>3, <3>2 DEF UsedRow
      <4>2. PICK i \in JobIds : i = outbox[x].job
        BY <2>2, <3>2, <4>1
      <4>3. Retries(outbox[x].job)' = Retries(i)
        BY <2>1, <4>1, <4>2
      <4>4. SettledRow(x)' => SettledRow(x)
        BY <4>1 DEF SettledRow
      <4> QED BY <1>2, <2>2, <3>2, <4>1, <4>2, <4>3, <4>4
    <3> QED BY <3>1, <3>2
  <2>4. ASSUME NEW x \in RowIds, UsedRow(x), x # q, outbox[x].job = j, outbox[x].rev = camp[c].rev,
               outbox[x].retry = Retries(j)
        PROVE  FALSE
    <3>1. RowCamp(x) = c
      BY <1>3, <2>4 DEF RowCamp
    <3>2. camp[c].rev \in Nat /\ Retries(j) \in Nat
      BY RetriesType, CampTyped
    <3> QED BY <2>2, <2>4, <3>1, <3>2
  <2>5. StageKeyFresh'
    <3> SUFFICES ASSUME NEW x \in RowIds, NEW y \in RowIds, UsedRow(x)', UsedRow(y)',
                        outbox'[x].job = outbox'[y].job, outbox'[x].plan = outbox'[y].plan,
                        outbox'[x].rev = outbox'[y].rev, outbox'[x].retry = outbox'[y].retry
                 PROVE  x = y
      BY DEF StageKeyFresh, UsedRow
    <3>1. CASE x # q /\ y # q
      BY <1>7, <3>1 DEF UsedRow, BookInv, KeyInv, StageKeyFresh
    <3>2. CASE x = q /\ y # q
      BY <1>7, <2>4, <3>2 DEF UsedRow
    <3>3. CASE x # q /\ y = q
      BY <1>7, <2>4, <3>3 DEF UsedRow
    <3> QED BY <3>1, <3>2, <3>3
  <2> QED BY <2>3, <2>5 DEF KeyInv
<1>27. ReleasedInv'
  <2> SUFFICES ASSUME NEW d \in Campaigns, camp'[d].alloc = "released"
               PROVE  /\ Minted(d)' = Mined(d, "withdraw")'
                      /\ ~CampaignWork(d)'
                      /\ \A r \in RowIds : OpenRow(r)' => RowCamp(r)' # d
                      /\ camp'[d].life = "closed"
    BY DEF ReleasedInv, ReleasedIsEmpty, OpenRow, RowCamp
  <2>1. /\ Minted(d) = Mined(d, "withdraw") /\ ~CampaignWork(d) /\ camp[d].life = "closed"
    BY <1>2 DEF BookInv, ReleasedInv, ReleasedIsEmpty
  <2>2. Minted(d)' = Minted(d) /\ Mined(d, "withdraw")' = Mined(d, "withdraw")
    BY <1>2, <1>12, <1>13, MinedKept
  <2>3. ~CampaignWork(d)'
    BY <1>10, <2>1 DEF CampaignWork, JobsCalm, JobCalm
  <2>4. d # c
    BY <1>9, <2>1
  <2> QED BY <1>2, <1>20, <1>21, <2>1, <2>2, <2>3, <2>4
<1> QED BY <1>16, <1>17, <1>18, <1>19, <1>24, <1>25, <1>26, <1>27 DEF BookInv

LEMMA BookCancel ==
  ASSUME TypeInv, TypeInv', LaneInv, NonceInv, BookInv, NEW w \in Workers, CancelPrepared(w), CanCancel(w)
  PROVE  BookInv'
<1>1. PICK q \in RowIds : q = worker[w].row
  BY DEF CancelPrepared, TypeInv, TurnsOK, Turning, RowPCs
<1>2. /\ outbox[q].status = "prepared" /\ outbox' = [outbox EXCEPT ![q].status = "cancelled"]
      /\ Goto(w, "block") /\ UNCHANGED job /\ UNCHANGED camp /\ UNCHANGED effects /\ UNCHANGED chain
  BY <1>1 DEF CancelPrepared, CanCancel, RowOf
<1>3. /\ outbox'[q].status = "cancelled" /\ outbox'[q].job = outbox[q].job
      /\ outbox'[q].plan = outbox[q].plan /\ outbox'[q].rev = outbox[q].rev
      /\ outbox'[q].retry = outbox[q].retry
      /\ \A x \in RowIds : x # q => outbox'[x] = outbox[x]
  BY <1>2 DEF TypeInv, TypeOK, Row
<1>4. JobsCalm /\ NoStart /\ JobsKeep
  BY <1>2, JobsSameCalm DEF BookInv, JobsCalm, JobsKeep
<1>5. RowsKeep /\ NoNewRow /\ NoNewOpen /\ NoneSettled
  BY <1>2, <1>3 DEF RowsKeep, NoNewRow, NoNewOpen, NoneSettled, UsedRow, OpenRow, SettledRow
<1>6. /\ CampsCalm /\ RevsCalm /\ LivesCalm /\ PositionsKept
      /\ \A d \in Campaigns : CalmState(camp[d].state, camp'[d].state)
      /\ \A d \in Campaigns : CampCalm(d)
  BY <1>2, CampsSame DEF CampsCalm, CampCalm, RevsCalm, LivesCalm, CalmState, KeepsPosition, PositionsKept
<1>7. TurnsCalm
  BY <1>2, BlockCalm
<1>8. TurnInv' /\ JobInv' /\ RevisionInv' /\ FitInv' /\ DoneInv' /\ BookedOnce' /\ ReleasedInv'
  BY <1>2, <1>4, <1>5, <1>6, <1>7, TurnFrame, JobFrame, RevisionFrame, FitFrame, DoneFrame,
     BookedFrame, ReleasedFrame DEF CampCalm
<1>9. RowJobInv'
  <2>1. \A r \in RowIds : UsedRow(r)' =>
          job'[outbox'[r].job].status # "none" /\ Begun(outbox[r].job)' /\ outbox'[r].job = outbox[r].job
    BY <1>4, <1>5, <1>6, RowJobFrame DEF NoNewRow, RowsKeep
  <2> QED BY <2>1 DEF RowJobInv, Begun
<1>10. PositionInv'
  <2>1. \A r \in RowIds : chain.result[r] = "success" => (OpenRow(r)' <=> OpenRow(r))
    BY <1>2, <1>3, MinedUsed DEF OpenRow
  <2> QED BY <1>2, <1>4, <1>5, <1>6, <2>1, PositionFrame
<1>11. KeyInv'
  <2>1. PICK k \in JobIds : k = outbox[q].job
    BY <1>2, RowCampIs DEF UsedRow
  <2>2. ASSUME NEW i, i # k PROVE Retries(i)' = Retries(i)
    BY <1>3, <2>1, <2>2, RetriesKept
  <2>3. Retries(k)' = Retries(k) + 1
    <3> DEFINE S == {r \in RowIds : outbox[r].job = k /\ outbox[r].status = "cancelled"}
               T == {r \in RowIds : outbox'[r].job = k /\ outbox'[r].status = "cancelled"}
    <3>1. Retries(k) = Cardinality(S)
      <4>1. Rows(k) \ CurrentRows(k) = S
        BY DEF Rows, CurrentRows
      <4> QED BY <4>1 DEF Retries
    <3>2. Retries(k)' = Cardinality(T)
      <4>1. (Rows(k) \ CurrentRows(k))' = T
        BY DEF Rows, CurrentRows
      <4> QED BY <4>1 DEF Retries
    <3>3. T = S \union {q} /\ q \notin S
      BY <1>2, <1>3, <2>1
    <3>4. IsFiniteSet(S)
      <4>1. IsFiniteSet(RowIds)
        BY FS_Interval, BoundsAssumption DEF RowIds
      <4> QED BY <4>1, FS_Subset
    <3> QED BY <3>1, <3>2, <3>3, <3>4, FS_AddElement
  <2>4. \A i : Retries(i) \in Nat
    BY RetriesType
  <2>5. ASSUME NEW r \in RowIds, UsedRow(r)'
        PROVE  /\ outbox'[r].rev <= camp'[RowCamp(r)'].rev
               /\ outbox'[r].retry <= Retries(outbox[r].job)'
               /\ SettledRow(r)' => outbox'[r].rev < camp'[RowCamp(r)'].rev
               /\ outbox'[r].status = "cancelled" => outbox'[r].retry < Retries(outbox[r].job)'
    <3>1. UsedRow(r) /\ RowCamp(r)' = RowCamp(r)
      BY <1>4, <1>5, <2>5, RowCampKept DEF NoNewRow
    <3>2. PICK i \in JobIds : i = outbox[r].job
      BY <3>1, RowCampIs
    <3>3. /\ outbox[r].rev <= camp[RowCamp(r)].rev /\ outbox[r].retry <= Retries(i)
          /\ SettledRow(r) => outbox[r].rev < camp[RowCamp(r)].rev
          /\ outbox[r].status = "cancelled" => outbox[r].retry < Retries(i)
      BY <3>1, <3>2 DEF BookInv, KeyInv
    <3>4. outbox'[r].rev = outbox[r].rev /\ outbox'[r].retry = outbox[r].retry /\ outbox'[r].job = i
          /\ (SettledRow(r)' => SettledRow(r))
      BY <1>5, <3>1, <3>2 DEF RowsKeep, NoneSettled
    <3>5. outbox[r].retry \in Nat /\ Retries(i) \in Nat
      BY <2>4 DEF TypeInv, TypeOK, Row
    <3>6. outbox[r].retry <= Retries(i)' /\ (outbox'[r].status = "cancelled" => outbox[r].retry < Retries(i)')
      <4>1. CASE r = q
        BY <2>1, <2>3, <3>2, <3>3, <3>5, <4>1
      <4>2. CASE r # q
        <5>1. Retries(i)' = Retries(i) \/ Retries(i)' = Retries(i) + 1
          BY <2>1, <2>2, <2>3
        <5> QED BY <1>3, <3>3, <3>5, <4>2, <5>1
      <4> QED BY <4>1, <4>2
    <3>7. Retries(outbox[r].job)' = Retries(i)'
      BY <3>4
    <3> QED BY <1>2, <3>1, <3>3, <3>4, <3>6, <3>7
  <2>6. StageKeyFresh'
    <3>1. \A r \in RowIds : /\ outbox'[r].status # "none" => outbox[r].status # "none"
                            /\ outbox'[r].job = outbox[r].job /\ outbox'[r].plan = outbox[r].plan
                            /\ outbox'[r].rev = outbox[r].rev /\ outbox'[r].retry = outbox[r].retry
      BY <1>2, <1>3
    <3> QED BY <3>1 DEF BookInv, KeyInv, StageKeyFresh
  <2> QED BY <2>5, <2>6 DEF KeyInv
<1> QED BY <1>8, <1>9, <1>10, <1>11 DEF BookInv

-----------------------------------------------------------------------------
(* The chain: what a mined transaction does to the counts.                 *)

LEMMA MinedCount ==
  ASSUME TypeInv, NEW r \in RowIds, UNCHANGED job, UNCHANGED outbox, chain.result[r] = "none",
         \A q \in RowIds : q # r => chain'.result[q] = chain.result[q],
         NEW c, NEW plan
  PROVE  Mined(c, plan)' =
           Mined(c, plan) + (IF chain'.result[r] = "success" /\ RowCamp(r) = c /\ outbox[r].plan = plan
                             THEN 1 ELSE 0)
<1> DEFINE S == {q \in RowIds : outbox[q].plan = plan /\ chain.result[q] = "success" /\ RowCamp(q) = c}
           T == {q \in RowIds : outbox'[q].plan = plan /\ chain'.result[q] = "success" /\ RowCamp(q)' = c}
<1>1. Mined(c, plan) = Cardinality(S) /\ Mined(c, plan)' = Cardinality(T)
  BY DEF Mined, RowCamp
<1>2. \A q \in RowIds : RowCamp(q)' = RowCamp(q)
  BY DEF RowCamp
<1>3. IsFiniteSet(S)
  <2>1. IsFiniteSet(RowIds)
    BY FS_Interval, BoundsAssumption DEF RowIds
  <2> QED BY <2>1, FS_Subset
<1>4. Cardinality(S) \in Nat
  BY <1>3, FS_CardinalityType
<1>5. CASE chain'.result[r] = "success" /\ RowCamp(r) = c /\ outbox[r].plan = plan
  <2>1. T = S \union {r} /\ r \notin S
    BY <1>2, <1>5
  <2> QED BY <1>1, <1>3, <1>5, <2>1, FS_AddElement
<1>6. CASE ~(chain'.result[r] = "success" /\ RowCamp(r) = c /\ outbox[r].plan = plan)
  <2>1. r \notin S /\ r \notin T
    BY <1>2, <1>6
  <2>2. \A q \in RowIds : q # r => (q \in S <=> q \in T)
    BY <1>2
  <2>3. T = S
    BY <2>1, <2>2
  <2> HIDE DEF S, T
  <2>4. Mined(c, plan)' = Mined(c, plan) + 0
    BY <1>1, <1>4, <2>3
  <2> QED BY <1>6, <2>4
<1> QED BY <1>5, <1>6

LEMMA BookMine ==
  ASSUME TypeInv, TypeInv', LaneInv, NonceInv, BookInv, NEW r \in RowIds, Mine(r)
  PROVE  BookInv'
<1>1. outbox[r].status = "signed" /\ chain.nonce = wallet.nonce
  BY NonceMine
<1>2. UNCHANGED job /\ UNCHANGED outbox /\ UNCHANGED effects /\ UNCHANGED camp /\ UNCHANGED worker
  BY DEF Mine
<1>3. PICK outcome \in {"success", "reverted"} :
        /\ chain'.result[r] = outcome
        /\ \A q \in RowIds : q # r => chain'.result[q] = chain.result[q]
  BY DEF Mine, TypeInv, TypeOK, ChainState
<1>4. chain.result[r] = "none"
  <2>1. outbox[r].status = "signed" /\ Canonical(r) => chain.nonce = wallet.nonce + 1
    BY DEF NonceInv, ChainNonceInv
  <2>2. wallet.nonce \in Nat
    BY DEF TypeInv, TypeOK, WalletRow
  <2> QED BY <1>1, <2>1, <2>2 DEF Canonical
<1>5. OpenRow(r) /\ UsedRow(r) /\ \A q \in RowIds : OpenRow(q) => q = r
  BY <1>1 DEF OpenRow, UsedRow, LaneInv, OneLane
<1>6. JobsCalm /\ NoStart /\ JobsKeep
  BY <1>2, JobsSameCalm DEF BookInv, JobsCalm, JobsKeep
<1>7. RowsCalm /\ RowsKeep /\ NoNewRow /\ NoNewOpen /\ NoneSettled /\ TurnsCalm
  BY <1>2, RowsSameCalm, RowsKept2, TurnsSameCalm
<1>8. /\ CampsCalm /\ RevsCalm /\ LivesCalm /\ PositionsKept
      /\ \A d \in Campaigns : CalmState(camp[d].state, camp'[d].state)
  BY <1>2, CampsSame DEF CampsCalm, CampCalm, RevsCalm, LivesCalm, CalmState, KeepsPosition, PositionsKept
<1>9. TurnInv' /\ JobInv' /\ RevisionInv' /\ KeyInv' /\ FitInv' /\ DoneInv' /\ BookedOnce'
  BY <1>2, <1>6, <1>7, <1>8, TurnFrame, JobFrame, RevisionFrame, KeyFrame, FitFrame, DoneFrame,
     BookedFrame DEF CampsCalm, CampCalm
<1>10. RowJobInv'
  BY <1>2 DEF BookInv, RowJobInv, UsedRow, Begun
<1>11. PICK d \in Campaigns : d = RowCamp(r)
  BY <1>5, RowCampIs
<1>12. ASSUME NEW c, NEW p
       PROVE  /\ Mined(c, p) \in Nat
              /\ Mined(c, p)' = Mined(c, p) + (IF outcome = "success" /\ d = c /\ outbox[r].plan = p
                                               THEN 1 ELSE 0)
  BY <1>2, <1>3, <1>4, <1>11, MinedCount, MinedNat
<1>13. ASSUME NEW c
       PROVE  /\ Minted(c) \in Nat
              /\ Minted(c)' = Minted(c) + (IF outcome = "success" /\ d = c /\ outbox[r].plan = "mint"
                                           THEN 1 ELSE 0)
  BY <1>12 DEF Minted
<1>14. PositionInv'
  <2> SUFFICES ASSUME NEW c \in Campaigns
               PROVE  /\ (\A q \in RowIds :
                            OpenRow(q)' /\ chain'.result[q] = "success" /\ RowCamp(q)' = c
                              => outbox'[q].plan \notin {"mint", "withdraw"})
                           => Minted(c)' = Mined(c, "withdraw")' + (IF camp'[c].state.nft THEN 1 ELSE 0)
                      /\ \A q \in RowIds :
                           OpenRow(q)' /\ chain'.result[q] = "success" /\ RowCamp(q)' = c =>
                             /\ outbox'[q].plan = "mint" => Minted(c)' = Mined(c, "withdraw")' + 1
                             /\ outbox'[q].plan = "withdraw" => Minted(c)' = Mined(c, "withdraw")'
    BY DEF PositionInv
  <2>1. Minted(c) = Mined(c, "withdraw") + (IF camp[c].state.nft THEN 1 ELSE 0)
    BY <1>4, <1>5 DEF BookInv, PositionInv
  <2>2. \A q \in RowIds : OpenRow(q)' => q = r
    BY <1>2, <1>5 DEF OpenRow
  <2>3. OpenRow(r)' /\ RowCamp(r)' = d /\ outbox'[r] = outbox[r] /\ camp'[c] = camp[c]
    BY <1>2, <1>5, <1>11 DEF OpenRow, RowCamp
  <2>4. /\ Mined(c, "withdraw") \in Nat /\ Minted(c) \in Nat
        /\ Mined(c, "withdraw")' = Mined(c, "withdraw")
             + (IF outcome = "success" /\ d = c /\ outbox[r].plan = "withdraw" THEN 1 ELSE 0)
        /\ Minted(c)' = Minted(c)
             + (IF outcome = "success" /\ d = c /\ outbox[r].plan = "mint" THEN 1 ELSE 0)
    BY <1>12, <1>13
  <2>5. CASE outcome = "success" /\ d = c /\ outbox[r].plan \in {"mint", "withdraw"}
    <3>1. /\ outbox[r].plan = "withdraw" => camp[c].state.nft
          /\ outbox[r].plan = "mint" => ~camp[c].state.nft
      BY <1>5, <1>11, <2>5 DEF BookInv, FitInv
    <3> QED BY <1>3, <2>1, <2>2, <2>3, <2>4, <2>5, <3>1
  <2>6. CASE ~(outcome = "success" /\ d = c /\ outbox[r].plan \in {"mint", "withdraw"})
    <3>1. Minted(c)' = Minted(c) /\ Mined(c, "withdraw")' = Mined(c, "withdraw")
      BY <2>4, <2>6
    <3> QED BY <1>3, <2>1, <2>2, <2>3, <2>6, <3>1
  <2> QED BY <2>5, <2>6
<1>15. ReleasedInv'
  <2> SUFFICES ASSUME NEW c \in Campaigns, camp'[c].alloc = "released"
               PROVE  /\ Minted(c)' = Mined(c, "withdraw")'
                      /\ ~CampaignWork(c)'
                      /\ \A q \in RowIds : OpenRow(q)' => RowCamp(q)' # c
                      /\ camp'[c].life = "closed"
    BY DEF ReleasedInv, ReleasedIsEmpty, OpenRow, RowCamp
  <2>1. /\ Minted(c) = Mined(c, "withdraw") /\ ~CampaignWork(c) /\ camp[c].life = "closed"
        /\ \A q \in RowIds : OpenRow(q) => RowCamp(q) # c
    BY <1>2 DEF BookInv, ReleasedInv, ReleasedIsEmpty, OpenRow, RowCamp
  <2>2. d # c
    BY <1>5, <1>11, <2>1
  <2>3. Minted(c)' = Minted(c) /\ Mined(c, "withdraw")' = Mined(c, "withdraw")
    BY <1>12, <1>13, <2>2
  <2> QED BY <1>2, <2>1, <2>3 DEF CampaignWork, PendingJob, OpenRow, RowCamp
<1> QED BY <1>9, <1>10, <1>14, <1>15 DEF BookInv

-----------------------------------------------------------------------------
(***************************************************************************)
(* The receipt.  A stage that fitted the state leaves it, whatever the     *)
(* outcome, where what the job has confirmed is not asked for again, and   *)
(* moves the position exactly as the chain did.                            *)
(***************************************************************************)
LEMMA ReceiptDone ==
  ASSUME NEW s \in StrategyState, NEW kind, NEW plan \in Plans, NEW outcome \in {"success", "reverted"},
         NEW risky \in BOOLEAN,
         s.phase \notin {"none", "holding", "halted"},
         plan = "withdraw" => s.nft, plan \in {"swap", "mint"} => ~s.nft,
         NEW t, t = ReceiptEffect(s, kind, plan, outcome, risky)
  PROVE  /\ t.phase # "none"
         /\ outcome = "success" /\ plan = "withdraw" => ~t.nft
         /\ outcome = "success" /\ plan = "mint" => t.nft /\ t.phase = "holding"
         /\ outcome = "success" /\ plan = "swap" => Swapped(t)
         /\ outcome = "reverted" \/ plan \notin {"withdraw", "mint"} => t.nft = s.nft
         /\ ~s.nft => ~t.nft \/ t.phase = "holding"
         /\ Swapped(s) => Swapped(t)
<1>1. CASE outcome = "reverted"
  BY <1>1 DEF ReceiptEffect, RevertedEffect, DegradeConvertToRetain, IsConvertExit, StrategyState, Swapped
<1>2. CASE outcome = "success" /\ plan = "withdraw"
  BY <1>2 DEF ReceiptEffect, WithdrawEffect, StrategyState, Swapped
<1>3. CASE outcome = "success" /\ plan = "swap"
  BY <1>3 DEF ReceiptEffect, SwapEffect, StrategyState, Swapped, Phases
<1>4. CASE outcome = "success" /\ plan = "mint"
  BY <1>4 DEF ReceiptEffect, MintEffect, StrategyState, Swapped
<1>5. CASE outcome = "success" /\ plan \in {"approve", "revoke"}
  BY <1>5 DEF ReceiptEffect
<1> QED BY <1>1, <1>2, <1>3, <1>4, <1>5 DEF Plans

LEMMA BookReconcile ==
  ASSUME TypeInv, TypeInv', LaneInv, NonceInv, BookInv, NEW w \in Workers, Reconcile(w)
  PROVE  BookInv'
<1>1. PICK r \in RowIds : r = worker[w].row
  BY DEF Reconcile, TypeInv, TurnsOK, Turning, RowPCs
<1>2. PICK j \in JobIds : j = worker[w].job
  BY DEF Reconcile, TypeInv, TurnsOK, Turning
<1>3. worker[w].pc = "reconcile" /\ Begun(j) /\ job[j].status # "none"
  BY <1>2, TurnBegun DEF Reconcile
<1>4. PICK c \in Campaigns : c = job[j].camp
  BY <1>3 DEF TypeInv, JobsOK
<1>5. outbox[r].status = "signed" /\ outbox[r].job = j /\ RowCamp(r) = c
  <2>1. outbox[r].status = "signed"
    BY <1>1 DEF Reconcile, CanReconcile, RowOf
  <2>2. outbox[worker[w].row].job = worker[w].job
    <3>1. worker[w].row # 0
      BY <1>1 DEF RowIds
    <3> QED BY <1>3, <3>1 DEF LaneInv, RowInv, Turning
  <2> QED BY <1>1, <1>2, <1>4, <2>1, <2>2 DEF RowCamp
<1>6. PICK outcome \in {"success", "reverted"} : outcome = chain.result[r]
  BY <1>1 DEF Reconcile, CanReconcile, Canonical, TypeInv, TypeOK, ChainState
<1>7. PICK p \in Plans : p = outbox[r].plan
  BY DEF TypeInv, TypeOK, Row
<1>8. OpenRow(r) /\ UsedRow(r) /\ ActiveJob(j) /\ \A q \in RowIds : OpenRow(q) => q = r
  BY <1>5 DEF OpenRow, UsedRow, LaneInv, OneLane
<1>9. PendingJob(j)
  BY <1>8 DEF ActiveJob, PendingJob, PendingStatus
<1>10. r \notin effects
  BY <1>5 DEF BookInv, BookedOnce
<1>11. PICK risky \in BOOLEAN :
         camp' = [camp EXCEPT ![c] = [camp[c] EXCEPT
                    !.state = ReceiptEffect(camp[c].state, job[j].kind, p, outcome, risky),
                    !.rev = camp[c].rev + 1, !.costs = camp[c].costs + 1]]
  BY <1>1, <1>2, <1>4, <1>6, <1>7, <1>10 DEF Reconcile, Effected, Verdict, CampOf, JobOf, StateOf, RowOf,
     RiskyAfter
<1>12. PICK t : t = ReceiptEffect(camp[c].state, job[j].kind, p, outcome, risky)
  OBVIOUS
<1>13. /\ camp'[c].state = t /\ camp'[c].rev = camp[c].rev + 1 /\ camp'[c].costs = camp[c].costs + 1
       /\ camp'[c].life = camp[c].life /\ camp'[c].alloc = camp[c].alloc
       /\ \A d \in Campaigns : d # c => camp'[d] = camp[d]
  BY <1>11, <1>12 DEF TypeInv, TypeOK, Campaign
<1>14. /\ camp[c].state.phase \notin {"none", "holding", "halted"}
       /\ p = "withdraw" => camp[c].state.nft
       /\ p \in {"swap", "mint"} => ~camp[c].state.nft
  BY <1>5, <1>7, <1>8 DEF BookInv, FitInv
<1>15. /\ t.phase # "none"
       /\ outcome = "success" /\ p = "withdraw" => ~t.nft
       /\ outcome = "success" /\ p = "mint" => t.nft /\ t.phase = "holding"
       /\ outcome = "success" /\ p = "swap" => Swapped(t)
       /\ outcome = "reverted" \/ p \notin {"withdraw", "mint"} => t.nft = camp[c].state.nft
       /\ ~camp[c].state.nft => ~t.nft \/ t.phase = "holding"
       /\ Swapped(camp[c].state) => Swapped(t)
  <2>1. camp[c].state \in StrategyState
    BY CampTyped
  <2> HIDE DEF Swapped
  <2> QED BY <1>12, <1>14, <2>1, ReceiptDone
<1>16. /\ effects' = effects \union {r} /\ chain' = chain /\ Goto(w, "settle")
       /\ outbox' = [outbox EXCEPT ![r].status = IF outcome = "success" THEN "confirmed" ELSE "reverted"]
       /\ job' = [job EXCEPT ![j].status = IF outcome = "success" THEN "reconciling" ELSE "blocked"]
  BY <1>1, <1>2, <1>6 DEF Reconcile, Verdict
<1>17. /\ outbox'[r].status = (IF outcome = "success" THEN "confirmed" ELSE "reverted")
       /\ outbox'[r].job = outbox[r].job /\ outbox'[r].plan = outbox[r].plan
       /\ outbox'[r].rev = outbox[r].rev /\ outbox'[r].retry = outbox[r].retry
       /\ \A x \in RowIds : x # r => outbox'[x] = outbox[x]
  BY <1>16 DEF TypeInv, TypeOK, Row
<1>18. JobsCalm /\ NoStart
  <2>1. PICK s \in {"reconciling", "blocked"} : job' = [job EXCEPT ![j].status = s]
    BY <1>16
  <2>2. s \in JobStatus \ {"none", "succeeded"} /\ job[j].status \notin {"none", "succeeded"}
    BY <1>9 DEF JobStatus, PendingJob, PendingStatus, ActiveStatus, InFlight
  <2> QED BY <1>9, <2>1, <2>2, JobStatusCalm DEF BookInv
<1>19. JobsKeep
  BY <1>18 DEF JobsCalm, JobsKeep
<1>20. RowsKeep /\ NoNewRow /\ SettledRow(r)'
  BY <1>5, <1>17 DEF RowsKeep, NoNewRow, UsedRow, OpenRow, SettledRow
<1>21. \A x \in RowIds : ~OpenRow(x)'
  BY <1>8, <1>17 DEF OpenRow
<1>22. \A x \in RowIds \ {r} : SettledRow(x)' => SettledRow(x)
  BY <1>17 DEF SettledRow
<1>23. RevsCalm /\ LivesCalm
  <2>1. \A d \in Campaigns : camp[d].rev \in Nat
    BY CampTyped
  <2> QED BY <1>13, <1>15, <2>1 DEF RevsCalm, LivesCalm, LifeCalm
<1>24. Begun(j)'
  BY <1>3, <1>18, <1>23, BegunKept DEF JobsCalm, RevsCalm
<1>25. TurnsCalm
  BY <1>1, <1>2, <1>16, <1>20, <1>24, GotoCalm DEF PCs
<1>26. TurnInv' /\ JobInv' /\ RevisionInv' /\ FitInv'
  BY <1>18, <1>19, <1>20, <1>21, <1>23, <1>25, TurnFrame, JobFrame, RevisionFrame DEF FitInv
<1>27. RowJobInv'
  <2>1. \A x \in RowIds : UsedRow(x)' =>
          job'[outbox'[x].job].status # "none" /\ Begun(outbox[x].job)' /\ outbox'[x].job = outbox[x].job
    BY <1>19, <1>20, <1>23, RowJobFrame DEF NoNewRow, RowsKeep
  <2> QED BY <2>1 DEF RowJobInv, Begun
<1> HIDE DEF Swapped
<1>28. KeyInv'
  <2>1. ASSUME NEW i PROVE Retries(i)' = Retries(i)
    BY <1>5, <1>17, RetriesKept
  <2>2. ASSUME NEW x \in RowIds, UsedRow(x)'
        PROVE  /\ outbox'[x].rev <= camp'[RowCamp(x)'].rev
               /\ outbox'[x].retry <= Retries(outbox[x].job)'
               /\ SettledRow(x)' => outbox'[x].rev < camp'[RowCamp(x)'].rev
               /\ outbox'[x].status = "cancelled" => outbox'[x].retry < Retries(outbox[x].job)'
    <3>1. UsedRow(x)
      BY <1>20, <2>2 DEF NoNewRow
    <3>2. PICK d \in Campaigns : d = RowCamp(x) /\ RowCamp(x)' = d
      BY <1>19, <1>20, <3>1, RowCampIs, RowCampKept
    <3>3. PICK i \in JobIds : i = outbox[x].job /\ outbox'[x].job = i
      BY <1>20, <3>1, RowCampIs DEF RowsKeep
    <3>4. /\ outbox[x].rev <= camp[d].rev /\ outbox[x].retry <= Retries(i)
          /\ SettledRow(x) => outbox[x].rev < camp[d].rev
          /\ outbox[x].status = "cancelled" => outbox[x].retry < Retries(i)
      BY <3>1, <3>2, <3>3 DEF BookInv, KeyInv
    <3>5. outbox[x].rev \in Nat /\ camp[d].rev \in Nat
      BY CampTyped DEF TypeInv, TypeOK, Row
    <3>6. outbox'[x].rev = outbox[x].rev /\ outbox'[x].retry = outbox[x].retry
      BY <1>20, <3>1 DEF RowsKeep
    <3>7. outbox'[x].rev <= camp'[d].rev /\ (SettledRow(x)' => outbox'[x].rev < camp'[d].rev)
      <4>1. CASE d = c
        BY <1>13, <3>4, <3>5, <3>6, <4>1
      <4>2. CASE d # c
        BY <1>5, <1>13, <1>22, <3>2, <3>4, <3>6, <4>2
      <4> QED BY <4>1, <4>2
    <3>8. outbox'[x].status = "cancelled" => outbox[x].status = "cancelled"
      BY <1>17
    <3>9. Retries(outbox[x].job)' = Retries(i)
      BY <2>1, <3>3
    <3> QED BY <3>2, <3>4, <3>6, <3>7, <3>8, <3>9
  <2>3. StageKeyFresh'
    <3>1. \A x \in RowIds : /\ outbox'[x].status # "none" => outbox[x].status # "none"
                            /\ outbox'[x].job = outbox[x].job /\ outbox'[x].plan = outbox[x].plan
                            /\ outbox'[x].rev = outbox[x].rev /\ outbox'[x].retry = outbox[x].retry
      BY <1>5, <1>17
    <3> QED BY <3>1 DEF BookInv, KeyInv, StageKeyFresh
  <2> QED BY <2>2, <2>3 DEF KeyInv
<1>29. DoneInv'
  <2>1. ASSUME NEW x \in RowIds, outbox[x].status = "confirmed", outbox[x].job = j
        PROVE  outbox[x].plan # p \/ p \notin {"swap", "mint", "withdraw"}
    BY <1>5, <1>7, <1>8, <2>1 DEF BookInv, DoneInv
  <2>2. ASSUME NEW x \in RowIds, outbox'[x].status = "confirmed", PendingJob(outbox[x].job)'
        PROVE  /\ outbox'[x].plan = "withdraw" =>
                    ~camp'[RowCamp(x)'].state.nft \/ camp'[RowCamp(x)'].state.phase = "holding"
               /\ outbox'[x].plan = "mint" => camp'[RowCamp(x)'].state.phase = "holding"
               /\ outbox'[x].plan = "swap" => Swapped(camp'[RowCamp(x)'].state)
    <3>1. UsedRow(x)
      BY <1>17, <1>5, <2>2 DEF UsedRow
    <3>2. PICK d \in Campaigns : d = RowCamp(x) /\ RowCamp(x)' = d
      BY <1>19, <1>20, <3>1, RowCampIs, RowCampKept
    <3>3. outbox'[x].plan = outbox[x].plan
      BY <1>17
    <3>4. CASE x = r
      <4>1. outcome = "success" /\ d = c
        BY <1>5, <1>17, <2>2, <3>2, <3>4
      <4> QED BY <1>7, <1>13, <1>15, <3>2, <3>3, <3>4, <4>1
    <3>5. CASE x # r
      <4>1. PICK i \in JobIds : i = outbox[x].job /\ outbox'[x].job = i
        BY <1>20, <3>1, RowCampIs DEF RowsKeep
      <4>2. outbox[x].status = "confirmed" /\ PendingJob(i)
        BY <1>17, <1>18, <2>2, <3>5, <4>1 DEF JobsCalm, JobCalm, PendingJob
      <4>3. /\ outbox[x].plan = "withdraw" => ~camp[d].state.nft \/ camp[d].state.phase = "holding"
            /\ outbox[x].plan = "mint" => camp[d].state.phase = "holding"
            /\ outbox[x].plan = "swap" => Swapped(camp[d].state)
        BY <3>2, <4>1, <4>2 DEF BookInv, DoneInv
      <4>4. CASE d # c
        BY <1>13, <3>2, <3>3, <4>3, <4>4
      <4>5. CASE d = c
        <5>1. /\ outbox[x].plan = "withdraw" => ~camp[c].state.nft
              /\ outbox[x].plan # "mint"
              /\ outbox[x].plan = "swap" => Swapped(camp[c].state)
          BY <1>14, <4>3, <4>5
        <5>2. /\ outbox[x].plan = "withdraw" => ~t.nft \/ t.phase = "holding"
              /\ outbox[x].plan = "swap" => Swapped(t)
          BY <1>15, <5>1
        <5> QED BY <1>13, <3>2, <3>3, <4>5, <5>1, <5>2
      <4> QED BY <4>4, <4>5
    <3> QED BY <3>4, <3>5
  <2>3. StageOnce'
    <3> SUFFICES ASSUME NEW x \in RowIds, NEW y \in RowIds,
                        outbox'[x].status = "confirmed", outbox'[y].status = "confirmed",
                        outbox'[x].job = outbox'[y].job, outbox'[x].plan = outbox'[y].plan,
                        outbox'[x].plan \in {"swap", "mint", "withdraw"}
                 PROVE  x = y
      BY DEF StageOnce
    <3>1. CASE x # r /\ y # r
      BY <1>17, <3>1 DEF BookInv, DoneInv, StageOnce
    <3>2. CASE x = r /\ y # r
      BY <1>5, <1>7, <1>17, <2>1, <3>2
    <3>3. CASE x # r /\ y = r
      BY <1>5, <1>7, <1>17, <2>1, <3>3
    <3> QED BY <3>1, <3>2, <3>3
  <2> QED BY <1>21, <2>2, <2>3 DEF DoneInv
<1>30. ASSUME NEW d, NEW q PROVE Mined(d, q)' = Mined(d, q) /\ Minted(d)' = Minted(d)
  <2>1. chain'.result = chain.result
    BY <1>16
  <2> QED BY <1>19, <1>20, <2>1, MinedKept
<1>31. PositionInv'
  <2>1. ASSUME NEW d \in Campaigns
        PROVE  Minted(d) = Mined(d, "withdraw") + (IF camp'[d].state.nft THEN 1 ELSE 0)
    <3>1. CASE d = c /\ outcome = "success" /\ p \in {"mint", "withdraw"}
      <4>1. /\ p = "mint" => Minted(c) = Mined(c, "withdraw") + 1
            /\ p = "withdraw" => Minted(c) = Mined(c, "withdraw")
        BY <1>5, <1>6, <1>7, <1>8, <3>1 DEF BookInv, PositionInv
      <4>2. Mined(c, "withdraw") \in Nat
        BY MinedNat
      <4> QED BY <1>13, <1>15, <3>1, <4>1, <4>2
    <3>2. CASE ~(d = c /\ outcome = "success" /\ p \in {"mint", "withdraw"})
      <4>1. Minted(d) = Mined(d, "withdraw") + (IF camp[d].state.nft THEN 1 ELSE 0)
        BY <1>5, <1>6, <1>7, <1>8, <3>2 DEF BookInv, PositionInv
      <4>2. camp'[d].state.nft = camp[d].state.nft
        BY <1>13, <1>15, <3>2
      <4> QED BY <4>1, <4>2
    <3> QED BY <3>1, <3>2
  <2> QED BY <1>21, <1>30, <2>1 DEF PositionInv
<1>32. BookedOnce'
  <2>1. effects' = {x \in RowIds : SettledRow(x)'}
    <3>1. effects = {x \in RowIds : SettledRow(x)}
      BY DEF BookInv, BookedOnce, SettledRow
    <3>2. \A x \in RowIds : SettledRow(x)' <=> SettledRow(x) \/ x = r
      BY <1>17, <1>20 DEF SettledRow
    <3> QED BY <1>16, <3>1, <3>2
  <2>2. ASSUME NEW d \in Campaigns
        PROVE  camp'[d].costs = Cardinality({x \in effects' : RowCamp(x)' = d})
    <3> DEFINE S == {x \in effects : RowCamp(x) = d}
               T == {x \in effects' : RowCamp(x)' = d}
    <3>1. \A x \in effects : x \in RowIds /\ UsedRow(x)
      BY DEF BookInv, BookedOnce, UsedRow
    <3>2. \A x \in effects : RowCamp(x)' = RowCamp(x)
      BY <1>19, <1>20, <3>1, RowCampKept
    <3>3. RowCamp(r)' = c
      BY <1>5, <1>8, <1>19, <1>20, RowCampKept
    <3>4. camp[d].costs = Cardinality(S)
      BY DEF BookInv, BookedOnce, RowCamp
    <3>5. IsFiniteSet(S)
      <4>1. IsFiniteSet(RowIds)
        BY FS_Interval, BoundsAssumption DEF RowIds
      <4>2. S \subseteq RowIds
        BY <3>1
      <4> QED BY <4>1, <4>2, FS_Subset
    <3>6. CASE d = c
      <4>1. r \notin S
        BY <1>10
      <4>2. r \in T
        BY <1>16, <3>3, <3>6
      <4>3. \A x \in effects : x \in T <=> x \in S
        BY <1>16, <3>2
      <4>4. T \subseteq effects \union {r} /\ S \subseteq effects
        BY <1>16
      <4>5. T = S \union {r}
        BY <4>2, <4>3, <4>4
      <4> HIDE DEF S, T
      <4>6. Cardinality(T) = Cardinality(S) + 1
        BY <3>5, <4>1, <4>5, FS_AddElement
      <4>7. camp[d].costs = Cardinality(S) /\ camp'[d].costs = camp[d].costs + 1
        BY <1>13, <3>4, <3>6
      <4> QED BY <4>6, <4>7 DEF T
    <3>7. CASE d # c
      <4>1. T = S
        BY <1>16, <3>2, <3>3, <3>7
      <4> QED BY <1>13, <3>4, <3>7, <4>1
    <3> QED BY <3>6, <3>7
  <2> QED BY <2>1, <2>2 DEF BookedOnce, SettledRow, RowCamp
<1>33. ReleasedInv'
  <2> SUFFICES ASSUME NEW d \in Campaigns, camp'[d].alloc = "released"
               PROVE  /\ Minted(d)' = Mined(d, "withdraw")'
                      /\ ~CampaignWork(d)'
                      /\ \A x \in RowIds : OpenRow(x)' => RowCamp(x)' # d
                      /\ camp'[d].life = "closed"
    BY DEF ReleasedInv, ReleasedIsEmpty, OpenRow, RowCamp
  <2>1. camp[d].alloc = "released" /\ camp'[d].life = camp[d].life
    BY <1>13
  <2>2. Minted(d) = Mined(d, "withdraw") /\ ~CampaignWork(d) /\ camp[d].life = "closed"
    BY <2>1 DEF BookInv, ReleasedInv, ReleasedIsEmpty
  <2>3. ~CampaignWork(d)'
    BY <1>18, <2>2 DEF CampaignWork, JobsCalm, JobCalm
  <2> QED BY <1>21, <1>30, <2>1, <2>2, <2>3
<1> QED BY <1>26, <1>27, <1>28, <1>29, <1>31, <1>32, <1>33 DEF BookInv

-----------------------------------------------------------------------------
(* Every step, and the theorems.                                           *)

LEMMA BookNext ==
  ASSUME TypeInv, TypeInv', LaneInv, LaneInv', NonceInv, BookInv, [Next]_vars
  PROVE  BookInv'
<1>1. CASE Operator
  <2>1. CASE \E c \in Campaigns : Reserve(c)
    BY <2>1, BookReserve
  <2>2. CASE DashboardRefresh \/ (\E c \in Campaigns : RecordReview(c)) \/ (\E j \in JobIds : CancelQueued(j))
    BY <2>2, CalmOperator, CalmPreserves
  <2> QED BY <1>1, <2>1, <2>2 DEF Operator
<1>2. CASE Manager
  <2>1. PICK c \in Campaigns :
          \/ \E kind \in Kinds : Enqueue(c, kind)
          \/ SafetyExit(c) \/ \E swap \in {"none", "todo"} : Replan(c, swap)
    BY <1>2 DEF Manager
  <2>2. CASE \E kind \in Kinds : Enqueue(c, kind)
    BY <2>2, BookEnqueue
  <2>3. CASE SafetyExit(c) \/ \E swap \in {"none", "todo"} : Replan(c, swap)
    BY <2>3, CalmManager, CalmPreserves
  <2> QED BY <2>1, <2>2, <2>3
<1>3. CASE Clock \/ Maintain
  BY <1>3, CalmClock, CalmMaintain, CalmPreserves
<1>4. CASE Network
  BY <1>4, BookMine, CalmDrop, CalmPreserves DEF Network
<1>5. ASSUME NEW w \in Workers, Claim(w) \/ Failure(w) PROVE BookInv'
  BY <1>5, CalmClaim, CalmFailure, CalmPreserves
<1>6. ASSUME NEW w \in Workers, Step(w) PROVE BookInv'
  <2>1. ASSUME NEW swap \in {"none", "todo"}, InitializeOpening(w, swap) \/ PrepareManagement(w, swap)
        PROVE  BookInv'
    <3>1. CASE InitializeOpening(w, swap)
      BY <3>1, CalmInitialize, CalmPreserves
    <3>2. CASE PrepareManagement(w, swap) /\ JobOf(w).started
      BY <3>2, CalmPrepared, CalmPreserves
    <3>3. CASE PrepareManagement(w, swap) /\ ~JobOf(w).started
      BY <3>3, BookStart
    <3> QED BY <2>1, <3>1, <3>2, <3>3
  <2>2. CASE RejectReview(w) \/ ResumeEffect(w) \/ Plan(w)
    BY <2>2, CalmRejectReview, CalmResumeEffect, CalmPlan, CalmPreserves
  <2>3. CASE PrepareStage(w)
    BY <2>3, BookPrepare
  <2>4. CASE CancelPrepared(w)
    BY <2>4, BookCancel, CalmMoves, CalmPreserves
  <2>5. CASE \/ PrepareRefused(w) \/ VerifyIntent(w) \/ Sign(w) \/ ReadRaw(w) \/ Publish(w)
             \/ AwaitReceipt(w)
    BY <2>5, CalmMoves, CalmPreserves
  <2>6. CASE RecordSigned(w) \/ BeginPublish(w) \/ ReconcileNothing(w)
    BY <2>6, CalmRecord, CalmBeginPublish, CalmNothing, CalmPreserves
  <2>7. CASE Reconcile(w)
    BY <2>7, BookReconcile
  <2>8. CASE Settle(w) \/ Finish(w) \/ Lifecycle(w) \/ Release(w) \/ BlockTurn(w)
    BY <2>8, CalmSettle, CalmFinish, CalmLifecycle, CalmRelease, CalmBlock, CalmPreserves
  <2> QED BY <1>6, <2>1, <2>2, <2>3, <2>4, <2>5, <2>6, <2>7, <2>8 DEF Step
<1>7. CASE UNCHANGED vars
  <2>1. UNCHANGED job /\ UNCHANGED outbox /\ UNCHANGED effects /\ UNCHANGED camp /\ UNCHANGED chain
        /\ UNCHANGED worker
    BY <1>7 DEF vars
  <2>2. CalmStep
    BY <2>1, JobsSameCalm, CampsSame, RowsSameCalm, TurnsSameCalm, CalmIntro DEF BookInv
  <2> QED BY <2>2, CalmPreserves
<1> QED BY <1>1, <1>2, <1>3, <1>4, <1>5, <1>6, <1>7 DEF Next

LEMMA BookCorrect == Spec => []BookInv
<1>1. Init => BookInv
  BY BookInit
<1>2. TypeInv /\ TypeInv' /\ LaneInv /\ LaneInv' /\ NonceInv /\ BookInv /\ [Next]_vars => BookInv'
  BY BookNext
<1> QED BY <1>1, <1>2, TypeCorrect, LaneCorrect, NonceCorrect, PTL DEF Spec

\* Outside a signed transaction of the campaign, belief and chain agree.
LEMMA CustodyHolds == ASSUME NonceInv, BookInv PROVE CustodyTrue
<1> SUFFICES ASSUME NEW c \in Campaigns
             PROVE  /\ Minted(c) \in {Mined(c, "withdraw"), Mined(c, "withdraw") + 1}
                    /\ (\A r \in RowIds : outbox[r].status = "signed" => RowCamp(r) # c)
                         => (camp[c].state.nft <=> Minted(c) = Mined(c, "withdraw") + 1)
  BY DEF CustodyTrue, RowCamp
<1>1. Mined(c, "withdraw") \in Nat
  BY MinedNat
<1>2. CASE \A r \in RowIds :
             OpenRow(r) /\ chain.result[r] = "success" /\ RowCamp(r) = c
               => outbox[r].plan \notin {"mint", "withdraw"}
  <2>1. Minted(c) = Mined(c, "withdraw") + (IF camp[c].state.nft THEN 1 ELSE 0)
    BY <1>2 DEF BookInv, PositionInv
  <2> QED BY <1>1, <2>1
<1>3. CASE \E r \in RowIds :
             /\ OpenRow(r) /\ chain.result[r] = "success" /\ RowCamp(r) = c
             /\ outbox[r].plan \in {"mint", "withdraw"}
  <2>1. PICK r \in RowIds : /\ OpenRow(r) /\ chain.result[r] = "success" /\ RowCamp(r) = c
                            /\ outbox[r].plan \in {"mint", "withdraw"}
    BY <1>3
  <2>2. outbox[r].status = "signed"
    BY <2>1, MinedUsed
  <2>3. Minted(c) \in {Mined(c, "withdraw"), Mined(c, "withdraw") + 1}
    BY <2>1 DEF BookInv, PositionInv
  <2> QED BY <2>1, <2>2, <2>3
<1> QED BY <1>2, <1>3

(***************************************************************************)
(* A campaign's book is true, through recenters, converting exits,         *)
(* reverts, crashes and replays: reconcileStage books each receipt once,   *)
(* the planner never repeats an economic stage of a job, the stage keys    *)
(* that prepareStage inserts under are fresh, and the campaign believes in *)
(* a position exactly if the chain holds one.                              *)
(***************************************************************************)
THEOREM BookTrue == Spec => []CampaignTrue
<1>1. NonceInv /\ BookInv => CampaignTrue
  BY CustodyHolds DEF CampaignTrue, BookInv, KeyInv, DoneInv
<1> QED BY <1>1, NonceCorrect, BookCorrect, PTL

(***************************************************************************)
(* Campaigns that share the wallet keep apart: enqueueManagement and       *)
(* consumeReviewAndReserve leave a campaign one pending job, and           *)
(* releaseAllocation gives its capital back only when the campaign holds   *)
(* no position on the chain, no job and no transaction.                    *)
(***************************************************************************)
THEOREM SiblingsApart == Spec => []SiblingsSafe
<1>1. BookInv => SiblingsSafe
  BY DEF SiblingsSafe, BookInv, JobInv, ReleasedInv
<1> QED BY <1>1, BookCorrect, PTL

=============================================================================

----------------------- MODULE LiveWalletNonce_proofs -----------------------
(***************************************************************************)
(* Proofs about the nonces of the shared wallet, for any workers,          *)
(* campaigns and bounds:                                                   *)
(*                                                                         *)
(*   NonceSafe        a nonce is never spent twice, and the wallet is at   *)
(*                    most one mined transaction behind the chain.         *)
(*   PublishedSafe    what a node has accepted is a persisted, signed row, *)
(*                    and a row is attributed with the chain's verdict.    *)
(*   LaneImplemented  LiveWalletQueue implements NonceLane.                *)
(*                                                                         *)
(* The invariant NonceInv relates four records of one number: the nonce of *)
(* the open row, the wallet's next nonce, the chain's account nonce and    *)
(* the nonces in the mempool.  It rests on LaneInv (one open row at a      *)
(* time) and is preserved by every step; most steps leave its four parts   *)
(* alone (NonceFrame), the others have a lemma each.                       *)
(***************************************************************************)
EXTENDS LiveWalletQueue_proofs

SettledRow(r) == outbox[r].status \in {"confirmed", "reverted"}

\* The open row holds the wallet's nonce, and a settled row one below it.
RowNonceInv ==
  /\ \A r \in RowIds : OpenRow(r) => outbox[r].nonce = wallet.nonce
  /\ \A r \in RowIds : SettledRow(r) => outbox[r].nonce < wallet.nonce
  /\ \A q, r \in RowIds :
       SettledRow(q) /\ SettledRow(r) /\ outbox[q].nonce = outbox[r].nonce => q = r

\* The chain is ahead of the wallet exactly while a mined row is signed.
ChainNonceInv ==
  /\ wallet.nonce <= chain.nonce
  /\ chain.nonce > wallet.nonce =>
       \E r \in RowIds : outbox[r].status = "signed" /\ Canonical(r) /\ chain.nonce = wallet.nonce + 1
  /\ \A r \in RowIds : outbox[r].status = "signed" /\ Canonical(r) => chain.nonce = wallet.nonce + 1
  /\ \A r \in chain.mempool : chain.nonce <= outbox[r].nonce

\* A turn that is about to publish holds persisted bytes.
PublishInv ==
  \A w \in Workers : worker[w].pc \in {"confirming", "publish"} => SignedRaw(worker[w].row)

NonceInv == RowNonceInv /\ ChainNonceInv /\ PublishedIsPersisted /\ PublishInv

-----------------------------------------------------------------------------
(* The steps that leave the nonces alone.                                  *)

RowsKept ==
  \A r \in RowIds : outbox'[r].status = outbox[r].status /\ outbox'[r].nonce = outbox[r].nonce

TurnsPublish ==
  \A w \in Workers : worker'[w].pc \in {"confirming", "publish"} => SignedRaw(worker'[w].row)

LEMMA NonceInit == ASSUME Init PROVE NonceInv
<1>1. \A r \in RowIds : outbox[r].status = "none" /\ chain.result[r] = "none"
  BY DEF Init, NoRow
<1>2. wallet.nonce = 0 /\ chain.nonce = 0 /\ chain.mempool = {}
  BY DEF Init
<1>3. \A w \in Workers : worker[w].pc = "idle"
  BY DEF Init, IdleTurn
<1>4. RowNonceInv /\ ChainNonceInv
  BY <1>1, <1>2 DEF RowNonceInv, ChainNonceInv, OpenRow, SettledRow
<1>5. PublishedIsPersisted /\ PublishInv
  BY <1>1, <1>2, <1>3 DEF PublishedIsPersisted, PublishInv, Canonical
<1> QED BY <1>4, <1>5 DEF NonceInv

LEMMA NonceTypes ==
  ASSUME TypeInv
  PROVE  /\ wallet.nonce \in Nat /\ chain.nonce \in Nat /\ chain.mempool \subseteq RowIds
         /\ chain.result \in [RowIds -> {"none", "success", "reverted"}]
         /\ \A r \in RowIds : outbox[r].nonce \in Nat /\ outbox[r].status \in OutboxStatus
BY DEF TypeInv, TypeOK, WalletRow, ChainState, Row

LEMMA NonceFrame ==
  ASSUME TypeInv, TypeInv', NonceInv, UNCHANGED chain, wallet'.nonce = wallet.nonce,
         RowsKept, TurnsPublish
  PROVE  NonceInv'
<1>1. RowNonceInv'
  BY DEF NonceInv, RowNonceInv, RowsKept, OpenRow, SettledRow
<1>2. ChainNonceInv'
  <2>1. \A r \in RowIds : Canonical(r)' <=> Canonical(r)
    BY DEF Canonical
  <2>2. \A r \in chain'.mempool : chain'.nonce <= outbox'[r].nonce
    BY NonceTypes DEF NonceInv, ChainNonceInv, RowsKept
  <2>3. wallet'.nonce <= chain'.nonce
    BY DEF NonceInv, ChainNonceInv
  <2>4. chain'.nonce > wallet'.nonce =>
          \E r \in RowIds : outbox'[r].status = "signed" /\ Canonical(r)' /\ chain'.nonce = wallet'.nonce + 1
    BY <2>1 DEF NonceInv, ChainNonceInv, RowsKept
  <2>5. \A r \in RowIds : outbox'[r].status = "signed" /\ Canonical(r)' => chain'.nonce = wallet'.nonce + 1
    BY <2>1 DEF NonceInv, ChainNonceInv, RowsKept
  <2> QED BY <2>2, <2>3, <2>4, <2>5 DEF ChainNonceInv
<1>3. PublishedIsPersisted'
  BY DEF NonceInv, PublishedIsPersisted, RowsKept, SignedRaw, Canonical, Outcome
<1>4. PublishInv'
  <2> SUFFICES ASSUME NEW w \in Workers, worker'[w].pc \in {"confirming", "publish"}
               PROVE  SignedRaw(worker[w].row)'
    BY DEF PublishInv
  <2>1. worker'[w].row \in RowIds
    BY DEF TypeInv, TurnsOK, Turning, RowPCs
  <2> QED BY <2>1 DEF TurnsPublish, SignedRaw, RowsKept
<1> QED BY <1>1, <1>2, <1>3, <1>4 DEF NonceInv

LEMMA KeptSame == ASSUME UNCHANGED outbox PROVE RowsKept
BY DEF RowsKept

LEMMA PublishSame == ASSUME NonceInv, UNCHANGED worker PROVE TurnsPublish
BY DEF NonceInv, PublishInv, TurnsPublish

LEMMA PublishOther ==
  ASSUME TypeInv, NonceInv, NEW w \in Workers, NEW t, worker' = [worker EXCEPT ![w] = t],
         t.pc \in {"confirming", "publish"} => SignedRaw(t.row)
  PROVE  TurnsPublish
<1>1. worker'[w] = t /\ \A u \in Workers : u # w => worker'[u] = worker[u]
  BY DEF TypeInv, TypeOK
<1> QED BY <1>1 DEF NonceInv, PublishInv, TurnsPublish

LEMMA PublishGoto ==
  ASSUME TypeInv, NonceInv, NEW w \in Workers, NEW pc \in PCs, Goto(w, pc),
         pc \in {"confirming", "publish"} => SignedRaw(worker[w].row)
  PROVE  TurnsPublish
<1> DEFINE t == At(pc, worker[w].job, worker[w].row)
<1>1. t.pc = pc /\ t.row = worker[w].row
  BY DEF At, IdleTurn
<1>2. worker' = [worker EXCEPT ![w] = t]
  BY DEF Goto
<1> HIDE DEF t
<1> QED BY <1>1, <1>2, PublishOther

LEMMA PublishEndTurn == ASSUME TypeInv, NonceInv, NEW w \in Workers, EndTurn(w) PROVE TurnsPublish
<1>1. IdleTurn.pc = "idle"
  BY DEF IdleTurn
<1> QED BY <1>1, PublishOther DEF EndTurn

LEMMA PublishResume == ASSUME TypeInv, NonceInv, NEW w \in Workers, Resume(w) PROVE TurnsPublish
<1>1. Goto(w, "plan") \/ Goto(w, "effect") \/ Goto(w, "verify") \/ Goto(w, "raw")
  BY DEF Resume
<1> QED BY <1>1, PublishGoto DEF PCs

LEMMA PublishBegin ==
  ASSUME TypeInv, NonceInv, NEW w \in Workers, NEW j, BeginTurn(w, j)
  PROVE  TurnsPublish
<1>1. PICK r : worker' = [worker EXCEPT ![w] = [At("init", j, r) EXCEPT
                            !.seen = IF r = 0 THEN "none" ELSE outbox[r].status]]
  BY DEF BeginTurn
<1> DEFINE t == [At("init", j, r) EXCEPT !.seen = IF r = 0 THEN "none" ELSE outbox[r].status]
<1>2. t.pc = "init"
  BY DEF At, IdleTurn
<1>3. worker' = [worker EXCEPT ![w] = t]
  BY <1>1
<1> HIDE DEF t
<1> QED BY <1>2, <1>3, PublishOther

\* Steps of the operator, the manager, the clock and the maintenance, and claims.
LEMMA NonceOutside ==
  ASSUME TypeInv, TypeInv', NonceInv,
         Operator \/ Manager \/ Clock \/ Maintain \/ \E w \in Workers : Claim(w)
  PROVE  NonceInv' /\ RowsKept /\ wallet'.nonce = wallet.nonce /\ UNCHANGED chain
<1>1. UNCHANGED <<outbox, chain>>
  BY DEF Operator, DashboardRefresh, RecordReview, Reserve, CancelQueued, Manager, Enqueue, Replan,
         SafetyExit, Clock, LeaseExpire, ParkElapsed, Maintain, MaintenanceRefresh,
         RecoverOpening, RecoverClose, RecoverRelease, Claim, ClaimQueued, ClaimYield, ClaimActive
<1>2. wallet'.nonce = wallet.nonce
  <2>1. \/ UNCHANGED wallet
        \/ wallet' = [wallet EXCEPT !.gen = @ + 1]
        \/ wallet' = [wallet EXCEPT !.status = "available"]
    BY DEF Operator, DashboardRefresh, RecordReview, Reserve, CancelQueued, Manager, Enqueue, Replan,
           SafetyExit, Clock, LeaseExpire, ParkElapsed, Maintain, MaintenanceRefresh, ReleaseAllocation,
           RecoverOpening, RecoverClose, RecoverRelease, Claim, ClaimQueued, ClaimYield, ClaimActive
  <2> QED BY <2>1 DEF TypeInv, TypeOK, WalletRow
<1>3. TurnsPublish
  <2>1. ASSUME NEW w \in Workers, Claim(w) PROVE TurnsPublish
    BY <2>1, PublishBegin DEF Claim, ClaimQueued, ClaimYield, ClaimActive
  <2>2. CASE Operator \/ Manager \/ Clock \/ Maintain
    <3>1. UNCHANGED worker
      BY <2>2 DEF Operator, DashboardRefresh, RecordReview, Reserve, CancelQueued, Manager, Enqueue,
             Replan, SafetyExit, Clock, LeaseExpire, ParkElapsed, Maintain, MaintenanceRefresh,
             RecoverOpening, RecoverClose, RecoverRelease
    <3> QED BY <3>1, PublishSame
  <2> QED BY <2>1, <2>2
<1> QED BY <1>1, <1>2, <1>3, KeptSame, NonceFrame

\* Steps of a turn that write no status and no chain.
LEMMA NonceQuiet ==
  ASSUME TypeInv, TypeInv', NonceInv, NEW w \in Workers,
         \/ \E swap \in {"none", "todo"} : InitializeOpening(w, swap) \/ PrepareManagement(w, swap)
         \/ RejectReview(w) \/ ResumeEffect(w) \/ Plan(w) \/ PrepareRefused(w) \/ VerifyIntent(w)
         \/ Sign(w) \/ ReadRaw(w) \/ BeginPublish(w) \/ AwaitReceipt(w) \/ ReconcileNothing(w)
         \/ Settle(w) \/ Finish(w) \/ Lifecycle(w) \/ Release(w) \/ BlockTurn(w) \/ Failure(w)
  PROVE  NonceInv' /\ RowsKept /\ wallet'.nonce = wallet.nonce /\ UNCHANGED chain
<1>1. UNCHANGED chain
  BY DEF InitializeOpening, PrepareManagement, RejectReview, ResumeEffect, Plan, PrepareRefused,
         VerifyIntent, Sign, ReadRaw, BeginPublish, AwaitReceipt, ReconcileNothing, Settle, Finish,
         Lifecycle, Release, BlockTurn, Failure, PlanError, IntentExpired, Fail, Crash
<1>2. wallet'.nonce = wallet.nonce
  <2>1. \/ UNCHANGED wallet
        \/ wallet' = [wallet EXCEPT !.gen = @ + 1]
        \/ wallet' = [wallet EXCEPT !.status = RefreshedStatus(w)]
    BY DEF InitializeOpening, PrepareManagement, RejectReview, ResumeEffect, Plan, PrepareRefused,
           VerifyIntent, Sign, ReadRaw, BeginPublish, AwaitReceipt, ReconcileNothing, Settle, Finish,
           Lifecycle, Release, ReleaseAllocation, BlockTurn, Failure, PlanError, IntentExpired, Fail, Crash
  <2> QED BY <2>1 DEF TypeInv, TypeOK, WalletRow
<1>3. RowsKept
  <2>1. CASE UNCHANGED outbox
    BY <2>1, KeptSame
  <2>2. CASE \E c : \E r \in RowIds : outbox' = [outbox EXCEPT ![r].cleanup = c]
    BY <2>2 DEF RowsKept, TypeInv, TypeOK, Row
  <2>3. Finish(w) => UNCHANGED outbox \/ \E c : \E r \in RowIds : outbox' = [outbox EXCEPT ![r].cleanup = c]
    BY DEF Finish, Rows
  <2> QED BY <2>1, <2>2, <2>3
          DEF InitializeOpening, PrepareManagement, RejectReview, ResumeEffect, Plan, PrepareRefused,
              VerifyIntent, Sign, ReadRaw, BeginPublish, AwaitReceipt, ReconcileNothing, Settle,
              Lifecycle, Release, BlockTurn, Failure, PlanError, IntentExpired, Fail, Crash
<1>4. TurnsPublish
  <2>1. ASSUME NEW pc \in PCs \ {"confirming", "publish"}, Goto(w, pc) PROVE TurnsPublish
    BY <2>1, PublishGoto
  <2>2. CASE EndTurn(w)
    BY <2>2, PublishEndTurn
  <2>3. CASE Resume(w)
    BY <2>3, PublishResume
  <2>4. CASE Plan(w)
    <3> DEFINE t == [At("prepare", worker[w].job, worker[w].row) EXCEPT
                       !.plan = NextStage(StateOf(w), chain.allowance, Shared(CampOf(w))),
                       !.rev = camp[CampOf(w)].rev,
                       !.retry = Retries(worker[w].job), !.nonce = wallet.nonce]
    <3>1. \/ Goto(w, "block") \/ Goto(w, "finish")
          \/ worker' = [worker EXCEPT ![w] = t]
      BY <2>4 DEF Plan
    <3>2. t.pc = "prepare"
      BY DEF At, IdleTurn
    <3> HIDE DEF t
    <3>3. CASE worker' = [worker EXCEPT ![w] = t]
      BY <3>2, <3>3, PublishOther
    <3> QED BY <2>1, <3>1, <3>3 DEF PCs
  <2>5. CASE ReadRaw(w)
    <3>1. \/ Goto(w, "block") \/ Goto(w, "reconcile")
          \/ Goto(w, "confirming") /\ SignedRaw(worker[w].row)
      BY <2>5 DEF ReadRaw
    <3> QED BY <2>1, <3>1, PublishGoto DEF PCs
  <2>6. CASE BeginPublish(w)
    <3>1. SignedRaw(worker[w].row)
      BY <2>6 DEF BeginPublish, NonceInv, PublishInv
    <3> QED BY <2>6, <3>1, PublishGoto DEF BeginPublish, PCs
  <2>7. CASE ResumeEffect(w) \/ RejectReview(w) \/ PrepareRefused(w) \/ VerifyIntent(w) \/ Sign(w)
    BY <2>1, <2>2, <2>7 DEF ResumeEffect, RejectReview, PrepareRefused, VerifyIntent, Sign, PCs
  <2>8. CASE AwaitReceipt(w) \/ ReconcileNothing(w) \/ Settle(w)
    BY <2>1, <2>2, <2>8 DEF AwaitReceipt, ReconcileNothing, Settle, PCs
  <2>9. CASE Finish(w) \/ Lifecycle(w) \/ Release(w) \/ BlockTurn(w)
    BY <2>1, <2>2, <2>9 DEF Finish, Lifecycle, Release, BlockTurn, PCs
  <2>10. CASE Failure(w)
    BY <2>1, <2>2, <2>10 DEF Failure, PlanError, IntentExpired, Fail, Crash, PCs
  <2> QED BY <2>3, <2>4, <2>5, <2>6, <2>7, <2>8, <2>9, <2>10 DEF InitializeOpening, PrepareManagement
<1> QED BY <1>1, <1>2, <1>3, <1>4, NonceFrame

-----------------------------------------------------------------------------
(* The steps that move a row or the chain.                                 *)

\* The freeze: the new row takes the wallet's nonce.
LEMMA NoncePrepare ==
  ASSUME TypeInv, TypeInv', LaneInv, LaneInv', NonceInv, NEW w \in Workers, PrepareStage(w)
  PROVE  NonceInv'
<1>1. PICK r \in RowIds :
        /\ outbox[r].status = "none"
        /\ outbox' = [outbox EXCEPT ![r] =
             [job |-> worker[w].job, plan |-> worker[w].plan, rev |-> worker[w].rev,
              retry |-> worker[w].retry, nonce |-> worker[w].nonce, gen |-> wallet.gen,
              exit |-> ExitPermission(StateOf(w), JobOf(w).kind),
              status |-> "prepared", cleanup |-> "none"]]
        /\ worker' = [worker EXCEPT ![w] = At("verify", worker[w].job, r)]
  BY DEF PrepareStage, FreshRow
<1>2. /\ outbox'[r].status = "prepared" /\ outbox'[r].nonce = wallet.nonce
      /\ \A q \in RowIds : q # r => outbox'[q] = outbox[q]
  BY <1>1 DEF PrepareStage, CanPrepare, TypeInv, TypeOK
<1>3. UNCHANGED <<wallet, chain>>
  BY DEF PrepareStage
<1>4. r \notin chain.mempool /\ chain.result[r] = "none"
  BY <1>1 DEF NonceInv, PublishedIsPersisted, SignedRaw, Canonical
<1>5. RowNonceInv'
  BY <1>1, <1>2, <1>3 DEF NonceInv, RowNonceInv, OpenRow, SettledRow
<1>6. ChainNonceInv'
  <2>1. \A q \in RowIds : outbox'[q].status = "signed" <=> outbox[q].status = "signed"
    BY <1>1, <1>2
  <2>2. \A q \in chain.mempool : outbox'[q] = outbox[q]
    BY <1>2, <1>4, NonceTypes
  <2> QED BY <1>3, <2>1, <2>2 DEF NonceInv, ChainNonceInv, Canonical
<1>7. PublishedIsPersisted'
  BY <1>2, <1>3, <1>4 DEF NonceInv, PublishedIsPersisted, SignedRaw, Canonical, Outcome
<1>8. PublishInv'
  <2>1. TurnsPublish
    <3>1. At("verify", worker[w].job, r).pc = "verify"
      BY DEF At, IdleTurn
    <3> QED BY <1>1, <3>1, PublishOther
  <2> SUFFICES ASSUME NEW u \in Workers, worker'[u].pc \in {"confirming", "publish"}
               PROVE  SignedRaw(worker[u].row)'
    BY DEF PublishInv
  <2>2. worker'[u].row \in RowIds /\ SignedRaw(worker'[u].row)
    BY <2>1 DEF TypeInv, TurnsOK, Turning, RowPCs, TurnsPublish
  <2>3. worker'[u].row # r
    BY <1>1, <2>2 DEF SignedRaw
  <2> QED BY <1>2, <2>2, <2>3 DEF SignedRaw
<1> QED BY <1>5, <1>6, <1>7, <1>8 DEF NonceInv

\* A change of the turn's own row; the turn goes to no publishing step.
LEMMA NonceRowSet ==
  ASSUME TypeInv, NEW r \in RowIds, NEW s, outbox' = [outbox EXCEPT ![r].status = s]
  PROVE  /\ outbox'[r].status = s /\ outbox'[r].nonce = outbox[r].nonce
         /\ \A q \in RowIds : q # r => outbox'[q] = outbox[q]
BY DEF TypeInv, TypeOK, Row

LEMMA PublishForward ==
  ASSUME TypeInv', TurnsPublish, \A r \in RowIds : SignedRaw(r) => SignedRaw(r)'
  PROVE  PublishInv'
<1> SUFFICES ASSUME NEW w \in Workers, worker'[w].pc \in {"confirming", "publish"}
             PROVE  SignedRaw(worker[w].row)'
  BY DEF PublishInv
<1>1. worker'[w].row \in RowIds
  BY DEF TypeInv, TurnsOK, Turning, RowPCs
<1> QED BY <1>1 DEF TurnsPublish, SignedRaw

\* An unsigned intent is cancelled: nothing of it is known to any node.
LEMMA NonceCancel ==
  ASSUME TypeInv, TypeInv', NonceInv, NEW w \in Workers, CancelPrepared(w)
  PROVE  NonceInv'
<1> DEFINE r == worker[w].row
<1>1. r \in RowIds
  BY DEF CancelPrepared, TypeInv, TurnsOK, Turning, RowPCs
<1>2. TurnsPublish /\ UNCHANGED <<wallet, chain>>
  BY PublishGoto DEF CancelPrepared, PCs
<1>3. CASE UNCHANGED outbox
  BY <1>2, <1>3, KeptSame, NonceFrame
<1>4. CASE outbox[r].status = "prepared" /\ outbox' = [outbox EXCEPT ![r].status = "cancelled"]
  <2> HIDE DEF r
  <2>1. /\ outbox'[r].status = "cancelled" /\ outbox'[r].nonce = outbox[r].nonce
        /\ \A q \in RowIds : q # r => outbox'[q] = outbox[q]
    BY <1>1, <1>4, NonceRowSet
  <2>2. r \notin chain.mempool /\ chain.result[r] = "none"
    BY <1>1, <1>4 DEF NonceInv, PublishedIsPersisted, SignedRaw, Canonical
  <2>3. RowNonceInv'
    BY <1>2, <2>1 DEF NonceInv, RowNonceInv, OpenRow, SettledRow
  <2>4. ChainNonceInv'
    <3>1. \A q \in RowIds : outbox'[q].status = "signed" <=> outbox[q].status = "signed"
      BY <1>4, <2>1
    <3>2. \A q \in chain.mempool : outbox'[q] = outbox[q]
      BY <2>1, <2>2, NonceTypes
    <3> QED BY <1>2, <3>1, <3>2 DEF NonceInv, ChainNonceInv, Canonical
  <2>5. PublishedIsPersisted'
    BY <1>2, <2>1, <2>2 DEF NonceInv, PublishedIsPersisted, SignedRaw, Canonical, Outcome
  <2>6. PublishInv'
    BY <1>2, <1>4, <2>1, PublishForward DEF SignedRaw
  <2> QED BY <2>3, <2>4, <2>5, <2>6 DEF NonceInv
<1> QED BY <1>3, <1>4 DEF CancelPrepared, CanCancel, RowOf

\* Bytes are recorded: the row was not on the chain while it was only prepared.
LEMMA NonceRecord ==
  ASSUME TypeInv, TypeInv', NonceInv, NEW w \in Workers, RecordSigned(w)
  PROVE  NonceInv'
<1> DEFINE r == worker[w].row
<1>1. r \in RowIds
  BY DEF RecordSigned, TypeInv, TurnsOK, Turning, RowPCs
<1>2. TurnsPublish /\ UNCHANGED <<wallet, chain>>
  BY PublishGoto DEF RecordSigned, PCs
<1>3. CASE UNCHANGED outbox
  BY <1>2, <1>3, KeptSame, NonceFrame
<1>4. CASE outbox[r].status \in {"prepared", "signed"} /\ outbox' = [outbox EXCEPT ![r].status = "signed"]
  <2> HIDE DEF r
  <2>1. /\ outbox'[r].status = "signed" /\ outbox'[r].nonce = outbox[r].nonce
        /\ \A q \in RowIds : q # r => outbox'[q] = outbox[q]
    BY <1>1, <1>4, NonceRowSet
  <2>2. CASE outbox[r].status = "signed"
    <3>1. RowsKept
      BY <2>1, <2>2 DEF RowsKept
    <3> QED BY <1>2, <3>1, NonceFrame
  <2>3. CASE outbox[r].status = "prepared"
    <3>1. r \notin chain.mempool /\ chain.result[r] = "none"
      BY <1>1, <2>3 DEF NonceInv, PublishedIsPersisted, SignedRaw, Canonical
    <3>2. RowNonceInv'
      BY <1>2, <2>1, <2>3 DEF NonceInv, RowNonceInv, OpenRow, SettledRow
    <3>3. ChainNonceInv'
      <4>1. \A q \in RowIds : outbox[q].status = "signed" => outbox'[q].status = "signed"
        BY <2>1
      <4>2. \A q \in RowIds : outbox'[q].status = "signed" /\ Canonical(q) => outbox[q].status = "signed"
        BY <2>1, <3>1 DEF Canonical
      <4>3. \A q \in chain.mempool : outbox'[q] = outbox[q]
        BY <2>1, <3>1, NonceTypes
      <4> QED BY <1>2, <4>1, <4>2, <4>3 DEF NonceInv, ChainNonceInv, Canonical
    <3>4. PublishedIsPersisted'
      BY <1>2, <2>1, <3>1 DEF NonceInv, PublishedIsPersisted, SignedRaw, Canonical, Outcome
    <3>5. PublishInv'
      BY <1>2, <2>1, PublishForward DEF SignedRaw
    <3> QED BY <3>2, <3>3, <3>4, <3>5 DEF NonceInv
  <2> QED BY <1>4, <2>2, <2>3
<1> QED BY <1>3, <1>4 DEF RecordSigned, CanRecord, RowOf

\* The attribution: the wallet catches up with the chain.
LEMMA NonceReconcile ==
  ASSUME TypeInv, TypeInv', LaneInv, NonceInv, NEW w \in Workers, Reconcile(w)
  PROVE  /\ NonceInv'
         /\ outbox[worker[w].row].status = "signed"
         /\ outbox'[worker[w].row].status \in {"confirmed", "reverted"}
         /\ \A q \in RowIds \ {worker[w].row} : outbox'[q] = outbox[q]
         /\ chain.nonce = wallet.nonce + 1 /\ wallet'.nonce = chain.nonce
<1>0. PICK r \in RowIds : r = worker[w].row
  BY DEF Reconcile, TypeInv, TurnsOK, Turning, RowPCs
<1> DEFINE outcome == chain.result[r]
<1>1. outbox[r].status = "signed" /\ outcome \in {"success", "reverted"}
  BY <1>0, NonceTypes DEF Reconcile, CanReconcile, RowOf, Canonical, TypeInv, TurnsOK, Turning, RowPCs
<1>2. TurnsPublish /\ UNCHANGED chain
  BY PublishGoto DEF Reconcile, PCs
<1> DEFINE s == IF outcome = "success" THEN "confirmed" ELSE "reverted"
<1>3. outbox' = [outbox EXCEPT ![r].status = s] /\ wallet'.nonce = outbox[r].nonce + 1
  BY <1>0 DEF Reconcile, Verdict, ReceiptWallet
<1>4. s \in {"confirmed", "reverted"}
  OBVIOUS
<1>5. /\ outbox'[r].status = s /\ outbox'[r].nonce = outbox[r].nonce
      /\ \A q \in RowIds : q # r => outbox'[q] = outbox[q]
  <2> HIDE DEF s
  <2> QED BY <1>3, NonceRowSet
<1>6. Canonical(r) /\ outbox[r].nonce = wallet.nonce /\ chain.nonce = wallet.nonce + 1
  BY <1>0, <1>1 DEF Reconcile, CanReconcile, NonceInv, RowNonceInv, ChainNonceInv, OpenRow
<1>7. wallet'.nonce = chain.nonce /\ chain'.nonce = chain.nonce
  BY <1>2, <1>3, <1>6
<1>8. \A q \in RowIds : ~OpenRow(q)'
  <2>1. \A q \in RowIds : OpenRow(q) => q = r
    BY <1>1 DEF LaneInv, OneLane, OpenRow
  <2> QED BY <1>4, <1>5, <2>1 DEF OpenRow
<1>9. RowNonceInv'
  <2>1. \A q \in RowIds : SettledRow(q)' /\ q # r => SettledRow(q) /\ outbox'[q].nonce = outbox[q].nonce
    BY <1>5 DEF SettledRow
  <2>2. \A q \in RowIds : SettledRow(q) => outbox[q].nonce < wallet.nonce /\ outbox[q].nonce \in Nat
    BY NonceTypes DEF NonceInv, RowNonceInv
  <2>3. wallet.nonce \in Nat /\ outbox'[r].nonce = wallet.nonce /\ wallet'.nonce = wallet.nonce + 1
    BY <1>5, <1>6, <1>7, NonceTypes
  <2>4. \A q \in RowIds : SettledRow(q)' => outbox'[q].nonce < wallet'.nonce
    BY <2>1, <2>2, <2>3
  <2>5. ASSUME NEW p \in RowIds, NEW q \in RowIds, SettledRow(p)', SettledRow(q)',
               outbox'[p].nonce = outbox'[q].nonce
        PROVE  p = q
    <3>1. CASE p # r /\ q # r
      BY <2>1, <2>5, <3>1 DEF NonceInv, RowNonceInv
    <3>2. CASE p = r /\ q # r
      BY <2>1, <2>2, <2>3, <2>5, <3>2
    <3>3. CASE p # r /\ q = r
      BY <2>1, <2>2, <2>3, <2>5, <3>3
    <3> QED BY <3>1, <3>2, <3>3
  <2> QED BY <1>8, <2>4, <2>5 DEF RowNonceInv
<1>10. ChainNonceInv'
  <2>1. \A q \in RowIds : outbox'[q].status # "signed"
    BY <1>8 DEF OpenRow
  <2>2. \A q \in RowIds : outbox'[q].nonce = outbox[q].nonce
    BY <1>5
  <2>3. \A q \in chain.mempool : chain.nonce <= outbox'[q].nonce
    BY <2>2, NonceTypes DEF NonceInv, ChainNonceInv
  <2>4. chain.nonce \in Nat
    BY NonceTypes
  <2> QED BY <1>2, <1>7, <2>1, <2>3, <2>4 DEF ChainNonceInv
<1>11. PublishedIsPersisted'
  <2>1. \A q \in RowIds : SignedRaw(q) => SignedRaw(q)'
    BY <1>4, <1>5 DEF SignedRaw
  <2>2. \A q \in RowIds : q \in chain'.mempool \/ Canonical(q)' => SignedRaw(q)'
    BY <1>2, <2>1 DEF NonceInv, PublishedIsPersisted, Canonical
  <2>3. outbox'[r].status \in {"confirmed", "reverted"} => chain'.result[r] = Outcome(r)'
    BY <1>1, <1>2, <1>5 DEF Outcome
  <2>4. \A q \in RowIds \ {r} :
          outbox'[q].status \in {"confirmed", "reverted"} => chain'.result[q] = Outcome(q)'
    BY <1>2, <1>5 DEF NonceInv, PublishedIsPersisted, Outcome
  <2> QED BY <2>2, <2>3, <2>4 DEF PublishedIsPersisted
<1>12. PublishInv'
  BY <1>2, <1>4, <1>5, PublishForward DEF SignedRaw
<1> QED BY <1>0, <1>1, <1>4, <1>5, <1>6, <1>7, <1>9, <1>10, <1>11, <1>12 DEF NonceInv

\* A node accepts only persisted bytes whose nonce is open.
LEMMA NoncePublish ==
  ASSUME TypeInv, TypeInv', NonceInv, NEW w \in Workers, Publish(w)
  PROVE  NonceInv'
<1>0. PICK r \in RowIds : r = worker[w].row
  BY DEF Publish, TypeInv, TurnsOK, Turning, RowPCs
<1>1. SignedRaw(r)
  BY <1>0 DEF Publish, NonceInv, PublishInv
<1>2. UNCHANGED <<outbox, wallet>>
  BY DEF Publish
<1>3. TurnsPublish
  BY PublishGoto DEF Publish, PCs
<1>4. CASE UNCHANGED chain
  BY <1>2, <1>3, <1>4, KeptSame, NonceFrame
<1>5. CASE outbox[r].nonce >= chain.nonce /\ chain' = [chain EXCEPT !.mempool = @ \union {r}]
  <2>1. /\ chain'.nonce = chain.nonce /\ chain'.result = chain.result
        /\ chain'.mempool = chain.mempool \union {r}
    BY <1>5 DEF TypeInv, TypeOK, ChainState
  <2>2. RowNonceInv'
    BY <1>2 DEF NonceInv, RowNonceInv, OpenRow, SettledRow
  <2>3. ChainNonceInv'
    <3>1. \A q \in chain'.mempool : chain'.nonce <= outbox'[q].nonce
      BY <1>2, <1>5, <2>1, NonceTypes DEF NonceInv, ChainNonceInv
    <3> QED BY <1>2, <2>1, <3>1 DEF NonceInv, ChainNonceInv, Canonical
  <2>4. PublishedIsPersisted'
    BY <1>1, <1>2, <2>1 DEF NonceInv, PublishedIsPersisted, SignedRaw, Canonical, Outcome
  <2>5. PublishInv'
    BY <1>2, <1>3, PublishForward DEF SignedRaw
  <2> QED BY <2>2, <2>3, <2>4, <2>5 DEF NonceInv
<1> QED BY <1>0, <1>4, <1>5 DEF Publish, RowOf

\* The mined transaction is the signed one, at the wallet's nonce.
LEMMA NonceMine ==
  ASSUME TypeInv, TypeInv', LaneInv, NonceInv, NEW r \in RowIds, Mine(r)
  PROVE  /\ NonceInv'
         /\ outbox[r].status = "signed"
         /\ chain.nonce = wallet.nonce /\ chain'.nonce = chain.nonce + 1
<1>1. r \in chain.mempool /\ outbox[r].nonce = chain.nonce
  BY DEF Mine
<1>2. PICK outcome \in {"success", "reverted"} :
        chain' = [nonce |-> chain.nonce + 1,
                  mempool |-> {q \in chain.mempool : outbox[q].nonce > chain.nonce},
                  result |-> [chain.result EXCEPT ![r] = outcome],
                  allowance |-> AllowanceAfter(outbox[r].plan, outcome)]
  BY DEF Mine
<1>3. /\ chain'.nonce = chain.nonce + 1
      /\ chain'.mempool = {q \in chain.mempool : outbox[q].nonce > chain.nonce}
      /\ chain'.result[r] = outcome
      /\ \A q \in RowIds : q # r => chain'.result[q] = chain.result[q]
  BY <1>2, NonceTypes
<1>4. UNCHANGED <<outbox, wallet, worker>>
  BY DEF Mine
<1>5. SignedRaw(r)
  BY <1>1 DEF NonceInv, PublishedIsPersisted
<1>6. outbox[r].status = "signed"
  <2>1. SettledRow(r) => outbox[r].nonce < wallet.nonce
    BY DEF NonceInv, RowNonceInv
  <2>2. wallet.nonce <= chain.nonce
    BY DEF NonceInv, ChainNonceInv
  <2>3. ~SettledRow(r)
    BY <1>1, <2>1, <2>2, NonceTypes
  <2> QED BY <1>5, <2>3 DEF SignedRaw, SettledRow
<1>7. chain.nonce = wallet.nonce
  BY <1>1, <1>6 DEF NonceInv, RowNonceInv, OpenRow
<1>8. RowNonceInv'
  BY <1>4 DEF NonceInv, RowNonceInv, OpenRow, SettledRow
<1>9. ChainNonceInv'
  <2>1. chain'.nonce = wallet'.nonce + 1 /\ chain'.nonce \in Nat /\ wallet'.nonce \in Nat
    BY <1>3, <1>4, <1>7, NonceTypes
  <2>2. outbox'[r].status = "signed" /\ Canonical(r)'
    BY <1>3, <1>4, <1>6 DEF Canonical
  <2>3. \A q \in chain'.mempool : chain'.nonce <= outbox'[q].nonce
    BY <1>3, <1>4, NonceTypes
  <2> QED BY <2>1, <2>2, <2>3 DEF ChainNonceInv
<1>10. PublishedIsPersisted'
  <2>1. \A q \in RowIds : q \in chain'.mempool \/ Canonical(q)' => SignedRaw(q)'
    BY <1>3, <1>4, <1>5 DEF NonceInv, PublishedIsPersisted, Canonical, SignedRaw
  <2>2. \A q \in RowIds : outbox'[q].status \in {"confirmed", "reverted"} => chain'.result[q] = Outcome(q)'
    <3> SUFFICES ASSUME NEW q \in RowIds, outbox'[q].status \in {"confirmed", "reverted"}
                 PROVE  chain'.result[q] = Outcome(q)'
      OBVIOUS
    <3>1. q # r
      BY <1>4, <1>6
    <3> QED BY <1>3, <1>4, <3>1 DEF NonceInv, PublishedIsPersisted, Outcome
  <2> QED BY <2>1, <2>2 DEF PublishedIsPersisted
<1>11. PublishInv'
  <2>1. TurnsPublish
    BY <1>4, PublishSame
  <2> QED BY <1>4, <2>1, PublishForward DEF SignedRaw
<1> QED BY <1>3, <1>6, <1>7, <1>8, <1>9, <1>10, <1>11 DEF NonceInv

LEMMA NonceDrop ==
  ASSUME TypeInv, TypeInv', NonceInv, NEW r \in RowIds, Drop(r)
  PROVE  NonceInv' /\ chain'.nonce = chain.nonce
<1>1. /\ chain'.nonce = chain.nonce /\ chain'.result = chain.result
      /\ chain'.mempool \subseteq chain.mempool
  BY DEF Drop, TypeInv, TypeOK, ChainState
<1>2. UNCHANGED <<outbox, wallet, worker>>
  BY DEF Drop
<1>3. RowNonceInv'
  BY <1>2 DEF NonceInv, RowNonceInv, OpenRow, SettledRow
<1>4. ChainNonceInv'
  BY <1>1, <1>2 DEF NonceInv, ChainNonceInv, Canonical
<1>5. PublishedIsPersisted'
  BY <1>1, <1>2 DEF NonceInv, PublishedIsPersisted, SignedRaw, Canonical, Outcome
<1>6. PublishInv'
  BY <1>2 DEF NonceInv, PublishInv, SignedRaw
<1> QED BY <1>1, <1>3, <1>4, <1>5, <1>6 DEF NonceInv

LEMMA NonceNext ==
  ASSUME TypeInv, TypeInv', LaneInv, LaneInv', NonceInv, [Next]_vars
  PROVE  NonceInv'
<1>1. ASSUME NEW w \in Workers, Step(w) PROVE NonceInv'
  BY <1>1, NonceQuiet, NoncePrepare, NonceCancel, NonceRecord, NoncePublish, NonceReconcile DEF Step
<1>2. ASSUME NEW w \in Workers, Failure(w) PROVE NonceInv'
  BY <1>2, NonceQuiet
<1>3. CASE Network
  BY <1>3, NonceMine, NonceDrop DEF Network
<1>4. CASE UNCHANGED vars
  <2>1. UNCHANGED <<chain, wallet, outbox, worker>>
    BY <1>4 DEF vars
  <2> QED BY <2>1, KeptSame, PublishSame, NonceFrame
<1> QED BY <1>1, <1>2, <1>3, <1>4, NonceOutside DEF Next

LEMMA NonceCorrect == Spec => []NonceInv
<1>1. Init => NonceInv
  BY NonceInit
<1>2. TypeInv /\ TypeInv' /\ LaneInv /\ LaneInv' /\ NonceInv /\ [Next]_vars => NonceInv'
  BY NonceNext
<1> QED BY <1>1, <1>2, TypeCorrect, LaneCorrect, PTL DEF Spec

(***************************************************************************)
(* prepareStage, cancelPrepared, recordSigned, publishRaw and reconcile-   *)
(* Stage never spend a nonce twice: rows that were not cancelled have      *)
(* different nonces, the unresolved row holds the wallet's next one, and   *)
(* the wallet is at most one mined, still signed, row behind the chain,    *)
(* whatever turns stall, crash, race or publish again.                     *)
(***************************************************************************)
THEOREM NonceSafe == Spec => []NonceUsedOnce
<1>1. TypeInv /\ LaneInv /\ NonceInv => NonceUsedOnce
  <2> SUFFICES ASSUME TypeInv, LaneInv, NonceInv PROVE NonceUsedOnce
    OBVIOUS
  <2>1. \A r \in RowIds : outbox[r].status \notin {"none", "cancelled"} => OpenRow(r) \/ SettledRow(r)
    BY NonceTypes DEF OutboxStatus, OpenRow, SettledRow
  <2>2. ASSUME NEW q \in RowIds, NEW r \in RowIds,
               outbox[q].status \notin {"none", "cancelled"},
               outbox[r].status \notin {"none", "cancelled"}, outbox[q].nonce = outbox[r].nonce
        PROVE  q = r
    <3>1. CASE OpenRow(q) /\ OpenRow(r)
      BY <3>1 DEF LaneInv, OneLane, OpenRow
    <3>2. CASE SettledRow(q) /\ SettledRow(r)
      BY <2>2, <3>2 DEF NonceInv, RowNonceInv
    <3>3. CASE (OpenRow(q) /\ SettledRow(r)) \/ (SettledRow(q) /\ OpenRow(r))
      BY <2>2, <3>3, NonceTypes DEF NonceInv, RowNonceInv
    <3> QED BY <2>1, <2>2, <3>1, <3>2, <3>3
  <2> QED BY <2>2 DEF NonceInv, RowNonceInv, ChainNonceInv, NonceUsedOnce, OpenRow
<1> QED BY <1>1, TypeCorrect, LaneCorrect, NonceCorrect, PTL

(***************************************************************************)
(* Whatever a node accepts or the chain includes is a row whose bytes were *)
(* recorded before they left: a cancelled intent is never published, and   *)
(* reconcileStage attributes a row with the verdict of its own receipt.    *)
(***************************************************************************)
THEOREM PublishedSafe == Spec => []PublishedIsPersisted
<1>1. NonceInv => PublishedIsPersisted
  BY DEF NonceInv
<1> QED BY <1>1, NonceCorrect, PTL

-----------------------------------------------------------------------------
(* The lane of one nonce at a time, step by step.                          *)

LEMMA PhaseOf ==
  ASSUME TypeInv, LaneInv
  PROVE  /\ LanePhase = "free" <=> \A r \in RowIds : ~OpenRow(r)
         /\ LanePhase = "frozen" <=> \E r \in RowIds : outbox[r].status = "prepared"
         /\ LanePhase = "committed" <=> \E r \in RowIds : outbox[r].status = "signed"
         /\ LanePhase \in {"free", "frozen", "committed"}
BY DEF LanePhase, OpenRow, LaneInv, OneLane

LEMMA PhaseKept ==
  ASSUME RowsKept
  PROVE  LanePhase' = LanePhase
BY DEF RowsKept, LanePhase

\* A step that keeps the rows, the wallet's nonce and the chain's is a stutter of the lane.
LEMMA LaneStutter ==
  ASSUME RowsKept, wallet'.nonce = wallet.nonce, chain'.nonce = chain.nonce
  PROVE  UNCHANGED Lane!vars
BY PhaseKept DEF Lane!vars

LEMMA LaneFreeze ==
  ASSUME TypeInv, LaneInv, LaneInv', TypeInv', NEW w \in Workers, PrepareStage(w)
  PROVE  Lane!Freeze
<1>1. PICK r \in RowIds : outbox[r].status = "none" /\ \E v : v.status = "prepared" /\ outbox' = [outbox EXCEPT ![r] = v]
  BY DEF PrepareStage, FreshRow
<1>2. outbox'[r].status = "prepared" /\ \A q \in RowIds : q # r => outbox'[q] = outbox[q]
  BY <1>1 DEF TypeInv, TypeOK
<1>3. \A q \in RowIds : OpenRow(q)' => q = r
  BY <1>2 DEF LaneInv, OneLane, OpenRow
<1>4. \A q \in RowIds : ~OpenRow(q)
  BY <1>1, <1>2, <1>3 DEF OpenRow
<1>5. LanePhase = "free"
  BY <1>4, PhaseOf
<1>6. LanePhase' = "frozen"
  BY <1>2, <1>3 DEF LanePhase, OpenRow
<1> QED BY <1>5, <1>6 DEF Lane!Freeze, PrepareStage

LEMMA LaneDiscard ==
  ASSUME TypeInv, LaneInv, NEW w \in Workers, CancelPrepared(w)
  PROVE  Lane!Discard \/ UNCHANGED Lane!vars
<1>0. PICK r \in RowIds : r = worker[w].row
  BY DEF CancelPrepared, TypeInv, TurnsOK, Turning, RowPCs
<1>1. UNCHANGED <<wallet, chain>>
  BY DEF CancelPrepared
<1>2. CASE UNCHANGED outbox
  BY <1>1, <1>2, KeptSame, LaneStutter
<1>3. CASE outbox[r].status = "prepared" /\ outbox' = [outbox EXCEPT ![r].status = "cancelled"]
  <2>1. /\ outbox'[r].status = "cancelled"
        /\ \A q \in RowIds : q # r => outbox'[q] = outbox[q]
    BY <1>3, NonceRowSet
  <2>2. \A q \in RowIds : OpenRow(q) => q = r
    BY <1>3 DEF LaneInv, OneLane, OpenRow
  <2>3. LanePhase = "frozen" /\ LanePhase' = "free"
    BY <1>3, <2>1, <2>2 DEF LanePhase, OpenRow
  <2> QED BY <1>1, <2>3 DEF Lane!Discard
<1> QED BY <1>0, <1>2, <1>3 DEF CancelPrepared, CanCancel, RowOf

LEMMA LaneCommit ==
  ASSUME TypeInv, LaneInv, NEW w \in Workers, RecordSigned(w)
  PROVE  Lane!Commit \/ UNCHANGED Lane!vars
<1>0. PICK r \in RowIds : r = worker[w].row
  BY DEF RecordSigned, TypeInv, TurnsOK, Turning, RowPCs
<1>1. UNCHANGED <<wallet, chain>>
  BY DEF RecordSigned
<1>2. CASE UNCHANGED outbox
  BY <1>1, <1>2, KeptSame, LaneStutter
<1>3. CASE OpenRow(r) /\ outbox' = [outbox EXCEPT ![r].status = "signed"]
  <2>1. /\ outbox'[r].status = "signed" /\ outbox'[r].nonce = outbox[r].nonce
        /\ \A q \in RowIds : q # r => outbox'[q] = outbox[q]
    BY <1>3, NonceRowSet
  <2>2. CASE outbox[r].status = "signed"
    <3>1. RowsKept
      BY <2>1, <2>2 DEF RowsKept
    <3> QED BY <1>1, <3>1, LaneStutter
  <2>3. CASE outbox[r].status = "prepared"
    <3>1. \A q \in RowIds : OpenRow(q) => q = r
      BY <1>3 DEF LaneInv, OneLane, OpenRow
    <3>2. LanePhase = "frozen" /\ LanePhase' = "committed"
      BY <2>1, <2>3, <3>1 DEF LanePhase, OpenRow
    <3> QED BY <1>1, <3>2 DEF Lane!Commit
  <2> QED BY <1>3, <2>2, <2>3 DEF OpenRow
<1> QED BY <1>0, <1>2, <1>3 DEF RecordSigned, CanRecord, RowOf, OpenRow

LEMMA LaneAttribute ==
  ASSUME TypeInv, TypeInv', LaneInv, NonceInv, NEW w \in Workers, Reconcile(w)
  PROVE  Lane!Attribute
<1>0. PICK r \in RowIds : r = worker[w].row
  BY DEF Reconcile, TypeInv, TurnsOK, Turning, RowPCs
<1>1. /\ outbox[r].status = "signed" /\ outbox'[r].status \in {"confirmed", "reverted"}
      /\ \A q \in RowIds \ {r} : outbox'[q] = outbox[q]
      /\ chain.nonce = wallet.nonce + 1 /\ wallet'.nonce = chain.nonce
  BY <1>0, NonceReconcile
<1>2. \A q \in RowIds : OpenRow(q) => q = r
  BY <1>1 DEF LaneInv, OneLane, OpenRow
<1>3. LanePhase = "committed" /\ LanePhase' = "free"
  BY <1>1, <1>2 DEF LanePhase, OpenRow
<1>4. (chain.nonce > wallet.nonce) /\ ~(chain'.nonce > wallet'.nonce)
  BY <1>1, NonceTypes DEF Reconcile
<1> QED BY <1>1, <1>3, <1>4 DEF Lane!Attribute

LEMMA LaneInclude ==
  ASSUME TypeInv, TypeInv', LaneInv, NonceInv, NEW r \in RowIds, Mine(r)
  PROVE  Lane!Include
<1>1. outbox[r].status = "signed" /\ chain.nonce = wallet.nonce /\ chain'.nonce = chain.nonce + 1
  BY NonceMine
<1>2. UNCHANGED <<outbox, wallet>>
  BY DEF Mine
<1>3. LanePhase = "committed" /\ LanePhase' = LanePhase
  BY <1>1, <1>2, KeptSame, PhaseKept DEF LanePhase
<1>4. ~(chain.nonce > wallet.nonce) /\ (chain'.nonce > wallet'.nonce)
  BY <1>1, <1>2, NonceTypes
<1> QED BY <1>2, <1>3, <1>4 DEF Lane!Include

LEMMA LaneStep ==
  ASSUME TypeInv, TypeInv', LaneInv, LaneInv', NonceInv, [Next]_vars
  PROVE  [Lane!Next]_(Lane!vars)
<1>1. ASSUME NEW w \in Workers, Step(w) PROVE [Lane!Next]_(Lane!vars)
  <2>1. CASE Publish(w)
    <3>1. UNCHANGED <<outbox, wallet>> /\ chain'.nonce = chain.nonce
      BY <2>1 DEF Publish, TypeInv, TypeOK, ChainState
    <3> QED BY <3>1, KeptSame, LaneStutter
  <2>2. CASE PrepareStage(w) \/ CancelPrepared(w) \/ RecordSigned(w) \/ Reconcile(w)
    BY <2>2, LaneFreeze, LaneDiscard, LaneCommit, LaneAttribute DEF Lane!Next
  <2>3. CASE RowsKept /\ wallet'.nonce = wallet.nonce /\ UNCHANGED chain
    BY <2>3, LaneStutter
  <2> QED BY <1>1, <2>1, <2>2, <2>3, NonceQuiet DEF Step
<1>2. ASSUME NEW w \in Workers, Claim(w) \/ Failure(w) PROVE [Lane!Next]_(Lane!vars)
  BY <1>2, NonceQuiet, NonceOutside, LaneStutter
<1>3. CASE Operator \/ Manager \/ Clock \/ Maintain
  BY <1>3, NonceOutside, LaneStutter
<1>4. ASSUME NEW r \in RowIds, Mine(r) PROVE [Lane!Next]_(Lane!vars)
  BY <1>4, LaneInclude DEF Lane!Next
<1>5. ASSUME NEW r \in RowIds, Drop(r) PROVE [Lane!Next]_(Lane!vars)
  <2>1. UNCHANGED <<outbox, wallet>>
    BY <1>5 DEF Drop
  <2> QED BY <1>5, <2>1, NonceDrop, KeptSame, LaneStutter
<1>6. CASE UNCHANGED vars
  <2>1. UNCHANGED <<outbox, wallet, chain>>
    BY <1>6 DEF vars
  <2> QED BY <2>1, KeptSame, LaneStutter
<1> QED BY <1>1, <1>2, <1>3, <1>4, <1>5, <1>6 DEF Next, Network

(***************************************************************************)
(* The queue, its workers and the chain implement the lane of NonceLane:   *)
(* prepareStage freezes, cancelPrepared discards, recordSigned commits, a  *)
(* block includes, reconcileStage attributes, and no other step, of any    *)
(* actor, moves the lane.                                                  *)
(***************************************************************************)
THEOREM LaneImplemented == Spec => ImplementsLane
<1>1. Init => Lane!Init
  <2> SUFFICES ASSUME Init PROVE Lane!Init
    OBVIOUS
  <2>1. \A r \in RowIds : outbox[r].status = "none"
    BY DEF Init, NoRow
  <2>2. wallet.nonce = 0 /\ chain.nonce = 0
    BY DEF Init
  <2> QED BY <2>1, <2>2 DEF Lane!Init, LanePhase
<1>2. TypeInv /\ TypeInv' /\ LaneInv /\ LaneInv' /\ NonceInv /\ [Next]_vars => [Lane!Next]_(Lane!vars)
  BY LaneStep
<1> QED BY <1>1, <1>2, TypeCorrect, LaneCorrect, NonceCorrect, PTL DEF Spec, ImplementsLane, Lane!Spec

=============================================================================

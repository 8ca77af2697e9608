-------------------------- MODULE RangeKeeperStage --------------------------
(***************************************************************************)
(* The strategy state of one live RangeKeeper campaign and the pure        *)
(* functions the shared wallet applies to it: the stage planner, the       *)
(* effect of a reconciled receipt, the transition a management job starts  *)
(* with, and the settlements of a stage that cannot be planned or that     *)
(* reverted.  Amounts, prices and ranges are left out: a candidate either  *)
(* exists or not, its swap is not needed, outstanding or done, and the     *)
(* risky leg is either held or not.  The allowances of the pool's pairs    *)
(* are one flag: every campaign of the model trades the same pool.         *)
(***************************************************************************)

Phases == {"none", "entry", "holding", "recenter", "exit", "halted", "closed"}
JobKinds == {"open", "change_range", "close_retain", "close_convert"}

\* "approve" grants the allowance a swap or a mint needs, "revoke" zeroes it.
Plans == {"approve", "swap", "mint", "withdraw", "revoke"}

(***************************************************************************)
(* phase, exitMode, nft (activeTokenId # null), candidate (# null), swap   *)
(* (the candidate's swap: none planned, outstanding, or swapDone),         *)
(* withdrawDone, and risky (the campaign's inventory of the non-quote      *)
(* token is not zero).                                                     *)
(***************************************************************************)
StrategyState ==
  [phase: Phases, exitMode: {"none", "retain", "convert"}, nft: BOOLEAN,
   candidate: BOOLEAN, swap: {"none", "todo", "done"},
   withdrawDone: BOOLEAN, risky: BOOLEAN]

Uninitialized ==
  [phase |-> "none", exitMode |-> "none", nft |-> FALSE, candidate |-> FALSE,
   swap |-> "none", withdrawDone |-> FALSE, risky |-> FALSE]

\* buildRangeKeeperLiveEntryState: the reviewed candidate, with a swap or not.
EntryState(swap) ==
  [Uninitialized EXCEPT !.phase = "entry", !.candidate = TRUE, !.swap = swap,
                        !.risky = TRUE]

\* A campaign whose opening job finished: a minted, held position.
HoldingState ==
  [Uninitialized EXCEPT !.phase = "holding", !.nft = TRUE, !.risky = TRUE]

-----------------------------------------------------------------------------
(* Predicates on a campaign state.                                         *)

IsRetainedExit(s) == s.phase = "exit" /\ s.exitMode = "retain"
IsManagedExit(s) == s.phase = "exit" /\ s.exitMode \in {"retain", "convert"}
IsConvertExit(s) == s.phase = "exit" /\ s.exitMode = "convert"

IsAwaitingReplan(s) ==
  /\ s.phase = "recenter"
  /\ s.withdrawDone
  /\ s.swap # "done"
  /\ ~s.nft
  /\ ~s.candidate

-----------------------------------------------------------------------------
(***************************************************************************)
(* nextRangeKeeperStage under the persistent allowance policy.             *)
(* `allowance` is the canonical allowance, `shared` says that another      *)
(* campaign that is not closed still uses the pair.  "complete" is the     *)
(* planner's null.                                                         *)
(***************************************************************************)
ExitStage(s, allowance, shared) ==
  CASE s.nft -> "withdraw"
    [] ~s.nft /\ IsConvertExit(s) /\ s.risky ->
         IF allowance THEN "swap" ELSE "approve"
    [] ~s.nft /\ ~(IsConvertExit(s) /\ s.risky) ->
         IF allowance /\ ~shared THEN "revoke" ELSE "complete"

CandidateStage(s, allowance) ==
  CASE s.nft -> "withdraw"
    [] ~s.nft /\ ~allowance -> "approve"
    [] ~s.nft /\ allowance /\ s.swap = "todo" -> "swap"
    [] ~s.nft /\ allowance /\ s.swap # "todo" -> "mint"

NextStage(s, allowance, shared) ==
  CASE s.phase = "exit" -> ExitStage(s, allowance, shared)
    [] s.phase \in {"entry", "recenter"} /\ s.candidate ->
         CandidateStage(s, allowance)
    [] OTHER -> "complete"

-----------------------------------------------------------------------------
(***************************************************************************)
(* applyRangeKeeperLiveReceiptEffectInTransaction: what one canonical      *)
(* receipt does to the campaign.  `risky` is whether the withdrawn         *)
(* inventory holds the non-quote token; a rebalancing swap keeps some of   *)
(* it for the mint, the sale of a convert exit leaves none.                *)
(***************************************************************************)
DegradeConvertToRetain(s) ==
  [s EXCEPT !.exitMode = "retain", !.candidate = FALSE, !.swap = "none"]

\* Mutant: the position is taken for withdrawn whatever the receipt says.
RevertedAsWithdrawn(s, kind, plan) ==
  IF plan = "withdraw" THEN [s EXCEPT !.nft = FALSE, !.phase = "halted"]
  ELSE [s EXCEPT !.phase = "halted"]

RevertedEffect(s, kind, plan) ==
  IF kind = "close_convert" /\ plan = "swap" /\ IsConvertExit(s) /\ ~s.nft
  THEN DegradeConvertToRetain(s)
  ELSE [s EXCEPT !.phase = "halted"]

WithdrawEffect(s, risky) ==
  [s EXCEPT !.nft = FALSE, !.withdrawDone = TRUE, !.risky = risky]

\* Mutant: the confirmed swap is not recorded.
SwapForgotten(s) == s

SwapEffect(s) ==
  IF s.phase \in {"entry", "recenter"}
  THEN [s EXCEPT !.swap = "done"]
  ELSE [s EXCEPT !.risky = FALSE]

MintEffect(s) ==
  [s EXCEPT !.nft = TRUE, !.phase = "holding", !.candidate = FALSE,
            !.swap = "none", !.withdrawDone = FALSE]

ReceiptEffect(s, kind, plan, outcome, risky) ==
  CASE outcome = "reverted" -> RevertedEffect(s, kind, plan)
    [] outcome = "success" /\ plan = "withdraw" -> WithdrawEffect(s, risky)
    [] outcome = "success" /\ plan = "swap" -> SwapEffect(s)
    [] outcome = "success" /\ plan = "mint" -> MintEffect(s)
    [] outcome = "success" /\ plan \in {"approve", "revoke"} -> s

-----------------------------------------------------------------------------
(* deriveRangeKeeperLiveManagementTransition, from a held position.        *)

ManagementTransition(s, kind, swap) ==
  IF kind = "change_range"
  THEN [s EXCEPT !.phase = "recenter", !.exitMode = "none",
                 !.candidate = TRUE, !.swap = swap, !.withdrawDone = FALSE]
  ELSE [s EXCEPT !.phase = "exit", !.candidate = FALSE, !.swap = "none",
                 !.exitMode = IF kind = "close_convert" THEN "convert" ELSE "retain",
                 !.withdrawDone = FALSE]

(***************************************************************************)
(* The exit permission a stage is authorized under (exitSpendAllowed and   *)
(* exitConvert); signing requires that the campaign still grants the same. *)
(***************************************************************************)
ExitPermission(s, kind) ==
  IF IsConvertExit(s) THEN "convert"
  ELSE IF kind \in {"close_retain", "close_convert"} \/ IsManagedExit(s) THEN "exit"
  ELSE "none"

\* verifyPreparedIntent: the phase a job of this kind may sign in.
MaySign(s, kind) ==
  CASE kind = "open" -> TRUE
    [] kind = "change_range" -> s.phase \in {"recenter", "holding"} \/ IsRetainedExit(s)
    [] kind = "close_convert" -> IsManagedExit(s)
    [] kind = "close_retain" -> IsRetainedExit(s)

\* deriveRangeKeeperLiveClosedState: its assertion and its result.
CanClose(s) == IsManagedExit(s) /\ ~s.nft /\ ~s.candidate
ClosedState(s) == [s EXCEPT !.phase = "closed"]

-----------------------------------------------------------------------------
(* Settlements: a stage that cannot be planned, and a reverted withdrawal. *)

RecenterToRetainExit(s) ==
  [s EXCEPT !.phase = "exit", !.exitMode = "retain", !.candidate = FALSE,
            !.swap = "none"]

\* The manager installs a fresh candidate into a withdrawn recenter.
ReplanTransition(s, swap) == [s EXCEPT !.candidate = TRUE, !.swap = swap]

CanRecoverRevertedWithdrawal(s) ==
  s.phase = "halted" /\ s.nft /\ ~s.withdrawDone /\ s.swap # "done" /\ s.candidate

(***************************************************************************)
(* nextRangeKeeperStage can refuse with a recoverable error where it needs *)
(* a quote, a price or a mintable ratio: a conversion swap or its router   *)
(* approval, the swap or the mint of a candidate.                          *)
(***************************************************************************)
ConversionUnavailable(s) == IsConvertExit(s) /\ ~s.nft /\ s.risky
CandidateUnavailable(s) ==
  s.phase \in {"entry", "recenter"} /\ s.candidate /\ ~s.nft

(***************************************************************************)
(* settleRangeKeeperLiveConvertExitError and                               *)
(* settleRangeKeeperLiveStageError: the campaign states the settlement may *)
(* leave.  Waiting leaves the state alone; the bounded waits are a choice. *)
(* The empty set is "unsettled".                                           *)
(***************************************************************************)
Settlements(s, kind) ==
  CASE kind = "close_convert" /\ ConversionUnavailable(s) ->
         {s, DegradeConvertToRetain(s)}
    [] kind = "change_range" /\ s.phase = "recenter" /\ CandidateUnavailable(s) ->
         IF s.swap = "done" THEN {s, RecenterToRetainExit(s)}
         ELSE IF s.withdrawDone THEN {[s EXCEPT !.candidate = FALSE, !.swap = "none"]}
         ELSE {}
    [] OTHER -> {}
=============================================================================

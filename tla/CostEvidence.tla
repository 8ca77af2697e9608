---------------------------- MODULE CostEvidence ----------------------------
(***************************************************************************)
(* The chain of measured costs: receipts of indexed pool actions and of     *)
(* direct approvals, their valuation, the assessment of the calls, and the  *)
(* guarded cost model of a pool (src/src/action-cost/*.ts,                  *)
(* src/src/approval-cost/*.ts, src/src/cost-model/*.ts and their commands). *)
(*                                                                          *)
(* Every command loads its source in one read-only transaction, reads the   *)
(* chain, and saves an immutable run; a run that exists is returned as it   *)
(* is.  One indexed transaction and one approval stand for all; a branch of *)
(* the chain is a number, and a transaction's cost is that of its branch.   *)
(***************************************************************************)
EXTENDS Integers, Sequences, SequencesExt, FiniteSets, FiniteSetsExt

CONSTANTS
    Commands,      \* invocations that run at the same time
    Directories,   \* contents of the feed directory
    MaxBranch,     \* bound on branches
    MaxHead,       \* bound on the indexer's cursor
    MaxModels      \* bound on resolved models

VARIABLES
    branch,        \* the canonical branch of the transactions' block
    cursor,        \* indexer: [head, branch] of the scanned rows
    events,        \* the pool events of the transaction
    call,          \* its top-level call
    actionRows,    \* v3_action_cost_observations: branch of the row, 0 = none
    actionRuns,    \* v3_action_cost_runs, by head: branch of the source, 0 = none
    values,        \* v3_action_cost_valuation_runs and their marks
    assessments,   \* v3_action_cost_call_assessment_runs
    approvalRuns,  \* v3_approval_cost_runs, by head
    approvals,     \* v3_approval_cost_valuation_runs
    models,        \* v3_guarded_cost_models
    work           \* each command: what it loaded and computed

costVars == <<branch, cursor, events, call, actionRows, actionRuns, values,
              assessments, approvalRuns, approvals, models, work>>

Idle == [pc |-> "idle", head |-> 0, branch |-> 0, seen |-> 0, source |-> 0,
         second |-> 0, directory |-> 0, ok |-> FALSE]

----------------------------------------------------------------------------
(* What one transaction shows.                                              *)

classifyActionMix(names) ==
    CASE ~(names \subseteq {"Mint", "Burn", "Collect", "Swap"}) -> "mixed"
      [] {"Mint", "Burn"} \subseteq names -> "rebalance_bundle"
      [] "Burn" \in names -> "exit_bundle"
      [] "Mint" \in names -> "mint_bundle"
      [] "Collect" \in names -> "collect_bundle"
      [] "Swap" \in names -> "swap_only"
      [] OTHER -> "mixed"

compatibleClasses ==
    [mint |-> {"mint_bundle"}, increase |-> {"mint_bundle"},
     decrease |-> {"exit_bundle"}, collect |-> {"collect_bundle", "exit_bundle"}]

assessActionCostCall(mark) ==
    IF ~mark.valid THEN "excluded"
    ELSE IF call = "multicall" THEN "opaque"
    ELSE IF call \notin DOMAIN compatibleClasses THEN "excluded"
    ELSE IF classifyActionMix(events) \notin compatibleClasses[call] THEN "excluded"
    ELSE "comparable"

CostInit ==
    /\ branch = 1
    /\ cursor = [head |-> 0, branch |-> 1]
    /\ events = {} /\ call = "none"
    /\ actionRows = 0
    /\ actionRuns = [h \in 1..MaxHead |-> 0]
    /\ approvalRuns = [h \in 1..MaxHead |-> 0]
    /\ values = <<>> /\ assessments = <<>> /\ approvals = <<>> /\ models = <<>>
    /\ work = [c \in Commands |-> Idle]

----------------------------------------------------------------------------
(* action-cost                                                              *)

\* loadSource: the window ends at the indexer's cursor.
LoadActions(c) ==
    /\ work[c].pc = "idle" /\ cursor.head > 0
    /\ work' = [work EXCEPT ![c] = [Idle EXCEPT !.pc = "receipt",
                  !.head = cursor.head, !.branch = cursor.branch]]
    /\ UNCHANGED <<branch, cursor, events, call, actionRows, actionRuns, values,
                   assessments, approvalRuns, approvals, models>>

\* The receipt must be the candidate's: same block, hash and index.
evaluateActionCost(c) ==
    /\ work[c].pc = "receipt"
    /\ work' = [work EXCEPT ![c] = IF work[c].branch = branch
                  THEN [work[c] EXCEPT !.pc = "save_actions", !.seen = branch]
                  ELSE Idle]
    /\ UNCHANGED <<branch, cursor, events, call, actionRows, actionRuns, values,
                   assessments, approvalRuns, approvals, models>>

\* Mutant: a stored observation is kept without comparing it.
AnyRow(seen) == TRUE

\* insertObservation: DO NOTHING, then the stored row must equal this one.
ExactRow(seen) == actionRows \in {0, seen}

SaveActions(c) ==
    /\ work[c].pc = "save_actions"
    /\ IF actionRuns[work[c].head] = 0 /\ ExactRow(work[c].seen)
       THEN /\ actionRows' = IF actionRows = 0 THEN work[c].seen ELSE actionRows
            /\ actionRuns' = [actionRuns EXCEPT ![work[c].head] = work[c].branch]
       ELSE UNCHANGED <<actionRows, actionRuns>>
    /\ work' = [work EXCEPT ![c] = Idle]
    /\ UNCHANGED <<branch, cursor, events, call, values, assessments,
                   approvalRuns, approvals, models>>

----------------------------------------------------------------------------
(* action-cost:value                                                        *)

Heads(runs) == {h \in 1..MaxHead : runs[h] # 0}

LoadValuation(c) ==
    /\ work[c].pc = "idle" /\ Heads(actionRuns) # {}
    /\ \E d \in Directories :
         work' = [work EXCEPT ![c] = [Idle EXCEPT !.pc = "value", !.directory = d,
                    !.source = Max(Heads(actionRuns)), !.branch = actionRows]]
    /\ UNCHANGED <<branch, cursor, events, call, actionRows, actionRuns, values,
                   assessments, approvalRuns, approvals, models>>

\* Mutant: the block is read but its hash is not compared.
ReadableBlock(row) == TRUE

CanonicalBlock(row) == row = branch

\* A failed read, a stale oracle or another hash excludes the mark.
evaluateActionCostValuation(c) ==
    /\ work[c].pc = "value"
    /\ \E oracles \in BOOLEAN :
         work' = [work EXCEPT ![c].pc = "save_value", ![c].seen = branch,
                    ![c].ok = oracles /\ CanonicalBlock(work[c].branch)]
    /\ UNCHANGED <<branch, cursor, events, call, actionRows, actionRuns, values,
                   assessments, approvalRuns, approvals, models>>

SaveValuation(c) ==
    /\ work[c].pc = "save_value"
    /\ values' = IF \E i \in DOMAIN values :
                       /\ values[i].source = work[c].source
                       /\ values[i].directory = work[c].directory
                 THEN values
                 ELSE Append(values, [source |-> work[c].source,
                        directory |-> work[c].directory, branch |-> work[c].branch,
                        seen |-> work[c].seen, valid |-> work[c].ok])
    /\ work' = [work EXCEPT ![c] = Idle]
    /\ UNCHANGED <<branch, cursor, events, call, actionRows, actionRuns,
                   assessments, approvalRuns, approvals, models>>

\* action-cost:assess reads nothing but the newest valuation.
Assess ==
    /\ values # <<>>
    /\ \A i \in DOMAIN assessments : assessments[i].value # Len(values)
    /\ assessments' = Append(assessments, [value |-> Len(values),
                        status |-> assessActionCostCall(Last(values))])
    /\ UNCHANGED <<branch, cursor, events, call, actionRows, actionRuns, values,
                   approvalRuns, approvals, models, work>>

----------------------------------------------------------------------------
(* approval-cost and approval-cost:value                                    *)

LoadApprovals(c) ==
    /\ work[c].pc = "idle" /\ cursor.head > 0
    /\ work' = [work EXCEPT ![c] = [Idle EXCEPT !.pc = "approval_source",
                  !.head = cursor.head, !.branch = cursor.branch]]
    /\ UNCHANGED <<branch, cursor, events, call, actionRows, actionRuns, values,
                   assessments, approvalRuns, approvals, models>>

\* collectApprovalCostRun: the terminal block must still be the source's; the
\* logs come from the chain as it is now.
CheckApprovalSource(c) ==
    /\ work[c].pc = "approval_source"
    /\ work' = [work EXCEPT ![c] = IF work[c].branch = branch
                  THEN [work[c] EXCEPT !.pc = "approval_logs"] ELSE Idle]
    /\ UNCHANGED <<branch, cursor, events, call, actionRows, actionRuns, values,
                   assessments, approvalRuns, approvals, models>>

FetchApprovals(c) ==
    /\ work[c].pc = "approval_logs"
    /\ work' = [work EXCEPT ![c].pc = "approval_receipt", ![c].seen = branch]
    /\ UNCHANGED <<branch, cursor, events, call, actionRows, actionRuns, values,
                   assessments, approvalRuns, approvals, models>>

\* The receipt must match the log, the call be a direct approve that takes the
\* allowance from zero to the approved amount; else the observation is excluded.
evaluateApprovalCost(c) ==
    /\ work[c].pc = "approval_receipt"
    /\ \E direct \in BOOLEAN :
         work' = [work EXCEPT ![c] = IF work[c].seen = branch
                    THEN [work[c] EXCEPT !.pc = "save_approvals", !.ok = direct]
                    ELSE Idle]
    /\ UNCHANGED <<branch, cursor, events, call, actionRows, actionRuns, values,
                   assessments, approvalRuns, approvals, models>>

SaveApprovals(c) ==
    /\ work[c].pc = "save_approvals"
    /\ approvalRuns' = IF approvalRuns[work[c].head] # 0 THEN approvalRuns
                       ELSE [approvalRuns EXCEPT ![work[c].head] =
                               IF work[c].ok THEN work[c].seen ELSE -work[c].seen]
    /\ work' = [work EXCEPT ![c] = Idle]
    /\ UNCHANGED <<branch, cursor, events, call, actionRows, actionRuns, values,
                   assessments, approvals, models>>

\* An observation that is not comparable (negative) is carried as excluded.
LoadApprovalValuation(c) ==
    /\ work[c].pc = "idle" /\ Heads(approvalRuns) # {}
    /\ LET h == Max(Heads(approvalRuns)) IN
       work' = [work EXCEPT ![c] = [Idle EXCEPT !.pc = "value_approval",
                  !.source = h, !.branch = approvalRuns[h]]]
    /\ UNCHANGED <<branch, cursor, events, call, actionRows, actionRuns, values,
                   assessments, approvalRuns, approvals, models>>

evaluateApprovalValuation(c) ==
    /\ work[c].pc = "value_approval"
    /\ \E oracles \in BOOLEAN :
         work' = [work EXCEPT ![c].pc = "save_approval_value", ![c].seen = branch,
                    ![c].ok = oracles /\ CanonicalBlock(work[c].branch)]
    /\ UNCHANGED <<branch, cursor, events, call, actionRows, actionRuns, values,
                   assessments, approvalRuns, approvals, models>>

SaveApprovalValuation(c) ==
    /\ work[c].pc = "save_approval_value"
    /\ approvals' = IF \E i \in DOMAIN approvals : approvals[i].source = work[c].source
                    THEN approvals
                    ELSE Append(approvals, [source |-> work[c].source,
                           branch |-> work[c].branch, seen |-> work[c].seen,
                           valid |-> work[c].ok])
    /\ work' = [work EXCEPT ![c] = Idle]
    /\ UNCHANGED <<branch, cursor, events, call, actionRows, actionRuns, values,
                   assessments, approvalRuns, models>>

----------------------------------------------------------------------------
(* cost-model:resolve, the chain and the indexer.                           *)

Sample(ok) == IF ok THEN 1 ELSE 0

resolveGuardedCostModel(mints, approved) ==
    IF mints > 0 /\ approved > 0 THEN "entry_measured" ELSE "unavailable"

Resolve ==
    /\ Len(models) < MaxModels
    /\ assessments # <<>> /\ approvals # <<>>
    /\ \A i \in DOMAIN models : \/ models[i].assessment # Len(assessments)
                                \/ models[i].approval # Len(approvals)
    /\ models' = Append(models, [assessment |-> Len(assessments),
         approval |-> Len(approvals),
         status |-> resolveGuardedCostModel(
            Sample(Last(assessments).status = "comparable" /\ call = "mint"),
            Sample(Last(approvals).valid))])
    /\ UNCHANGED <<branch, cursor, events, call, actionRows, actionRuns, values,
                   assessments, approvalRuns, approvals, work>>

Reorganise ==
    /\ branch < MaxBranch
    /\ branch' = branch + 1
    /\ UNCHANGED <<cursor, events, call, actionRows, actionRuns, values,
                   assessments, approvalRuns, approvals, models, work>>

\* The first scan finds the transaction: a mint, or a mint call that does not
\* fit the events it shows.
Index ==
    /\ \E h \in Max({1, cursor.head})..MaxHead :
         /\ cursor # [head |-> h, branch |-> branch]
         /\ cursor' = [head |-> h, branch |-> branch]
    /\ IF cursor.head > 0 THEN UNCHANGED <<events, call>>
       ELSE \E t \in {<<{"Mint"}, "mint">>, <<{"Burn"}, "mint">>} :
              events' = t[1] /\ call' = t[2]
    /\ UNCHANGED <<branch, actionRows, actionRuns, values,
                   assessments, approvalRuns, approvals, models, work>>

CostNext ==
    \/ \E c \in Commands :
         \/ LoadActions(c) \/ evaluateActionCost(c) \/ SaveActions(c)
         \/ LoadValuation(c) \/ evaluateActionCostValuation(c) \/ SaveValuation(c)
         \/ LoadApprovals(c) \/ CheckApprovalSource(c) \/ FetchApprovals(c)
         \/ evaluateApprovalCost(c) \/ SaveApprovals(c)
         \/ LoadApprovalValuation(c) \/ evaluateApprovalValuation(c)
         \/ SaveApprovalValuation(c)
    \/ Assess \/ Resolve \/ Reorganise \/ Index

CostSpec == CostInit /\ [][CostNext]_costVars

----------------------------------------------------------------------------
(***************************************************************************)
(* Runs of different windows share observation rows, and the chain may      *)
(* reorganise between any two steps of any command: every action-cost run   *)
(* counts receipts of the branch its own source names (insertObservation's  *)
(* comparison after DO NOTHING).                                            *)
(***************************************************************************)
RunsShareTheirBranch ==
    \A h \in Heads(actionRuns) : actionRuns[h] = actionRows

(***************************************************************************)
(* A cost model that calls its entry measured rests on costs each of which  *)
(* belonged to the branch that was canonical while it was valued, through   *)
(* receipts, valuation and assessment (evaluateActionCostValuation,         *)
(* resolveGuardedCostModel).                                                *)
(***************************************************************************)
MeasuredOnChain ==
    \A i \in DOMAIN models :
      models[i].status = "entry_measured" =>
        LET mint == values[assessments[models[i].assessment].value]
            approval == approvals[models[i].approval]
        IN  /\ mint.branch = mint.seen
            /\ approval.branch = approval.seen
            /\ classifyActionMix(events) = "mint_bundle"

\* A cost run counts receipts of one branch of the chain, each of them
\* measured on a block that was canonical.
CostsOnOneBranch == RunsShareTheirBranch /\ MeasuredOnChain
============================================================================

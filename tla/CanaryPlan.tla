----------------------------- MODULE CanaryPlan -----------------------------
(***************************************************************************)
(* Strategy checkpoints and the guarded canary plan that rests on them      *)
(* (src/src/strategy-checkpoint, src/src/canary-plan and their commands).   *)
(*                                                                          *)
(* The checkpoint timer collects a risk snapshot of one block, reads the    *)
(* pools by block number and stores both.  The plan command loads the newest *)
(* checkpoint, the risk gate, the RPC health samples and the chain one after *)
(* the other, and proposes a mint only if no reason speaks against it.  A   *)
(* branch of the chain is a number; each has its own pool state.            *)
(***************************************************************************)
EXTENDS Integers, Sequences, SequencesExt, FiniteSets, FiniteSetsExt

CONSTANTS
    Timers,               \* runs of the checkpoint command at the same time
    Window, Gap,          \* recovery window and longest gap between samples
    MinSamples,           \* samples a window needs
    MaxCheckpointAge,     \* CANARY_MAX_CHECKPOINT_AGE_SECONDS
    MaxValidationAge,     \* RISK_GATE_MAX_CANONICALITY_AGE_SECONDS
    Ttl,                  \* the policy's ttlSeconds
    MaxFork, MaxRisk, MaxTime  \* bounds

VARIABLES
    planNow,
    fork,          \* the canonical branch at the pinned block number
    samples,       \* rpc_health_samples, oldest first
    riskLog,       \* risk_snapshot_runs with their canonicality row
    checkpoints,   \* v3_strategy_checkpoint_runs
    timer,         \* each checkpoint command
    planner,       \* the plan command
    plans          \* guarded_canary_plan_runs

planVars == <<planNow, fork, samples, riskLog, checkpoints, timer, planner, plans>>

Never == -10
Stopped == [pc |-> "idle", label |-> 0, run |-> 0, state |-> 0]
NoPlan == [pc |-> "idle", source |-> 0, gate |-> 0, gateOk |-> FALSE, block |-> 0,
           pool |-> 0, readyAt |-> Never, ready |-> FALSE]

PlanInit ==
    /\ planNow = 2 /\ fork = 1
    /\ samples = <<[at |-> 0, kind |-> "ok"]>>
    /\ riskLog = <<>> /\ checkpoints = <<>> /\ plans = <<>>
    /\ timer = [t \in Timers |-> Stopped]
    /\ planner = NoPlan

----------------------------------------------------------------------------
(* strategy-checkpoint                                                      *)

\* collectAndSaveRiskSnapshot, reduced to the block it names.
CollectRisk(t) ==
    /\ timer[t].pc = "idle" /\ Len(riskLog) < MaxRisk
    /\ riskLog' = Append(riskLog, [label |-> fork, at |-> planNow,
                                   validatedAt |-> Never, canonical |-> FALSE])
    /\ timer' = [timer EXCEPT ![t] = [Stopped EXCEPT !.pc = "pools", !.label = fork]]
    /\ UNCHANGED <<planNow, fork, samples, checkpoints, planner, plans>>

\* readPool: slot0, liquidity and fee growth by block number, whatever its hash.
readPool == fork

collectStrategyCheckpoint(t) ==
    /\ timer[t].pc = "pools"
    /\ timer' = [timer EXCEPT ![t].pc = "save", ![t].state = readPool]
    /\ UNCHANGED <<planNow, fork, samples, riskLog, checkpoints, planner, plans>>

\* The checkpoint goes to the newest risk run of its block and hash; a run that
\* has one keeps it.
SaveCheckpoint(t) ==
    /\ timer[t].pc = "save"
    /\ LET run == Max({r \in DOMAIN riskLog : riskLog[r].label = timer[t].label})
       IN  /\ checkpoints' = IF \E i \in DOMAIN checkpoints : checkpoints[i].run = run
                             THEN checkpoints
                             ELSE Append(checkpoints, [run |-> run, label |-> timer[t].label,
                                    state |-> timer[t].state, at |-> planNow])
           /\ timer' = [timer EXCEPT ![t].pc = "validate", ![t].run = run]
    /\ UNCHANGED <<planNow, fork, samples, riskLog, planner, plans>>

ValidateCheckpoint(t) ==
    /\ timer[t].pc = "validate"
    /\ riskLog' = [riskLog EXCEPT ![timer[t].run].validatedAt = planNow,
                     ![timer[t].run].canonical = riskLog[timer[t].run].label = fork]
    /\ timer' = [timer EXCEPT ![t] = Stopped]
    /\ UNCHANGED <<planNow, fork, samples, checkpoints, planner, plans>>

CheckpointFails(t) ==
    /\ timer[t].pc \in {"pools", "validate"}
    /\ timer' = [timer EXCEPT ![t] = Stopped]
    /\ UNCHANGED <<planNow, fork, samples, riskLog, checkpoints, planner, plans>>

----------------------------------------------------------------------------
(* canary-plan                                                              *)

loadLatestSource ==
    /\ planner.pc = "idle" /\ checkpoints # <<>>
    /\ planner' = [NoPlan EXCEPT !.pc = "gate", !.source = Len(checkpoints)]
    /\ UNCHANGED <<planNow, fork, samples, riskLog, checkpoints, timer, plans>>

\* The sequencer reason is waived by the readiness, so it is left out here.
readPlanGate ==
    /\ planner.pc = "gate"
    /\ LET run == Last(riskLog) IN
       planner' = [planner EXCEPT !.pc = "health", !.gate = Len(riskLog),
                     !.gateOk = run.canonical /\ planNow - run.validatedAt <= MaxValidationAge]
    /\ UNCHANGED <<planNow, fork, samples, riskLog, checkpoints, timer, plans>>

\* An unhealthy or stale sample ends the command.
AssertHealth ==
    /\ planner.pc = "health"
    /\ planner' = IF Last(samples).kind # "bad" /\ planNow - Last(samples).at <= Gap
                  THEN [planner EXCEPT !.pc = "block"] ELSE NoPlan
    /\ UNCHANGED <<planNow, fork, samples, riskLog, checkpoints, timer, plans>>

\* readState: the block first, then pool, tokens and balances by its number.
ReadBlock ==
    /\ planner.pc = "block"
    /\ planner' = [planner EXCEPT !.pc = "state", !.block = fork]
    /\ UNCHANGED <<planNow, fork, samples, riskLog, checkpoints, timer, plans>>

ReadState ==
    /\ planner.pc = "state"
    /\ planner' = [planner EXCEPT !.pc = "ready", !.pool = fork]
    /\ UNCHANGED <<planNow, fork, samples, riskLog, checkpoints, timer, plans>>

\* Mutant: the window starts with the first sample after its start.
FirstInside(log, start) ==
    LET inside == {i \in DOMAIN log : log[i].at > start}
    IN  IF inside = {} THEN 0 ELSE Min(inside)

\* The last sample at or before the start, 0 when there is none.
WindowStart(log, start) ==
    LET before == {i \in DOMAIN log : log[i].at <= start}
    IN  IF before = {} THEN 0 ELSE Max(before)

\* A sample is ok when it is healthy and its anchor has the quorum; that the head
\* advances is left to the choice in SavePlan.
evaluateCanaryEntryReadiness(log) ==
    LET start == planNow - Window
        first == WindowStart(log, start)
        window == SubSeq(log, Max({first, 1}), Len(log))
    IN  /\ first > 0 /\ Len(window) >= MinSamples
        /\ \A i \in 1..Len(window) - 1 : window[i + 1].at - window[i].at \in 1..Gap
        /\ \A i \in DOMAIN window : window[i].kind # "bad"
        /\ start - window[1].at <= Gap
        /\ planNow - Last(window).at <= Gap

readEntryReadiness ==
    /\ planner.pc = "ready"
    /\ planner' = [planner EXCEPT !.pc = "draft", !.readyAt = planNow,
                     !.ready = evaluateCanaryEntryReadiness(samples)]
    /\ UNCHANGED <<planNow, fork, samples, riskLog, checkpoints, timer, plans>>

\* Mutant: the pool read is not compared with the checkpoint.
HashOnly(p, source) == p.block = source.label

SourceMatches(p, source) ==
    /\ p.block = source.label
    /\ p.pool = source.state

\* buildGuardedCanaryDraft: the reasons from gate, readiness and source.
DraftAccepted(p, source, session) ==
    /\ p.ready /\ planNow - p.readyAt <= Gap
    /\ session
    /\ SourceMatches(p, source)
    /\ p.gateOk /\ p.gate = source.run
    /\ planNow - source.at <= MaxCheckpointAge
    /\ riskLog[source.run].at + Ttl > planNow

\* The rest of the draft (range, sizing, balances, deviation) and the simulation
\* may reject too.
finalizeGuardedCanaryPlan(p, source, session, rest) ==
    IF DraftAccepted(p, source, session) /\ rest
    THEN "manual_approval_candidate" ELSE "preflight_rejected"

SavePlan ==
    /\ planner.pc = "draft"
    /\ \E session, rest \in BOOLEAN :
         LET source == checkpoints[planner.source] IN
         plans' = Append(plans, [source |-> planner.source, pool |-> planner.pool,
                    readyAt |-> planner.readyAt,
                    status |-> finalizeGuardedCanaryPlan(planner, source, session, rest)])
    /\ planner' = NoPlan
    /\ UNCHANGED <<planNow, fork, samples, riskLog, checkpoints, timer>>

----------------------------------------------------------------------------
Monitor ==
    /\ Last(samples).at < planNow
    /\ \E kind \in {"ok", "bad"} :
         samples' = Append(samples, [at |-> planNow, kind |-> kind])
    /\ UNCHANGED <<planNow, fork, riskLog, checkpoints, timer, planner, plans>>

PlanReorg ==
    /\ fork < MaxFork
    /\ fork' = fork + 1
    /\ UNCHANGED <<planNow, samples, riskLog, checkpoints, timer, planner, plans>>

PlanTick ==
    /\ planNow < MaxTime
    /\ planNow' = planNow + 1
    /\ UNCHANGED <<fork, samples, riskLog, checkpoints, timer, planner, plans>>

\* A behaviour ends with its first plan.
PlanNext ==
    /\ plans = <<>>
    /\ \/ \E t \in Timers :
            \/ CollectRisk(t) \/ collectStrategyCheckpoint(t) \/ SaveCheckpoint(t)
            \/ ValidateCheckpoint(t) \/ CheckpointFails(t)
       \/ loadLatestSource \/ readPlanGate \/ AssertHealth \/ ReadBlock \/ ReadState
       \/ readEntryReadiness \/ SavePlan
       \/ Monitor \/ PlanReorg \/ PlanTick

----------------------------------------------------------------------------
Candidates == {i \in DOMAIN plans : plans[i].status = "manual_approval_candidate"}

(***************************************************************************)
(* The block, the pool, the checkpoint and the risk run are read by         *)
(* different commands and by number: a plan proposed for approval is sized  *)
(* on the pool state of the very branch its risk run was evaluated on       *)
(* (buildGuardedCanaryDraft's source comparison).                           *)
(***************************************************************************)
SizedOnSource ==
    \A i \in Candidates :
      plans[i].pool = riskLog[checkpoints[plans[i].source].run].label

(***************************************************************************)
(* The readiness is the only thing that waives the missing sequencer feed:  *)
(* when a plan is proposed, every moment of the recovery window before it   *)
(* had a healthy sample at most Gap earlier                                 *)
(* (evaluateCanaryEntryReadiness).                                          *)
(***************************************************************************)
RecoveryContinuous ==
    \A i \in Candidates : \A moment \in (plans[i].readyAt - Window)..plans[i].readyAt :
      \E j \in DOMAIN samples :
        samples[j].at \in (moment - Gap)..moment /\ samples[j].kind # "bad"

\* A canary plan is sized on the source it names and proposed only after an
\* unbroken recovery of the node.
PlanVouched == SizedOnSource /\ RecoveryContinuous
============================================================================

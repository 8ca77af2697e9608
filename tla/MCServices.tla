----------------------------- MODULE MCServices -----------------------------
(***************************************************************************)
(* The services that collect evidence beside the deployments, each on its  *)
(* own: `focus` names the one that moves.  One run explores the sum of     *)
(* their states.  The modules with theorems are extended, the others       *)
(* instantiated.                                                           *)
(***************************************************************************)
EXTENDS RpcCircuit, CostEvidence, TransferIndex, PerpReference,
        PaperGasEvidence

VARIABLE focus
VARIABLES round
VARIABLES riskNow, tip, replaced, covered, attempts, riskRuns,
          validation, job
VARIABLES planNow, fork, samples, riskLog, checkpoints, timer, planner,
          plans
VARIABLES blocks, forks, rows, scan, replayAt, feeRuns, principals,
          nfts, results, clerk
VARIABLES poolChain, poolForks, tail, marks, quotes, bases, replays
VARIABLES curve, search

probeVars == <<round>>
riskVars == <<riskNow, tip, replaced, covered, attempts, riskRuns,
              validation, job>>
planVars == <<planNow, fork, samples, riskLog, checkpoints, timer, planner,
              plans>>
acctVars == <<blocks, forks, rows, scan, replayAt, feeRuns, principals,
              nfts, results, clerk>>
replayVars == <<poolChain, poolForks, tail, marks, quotes, bases, replays>>
searchVars == <<curve, search>>

Probe == INSTANCE RpcProbe WITH
    References <- {1, 2}, Quorum <- 1, Depth <- 1, SoftLag <- 1, HardLag <- 2,
    StallSeconds <- 2
Risk == INSTANCE RiskGate WITH
    Collectors <- {1, 2}, MaxSnapshotAge <- 1, MaxCanonicalityAge <- 0,
    MaxPriceAge <- 1, MaxAttempts <- 2, MaxForks <- 1, MaxTime <- 2
Canary == INSTANCE CanaryPlan WITH
    Timers <- {1}, Window <- 1, Gap <- 1, MinSamples <- 1,
    MaxCheckpointAge <- 2, MaxValidationAge <- 0, Ttl <- 3,
    MaxFork <- 2, MaxRisk <- 2, MaxTime <- 3
Acct == INSTANCE AccountingEvidence WITH
    Clerks <- {1}, Overlap <- 1, MaxBlock <- 2, MaxForks <- 1,
    MaxRuns <- 2, MaxResults <- 1
Policy == INSTANCE PolicyReplay WITH
    Ticks <- {0, 1}, Depth <- 1, Overlap <- 1, Lookback <- 2, Widths <- {1, 2},
    Modulus <- 8, Unit <- 3, Capital <- 8, EntryCost <- 1, MoveCost <- 2,
    ExitCost <- 4, MaxSkew <- 1, MaxPoolHeight <- 4, MaxPoolForks <- 1,
    MaxMarks <- 2, MaxQuotes <- 1
Swap == INSTANCE SwapSearch WITH
    Bounds <- {8, 33}, Ups <- {1, 2}, Downs <- {1, 4}, Floors <- {9},
    Starts <- {0, 5}, PeakQuotes <- 320, TargetQuotes <- 400,
    NearNum <- 3, NearDen <- 4

MCInit ==
    /\ focus \in {"probe", "rpc", "risk", "cost", "canary", "accounting",
                  "transfers", "gas", "policy", "perp", "swap"}
    /\ Probe!ProbeInit
    /\ RpcInit
    /\ Risk!RiskInit
    /\ CostInit
    /\ Canary!PlanInit
    /\ Acct!AcctInit
    /\ XferInit
    /\ GasInit
    /\ Policy!ReplayInit
    /\ PerpInit
    /\ Swap!PlanInit

ProbeStep ==
    /\ focus = "probe" /\ Probe!ProbeNext
    /\ UNCHANGED <<focus, rpcVars, riskVars, costVars, planVars, acctVars,
                   xferVars, gasVars, replayVars, perpVars, searchVars>>
RpcStep ==
    /\ focus = "rpc" /\ RpcNext
    /\ UNCHANGED <<focus, probeVars, riskVars, costVars, planVars, acctVars,
                   xferVars, gasVars, replayVars, perpVars, searchVars>>
RiskStep ==
    /\ focus = "risk" /\ Risk!RiskNext
    /\ UNCHANGED <<focus, probeVars, rpcVars, costVars, planVars, acctVars,
                   xferVars, gasVars, replayVars, perpVars, searchVars>>
CostStep ==
    /\ focus = "cost" /\ CostNext
    /\ UNCHANGED <<focus, probeVars, rpcVars, riskVars, planVars, acctVars,
                   xferVars, gasVars, replayVars, perpVars, searchVars>>
CanaryStep ==
    /\ focus = "canary" /\ Canary!PlanNext
    /\ UNCHANGED <<focus, probeVars, rpcVars, riskVars, costVars, acctVars,
                   xferVars, gasVars, replayVars, perpVars, searchVars>>
AcctStep ==
    /\ focus = "accounting" /\ Acct!AcctNext
    /\ UNCHANGED <<focus, probeVars, rpcVars, riskVars, costVars, planVars,
                   xferVars, gasVars, replayVars, perpVars, searchVars>>
XferStep ==
    /\ focus = "transfers" /\ XferNext
    /\ UNCHANGED <<focus, probeVars, rpcVars, riskVars, costVars, planVars,
                   acctVars, gasVars, replayVars, perpVars, searchVars>>
GasStep ==
    /\ focus = "gas" /\ GasNext
    /\ UNCHANGED <<focus, probeVars, rpcVars, riskVars, costVars, planVars,
                   acctVars, xferVars, replayVars, perpVars, searchVars>>
PolicyStep ==
    /\ focus = "policy" /\ Policy!ReplayNext
    /\ UNCHANGED <<focus, probeVars, rpcVars, riskVars, costVars, planVars,
                   acctVars, xferVars, gasVars, perpVars, searchVars>>
PerpStep ==
    /\ focus = "perp" /\ PerpNext
    /\ UNCHANGED <<focus, probeVars, rpcVars, riskVars, costVars, planVars,
                   acctVars, xferVars, gasVars, replayVars, searchVars>>
SwapStep ==
    /\ focus = "swap" /\ Swap!PlanNext
    /\ UNCHANGED <<focus, probeVars, rpcVars, riskVars, costVars, planVars,
                   acctVars, xferVars, gasVars, replayVars, perpVars>>

MCNext ==
    \/ ProbeStep
    \/ RpcStep
    \/ RiskStep
    \/ CostStep
    \/ CanaryStep
    \/ AcctStep
    \/ XferStep
    \/ GasStep
    \/ PolicyStep
    \/ PerpStep
    \/ SwapStep

\* What is computed from stored pool data is what one chain has, however it is
\* reorganised between the reads: the fee accounting of a wallet, and a
\* certified policy replay, which also keeps its capital through every move.
DerivedTrue == Acct!AccountsOnOneChain /\ Policy!ReplaySound

\* The swap search finds an input when there is one, and none that meets the
\* target with less.
SwapSound == Swap!SwapSound

\* An entry rests on vouched evidence: the node it was read from was judged on
\* a buried anchor, the gate's validation is of the run it joins, the plan is
\* sized on its source after an unbroken recovery.
EntryVouched == Probe!CleanAnchorBuried /\ Risk!GateVouches /\ Canary!PlanVouched
============================================================================

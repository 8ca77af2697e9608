------------------------------ MODULE RiskGate ------------------------------
(***************************************************************************)
(* Risk snapshots and the gate that reads them (src/src/risk/*.ts,          *)
(* src/src/risk.ts, the risk steps of src/src/tail/runner.ts).              *)
(*                                                                          *)
(* Collectors (the tail, the LP workers' bounded refresh, the CLI) start an *)
(* attempt, read registry, feeds and chain at one block, save a run and     *)
(* record whether its block is still canonical.  The gate joins the newest  *)
(* attempt with its run and that run's validation.  What the sources say is *)
(* external; one asset and the quote stand for all.                         *)
(***************************************************************************)
EXTENDS Integers, Sequences, SequencesExt, FiniteSets

CONSTANTS
    Collectors,           \* processes that collect risk snapshots
    MaxSnapshotAge,       \* RISK_GATE_MAX_SNAPSHOT_AGE_SECONDS
    MaxCanonicalityAge,   \* RISK_GATE_MAX_CANONICALITY_AGE_SECONDS
    MaxPriceAge,          \* RISK_MAX_PRICE_AGE_SECONDS
    MaxAttempts,          \* bound on attempts
    MaxForks,             \* bound on reorganisations
    MaxTime               \* bound on the clock

VARIABLES
    riskNow,
    tip,          \* the block at the safe head: [fork, at]
    replaced,     \* history: when a fork stopped being canonical
    covered,      \* whether indexer and replay reached the tip's block
    attempts,     \* risk_snapshot_attempts
    riskRuns,     \* risk_snapshot_runs
    validation,   \* risk_snapshot_canonicality, by run
    job           \* each collector's attempt

riskVars == <<riskNow, tip, replaced, covered, attempts, riskRuns, validation, job>>

Never == -1
NoJob == [pc |-> "idle", attempt |-> 0, block |-> [fork |-> 0, at |-> 0],
          reasons |-> {}]

----------------------------------------------------------------------------
(* Evaluation of what was read.                                             *)

\* A round that could not be read.
FailedRound == [updatedAt |-> Never, complete |-> FALSE]

evaluateOracleRisk(block, round) ==
    IF round = FailedRound THEN {"oracle_read_failed"}
    ELSE {r \in {"oracle_price_stale"} :
            \/ round.updatedAt <= 0
            \/ round.updatedAt > block.at
            \/ block.at - round.updatedAt > MaxPriceAge}
         \cup {r \in {"oracle_timestamp_future"} : round.updatedAt > block.at}
         \cup {r \in {"oracle_round_incomplete"} :
                 round.updatedAt <= 0 \/ ~round.complete}

\* tradable, multiplier and pause as registry and token report them.
evaluateAssetRisk(asset, oracle, quote, global) ==
    global \cup oracle
    \cup {r \in {"trading_not_tradable"} : ~asset.tradable}
    \cup {r \in {"token_risk_read_failed"} : asset.onchain = "failed"}
    \cup {r \in {"registry_multiplier_mismatch"} : asset.onchain # asset.registry}
    \cup {r \in {"oracle_paused"} : asset.onchain = "paused"}
    \cup {r \in {"quote_oracle_unavailable"} : quote # {}}

\* Every snapshot carries sequencer_feed_unavailable: no sequencer feed is read.
collectRiskSnapshot(block, asset, round, quoteRound, sessionOpen) ==
    LET global == {"sequencer_feed_unavailable"}
                  \cup {r \in {"market_session_unverified"} : ~sessionOpen}
        quote == evaluateOracleRisk(block, quoteRound)
        own == evaluateAssetRisk(asset, evaluateOracleRisk(block, round), quote, global)
    IN  global \cup quote \cup {r \in {"asset_ineligible"} : own # {}}

Rounds(block) ==
    {FailedRound} \cup [updatedAt: {0, block.at, block.at + 1}, complete: BOOLEAN]
Assets == [tradable: BOOLEAN, registry: {"m1", "m2"},
           onchain: {"m1", "paused", "failed"}]

RiskInit ==
    /\ riskNow = MaxPriceAge
    /\ tip = [fork |-> 1, at |-> MaxPriceAge]
    /\ replaced = <<Never>>
    /\ covered = FALSE
    /\ attempts = <<>> /\ riskRuns = <<>> /\ validation = <<>>
    /\ job = [c \in Collectors |-> NoJob]

----------------------------------------------------------------------------
(* A collector.                                                             *)

startAttempt(c) ==
    /\ job[c].pc = "idle"
    /\ Len(attempts) < MaxAttempts
    /\ attempts' = Append(attempts, [status |-> "started", run |-> 0])
    /\ job' = [job EXCEPT ![c] = [NoJob EXCEPT !.pc = "started",
                    !.attempt = Len(attempts) + 1, !.block = tip]]
    /\ UNCHANGED <<riskNow, tip, replaced, covered, riskRuns, validation>>

\* The sources answer; the interesting part of the answer is what it blocks.
Collect(c) ==
    /\ job[c].pc = "started"
    /\ \E reasons \in {collectRiskSnapshot(tip, asset, round, quote, quote # FailedRound) :
            asset \in Assets, round \in Rounds(tip),
            quote \in {FailedRound, [updatedAt |-> tip.at, complete |-> TRUE]}} :
         job' = [job EXCEPT ![c].pc = "collected", ![c].block = tip,
                   ![c].reasons = reasons]
    /\ UNCHANGED <<riskNow, tip, replaced, covered, attempts, riskRuns, validation>>

failAttempt(c) ==
    /\ job[c].pc \in {"started", "collected"}
    /\ attempts' = [attempts EXCEPT ![job[c].attempt].status = "failed"]
    /\ job' = [job EXCEPT ![c].pc = "validate"]
    /\ UNCHANGED <<riskNow, tip, replaced, covered, riskRuns, validation>>

save(c) ==
    /\ job[c].pc = "collected"
    /\ attempts[job[c].attempt].status = "started"
    /\ riskRuns' = Append(riskRuns, [block |-> job[c].block,
                     observedAt |-> riskNow, reasons |-> job[c].reasons])
    /\ validation' = Append(validation, [canonical |-> FALSE, at |-> Never])
    /\ attempts' = [attempts EXCEPT ![job[c].attempt] =
                      [status |-> "succeeded", run |-> Len(riskRuns) + 1]]
    /\ job' = [job EXCEPT ![c].pc = "validate"]
    /\ UNCHANGED <<riskNow, tip, replaced, covered>>

\* The block read of a validation and the row it writes are apart.
validateCanonicalRow(run, c, readable) ==
    job' = [job EXCEPT ![c] = [NoJob EXCEPT !.pc = "record", !.attempt = run,
              !.reasons = IF readable /\ riskRuns[run].block.fork = tip.fork
                          THEN {"canonical"} ELSE {}]]

\* The tail validates every cycle, also after a failed or skipped snapshot.
validateLatestCanonical(c) ==
    /\ job[c].pc \in {"idle", "validate"} /\ riskRuns # <<>>
    /\ \E readable \in BOOLEAN : validateCanonicalRow(Len(riskRuns), c, readable)
    /\ UNCHANGED <<riskNow, tip, replaced, covered, attempts, riskRuns, validation>>

\* validationOnly: an LP worker refreshes the run its gate decision named.
validateRunCanonical(c) ==
    /\ job[c].pc = "idle"
    /\ attempts # <<>> /\ Last(attempts).run # 0
    /\ \E readable \in BOOLEAN : validateCanonicalRow(Last(attempts).run, c, readable)
    /\ UNCHANGED <<riskNow, tip, replaced, covered, attempts, riskRuns, validation>>

\* validated_at is the database's NOW() when the row is written.
RecordValidation(c) ==
    /\ job[c].pc = "record"
    /\ validation' = [validation EXCEPT ![job[c].attempt] =
                        [canonical |-> job[c].reasons # {}, at |-> riskNow]]
    /\ job' = [job EXCEPT ![c] = NoJob]
    /\ UNCHANGED <<riskNow, tip, replaced, covered, attempts, riskRuns>>

\* The process ends; its attempt stays "started".
Die(c) ==
    /\ job[c].pc # "idle"
    /\ job' = [job EXCEPT ![c] = NoJob]
    /\ UNCHANGED <<riskNow, tip, replaced, covered, attempts, riskRuns, validation>>

----------------------------------------------------------------------------
(* The chain, the indexer and the clock.                                    *)

Reorg ==
    /\ Len(replaced) <= MaxForks
    /\ replaced' = Append([replaced EXCEPT ![tip.fork] = riskNow], Never)
    /\ tip' = [tip EXCEPT !.fork = tip.fork + 1]
    /\ UNCHANGED <<riskNow, covered, attempts, riskRuns, validation, job>>

Cover ==
    /\ covered' = TRUE
    /\ UNCHANGED <<riskNow, tip, replaced, attempts, riskRuns, validation, job>>

\* An RPC read and the write that records it take less than a tick.
RiskTick ==
    /\ riskNow < MaxTime
    /\ \A c \in Collectors : job[c].pc # "record"
    /\ riskNow' = riskNow + 1
    /\ UNCHANGED <<tip, replaced, covered, attempts, riskRuns, validation, job>>

RiskNext ==
    \/ \E c \in Collectors :
         \/ startAttempt(c) \/ Collect(c) \/ failAttempt(c) \/ save(c)
         \/ validateLatestCanonical(c) \/ validateRunCanonical(c)
         \/ RecordValidation(c) \/ Die(c)
    \/ Reorg \/ Cover \/ RiskTick

----------------------------------------------------------------------------
(* The gate.                                                                *)

Unvalidated == [canonical |-> FALSE, at |-> Never]

\* Mutant: the newest validation is taken for the run's own.
NewestValidation(run) == Last(validation)

ValidationOf(run) == validation[run]

readRiskGate ==
    IF attempts = <<>> THEN {"risk_attempt_missing"}
    ELSE LET attempt == Last(attempts) IN
         {r \in {"latest_risk_attempt"} : attempt.status # "succeeded"}
         \cup IF attempt.run = 0 THEN {"risk_snapshot_missing"}
              ELSE LET run == riskRuns[attempt.run]
                       check == ValidationOf(attempt.run)
                   IN  run.reasons
                       \cup {r \in {"risk_snapshot_stale"} :
                               riskNow - run.observedAt > MaxSnapshotAge}
                       \cup {r \in {"risk_block_validation_missing"} :
                               check = Unvalidated}
                       \cup {r \in {"risk_block_validation_stale"} :
                               riskNow - check.at > MaxCanonicalityAge}
                       \cup {r \in {"risk_block_not_canonical"} : ~check.canonical}
                       \cup {r \in {"risk_snapshot_ahead_of_canonical_state"} :
                               ~covered}

\* No snapshot is without these two, so this is as clear as the gate gets.
GateClear == readRiskGate \subseteq {"sequencer_feed_unavailable", "asset_ineligible"}

(***************************************************************************)
(* Concurrent collectors save and validate in any order, an attempt may be  *)
(* overtaken or die, and the chain may reorganise at any moment: when the   *)
(* gate names no obstacle but the permanent ones, the block of the snapshot *)
(* it rests on was canonical within the last MaxCanonicalityAge, and the    *)
(* snapshot is at most MaxSnapshotAge old (readRiskGate over                *)
(* validateLatestCanonical and validateRunCanonical).                       *)
(***************************************************************************)
GateVouches ==
    GateClear =>
      LET run == riskRuns[Last(attempts).run]
      IN  /\ replaced[run.block.fork] \in {Never} \cup (riskNow - MaxCanonicalityAge)..riskNow
          /\ riskNow - run.observedAt <= MaxSnapshotAge
============================================================================

----------------------------- MODULE RpcCircuit -----------------------------
(***************************************************************************)
(* The circuit breaker between the RPC health monitor and bulk readers      *)
(* (src/src/rpc-health/policy.ts, store.ts, src/src/rpc-health.ts).         *)
(*                                                                          *)
(* The monitor appends a sample per probe round to rpc_health_samples; what *)
(* a round finds (RpcProbe) is a verdict here: clean, soft or hard reasons. *)
(* Every bulk worker asks a gate that caches the newest sample.             *)
(***************************************************************************)
EXTENDS Integers, FiniteSetsExt

CONSTANTS
    RecoverySamples,  \* clean samples before the circuit closes
    CacheTicks,       \* the gate's cacheMs
    MaxAge,           \* the gate's maxSampleAgeSeconds
    MaxTime           \* bound on the clock

VARIABLES
    rpcNow,    \* the clock
    sample,    \* the row LATEST_SQL returns
    clean,     \* history: clean samples since the last unhealthy one
    badAt,     \* history: when the unhealthy spell was first recorded
    gate,      \* the gate's cache and its pending query
    grant      \* when the gate last gave permission, Never when it last refused

rpcVars == <<rpcNow, sample, clean, badAt, gate, grant>>

Never == -1
NoSample == [state |-> "none", observedAt |-> Never, streak |-> 0]
NoStatus == [state |-> "none", observedAt |-> Never]

\* Mutant: one clean sample after a degraded one closes the circuit.
DegradedRecovers(previous, verdict, streak) ==
    IF verdict = "hard" THEN "open"
    ELSE IF verdict = "soft" THEN "degraded"
    ELSE IF \/ previous.state \in {"healthy", "degraded"}
            \/ streak >= RecoverySamples
         THEN "healthy" ELSE "half_open"

CircuitState(previous, verdict, streak) ==
    IF verdict = "hard" THEN "open"
    ELSE IF verdict = "soft" THEN "degraded"
    ELSE IF previous.state = "healthy" \/ streak >= RecoverySamples
         THEN "healthy" ELSE "half_open"

evaluateRpcHealth(previous, verdict) ==
    LET streak == IF verdict = "clean"
                  THEN Min({previous.streak + 1, RecoverySamples}) ELSE 0
    IN  [state |-> CircuitState(previous, verdict, streak),
         observedAt |-> rpcNow, streak |-> streak]

RpcInit ==
    /\ rpcNow = 0
    /\ sample = NoSample
    /\ clean = 0
    /\ badAt = 0
    /\ gate = [cached |-> NoStatus, cachedAt |-> -CacheTicks,
               pending |-> "none", row |-> NoStatus]
    /\ grant = Never

----------------------------------------------------------------------------
\* One cycle of the monitor: read the previous sample, probe, evaluate, save.
\* Nothing else writes samples, so the cycle is one step.
Cycle(verdict) ==
    /\ sample' = evaluateRpcHealth(sample, verdict)
    /\ clean' = IF verdict = "clean" THEN Min({clean + 1, RecoverySamples}) ELSE 0
    /\ badAt' = IF verdict # "clean" /\ clean >= RecoverySamples
                THEN rpcNow ELSE badAt
    /\ UNCHANGED <<rpcNow, gate, grant>>

----------------------------------------------------------------------------
(* The gate of a bulk worker.                                               *)

gateStatus(row) == [state |-> row.state, observedAt |-> row.observedAt]

\* Mutant: a cached status is not aged.
Ageless(status) == status.state = "healthy"

Permits(status) ==
    /\ status.state = "healthy"
    /\ rpcNow - status.observedAt \in 0..MaxAge

Answer(status) ==
    grant' = IF Permits(status) THEN rpcNow ELSE Never

AssertCached ==
    /\ rpcNow - gate.cachedAt < CacheTicks
    /\ Answer(gate.cached)
    /\ UNCHANGED <<rpcNow, sample, clean, badAt, gate>>

QueryLatest ==
    /\ rpcNow - gate.cachedAt >= CacheTicks
    /\ gate.pending = "none"
    /\ gate' = [gate EXCEPT !.pending = "sent"]
    /\ UNCHANGED <<rpcNow, sample, clean, badAt, grant>>

QueryRuns ==
    /\ gate.pending = "sent"
    /\ gate' = [gate EXCEPT !.pending = "read", !.row = gateStatus(sample)]
    /\ UNCHANGED <<rpcNow, sample, clean, badAt, grant>>

QueryReturns ==
    /\ gate.pending = "read"
    /\ gate' = [cached |-> gate.row, cachedAt |-> rpcNow, pending |-> "none",
                row |-> NoStatus]
    /\ Answer(gate.row)
    /\ UNCHANGED <<rpcNow, sample, clean, badAt>>

Tick ==
    /\ rpcNow < MaxTime
    /\ rpcNow' = rpcNow + 1
    /\ UNCHANGED <<sample, clean, badAt, gate, grant>>

RpcNext ==
    \/ \E verdict \in {"clean", "soft", "hard"} : Cycle(verdict)
    \/ AssertCached \/ QueryLatest \/ QueryRuns \/ QueryReturns
    \/ Tick

RpcSpec == RpcInit /\ [][RpcNext]_rpcVars

----------------------------------------------------------------------------
(***************************************************************************)
(* After an unhealthy sample the newest sample allows bulk reads only once  *)
(* RecoverySamples clean ones have been saved in a row, whatever mixture of *)
(* hard and soft reasons the spell was made of (evaluateRpcHealth).         *)
(***************************************************************************)
HysteresisKept == sample.state = "healthy" => clean >= RecoverySamples

(***************************************************************************)
(* The gate's cache, its shared pending query and the age test together:    *)
(* however long the query takes, a permission is given at most MaxAge after *)
(* the unhealthy spell was first recorded (assertBulkAllowed, readLatest).  *)
(***************************************************************************)
StaleGrantBounded ==
    grant # Never /\ clean < RecoverySamples => grant <= badAt + MaxAge

\* The circuit closes only after its recovery samples, and a cached grant
\* outlives an opened circuit only by its age.
CircuitSound == HysteresisKept /\ StaleGrantBounded
============================================================================

--------------------------- MODULE Services_proofs ---------------------------
(***************************************************************************)
(* Seven parts that share no state: the circuit breaker before the bulk    *)
(* readers, the evidence of costs, the wallet's transfer index, the        *)
(* assessments of weekend prices, the hold that keeps the worker's         *)
(* observer away from an operator's close, the two observations a paper    *)
(* campaign opens on, and the gas measured for paper campaigns.            *)
(***************************************************************************)
EXTENDS RpcCircuit, CostEvidence, TransferIndex, PerpReference, ManagementHold,
        PaperConfirmation, PaperGasEvidence, FiniteSetTheorems, SequenceTheorems, TLAPS

-----------------------------------------------------------------------------
(* RpcCircuit.  The stored streak is the number of clean samples since the *)
(* last unhealthy one, so `healthy' needs RecoverySamples of them.  While  *)
(* fewer are there, every healthy status the gate still holds was observed *)
(* before the spell was recorded, and its age bounds the permission.       *)

Verdicts == {"clean", "soft", "hard"}
States == {"none", "healthy", "degraded", "half_open", "open"}
Status == [state : States, observedAt : Int]
GateRecord == [cached : Status, cachedAt : Int, pending : {"none", "sent", "read"}, row : Status]

RpcTypeOK ==
    /\ rpcNow \in Nat /\ badAt \in Nat /\ clean \in Nat /\ grant \in Int
    /\ sample \in [state : States, observedAt : Int, streak : Nat]
    /\ gate \in GateRecord

\* A status that allows bulk reads is not from the future, and during a spell
\* not from after its beginning.
Dated(status) ==
    status.state = "healthy" =>
        /\ status.observedAt <= rpcNow
        /\ clean < RecoverySamples => status.observedAt <= badAt

RpcInv ==
    /\ RpcTypeOK
    /\ sample.streak = clean /\ sample.observedAt <= rpcNow /\ badAt <= rpcNow
    /\ Dated(gate.cached) /\ Dated(gate.row)
    /\ grant <= rpcNow
    /\ CircuitSound

LEMMA MinOfTwo ==
  ASSUME NEW a \in Nat, NEW b \in Nat
  PROVE  Min({a, b}) = IF a <= b THEN a ELSE b
<1>1. CASE a <= b
  <2>1. \A x \in {a, b} : (\A y \in {a, b} : x =< y) <=> x = a
    BY <1>1
  <2> QED BY <1>1, <2>1 DEF Min
<1>2. CASE ~(a <= b)
  <2>1. \A x \in {a, b} : (\A y \in {a, b} : x =< y) <=> x = b
    BY <1>2
  <2> QED BY <1>2, <2>1 DEF Min
<1> QED BY <1>1, <1>2

LEMMA CycleKeeps ==
  ASSUME RpcInv, RecoverySamples \in Nat, MaxAge \in Nat, NEW verdict \in Verdicts, Cycle(verdict)
  PROVE  RpcInv'
<1> DEFINE s == IF verdict = "clean" THEN Min({sample.streak + 1, RecoverySamples}) ELSE 0
<1>1. sample.streak = clean /\ clean \in Nat /\ rpcNow \in Nat /\ badAt \in Nat /\ badAt <= rpcNow
  BY DEF RpcInv, RpcTypeOK
<1>2. PICK n \in Nat : n = s
  BY <1>1, MinOfTwo
<1>3. clean' = n
  BY <1>1, <1>2 DEF Cycle
<1>4. /\ sample' = [state |-> CircuitState(sample, verdict, n), observedAt |-> rpcNow, streak |-> n]
      /\ badAt' = IF verdict # "clean" /\ clean >= RecoverySamples THEN rpcNow ELSE badAt
      /\ UNCHANGED <<rpcNow, gate, grant>>
  BY <1>2 DEF Cycle, evaluateRpcHealth
<1> HIDE DEF s
<1>5. PICK c \in States : c = CircuitState(sample, verdict, n)
  BY DEF CircuitState, States
<1>6. /\ sample' \in [state : States, observedAt : Int, streak : Nat]
      /\ sample'.state = c /\ sample'.observedAt = rpcNow /\ sample'.streak = n
  BY <1>1, <1>4, <1>5
<1>7. c = "healthy" => n >= RecoverySamples
  <2> SUFFICES ASSUME c = "healthy" PROVE n >= RecoverySamples
    OBVIOUS
  <2>1. verdict = "clean" /\ (sample.state = "healthy" \/ n >= RecoverySamples)
    <3>1. CASE verdict = "clean"
      BY <1>5, <3>1 DEF CircuitState
    <3>2. CASE verdict # "clean"
      BY <1>5, <3>2 DEF CircuitState, Verdicts
    <3> QED BY <3>1, <3>2
  <2>2. sample.state = "healthy" => clean >= RecoverySamples
    BY DEF RpcInv, CircuitSound, HysteresisKept
  <2>3. n = IF clean + 1 <= RecoverySamples THEN clean + 1 ELSE RecoverySamples
    BY <1>1, <1>2, <2>1, MinOfTwo DEF s
  <2> QED BY <1>1, <2>1, <2>2, <2>3
<1>8. /\ badAt' \in Nat /\ badAt' <= rpcNow
      /\ n < RecoverySamples => badAt' = rpcNow \/ (clean < RecoverySamples /\ badAt' = badAt)
  <2>1. CASE verdict = "clean" /\ n < RecoverySamples
    <3>1. n = IF clean + 1 <= RecoverySamples THEN clean + 1 ELSE RecoverySamples
      BY <1>1, <1>2, <2>1, MinOfTwo DEF s
    <3> QED BY <1>1, <1>4, <2>1, <3>1
  <2>2. CASE verdict # "clean" \/ ~(n < RecoverySamples)
    BY <1>1, <1>4, <2>2
  <2> QED BY <2>1, <2>2
<1>9. RpcTypeOK'
  BY <1>3, <1>4, <1>6, <1>8 DEF RpcInv, RpcTypeOK
<1>10. \A t \in Status : Dated(t) =>
         (t.state = "healthy" => /\ t.observedAt <= rpcNow
                                 /\ n < RecoverySamples => t.observedAt <= badAt')
  BY <1>1, <1>8 DEF Dated, Status
<1>11. gate.cached \in Status /\ gate.row \in Status
  BY DEF RpcInv, RpcTypeOK, GateRecord
<1>12. Dated(gate.cached)' /\ Dated(gate.row)'
  BY <1>3, <1>4, <1>10, <1>11 DEF RpcInv, Dated
<1>13. HysteresisKept'
  BY <1>3, <1>6, <1>7 DEF HysteresisKept
<1>14. StaleGrantBounded'
  <2> SUFFICES ASSUME grant # Never, n < RecoverySamples PROVE grant <= badAt' + MaxAge
    BY <1>3, <1>4 DEF StaleGrantBounded
  <2>1. grant \in Int /\ grant <= rpcNow
    BY DEF RpcInv, RpcTypeOK
  <2>2. clean < RecoverySamples => grant <= badAt + MaxAge
    BY DEF RpcInv, CircuitSound, StaleGrantBounded
  <2>3. CASE badAt' = rpcNow
    BY <1>1, <2>1, <2>3
  <2>4. CASE clean < RecoverySamples /\ badAt' = badAt
    BY <2>2, <2>4
  <2> QED BY <1>8, <2>3, <2>4
<1> QED BY <1>3, <1>4, <1>6, <1>8, <1>9, <1>12, <1>13, <1>14, <1>1 DEF RpcInv, CircuitSound

\* An answer of the gate, from a status it may hold.
LEMMA AnswerBounded ==
  ASSUME RpcInv, MaxAge \in Nat, NEW status \in Status, Dated(status), Answer(status)
  PROVE  /\ grant' \in Int /\ grant' <= rpcNow
         /\ grant' # Never /\ clean < RecoverySamples => grant' <= badAt + MaxAge
<1>1. rpcNow \in Nat /\ badAt \in Nat /\ status.observedAt \in Int
  BY DEF RpcInv, RpcTypeOK, Status
<1>2. CASE Permits(status)
  <2>1. grant' = rpcNow /\ status.state = "healthy" /\ rpcNow - status.observedAt <= MaxAge
    BY <1>1, <1>2 DEF Answer, Permits
  <2>2. clean < RecoverySamples => status.observedAt <= badAt
    BY <2>1 DEF Dated
  <2> QED BY <1>1, <2>1, <2>2
<1>3. CASE ~Permits(status)
  BY <1>1, <1>3 DEF Answer, Never
<1> QED BY <1>2, <1>3

LEMMA AssertKeeps == ASSUME RpcInv, MaxAge \in Nat, AssertCached PROVE RpcInv'
<1>1. gate.cached \in Status /\ Dated(gate.cached)
  BY DEF RpcInv, RpcTypeOK, GateRecord
<1>2. Answer(gate.cached) /\ UNCHANGED <<rpcNow, sample, clean, badAt, gate>>
  BY DEF AssertCached
<1>3. /\ grant' \in Int /\ grant' <= rpcNow
      /\ grant' # Never /\ clean < RecoverySamples => grant' <= badAt + MaxAge
  BY <1>1, <1>2, AnswerBounded
<1>4. Dated(gate.cached)' /\ Dated(gate.row)'
  BY <1>2 DEF RpcInv, Dated
<1> QED BY <1>2, <1>3, <1>4
     DEF RpcInv, RpcTypeOK, CircuitSound, HysteresisKept, StaleGrantBounded

LEMMA QueryKeeps ==
  ASSUME RpcInv, gate' \in GateRecord, UNCHANGED <<rpcNow, sample, clean, badAt, grant>>,
         Dated(gate'.cached), Dated(gate'.row)
  PROVE  RpcInv'
<1>1. Dated(gate.cached)' /\ Dated(gate.row)'
  BY DEF Dated
<1> QED BY <1>1 DEF RpcInv, RpcTypeOK, CircuitSound, HysteresisKept, StaleGrantBounded

LEMMA LatestKeeps == ASSUME RpcInv, QueryLatest PROVE RpcInv'
<1>1. gate \in GateRecord /\ gate' = [gate EXCEPT !.pending = "sent"]
  BY DEF RpcInv, RpcTypeOK, QueryLatest
<1>2. gate' \in GateRecord /\ gate'.cached = gate.cached /\ gate'.row = gate.row
  BY <1>1 DEF GateRecord
<1> QED BY <1>2, QueryKeeps DEF QueryLatest, RpcInv

\* The newest sample is read: healthy only outside a spell.
LEMMA RunsKeeps == ASSUME RpcInv, RecoverySamples \in Nat, QueryRuns PROVE RpcInv'
<1>1. /\ sample \in [state : States, observedAt : Int, streak : Nat]
      /\ sample.observedAt <= rpcNow
      /\ sample.state = "healthy" => clean >= RecoverySamples
      /\ gate \in GateRecord /\ clean \in Nat
  BY DEF RpcInv, RpcTypeOK, CircuitSound, HysteresisKept
<1>2. PICK r \in Status : r = gateStatus(sample) /\ r.state = sample.state
                          /\ r.observedAt = sample.observedAt
  <2>1. sample.state \in States /\ sample.observedAt \in Int
    BY <1>1
  <2>2. PICK r : r = [state |-> sample.state, observedAt |-> sample.observedAt]
    OBVIOUS
  <2>3. r \in Status
    BY <2>1, <2>2 DEF Status
  <2>4. r = gateStatus(sample) /\ r.state = sample.state /\ r.observedAt = sample.observedAt
    BY <2>2 DEF gateStatus
  <2> QED BY <2>3, <2>4
<1>3. gate' = [gate EXCEPT !.pending = "read", !.row = r]
  BY <1>2 DEF QueryRuns
<1>4. gate' \in GateRecord /\ gate'.cached = gate.cached /\ gate'.row = r
  BY <1>1, <1>3 DEF GateRecord
<1>5. r.state # "healthy" \/ ~(clean < RecoverySamples)
  BY <1>1, <1>2
<1>6. Dated(r)
  BY <1>1, <1>2, <1>5 DEF Dated
<1> QED BY <1>4, <1>6, QueryKeeps DEF QueryRuns, RpcInv

LEMMA ReturnsKeeps == ASSUME RpcInv, MaxAge \in Nat, QueryReturns PROVE RpcInv'
<1>1. gate.row \in Status /\ Dated(gate.row) /\ rpcNow \in Nat
  BY DEF RpcInv, RpcTypeOK, GateRecord
<1>2. Answer(gate.row) /\ UNCHANGED <<rpcNow, sample, clean, badAt>>
  BY DEF QueryReturns
<1>3. /\ grant' \in Int /\ grant' <= rpcNow
      /\ grant' # Never /\ clean < RecoverySamples => grant' <= badAt + MaxAge
  BY <1>1, <1>2, AnswerBounded
<1>4. NoStatus \in Status /\ NoStatus.state = "none"
  BY DEF NoStatus, Status, States, Never
<1>5. gate' = [cached |-> gate.row, cachedAt |-> rpcNow, pending |-> "none", row |-> NoStatus]
  BY DEF QueryReturns
<1>6. gate' \in GateRecord /\ gate'.cached = gate.row /\ gate'.row = NoStatus
  BY <1>1, <1>4, <1>5 DEF GateRecord
<1>7. Dated(gate.cached)' /\ Dated(gate.row)'
  BY <1>1, <1>2, <1>4, <1>6 DEF Dated
<1> QED BY <1>2, <1>3, <1>6, <1>7
     DEF RpcInv, RpcTypeOK, CircuitSound, HysteresisKept, StaleGrantBounded

LEMMA TickKeeps == ASSUME RpcInv, Tick PROVE RpcInv'
<1>1. /\ rpcNow \in Nat /\ rpcNow' = rpcNow + 1 /\ UNCHANGED <<sample, clean, badAt, gate, grant>>
      /\ sample.observedAt \in Int /\ grant \in Int /\ badAt \in Nat
      /\ gate.cached.observedAt \in Int /\ gate.row.observedAt \in Int
  BY DEF RpcInv, RpcTypeOK, Tick, GateRecord, Status
<1>2. rpcNow' \in Nat /\ sample.observedAt <= rpcNow' /\ badAt <= rpcNow' /\ grant <= rpcNow'
  BY <1>1 DEF RpcInv
<1>3. Dated(gate.cached)' /\ Dated(gate.row)'
  BY <1>1 DEF RpcInv, Dated
<1> QED BY <1>1, <1>2, <1>3
     DEF RpcInv, RpcTypeOK, CircuitSound, HysteresisKept, StaleGrantBounded

\* Bulk reads resume only after the recovery samples, and a permission that is
\* given during an unhealthy spell is given at most MaxAge after it was first
\* recorded: for every cache life, sample age and number of recovery samples.
THEOREM CircuitIsSound ==
  ASSUME RecoverySamples \in Nat, MaxAge \in Nat, CacheTicks \in Nat
  PROVE  RpcSpec => []CircuitSound
<1>1. RpcInit => RpcInv
  <2> SUFFICES ASSUME RpcInit PROVE RpcInv
    OBVIOUS
  <2>1. NoStatus \in Status /\ NoStatus.state = "none"
    BY DEF NoStatus, Status, States, Never
  <2>2. gate \in GateRecord /\ gate.cached = NoStatus /\ gate.row = NoStatus
    BY <2>1 DEF RpcInit, GateRecord
  <2>3. /\ sample \in [state : States, observedAt : Int, streak : Nat]
        /\ sample.state = "none" /\ sample.streak = 0 /\ sample.observedAt = -1
    BY DEF RpcInit, NoSample, States, Never
  <2>4. rpcNow = 0 /\ badAt = 0 /\ clean = 0 /\ grant = -1
    BY DEF RpcInit, Never
  <2> QED BY <2>1, <2>2, <2>3, <2>4
       DEF RpcInv, RpcTypeOK, Dated, CircuitSound, HysteresisKept, StaleGrantBounded, Never
<1>2. RpcInv /\ [RpcNext]_rpcVars => RpcInv'
  <2> SUFFICES ASSUME RpcInv, [RpcNext]_rpcVars PROVE RpcInv'
    OBVIOUS
  <2>1. CASE \E verdict \in Verdicts : Cycle(verdict)
    BY <2>1, CycleKeeps
  <2>2. CASE AssertCached \/ QueryLatest \/ QueryRuns \/ QueryReturns \/ Tick
    BY <2>2, AssertKeeps, LatestKeeps, RunsKeeps, ReturnsKeeps, TickKeeps
  <2>3. CASE UNCHANGED rpcVars
    BY <2>3 DEF rpcVars, RpcInv, RpcTypeOK, Dated, CircuitSound, HysteresisKept, StaleGrantBounded
  <2> QED BY <2>1, <2>2, <2>3 DEF RpcNext, Verdicts
<1>3. RpcInv => CircuitSound
  BY DEF RpcInv
<1> QED BY <1>1, <1>2, <1>3, PTL DEF RpcSpec

-----------------------------------------------------------------------------
(* CostEvidence.  A command carries the branch of what it loaded and the   *)
(* branch it saw; only what agrees in both is saved as a measured cost.    *)
(* Saved runs are never changed, and the transaction that all of them are  *)
(* about is fixed by the first scan, before which there is none.           *)

\* A valuation that counts was made on the branch of what it values.
Sighted(v) == v.valid => v.branch = v.seen

\* What a command has at hand.
Carried(w) ==
    /\ w = [pc |-> w.pc, head |-> w.head, branch |-> w.branch, seen |-> w.seen,
            source |-> w.source, second |-> w.second, directory |-> w.directory, ok |-> w.ok]
    /\ w.pc = "save_actions" => w.branch = w.seen
    /\ w.pc \in {"save_value", "save_approval_value"} => (w.ok => w.branch = w.seen)

\* Saved valuations, in their order.
Saved(s) == /\ s = [i \in 1..Len(s) |-> s[i]] /\ Len(s) \in Nat
            /\ \A i \in 1..Len(s) : Sighted(s[i])

\* An assessed call and a resolved model, over what they name.
Assessed(a) ==
    /\ a.value \in 1..Len(values)
    /\ a.status = "comparable" =>
         values[a.value].valid /\ (call = "mint" => classifyActionMix(events) = "mint_bundle")
Resolved(m) ==
    m.status = "entry_measured" =>
        /\ m.assessment \in 1..Len(assessments) /\ m.approval \in 1..Len(approvals)
        /\ call = "mint" /\ assessments[m.assessment].status = "comparable"
        /\ approvals[m.approval].valid

\* Before the first scan there is nothing.
Unscanned ==
    cursor.head = 0 =>
        /\ \A c \in Commands : work[c].pc = "idle"
        /\ Heads(actionRuns) = {} /\ Heads(approvalRuns) = {}
        /\ values = <<>> /\ assessments = <<>> /\ approvals = <<>> /\ models = <<>>

CostInv ==
    /\ cursor = [head |-> cursor.head, branch |-> cursor.branch] /\ cursor.head \in Nat
    /\ actionRuns = [h \in 1..MaxHead |-> actionRuns[h]]
    /\ RunsShareTheirBranch
    /\ work = [c \in Commands |-> work[c]] /\ \A c \in Commands : Carried(work[c])
    /\ Saved(values) /\ Saved(approvals)
    /\ assessments = [i \in 1..Len(assessments) |-> assessments[i]] /\ Len(assessments) \in Nat
    /\ \A i \in 1..Len(assessments) : Assessed(assessments[i])
    /\ models = [i \in 1..Len(models) |-> models[i]] /\ Len(models) \in Nat
    /\ \A i \in 1..Len(models) : Resolved(models[i])
    /\ Unscanned

LEMMA MaxOfTwo ==
  ASSUME NEW n \in Nat
  PROVE  Max({1, n}) \in Nat /\ Max({1, n}) >= 1
<1>1. CASE n <= 1
  <2>1. \A x \in {1, n} : (\A y \in {1, n} : x >= y) <=> x = 1
    BY <1>1
  <2> QED BY <2>1 DEF Max
<1>2. CASE ~(n <= 1)
  <2>1. \A x \in {1, n} : (\A y \in {1, n} : x >= y) <=> x = n
    BY <1>2
  <2> QED BY <1>2, <2>1 DEF Max
<1> QED BY <1>1, <1>2

\* A sequence of anything, and what Append makes of it.
LEMMA Appended ==
  ASSUME NEW s, NEW e, Len(s) \in Nat, s = [i \in 1..Len(s) |-> s[i]]
  PROVE  LET t == Append(s, e) IN
         /\ Len(t) = Len(s) + 1 /\ t = [i \in 1..Len(t) |-> t[i]]
         /\ \A i \in 1..Len(s) : t[i] = s[i]
         /\ t[Len(s) + 1] = e
<1>1. PICK n \in Nat : n = Len(s)
  OBVIOUS
<1>2. PICK T : T = {s[i] : i \in 1..n} \cup {e}
  OBVIOUS
<1>3. s \in [1..n -> T] /\ e \in T
  BY <1>1, <1>2
<1>4. s \in Seq(T)
  BY <1>3
<1>5. PICK t \in Seq(T) : t = Append(s, e)
  BY <1>3, <1>4, AppendProperties
<1>6. Len(t) = Len(s) + 1 /\ \A i \in 1..Len(s) : t[i] = s[i]
  BY <1>3, <1>4, <1>5
<1>7. t[Len(s) + 1] = e
  BY <1>3, <1>4, <1>5
<1>8. t = [i \in 1..Len(t) |-> t[i]]
  <2>1. t \in [1..Len(t) -> T]
    BY <1>5, LenProperties
  <2> QED BY <2>1
<1> QED BY <1>5, <1>6, <1>7, <1>8

LEMMA EmptyIs ==
  ASSUME NEW s, Len(s) \in Nat, s = [i \in 1..Len(s) |-> s[i]]
  PROVE  s # <<>> => Len(s) \in 1..Len(s)
<1>1. ASSUME Len(s) = 0 PROVE s = <<>>
  <2>1. s = [i \in 1..0 |-> s[i]]
    BY <1>1
  <2>2. s \in [1..0 -> {}]
    BY <2>1
  <2>3. s \in Seq({}) /\ Len(s) = 0
    BY <1>1, <2>2
  <2> QED BY <2>3
<1> QED BY <1>1

\* A step of one command that saves nothing the invariant speaks of.
LEMMA CommandMoves ==
  ASSUME CostInv, NEW c \in Commands, NEW w, Carried(w), cursor.head # 0,
         work' = [work EXCEPT ![c] = w],
         UNCHANGED <<cursor, events, call, actionRows, actionRuns, values, assessments,
                     approvals, models>>
  PROVE  CostInv'
<1>1. work' = [d \in Commands |-> work'[d]] /\ \A d \in Commands : Carried(work'[d])
  BY DEF CostInv
<1>2. RunsShareTheirBranch'
  BY DEF CostInv, RunsShareTheirBranch, Heads
<1>3. \A i \in 1..Len(assessments) : Assessed(assessments[i])'
  BY DEF CostInv, Assessed
<1>4. \A i \in 1..Len(models) : Resolved(models[i])'
  BY DEF CostInv, Resolved
<1> QED BY <1>1, <1>2, <1>3, <1>4 DEF CostInv, Unscanned

LEMMA Scanned ==
  ASSUME CostInv, NEW c \in Commands
  PROVE  /\ work[c].pc # "idle" => cursor.head # 0
         /\ Heads(actionRuns) # {} \/ Heads(approvalRuns) # {} => cursor.head # 0
         /\ values # <<>> \/ assessments # <<>> \/ approvals # <<>> => cursor.head # 0
BY DEF CostInv, Unscanned

LEMMA IdleCarried == Carried(Idle)
BY DEF Idle, Carried

\* What a command starts with has not been compared with anything.
LEMMA StartCarried ==
  ASSUME NEW w, w.pc \in {"receipt", "value", "approval_source", "value_approval"},
         w = [pc |-> w.pc, head |-> w.head, branch |-> w.branch, seen |-> w.seen,
              source |-> w.source, second |-> w.second, directory |-> w.directory, ok |-> w.ok]
  PROVE  Carried(w)
BY DEF Carried

\* loadSource of every command.
LEMMA LoadKeeps ==
  ASSUME CostInv, NEW c \in Commands,
         LoadActions(c) \/ LoadValuation(c) \/ LoadApprovals(c) \/ LoadApprovalValuation(c)
  PROVE  CostInv'
<1>1. PICK w : Carried(w) /\ work' = [work EXCEPT ![c] = w]
  <2>1. CASE LoadActions(c)
    <3>1. PICK w : w = [Idle EXCEPT !.pc = "receipt", !.head = cursor.head, !.branch = cursor.branch]
      OBVIOUS
    <3>2. Carried(w)
      <4>1. /\ w.pc \in {"receipt", "value", "approval_source", "value_approval"}
            /\ w = [pc |-> w.pc, head |-> w.head, branch |-> w.branch, seen |-> w.seen,
                    source |-> w.source, second |-> w.second, directory |-> w.directory, ok |-> w.ok]
        BY <3>1 DEF Idle
      <4> QED BY <4>1, StartCarried
    <3> QED BY <2>1, <3>1, <3>2 DEF LoadActions
  <2>2. CASE LoadApprovals(c)
    <3>1. PICK w : w = [Idle EXCEPT !.pc = "approval_source", !.head = cursor.head,
                          !.branch = cursor.branch]
      OBVIOUS
    <3>2. Carried(w)
      <4>1. /\ w.pc \in {"receipt", "value", "approval_source", "value_approval"}
            /\ w = [pc |-> w.pc, head |-> w.head, branch |-> w.branch, seen |-> w.seen,
                    source |-> w.source, second |-> w.second, directory |-> w.directory, ok |-> w.ok]
        BY <3>1 DEF Idle
      <4> QED BY <4>1, StartCarried
    <3> QED BY <2>2, <3>1, <3>2 DEF LoadApprovals
  <2>3. CASE LoadValuation(c)
    <3>1. PICK d, s, b :
            work' = [work EXCEPT ![c] = [Idle EXCEPT !.pc = "value", !.directory = d, !.source = s,
                                           !.branch = b]]
      BY <2>3 DEF LoadValuation
    <3>2. PICK w : w = [Idle EXCEPT !.pc = "value", !.directory = d, !.source = s, !.branch = b]
      OBVIOUS
    <3>3. Carried(w)
      <4>1. /\ w.pc \in {"receipt", "value", "approval_source", "value_approval"}
            /\ w = [pc |-> w.pc, head |-> w.head, branch |-> w.branch, seen |-> w.seen,
                    source |-> w.source, second |-> w.second, directory |-> w.directory, ok |-> w.ok]
        BY <3>2 DEF Idle
      <4> QED BY <4>1, StartCarried
    <3> QED BY <3>1, <3>2, <3>3
  <2>4. CASE LoadApprovalValuation(c)
    <3>1. PICK s, b :
            work' = [work EXCEPT ![c] = [Idle EXCEPT !.pc = "value_approval", !.source = s, !.branch = b]]
      BY <2>4 DEF LoadApprovalValuation
    <3>2. PICK w : w = [Idle EXCEPT !.pc = "value_approval", !.source = s, !.branch = b]
      OBVIOUS
    <3>3. Carried(w)
      <4>1. /\ w.pc \in {"receipt", "value", "approval_source", "value_approval"}
            /\ w = [pc |-> w.pc, head |-> w.head, branch |-> w.branch, seen |-> w.seen,
                    source |-> w.source, second |-> w.second, directory |-> w.directory, ok |-> w.ok]
        BY <3>2 DEF Idle
      <4> QED BY <4>1, StartCarried
    <3> QED BY <3>1, <3>2, <3>3
  <2> QED BY <2>1, <2>2, <2>3, <2>4
<1>4. UNCHANGED <<cursor, events, call, actionRows, actionRuns, values, assessments, approvals, models>>
  BY DEF LoadActions, LoadValuation, LoadApprovals, LoadApprovalValuation
<1>5. cursor.head # 0
  <2>1. CASE LoadActions(c) \/ LoadApprovals(c)
    BY <2>1 DEF LoadActions, LoadApprovals, CostInv
  <2>2. CASE LoadValuation(c) \/ LoadApprovalValuation(c)
    BY <2>2, Scanned DEF LoadValuation, LoadApprovalValuation
  <2> QED BY <2>1, <2>2
<1> QED BY <1>1, <1>4, <1>5, CommandMoves

\* The chain is read: what was loaded is compared with the branch it is on.
LEMMA ReadKeeps ==
  ASSUME CostInv, NEW c \in Commands,
         \/ evaluateActionCost(c) \/ evaluateActionCostValuation(c) \/ CheckApprovalSource(c)
         \/ FetchApprovals(c) \/ evaluateApprovalCost(c) \/ evaluateApprovalValuation(c)
  PROVE  CostInv'
<1>1. /\ work[c].pc # "idle" /\ cursor.head # 0
      /\ UNCHANGED <<cursor, events, call, actionRows, actionRuns, values, assessments, approvals, models>>
  BY Scanned DEF evaluateActionCost, evaluateActionCostValuation, CheckApprovalSource,
                 FetchApprovals, evaluateApprovalCost, evaluateApprovalValuation
<1>2. Carried(work[c]) /\ work = [d \in Commands |-> work[d]]
  BY DEF CostInv
<1>3. PICK w : Carried(w) /\ work' = [work EXCEPT ![c] = w]
  <2>1. CASE evaluateActionCost(c)
    <3>1. PICK w : w = IF work[c].branch = branch
                       THEN [work[c] EXCEPT !.pc = "save_actions", !.seen = branch] ELSE Idle
      OBVIOUS
    <3>2. Carried(w)
      BY <1>2, <3>1, IdleCarried DEF Carried
    <3> QED BY <2>1, <3>1, <3>2 DEF evaluateActionCost
  <2>2. CASE CheckApprovalSource(c)
    <3>1. PICK w : w = IF work[c].branch = branch
                       THEN [work[c] EXCEPT !.pc = "approval_logs"] ELSE Idle
      OBVIOUS
    <3>2. Carried(w)
      BY <1>2, <3>1, IdleCarried DEF Carried
    <3> QED BY <2>2, <3>1, <3>2 DEF CheckApprovalSource
  <2>3. CASE FetchApprovals(c)
    <3>1. PICK w : w = [work[c] EXCEPT !.pc = "approval_receipt", !.seen = branch]
      OBVIOUS
    <3>2. Carried(w)
      BY <1>2, <3>1 DEF Carried
    <3>3. work' = [work EXCEPT ![c] = w]
      BY <1>2, <2>3, <3>1 DEF FetchApprovals
    <3> QED BY <3>2, <3>3
  <2>4. CASE evaluateApprovalCost(c)
    <3>1. PICK direct \in BOOLEAN :
            work' = [work EXCEPT ![c] = IF work[c].seen = branch
                       THEN [work[c] EXCEPT !.pc = "save_approvals", !.ok = direct] ELSE Idle]
      BY <2>4 DEF evaluateApprovalCost
    <3>2. PICK w : w = IF work[c].seen = branch
                       THEN [work[c] EXCEPT !.pc = "save_approvals", !.ok = direct] ELSE Idle
      OBVIOUS
    <3>3. Carried(w)
      BY <1>2, <3>2, IdleCarried DEF Carried
    <3> QED BY <3>1, <3>2, <3>3
  <2>5. CASE evaluateActionCostValuation(c) \/ evaluateApprovalValuation(c)
    <3>1. PICK p \in {"save_value", "save_approval_value"}, oracles \in BOOLEAN :
            work' = [work EXCEPT ![c].pc = p, ![c].seen = branch,
                       ![c].ok = oracles /\ CanonicalBlock(work[c].branch)]
      BY <2>5 DEF evaluateActionCostValuation, evaluateApprovalValuation
    <3>2. PICK b \in BOOLEAN : b = (oracles /\ CanonicalBlock(work[c].branch))
      BY DEF CanonicalBlock
    <3>3. PICK w : w = [work[c] EXCEPT !.pc = p, !.seen = branch, !.ok = b]
      OBVIOUS
    <3>4. Carried(w)
      BY <1>2, <3>2, <3>3 DEF Carried, CanonicalBlock
    <3>5. work' = [work EXCEPT ![c] = w]
      BY <1>2, <3>1, <3>2, <3>3
    <3> QED BY <3>4, <3>5
  <2> QED BY <2>1, <2>2, <2>3, <2>4, <2>5
<1> QED BY <1>1, <1>3, CommandMoves

\* insertObservation's comparison: the first run decides the row, the others
\* agree with it.
LEMMA SaveActionsKeeps ==
  ASSUME CostInv, NEW c \in Commands, SaveActions(c)
  PROVE  CostInv'
<1>1. /\ work[c].pc = "save_actions" /\ cursor.head # 0 /\ work' = [work EXCEPT ![c] = Idle]
      /\ UNCHANGED <<cursor, events, call, values, assessments, approvals, models>>
  BY Scanned DEF SaveActions
<1>2. Carried(work[c]) /\ work[c].branch = work[c].seen
  BY <1>1 DEF CostInv, Carried
<1>3. RunsShareTheirBranch' /\ actionRuns' = [h \in 1..MaxHead |-> actionRuns'[h]]
  <2>1. CASE UNCHANGED <<actionRows, actionRuns>>
    BY <2>1 DEF CostInv, RunsShareTheirBranch, Heads
  <2>2. CASE ~UNCHANGED <<actionRows, actionRuns>>
    <3>1. PICK b, k : b = work[c].branch /\ k = work[c].head
      OBVIOUS
    <3>2. /\ actionRows \in {0, b} /\ actionRows' = IF actionRows = 0 THEN b ELSE actionRows
          /\ actionRuns' = [actionRuns EXCEPT ![k] = b]
      BY <1>2, <2>2, <3>1 DEF SaveActions, ExactRow
    <3>3. actionRows' = b
      BY <3>2
    <3>4. \A h \in 1..MaxHead : actionRuns[h] # 0 => actionRuns[h] = b
      BY <3>2 DEF CostInv, RunsShareTheirBranch, Heads
    <3>5. actionRuns = [h \in 1..MaxHead |-> actionRuns[h]]
      BY DEF CostInv
    <3>6. \A h \in 1..MaxHead : actionRuns'[h] # 0 => actionRuns'[h] = b
      BY <3>2, <3>4, <3>5
    <3> QED BY <3>2, <3>3, <3>5, <3>6 DEF RunsShareTheirBranch, Heads
  <2> QED BY <2>1, <2>2
<1>4. work' = [d \in Commands |-> work'[d]] /\ \A d \in Commands : Carried(work'[d])
  BY <1>1, IdleCarried DEF CostInv
<1>5. \A i \in 1..Len(assessments) : Assessed(assessments[i])'
  BY <1>1 DEF CostInv, Assessed
<1>6. \A i \in 1..Len(models) : Resolved(models[i])'
  BY <1>1 DEF CostInv, Resolved
<1> QED BY <1>1, <1>3, <1>4, <1>5, <1>6 DEF CostInv, Unscanned

\* A longer list of valuations says the same of the old ones.
LEMMA SavedAppended ==
  ASSUME NEW s, Saved(s), NEW v, Sighted(v)
  PROVE  /\ Saved(Append(s, v)) /\ 1..Len(s) \subseteq 1..Len(Append(s, v))
         /\ \A i \in 1..Len(s) : Append(s, v)[i] = s[i]
<1>1. Len(s) \in Nat /\ s = [i \in 1..Len(s) |-> s[i]] /\ \A i \in 1..Len(s) : Sighted(s[i])
  BY DEF Saved
<1>2. PICK t : t = Append(s, v)
  OBVIOUS
<1>3. /\ Len(t) = Len(s) + 1 /\ t = [i \in 1..Len(t) |-> t[i]]
      /\ \A i \in 1..Len(s) : t[i] = s[i]
      /\ t[Len(s) + 1] = v
  BY <1>1, <1>2, Appended
<1>4. \A i \in 1..Len(t) : i \in 1..Len(s) \/ i = Len(s) + 1
  BY <1>1, <1>3
<1>5. \A i \in 1..Len(t) : Sighted(t[i])
  BY <1>1, <1>3, <1>4
<1>6. 1..Len(s) \subseteq 1..Len(t)
  BY <1>1, <1>3
<1> QED BY <1>1, <1>2, <1>3, <1>5, <1>6 DEF Saved

LEMMA SaveValuationKeeps ==
  ASSUME CostInv, NEW c \in Commands, SaveValuation(c)
  PROVE  CostInv'
<1>1. /\ work[c].pc = "save_value" /\ cursor.head # 0 /\ work' = [work EXCEPT ![c] = Idle]
      /\ UNCHANGED <<cursor, events, call, actionRows, actionRuns, assessments, approvals, models>>
  BY Scanned DEF SaveValuation
<1>2. /\ Saved(values') /\ 1..Len(values) \subseteq 1..Len(values')
      /\ \A i \in 1..Len(values) : values'[i] = values[i]
  <2>1. CASE values' = values
    BY <2>1 DEF CostInv
  <2>2. CASE values' # values
    <3>1. PICK v : v = [source |-> work[c].source, directory |-> work[c].directory,
                        branch |-> work[c].branch, seen |-> work[c].seen, valid |-> work[c].ok]
      OBVIOUS
    <3>2. values' = Append(values, v)
      BY <2>2, <3>1 DEF SaveValuation
    <3>3. Carried(work[c]) /\ Saved(values)
      BY DEF CostInv
    <3>4. Sighted(v)
      BY <1>1, <3>1, <3>3 DEF Carried, Sighted
    <3> QED BY <3>2, <3>3, <3>4, SavedAppended
  <2> QED BY <2>1, <2>2
<1>3. work' = [d \in Commands |-> work'[d]] /\ \A d \in Commands : Carried(work'[d])
  BY <1>1, IdleCarried DEF CostInv
<1>4. \A i \in 1..Len(assessments) : Assessed(assessments[i])'
  BY <1>1, <1>2 DEF CostInv, Assessed
<1>5. \A i \in 1..Len(models) : Resolved(models[i])'
  BY <1>1 DEF CostInv, Resolved
<1>6. RunsShareTheirBranch'
  BY <1>1 DEF CostInv, RunsShareTheirBranch, Heads
<1> QED BY <1>1, <1>2, <1>3, <1>4, <1>5, <1>6 DEF CostInv, Unscanned

LEMMA SaveApprovalsKeeps ==
  ASSUME CostInv, NEW c \in Commands, SaveApprovals(c)
  PROVE  CostInv'
<1>1. /\ work[c].pc = "save_approvals" /\ cursor.head # 0 /\ work' = [work EXCEPT ![c] = Idle]
      /\ UNCHANGED <<cursor, events, call, actionRows, actionRuns, values, assessments, approvals, models>>
  BY Scanned DEF SaveApprovals
<1> QED BY <1>1, IdleCarried, CommandMoves

LEMMA SaveApprovalValuationKeeps ==
  ASSUME CostInv, NEW c \in Commands, SaveApprovalValuation(c)
  PROVE  CostInv'
<1>1. /\ work[c].pc = "save_approval_value" /\ cursor.head # 0 /\ work' = [work EXCEPT ![c] = Idle]
      /\ UNCHANGED <<cursor, events, call, actionRows, actionRuns, values, assessments, models>>
  BY Scanned DEF SaveApprovalValuation
<1>2. /\ Saved(approvals') /\ 1..Len(approvals) \subseteq 1..Len(approvals')
      /\ \A i \in 1..Len(approvals) : approvals'[i] = approvals[i]
  <2>1. CASE approvals' = approvals
    BY <2>1 DEF CostInv
  <2>2. CASE approvals' # approvals
    <3>1. PICK v : v = [source |-> work[c].source, branch |-> work[c].branch,
                        seen |-> work[c].seen, valid |-> work[c].ok]
      OBVIOUS
    <3>2. approvals' = Append(approvals, v)
      BY <2>2, <3>1 DEF SaveApprovalValuation
    <3>3. Carried(work[c]) /\ Saved(approvals)
      BY DEF CostInv
    <3>4. Sighted(v)
      BY <1>1, <3>1, <3>3 DEF Carried, Sighted
    <3> QED BY <3>2, <3>3, <3>4, SavedAppended
  <2> QED BY <2>1, <2>2
<1>3. work' = [d \in Commands |-> work'[d]] /\ \A d \in Commands : Carried(work'[d])
  BY <1>1, IdleCarried DEF CostInv
<1>4. \A i \in 1..Len(assessments) : Assessed(assessments[i])'
  BY <1>1 DEF CostInv, Assessed
<1>5. \A i \in 1..Len(models) : Resolved(models[i])'
  BY <1>1, <1>2 DEF CostInv, Resolved
<1>6. RunsShareTheirBranch'
  BY <1>1 DEF CostInv, RunsShareTheirBranch, Heads
<1> QED BY <1>1, <1>2, <1>3, <1>4, <1>5, <1>6 DEF CostInv, Unscanned

\* The newest valuation is assessed, against the call as it was scanned.
LEMMA AssessKeeps ==
  ASSUME CostInv, Assess
  PROVE  CostInv'
<1>1. PICK a : a = [value |-> Len(values), status |-> assessActionCostCall(Last(values))]
  OBVIOUS
<1>2. /\ assessments' = Append(assessments, a) /\ values # <<>>
      /\ UNCHANGED <<cursor, events, call, actionRows, actionRuns, values, approvals, models, work,
                     approvalRuns>>
  BY <1>1 DEF Assess
<1>3. Len(values) \in 1..Len(values) /\ cursor.head # 0
  BY <1>2, EmptyIs, Scanned DEF CostInv, Saved, Unscanned
<1>4. a.value = Len(values) /\ a.status = assessActionCostCall(values[Len(values)])
  BY <1>1 DEF Last
<1>5. ASSUME a.status = "comparable"
      PROVE  /\ values[Len(values)].valid
             /\ call = "mint" => classifyActionMix(events) = "mint_bundle"
  <2>1. /\ values[Len(values)].valid /\ call \in DOMAIN compatibleClasses
        /\ classifyActionMix(events) \in compatibleClasses[call]
    BY <1>4, <1>5 DEF assessActionCostCall
  <2>2. compatibleClasses["mint"] = {"mint_bundle"}
    BY DEF compatibleClasses
  <2> QED BY <2>1, <2>2
<1>6. Assessed(a)
  BY <1>3, <1>4, <1>5 DEF Assessed
<1>7. /\ Len(assessments') = Len(assessments) + 1
      /\ assessments' = [i \in 1..Len(assessments') |-> assessments'[i]]
      /\ \A i \in 1..Len(assessments) : assessments'[i] = assessments[i]
      /\ assessments'[Len(assessments) + 1] = a /\ Len(assessments) \in Nat
  <2>1. Len(assessments) \in Nat /\ assessments = [i \in 1..Len(assessments) |-> assessments[i]]
    BY DEF CostInv
  <2> QED BY <1>2, <2>1, Appended
<1>8. \A i \in 1..Len(assessments') : i \in 1..Len(assessments) \/ i = Len(assessments) + 1
  BY <1>7
<1>9. \A i \in 1..Len(assessments) : Assessed(assessments[i])
  BY DEF CostInv
<1>10. \A i \in 1..Len(assessments') : Assessed(assessments'[i])
  BY <1>6, <1>7, <1>8, <1>9
<1>11. \A i \in 1..Len(assessments') : Assessed(assessments[i])'
  BY <1>2, <1>10 DEF Assessed
<1>12. \A i \in 1..Len(models) : Resolved(models[i])'
  BY <1>2, <1>7 DEF CostInv, Resolved
<1>13. RunsShareTheirBranch'
  BY <1>2 DEF CostInv, RunsShareTheirBranch, Heads
<1> QED BY <1>2, <1>3, <1>7, <1>11, <1>12, <1>13 DEF CostInv, Unscanned

\* An entry counts as measured on a comparable mint and a valid approval.
LEMMA ResolveKeeps ==
  ASSUME CostInv, Resolve
  PROVE  CostInv'
<1>1. PICK m : m = [assessment |-> Len(assessments), approval |-> Len(approvals),
                    status |-> resolveGuardedCostModel(
                      Sample(Last(assessments).status = "comparable" /\ call = "mint"),
                      Sample(Last(approvals).valid))]
  OBVIOUS
<1>2. /\ models' = Append(models, m) /\ assessments # <<>> /\ approvals # <<>>
      /\ UNCHANGED <<cursor, events, call, actionRows, actionRuns, values, assessments, approvals,
                     approvalRuns, work>>
  BY <1>1 DEF Resolve
<1>3. Len(assessments) \in 1..Len(assessments) /\ Len(approvals) \in 1..Len(approvals) /\ cursor.head # 0
  <2>1. /\ Len(assessments) \in Nat /\ assessments = [i \in 1..Len(assessments) |-> assessments[i]]
        /\ Len(approvals) \in Nat /\ approvals = [i \in 1..Len(approvals) |-> approvals[i]]
    BY DEF CostInv, Saved
  <2>2. Len(assessments) \in 1..Len(assessments) /\ Len(approvals) \in 1..Len(approvals)
    BY <1>2, <2>1, EmptyIs
  <2>3. cursor.head # 0
    BY <1>2 DEF CostInv, Unscanned
  <2> QED BY <2>2, <2>3
<1>4. ASSUME m.status = "entry_measured"
      PROVE  /\ call = "mint" /\ assessments[Len(assessments)].status = "comparable"
             /\ approvals[Len(approvals)].valid
  BY <1>1, <1>4 DEF resolveGuardedCostModel, Sample, Last
<1>5. Resolved(m)
  BY <1>1, <1>3, <1>4 DEF Resolved
<1>6. /\ Len(models') = Len(models) + 1 /\ models' = [i \in 1..Len(models') |-> models'[i]]
      /\ \A i \in 1..Len(models) : models'[i] = models[i]
      /\ models'[Len(models) + 1] = m /\ Len(models) \in Nat
  <2>1. Len(models) \in Nat /\ models = [i \in 1..Len(models) |-> models[i]]
    BY DEF CostInv
  <2> QED BY <1>2, <2>1, Appended
<1>7. \A i \in 1..Len(models') : i \in 1..Len(models) \/ i = Len(models) + 1
  BY <1>6
<1>8. \A i \in 1..Len(models) : Resolved(models[i])
  BY DEF CostInv
<1>9. \A i \in 1..Len(models') : Resolved(models'[i])
  BY <1>5, <1>6, <1>7, <1>8
<1>10. \A i \in 1..Len(models') : Resolved(models[i])'
  BY <1>2, <1>9 DEF Resolved
<1>11. \A i \in 1..Len(assessments) : Assessed(assessments[i])'
  BY <1>2 DEF CostInv, Assessed
<1>12. RunsShareTheirBranch'
  BY <1>2 DEF CostInv, RunsShareTheirBranch, Heads
<1> QED BY <1>2, <1>3, <1>6, <1>10, <1>11, <1>12 DEF CostInv, Unscanned

\* Only the first scan says what the transaction shows, and nothing is there yet.
LEMMA IndexKeeps ==
  ASSUME CostInv, Index, MaxHead \in Nat
  PROVE  CostInv'
<1>1. PICK h \in Max({1, cursor.head})..MaxHead : cursor' = [head |-> h, branch |-> branch]
  BY DEF Index
<1>2. Max({1, cursor.head}) \in Nat /\ Max({1, cursor.head}) >= 1
  BY MaxOfTwo DEF CostInv
<1>3. h \in Nat /\ h >= 1
  BY <1>1, <1>2
<1>4. cursor' = [head |-> cursor'.head, branch |-> cursor'.branch] /\ cursor'.head = h
  BY <1>1
<1>5. UNCHANGED <<actionRows, actionRuns, values, assessments, approvalRuns, approvals, models, work>>
  BY DEF Index
<1>6. \A i \in 1..Len(assessments) : Assessed(assessments[i])'
  <2>1. CASE cursor.head = 0
    <3>1. assessments = <<>>
      BY <2>1 DEF CostInv, Unscanned
    <3> QED BY <3>1
  <2>2. CASE cursor.head # 0
    <3>1. UNCHANGED <<events, call>>
      BY <2>2 DEF Index, CostInv
    <3> QED BY <1>5, <3>1 DEF CostInv, Assessed
  <2> QED BY <2>1, <2>2
<1>7. \A i \in 1..Len(models) : Resolved(models[i])'
  <2>1. CASE cursor.head = 0
    <3>1. models = <<>>
      BY <2>1 DEF CostInv, Unscanned
    <3> QED BY <3>1
  <2>2. CASE cursor.head # 0
    <3>1. UNCHANGED call
      BY <2>2 DEF Index, CostInv
    <3> QED BY <1>5, <3>1 DEF CostInv, Resolved
  <2> QED BY <2>1, <2>2
<1>8. RunsShareTheirBranch'
  BY <1>5 DEF CostInv, RunsShareTheirBranch, Heads
<1> QED BY <1>3, <1>4, <1>5, <1>6, <1>7, <1>8 DEF CostInv, Unscanned

LEMMA NothingCosts ==
  ASSUME CostInv, UNCHANGED <<cursor, events, call, actionRows, actionRuns, values, assessments,
                              approvalRuns, approvals, models, work>>
  PROVE  CostInv'
<1>1. RunsShareTheirBranch'
  BY DEF CostInv, RunsShareTheirBranch, Heads
<1>2. \A i \in 1..Len(assessments) : Assessed(assessments[i])'
  BY DEF CostInv, Assessed
<1>3. \A i \in 1..Len(models) : Resolved(models[i])'
  BY DEF CostInv, Resolved
<1>4. Unscanned'
  BY DEF CostInv, Unscanned, Heads
<1> QED BY <1>1, <1>2, <1>3, <1>4 DEF CostInv

LEMMA CostInvInit ==
  ASSUME CostInit PROVE CostInv
<1>1. /\ cursor = [head |-> 0, branch |-> 1] /\ work = [c \in Commands |-> Idle]
      /\ actionRuns = [h \in 1..MaxHead |-> 0] /\ approvalRuns = [h \in 1..MaxHead |-> 0]
      /\ values = <<>> /\ assessments = <<>> /\ approvals = <<>> /\ models = <<>>
  BY DEF CostInit
<1>2. \A c \in Commands : work[c] = Idle
  BY <1>1
<1>3. \A c \in Commands : Carried(work[c]) /\ work[c].pc = "idle"
  BY <1>2, IdleCarried DEF Idle
<1>4. Heads(actionRuns) = {} /\ Heads(approvalRuns) = {}
  BY <1>1 DEF Heads
<1>5. <<>> = [i \in 1..Len(<<>>) |-> <<>>[i]] /\ Len(<<>>) = 0
  OBVIOUS
<1>6. Saved(<<>>)
  BY <1>5 DEF Saved
<1>7. Saved(values) /\ Saved(approvals)
  BY <1>1, <1>6
<1>8. /\ assessments = [i \in 1..Len(assessments) |-> assessments[i]] /\ Len(assessments) = 0
      /\ models = [i \in 1..Len(models) |-> models[i]] /\ Len(models) = 0
  BY <1>1, <1>5
<1>9. RunsShareTheirBranch
  BY <1>4 DEF RunsShareTheirBranch
<1>10. Unscanned
  BY <1>1, <1>3, <1>4 DEF Unscanned
<1>11. /\ cursor = [head |-> cursor.head, branch |-> cursor.branch] /\ cursor.head \in Nat
       /\ actionRuns = [h \in 1..MaxHead |-> actionRuns[h]] /\ work = [c \in Commands |-> work[c]]
  BY <1>1
<1> QED BY <1>3, <1>7, <1>8, <1>9, <1>10, <1>11 DEF CostInv

\* Every action-cost run counts receipts of the branch its source names, and a
\* cost model with a measured entry rests on costs that were canonical when
\* they were valued: for any commands at once, windows, feeds and forks.
THEOREM CostsAgree ==
  ASSUME MaxHead \in Nat
  PROVE  CostSpec => []CostsOnOneBranch
<1>1. CostInit => CostInv
  BY CostInvInit
<1>2. CostInv /\ [CostNext]_costVars => CostInv'
  <2> SUFFICES ASSUME CostInv, [CostNext]_costVars PROVE CostInv'
    OBVIOUS
  <2>1. CASE Reorganise \/ UNCHANGED costVars
    BY <2>1, NothingCosts DEF Reorganise, costVars
  <2>2. ASSUME NEW c \in Commands,
               LoadActions(c) \/ LoadValuation(c) \/ LoadApprovals(c) \/ LoadApprovalValuation(c)
        PROVE  CostInv'
    BY <2>2, LoadKeeps
  <2>3. ASSUME NEW c \in Commands,
               \/ evaluateActionCost(c) \/ evaluateActionCostValuation(c) \/ CheckApprovalSource(c)
               \/ FetchApprovals(c) \/ evaluateApprovalCost(c) \/ evaluateApprovalValuation(c)
        PROVE  CostInv'
    BY <2>3, ReadKeeps
  <2>4. ASSUME NEW c \in Commands,
               \/ SaveActions(c) \/ SaveValuation(c) \/ SaveApprovals(c) \/ SaveApprovalValuation(c)
        PROVE  CostInv'
    BY <2>4, SaveActionsKeeps, SaveValuationKeeps, SaveApprovalsKeeps, SaveApprovalValuationKeeps
  <2>5. CASE Assess
    BY <2>5, AssessKeeps
  <2>6. CASE Resolve
    BY <2>6, ResolveKeeps
  <2>7. CASE Index
    BY <2>7, IndexKeeps
  <2> QED BY <2>1, <2>2, <2>3, <2>4, <2>5, <2>6, <2>7 DEF CostNext
<1>3. CostInv => CostsOnOneBranch
  <2> SUFFICES ASSUME CostInv PROVE MeasuredOnChain
    BY DEF CostInv, CostsOnOneBranch
  <2>1. DOMAIN models = 1..Len(models)
    BY DEF CostInv
  <2>2. ASSUME NEW i \in 1..Len(models), models[i].status = "entry_measured"
        PROVE  /\ values[assessments[models[i].assessment].value].branch
                    = values[assessments[models[i].assessment].value].seen
               /\ approvals[models[i].approval].branch = approvals[models[i].approval].seen
               /\ classifyActionMix(events) = "mint_bundle"
    <3>1. /\ models[i].assessment \in 1..Len(assessments) /\ models[i].approval \in 1..Len(approvals)
          /\ call = "mint" /\ assessments[models[i].assessment].status = "comparable"
          /\ approvals[models[i].approval].valid
      BY <2>2 DEF CostInv, Resolved
    <3>2. /\ assessments[models[i].assessment].value \in 1..Len(values)
          /\ values[assessments[models[i].assessment].value].valid
          /\ classifyActionMix(events) = "mint_bundle"
      BY <3>1 DEF CostInv, Assessed
    <3> QED BY <3>1, <3>2 DEF CostInv, Saved, Sighted
  <2> QED BY <2>1, <2>2 DEF MeasuredOnChain
<1> QED BY <1>1, <1>2, <1>3, PTL DEF CostSpec

-----------------------------------------------------------------------------
(* TransferIndex.  A block that left the chain never comes back, so if the *)
(* source is canonical when the read ends, it was canonical when balance   *)
(* and owners were read, and both speak of the same set of tokens.         *)

Block == [fork : Nat, owned : SUBSET Tokens]

\* What the read has learned of its source, if that is still canonical.
Learned(read) ==
    read.pc # "idle" =>
        /\ read.at \in 1..Len(ledger) /\ read.fork <= ledgerForks
        /\ ledger[read.at].fork = read.fork =>
             /\ read.pc \in {"owners", "after"} =>
                  read.balance = Cardinality(ledger[read.at].owned)
             /\ read.pc = "after" => read.owners = read.ids \cap ledger[read.at].owned

XferInv ==
    /\ ledger \in Seq(Block) /\ ledgerForks \in Nat
    /\ \A h \in 1..Len(ledger) : ledger[h].fork <= ledgerForks
    /\ custodian.fork \in Nat
    /\ custodian = [pc |-> custodian.pc, at |-> custodian.at, fork |-> custodian.fork,
                    chunks |-> custodian.chunks, pin |-> custodian.pin, ids |-> custodian.ids,
                    balance |-> custodian.balance, owners |-> custodian.owners]
    /\ Learned(custodian)
    /\ EnumerationTrue

Record(read) ==
    [pc |-> read.pc, at |-> read.at, fork |-> read.fork, chunks |-> read.chunks,
     pin |-> read.pin, ids |-> read.ids, balance |-> read.balance, owners |-> read.owners]

\* The read goes on, or gives up, while the chain stands still.
LEMMA ReadMoves ==
  ASSUME XferInv, UNCHANGED <<ledger, ledgerForks, answers>>,
         custodian'.fork \in Nat, custodian' = Record(custodian'), Learned(custodian')
  PROVE  XferInv'
<1>1. Learned(custodian)'
  BY DEF Learned
<1> QED BY <1>1 DEF XferInv, EnumerationTrue, Record

LEMMA IdleIsRead ==
  IdleRead.fork \in Nat /\ IdleRead = Record(IdleRead) /\ IdleRead.pc = "idle"
BY DEF IdleRead, Record

\* The source is on the ledger, and its block is the ledger's.
LEMMA Source ==
  ASSUME XferInv, NEW h \in 1..Len(ledger)
  PROVE  /\ ledger[h] \in Block /\ h # 0
         /\ Owned(ledger, h) = ledger[h].owned /\ ForkAt(h) = ledger[h].fork
         /\ \A f : Same(h, f) <=> ledger[h].fork = f
BY DEF XferInv, Owned, ForkAt, Same

LEMMA PinSourceKeeps ==
  ASSUME XferInv, PinSource PROVE XferInv'
<1>1. PICK h \in 1..Len(ledger) :
        custodian' = [IdleRead EXCEPT !.pc = "load", !.at = h, !.fork = ForkAt(h)]
  BY DEF PinSource
<1>2. PICK f : f = ForkAt(h)
  OBVIOUS
<1>3. f \in Nat /\ f <= ledgerForks
  BY <1>2, Source DEF XferInv, Block
<1>4. PICK r : r = [IdleRead EXCEPT !.pc = "load", !.at = h, !.fork = f]
  OBVIOUS
<1>5. r = Record(r) /\ r.pc = "load" /\ r.at = h /\ r.fork = f
  BY <1>4 DEF IdleRead, Record
<1>6. Learned(r)
  BY <1>3, <1>5 DEF Learned
<1>7. custodian' = r
  BY <1>1, <1>2, <1>4
<1> QED BY <1>3, <1>5, <1>6, <1>7, ReadMoves DEF PinSource

\* A step of the read that learns nothing of the source.
LEMMA EarlyMoves ==
  ASSUME XferInv, UNCHANGED <<ledger, ledgerForks, answers>>, custodian.pc # "idle",
         NEW r, r = Record(r), r.pc \in {"check", "replay", "balance"},
         r.at = custodian.at, r.fork = custodian.fork, custodian' \in {IdleRead, r}
  PROVE  XferInv'
<1>1. CASE custodian' = IdleRead
  <2>1. Learned(IdleRead)
    BY IdleIsRead DEF Learned
  <2> QED BY <1>1, <2>1, IdleIsRead, ReadMoves
<1>2. CASE custodian' = r
  <2>1. Learned(r)
    BY DEF XferInv, Learned
  <2>2. r.fork \in Nat
    BY DEF XferInv
  <2> QED BY <1>2, <2>1, <2>2, ReadMoves
<1> QED BY <1>1, <1>2

LEMMA EarlyKeeps ==
  ASSUME XferInv, loadReplayEvidence \/ CheckCheckpoints \/ Replay
  PROVE  XferInv'
<1>1. custodian.pc # "idle" /\ UNCHANGED <<ledger, ledgerForks, answers>>
  BY DEF loadReplayEvidence, CheckCheckpoints, Replay
<1>2. PICK k : k = replayPositionManagerWalletOwnerSet(custodian.chunks, custodian.at)
  OBVIOUS
<1>3. PICK r : r \in {[custodian EXCEPT !.pc = "check", !.chunks = index],
                      [custodian EXCEPT !.pc = "replay"],
                      [custodian EXCEPT !.pc = "balance", !.ids = k.owned]}
               /\ custodian' \in {IdleRead, r}
  <2>1. CASE loadReplayEvidence
    BY <2>1 DEF loadReplayEvidence
  <2>2. CASE CheckCheckpoints
    BY <2>2 DEF CheckCheckpoints
  <2>3. CASE Replay
    BY <2>3, <1>2 DEF Replay
  <2> QED BY <2>1, <2>2, <2>3
<1>4. /\ r = Record(r) /\ r.pc \in {"check", "replay", "balance"}
      /\ r.at = custodian.at /\ r.fork = custodian.fork
  BY <1>3 DEF XferInv, Record
<1> QED BY <1>1, <1>3, <1>4, EarlyMoves

LEMMA BalanceKeeps ==
  ASSUME XferInv, readBalance PROVE XferInv'
<1>1. /\ custodian.pc = "balance" /\ custodian.at \in 1..Len(ledger) /\ custodian.fork \in Nat
      /\ UNCHANGED <<ledger, ledgerForks, answers>>
  BY DEF readBalance, XferInv, Learned
<1>2. PICK b : b = Cardinality(ledger[custodian.at].owned)
  OBVIOUS
<1>3. PICK r : r = [custodian EXCEPT !.pc = "owners", !.balance = b]
  OBVIOUS
<1>4. custodian' = r
  BY <1>1, <1>2, <1>3, Source DEF readBalance
<1>5. r = Record(r) /\ r.pc = "owners" /\ r.at = custodian.at /\ r.fork = custodian.fork /\ r.balance = b
  BY <1>3 DEF XferInv, Record
<1>6. Learned(r)
  BY <1>1, <1>2, <1>5 DEF XferInv, Learned
<1> QED BY <1>1, <1>4, <1>5, <1>6, ReadMoves

LEMMA OwnersKeeps ==
  ASSUME XferInv, readOwners PROVE XferInv'
<1>1. /\ custodian.pc = "owners" /\ custodian.at \in 1..Len(ledger) /\ custodian.fork \in Nat
      /\ UNCHANGED <<ledger, ledgerForks, answers>>
  BY DEF readOwners, XferInv, Learned
<1>2. PICK o : o = custodian.ids \cap ledger[custodian.at].owned
  OBVIOUS
<1>3. PICK r : r = [custodian EXCEPT !.pc = "after", !.owners = o]
  OBVIOUS
<1>4. custodian' = r
  BY <1>1, <1>2, <1>3, Source DEF readOwners
<1>5. /\ r = Record(r) /\ r.pc = "after" /\ r.at = custodian.at /\ r.fork = custodian.fork
      /\ r.balance = custodian.balance /\ r.ids = custodian.ids /\ r.owners = o
  BY <1>3 DEF XferInv, Record
<1>6. Learned(r)
  BY <1>1, <1>2, <1>5 DEF XferInv, Learned
<1> QED BY <1>1, <1>4, <1>5, <1>6, ReadMoves

\* Every token of the enumeration is owned, and as many are owned: these are all.
LEMMA EnumerateKeeps ==
  ASSUME XferInv, Enumerate, IsFiniteSet(Tokens) PROVE XferInv'
<1>1. /\ custodian.pc = "after" /\ custodian.at \in 1..Len(ledger) /\ custodian' = IdleRead
      /\ UNCHANGED <<ledger, ledgerForks>>
  BY DEF Enumerate, XferInv, Learned
<1>2. PICK o \in SUBSET Tokens : o = ledger[custodian.at].owned
  BY <1>1, Source DEF Block
<1>3. ASSUME Reconciled(custodian), Same(custodian.at, custodian.fork)
      PROVE  custodian.ids = o
  <2>1. custodian.balance = Cardinality(o) /\ custodian.owners = custodian.ids \cap o
    BY <1>1, <1>2, <1>3, Source DEF XferInv, Learned
  <2>2. custodian.ids \subseteq o /\ Cardinality(custodian.ids) = Cardinality(o)
    BY <1>3, <2>1 DEF Reconciled
  <2>3. IsFiniteSet(o)
    BY FS_Subset
  <2> QED BY <2>2, <2>3, FS_Subset
<1>4. Owned(ledger, custodian.at) = o
  BY <1>1, <1>2, Source
<1>5. EnumerationTrue'
  BY <1>3, <1>4 DEF Enumerate, EnumerationTrue, XferInv
<1>6. Learned(custodian)'
  BY <1>1, IdleIsRead DEF Learned
<1>7. custodian'.fork \in Nat /\ custodian' = Record(custodian')
  BY <1>1, IdleIsRead
<1> QED BY <1>1, <1>5, <1>6, <1>7 DEF XferInv, Record

\* The chain grows, or is replaced from a block on by one of a new fork.
LEMMA ChainKeeps ==
  ASSUME XferInv, Extend \/ Replace PROVE XferInv'
<1>1. CASE Extend
  <2>1. PICK owned \in SUBSET Tokens :
          ledger' = Append(ledger, [fork |-> ledgerForks, owned |-> owned])
    BY <1>1 DEF Extend
  <2>2. PICK b \in Block : b = [fork |-> ledgerForks, owned |-> owned]
    BY DEF XferInv, Block
  <2>3. /\ ledger' \in Seq(Block) /\ Len(ledger') = Len(ledger) + 1
        /\ \A h \in 1..Len(ledger) : ledger'[h] = ledger[h]
        /\ ledger'[Len(ledger) + 1] = b
    BY <2>1, <2>2 DEF XferInv
  <2>4. \A h \in 1..Len(ledger') : ledger'[h].fork <= ledgerForks
    BY <2>2, <2>3 DEF XferInv
  <2>5. UNCHANGED <<ledgerForks, custodian, answers>>
    BY <1>1 DEF Extend
  <2>6. Learned(custodian)'
    <3> SUFFICES ASSUME custodian.pc # "idle" PROVE Learned(custodian)'
      BY <2>5 DEF Learned
    <3>1. custodian.at \in 1..Len(ledger) /\ custodian.at \in 1..Len(ledger')
      BY <2>3 DEF XferInv, Learned
    <3>2. ledger'[custodian.at] = ledger[custodian.at]
      BY <2>3, <3>1
    <3> QED BY <2>5, <3>1, <3>2 DEF XferInv, Learned
  <2> QED BY <2>3, <2>4, <2>5, <2>6 DEF XferInv, EnumerationTrue
<1>2. CASE Replace
  <2>1. PICK n \in DOMAIN ledger, owned \in SUBSET Tokens :
          ledger' = [i \in DOMAIN ledger |-> IF i < n THEN ledger[i]
                       ELSE [fork |-> ledgerForks + 1, owned |-> owned]]
    BY <1>2 DEF Replace
  <2>2. PICK b \in Block : b = [fork |-> ledgerForks + 1, owned |-> owned]
    <3>1. ledgerForks + 1 \in Nat
      BY DEF XferInv
    <3> QED BY <3>1 DEF Block
  <2>3. /\ ledger' \in Seq(Block) /\ Len(ledger') = Len(ledger)
        /\ \A h \in 1..Len(ledger) : ledger'[h] = ledger[h] \/ ledger'[h] = b
    <3>1. ledger \in Seq(Block)
      BY DEF XferInv
    <3>2. DOMAIN ledger = 1..Len(ledger) /\ \A i \in 1..Len(ledger) : ledger[i] \in Block
      BY <3>1
    <3>3. ledger' = [i \in 1..Len(ledger) |-> IF i < n THEN ledger[i] ELSE b]
      BY <2>1, <2>2, <3>2
    <3>4. Len(ledger) \in Nat /\ ledger' \in [1..Len(ledger) -> Block]
      BY <3>1, <3>2, <3>3
    <3>5. ledger' \in Seq(Block) /\ Len(ledger') = Len(ledger)
      BY <3>4
    <3> QED BY <3>3, <3>5
  <2>4. UNCHANGED <<custodian, answers>> /\ ledgerForks' = ledgerForks + 1
    BY <1>2 DEF Replace
  <2>5. b.fork = ledgerForks'
    BY <2>2, <2>4
  <2>6. \A h \in 1..Len(ledger') : ledger'[h].fork <= ledgerForks'
    <3> SUFFICES ASSUME NEW h \in 1..Len(ledger) PROVE ledger'[h].fork <= ledgerForks + 1
      BY <2>3, <2>4
    <3>1. ledger[h].fork \in Nat /\ ledger[h].fork <= ledgerForks /\ ledgerForks \in Nat
      BY Source DEF XferInv, Block
    <3> QED BY <2>3, <2>4, <2>5, <3>1
  <2>7. Learned(custodian)'
    <3> SUFFICES ASSUME custodian.pc # "idle" PROVE Learned(custodian)'
      BY <2>4 DEF Learned
    <3>1. /\ custodian.at \in 1..Len(ledger) /\ custodian.fork <= ledgerForks
          /\ custodian.fork \in Nat /\ ledgerForks \in Nat
      BY DEF XferInv, Learned
    <3>2. custodian.fork <= ledgerForks' /\ custodian.fork # b.fork
      BY <2>4, <2>5, <3>1
    <3>3. CASE ledger'[custodian.at] = b
      BY <2>3, <2>4, <3>1, <3>2, <3>3 DEF Learned
    <3>4. CASE ledger'[custodian.at] = ledger[custodian.at]
      BY <2>3, <2>4, <3>1, <3>2, <3>4 DEF XferInv, Learned
    <3> QED BY <2>3, <3>1, <3>3, <3>4
  <2>8. ledgerForks' \in Nat
    BY <2>4 DEF XferInv
  <2> QED BY <2>3, <2>4, <2>6, <2>7, <2>8 DEF XferInv, EnumerationTrue
<1> QED BY <1>1, <1>2

\* The enumeration of a wallet's positions that is reported as complete is
\* exactly what the wallet owns at the source, whatever chunks the index took
\* from two forks: for every depth and any number of forks, chunks and reads.
THEOREM EnumerationIsTrue ==
  ASSUME IsFiniteSet(Tokens)
  PROVE  XferSpec => []EnumerationTrue
<1>1. XferInit => XferInv
  <2> SUFFICES ASSUME XferInit PROVE XferInv
    OBVIOUS
  <2>1. PICK b \in Block : b = [fork |-> 0, owned |-> {}]
    BY DEF Block
  <2>2. ledger = <<b>> /\ b.fork = 0 /\ custodian = IdleRead
    BY <2>1 DEF XferInit
  <2>3. Learned(custodian)
    BY <2>2, IdleIsRead DEF Learned
  <2>4. ledger \in Seq(Block) /\ Len(ledger) = 1 /\ ledger[1] = b
    BY <2>2
  <2>5. ledgerForks = 0 /\ answers = {}
    BY DEF XferInit
  <2>6. \A h \in 1..Len(ledger) : ledger[h].fork <= ledgerForks
    BY <2>2, <2>4, <2>5
  <2> QED BY <2>2, <2>3, <2>4, <2>5, <2>6, IdleIsRead DEF XferInv, EnumerationTrue, Record
<1>2. XferInv /\ [XferNext]_xferVars => XferInv'
  <2> SUFFICES ASSUME XferInv, [XferNext]_xferVars PROVE XferInv'
    OBVIOUS
  <2>1. CASE UNCHANGED <<ledger, ledgerForks, custodian, answers>>
    BY <2>1 DEF XferInv, Learned, EnumerationTrue
  <2>2. CASE \/ StartScan \/ Rewind \/ Prior \/ FetchHeader \/ FetchLogs \/ EventHeaders
             \/ saveChunk \/ SourceStillCanonical \/ savePinnedCheckpoint \/ ScanFails
             \/ UNCHANGED xferVars
    <3>1. UNCHANGED <<ledger, ledgerForks, custodian, answers>>
      BY <2>2 DEF StartScan, Rewind, Prior, FetchHeader, FetchLogs, EventHeaders, saveChunk,
                  SourceStillCanonical, savePinnedCheckpoint, ScanFails, xferVars
    <3> QED BY <2>1, <3>1
  <2>3. CASE PinSource
    BY <2>3, PinSourceKeeps
  <2>4. CASE loadReplayEvidence \/ CheckCheckpoints \/ Replay
    BY <2>4, EarlyKeeps
  <2>5. CASE readBalance
    BY <2>5, BalanceKeeps
  <2>6. CASE readOwners
    BY <2>6, OwnersKeeps
  <2>7. CASE Enumerate
    BY <2>7, EnumerateKeeps
  <2>8. CASE Extend \/ Replace
    BY <2>8, ChainKeeps
  <2> QED BY <2>2, <2>3, <2>4, <2>5, <2>6, <2>7, <2>8 DEF XferNext
<1>3. XferInv => EnumerationTrue
  BY DEF XferInv
<1> QED BY <1>1, <1>2, <1>3, PTL DEF XferSpec

-----------------------------------------------------------------------------
(* PerpReference.  A stored candle never changes, and a session is stored  *)
(* with every candle it tells about, so each stored session is at all      *)
(* times what the stored candles say of its window.                        *)

\* What the prices p say of the window w.
Told(p, w) ==
    [session |-> w, external |-> p[Min(w) - 1], high |-> Max({p[h] : h \in w}),
     close |-> p[Max(w)], reopen |-> p[Max(w) + 1]]

\* The window has its hours between its ends.
Bounded(w) == Min(w) \in Int /\ Max(w) \in w /\ w \subseteq Min(w)..Max(w)

Filled(p, w) == (Min(w) - 1)..(Max(w) + 1) \subseteq {h \in 1..MaxHour : p[h] # 0}

\* A backfill has nothing at hand, or hours the model's horizon has.
Fetched(a) == a.from \in Nat /\ a.to \in Nat /\ (a = NoAnswer \/ (a.from >= 1 /\ a.to <= MaxHour))

PerpInv ==
    /\ hour \in 1..MaxHour + 1
    /\ candles = [h \in 1..MaxHour |-> candles[h]]
    /\ desk = [c \in Clerks |-> desk[c]]
    /\ \A c \in Clerks : Fetched(desk[c])
    /\ \A r \in studies : \A a \in r :
         a = Told(candles, a.session) /\ Bounded(a.session) /\ Filled(candles, a.session)

\* Three neighbouring hours, not all of them there.
LEMMA ThreeBounded ==
  ASSUME NEW x \in Int, NEW w \in SUBSET {x, x + 1, x + 2}, w # {}
  PROVE  Bounded(w)
<1>1. PICK m \in w : \A y \in w : m =< y
  <2>1. CASE x \in w
    BY <2>1
  <2>2. CASE x \notin w /\ x + 1 \in w
    BY <2>2
  <2>3. CASE x \notin w /\ x + 1 \notin w
    <3>1. PICK z \in w : TRUE
      OBVIOUS
    <3>2. \A y \in w : y = x + 2
      BY <2>3
    <3> QED BY <3>1, <3>2
  <2> QED BY <2>1, <2>2, <2>3
<1>2. PICK n \in w : \A y \in w : n >= y
  <2>1. CASE x + 2 \in w
    BY <2>1
  <2>2. CASE x + 2 \notin w /\ x + 1 \in w
    BY <2>2
  <2>3. CASE x + 2 \notin w /\ x + 1 \notin w
    <3>1. PICK z \in w : TRUE
      OBVIOUS
    <3>2. \A y \in w : y = x
      BY <2>3
    <3> QED BY <3>1, <3>2
  <2> QED BY <2>1, <2>2, <2>3
<1>3. w \subseteq Int
  OBVIOUS
<1>4. Min(w) \in w /\ \A y \in w : Min(w) =< y
  BY <1>1 DEF Min
<1>5. Max(w) \in w /\ \A y \in w : Max(w) >= y
  BY <1>2 DEF Max
<1>6. Min(w) \in Int /\ Max(w) \in Int
  BY <1>3, <1>4, <1>5
<1>7. \A y \in w : y \in Min(w)..Max(w)
  BY <1>3, <1>4, <1>5, <1>6
<1> QED BY <1>5, <1>6, <1>7 DEF Bounded

\* The internal hours of a week are three, of which this is one.
LEMMA WeekendBounded ==
  ASSUME MaxHour \in Nat, NEW h \in 1..MaxHour, Internal(h)
  PROVE  Bounded(weekendWindow(h))
<1>1. PICK q \in Int : q = h \div 5
  OBVIOUS
<1>2. \A i \in 1..MaxHour : Internal(i) /\ i \div 5 = q => i \in {5 * q + 2, 5 * q + 3, 5 * q + 4}
  BY <1>1 DEF Internal
<1>3. weekendWindow(h) \in SUBSET {5 * q + 2, 5 * q + 3, 5 * q + 4}
  BY <1>1, <1>2 DEF weekendWindow
<1>4. h \in weekendWindow(h)
  BY DEF weekendWindow
<1>5. PICK x \in Int : x = 5 * q + 2
  OBVIOUS
<1>6. weekendWindow(h) \in SUBSET {x, x + 1, x + 2}
  BY <1>3, <1>5
<1> QED BY <1>4, <1>6, ThreeBounded

\* Prices that agree on a filled window tell the same of it.
LEMMA ToldAlike ==
  ASSUME NEW w, Bounded(w), NEW p, NEW q,
         \A h \in (Min(w) - 1)..(Max(w) + 1) : p[h] = q[h]
  PROVE  Told(p, w) = Told(q, w)
<1>1. Min(w) \in Int /\ Max(w) \in Int /\ Min(w) <= Max(w) /\ w \subseteq Min(w)..Max(w)
  BY DEF Bounded
<1>2. p[Min(w) - 1] = q[Min(w) - 1]
  BY <1>1
<1>3. p[Max(w)] = q[Max(w)]
  BY <1>1
<1>4. p[Max(w) + 1] = q[Max(w) + 1]
  BY <1>1
<1>5. {p[h] : h \in w} = {q[h] : h \in w}
  <2>1. \A h \in w : p[h] = q[h]
    BY <1>1
  <2> QED BY <2>1
<1> QED BY <1>2, <1>3, <1>4, <1>5 DEF Told

\* A stored session is not disturbed by candles that only fill gaps.
LEMMA GapsFilled ==
  ASSUME NEW p, \A h \in 1..MaxHour : candles[h] # 0 => p[h] = candles[h],
         NEW w, Bounded(w), Filled(candles, w)
  PROVE  Told(p, w) = Told(candles, w) /\ Filled(p, w)
<1>1. \A h \in (Min(w) - 1)..(Max(w) + 1) : h \in 1..MaxHour /\ candles[h] # 0 /\ p[h] = candles[h]
  BY DEF Filled
<1>2. Told(p, w) = Told(candles, w)
  BY <1>1, ToldAlike
<1>3. \A h \in (Min(w) - 1)..(Max(w) + 1) : h \in 1..MaxHour /\ p[h] # 0
  BY <1>1
<1> QED BY <1>2, <1>3 DEF Filled

\* A session that an answer assesses is told by the prices it is stored with.
LEMMA SessionTold ==
  ASSUME MaxHour \in Nat, NEW a, Fetched(a), a # NoAnswer,
         NEW p, \A h \in 1..MaxHour : Known(a, h) => p[h] = a.got[h] /\ p[h] # 0,
         NEW s \in assessPerpWeekends(a)
  PROVE  s = Told(p, s.session) /\ Bounded(s.session) /\ Filled(p, s.session)
<1>1. PICK h \in a.from..a.to : /\ Internal(h) /\ complete(a, weekendWindow(h))
                                /\ s = sessionAssessment(a, weekendWindow(h))
  BY DEF assessPerpWeekends
<1>2. PICK w : w = weekendWindow(h)
  OBVIOUS
<1>3. h \in 1..MaxHour
  BY DEF Fetched
<1>4. Bounded(w)
  BY <1>1, <1>2, <1>3, WeekendBounded
<1>5. \A i \in (Min(w) - 1)..(Max(w) + 1) : i \in 1..MaxHour /\ Known(a, i)
  BY <1>1, <1>2 DEF complete
<1>6. \A i \in (Min(w) - 1)..(Max(w) + 1) : a.got[i] = p[i]
  BY <1>5
<1>7. {i \in w : Known(a, i)} = w
  BY <1>4, <1>5 DEF Bounded
<1>8. s = Told(a.got, w)
  BY <1>1, <1>2, <1>7 DEF sessionAssessment, Told
<1>9. s = Told(p, w)
  BY <1>4, <1>6, <1>8, ToldAlike
<1>10. s.session = w
  BY <1>9 DEF Told
<1>11. Filled(p, w)
  BY <1>5 DEF Filled
<1> QED BY <1>4, <1>9, <1>10, <1>11

\* The venue and the clock move, nothing stored does.
LEMMA VenueKeeps ==
  ASSUME PerpInv, hour' \in 1..MaxHour + 1, UNCHANGED <<candles, studies, desk>>
  PROVE  PerpInv'
BY DEF PerpInv, Filled

LEMMA FetchKeeps ==
  ASSUME PerpInv, MaxHour \in Nat, Windows \subseteq Nat, NEW c \in Clerks, fetchPerpCandles(c)
  PROVE  PerpInv'
<1>1. UNCHANGED <<hour, candles, studies>> /\ hour \in 1..MaxHour + 1
  BY DEF fetchPerpCandles, PerpInv
<1>2. PICK days, from, got :
        /\ days \in Windows
        /\ from = IF hour - 1 >= days THEN hour - 1 + 1 - days ELSE 1
        /\ desk' = [desk EXCEPT ![c] = [from |-> from, to |-> hour - 1, got |-> got]]
  BY DEF fetchPerpCandles
<1>3. from \in Nat /\ from >= 1 /\ hour - 1 \in Nat /\ hour - 1 <= MaxHour
  BY <1>1, <1>2
<1>4. PICK b : b = [from |-> from, to |-> hour - 1, got |-> got]
  OBVIOUS
<1>5. Fetched(b)
  BY <1>3, <1>4 DEF Fetched
<1>6. desk = [d \in Clerks |-> desk[d]] /\ \A d \in Clerks : Fetched(desk[d])
  BY DEF PerpInv
<1>7. desk' = [desk EXCEPT ![c] = b]
  BY <1>2, <1>4
<1>8. desk' = [d \in Clerks |-> desk'[d]] /\ \A d \in Clerks : Fetched(desk'[d])
  BY <1>5, <1>6, <1>7
<1> QED BY <1>1, <1>8 DEF PerpInv, Filled

\* One transaction: a candle that differs fails it as a whole.
LEMMA SaveKeeps ==
  ASSUME PerpInv, MaxHour \in Nat, NEW c \in Clerks, saveAssessment(c)
  PROVE  PerpInv'
<1>1. PICK a : a = desk[c]
  OBVIOUS
<1>2. a # NoAnswer /\ Fetched(a) /\ desk' = [desk EXCEPT ![c] = NoAnswer] /\ hour' = hour
  BY <1>1 DEF saveAssessment, PerpInv
<1>3. Fetched(NoAnswer)
  BY DEF Fetched, NoAnswer
<1>4. desk' = [d \in Clerks |-> desk'[d]] /\ \A d \in Clerks : Fetched(desk'[d])
  <2>1. desk = [d \in Clerks |-> desk[d]] /\ \A d \in Clerks : Fetched(desk[d])
    BY DEF PerpInv
  <2> QED BY <1>2, <1>3, <2>1
<1>5. CASE ~unchanged(a)
  <2>1. UNCHANGED <<candles, studies>>
    BY <1>1, <1>5 DEF saveAssessment
  <2> QED BY <1>2, <1>4, <2>1 DEF PerpInv, Filled
<1>6. CASE unchanged(a)
  <2>1. PICK p : p = [h \in 1..MaxHour |->
                        IF Known(a, h) /\ candles[h] = 0 THEN a.got[h] ELSE candles[h]]
    OBVIOUS
  <2>2. candles' = p /\ studies' = studies \cup {assessPerpWeekends(a)}
    BY <1>1, <1>6, <2>1 DEF saveAssessment
  <2>3. \A h \in 1..MaxHour : candles[h] # 0 => p[h] = candles[h]
    BY <2>1
  <2>4. \A h \in 1..MaxHour : Known(a, h) => p[h] = a.got[h] /\ p[h] # 0
    <3> SUFFICES ASSUME NEW h \in 1..MaxHour, Known(a, h) PROVE p[h] = a.got[h] /\ p[h] # 0
      OBVIOUS
    <3>1. h \in a.from..a.to /\ a.got[h] # 0
      BY <1>2 DEF Known, Fetched
    <3>2. candles[h] \in {0, a.got[h]}
      BY <1>6, <3>1 DEF unchanged
    <3> QED BY <2>1, <3>1, <3>2
  <2>5. \A s \in assessPerpWeekends(a) :
          s = Told(p, s.session) /\ Bounded(s.session) /\ Filled(p, s.session)
    BY <1>2, <2>4, SessionTold
  <2>6. ASSUME NEW r \in studies, NEW s \in r
        PROVE  s = Told(p, s.session) /\ Bounded(s.session) /\ Filled(p, s.session)
    <3>1. s = Told(candles, s.session) /\ Bounded(s.session) /\ Filled(candles, s.session)
      BY DEF PerpInv
    <3>2. Told(p, s.session) = Told(candles, s.session) /\ Filled(p, s.session)
      BY <2>3, <3>1, GapsFilled
    <3> QED BY <3>1, <3>2
  <2>7. candles' = [h \in 1..MaxHour |-> candles'[h]]
    BY <2>1, <2>2
  <2>8. \A r \in studies' : \A s \in r :
          s = Told(p, s.session) /\ Bounded(s.session) /\ Filled(p, s.session)
    BY <2>2, <2>5, <2>6
  <2>9. \A r \in studies' : \A s \in r :
          s = Told(candles', s.session) /\ Bounded(s.session) /\ Filled(candles', s.session)
    BY <2>2, <2>8
  <2> QED BY <1>2, <1>4, <2>7, <2>9 DEF PerpInv, Filled
<1> QED BY <1>5, <1>6

\* Whatever windows are asked for, whenever candles come and are revised: two
\* stored assessments never tell different prices of the same weekend.
THEOREM StudiesAgree ==
  ASSUME MaxHour \in Nat, MaxHour >= 3, Windows \subseteq Nat
  PROVE  PerpSpec => []AssessmentsAgree
<1>1. PerpInit => PerpInv
  <2>1. Fetched(NoAnswer)
    BY DEF Fetched, NoAnswer
  <2> QED BY <2>1 DEF PerpInit, PerpInv
<1>2. PerpInv /\ [PerpNext]_perpVars => PerpInv'
  <2> SUFFICES ASSUME PerpInv, [PerpNext]_perpVars PROVE PerpInv'
    OBVIOUS
  <2>1. CASE PassHour \/ Publish \/ Revise \/ UNCHANGED perpVars
    <3>1. hour' \in 1..MaxHour + 1 /\ UNCHANGED <<candles, studies, desk>>
      BY <2>1 DEF PassHour, Publish, Revise, perpVars, PerpInv
    <3> QED BY <3>1, VenueKeeps
  <2>2. CASE \E c \in Clerks : fetchPerpCandles(c) \/ saveAssessment(c)
    BY <2>2, FetchKeeps, SaveKeeps
  <2> QED BY <2>1, <2>2 DEF PerpNext
<1>3. PerpInv => AssessmentsAgree
  BY DEF PerpInv, AssessmentsAgree
<1> QED BY <1>1, <1>2, <1>3, PTL DEF PerpSpec

-----------------------------------------------------------------------------
(* ManagementHold.  A preview that lost its lock has a source so old that  *)
(* the review it may still record is expired; one that has the lock keeps  *)
(* the observer out, and an observer that has it found no pending review.  *)

Steps == {"idle", "reread", "source", "refresh", "price", "wallet", "verify", "save", "release",
          "pending", "compare", "mark", "check"}
Actor == [pc : Steps, source : Nat, hash : Nat, gen : Nat]
Close == [hash : Nat, source : Nat, gen : Nat, expires : Nat, used : BOOLEAN]

HoldTypeOK ==
    /\ hclock \in Nat /\ marked \in Nat /\ ownJob \in BOOLEAN
    /\ purse \in [source : Nat, gen : Nat, by : {"preview", "observer", "upkeep", "queue"}]
    /\ closes \in Seq(Close)
    /\ holdLock \in [by : {"nobody", "preview", "observer"}, since : Nat]
    /\ closer \in Actor /\ observer \in Actor /\ upkeep \in Actor

\* The lock is its holder's, for as long as the holder works.
LockHeld ==
    /\ observer.pc # "idle" => holdLock.by = "observer"
    /\ holdLock.by = "preview" => closer.pc # "idle"

\* The wallet's source is the pinned one, or not the observer's doing.
Unmoved(source) == source = purse.source \/ purse.by # "observer"

\* A preview at work still has the lock, and with it the campaign's hash and
\* source, or the review it may record is expired already.
PreviewHeld ==
    /\ closer.pc = "source" /\ holdLock.by = "preview" => closer.hash = marked
    /\ closer.pc \in {"refresh", "price", "wallet", "verify", "save"} =>
         \/ closer.source + ReviewLife <= hclock
         \/ /\ holdLock.by = "preview" /\ closer.source <= holdLock.since + ReadDelay
            /\ closer.hash = marked
            /\ closer.pc # "refresh" => Unmoved(closer.source)

\* An observer that looked for pending reviews works while there is none.
ObserverAlone ==
    observer.pc \in {"source", "refresh", "compare", "mark"} => ~liveWalletHasPendingManagementReview

UsedIsOwn == \A i \in DOMAIN closes : closes[i].used => ownJob

HoldInv == HoldTypeOK /\ LockHeld /\ PreviewHeld /\ ObserverAlone /\ UsedIsOwn /\ ReviewUndisturbed

LEMMA ActorMoves ==
  ASSUME NEW a \in Actor, NEW p \in Steps, NEW b, b = [a EXCEPT !.pc = p]
  PROVE  b \in Actor /\ b.pc = p /\ b.source = a.source /\ b.hash = a.hash
BY DEF Actor

LEMMA RestingType == Resting \in Actor /\ Resting.pc = "idle"
BY DEF Resting, Actor, Steps

\* The preview takes a step that leaves the database alone.
LEMMA PreviewKeeps ==
  ASSUME HoldInv, UNCHANGED <<hclock, purse, marked, closes, ownJob, holdLock, observer, upkeep>>,
         closer' \in Actor, closer'.pc # "idle", PreviewHeld'
  PROVE  HoldInv'
<1>1. HoldTypeOK'
  BY DEF HoldInv, HoldTypeOK
<1>2. LockHeld' /\ ObserverAlone' /\ UsedIsOwn' /\ ReviewUndisturbed'
  BY DEF HoldInv, LockHeld, ObserverAlone, UsedIsOwn, ReviewUndisturbed, Pending,
         liveWalletHasPendingManagementReview
<1> QED BY <1>1, <1>2 DEF HoldInv

\* A step that keeps what the preview knew: it fails, or goes on as it was.
LEMMA PreviewGoesOn ==
  ASSUME HoldInv, UNCHANGED <<hclock, purse, marked, closes, ownJob, holdLock, observer, upkeep>>,
         closer.pc \in {"price", "wallet", "verify"},
         closer'.pc \in {"wallet", "verify", "save", "release"}, closer' \in Actor,
         closer'.source = closer.source, closer'.hash = closer.hash
  PROVE  HoldInv'
<1>1. PreviewHeld'
  BY DEF HoldInv, PreviewHeld, Unmoved
<1> QED BY <1>1, PreviewKeeps

LEMMA AcquireKeeps == ASSUME HoldInv, acquireHold PROVE HoldInv'
<1>1. /\ holdLock.by = "nobody" /\ hclock \in Nat
      /\ UNCHANGED <<hclock, purse, marked, closes, ownJob, observer, upkeep>>
      /\ holdLock' = [by |-> "preview", since |-> hclock]
      /\ closer' = [Resting EXCEPT !.pc = "reread"]
  BY DEF acquireHold, NoHolder, At, HoldInv, HoldTypeOK
<1>2. closer' \in Actor /\ closer'.pc = "reread"
  BY <1>1, RestingType, ActorMoves DEF Steps
<1>3. /\ holdLock' \in [by : {"nobody", "preview", "observer"}, since : Nat]
      /\ holdLock'.by = "preview"
  BY <1>1
<1>4. HoldTypeOK'
  BY <1>1, <1>2, <1>3 DEF HoldInv, HoldTypeOK
<1>5. LockHeld' /\ PreviewHeld'
  BY <1>1, <1>2, <1>3 DEF HoldInv, LockHeld, PreviewHeld
<1>6. ObserverAlone' /\ UsedIsOwn' /\ ReviewUndisturbed'
  BY <1>1 DEF HoldInv, ObserverAlone, UsedIsOwn, ReviewUndisturbed, Pending,
              liveWalletHasPendingManagementReview
<1> QED BY <1>4, <1>5, <1>6 DEF HoldInv

\* The lock is given up: by the timer, by the preview or by the observer.
LEMMA FreeKeeps ==
  ASSUME HoldInv, UNCHANGED <<hclock, purse, marked, closes, ownJob, upkeep>>,
         holdLock' = NoHolder \/ holdLock' = holdLock, closer' \in Actor, observer' \in Actor,
         LockHeld', PreviewHeld', observer' = observer \/ observer'.pc = "idle"
  PROVE  HoldInv'
<1>1. NoHolder \in [by : {"nobody", "preview", "observer"}, since : Nat]
  BY DEF NoHolder
<1>2. HoldTypeOK'
  BY <1>1 DEF HoldInv, HoldTypeOK
<1>3. ObserverAlone' /\ UsedIsOwn' /\ ReviewUndisturbed'
  BY DEF HoldInv, ObserverAlone, UsedIsOwn, ReviewUndisturbed, Pending,
         liveWalletHasPendingManagementReview
<1> QED BY <1>2, <1>3 DEF HoldInv

\* The timer ends the hold only after any review of its preview has expired.
LEMMA TimeoutKeeps ==
  ASSUME HoldInv, ReviewLife \in Nat, MaxHold \in Nat, ReadDelay \in Nat,
         ReadDelay + ReviewLife <= MaxHold, holdTimesOut
  PROVE  HoldInv'
<1>1. /\ holdLock.by = "preview" /\ hclock >= holdLock.since + MaxHold /\ holdLock' = NoHolder
      /\ UNCHANGED <<hclock, purse, marked, closes, ownJob, closer, observer, upkeep>>
  BY DEF holdTimesOut
<1>2. /\ hclock \in Nat /\ holdLock.since \in Nat /\ closer \in Actor /\ closer.source \in Nat
      /\ observer \in Actor
  BY DEF HoldInv, HoldTypeOK, Actor
<1>3. holdLock'.by = "nobody"
  BY <1>1 DEF NoHolder
<1>4. LockHeld'
  BY <1>1, <1>3 DEF HoldInv, LockHeld
<1>5. closer.source <= holdLock.since + ReadDelay => closer.source + ReviewLife <= hclock
  BY <1>1, <1>2
<1>6. PreviewHeld'
  BY <1>1, <1>3, <1>5 DEF HoldInv, PreviewHeld
<1> QED BY <1>1, <1>2, <1>4, <1>6, FreeKeeps

LEMMA ReleaseKeeps == ASSUME HoldInv, releaseHold PROVE HoldInv'
<1>1. /\ closer' = Resting /\ UNCHANGED <<hclock, purse, marked, closes, ownJob, observer, upkeep>>
      /\ holdLock' = IF holdLock.by = "preview" THEN NoHolder ELSE holdLock
      /\ observer \in Actor
  BY DEF releaseHold, HoldInv, HoldTypeOK
<1>2. LockHeld'
  BY <1>1 DEF HoldInv, LockHeld, NoHolder
<1>3. PreviewHeld'
  BY <1>1, RestingType DEF PreviewHeld
<1> QED BY <1>1, <1>2, <1>3, RestingType, FreeKeeps

LEMMA RereadKeeps == ASSUME HoldInv, rereadCampaign PROVE HoldInv'
<1>1. /\ UNCHANGED <<hclock, purse, marked, closes, ownJob, holdLock, observer, upkeep>>
      /\ closer \in Actor /\ marked \in Nat
      /\ closer' = IF ownJob THEN [closer EXCEPT !.pc = "release"]
                   ELSE [closer EXCEPT !.pc = "source", !.hash = marked]
  BY DEF rereadCampaign, PreviewFrame, Fails, HoldInv, HoldTypeOK
<1>2. CASE ownJob
  <2>1. closer' \in Actor /\ closer'.pc = "release"
    BY <1>1, <1>2, ActorMoves DEF Steps
  <2> QED BY <1>1, <2>1, PreviewKeeps DEF PreviewHeld
<1>3. CASE ~ownJob
  <2>1. closer' = [closer EXCEPT !.pc = "source", !.hash = marked]
    BY <1>1, <1>3
  <2>2. closer' \in Actor /\ closer'.pc = "source" /\ closer'.hash = marked
    BY <1>1, <2>1 DEF Actor, Steps
  <2> QED BY <1>1, <2>2, PreviewKeeps DEF PreviewHeld
<1> QED BY <1>2, <1>3

LEMMA SourceKeeps == ASSUME HoldInv, sourceNow PROVE HoldInv'
<1>1. /\ UNCHANGED <<hclock, purse, marked, closes, ownJob, holdLock, observer, upkeep>>
      /\ closer \in Actor /\ hclock \in Nat /\ closer.pc = "source"
      /\ holdLock.by = "preview" /\ hclock <= holdLock.since + ReadDelay
      /\ closer' = IF lane = "quiet" THEN [closer EXCEPT !.pc = "refresh", !.source = hclock]
                   ELSE [closer EXCEPT !.pc = "release"]
  BY DEF sourceNow, PreviewFrame, Fails, HoldInv, HoldTypeOK
<1>2. closer.hash = marked
  BY <1>1 DEF HoldInv, PreviewHeld
<1>3. CASE lane = "quiet"
  <2>1. closer' = [closer EXCEPT !.pc = "refresh", !.source = hclock]
    BY <1>1, <1>3
  <2>2. /\ closer' \in Actor /\ closer'.pc = "refresh" /\ closer'.source = hclock
        /\ closer'.hash = closer.hash
    BY <1>1, <2>1 DEF Actor, Steps
  <2> QED BY <1>1, <1>2, <2>2, PreviewKeeps DEF PreviewHeld
<1>4. CASE lane # "quiet"
  <2>1. closer' \in Actor /\ closer'.pc = "release"
    BY <1>1, <1>4, ActorMoves DEF Steps
  <2> QED BY <1>1, <2>1, PreviewKeeps DEF PreviewHeld
<1> QED BY <1>3, <1>4

\* A snapshot goes into the wallet row: of this source, or the row stays.
LEMMA RefreshType ==
  ASSUME HoldInv, NEW source \in Nat, NEW who \in {"preview", "observer", "upkeep"},
         refresh(source, who)
  PROVE  /\ purse' \in [source : Nat, gen : Nat, by : {"preview", "observer", "upkeep", "queue"}]
         /\ purse'.source = source
         /\ purse' = purse \/ purse'.by = who
<1>1. purse \in [source : Nat, gen : Nat, by : {"preview", "observer", "upkeep", "queue"}]
  BY DEF HoldInv, HoldTypeOK
<1>2. CASE source = purse.source
  BY <1>1, <1>2 DEF refresh
<1>3. CASE source # purse.source
  <2>1. purse' = [purse EXCEPT !.source = source, !.by = who]
    BY <1>3 DEF refresh
  <2> QED BY <1>1, <2>1
<1> QED BY <1>2, <1>3

\* The wallet row moves and the observer did not do it.
LEMMA WalletKeeps ==
  ASSUME HoldInv, UNCHANGED <<hclock, marked, closes, ownJob, holdLock, observer>>,
         purse' \in [source : Nat, gen : Nat, by : {"preview", "observer", "upkeep", "queue"}],
         purse' = purse \/ purse'.by # "observer",
         closer' \in Actor, closer'.pc # "idle", PreviewHeld', upkeep' \in Actor
  PROVE  HoldInv'
<1>1. HoldTypeOK'
  BY DEF HoldInv, HoldTypeOK
<1>2. LockHeld' /\ ObserverAlone' /\ UsedIsOwn'
  BY DEF HoldInv, LockHeld, ObserverAlone, UsedIsOwn, Pending, liveWalletHasPendingManagementReview
<1>3. ReviewUndisturbed'
  BY DEF HoldInv, ReviewUndisturbed, Pending
<1> QED BY <1>1, <1>2, <1>3 DEF HoldInv

\* The same while no preview is at work, or with the preview where it was.
LEMMA WalletMoves ==
  ASSUME HoldInv, UNCHANGED <<hclock, marked, closes, ownJob, holdLock, observer, closer>>,
         purse' \in [source : Nat, gen : Nat, by : {"preview", "observer", "upkeep", "queue"}],
         purse' = purse \/ purse'.by # "observer", upkeep' \in Actor
  PROVE  HoldInv'
<1>1. HoldTypeOK'
  BY DEF HoldInv, HoldTypeOK
<1>2. LockHeld' /\ ObserverAlone' /\ UsedIsOwn'
  BY DEF HoldInv, LockHeld, ObserverAlone, UsedIsOwn, Pending, liveWalletHasPendingManagementReview
<1>3. ReviewUndisturbed'
  BY DEF HoldInv, ReviewUndisturbed, Pending
<1>4. Unmoved(closer.source) => (Unmoved(closer.source))'
  BY DEF Unmoved
<1>5. PreviewHeld'
  BY <1>4 DEF HoldInv, PreviewHeld
<1> QED BY <1>1, <1>2, <1>3, <1>5 DEF HoldInv

LEMMA RefreshPreviewKeeps == ASSUME HoldInv, refreshPreview PROVE HoldInv'
<1>1. /\ closer.pc = "refresh" /\ closer \in Actor /\ closer.source \in Nat
      /\ upkeep \in Actor
      /\ UNCHANGED <<hclock, marked, closes, ownJob, holdLock, observer, upkeep>>
  BY DEF refreshPreview, PreviewFrame, HoldInv, HoldTypeOK, Actor
<1>2. CASE Refreshable(closer.source)
  <2>1. refresh(closer.source, "preview") /\ closer' = [closer EXCEPT !.pc = "price"]
    BY <1>2 DEF refreshPreview, At
  <2>2. /\ purse' \in [source : Nat, gen : Nat, by : {"preview", "observer", "upkeep", "queue"}]
        /\ purse'.source = closer.source /\ (purse' = purse \/ purse'.by = "preview")
    BY <1>1, <2>1, RefreshType
  <2>3. /\ closer' \in Actor /\ closer'.pc = "price" /\ closer'.source = closer.source
        /\ closer'.hash = closer.hash
    BY <1>1, <2>1, ActorMoves DEF Steps
  <2>4. PreviewHeld'
    BY <1>1, <2>2, <2>3 DEF HoldInv, PreviewHeld, Unmoved
  <2> QED BY <1>1, <2>2, <2>3, <2>4, WalletKeeps
<1>3. CASE ~Refreshable(closer.source)
  <2>1. closer' = [closer EXCEPT !.pc = "release"] /\ purse' = purse
    BY <1>3 DEF refreshPreview, Fails
  <2>2. closer' \in Actor /\ closer'.pc = "release"
    BY <1>1, <2>1, ActorMoves DEF Steps
  <2> QED BY <1>1, <2>1, <2>2, PreviewKeeps DEF PreviewHeld
<1> QED BY <1>2, <1>3

LEMMA CostsKeep == ASSUME HoldInv, managementCosts PROVE HoldInv'
<1>1. /\ closer.pc = "price" /\ closer \in Actor
      /\ UNCHANGED <<hclock, purse, marked, closes, ownJob, holdLock, observer, upkeep>>
  BY DEF managementCosts, PreviewFrame, HoldInv, HoldTypeOK
<1>2. PICK p \in {"wallet", "release"} : closer' = [closer EXCEPT !.pc = p]
  BY DEF managementCosts, At, Fails
<1>3. /\ closer' \in Actor /\ closer'.pc = p /\ closer'.source = closer.source
      /\ closer'.hash = closer.hash
  BY <1>1, <1>2, ActorMoves DEF Steps
<1> QED BY <1>1, <1>3, PreviewGoesOn

LEMMA FreezeKeeps == ASSUME HoldInv, freezeReview PROVE HoldInv'
<1>1. /\ closer.pc = "wallet" /\ closer \in Actor /\ purse.gen \in Nat
      /\ UNCHANGED <<hclock, purse, marked, closes, ownJob, holdLock, observer, upkeep>>
  BY DEF freezeReview, PreviewFrame, HoldInv, HoldTypeOK
<1>2. PICK g \in Nat : g = purse.gen
  BY <1>1
<1>3. \/ closer' = [closer EXCEPT !.pc = "verify", !.gen = g]
      \/ closer' = [closer EXCEPT !.pc = "release"]
  BY <1>2 DEF freezeReview, Fails
<1>4. /\ closer' \in Actor /\ closer'.pc \in {"verify", "release"}
      /\ closer'.source = closer.source /\ closer'.hash = closer.hash
  BY <1>1, <1>3 DEF Actor, Steps
<1> QED BY <1>1, <1>4, PreviewGoesOn

LEMMA VerifyKeeps == ASSUME HoldInv, verifyPinned PROVE HoldInv'
<1>1. /\ closer.pc = "verify" /\ closer \in Actor
      /\ UNCHANGED <<hclock, purse, marked, closes, ownJob, holdLock, observer, upkeep>>
  BY DEF verifyPinned, PreviewFrame, HoldInv, HoldTypeOK
<1>2. PICK p \in {"save", "release"} : closer' = [closer EXCEPT !.pc = p]
  BY DEF verifyPinned, At, Fails
<1>3. /\ closer' \in Actor /\ closer'.pc = p /\ closer'.source = closer.source
      /\ closer'.hash = closer.hash
  BY <1>1, <1>2, ActorMoves DEF Steps
<1> QED BY <1>1, <1>3, PreviewGoesOn

\* A review is recorded under the lock, or it is expired when it is recorded.
LEMMA RecordKeeps == ASSUME HoldInv, ReviewLife \in Nat, recordReview PROVE HoldInv'
<1>1. /\ closer.pc = "save" /\ closer \in Actor /\ closer.source \in Nat /\ closer.hash \in Nat
      /\ closer.gen \in Nat /\ hclock \in Nat /\ closes \in Seq(Close)
      /\ UNCHANGED <<hclock, purse, marked, ownJob, holdLock, observer, upkeep>>
      /\ closer' = [closer EXCEPT !.pc = "release"]
  BY DEF recordReview, PreviewFrame, At, HoldInv, HoldTypeOK, Actor
<1>2. closer' \in Actor /\ closer'.pc = "release"
  BY <1>1, ActorMoves DEF Steps
<1>3. LockHeld' /\ PreviewHeld'
  BY <1>1, <1>2 DEF HoldInv, LockHeld, PreviewHeld
<1>4. CASE closes' = closes
  BY <1>1, <1>2, <1>4, PreviewKeeps DEF PreviewHeld
<1>5. CASE closes' # closes
  <2>1. PICK n : n = [hash |-> closer.hash, source |-> closer.source, gen |-> closer.gen,
                      expires |-> closer.source + ReviewLife, used |-> FALSE]
    OBVIOUS
  <2>2. closes' = Append(closes, n)
    BY <1>5, <2>1 DEF recordReview
  <2>3. closer.source + ReviewLife \in Nat
    BY <1>1
  <2>4. /\ n \in Close /\ n.hash = closer.hash /\ n.source = closer.source
        /\ n.expires = closer.source + ReviewLife /\ ~n.used
    BY <1>1, <2>1, <2>3 DEF Close
  <2>5. /\ closes' \in Seq(Close)
        /\ \A i \in DOMAIN closes' : closes'[i] = n \/ (i \in DOMAIN closes /\ closes'[i] = closes[i])
    BY <1>1, <2>2, <2>4
  <2>6. Pending(n) => /\ holdLock.by = "preview" /\ n.hash = marked
                      /\ n.source = purse.source \/ purse.by # "observer"
    <3> SUFFICES ASSUME Pending(n)
                 PROVE  /\ holdLock.by = "preview" /\ n.hash = marked
                        /\ n.source = purse.source \/ purse.by # "observer"
      OBVIOUS
    <3>1. ~(closer.source + ReviewLife <= hclock)
      BY <1>1, <2>4 DEF Pending
    <3>2. /\ holdLock.by = "preview" /\ closer.hash = marked /\ Unmoved(closer.source)
      BY <1>1, <3>1 DEF HoldInv, PreviewHeld
    <3> QED BY <2>4, <3>2 DEF Unmoved
  <2>7. Pending(n) => observer.pc = "idle"
    BY <2>6 DEF HoldInv, LockHeld
  <2>8. HoldTypeOK'
    BY <1>1, <1>2, <2>5 DEF HoldInv, HoldTypeOK
  <2>9. ObserverAlone'
    BY <1>1, <2>5, <2>7 DEF HoldInv, ObserverAlone, Pending, liveWalletHasPendingManagementReview
  <2>10. UsedIsOwn'
    BY <1>1, <2>4, <2>5 DEF HoldInv, UsedIsOwn
  <2>11. ReviewUndisturbed'
    BY <1>1, <2>4, <2>5, <2>6 DEF HoldInv, ReviewUndisturbed, Pending
  <2> QED BY <1>3, <2>8, <2>9, <2>10, <2>11 DEF HoldInv
<1> QED BY <1>4, <1>5

LEMMA EnqueueKeeps ==
  ASSUME HoldInv, NEW k \in DOMAIN closes, enqueue(k)
  PROVE  HoldInv'
<1>1. /\ closes \in Seq(Close) /\ Pending(closes[k]) /\ closes[k].hash = marked
      /\ closes' = [closes EXCEPT ![k].used = TRUE] /\ ownJob' = TRUE
      /\ UNCHANGED <<hclock, purse, marked, holdLock, closer, observer, upkeep>>
  BY DEF enqueue, HoldInv, HoldTypeOK
<1>2. closes[k] \in Close
  BY <1>1
<1>3. PICK n : n = [closes[k] EXCEPT !.used = TRUE]
  OBVIOUS
<1>4. n \in Close /\ n.hash = marked /\ n.used
  BY <1>1, <1>2, <1>3 DEF Close
<1>5. closes' = [closes EXCEPT ![k] = n]
  BY <1>1, <1>3
<1>6. /\ closes' \in Seq(Close) /\ DOMAIN closes' = DOMAIN closes /\ closes'[k] = n
      /\ \A i \in DOMAIN closes : i # k => closes'[i] = closes[i]
  <2>1. PICK m \in Nat : closes \in [1..m -> Close] /\ DOMAIN closes = 1..m
    BY <1>1
  <2>2. closes' \in [1..m -> Close]
    BY <1>4, <1>5, <2>1
  <2>3. closes' \in Seq(Close)
    BY <2>2
  <2> QED BY <1>5, <2>1, <2>2, <2>3
<1>7. HoldTypeOK'
  BY <1>1, <1>6 DEF HoldInv, HoldTypeOK
<1>8. LockHeld' /\ PreviewHeld'
  BY <1>1 DEF HoldInv, LockHeld, PreviewHeld, Unmoved
<1>9. ObserverAlone'
  BY <1>1, <1>4, <1>6 DEF HoldInv, ObserverAlone, Pending, liveWalletHasPendingManagementReview
<1>10. UsedIsOwn'
  BY <1>1 DEF UsedIsOwn
<1>11. ReviewUndisturbed'
  <2> SUFFICES ASSUME NEW i \in DOMAIN closes
               PROVE  /\ Pending(closes'[i]) \/ closes'[i].used => closes'[i].hash = marked
                      /\ Pending(closes'[i]) => closes'[i].source = purse.source \/ purse.by # "observer"
    BY <1>1, <1>6 DEF ReviewUndisturbed, Pending
  <2>1. CASE i = k
    BY <1>4, <1>6, <2>1 DEF Pending
  <2>2. CASE i # k
    BY <1>6, <2>2 DEF HoldInv, ReviewUndisturbed
  <2> QED BY <2>1, <2>2
<1> QED BY <1>7, <1>8, <1>9, <1>10, <1>11 DEF HoldInv

-----------------------------------------------------------------------------
(* ManagementHold: the worker's steps.                                     *)

\* The observer moves on with the lock, the database stays.
LEMMA ObserverKeeps ==
  ASSUME HoldInv, UNCHANGED <<hclock, purse, marked, closes, ownJob, holdLock, closer, upkeep>>,
         observer' \in Actor, observer.pc # "idle", ObserverAlone'
  PROVE  HoldInv'
<1>1. HoldTypeOK'
  BY DEF HoldInv, HoldTypeOK
<1>2. LockHeld' /\ PreviewHeld' /\ UsedIsOwn' /\ ReviewUndisturbed'
  BY DEF HoldInv, LockHeld, PreviewHeld, Unmoved, UsedIsOwn, ReviewUndisturbed, Pending
<1> QED BY <1>1, <1>2 DEF HoldInv

LEMMA LeaseKeeps == ASSUME HoldInv, tryAcquireLiveWalletObservationLease PROVE HoldInv'
<1>1. /\ holdLock.by = "nobody" /\ hclock \in Nat
      /\ UNCHANGED <<hclock, purse, marked, closes, ownJob, closer, upkeep>>
      /\ holdLock' = [by |-> "observer", since |-> hclock]
      /\ observer' = [Resting EXCEPT !.pc = "pending"]
  BY DEF tryAcquireLiveWalletObservationLease, ObserverFrame, NoHolder, At, HoldInv, HoldTypeOK
<1>2. observer' \in Actor /\ observer'.pc = "pending"
  BY <1>1, RestingType, ActorMoves DEF Steps
<1>3. /\ holdLock' \in [by : {"nobody", "preview", "observer"}, since : Nat]
      /\ holdLock'.by = "observer"
  BY <1>1
<1>4. HoldTypeOK'
  BY <1>1, <1>2, <1>3 DEF HoldInv, HoldTypeOK
<1>5. LockHeld' /\ ObserverAlone'
  BY <1>2, <1>3 DEF LockHeld, ObserverAlone
<1>6. PreviewHeld'
  BY <1>1, <1>3 DEF HoldInv, PreviewHeld
<1>7. UsedIsOwn' /\ ReviewUndisturbed'
  BY <1>1 DEF HoldInv, UsedIsOwn, ReviewUndisturbed, Pending
<1> QED BY <1>4, <1>5, <1>6, <1>7 DEF HoldInv

LEMMA PendingKeeps == ASSUME HoldInv, observePending PROVE HoldInv'
<1>1. /\ observer.pc = "pending" /\ observer \in Actor
      /\ UNCHANGED <<hclock, purse, marked, closes, ownJob, holdLock, closer, upkeep>>
  BY DEF observePending, ObserverFrame, HoldInv, HoldTypeOK
<1>2. PICK p \in {"release", "source"} :
        /\ observer' = [observer EXCEPT !.pc = p]
        /\ p = "source" => ~liveWalletHasPendingManagementReview
  BY DEF observePending, Fails, At
<1>3. observer' \in Actor /\ observer'.pc = p
  BY <1>1, <1>2, ActorMoves DEF Steps
<1>4. ObserverAlone'
  BY <1>1, <1>2, <1>3 DEF ObserverAlone, liveWalletHasPendingManagementReview, Pending
<1> QED BY <1>1, <1>3, <1>4, ObserverKeeps

LEMMA SourcedKeeps == ASSUME HoldInv, observeSource PROVE HoldInv'
<1>1. /\ observer.pc = "source" /\ observer \in Actor /\ hclock \in Nat
      /\ UNCHANGED <<hclock, purse, marked, closes, ownJob, holdLock, closer, upkeep>>
      /\ \/ observer' = [observer EXCEPT !.pc = "refresh", !.source = hclock]
         \/ observer' = [observer EXCEPT !.pc = "release"]
  BY DEF observeSource, ObserverFrame, Fails, HoldInv, HoldTypeOK
<1>2. observer' \in Actor /\ observer'.pc \in {"refresh", "release"}
  BY <1>1 DEF Actor, Steps
<1>3. ObserverAlone'
  BY <1>1 DEF HoldInv, ObserverAlone, liveWalletHasPendingManagementReview, Pending
<1> QED BY <1>1, <1>2, <1>3, ObserverKeeps

LEMMA CompareKeeps == ASSUME HoldInv, compareWallet PROVE HoldInv'
<1>1. /\ observer.pc = "compare" /\ observer \in Actor
      /\ UNCHANGED <<hclock, purse, marked, closes, ownJob, holdLock, closer, upkeep>>
  BY DEF compareWallet, ObserverFrame, HoldInv, HoldTypeOK
<1>2. PICK p \in {"mark", "release"} : observer' = [observer EXCEPT !.pc = p]
  BY DEF compareWallet, Fails, At
<1>3. observer' \in Actor /\ observer'.pc = p
  BY <1>1, <1>2, ActorMoves DEF Steps
<1>4. ObserverAlone'
  BY <1>1 DEF HoldInv, ObserverAlone, liveWalletHasPendingManagementReview, Pending
<1> QED BY <1>1, <1>3, <1>4, ObserverKeeps

\* While the observer has the lock, no preview can record a pending review.
LEMMA PreviewExpired ==
  ASSUME HoldInv, observer.pc # "idle"
  PROVE  /\ holdLock.by = "observer"
         /\ closer.pc \in {"refresh", "price", "wallet", "verify", "save"} =>
              closer.source + ReviewLife <= hclock
<1>1. holdLock.by = "observer"
  BY DEF HoldInv, LockHeld
<1> QED BY <1>1 DEF HoldInv, PreviewHeld

\* The observer moves the wallet's source while no review is pinned to it.
LEMMA ObservedKeeps == ASSUME HoldInv, refreshObserved PROVE HoldInv'
<1>1. /\ observer.pc = "refresh" /\ observer \in Actor /\ observer.source \in Nat
      /\ UNCHANGED <<hclock, marked, closes, ownJob, holdLock, closer, upkeep>>
  BY DEF refreshObserved, ObserverFrame, HoldInv, HoldTypeOK, Actor
<1>2. CASE ~Refreshable(observer.source)
  <2>1. observer' = [observer EXCEPT !.pc = "release"] /\ purse' = purse
    BY <1>2 DEF refreshObserved, Fails
  <2>2. observer' \in Actor /\ observer'.pc = "release"
    BY <1>1, <2>1, ActorMoves DEF Steps
  <2> QED BY <1>1, <2>1, <2>2, ObserverKeeps DEF ObserverAlone
<1>3. CASE Refreshable(observer.source)
  <2>1. refresh(observer.source, "observer") /\ observer' = [observer EXCEPT !.pc = "compare"]
    BY <1>3 DEF refreshObserved, At
  <2>2. purse' \in [source : Nat, gen : Nat, by : {"preview", "observer", "upkeep", "queue"}]
    BY <1>1, <2>1, RefreshType
  <2>3. observer' \in Actor /\ observer'.pc = "compare"
    BY <1>1, <2>1, ActorMoves DEF Steps
  <2>4. \A i \in DOMAIN closes : ~Pending(closes[i])
    BY <1>1 DEF HoldInv, ObserverAlone, liveWalletHasPendingManagementReview
  <2>5. HoldTypeOK'
    BY <1>1, <2>2, <2>3 DEF HoldInv, HoldTypeOK
  <2>6. LockHeld' /\ PreviewHeld'
    BY <1>1, <2>3, PreviewExpired DEF HoldInv, LockHeld, PreviewHeld
  <2>7. ObserverAlone' /\ UsedIsOwn' /\ ReviewUndisturbed'
    BY <1>1, <2>4 DEF HoldInv, ObserverAlone, UsedIsOwn, ReviewUndisturbed, Pending,
                      liveWalletHasPendingManagementReview
  <2> QED BY <2>5, <2>6, <2>7 DEF HoldInv
<1> QED BY <1>2, <1>3

\* A mark changes the campaign's hash while no review or job is bound to it.
LEMMA MarkKeeps == ASSUME HoldInv, recordRangeKeeperLiveValuationMark PROVE HoldInv'
<1>1. /\ observer.pc = "mark" /\ observer \in Actor /\ marked \in Nat
      /\ UNCHANGED <<hclock, purse, closes, ownJob, holdLock, closer, upkeep>>
      /\ observer' = [observer EXCEPT !.pc = "release"]
      /\ marked' = IF laneAllowsMark THEN marked + 1 ELSE marked
  BY DEF recordRangeKeeperLiveValuationMark, ObserverFrame, Fails, HoldInv, HoldTypeOK
<1>2. observer' \in Actor /\ observer'.pc = "release"
  BY <1>1, ActorMoves DEF Steps
<1>3. CASE ~laneAllowsMark
  BY <1>1, <1>2, <1>3, ObserverKeeps DEF ObserverAlone
<1>4. CASE laneAllowsMark
  <2>1. marked' \in Nat /\ ~ownJob
    BY <1>1, <1>4 DEF laneAllowsMark
  <2>2. \A i \in DOMAIN closes : ~Pending(closes[i]) /\ ~closes[i].used
    BY <1>1, <2>1 DEF HoldInv, ObserverAlone, UsedIsOwn, liveWalletHasPendingManagementReview
  <2>3. HoldTypeOK'
    BY <1>1, <1>2, <2>1 DEF HoldInv, HoldTypeOK
  <2>4. LockHeld' /\ PreviewHeld'
    BY <1>1, <1>2, PreviewExpired DEF HoldInv, LockHeld, PreviewHeld
  <2>5. ObserverAlone' /\ UsedIsOwn' /\ ReviewUndisturbed'
    BY <1>1, <2>2 DEF HoldInv, ObserverAlone, UsedIsOwn, ReviewUndisturbed, Pending,
                      liveWalletHasPendingManagementReview
  <2> QED BY <2>3, <2>4, <2>5 DEF HoldInv
<1> QED BY <1>3, <1>4

LEMMA LeaseReleaseKeeps == ASSUME HoldInv, releaseLease PROVE HoldInv'
<1>1. /\ observer.pc = "release" /\ observer' = Resting /\ holdLock' = NoHolder /\ closer \in Actor
      /\ UNCHANGED <<hclock, purse, marked, closes, ownJob, closer, upkeep>>
  BY DEF releaseLease, ObserverFrame, HoldInv, HoldTypeOK
<1>2. LockHeld'
  BY <1>1, RestingType DEF LockHeld, NoHolder
<1>3. holdLock'.by = "nobody"
  BY <1>1 DEF NoHolder
<1>4. PreviewHeld'
  BY <1>1, <1>3, PreviewExpired DEF HoldInv, PreviewHeld
<1> QED BY <1>1, <1>2, <1>4, RestingType, FreeKeeps

LEMMA UpkeepKeeps ==
  ASSUME HoldInv, upkeepSource \/ upkeepCheck \/ upkeepRefresh
  PROVE  HoldInv'
<1>1. /\ UNCHANGED <<hclock, marked, closes, ownJob, holdLock, observer, closer>>
      /\ upkeep \in Actor /\ hclock \in Nat /\ upkeep.source \in Nat
      /\ purse \in [source : Nat, gen : Nat, by : {"preview", "observer", "upkeep", "queue"}]
  BY DEF upkeepSource, upkeepCheck, upkeepRefresh, UpkeepFrame, HoldInv, HoldTypeOK, Actor
<1>2. CASE upkeepSource
  <2>1. purse' = purse /\ upkeep' = [Resting EXCEPT !.pc = "check", !.source = hclock]
    BY <1>2 DEF upkeepSource
  <2>2. upkeep' \in Actor
    BY <1>1, <2>1, RestingType DEF Actor, Steps
  <2> QED BY <1>1, <2>1, <2>2, WalletMoves
<1>3. CASE upkeepCheck
  <2>1. purse' = purse /\ (upkeep' = [upkeep EXCEPT !.pc = "refresh"] \/ upkeep' = Resting)
    BY <1>3 DEF upkeepCheck, At
  <2>2. upkeep' \in Actor
    BY <1>1, <2>1, RestingType, ActorMoves DEF Steps
  <2> QED BY <1>1, <2>1, <2>2, WalletMoves
<1>4. CASE upkeepRefresh
  <2>1. upkeep' \in Actor
    BY <1>4, RestingType DEF upkeepRefresh
  <2>2. purse' = purse \/ refresh(upkeep.source, "upkeep")
    BY <1>4 DEF upkeepRefresh
  <2>3. /\ purse' \in [source : Nat, gen : Nat, by : {"preview", "observer", "upkeep", "queue"}]
        /\ purse' = purse \/ purse'.by = "upkeep"
    BY <1>1, <2>2, RefreshType
  <2> QED BY <1>1, <2>1, <2>3, WalletMoves
<1> QED BY <1>2, <1>3, <1>4

\* A sibling's receipt replaces the snapshot on behalf of the queue.
LEMMA SiblingKeeps == ASSUME HoldInv, SiblingStarts \/ SiblingReceipt PROVE HoldInv'
<1>1. /\ UNCHANGED <<hclock, marked, closes, ownJob, holdLock, observer, closer, upkeep>>
      /\ upkeep \in Actor /\ hclock \in Nat
      /\ purse \in [source : Nat, gen : Nat, by : {"preview", "observer", "upkeep", "queue"}]
  BY DEF SiblingStarts, SiblingReceipt, HoldInv, HoldTypeOK
<1>2. purse' = purse \/ purse' = [source |-> hclock, gen |-> purse.gen + 1, by |-> "queue"]
  BY DEF SiblingStarts, SiblingReceipt
<1>3. /\ purse' \in [source : Nat, gen : Nat, by : {"preview", "observer", "upkeep", "queue"}]
      /\ purse' = purse \/ purse'.by = "queue"
  BY <1>1, <1>2
<1> QED BY <1>1, <1>3, WalletMoves

\* Time only lets reviews expire.
LEMMA TimeKeeps == ASSUME HoldInv, ReviewLife \in Nat, HalfMinute PROVE HoldInv'
<1>1. /\ hclock \in Nat /\ hclock' = hclock + 1 /\ closer.source \in Nat /\ closes \in Seq(Close)
      /\ UNCHANGED <<purse, marked, closes, ownJob, holdLock, closer, observer, upkeep>>
  BY DEF HalfMinute, HoldInv, HoldTypeOK, Actor
<1>2. \A i \in DOMAIN closes : closes[i].expires \in Nat
  <2>1. \A i \in DOMAIN closes : closes[i] \in Close
    BY <1>1
  <2> QED BY <2>1 DEF Close
<1>3. \A i \in DOMAIN closes : ~closes[i].used /\ hclock' < closes[i].expires => Pending(closes[i])
  BY <1>1, <1>2 DEF Pending
<1>4. HoldTypeOK'
  BY <1>1 DEF HoldInv, HoldTypeOK
<1>5. closer.source + ReviewLife <= hclock => closer.source + ReviewLife <= hclock'
  BY <1>1
<1>6. LockHeld' /\ PreviewHeld'
  BY <1>1, <1>5 DEF HoldInv, LockHeld, PreviewHeld, Unmoved
<1>7. ObserverAlone'
  BY <1>1, <1>3 DEF HoldInv, ObserverAlone, Pending, liveWalletHasPendingManagementReview
<1>8. UsedIsOwn' /\ ReviewUndisturbed'
  BY <1>1, <1>3 DEF HoldInv, UsedIsOwn, ReviewUndisturbed, Pending
<1> QED BY <1>4, <1>6, <1>7, <1>8 DEF HoldInv

\* An operator's close that may still be admitted, or is queued, keeps the
\* campaign's hash and the wallet's source out of the observer's reach, for
\* every length of the hold that covers the reads of a preview and the life of
\* its review.  MaxHold is what carries the proof: a shorter hold lets the
\* observer in before a review that is still good is recorded.
THEOREM CloseUndisturbed ==
  ASSUME ReviewLife \in Nat, MaxHold \in Nat, ReadDelay \in Nat, ReadDelay + ReviewLife <= MaxHold
  PROVE  HoldSpec => []ReviewUndisturbed
<1>1. HoldInit => HoldInv
  <2> SUFFICES ASSUME HoldInit PROVE HoldInv
    OBVIOUS
  <2>1. /\ hclock \in Nat /\ marked \in Nat /\ ownJob \in BOOLEAN
        /\ purse \in [source : Nat, gen : Nat, by : {"preview", "observer", "upkeep", "queue"}]
        /\ closes = <<>>
        /\ holdLock \in [by : {"nobody", "preview", "observer"}, since : Nat]
        /\ holdLock.by = "nobody" /\ closer = Resting /\ observer = Resting /\ upkeep = Resting
    BY DEF HoldInit, NoHolder
  <2>2. HoldTypeOK
    BY <2>1, RestingType DEF HoldTypeOK
  <2>3. DOMAIN closes = {}
    BY <2>1
  <2> QED BY <2>1, <2>2, <2>3, RestingType
       DEF HoldInv, LockHeld, PreviewHeld, ObserverAlone, UsedIsOwn, ReviewUndisturbed
<1>2. HoldInv /\ [HoldNext]_holdVars => HoldInv'
  <2> SUFFICES ASSUME HoldInv, [HoldNext]_holdVars PROVE HoldInv'
    OBVIOUS
  <2>1. CASE acquireHold \/ holdTimesOut \/ releaseHold \/ rereadCampaign \/ sourceNow
    BY <2>1, AcquireKeeps, TimeoutKeeps, ReleaseKeeps, RereadKeeps, SourceKeeps
  <2>2. CASE refreshPreview \/ managementCosts \/ freezeReview \/ verifyPinned \/ recordReview
    BY <2>2, RefreshPreviewKeeps, CostsKeep, FreezeKeeps, VerifyKeeps, RecordKeeps
  <2>3. CASE \E i \in DOMAIN closes : enqueue(i)
    BY <2>3, EnqueueKeeps
  <2>4. CASE tryAcquireLiveWalletObservationLease \/ observePending \/ observeSource \/ releaseLease
    BY <2>4, LeaseKeeps, PendingKeeps, SourcedKeeps, LeaseReleaseKeeps
  <2>5. CASE refreshObserved \/ compareWallet \/ recordRangeKeeperLiveValuationMark
    BY <2>5, ObservedKeeps, CompareKeeps, MarkKeeps
  <2>6. CASE upkeepSource \/ upkeepCheck \/ upkeepRefresh
    BY <2>6, UpkeepKeeps
  <2>7. CASE SiblingStarts \/ SiblingReceipt
    BY <2>7, SiblingKeeps
  <2>8. CASE HalfMinute
    BY <2>8, TimeKeeps
  <2>9. CASE UNCHANGED holdVars
    BY <2>9 DEF holdVars, HoldInv, HoldTypeOK, LockHeld, PreviewHeld, Unmoved, ObserverAlone,
                UsedIsOwn, ReviewUndisturbed, Pending, liveWalletHasPendingManagementReview
  <2> QED BY <2>1, <2>2, <2>3, <2>4, <2>5, <2>6, <2>7, <2>8, <2>9 DEF HoldNext
<1>3. HoldInv => ReviewUndisturbed
  BY DEF HoldInv
<1> QED BY <1>1, <1>2, <1>3, PTL DEF HoldSpec

-----------------------------------------------------------------------------
(* PaperConfirmation.  The row lock alone keeps two confirmations apart: a *)
(* request that is about to commit found none, or its own, and nobody else *)
(* holds the lock.  From then on the confirmation never changes, so what   *)
(* was accepted against it still names its preview.                        *)

ConfBlocks == [at : Nat, fork : Nat]
Firsts == [source : ConfBlocks, expires : Int]
Envelopes == [preview : Nat, first : ConfBlocks, second : ConfBlocks, gasAt : Nat]
AskSteps == {"idle", "model", "preview", "frame", "gas", "build", "fork", "publish",
             "commit", "accept"}
BookSteps == {"idle", "snapshot", "context", "advance", "replay", "complete", "write"}
OpeningStates == {"none", "queued", "preflighting", "reconciling", "blocked", "succeeded"}

ConfTypes ==
    /\ confNow \in Nat \ {0} /\ confForks \in Nat
    /\ confChain \in Seq(Nat) /\ Len(confChain) = confNow
    /\ firsts \in Seq(Firsts) /\ proof \in Envelopes
    /\ opening \in [status : OpeningStates, preview : Nat, acceptedAt : Nat,
                    by : Bookers \cup {0}, until : Nat]
    /\ booked \in Seq([proof : Envelopes, canonical : BOOLEAN])
    /\ asker \in [Requests -> [pc : AskSteps, preview : Nat, first : ConfBlocks,
                               second : ConfBlocks, gasAt : Nat]]
    /\ booker \in [Bookers -> [pc : BookSteps, proof : Envelopes]]

\* What was built on a first observation still lies on it.
Based(e) == /\ e.preview \in DOMAIN firsts /\ e.first = firsts[e.preview].source
            /\ e.second.at > e.first.at

AskersSound ==
    \A r \in Requests :
      /\ asker[r].pc \in {"frame", "gas", "build"} => firsts # <<>>
      /\ asker[r].pc \in {"fork", "publish", "commit"} => Based(asker[r])
      /\ asker[r].pc = "commit" => rowLock = r /\ proof \in {NoProof, Envelope(r)}
      /\ asker[r].pc = "accept" => /\ proof # NoProof /\ asker[r].preview = proof.preview
                                   /\ asker[r].preview \in DOMAIN firsts
BookersSound ==
    \A w \in Bookers : /\ booker[w].pc # "idle" => opening.status # "none"
                       /\ booker[w].pc = "write" => rowLock = w
ProofSound == proof # NoProof => Based(proof)
OpeningSound == opening.status # "none" =>
                  /\ proof # NoProof /\ opening.preview = proof.preview
                  /\ opening.acceptedAt <= firsts[opening.preview].expires

ConfInv == /\ ConfTypes /\ AskersSound /\ BookersSound /\ ProofSound /\ OpeningSound
           /\ OpenedOnTwoBlocks

AskRecords == [pc : AskSteps, preview : Nat, first : ConfBlocks, second : ConfBlocks, gasAt : Nat]
BookRecords == [pc : BookSteps, proof : Envelopes]
Openings == [status : OpeningStates, preview : Nat, acceptedAt : Nat,
             by : Bookers \cup {0}, until : Nat]

\* A request that moves on, without the row lock.
LEMMA AskMoves ==
  ASSUME ConfInv, NEW r \in Requests, NEW a \in AskRecords,
         asker' = [asker EXCEPT ![r] = a], a.pc # "commit",
         a.pc \in {"frame", "gas", "build"} => firsts # <<>>,
         a.pc \in {"fork", "publish"} => Based(a),
         a.pc = "accept" => /\ proof # NoProof /\ a.preview = proof.preview
                            /\ a.preview \in DOMAIN firsts,
         UNCHANGED <<confNow, confChain, confForks, firsts, proof, campaign, rowLock,
                     opening, booked, booker>>
  PROVE  ConfInv'
<1> USE DEF ConfInv
<1>1. ConfTypes'
  BY DEF ConfTypes, AskRecords
<1>2. AskersSound'
  <2> SUFFICES ASSUME NEW q \in Requests
      PROVE /\ asker'[q].pc \in {"frame", "gas", "build"} => firsts # <<>>
            /\ asker'[q].pc \in {"fork", "publish", "commit"} => Based(asker'[q])
            /\ asker'[q].pc = "commit" => rowLock = q /\ proof \in {NoProof, Envelope(q)'}
            /\ asker'[q].pc = "accept" => /\ proof # NoProof /\ asker'[q].preview = proof.preview
                                          /\ asker'[q].preview \in DOMAIN firsts
    BY DEF AskersSound, Based
  <2>1. CASE q = r
    <3>1. asker'[q] = a
      BY <2>1 DEF ConfTypes
    <3> QED BY <3>1
  <2>2. CASE q # r
    <3>1. asker'[q] = asker[q]
      BY <2>2 DEF ConfTypes
    <3>2. Envelope(q)' = Envelope(q)
      BY <3>1 DEF Envelope
    <3> QED BY <3>1, <3>2 DEF AskersSound
  <2> QED BY <2>1, <2>2
<1>3. BookersSound' /\ ProofSound' /\ OpeningSound' /\ OpenedOnTwoBlocks'
  BY DEF BookersSound, ProofSound, OpeningSound, OpenedOnTwoBlocks, Based
<1> QED BY <1>1, <1>2, <1>3

\* A worker that moves on, without the row lock, and may change its claim.
LEMMA BookMoves ==
  ASSUME ConfInv, NEW w \in Bookers, NEW b \in BookRecords, b.pc # "write",
         booker' = [booker EXCEPT ![w] = b], opening' \in Openings,
         opening.status # "none", opening'.status # "none",
         opening'.preview = opening.preview, opening'.acceptedAt = opening.acceptedAt,
         UNCHANGED <<confNow, confChain, confForks, firsts, proof, campaign, rowLock,
                     booked, asker>>
  PROVE  ConfInv'
<1> USE DEF ConfInv
<1>1. ConfTypes'
  BY DEF ConfTypes, BookRecords, Openings
<1>2. AskersSound'
  BY DEF AskersSound, Based, Envelope
<1>3. BookersSound'
  <2> SUFFICES ASSUME NEW v \in Bookers
      PROVE booker'[v].pc = "write" => rowLock = v
    BY DEF BookersSound
  <2>1. booker'[v] = b \/ booker'[v] = booker[v]
    BY DEF ConfTypes
  <2> QED BY <2>1 DEF BookersSound
<1>4. ProofSound' /\ OpeningSound' /\ OpenedOnTwoBlocks'
  BY DEF ProofSound, OpeningSound, OpenedOnTwoBlocks, Based
<1> QED BY <1>1, <1>2, <1>3, <1>4

\* What the invariant says of one request.
LEMMA AskedTyped ==
  ASSUME ConfTypes, NEW r \in Requests
  PROVE  asker[r] \in AskRecords
BY DEF ConfTypes, AskRecords

LEMMA ObservedTyped == ASSUME ConfTypes PROVE Observed \in ConfBlocks
<1>1. confNow \in 1..Len(confChain)
  BY DEF ConfTypes
<1>2. confChain[confNow] \in Nat
  BY <1>1 DEF ConfTypes
<1> QED BY <1>2 DEF Observed, ConfBlocks, ConfTypes

\* The requests' actions that leave everything but the request alone.
LEMMA ReadsKeep ==
  ASSUME ConfInv, NEW r \in Requests,
         \/ rangeKeeperPaperOpenPreviewState(r) \/ runRangeKeeperPaperOpen(r)
         \/ readCanonicalPaperOpenFrame(r) \/ getGasPrice(r)
         \/ buildRangeKeeperPaperConfirmation(r)
         \/ simulateRangeKeeperPaperConfirmationOnOwnedFork(r) \/ RequestUnavailable(r)
         \/ createRangeKeeperPaperOpenAcceptance(r)
  PROVE  ConfInv'
<1>1. asker[r] \in AskRecords /\ confNow \in Nat
  BY AskedTyped DEF ConfInv, ConfTypes
<1>2. Observed \in ConfBlocks
  BY ObservedTyped DEF ConfInv
<1>3. IdleAsk \in AskRecords /\ NoObs \in ConfBlocks
  BY DEF IdleAsk, AskRecords, AskSteps, NoObs, ConfBlocks
<1>4. AskersSound
  BY DEF ConfInv
<1>5. CASE rangeKeeperPaperOpenPreviewState(r)
  <2> DEFINE a == [IdleAsk EXCEPT !.pc =
                     IF \E i \in DOMAIN firsts : ~Expired(i) THEN "frame" ELSE "model"]
  <2>1. a \in AskRecords /\ a.pc \in {"frame", "model"}
    BY <1>3 DEF IdleAsk, AskRecords, AskSteps
  <2>2. a.pc = "frame" => firsts # <<>>
    BY DEF IdleAsk
  <2>3. asker' = [asker EXCEPT ![r] = a]
    BY <1>5 DEF rangeKeeperPaperOpenPreviewState, Ask
  <2> HIDE DEF a
  <2> QED BY <1>5, <2>1, <2>2, <2>3, AskMoves DEF rangeKeeperPaperOpenPreviewState
<1>6. CASE runRangeKeeperPaperOpen(r)
  <2> DEFINE a == [asker[r] EXCEPT !.pc = "preview", !.first = Observed]
  <2>1. a \in AskRecords /\ a.pc = "preview"
    BY <1>1, <1>2 DEF AskRecords, AskSteps
  <2>2. asker' = [asker EXCEPT ![r] = a]
    BY <1>6 DEF runRangeKeeperPaperOpen, Ask
  <2> HIDE DEF a
  <2> QED BY <1>6, <2>1, <2>2, AskMoves DEF runRangeKeeperPaperOpen
<1>7. CASE readCanonicalPaperOpenFrame(r)
  <2> DEFINE a == [asker[r] EXCEPT !.pc = "gas", !.second = Observed]
  <2>1. a \in AskRecords /\ a.pc = "gas"
    BY <1>1, <1>2 DEF AskRecords, AskSteps
  <2>2. asker' = [asker EXCEPT ![r] = a]
    BY <1>7 DEF readCanonicalPaperOpenFrame, Ask
  <2>3. firsts # <<>>
    BY <1>4, <1>7 DEF AskersSound, readCanonicalPaperOpenFrame, AskAt
  <2> HIDE DEF a
  <2> QED BY <1>7, <2>1, <2>2, <2>3, AskMoves DEF readCanonicalPaperOpenFrame
<1>8. CASE getGasPrice(r)
  <2> DEFINE a == [asker[r] EXCEPT !.pc = "build", !.gasAt = confNow]
  <2>1. a \in AskRecords /\ a.pc = "build"
    BY <1>1 DEF AskRecords, AskSteps
  <2>2. asker' = [asker EXCEPT ![r] = a]
    BY <1>8 DEF getGasPrice, Ask
  <2>3. firsts # <<>>
    BY <1>4, <1>8 DEF AskersSound, getGasPrice, AskAt
  <2> HIDE DEF a
  <2> QED BY <1>8, <2>1, <2>2, <2>3, AskMoves DEF getGasPrice
<1>9. CASE buildRangeKeeperPaperConfirmation(r)
  <2> DEFINE a == [asker[r] EXCEPT !.pc = "fork", !.preview = Newest,
                                   !.first = firsts[Newest].source]
  <2>1. firsts # <<>> /\ firsts \in Seq(Firsts)
    BY <1>4, <1>9 DEF AskersSound, buildRangeKeeperPaperConfirmation, AskAt, ConfInv, ConfTypes
  <2>2. Newest \in DOMAIN firsts /\ Newest \in Nat
    BY <2>1 DEF Newest
  <2>3. firsts[Newest] \in Firsts
    BY <2>1, <2>2, ElementOfSeq
  <2>4. a \in AskRecords /\ a.pc = "fork" /\ a.preview = Newest /\ a.second = asker[r].second
        /\ a.first = firsts[Newest].source
    BY <1>1, <2>2, <2>3 DEF AskRecords, AskSteps, Firsts
  <2>5. CASE asker' = [asker EXCEPT ![r] = a]
             /\ LaterObservation(firsts[Newest].source, asker[r].second)
    <3>1. Based(a)
      BY <2>2, <2>4, <2>5 DEF Based, LaterObservation
    <3> HIDE DEF a
    <3> QED BY <1>9, <2>4, <2>5, <3>1, AskMoves DEF buildRangeKeeperPaperConfirmation
  <2>6. CASE asker' = [asker EXCEPT ![r] = IdleAsk]
    <3>1. IdleAsk.pc = "idle"
      BY DEF IdleAsk
    <3> HIDE DEF a
    <3> QED BY <1>3, <1>9, <2>6, <3>1, AskMoves DEF buildRangeKeeperPaperConfirmation
  <2> QED BY <1>9, <2>5, <2>6 DEF buildRangeKeeperPaperConfirmation, Ask
<1>10. CASE simulateRangeKeeperPaperConfirmationOnOwnedFork(r)
  <2> DEFINE a == [asker[r] EXCEPT !.pc = "publish"]
  <2>1. a \in AskRecords /\ a.pc = "publish" /\ a.preview = asker[r].preview
        /\ a.first = asker[r].first /\ a.second = asker[r].second
    BY <1>1 DEF AskRecords, AskSteps
  <2>2. asker' = [asker EXCEPT ![r] = a]
    BY <1>10 DEF simulateRangeKeeperPaperConfirmationOnOwnedFork, Ask
  <2>3. Based(asker[r])
    BY <1>4, <1>10 DEF AskersSound, simulateRangeKeeperPaperConfirmationOnOwnedFork, AskAt
  <2>4. Based(a)
    BY <2>1, <2>3 DEF Based
  <2> HIDE DEF a
  <2> QED BY <1>10, <2>1, <2>2, <2>4, AskMoves
      DEF simulateRangeKeeperPaperConfirmationOnOwnedFork
<1>11. CASE RequestUnavailable(r)
  <2>1. IdleAsk.pc = "idle" /\ asker' = [asker EXCEPT ![r] = IdleAsk]
    BY <1>11 DEF IdleAsk, RequestUnavailable, Ask
  <2> QED BY <1>3, <1>11, <2>1, AskMoves DEF RequestUnavailable
<1>12. CASE createRangeKeeperPaperOpenAcceptance(r)
  <2>1. PICK i \in DOMAIN firsts :
          /\ proof.preview = i
          /\ asker' = [asker EXCEPT ![r] = [IdleAsk EXCEPT !.pc = "accept", !.preview = i]]
    BY <1>12 DEF createRangeKeeperPaperOpenAcceptance, BoundPreview, Ask
  <2> DEFINE a == [IdleAsk EXCEPT !.pc = "accept", !.preview = i]
  <2>2. i \in Nat \ {0}
    BY DEF ConfInv, ConfTypes
  <2>3. a \in AskRecords /\ a.pc = "accept" /\ a.preview = i
    BY <1>3, <2>2 DEF IdleAsk, AskRecords, AskSteps
  <2>4. proof # NoProof
    BY <2>1, <2>2 DEF NoProof
  <2>5. asker' = [asker EXCEPT ![r] = a]
    BY <2>1
  <2> HIDE DEF a
  <2> QED BY <1>12, <2>1, <2>3, <2>4, <2>5, AskMoves DEF createRangeKeeperPaperOpenAcceptance
<1> QED BY <1>5, <1>6, <1>7, <1>8, <1>9, <1>10, <1>11, <1>12

\* A first observation joins the others, which keep their numbers.
LEMMA FirstKeeps ==
  ASSUME ConfInv, NEW r \in Requests, persistTrustedRangeKeeperPaperOpenPreview(r)
  PROVE  ConfInv'
<1> DEFINE first == asker[r].first
           entry == [source |-> first, expires |-> first.at + PreviewTtl]
<1>1. asker[r] \in AskRecords /\ firsts \in Seq(Firsts)
  BY AskedTyped DEF ConfInv, ConfTypes
<1>2. IdleAsk \in AskRecords /\ IdleAsk.pc = "idle" /\ asker' = [asker EXCEPT ![r] = IdleAsk]
  BY DEF persistTrustedRangeKeeperPaperOpenPreview, Ask, IdleAsk, AskRecords, AskSteps, NoObs,
         ConfBlocks
<1>3. CASE firsts' = firsts
  BY <1>2, <1>3, AskMoves DEF persistTrustedRangeKeeperPaperOpenPreview
<1>4. CASE firsts' = Append(firsts, entry)
  <2>1. entry \in Firsts
    <3>1. first \in ConfBlocks
      BY <1>1 DEF AskRecords
    <3> QED BY <3>1, ConfTtls DEF Firsts, ConfBlocks
  <2> HIDE DEF entry
  <2>2. /\ firsts' \in Seq(Firsts) /\ firsts' # <<>>
        /\ \A i \in DOMAIN firsts : i \in DOMAIN firsts' /\ firsts'[i] = firsts[i]
    BY <1>1, <1>4, <2>1
  <2>3. ConfTypes'
    BY <1>2, <2>2 DEF ConfInv, ConfTypes, persistTrustedRangeKeeperPaperOpenPreview, AskRecords
  <2>4. UNCHANGED <<proof, opening, rowLock, booked, booker>>
    BY DEF persistTrustedRangeKeeperPaperOpenPreview
  <2>5. AskersSound'
    <3> SUFFICES ASSUME NEW q \in Requests
        PROVE /\ asker'[q].pc \in {"frame", "gas", "build"} => firsts' # <<>>
              /\ asker'[q].pc \in {"fork", "publish", "commit"} => Based(asker[q])'
              /\ asker'[q].pc = "commit" => rowLock' = q /\ proof' \in {NoProof, Envelope(q)'}
              /\ asker'[q].pc = "accept" => /\ proof' # NoProof
                                            /\ asker'[q].preview = proof'.preview
                                            /\ asker'[q].preview \in DOMAIN firsts'
      BY DEF AskersSound
    <3>1. CASE asker'[q] = IdleAsk
      BY <3>1, <1>2
    <3>2. CASE asker'[q] = asker[q]
      <4>1. Envelope(q)' = Envelope(q)
        BY <3>2 DEF Envelope
      <4>2. Based(asker[q]) => Based(asker[q])'
        BY <2>2, <3>2 DEF Based
      <4> QED BY <2>2, <2>4, <3>2, <4>1, <4>2 DEF ConfInv, AskersSound
    <3>3. asker'[q] = IdleAsk \/ asker'[q] = asker[q]
      BY <1>2 DEF ConfInv, ConfTypes
    <3> QED BY <3>1, <3>2, <3>3
  <2>6. BookersSound' /\ OpenedOnTwoBlocks'
    BY <2>4 DEF ConfInv, BookersSound, OpenedOnTwoBlocks
  <2>7. ProofSound'
    BY <2>2, <2>4 DEF ConfInv, ProofSound, Based
  <2>8. OpeningSound'
    BY <2>2, <2>4 DEF ConfInv, OpeningSound, ProofSound, Based
  <2> QED BY <2>3, <2>5, <2>6, <2>7, <2>8 DEF ConfInv
<1> QED BY <1>3, <1>4 DEF persistTrustedRangeKeeperPaperOpenPreview

\* Whoever takes the row lock to publish finds no other confirmation.
LEMMA PublishKeeps ==
  ASSUME ConfInv, NEW r \in Requests, persistRangeKeeperPaperConfirmationWithProducerReceipt(r)
  PROVE  ConfInv'
<1>1. asker[r] \in AskRecords /\ AskersSound /\ rowLock = 0
  BY AskedTyped DEF ConfInv, persistRangeKeeperPaperConfirmationWithProducerReceipt
<1>2. IdleAsk \in AskRecords /\ IdleAsk.pc = "idle"
  BY DEF IdleAsk, AskRecords, AskSteps, NoObs, ConfBlocks
<1>3. CASE UNCHANGED rowLock /\ asker' = [asker EXCEPT ![r] = IdleAsk]
  BY <1>2, <1>3, AskMoves DEF persistRangeKeeperPaperConfirmationWithProducerReceipt
<1>4. CASE /\ rowLock' = r /\ asker' = [asker EXCEPT ![r] = [asker[r] EXCEPT !.pc = "commit"]]
           /\ proof \in {NoProof, Envelope(r)}
  <2> DEFINE a == [asker[r] EXCEPT !.pc = "commit"]
  <2>1. /\ a \in AskRecords /\ a.pc = "commit" /\ a.preview = asker[r].preview
        /\ a.first = asker[r].first /\ a.second = asker[r].second /\ a.gasAt = asker[r].gasAt
    BY <1>1 DEF AskRecords, AskSteps
  <2>2. asker' = [asker EXCEPT ![r] = a]
    BY <1>4
  <2> HIDE DEF a
  <2>3. UNCHANGED <<confNow, confChain, confForks, firsts, proof, opening, booked, booker>>
    BY DEF persistRangeKeeperPaperConfirmationWithProducerReceipt
  <2>4. ConfTypes'
    BY <2>1, <2>2, <2>3 DEF ConfInv, ConfTypes, AskRecords
  <2>5. AskersSound'
    <3> SUFFICES ASSUME NEW q \in Requests
        PROVE /\ asker'[q].pc \in {"frame", "gas", "build"} => firsts # <<>>
              /\ asker'[q].pc \in {"fork", "publish", "commit"} => Based(asker'[q])
              /\ asker'[q].pc = "commit" => rowLock' = q /\ proof \in {NoProof, Envelope(q)'}
              /\ asker'[q].pc = "accept" => /\ proof # NoProof /\ asker'[q].preview = proof.preview
                                            /\ asker'[q].preview \in DOMAIN firsts
      BY <2>3 DEF AskersSound, Based
    <3>1. CASE q = r
      <4>1. asker'[q] = a
        BY <2>2, <3>1 DEF ConfInv, ConfTypes
      <4>2. Envelope(q)' = Envelope(q)
        BY <2>1, <3>1, <4>1 DEF Envelope
      <4>3. Based(asker[r])
        BY <1>1 DEF AskersSound, persistRangeKeeperPaperConfirmationWithProducerReceipt, AskAt
      <4>4. Based(a)
        BY <2>1, <4>3 DEF Based
      <4> QED BY <1>4, <2>1, <3>1, <4>1, <4>2, <4>4
    <3>2. CASE q # r
      <4>1. asker'[q] = asker[q]
        BY <2>2, <3>2 DEF ConfInv, ConfTypes
      <4>2. asker[q].pc # "commit"
        BY <1>1, ConfActors DEF AskersSound
      <4> QED BY <1>1, <4>1, <4>2 DEF AskersSound
    <3> QED BY <3>1, <3>2
  <2>6. BookersSound'
    <3> SUFFICES ASSUME NEW w \in Bookers PROVE booker[w].pc # "write"
      BY <2>3 DEF ConfInv, BookersSound
    <3> QED BY <1>1, ConfActors DEF ConfInv, BookersSound
  <2>7. ProofSound' /\ OpeningSound' /\ OpenedOnTwoBlocks'
    BY <2>3 DEF ConfInv, ProofSound, Based, OpeningSound, OpenedOnTwoBlocks
  <2> QED BY <2>4, <2>5, <2>6, <2>7 DEF ConfInv
<1> QED BY <1>3, <1>4 DEF persistRangeKeeperPaperConfirmationWithProducerReceipt, Ask

\* The confirmation that is stored is never another one afterwards.
LEMMA CommitProofKeeps ==
  ASSUME ConfInv, NEW r \in Requests, CommitProof(r)
  PROVE  /\ ConfInv'
         /\ proof # NoProof => proof' = proof
<1>1. /\ asker[r] \in AskRecords /\ AskersSound /\ rowLock = r
      /\ proof \in {NoProof, Envelope(r)} /\ Based(asker[r])
  BY AskedTyped DEF ConfInv, AskersSound, CommitProof, AskAt
<1>2. /\ IdleAsk \in AskRecords /\ IdleAsk.pc = "idle"
      /\ asker' = [asker EXCEPT ![r] = IdleAsk] /\ rowLock' = 0
      /\ UNCHANGED <<confNow, confChain, confForks, firsts, campaign, opening, booked, booker>>
  BY DEF CommitProof, Ask, IdleAsk, AskRecords, AskSteps, NoObs, ConfBlocks
<1>3. Envelope(r) \in Envelopes /\ Based(Envelope(r))
  BY <1>1 DEF Envelope, Envelopes, AskRecords, Based
<1>4. proof' \in {proof, Envelope(r)}
  BY DEF CommitProof
<1>5. proof # NoProof => proof' = proof
  BY <1>1, <1>4
<1>6. ConfTypes'
  BY <1>2, <1>3, <1>4 DEF ConfInv, ConfTypes, AskRecords
<1>7. ProofSound'
  BY <1>2, <1>3, <1>4 DEF ConfInv, ProofSound, Based
<1>8. AskersSound'
  <2> SUFFICES ASSUME NEW q \in Requests
      PROVE /\ asker'[q].pc \in {"frame", "gas", "build"} => firsts # <<>>
            /\ asker'[q].pc \in {"fork", "publish", "commit"} => Based(asker'[q])
            /\ asker'[q].pc # "commit"
            /\ asker'[q].pc = "accept" => /\ proof' # NoProof /\ asker'[q].preview = proof'.preview
                                          /\ asker'[q].preview \in DOMAIN firsts
    BY <1>2 DEF AskersSound, Based
  <2>1. CASE q = r
    <3>1. asker'[q] = IdleAsk
      BY <1>2, <2>1 DEF ConfInv, ConfTypes
    <3> QED BY <1>2, <3>1
  <2>2. CASE q # r
    <3>1. asker'[q] = asker[q] /\ asker[q].pc # "commit"
      BY <1>1, <1>2, <2>2 DEF ConfInv, ConfTypes, AskersSound
    <3> QED BY <1>1, <1>5, <3>1 DEF AskersSound
  <2> QED BY <2>1, <2>2
<1>9. BookersSound'
  <2> SUFFICES ASSUME NEW w \in Bookers PROVE booker[w].pc # "write"
    BY <1>2 DEF ConfInv, BookersSound
  <2> QED BY <1>1, ConfActors DEF ConfInv, BookersSound
<1>10. OpeningSound' /\ OpenedOnTwoBlocks'
  BY <1>2, <1>5 DEF ConfInv, OpeningSound, OpenedOnTwoBlocks
<1> QED BY <1>5, <1>6, <1>7, <1>8, <1>9, <1>10 DEF ConfInv

\* What is accepted is the preview the confirmation names, while it lives.
LEMMA AcceptKeeps ==
  ASSUME ConfInv, NEW r \in Requests, acceptOperation(r)
  PROVE  ConfInv'
<1> DEFINE i == asker[r].preview
           queued == [NoOpening EXCEPT !.status = "queued", !.preview = i,
                                       !.acceptedAt = confNow]
<1>1. /\ asker[r] \in AskRecords /\ AskersSound /\ ConfTypes
      /\ proof # NoProof /\ i = proof.preview /\ i \in DOMAIN firsts
  BY AskedTyped DEF ConfInv, AskersSound, acceptOperation, AskAt
<1>2. /\ IdleAsk \in AskRecords /\ IdleAsk.pc = "idle"
      /\ asker' = [asker EXCEPT ![r] = IdleAsk]
      /\ UNCHANGED <<confNow, confChain, confForks, firsts, proof, rowLock, booked, booker>>
  BY DEF acceptOperation, Ask, IdleAsk, AskRecords, AskSteps, NoObs, ConfBlocks
<1>3. CASE UNCHANGED <<opening, campaign>>
  BY <1>2, <1>3, AskMoves
<1>4. CASE opening' = queued /\ ~Expired(i)
  <2>1. /\ queued \in Openings /\ queued.preview = i /\ queued.acceptedAt = confNow
        /\ queued.status # "none"
    BY <1>1 DEF NoOpening, Openings, OpeningStates, AskRecords, ConfTypes
  <2>2. confNow <= firsts[i].expires
    <3>1. firsts[i] \in Firsts
      BY <1>1, ElementOfSeq DEF ConfTypes
    <3> QED BY <1>1, <1>4, <3>1 DEF Expired, ConfTypes, Firsts
  <2> HIDE DEF queued
  <2>3. ConfTypes'
    BY <1>1, <1>2, <1>4, <2>1 DEF ConfTypes, AskRecords, Openings
  <2>4. AskersSound'
    <3> SUFFICES ASSUME NEW q \in Requests
        PROVE /\ asker'[q].pc \in {"frame", "gas", "build"} => firsts # <<>>
              /\ asker'[q].pc \in {"fork", "publish", "commit"} => Based(asker'[q])
              /\ asker'[q].pc = "commit" => rowLock = q /\ proof \in {NoProof, Envelope(q)'}
              /\ asker'[q].pc = "accept" => /\ proof # NoProof /\ asker'[q].preview = proof.preview
                                            /\ asker'[q].preview \in DOMAIN firsts
      BY <1>2 DEF AskersSound, Based
    <3>1. CASE q = r
      <4>1. asker'[q] = IdleAsk
        BY <1>1, <1>2, <3>1 DEF ConfTypes
      <4> QED BY <1>2, <4>1
    <3>2. CASE q # r
      <4>1. asker'[q] = asker[q]
        BY <1>1, <1>2, <3>2 DEF ConfTypes
      <4>2. Envelope(q)' = Envelope(q)
        BY <4>1 DEF Envelope
      <4> QED BY <1>1, <4>1, <4>2 DEF AskersSound
    <3> QED BY <3>1, <3>2
  <2>5. BookersSound'
    BY <1>2, <1>4, <2>1 DEF ConfInv, BookersSound
  <2>6. OpeningSound'
    BY <1>1, <1>2, <1>4, <2>1, <2>2 DEF OpeningSound
  <2>7. ProofSound' /\ OpenedOnTwoBlocks'
    BY <1>2 DEF ConfInv, ProofSound, Based, OpenedOnTwoBlocks
  <2> QED BY <2>3, <2>4, <2>5, <2>6, <2>7 DEF ConfInv
<1> QED BY <1>3, <1>4 DEF acceptOperation

LEMMA IdleBooker == IdleBook \in BookRecords /\ IdleBook.pc = "idle"
BY DEF IdleBook, BookRecords, BookSteps, NoProof, NoObs, Envelopes, ConfBlocks

\* A claim that is given up keeps what it was made for.
LEMMA GivenUp ==
  ASSUME ConfTypes, NEW status \in OpeningStates
  PROVE  LET o == [opening EXCEPT !.status = status, !.by = 0]
         IN  /\ o \in Openings /\ o.status = status /\ o.preview = opening.preview
             /\ o.acceptedAt = opening.acceptedAt
BY DEF ConfTypes, Openings

LEMMA BlockKeeps ==
  ASSUME ConfInv, NEW w \in Bookers, booker[w].pc # "idle", BlockOpening(w),
         UNCHANGED <<confNow, confChain, confForks, firsts, proof, campaign, rowLock,
                     booked, asker>>
  PROVE  ConfInv'
<1>1. ConfTypes /\ opening \in Openings /\ opening.status # "none"
  BY DEF ConfInv, ConfTypes, Openings, BookersSound
<1>2. IdleBook \in BookRecords /\ IdleBook.pc = "idle"
  BY IdleBooker
<1>3. booker' = [booker EXCEPT ![w] = IdleBook]
  BY DEF BlockOpening, Work
<1>4. CASE opening' = opening
  BY <1>1, <1>2, <1>3, <1>4, BookMoves
<1>5. CASE opening' = [opening EXCEPT !.status = "blocked", !.by = 0]
  <2>1. /\ opening' \in Openings /\ opening'.status = "blocked"
        /\ opening'.preview = opening.preview /\ opening'.acceptedAt = opening.acceptedAt
    BY <1>1, <1>5, GivenUp DEF OpeningStates
  <2> QED BY <1>1, <1>2, <1>3, <2>1, BookMoves
<1> QED BY <1>4, <1>5 DEF BlockOpening

LEMMA WorkKeeps ==
  ASSUME ConfInv, NEW w \in Bookers,
         \/ claimPaperOperation(w) \/ rangeKeeperPaperConfirmationOperationSnapshot(w)
         \/ loadRangeKeeperPaperConfirmationContext(w) \/ advanceClaim(w)
         \/ replayRangeKeeperPaperConfirmationOnOwnedFork(w) \/ WorkerStops(w)
  PROVE  ConfInv'
<1>1. /\ ConfTypes /\ opening \in Openings /\ booker[w] \in BookRecords /\ proof \in Envelopes
      /\ booker[w].pc # "idle" => opening.status # "none"
  BY DEF ConfInv, ConfTypes, Openings, BookRecords, BookersSound
<1>2. IdleBook \in BookRecords /\ IdleBook.pc = "idle"
  BY IdleBooker
<1>3. CASE claimPaperOperation(w)
  <2>1. PICK o : o = [opening EXCEPT !.by = w, !.until = confNow + ClaimTtl,
                        !.status = IF @ = "queued" THEN "preflighting" ELSE @]
    OBVIOUS
  <2>2. confNow + ClaimTtl \in Nat
    BY <1>1, ConfTtls DEF ConfTypes
  <2>3. /\ o \in Openings /\ o.status # "none" /\ opening.status # "none"
        /\ o.preview = opening.preview /\ o.acceptedAt = opening.acceptedAt
    BY <1>1, <1>3, <2>1, <2>2 DEF Openings, OpeningStates, claimPaperOperation
  <2>4. PICK b : b = [IdleBook EXCEPT !.pc = "snapshot"]
    OBVIOUS
  <2>5. b \in BookRecords /\ b.pc = "snapshot"
    BY <1>2, <2>4 DEF BookRecords, BookSteps
  <2>6. opening' = o /\ booker' = [booker EXCEPT ![w] = b]
    BY <1>3, <2>1, <2>4 DEF claimPaperOperation, Work
  <2> QED BY <1>3, <2>3, <2>5, <2>6, BookMoves DEF claimPaperOperation
<1>4. CASE rangeKeeperPaperConfirmationOperationSnapshot(w)
  <2>1. CASE UNCHANGED opening /\ Work(w, [pc |-> "context", proof |-> proof])
    <3>1. [pc |-> "context", proof |-> proof] \in BookRecords
      BY <1>1 DEF BookRecords, BookSteps
    <3>2. booker' = [booker EXCEPT ![w] = [pc |-> "context", proof |-> proof]]
      BY <2>1 DEF Work
    <3> QED BY <1>1, <1>4, <2>1, <3>1, <3>2, BookMoves
        DEF rangeKeeperPaperConfirmationOperationSnapshot
  <2> QED BY <1>4, <2>1, BlockKeeps DEF rangeKeeperPaperConfirmationOperationSnapshot
<1>5. CASE loadRangeKeeperPaperConfirmationContext(w)
  <2>1. CASE UNCHANGED opening /\ Work(w, [booker[w] EXCEPT !.pc = "advance"])
    <3>1. PICK b : b = [booker[w] EXCEPT !.pc = "advance"]
      OBVIOUS
    <3>2. b \in BookRecords /\ b.pc = "advance"
      BY <1>1, <3>1 DEF BookRecords, BookSteps
    <3>3. booker' = [booker EXCEPT ![w] = b]
      BY <2>1, <3>1 DEF Work
    <3> QED BY <1>1, <1>5, <2>1, <3>2, <3>3, BookMoves
        DEF loadRangeKeeperPaperConfirmationContext
  <2> QED BY <1>5, <2>1, BlockKeeps DEF loadRangeKeeperPaperConfirmationContext
<1>6. CASE advanceClaim(w)
  <2>1. CASE /\ opening' = [opening EXCEPT !.status = "reconciling"]
             /\ Work(w, [booker[w] EXCEPT !.pc = "replay"])
    <3>1. PICK b : b = [booker[w] EXCEPT !.pc = "replay"]
      OBVIOUS
    <3>2. b \in BookRecords /\ b.pc = "replay"
      BY <1>1, <3>1 DEF BookRecords, BookSteps
    <3>3. booker' = [booker EXCEPT ![w] = b]
      BY <2>1, <3>1 DEF Work
    <3>4. /\ opening' \in Openings /\ opening'.status = "reconciling"
          /\ opening'.preview = opening.preview /\ opening'.acceptedAt = opening.acceptedAt
      BY <1>1, <2>1 DEF Openings, OpeningStates
    <3> QED BY <1>1, <1>6, <3>2, <3>3, <3>4, BookMoves DEF advanceClaim
  <2>2. CASE UNCHANGED opening /\ Work(w, IdleBook)
    BY <1>1, <1>2, <1>6, <2>2, BookMoves DEF advanceClaim, Work
  <2> QED BY <1>6, <2>1, <2>2 DEF advanceClaim
<1>7. CASE replayRangeKeeperPaperConfirmationOnOwnedFork(w)
  <2>1. CASE UNCHANGED opening /\ Work(w, [booker[w] EXCEPT !.pc = "complete"])
    <3>1. PICK b : b = [booker[w] EXCEPT !.pc = "complete"]
      OBVIOUS
    <3>2. b \in BookRecords /\ b.pc = "complete"
      BY <1>1, <3>1 DEF BookRecords, BookSteps
    <3>3. booker' = [booker EXCEPT ![w] = b]
      BY <2>1, <3>1 DEF Work
    <3> QED BY <1>1, <1>7, <2>1, <3>2, <3>3, BookMoves
        DEF replayRangeKeeperPaperConfirmationOnOwnedFork
  <2> QED BY <1>7, <2>1, BlockKeeps DEF replayRangeKeeperPaperConfirmationOnOwnedFork
<1>8. CASE WorkerStops(w)
  <2>1. CASE opening' = opening
    BY <1>1, <1>2, <1>8, <2>1, BookMoves DEF WorkerStops, Work
  <2>2. CASE opening' = [opening EXCEPT !.by = 0]
    <3>1. /\ opening' \in Openings /\ opening'.status = opening.status
          /\ opening'.preview = opening.preview /\ opening'.acceptedAt = opening.acceptedAt
      BY <1>1, <2>2 DEF Openings
    <3> QED BY <1>1, <1>2, <1>8, <3>1, BookMoves DEF WorkerStops, Work
  <2> QED BY <1>8, <2>1, <2>2 DEF WorkerStops
<1> QED BY <1>3, <1>4, <1>5, <1>6, <1>7, <1>8

\* The completion takes the row lock for its inserts.
LEMMA CompleteKeeps ==
  ASSUME ConfInv, NEW w \in Bookers, completeRangeKeeperPaperConfirmedOpen(w)
  PROVE  ConfInv'
<1>1. /\ ConfTypes /\ booker[w] \in BookRecords /\ booker[w].pc # "idle"
      /\ opening.status # "none" /\ rowLock = 0
      /\ UNCHANGED <<confNow, confChain, confForks, firsts, proof, campaign, booked, asker>>
  BY DEF ConfInv, ConfTypes, BookRecords, BookersSound, completeRangeKeeperPaperConfirmedOpen
<1>2. CASE UNCHANGED rowLock /\ BlockOpening(w)
  BY <1>1, <1>2, BlockKeeps
<1>3. CASE /\ rowLock' = w /\ UNCHANGED opening
           /\ booker' = [booker EXCEPT ![w] = [booker[w] EXCEPT !.pc = "write"]]
  <2>1. PICK b : b = [booker[w] EXCEPT !.pc = "write"]
    OBVIOUS
  <2>2. b \in BookRecords
    BY <1>1, <2>1 DEF BookRecords, BookSteps
  <2>3. booker' = [booker EXCEPT ![w] = b]
    BY <1>3, <2>1
  <2>4. ConfTypes'
    BY <1>1, <1>3, <2>2, <2>3 DEF ConfTypes, BookRecords
  <2>5. BookersSound'
    <3> SUFFICES ASSUME NEW v \in Bookers PROVE booker'[v].pc = "write" => v = w
      BY <1>1, <1>3 DEF BookersSound
    <3>1. CASE v # w
      <4>1. booker'[v] = booker[v]
        BY <1>1, <2>3, <3>1 DEF ConfTypes
      <4> QED BY <1>1, <4>1, ConfActors DEF ConfInv, BookersSound
    <3> QED BY <3>1
  <2>6. AskersSound'
    <3>1. \A r \in Requests : asker[r].pc # "commit"
      BY <1>1, ConfActors DEF ConfInv, AskersSound
    <3> QED BY <1>1, <3>1 DEF ConfInv, AskersSound, Based
  <2>7. ProofSound' /\ OpeningSound' /\ OpenedOnTwoBlocks'
    BY <1>1, <1>3 DEF ConfInv, ProofSound, Based, OpeningSound, OpenedOnTwoBlocks
  <2> QED BY <2>4, <2>5, <2>6, <2>7 DEF ConfInv
<1> QED BY <1>2, <1>3 DEF completeRangeKeeperPaperConfirmedOpen, Work

\* The mark is written when both anchors are canonical for the last time.
LEMMA CommitOpenKeeps ==
  ASSUME ConfInv, NEW w \in Bookers, CommitOpen(w)
  PROVE  ConfInv'
<1> DEFINE mark == [proof |-> proof, canonical |-> OnChain(proof.first) /\ OnChain(proof.second)]
<1>1. /\ ConfTypes /\ opening \in Openings /\ booker[w].pc = "write" /\ rowLock = w
      /\ opening.status # "none" /\ rowLock' = 0
      /\ UNCHANGED <<confNow, confChain, confForks, firsts, proof, asker>>
  BY DEF ConfInv, ConfTypes, Openings, BookersSound, CommitOpen
<1>2. /\ IdleBook \in BookRecords /\ IdleBook.pc = "idle"
      /\ booker' = [booker EXCEPT ![w] = IdleBook]
  BY IdleBooker DEF CommitOpen, BlockOpening, Work
<1>3. PICK o \in Openings : /\ opening' = o /\ o.status # "none" /\ o.preview = opening.preview
                            /\ o.acceptedAt = opening.acceptedAt
  <2>1. CASE opening' = opening
    BY <1>1, <2>1
  <2>2. CASE opening' = [opening EXCEPT !.status = "blocked", !.by = 0]
    BY <1>1, <2>2, GivenUp DEF OpeningStates
  <2>3. CASE opening' = [opening EXCEPT !.status = "succeeded", !.by = 0]
    BY <1>1, <2>3, GivenUp DEF OpeningStates
  <2> QED BY <2>1, <2>2, <2>3 DEF CommitOpen, BlockOpening
<1>4. /\ proof \in Envelopes /\ Based(proof)
  BY <1>1 DEF ConfInv, ConfTypes, OpeningSound, ProofSound
<1>5. \/ booked' = booked
      \/ booked' = Append(booked, mark) /\ mark.canonical
  BY DEF CommitOpen, verifyAnchors
<1>6. mark \in [proof : Envelopes, canonical : BOOLEAN]
  BY <1>4 DEF OnChain
<1> HIDE DEF mark
<1>7. ConfTypes'
  <2>1. booked' \in Seq([proof : Envelopes, canonical : BOOLEAN])
    <3> DEFINE Marks == [proof : Envelopes, canonical : BOOLEAN]
    <3>1. booked \in Seq(Marks) /\ mark \in Marks
      BY <1>1, <1>6 DEF ConfTypes
    <3> HIDE DEF Marks
    <3>2. booked' \in Seq(Marks)
      BY <1>5, <3>1
    <3> QED BY <3>2 DEF Marks
  <2> QED BY <1>1, <1>2, <1>3, <2>1 DEF ConfTypes, Openings, BookRecords
<1>8. OpenedOnTwoBlocks'
  <2>1. mark.proof.second.at > mark.proof.first.at
    BY <1>4 DEF mark, Based
  <2>2. CASE booked' = Append(booked, mark) /\ mark.canonical
    <3> SUFFICES ASSUME NEW i \in DOMAIN booked'
        PROVE booked'[i].proof.second.at > booked'[i].proof.first.at /\ booked'[i].canonical
      BY DEF OpenedOnTwoBlocks
    <3>1. booked \in Seq([proof : Envelopes, canonical : BOOLEAN])
      BY <1>1 DEF ConfTypes
    <3>2. \/ i \in DOMAIN booked /\ booked'[i] = booked[i]
          \/ booked'[i] = mark
      BY <1>6, <2>2, <3>1
    <3> QED BY <2>1, <2>2, <3>2 DEF ConfInv, OpenedOnTwoBlocks
  <2>3. CASE booked' = booked
    BY <2>3 DEF ConfInv, OpenedOnTwoBlocks
  <2> QED BY <1>5, <2>2, <2>3
<1>9. AskersSound'
  <2>1. \A r \in Requests : asker[r].pc # "commit"
    BY <1>1, ConfActors DEF ConfInv, AskersSound
  <2> QED BY <1>1, <2>1 DEF ConfInv, AskersSound, Based
<1>10. BookersSound'
  <2> SUFFICES ASSUME NEW v \in Bookers PROVE booker'[v].pc # "write"
    BY <1>3 DEF BookersSound
  <2>1. CASE v = w
    BY <1>1, <1>2, <2>1 DEF ConfTypes
  <2>2. CASE v # w
    BY <1>1, <1>2, <2>2 DEF ConfInv, ConfTypes, BookersSound
  <2> QED BY <2>1, <2>2
<1>11. ProofSound' /\ OpeningSound'
  BY <1>1, <1>3 DEF ConfInv, ProofSound, Based, OpeningSound
<1> QED BY <1>7, <1>8, <1>9, <1>10, <1>11 DEF ConfInv

\* The chain grows by a block per tick and may be replaced from any height.
LEMMA ConfChainKeeps ==
  ASSUME ConfInv, ConfTick \/ ConfReorg
  PROVE  ConfInv'
<1>1. UNCHANGED <<firsts, proof, rowLock, opening, booked, asker, booker>>
  BY DEF ConfTick, ConfReorg
<1>2. ConfTypes'
  <2>1. CASE ConfTick
    BY <1>1, <2>1 DEF ConfInv, ConfTypes, ConfTick
  <2>2. CASE ConfReorg
    <3>1. PICK h \in DOMAIN confChain :
            confChain' = [i \in DOMAIN confChain |->
                            IF i < h THEN confChain[i] ELSE confForks + 1]
      BY <2>2 DEF ConfReorg
    <3>2. confNow \in Nat /\ DOMAIN confChain = 1..confNow /\ confForks + 1 \in Nat
          /\ \A i \in 1..confNow : confChain[i] \in Nat
      BY DEF ConfInv, ConfTypes
    <3>3. confChain' \in [1..confNow -> Nat]
      BY <3>1, <3>2
    <3>4. confChain' \in Seq(Nat) /\ Len(confChain') = confNow
      BY <3>2, <3>3
    <3> QED BY <1>1, <2>2, <3>4 DEF ConfInv, ConfTypes, ConfReorg
  <2> QED BY <2>1, <2>2
<1>3. AskersSound' /\ BookersSound'
  BY <1>1 DEF ConfInv, AskersSound, BookersSound, Based, Envelope
<1>4. ProofSound' /\ OpeningSound' /\ OpenedOnTwoBlocks'
  BY <1>1 DEF ConfInv, ProofSound, OpeningSound, OpenedOnTwoBlocks, Based
<1> QED BY <1>2, <1>3, <1>4 DEF ConfInv

LEMMA ConfStarts == ConfInit => ConfInv
<1> SUFFICES ASSUME ConfInit PROVE ConfInv
  OBVIOUS
<1>1. NoProof \in Envelopes /\ NoOpening \in Openings /\ IdleAsk \in AskRecords
      /\ IdleAsk.pc = "idle" /\ NoOpening.status = "none"
  BY DEF NoProof, NoOpening, IdleAsk, NoObs, Envelopes, Openings, OpeningStates, AskRecords,
         AskSteps, ConfBlocks
<1>2. IdleBook \in BookRecords /\ IdleBook.pc = "idle"
  BY IdleBooker
<1>3. ConfTypes
  BY <1>1, <1>2 DEF ConfInit, ConfTypes, Openings, AskRecords, BookRecords
<1>4. AskersSound /\ BookersSound
  BY <1>1, <1>2 DEF ConfInit, AskersSound, BookersSound
<1>5. ProofSound /\ OpeningSound /\ OpenedOnTwoBlocks
  BY <1>1 DEF ConfInit, ProofSound, OpeningSound, OpenedOnTwoBlocks
<1> QED BY <1>3, <1>4, <1>5 DEF ConfInv

LEMMA ConfKeeps == ConfInv /\ [ConfNext]_confVars => ConfInv'
<1> SUFFICES ASSUME ConfInv, [ConfNext]_confVars PROVE ConfInv'
  OBVIOUS
<1>1. CASE UNCHANGED confVars
  BY <1>1 DEF confVars, ConfInv, ConfTypes, AskersSound, BookersSound, ProofSound,
              OpeningSound, OpenedOnTwoBlocks, Based, Envelope
<1>2. CASE ConfNext
  <2>1. ASSUME NEW r \in Requests,
               \/ rangeKeeperPaperOpenPreviewState(r) \/ runRangeKeeperPaperOpen(r)
               \/ readCanonicalPaperOpenFrame(r) \/ getGasPrice(r)
               \/ buildRangeKeeperPaperConfirmation(r)
               \/ simulateRangeKeeperPaperConfirmationOnOwnedFork(r) \/ RequestUnavailable(r)
               \/ createRangeKeeperPaperOpenAcceptance(r)
        PROVE  ConfInv'
    BY <2>1, ReadsKeep
  <2>2. ASSUME NEW r \in Requests, persistTrustedRangeKeeperPaperOpenPreview(r)
        PROVE  ConfInv'
    BY <2>2, FirstKeeps
  <2>3. ASSUME NEW r \in Requests, persistRangeKeeperPaperConfirmationWithProducerReceipt(r)
        PROVE  ConfInv'
    BY <2>3, PublishKeeps
  <2>4. ASSUME NEW r \in Requests, CommitProof(r) PROVE ConfInv'
    BY <2>4, CommitProofKeeps
  <2>5. ASSUME NEW r \in Requests, acceptOperation(r) PROVE ConfInv'
    BY <2>5, AcceptKeeps
  <2>6. ASSUME NEW w \in Bookers,
               \/ claimPaperOperation(w) \/ rangeKeeperPaperConfirmationOperationSnapshot(w)
               \/ loadRangeKeeperPaperConfirmationContext(w) \/ advanceClaim(w)
               \/ replayRangeKeeperPaperConfirmationOnOwnedFork(w) \/ WorkerStops(w)
        PROVE  ConfInv'
    BY <2>6, WorkKeeps
  <2>7. ASSUME NEW w \in Bookers, completeRangeKeeperPaperConfirmedOpen(w) PROVE ConfInv'
    BY <2>7, CompleteKeeps
  <2>8. ASSUME NEW w \in Bookers, CommitOpen(w) PROVE ConfInv'
    BY <2>8, CommitOpenKeeps
  <2>9. CASE ConfTick \/ ConfReorg
    BY <2>9, ConfChainKeeps
  <2> QED BY <1>2, <2>1, <2>2, <2>3, <2>4, <2>5, <2>6, <2>7, <2>8, <2>9 DEF ConfNext
<1> QED BY <1>1, <1>2

(***************************************************************************)
(* A paper campaign opens on two canonical observations of different        *)
(* blocks, and what the operator accepted is the preview the confirmation   *)
(* was built on, whoever else was previewing, publishing or working at the  *)
(* time (persistRangeKeeperPaperConfirmationWithProducerReceipt,            *)
(* acceptOperation, completeRangeKeeperPaperConfirmedOpen).                 *)
(***************************************************************************)
THEOREM OpeningsConfirmed == ConfSpec => []OpeningConfirmed
<1>1. ConfInv => OpeningConfirmed
  BY DEF ConfInv, ProofSound, OpeningSound, Based, OpeningConfirmed, AcceptedIsConfirmed
<1> QED BY <1>1, ConfStarts, ConfKeeps, PTL DEF ConfSpec

-----------------------------------------------------------------------------
(* PaperGasEvidence.  The lock of a path makes the read of its rows and the *)
(* insert one step, and the lock of the campaign keeps the mark that the   *)
(* registration compared.  A report that was stamped is never changed but  *)
(* for the chain, so rows and samplers that name it agree on it.           *)

GasSteps == {"idle", "sampling", "reported", "attested", "waiting", "locked", "verified",
             "read", "imported"}
GasReport == [id : Nat, path : Paths, block : Int, fork : Int, orphan : BOOLEAN, mark : Int,
              sampledAt : Int]
GasRow == [report : GasReport, version : Int, fits : BOOLEAN]
GasSampler == [pc : GasSteps, report : GasReport, verifiedAt : Int, seen : SUBSET GasRow]

GasKeeper == [life : {"draft", "active", "closing", "closed"}, mark : Int, pending : BOOLEAN]

GasTypes ==
    /\ gasNow \in Int /\ gasForks \in Int /\ gasRows \in SUBSET GasRow
    /\ keeper \in GasKeeper /\ reports \in Nat
    /\ sampler \in [Samplers -> GasSampler] /\ prepared \in Int

Sampling(s) == sampler[s].pc = "sampling"
Stamped(s) == sampler[s].pc \notin {"idle", "sampling"}
Inside(s) == sampler[s].pc \in InTransaction

\* What a registration of a path's report may rely on until it commits.
MarkFits(r) ==
    OfMark(r.path) => keeper.mark = r.mark /\ (r.path # "convert" => ~keeper.pending)

\* A report not yet stamped has a name of its own; one that was stamped is the
\* same wherever it is named.
ReportsNamed ==
    /\ \A s \in Samplers : sampler[s].pc # "idle" => Report(s).id \in 1 .. reports
    /\ \A row \in gasRows : row.report.id \in 1 .. reports
    /\ \A s, o \in Samplers : (s # o /\ Sampling(s) /\ sampler[o].pc # "idle") =>
         Report(s).id # Report(o).id
    /\ \A s \in Samplers, row \in gasRows : Sampling(s) => Report(s).id # row.report.id
    /\ \A s, o \in Samplers : (Stamped(s) /\ Stamped(o) /\ Report(s).id = Report(o).id) =>
         Report(s) = Report(o)
    /\ \A s \in Samplers, row \in gasRows : (Stamped(s) /\ Report(s).id = row.report.id) =>
         Report(s) = row.report

\* One registration at a time per path, on a mark that stays, with all the rows.
PathsLocked ==
    /\ \A s, o \in Samplers : (s # o /\ Inside(s) /\ Inside(o)) =>
         Report(s).path # Report(o).path
    /\ \A s \in Samplers : Inside(s) => MarkFits(Report(s))
    /\ \A s \in Samplers : sampler[s].pc = "read" => sampler[s].seen = RowsOf(Report(s).path)

\* An imported report has its row.
ImportedThere ==
    \A s \in Samplers : sampler[s].pc = "imported" =>
      \E row \in gasRows : row.report = Report(s)

\* A path with rows has a newest one.
NewestThere ==
    \A path \in Paths : RowsOf(path) # {} =>
      \E row \in RowsOf(path) : \A o \in RowsOf(path) : o.version <= row.version

GasInv == /\ GasTypes /\ ReportsNamed /\ PathsLocked /\ ImportedThere /\ NewestThere
          /\ NewestIsLatest /\ ReportOnce /\ ExitFitsCampaign /\ PreparedFromOwnOrNewer

GasRest == UNCHANGED <<gasNow, gasForks, gasRows, keeper, reports, prepared>>

\* Nobody's report or transaction is touched when one stamped sampler moves on.
LEMMA GasMoved ==
    ASSUME GasInv, GasRest, NEW s \in Samplers, NEW new \in GasSampler,
           sampler' = [sampler EXCEPT ![s] = new],
           Stamped(s), new.report = Report(s), new.pc \notin {"idle", "sampling"},
           new.pc \in InTransaction =>
             Inside(s) \/ (BandFree(s) /\ MarkFits(Report(s))),
           new.pc = "read" => new.seen = RowsOf(Report(s).path),
           new.pc = "imported" => \E row \in gasRows : row.report = Report(s)
    PROVE  GasInv'
<1>0. /\ sampler \in [Samplers -> GasSampler] /\ sampler' \in [Samplers -> GasSampler]
      /\ sampler'[s] = new /\ \A o \in Samplers \ {s} : sampler'[o] = sampler[o]
  BY DEF GasInv, GasTypes
<1>1. \A o \in Samplers : Report(o)' = Report(o)
  BY <1>0 DEF Report
<1>2. \A o \in Samplers : /\ (sampler'[o].pc # "idle") <=> (sampler[o].pc # "idle")
                          /\ Sampling(o)' <=> Sampling(o)
                          /\ Stamped(o)' <=> Stamped(o)
  BY <1>0 DEF Sampling, Stamped
<1>3. \A o \in Samplers : Inside(o)' =>
        Inside(o) \/ (o = s /\ BandFree(s) /\ MarkFits(Report(s)))
  BY <1>0 DEF Inside
<1>4. \A path : RowsOf(path)' = RowsOf(path)
  BY DEF RowsOf, GasRest
<1>5. GasTypes'
  BY <1>0 DEF GasInv, GasTypes, GasRest
<1>6. ReportsNamed'
  <2>1. gasRows' = gasRows /\ reports' = reports
    BY DEF GasRest
  <2> QED
    BY <1>1, <1>2, <2>1 DEF GasInv, ReportsNamed
<1>7. PathsLocked'
  <2>1. ASSUME NEW a \in Samplers, NEW o \in Samplers, a # o, Inside(a)', Inside(o)'
        PROVE  Report(a)'.path # Report(o)'.path
    <3>1. Report(a).path # Report(o).path
      <4>1. CASE Inside(a) /\ Inside(o)
        BY <2>1, <4>1 DEF GasInv, PathsLocked
      <4>2. CASE a = s /\ BandFree(s) /\ Inside(o)
        BY <2>1, <4>2 DEF BandFree, Inside
      <4>3. CASE o = s /\ BandFree(s) /\ Inside(a)
        BY <2>1, <4>3 DEF BandFree, Inside
      <4> QED
        BY <1>3, <2>1, <4>1, <4>2, <4>3
    <3> QED
      BY <3>1, <1>1
  <2>2. ASSUME NEW o \in Samplers, Inside(o)'  PROVE MarkFits(Report(o))'
    <3>1. MarkFits(Report(o))
      BY <1>3, <2>2 DEF GasInv, PathsLocked
    <3> QED
      BY <3>1, <1>1 DEF MarkFits, GasRest
  <2>3. ASSUME NEW o \in Samplers, sampler'[o].pc = "read"
        PROVE  sampler'[o].seen = RowsOf(Report(o).path)
    BY <1>0, <2>3 DEF GasInv, PathsLocked
  <2> QED
    BY <2>1, <2>2, <2>3, <1>1, <1>4 DEF PathsLocked
<1>8. ImportedThere'
  BY <1>0, <1>1 DEF GasInv, ImportedThere, GasRest
<1> QED
  BY <1>4, <1>5, <1>6, <1>7, <1>8
     DEF GasInv, NewestThere, NewestIsLatest, ReportOnce, ExitFitsCampaign,
         PreparedFromOwnOrNewer, GasRest

\* A sampler that gives up leaves nothing behind but its rows.
LEMMA GasDropped ==
    ASSUME GasInv, UNCHANGED <<gasNow, gasForks, gasRows, keeper, reports>>,
           prepared' \in Int, prepared' >= 0, NEW s \in Samplers,
           sampler' = [sampler EXCEPT ![s] = IdleSampler]
    PROVE  GasInv'
<1>0. /\ sampler \in [Samplers -> GasSampler] /\ sampler' \in [Samplers -> GasSampler]
      /\ sampler'[s].pc = "idle" /\ \A o \in Samplers \ {s} : sampler'[o] = sampler[o]
  BY DEF GasInv, GasTypes, IdleSampler, NoReport, GasSampler, GasReport, GasSteps, Paths
<1>1. \A o \in Samplers : (o = s /\ sampler'[o].pc = "idle") \/ sampler'[o] = sampler[o]
  BY <1>0
<1>2. \A path : RowsOf(path)' = RowsOf(path)
  BY DEF RowsOf
<1>3. GasTypes'
  BY <1>0 DEF GasInv, GasTypes
<1>4. ReportsNamed'
  BY <1>1 DEF GasInv, ReportsNamed, Sampling, Stamped, Report
<1>5. PathsLocked'
  BY <1>1, <1>2 DEF GasInv, PathsLocked, Inside, InTransaction, MarkFits, Report
<1>6. ImportedThere'
  BY <1>1 DEF GasInv, ImportedThere, Report
<1> QED
  BY <1>2, <1>3, <1>4, <1>5, <1>6
     DEF GasInv, NewestThere, NewestIsLatest, ReportOnce, ExitFitsCampaign,
         PreparedFromOwnOrNewer

LEMMA GasStarts ==
    ASSUME GasInv, NEW s \in Samplers, NEW path \in Paths, StartSample(s, path)
    PROVE  GasInv'
<1> DEFINE report == [id |-> reports + 1, path |-> path, block |-> gasNow,
                      fork |-> gasForks, orphan |-> FALSE,
                      mark |-> IF OfMark(path) THEN keeper.mark ELSE 0, sampledAt |-> 0]
           new == [IdleSampler EXCEPT !.pc = "sampling", !.report = report]
<1>1. report \in GasReport
  BY DEF GasInv, GasTypes, GasKeeper, GasReport
<1>2. new.report = report /\ new.pc = "sampling" /\ new \in GasSampler
  <2>1. IdleSampler \in GasSampler
    BY DEF IdleSampler, NoReport, GasSampler, GasReport, GasSteps, Paths
  <2>2. PICK idle \in GasSampler : idle = IdleSampler
    BY <2>1
  <2> HIDE DEF report
  <2>3. new = [idle EXCEPT !.pc = "sampling", !.report = report]
    BY <2>2
  <2> QED
    BY <1>1, <2>2, <2>3 DEF GasSampler, GasSteps
<1>3. report.id = reports + 1
  OBVIOUS
<1>4. sampler' = [sampler EXCEPT ![s] = new]
  BY DEF StartSample
<1> HIDE DEF report, new
<1>0. /\ sampler \in [Samplers -> GasSampler] /\ sampler' \in [Samplers -> GasSampler]
      /\ sampler'[s] = new /\ \A o \in Samplers \ {s} : sampler'[o] = sampler[o]
  BY <1>2, <1>4 DEF GasInv, GasTypes
<1>5. /\ UNCHANGED <<gasNow, gasForks, gasRows, keeper, prepared>>
      /\ reports \in Nat /\ reports' = reports + 1 /\ sampler[s].pc = "idle"
  BY DEF StartSample, GasInv, GasTypes
<1>6. \A p : RowsOf(p)' = RowsOf(p)
  BY <1>5 DEF RowsOf
<1>7. GasTypes'
  BY <1>0, <1>5 DEF GasInv, GasTypes
<1>8. ReportsNamed'
  <2>1. \A o \in Samplers \ {s} : sampler[o].pc # "idle" => Report(o).id \in 1 .. reports
    BY DEF GasInv, ReportsNamed
  <2>2. \A row \in gasRows : row.report.id \in 1 .. reports
    BY DEF GasInv, ReportsNamed
  <2>3. Report(s)'.id = reports + 1 /\ \A o \in Samplers \ {s} : Report(o)' = Report(o)
    BY <1>0, <1>2, <1>3 DEF Report
  <2>4. \A o \in Samplers \ {s} : sampler'[o].pc = sampler[o].pc
    BY <1>0
  <2>5. ~Stamped(s)' /\ \A o \in Samplers \ {s} : Stamped(o)' = Stamped(o)
    BY <1>0, <1>2 DEF Stamped
  <2>6. \A o \in Samplers \ {s} : Sampling(o)' = Sampling(o)
    BY <1>0 DEF Sampling
  <2>7. 1 .. reports \subseteq 1 .. (reports + 1) /\ reports + 1 \in 1 .. (reports + 1)
        /\ reports + 1 \notin 1 .. reports
    BY <1>5
  <2>8. \A a \in Samplers : sampler'[a].pc # "idle" => Report(a)'.id \in 1 .. reports'
    BY <2>1, <2>3, <2>4, <2>7, <1>5
  <2>9. \A row \in gasRows' : row.report.id \in 1 .. reports'
    BY <2>2, <2>7, <1>5
  <2>10. \A a, o \in Samplers : (a # o /\ Sampling(a)' /\ sampler'[o].pc # "idle") =>
           Report(a)'.id # Report(o)'.id
    <3> SUFFICES ASSUME NEW a \in Samplers, NEW o \in Samplers, a # o, Sampling(a)',
                        sampler'[o].pc # "idle"
                 PROVE  Report(a)'.id # Report(o)'.id
      OBVIOUS
    <3>1. CASE a = s
      BY <3>1, <2>1, <2>3, <2>4, <2>7
    <3>2. CASE o = s
      <4>1. Sampling(a)
        BY <3>2, <2>6
      <4>2. sampler[a].pc # "idle"
        BY <4>1 DEF Sampling
      <4> QED
        BY <3>2, <4>2, <2>1, <2>3, <2>7
    <3>3. CASE a # s /\ o # s
      BY <3>3, <2>3, <2>4, <2>6 DEF GasInv, ReportsNamed
    <3> QED
      BY <3>1, <3>2, <3>3
  <2>11. \A a \in Samplers, row \in gasRows' : Sampling(a)' => Report(a)'.id # row.report.id
    <3>1. \A row \in gasRows' : Report(s)'.id # row.report.id
      BY <2>2, <2>3, <2>7, <1>5
    <3>2. \A a \in Samplers \ {s}, row \in gasRows' : Sampling(a)' => Report(a)'.id # row.report.id
      BY <2>3, <2>6, <1>5 DEF GasInv, ReportsNamed
    <3> QED
      BY <3>1, <3>2
  <2>12. \A a, o \in Samplers : (Stamped(a)' /\ Stamped(o)' /\ Report(a)'.id = Report(o)'.id) =>
           Report(a)' = Report(o)'
    BY <2>3, <2>5 DEF GasInv, ReportsNamed
  <2>13. \A a \in Samplers, row \in gasRows' : (Stamped(a)' /\ Report(a)'.id = row.report.id) =>
           Report(a)' = row.report
    BY <2>3, <2>5, <1>5 DEF GasInv, ReportsNamed
  <2> QED
    BY <2>8, <2>9, <2>10, <2>11, <2>12, <2>13 DEF ReportsNamed
<1>9. PathsLocked'
  <2>1. \A o \in Samplers : (o = s /\ sampler'[o].pc = "sampling") \/ sampler'[o] = sampler[o]
    BY <1>0, <1>2
  <2> QED
    BY <2>1, <1>5, <1>6 DEF GasInv, PathsLocked, Inside, InTransaction, MarkFits, Report
<1>10. ImportedThere'
  BY <1>0, <1>2, <1>5 DEF GasInv, ImportedThere, Report
<1> QED
  BY <1>5, <1>6, <1>7, <1>8, <1>9, <1>10
     DEF GasInv, NewestThere, NewestIsLatest, ReportOnce, ExitFitsCampaign,
         PreparedFromOwnOrNewer


LEMMA GasStamped ==
    ASSUME GasInv, NEW s \in Samplers, Sampling(s), Stamp(s)
    PROVE  GasInv'
<1> DEFINE new == [sampler[s] EXCEPT !.report.sampledAt = gasNow, !.pc = "reported"]
<1>0. /\ UNCHANGED <<gasNow, gasForks, gasRows, keeper, reports, prepared>>
      /\ sampler \in [Samplers -> GasSampler] /\ gasNow \in Int
  BY DEF Stamp, GasInv, GasTypes
<1>1. CASE sampler' = [sampler EXCEPT ![s] = IdleSampler]
  BY <1>0, <1>1, GasDropped DEF GasInv, GasTypes, PreparedFromOwnOrNewer
<1>2. CASE sampler' = [sampler EXCEPT ![s] = new]
  <2>1. PICK old \in GasReport : old = Report(s)
    BY <1>0 DEF Report, GasSampler
  <2>2. [old EXCEPT !.sampledAt = gasNow] \in GasReport
    BY <1>0, <2>1 DEF GasReport
  <2>3. PICK report \in GasReport : report = [old EXCEPT !.sampledAt = gasNow]
    BY <2>2
  <2>4. report.id = old.id /\ report.path = old.path /\ report.mark = old.mark
    BY <2>3 DEF GasReport
  <2>5. /\ new.report = report /\ new.pc = "reported" /\ new \in GasSampler
    <3>1. PICK was \in GasSampler : was = sampler[s]
      BY <1>0
    <3>2. new = [was EXCEPT !.report = report, !.pc = "reported"]
      BY <2>1, <2>3, <3>1 DEF Report
    <3> HIDE DEF new
    <3> QED
      BY <3>1, <3>2 DEF GasSampler, GasSteps
  <2> HIDE DEF new
  <2>6. /\ sampler' \in [Samplers -> GasSampler] /\ sampler'[s] = new
        /\ \A o \in Samplers \ {s} : sampler'[o] = sampler[o]
    BY <1>0, <1>2, <2>5
  <2>7. /\ Report(s)' = report /\ Report(s)'.id = Report(s).id
        /\ \A o \in Samplers \ {s} : Report(o)' = Report(o)
    BY <2>1, <2>4, <2>5, <2>6 DEF Report
  <2>8. ~Sampling(s)' /\ \A o \in Samplers \ {s} : (Sampling(o)' <=> Sampling(o)) /\ (Stamped(o)' <=> Stamped(o))
    BY <2>5, <2>6 DEF Sampling, Stamped
  <2>9. \A o \in Samplers : (sampler'[o].pc # "idle") <=> (sampler[o].pc # "idle")
    BY <2>5, <2>6 DEF Sampling
  <2>10. \A o \in Samplers \ {s} : Stamped(o) => Report(o).id # Report(s).id
    BY DEF GasInv, ReportsNamed, Stamped
  <2>11. \A path : RowsOf(path)' = RowsOf(path)
    BY <1>0 DEF RowsOf
  <2>12. GasTypes'
    BY <1>0, <2>6 DEF GasInv, GasTypes
  <2>13. ReportsNamed'
    <3>1. \A o \in Samplers : Report(o)'.id = Report(o).id
      BY <2>7
    <3>2. \A o \in Samplers : sampler'[o].pc # "idle" => Report(o)'.id \in 1 .. reports'
      BY <3>1, <2>9, <1>0 DEF GasInv, ReportsNamed
    <3>3. \A a, o \in Samplers : (a # o /\ Sampling(a)' /\ sampler'[o].pc # "idle") =>
            Report(a)'.id # Report(o)'.id
      BY <3>1, <2>8, <2>9 DEF GasInv, ReportsNamed
    <3>4. \A a \in Samplers, row \in gasRows' : Sampling(a)' => Report(a)'.id # row.report.id
      BY <3>1, <2>8, <1>0 DEF GasInv, ReportsNamed
    <3>5. \A a, o \in Samplers : (Stamped(a)' /\ Stamped(o)' /\ Report(a)'.id = Report(o)'.id) =>
            Report(a)' = Report(o)'
      BY <3>1, <2>7, <2>8, <2>10 DEF GasInv, ReportsNamed
    <3>6. \A row \in gasRows : Report(s).id # row.report.id
      BY DEF GasInv, ReportsNamed
    <3>7. \A a \in Samplers, row \in gasRows' : (Stamped(a)' /\ Report(a)'.id = row.report.id) =>
            Report(a)' = row.report
      BY <3>1, <3>6, <2>7, <2>8, <1>0 DEF GasInv, ReportsNamed
    <3>8. \A row \in gasRows' : row.report.id \in 1 .. reports'
      BY <1>0 DEF GasInv, ReportsNamed
    <3> QED
      BY <3>2, <3>3, <3>4, <3>5, <3>7, <3>8 DEF ReportsNamed
  <2>14. PathsLocked'
    <3>1. \A o \in Samplers : (o = s /\ sampler'[o].pc = "reported") \/ sampler'[o] = sampler[o]
      BY <2>5, <2>6
    <3> QED
      BY <3>1, <1>0, <2>11 DEF GasInv, PathsLocked, Inside, InTransaction, MarkFits, Report
  <2>15. ImportedThere'
    BY <1>0, <2>5, <2>6 DEF GasInv, ImportedThere, Report
  <2> QED
    BY <1>0, <2>11, <2>12, <2>13, <2>14, <2>15
       DEF GasInv, NewestThere, NewestIsLatest, ReportOnce, ExitFitsCampaign,
           PreparedFromOwnOrNewer
<1> QED
  BY <1>1, <1>2 DEF Stamp

\* A sampler that starts or ends a registration forgets what it read.
LEMMA GasForgets ==
    ASSUME NEW old \in GasSampler, NEW pc \in GasSteps
    PROVE  LET new == [old EXCEPT !.pc = pc, !.seen = {}, !.verifiedAt = 0] IN
           new \in GasSampler /\ new.pc = pc /\ new.report = old.report
<1> DEFINE new == [old EXCEPT !.pc = pc, !.seen = {}, !.verifiedAt = 0]
<1>1. PICK none \in SUBSET GasRow : none = {}
  OBVIOUS
<1>2. PICK zero \in Int : zero = 0
  OBVIOUS
<1>3. PICK rewound \in GasSampler : rewound = [old EXCEPT !.verifiedAt = zero]
  BY <1>2 DEF GasSampler
<1>4. new = [rewound EXCEPT !.pc = pc, !.seen = none]
  BY <1>1, <1>2, <1>3 DEF GasSampler
<1> HIDE DEF new
<1>5. new \in GasSampler
  BY <1>1, <1>3, <1>4 DEF GasSampler
<1>6. new.pc = pc /\ new.report = old.report
  BY <1>3, <1>4 DEF GasSampler
<1> QED
  BY <1>5, <1>6 DEF new

LEMMA GasRetries ==
    ASSUME GasInv, NEW s \in Samplers, NEW o \in Samplers \ {s}, RetryReport(s, o)
    PROVE  GasInv'
<1> DEFINE new == [sampler[o] EXCEPT !.pc = "reported", !.seen = {}, !.verifiedAt = 0]
<1>0. /\ UNCHANGED <<gasNow, gasForks, gasRows, keeper, reports, prepared>>
      /\ sampler \in [Samplers -> GasSampler] /\ sampler[s].pc = "idle" /\ Stamped(o)
      /\ sampler' = [sampler EXCEPT ![s] = new]
  BY DEF RetryReport, GasInv, GasTypes, Stamped
<1>1. new.report = Report(o) /\ new.pc = "reported" /\ new \in GasSampler
  <2>1. sampler[o] \in GasSampler /\ "reported" \in GasSteps
    BY <1>0 DEF GasSteps
  <2> QED
    BY <2>1, GasForgets DEF Report
<1> HIDE DEF new
<1>2. /\ sampler' \in [Samplers -> GasSampler] /\ sampler'[s] = new
      /\ \A a \in Samplers \ {s} : sampler'[a] = sampler[a]
  BY <1>0, <1>1
<1>3. Report(s)' = Report(o) /\ \A a \in Samplers \ {s} : Report(a)' = Report(a)
  BY <1>1, <1>2 DEF Report
<1>4. /\ ~Sampling(s)' /\ Stamped(s)' /\ sampler'[s].pc # "idle"
      /\ \A a \in Samplers \ {s} : /\ Sampling(a)' <=> Sampling(a)
                                   /\ Stamped(a)' <=> Stamped(a)
                                   /\ sampler'[a].pc = sampler[a].pc
  BY <1>1, <1>2 DEF Sampling, Stamped
<1>5. \A path : RowsOf(path)' = RowsOf(path)
  BY <1>0 DEF RowsOf
<1>6. GasTypes'
  BY <1>0, <1>2 DEF GasInv, GasTypes
<1>7. sampler[o].pc # "idle" /\ ~Sampling(o)
  BY <1>0 DEF Stamped, Sampling
<1>8. ReportsNamed'
  <2>1. \A a \in Samplers : sampler'[a].pc # "idle" => Report(a)'.id \in 1 .. reports'
    BY <1>0, <1>3, <1>4, <1>7 DEF GasInv, ReportsNamed
  <2>2. \A row \in gasRows' : row.report.id \in 1 .. reports'
    BY <1>0 DEF GasInv, ReportsNamed
  <2>3. \A a, b \in Samplers : (a # b /\ Sampling(a)' /\ sampler'[b].pc # "idle") =>
          Report(a)'.id # Report(b)'.id
    BY <1>3, <1>4, <1>7 DEF GasInv, ReportsNamed
  <2>4. \A a \in Samplers, row \in gasRows' : Sampling(a)' => Report(a)'.id # row.report.id
    BY <1>0, <1>3, <1>4 DEF GasInv, ReportsNamed
  <2>5. \A a, b \in Samplers : (Stamped(a)' /\ Stamped(b)' /\ Report(a)'.id = Report(b)'.id) =>
          Report(a)' = Report(b)'
    BY <1>0, <1>3, <1>4 DEF GasInv, ReportsNamed
  <2>6. \A a \in Samplers, row \in gasRows' : (Stamped(a)' /\ Report(a)'.id = row.report.id) =>
          Report(a)' = row.report
    BY <1>0, <1>3, <1>4 DEF GasInv, ReportsNamed
  <2> QED
    BY <2>1, <2>2, <2>3, <2>4, <2>5, <2>6 DEF ReportsNamed
<1>9. PathsLocked'
  <2>1. \A a \in Samplers : (a = s /\ sampler'[a].pc = "reported") \/ sampler'[a] = sampler[a]
    BY <1>1, <1>2
  <2> QED
    BY <2>1, <1>0, <1>5 DEF GasInv, PathsLocked, Inside, InTransaction, MarkFits, Report
<1>10. ImportedThere'
  BY <1>0, <1>1, <1>2 DEF GasInv, ImportedThere, Report
<1> QED
  BY <1>0, <1>5, <1>6, <1>8, <1>9, <1>10
     DEF GasInv, NewestThere, NewestIsLatest, ReportOnce, ExitFitsCampaign,
         PreparedFromOwnOrNewer

-----------------------------------------------------------------------------
(* A stamped sampler on its way through a registration.                     *)

LEMMA GasGoes ==
    ASSUME GasInv, GasRest, NEW s \in Samplers, Stamped(s), NEW pc \in GasSteps,
           pc \notin {"sampling", "read", "imported"}, Goto(s, pc),
           pc \in InTransaction => Inside(s) \/ (BandFree(s) /\ MarkFits(Report(s)))
    PROVE  GasInv'
<1>1. CASE pc = "idle"
  BY <1>1, GasDropped DEF Goto, GasRest, GasInv, GasTypes, PreparedFromOwnOrNewer
<1>2. CASE pc # "idle"
  <2> DEFINE new == [sampler[s] EXCEPT !.pc = pc]
  <2>1. new.pc = pc /\ new.report = Report(s) /\ new \in GasSampler
    BY DEF GasInv, GasTypes, GasSampler, Report
  <2>2. sampler' = [sampler EXCEPT ![s] = new]
    BY <1>2 DEF Goto
  <2> HIDE DEF new
  <2> QED
    BY <1>2, <2>1, <2>2, GasMoved
<1> QED
  BY <1>1, <1>2

LEMMA GasAttests ==
    ASSUME GasInv, GasRest, NEW s \in Samplers, Stamped(s), NEW ok,
           NEW pc \in {"attested", "verified"}, pc = "verified" => Inside(s),
           Attest(s, ok, pc)
    PROVE  GasInv'
<1>1. CASE sampler' = [sampler EXCEPT ![s] = IdleSampler]
  BY <1>1, GasDropped DEF GasRest, GasInv, GasTypes, PreparedFromOwnOrNewer
<1>2. CASE sampler' = [sampler EXCEPT ![s] = [@ EXCEPT !.verifiedAt = gasNow, !.pc = pc]]
  <2> DEFINE new == [sampler[s] EXCEPT !.verifiedAt = gasNow, !.pc = pc]
  <2>1. new.pc = pc /\ new.report = Report(s) /\ new \in GasSampler
    BY DEF GasInv, GasTypes, GasSampler, GasSteps, Report
  <2>2. sampler' = [sampler EXCEPT ![s] = new]
    BY <1>2
  <2> HIDE DEF new
  <2>3. pc \in InTransaction => Inside(s)
    BY DEF InTransaction
  <2> QED
    BY <2>1, <2>2, <2>3, GasMoved
<1> QED
  BY <1>1, <1>2 DEF Attest

LEMMA GasLocks ==
    ASSUME GasInv, NEW s \in Samplers, LockBand(s)
    PROVE  GasInv'
<1>1. GasRest /\ Stamped(s) /\ BandFree(s)
  BY DEF LockBand, GasRest, MayLock, Stamped
<1>2. CASE ~Admitted(s)
  BY <1>1, <1>2, GasGoes DEF LockBand, GasSteps, InTransaction
<1>3. CASE Admitted(s)
  <2>1. MarkFits(Report(s))
    BY <1>3 DEF Admitted, MarkFits, OfMark, OfCampaign
  <2> QED
    BY <1>1, <1>3, <2>1, GasGoes DEF LockBand, GasSteps
<1> QED
  BY <1>2, <1>3

LEMMA GasReads ==
    ASSUME GasInv, NEW s \in Samplers, ReadExisting(s)
    PROVE  GasInv'
<1> DEFINE new == [sampler[s] EXCEPT !.pc = "read", !.seen = RowsOf(Report(s).path)]
<1>1. GasRest /\ Stamped(s) /\ Inside(s)
  BY DEF ReadExisting, GasRest, Stamped, Inside, InTransaction
<1>2. RowsOf(Report(s).path) \in SUBSET GasRow
  BY DEF RowsOf, GasInv, GasTypes
<1>3. /\ new.pc = "read" /\ new.report = Report(s) /\ new.seen = RowsOf(Report(s).path)
      /\ new \in GasSampler
  BY <1>2 DEF GasInv, GasTypes, GasSampler, GasSteps, Report
<1>4. sampler' = [sampler EXCEPT ![s] = new]
  BY DEF ReadExisting, GasInv, GasTypes
<1> HIDE DEF new
<1> QED
  BY <1>1, <1>3, <1>4, GasMoved

-----------------------------------------------------------------------------
(* The insert.                                                              *)

\* The version that follows the rows read is above each of them.
LEMMA NextVersionAbove ==
    ASSUME GasInv, NEW s \in Samplers, sampler[s].pc = "read"
    PROVE  NextVersion(s) \in Int /\ \A row \in sampler[s].seen : row.version < NextVersion(s)
<1> DEFINE rows == sampler[s].seen
           versions == {0} \cup {row.version : row \in rows}
<1>1. Report(s).path \in Paths /\ rows = RowsOf(Report(s).path) /\ rows \in SUBSET GasRow
  BY DEF GasInv, GasTypes, PathsLocked, GasSampler, GasReport, Report
<1>2. \A row \in rows : row.version \in Int
  BY <1>1 DEF GasRow
<1>3. versions \subseteq Int
  BY <1>2
<1>4. PICK top \in versions : \A v \in versions : top >= v
  <2>1. CASE rows = {}
    BY <2>1
  <2>2. CASE rows # {}
    <3>1. PICK row \in rows : \A o \in rows : o.version <= row.version
      BY <1>1, <2>2 DEF GasInv, NewestThere
    <3>2. CASE row.version >= 0
      BY <1>2, <3>1, <3>2
    <3>3. CASE row.version < 0
      <4>1. \A o \in rows : o.version <= 0
        BY <1>2, <3>1, <3>3
      <4> QED
        BY <4>1, <1>2
    <3> QED
      BY <3>2, <3>3, <1>2, <3>1
  <2> QED
    BY <2>1, <2>2
<1>5. Max(versions) \in versions /\ \A v \in versions : Max(versions) >= v
  BY <1>4 DEF Max
<1>6. NextVersion(s) = 1 + Max(versions)
  BY DEF NextVersion
<1>7. \A row \in rows : row.version \in versions
  OBVIOUS
<1> HIDE DEF versions, rows
<1>8. PICK max \in Int : max = Max(versions)
  BY <1>3, <1>5
<1>9. \A row \in rows : row.version \in Int /\ row.version <= max
  BY <1>2, <1>5, <1>7, <1>8
<1>10. NextVersion(s) = 1 + max
  BY <1>6, <1>8
<1>11. NextVersion(s) \in Int /\ \A row \in rows : row.version < NextVersion(s)
  BY <1>9, <1>10
<1> QED
  BY <1>11 DEF rows

\* The reports of a path's rows that are not the registered one are others.
LEMMA GasInserts ==
    ASSUME GasInv, NEW s \in Samplers, sampler[s].pc = "read", Matching(s) = {},
           SampleNewer(s), InsertRows(s),
           sampler' = [sampler EXCEPT ![s] =
             [@ EXCEPT !.pc = "imported", !.seen = {}, !.verifiedAt = 0]],
           UNCHANGED <<gasNow, gasForks, keeper, reports, prepared>>
    PROVE  GasInv'
<1> DEFINE report == Report(s)
           fits == OfMark(Report(s).path) =>
                     /\ keeper.mark = Report(s).mark
                     /\ Report(s).path # "convert" => ~keeper.pending
           new == [report |-> report, version |-> NextVersion(s), fits |-> fits]
           rec == [sampler[s] EXCEPT !.pc = "imported", !.seen = {}, !.verifiedAt = 0]
<1>0. sampler \in [Samplers -> GasSampler] /\ gasRows \in SUBSET GasRow
  BY DEF GasInv, GasTypes
<1>1. report \in GasReport /\ report.path \in Paths
  BY <1>0 DEF Report, GasSampler, GasReport
<1>2. sampler[s].seen = RowsOf(report.path)
  BY DEF GasInv, PathsLocked
<1>3. NextVersion(s) \in Int /\ \A row \in RowsOf(report.path) : row.version < NextVersion(s)
  BY <1>2, NextVersionAbove
<1>4. fits = TRUE
  <2>1. MarkFits(Report(s))
    BY DEF GasInv, PathsLocked, Inside, InTransaction
  <2> QED
    BY <2>1 DEF MarkFits
<1>5. gasRows' = gasRows \cup {new}
  BY DEF InsertRows
<1>6. new.report = report /\ new.version = NextVersion(s) /\ new.fits = TRUE /\ new \in GasRow
  BY <1>1, <1>3, <1>4 DEF GasRow
<1>7. rec.pc = "imported" /\ rec.report = report /\ rec \in GasSampler
  <2>1. sampler[s] \in GasSampler /\ "imported" \in GasSteps
    BY <1>0 DEF GasSteps
  <2> QED
    BY <2>1, GasForgets DEF Report
<1>8. sampler' = [sampler EXCEPT ![s] = rec]
  OBVIOUS
<1> HIDE DEF new, rec, fits
<1>9. /\ sampler' \in [Samplers -> GasSampler] /\ sampler'[s] = rec
      /\ \A o \in Samplers \ {s} : sampler'[o] = sampler[o]
  BY <1>0, <1>7, <1>8
<1>10. \A o \in Samplers : Report(o)' = Report(o)
  BY <1>7, <1>9 DEF Report
<1>11. Stamped(s) /\ Stamped(s)' /\ ~Sampling(s) /\ ~Sampling(s)' /\ Inside(s) /\ ~Inside(s)'
  BY <1>7, <1>9 DEF Stamped, Sampling, Inside, InTransaction
<1>12. \A o \in Samplers \ {s} : /\ Sampling(o)' <=> Sampling(o)
                                 /\ Stamped(o)' <=> Stamped(o)
                                 /\ Inside(o)' <=> Inside(o)
                                 /\ sampler'[o].pc = sampler[o].pc
  BY <1>9 DEF Stamped, Sampling, Inside
<1>13. \A row \in gasRows : row.report.id = report.id => row.report = report
  BY <1>11 DEF GasInv, ReportsNamed
<1>14. \A row \in gasRows : row.report.id # report.id
  <2> SUFFICES ASSUME NEW row \in gasRows, row.report.id = report.id  PROVE FALSE
    OBVIOUS
  <2>1. row \in sampler[s].seen
    BY <1>2, <1>13 DEF RowsOf
  <2> QED
    BY <2>1 DEF Matching
<1>15. \A row \in gasRows : row.report.path = report.path => row.version < new.version
  BY <1>3, <1>6 DEF RowsOf
<1>16. \A row \in gasRows : (row.report.path = report.path /\ report.path # "prestate") =>
         report.sampledAt > row.report.sampledAt
  BY <1>2 DEF SampleNewer, RowsOf
<1>17. \A row \in gasRows : row.version \in Int /\ row.report.sampledAt \in Int
  BY <1>0 DEF GasRow, GasReport
<1>18. new.version \in Int /\ report.sampledAt \in Int
  BY <1>1, <1>6, <1>3 DEF GasReport
<1> HIDE DEF report
<1>19. GasTypes'
  BY <1>5, <1>6, <1>9 DEF GasInv, GasTypes
<1>20. ReportsNamed'
  <2>1. sampler[s].pc # "idle"
    OBVIOUS
  <2>2. \A o \in Samplers : sampler'[o].pc # "idle" => Report(o)'.id \in 1 .. reports'
    BY <2>1, <1>10, <1>12 DEF GasInv, ReportsNamed
  <2>3. \A row \in gasRows' : row.report.id \in 1 .. reports'
    <3>1. report.id \in 1 .. reports
      BY <2>1 DEF GasInv, ReportsNamed, report
    <3> QED
      BY <3>1, <1>5, <1>6 DEF GasInv, ReportsNamed
  <2>4. \A a, o \in Samplers : (a # o /\ Sampling(a)' /\ sampler'[o].pc # "idle") =>
          Report(a)'.id # Report(o)'.id
    BY <2>1, <1>10, <1>11, <1>12 DEF GasInv, ReportsNamed
  <2>5. \A a \in Samplers, row \in gasRows' : Sampling(a)' => Report(a)'.id # row.report.id
    <3> SUFFICES ASSUME NEW a \in Samplers, NEW row \in gasRows', Sampling(a)'
                 PROVE  Report(a)'.id # row.report.id
      OBVIOUS
    <3>1. a # s /\ Sampling(a)
      BY <1>11, <1>12
    <3>2. Report(a).id # report.id
      BY <2>1, <3>1 DEF GasInv, ReportsNamed, report
    <3>3. \A o \in gasRows : Report(a).id # o.report.id
      BY <3>1 DEF GasInv, ReportsNamed
    <3> QED
      BY <3>2, <3>3, <1>5, <1>6, <1>10
  <2>6. \A a, o \in Samplers : (Stamped(a)' /\ Stamped(o)' /\ Report(a)'.id = Report(o)'.id) =>
          Report(a)' = Report(o)'
    BY <1>10, <1>11, <1>12 DEF GasInv, ReportsNamed
  <2>7. \A a \in Samplers, row \in gasRows' : (Stamped(a)' /\ Report(a)'.id = row.report.id) =>
          Report(a)' = row.report
    <3> SUFFICES ASSUME NEW a \in Samplers, NEW row \in gasRows', Stamped(a)',
                        Report(a)'.id = row.report.id
                 PROVE  Report(a)' = row.report
      OBVIOUS
    <3>1. Stamped(a)
      BY <1>11, <1>12
    <3>2. CASE row \in gasRows
      BY <3>1, <3>2, <1>10 DEF GasInv, ReportsNamed
    <3>3. CASE row = new
      BY <3>1, <3>3, <1>6, <1>10, <1>11 DEF GasInv, ReportsNamed, report
    <3> QED
      BY <3>2, <3>3, <1>5
  <2> QED
    BY <2>2, <2>3, <2>4, <2>5, <2>6, <2>7 DEF ReportsNamed
<1>21. PathsLocked'
  <2>1. \A a, o \in Samplers : (a # o /\ Inside(a)' /\ Inside(o)') =>
          Report(a)'.path # Report(o)'.path
    BY <1>10, <1>11, <1>12 DEF GasInv, PathsLocked
  <2>2. \A a \in Samplers : Inside(a)' => MarkFits(Report(a))'
    BY <1>10, <1>11, <1>12 DEF GasInv, PathsLocked, MarkFits
  <2>3. ASSUME NEW a \in Samplers, sampler'[a].pc = "read"
        PROVE  sampler'[a].seen = {row \in gasRows' : row.report.path = Report(a)'.path}
    <3>1. a # s /\ sampler[a].pc = "read" /\ Inside(a)
      BY <2>3, <1>7, <1>9 DEF Inside, InTransaction
    <3>2. Report(a).path # report.path
      BY <3>1, <1>11 DEF GasInv, PathsLocked, report
    <3>3. sampler[a].seen = {row \in gasRows : row.report.path = Report(a).path}
      BY <3>1 DEF GasInv, PathsLocked, RowsOf
    <3> QED
      BY <3>1, <3>2, <3>3, <1>5, <1>6, <1>9, <1>10
  <2> QED
    BY <2>1, <2>2, <2>3 DEF PathsLocked, RowsOf
<1>22. ImportedThere'
  BY <1>5, <1>6, <1>9, <1>10, <1>12 DEF GasInv, ImportedThere, report
<1>23. NewestThere'
  <2> SUFFICES ASSUME NEW path \in Paths, {row \in gasRows' : row.report.path = path} # {}
               PROVE  \E row \in gasRows' :
                        /\ row.report.path = path
                        /\ \A o \in gasRows' : o.report.path = path => o.version <= row.version
    BY DEF NewestThere, RowsOf
  <2>1. CASE path = report.path
    <3>1. new \in gasRows' /\ new.report.path = path
      BY <2>1, <1>5, <1>6
    <3>2. \A o \in gasRows' : o.report.path = path => o.version <= new.version
      BY <2>1, <1>5, <1>15, <1>17, <1>18
    <3> QED
      BY <3>1, <3>2
  <2>2. CASE path # report.path
    <3>1. RowsOf(path) # {}
      BY <2>2, <1>5, <1>6 DEF RowsOf
    <3>2. PICK row \in RowsOf(path) : \A o \in RowsOf(path) : o.version <= row.version
      BY <3>1 DEF GasInv, NewestThere
    <3> QED
      BY <2>2, <3>2, <1>5, <1>6 DEF RowsOf
  <2> QED
    BY <2>1, <2>2
<1>24. NewestIsLatest'
  <2> SUFFICES ASSUME NEW r1 \in gasRows', NEW r2 \in gasRows', r1.report.path = r2.report.path,
                      r1.report.path # "prestate", r1.version < r2.version
               PROVE  r1.report.sampledAt < r2.report.sampledAt
    BY DEF NewestIsLatest
  <2>1. CASE r1 \in gasRows /\ r2 \in gasRows
    BY <2>1 DEF GasInv, NewestIsLatest
  <2>2. CASE r1 \in gasRows /\ r2 = new
    BY <2>2, <1>6, <1>16, <1>17, <1>18
  <2>3. CASE r1 = new /\ r2 \in gasRows
    BY <2>3, <1>6, <1>15, <1>17, <1>18
  <2>4. CASE r1 = new /\ r2 = new
    BY <2>4, <1>18
  <2> QED
    BY <2>1, <2>2, <2>3, <2>4, <1>5
<1>25. ReportOnce'
  <2> SUFFICES ASSUME NEW r1 \in gasRows', NEW r2 \in gasRows',
                      \/ r1.report.id = r2.report.id
                      \/ r1.report.path = r2.report.path /\ r1.version = r2.version
               PROVE  r1 = r2
    BY DEF ReportOnce
  <2>1. CASE r1 \in gasRows /\ r2 \in gasRows
    BY <2>1 DEF GasInv, ReportOnce
  <2>2. CASE r1 \in gasRows /\ r2 = new
    BY <2>2, <1>6, <1>14, <1>15, <1>17, <1>18
  <2>3. CASE r1 = new /\ r2 \in gasRows
    BY <2>3, <1>6, <1>14, <1>15, <1>17, <1>18
  <2> QED
    BY <2>1, <2>2, <2>3, <1>5
<1> QED
  BY <1>5, <1>6, <1>19, <1>20, <1>21, <1>22, <1>23, <1>24, <1>25
     DEF GasInv, ExitFitsCampaign, PreparedFromOwnOrNewer

LEMMA GasRegisters ==
    ASSUME GasInv, NEW s \in Samplers, Register(s)
    PROVE  GasInv'
<1> DEFINE create == Matching(s) = {} /\ SampleNewer(s) /\ AnchorsHold(s)
           rec == [sampler[s] EXCEPT !.pc = "imported", !.seen = {}, !.verifiedAt = 0]
<1>1. /\ sampler[s].pc = "read" /\ Stamped(s)
      /\ UNCHANGED <<gasNow, gasForks, keeper, reports, prepared>>
      /\ IF create THEN InsertRows(s) ELSE UNCHANGED gasRows
      /\ sampler' = [sampler EXCEPT ![s] =
           IF Matching(s) # {} \/ (SampleNewer(s) /\ AnchorsHold(s)) THEN rec ELSE IdleSampler]
  BY DEF Register, Stamped
<1>2. CASE create
  BY <1>1, <1>2, GasInserts
<1>3. CASE Matching(s) # {}
  <2>1. GasRest /\ sampler' = [sampler EXCEPT ![s] = rec]
    BY <1>1, <1>3 DEF GasRest
  <2>2. rec.pc = "imported" /\ rec.report = Report(s) /\ rec \in GasSampler
    <3>1. sampler[s] \in GasSampler /\ "imported" \in GasSteps
      BY DEF GasInv, GasTypes, GasSteps
    <3> QED
      BY <3>1, GasForgets DEF Report
  <2>3. \E row \in gasRows : row.report = Report(s)
    <3>1. PICK row \in sampler[s].seen : row.report.id = Report(s).id
      BY <1>3 DEF Matching
    <3>2. row \in gasRows
      BY <1>1, <3>1 DEF GasInv, PathsLocked, RowsOf
    <3> QED
      BY <1>1, <3>1, <3>2 DEF GasInv, ReportsNamed
  <2> HIDE DEF rec
  <2> QED
    BY <1>1, <2>1, <2>2, <2>3, GasMoved DEF InTransaction
<1>4. CASE ~create /\ Matching(s) = {}
  BY <1>1, <1>4, GasDropped DEF GasInv, GasTypes, PreparedFromOwnOrNewer
<1> QED
  BY <1>2, <1>3, <1>4

-----------------------------------------------------------------------------
(* The preview, the campaign, the clock and the chain.                      *)

LEMMA GasPrepares ==
    ASSUME GasInv, NEW s \in Samplers, prepareStaticPaperGasForCandidate(s)
    PROVE  GasInv'
<1> DEFINE rows == IF Report(s).path = "prestate" THEN OfReport(s) ELSE RowsOf(Report(s).path)
           row == costIndicativePaperOpenPreview(s)
<1>1. PICK own \in gasRows : own.report = Report(s)
  BY DEF prepareStaticPaperGasForCandidate, GasInv, ImportedThere
<1>2. own \in rows /\ rows \subseteq gasRows /\ gasRows \subseteq GasRow
      /\ Report(s).path \in Paths
  BY <1>1 DEF OfReport, RowsOf, GasInv, GasTypes, GasSampler, GasReport, Report
<1>3. \E r \in rows : \A o \in rows : r.version >= o.version
  <2>1. CASE Report(s).path = "prestate"
    <3>1. \A o \in rows : o = own
      BY <1>1, <2>1 DEF OfReport, RowsOf, GasInv, ReportOnce
    <3> QED
      BY <3>1, <1>2 DEF GasRow
  <2>2. CASE Report(s).path # "prestate"
    <3>1. PICK r \in RowsOf(Report(s).path) :
            \A o \in RowsOf(Report(s).path) : o.version <= r.version
      BY <1>2, <2>2 DEF GasInv, NewestThere
    <3>2. \A o \in RowsOf(Report(s).path) : o.version \in Int
      BY <1>2 DEF RowsOf, GasRow
    <3> QED
      BY <2>2, <3>1, <3>2
  <2> QED
    BY <2>1, <2>2
<1>4. row = NewestVersion(rows)
  BY DEF costIndicativePaperOpenPreview
<1>5. row \in rows /\ \A o \in rows : row.version >= o.version
  BY <1>3, <1>4 DEF NewestVersion
<1>6. \A o \in rows : o.version \in Int /\ o.report.sampledAt \in Int
  BY <1>2 DEF GasRow, GasReport
<1>7. \A o \in rows : o.report.path = Report(s).path
                      /\ (Report(s).path = "prestate" => o.report.id = Report(s).id)
  BY DEF OfReport, RowsOf
<1>8. row.report.sampledAt - Report(s).sampledAt \in Int
      /\ row.report.sampledAt - Report(s).sampledAt >= 0
  <2> HIDE DEF row, rows
  <2>1. CASE row = own
    BY <2>1, <1>1, <1>2, <1>6
  <2>2. CASE row # own
    <3>1. row.version # own.version /\ row.report.id # own.report.id
      BY <2>2, <1>1, <1>2, <1>5, <1>7 DEF GasInv, ReportOnce
    <3>2. Report(s).path # "prestate" /\ own.version < row.version
      BY <3>1, <1>1, <1>2, <1>5, <1>6, <1>7
    <3>3. own.report.sampledAt < row.report.sampledAt
      BY <3>2, <1>1, <1>2, <1>5, <1>7 DEF GasInv, NewestIsLatest
    <3> QED
      BY <3>3, <1>1, <1>2, <1>5, <1>6
  <2> QED
    BY <2>1, <2>2
<1>9. prepared' \in Int /\ prepared' >= 0
  <2> HIDE DEF row, rows
  <2>1. \/ prepared' = row.report.sampledAt - Report(s).sampledAt
        \/ prepared' = 0
    BY DEF prepareStaticPaperGasForCandidate, row
  <2> QED
    BY <1>8, <2>1
<1> QED
  BY <1>9, GasDropped DEF prepareStaticPaperGasForCandidate

\* A registration of the campaign holds its row: the mark it compared stays.
LEMMA GasCampaign ==
    ASSUME GasInv, AcceptOperation \/ CompleteOperation \/ WriteMark
    PROVE  GasInv'
<1>1. /\ UNCHANGED <<gasNow, gasForks, gasRows, reports, sampler, prepared>>
      /\ CampaignUnlocked
  BY DEF AcceptOperation, CompleteOperation, WriteMark
<1>2. keeper' \in GasKeeper
  <2>1. keeper \in GasKeeper /\ keeper.mark + 1 \in Int
    BY DEF GasInv, GasTypes, GasKeeper
  <2>2. CASE AcceptOperation
    BY <2>1, <2>2 DEF AcceptOperation, GasKeeper
  <2>3. CASE CompleteOperation
    BY <2>1, <2>3 DEF CompleteOperation, GasKeeper
  <2>4. CASE WriteMark
    <3>1. PICK mark \in Int : mark = keeper.mark + 1
      BY <2>1
    <3> QED
      BY <2>1, <2>4, <3>1 DEF WriteMark, GasKeeper
  <2> QED
    BY <2>2, <2>3, <2>4
<1>3. \A s \in Samplers : Inside(s) => ~OfMark(Report(s).path)
  BY <1>1 DEF CampaignUnlocked, Inside, OfMark, OfCampaign
<1>4. \A s \in Samplers : Report(s)' = Report(s) /\ (Inside(s)' <=> Inside(s))
  BY <1>1 DEF Report, Inside
<1>5. PathsLocked'
  <2>1. \A s \in Samplers : Inside(s)' => MarkFits(Report(s))'
    BY <1>3, <1>4 DEF MarkFits
  <2> QED
    BY <1>1, <1>4, <2>1 DEF GasInv, PathsLocked, RowsOf, Report
<1> QED
  BY <1>1, <1>2, <1>5
     DEF GasInv, GasTypes, ReportsNamed, ImportedThere, NewestThere, NewestIsLatest, ReportOnce,
         ExitFitsCampaign, PreparedFromOwnOrNewer, Report, Sampling, Stamped, RowsOf

LEMMA GasTicks == ASSUME GasInv, GasTick  PROVE GasInv'
  BY DEF GasInv, GasTick, GasTypes, ReportsNamed, PathsLocked, ImportedThere, NewestThere,
         NewestIsLatest, ReportOnce, ExitFitsCampaign, PreparedFromOwnOrNewer, Report, Sampling,
         Stamped, Inside, MarkFits, RowsOf


\* A replaced block changes what is canonical and nothing that tells reports apart.
LEMMA GasReorgs == ASSUME GasInv, GasReorg  PROVE GasInv'
<1>1. /\ UNCHANGED <<gasNow, keeper, reports, prepared>> /\ gasForks' = gasForks + 1
      /\ sampler \in [Samplers -> GasSampler] /\ gasRows \in SUBSET GasRow
  BY DEF GasReorg, GasInv, GasTypes
<1> DEFINE Cut(r, from) == [r EXCEPT !.orphan = @ \/ (r.id > 0 /\ r.block >= from)]
           CutRow(row, from) == [row EXCEPT !.report = Cut(@, from)]
<1>2. PICK from :
        /\ sampler' = [s \in Samplers |-> [sampler[s] EXCEPT !.report = Cut(@, from),
                         !.seen = {CutRow(row, from) : row \in @}]]
        /\ gasRows' = {CutRow(row, from) : row \in gasRows}
  BY DEF GasReorg
<1>3. \A r \in GasReport : /\ Cut(r, from) \in GasReport
                           /\ Cut(r, from).id = r.id /\ Cut(r, from).path = r.path
                           /\ Cut(r, from).mark = r.mark
                           /\ Cut(r, from).sampledAt = r.sampledAt
  BY DEF GasReport
<1> HIDE DEF Cut
<1>4. \A row \in GasRow : /\ CutRow(row, from) \in GasRow
                          /\ CutRow(row, from).report = Cut(row.report, from)
                          /\ CutRow(row, from).version = row.version
                          /\ CutRow(row, from).fits = row.fits
  BY <1>3 DEF GasRow
<1>5. \A s \in Samplers : /\ sampler'[s].pc = sampler[s].pc
                          /\ Report(s)' = Cut(Report(s), from)
                          /\ sampler'[s].seen = {CutRow(row, from) : row \in sampler[s].seen}
  BY <1>1, <1>2 DEF Report, GasSampler
<1>6. ASSUME NEW s \in Samplers  PROVE sampler'[s] \in GasSampler
  <2> DEFINE rec == sampler[s]
             seen == {CutRow(row, from) : row \in rec.seen}
             rep == Cut(rec.report, from)
  <2>1. rec \in GasSampler /\ rec.report \in GasReport /\ rec.seen \in SUBSET GasRow
    BY <1>1 DEF GasSampler
  <2>2. rep \in GasReport /\ seen \in SUBSET GasRow
    BY <2>1, <1>3, <1>4
  <2>3. sampler'[s] = [rec EXCEPT !.report = rep, !.seen = seen]
    BY <1>2
  <2> HIDE DEF rec, seen, rep
  <2> QED
    BY <2>1, <2>2, <2>3 DEF GasSampler
<1>7. \A s \in Samplers : Report(s) \in GasReport
  BY <1>1 DEF GasSampler, Report
<1> HIDE DEF CutRow
<1>8. \A s \in Samplers : /\ Report(s)'.id = Report(s).id /\ Report(s)'.path = Report(s).path
                          /\ Report(s)'.mark = Report(s).mark
                          /\ Sampling(s)' <=> Sampling(s)
                          /\ Stamped(s)' <=> Stamped(s)
                          /\ Inside(s)' <=> Inside(s)
  BY <1>3, <1>5, <1>7 DEF Sampling, Stamped, Inside
<1>9. ASSUME NEW row \in gasRows'
      PROVE  \E o \in gasRows : /\ row = CutRow(o, from) /\ row.report = Cut(o.report, from)
                                /\ row.version = o.version /\ row.fits = o.fits
                                /\ row.report.id = o.report.id
                                /\ row.report.path = o.report.path
                                /\ row.report.sampledAt = o.report.sampledAt
                                /\ row \in GasRow
  <2>1. PICK o \in gasRows : row = CutRow(o, from)
    BY <1>2
  <2>2. o \in GasRow /\ o.report \in GasReport
    BY <1>1 DEF GasRow
  <2> QED
    BY <2>1, <2>2, <1>3, <1>4
<1>10. ASSUME NEW o \in gasRows
       PROVE  /\ CutRow(o, from) \in gasRows' /\ CutRow(o, from).version = o.version
              /\ CutRow(o, from).report = Cut(o.report, from)
              /\ CutRow(o, from).report.path = o.report.path
  <2>1. o \in GasRow /\ o.report \in GasReport
    BY <1>1 DEF GasRow
  <2> QED
    BY <2>1, <1>2, <1>3, <1>4
<1>11. GasTypes'
  <2>1. DOMAIN sampler' = Samplers /\ sampler' = [s \in Samplers |-> sampler'[s]]
    BY <1>2
  <2>2. sampler' \in [Samplers -> GasSampler]
    BY <2>1, <1>6
  <2>3. gasRows' \subseteq GasRow
    BY <1>9
  <2> QED
    BY <2>2, <2>3, <1>1 DEF GasInv, GasTypes
<1>12. ReportsNamed'
  <2>1. \A s \in Samplers : sampler'[s].pc # "idle" => Report(s)'.id \in 1 .. reports'
    BY <1>1, <1>5, <1>8 DEF GasInv, ReportsNamed
  <2>2. \A row \in gasRows' : row.report.id \in 1 .. reports'
    BY <1>1, <1>9 DEF GasInv, ReportsNamed
  <2>3. \A s, o \in Samplers : (s # o /\ Sampling(s)' /\ sampler'[o].pc # "idle") =>
          Report(s)'.id # Report(o)'.id
    BY <1>5, <1>8 DEF GasInv, ReportsNamed
  <2>4. \A s \in Samplers, row \in gasRows' : Sampling(s)' => Report(s)'.id # row.report.id
    BY <1>8, <1>9 DEF GasInv, ReportsNamed
  <2>5. \A s, o \in Samplers : (Stamped(s)' /\ Stamped(o)' /\ Report(s)'.id = Report(o)'.id) =>
          Report(s)' = Report(o)'
    BY <1>5, <1>8 DEF GasInv, ReportsNamed
  <2>6. \A s \in Samplers, row \in gasRows' : (Stamped(s)' /\ Report(s)'.id = row.report.id) =>
          Report(s)' = row.report
    BY <1>5, <1>8, <1>9 DEF GasInv, ReportsNamed
  <2> QED
    BY <2>1, <2>2, <2>3, <2>4, <2>5, <2>6 DEF ReportsNamed
<1>13. PathsLocked'
  <2>1. \A s, o \in Samplers : (s # o /\ Inside(s)' /\ Inside(o)') =>
          Report(s)'.path # Report(o)'.path
    BY <1>8 DEF GasInv, PathsLocked
  <2>2. \A s \in Samplers : Inside(s)' => MarkFits(Report(s))'
    BY <1>1, <1>8 DEF GasInv, PathsLocked, MarkFits
  <2>3. ASSUME NEW s \in Samplers, sampler'[s].pc = "read"
        PROVE  sampler'[s].seen = {row \in gasRows' : row.report.path = Report(s)'.path}
    <3>1. sampler[s].seen = {row \in gasRows : row.report.path = Report(s).path}
      BY <1>5, <2>3 DEF GasInv, PathsLocked, RowsOf
    <3>2. ASSUME NEW x \in sampler'[s].seen
          PROVE  x \in gasRows' /\ x.report.path = Report(s)'.path
      <4>1. PICK o \in sampler[s].seen : x = CutRow(o, from)
        BY <1>5
      <4> QED
        BY <4>1, <3>1, <1>8, <1>10
    <3>3. ASSUME NEW x \in gasRows', x.report.path = Report(s)'.path
          PROVE  x \in sampler'[s].seen
      BY <3>1, <3>3, <1>5, <1>8, <1>9
    <3> QED
      BY <3>2, <3>3
  <2> QED
    BY <2>1, <2>2, <2>3 DEF PathsLocked, RowsOf
<1>14. ImportedThere'
  <2> SUFFICES ASSUME NEW s \in Samplers, sampler'[s].pc = "imported"
               PROVE  \E row \in gasRows' : row.report = Report(s)'
    BY DEF ImportedThere
  <2>1. PICK o \in gasRows : o.report = Report(s)
    BY <1>5 DEF GasInv, ImportedThere
  <2> QED
    BY <2>1, <1>5, <1>10
<1>15. NewestThere'
  <2> SUFFICES ASSUME NEW path \in Paths, NEW some \in gasRows', some.report.path = path
               PROVE  \E row \in gasRows' :
                        /\ row.report.path = path
                        /\ \A o \in gasRows' : o.report.path = path => o.version <= row.version
    BY DEF NewestThere, RowsOf
  <2>1. RowsOf(path) # {}
    BY <1>9 DEF RowsOf
  <2>2. PICK row \in RowsOf(path) : \A o \in RowsOf(path) : o.version <= row.version
    BY <2>1 DEF GasInv, NewestThere
  <2>3. row \in gasRows /\ row.report.path = path
    BY DEF RowsOf
  <2>4. \A o \in gasRows' : o.report.path = path => o.version <= row.version
    BY <2>2, <1>9 DEF RowsOf
  <2> QED
    BY <2>3, <2>4, <1>10
<1>16. NewestIsLatest'
  BY <1>9 DEF GasInv, NewestIsLatest
<1>17. ReportOnce'
  BY <1>9 DEF GasInv, ReportOnce
<1>18. ExitFitsCampaign'
  BY <1>9 DEF GasInv, ExitFitsCampaign
<1> QED
  BY <1>1, <1>11, <1>12, <1>13, <1>14, <1>15, <1>16, <1>17, <1>18
     DEF GasInv, PreparedFromOwnOrNewer

LEMMA GasStarts0 == GasInit => GasInv
<1> SUFFICES ASSUME GasInit  PROVE GasInv
  OBVIOUS
<1>1. IdleSampler \in GasSampler /\ IdleSampler.pc = "idle"
  BY DEF IdleSampler, NoReport, GasSampler, GasReport, GasSteps, Paths
<1>2. \A s \in Samplers : sampler[s].pc = "idle"
  BY <1>1 DEF GasInit
<1>3. GasTypes
  BY <1>1 DEF GasInit, GasTypes, GasKeeper
<1> QED
  BY <1>2, <1>3
     DEF GasInit, GasInv, ReportsNamed, PathsLocked, ImportedThere, NewestThere, NewestIsLatest,
         ReportOnce, ExitFitsCampaign, PreparedFromOwnOrNewer, Sampling, Stamped, Inside,
         InTransaction, RowsOf

LEMMA GasStays == GasInv /\ [GasNext]_gasVars => GasInv'
<1> SUFFICES ASSUME GasInv, [GasNext]_gasVars  PROVE GasInv'
  OBVIOUS
<1>1. ASSUME NEW s \in Samplers, SamplerStep(s)  PROVE GasInv'
  <2>1. CASE \E path \in Paths : StartSample(s, path)
    BY <2>1, GasStarts
  <2>2. CASE \E o \in Samplers \ {s} : RetryReport(s, o)
    BY <2>2, GasRetries
  <2>3. CASE sampleStaticPaperGas(s) \/ produceRangeKeeperPaperGasEvidence(s)
    BY <2>3, GasStamped DEF sampleStaticPaperGas, produceRangeKeeperPaperGasEvidence, Sampling
  <2>4. CASE verifyPaperGasSource(s)
    BY <2>4, GasAttests DEF verifyPaperGasSource, GasRest, Stamped
  <2>5. CASE verifyFeeReplay(s)
    BY <2>5, GasAttests DEF verifyFeeReplay, GasRest, Stamped
  <2>6. CASE CheckAges(s)
    BY <2>6, GasGoes DEF CheckAges, GasRest, Stamped, GasSteps, InTransaction
  <2>7. CASE LockBand(s)
    BY <2>7, GasLocks
  <2>8. CASE verifyRangeKeeperPaperGasEvidenceSource(s)
    BY <2>8, GasAttests
       DEF verifyRangeKeeperPaperGasEvidenceSource, GasRest, Stamped, Inside, InTransaction
  <2>9. CASE ReadExisting(s)
    BY <2>9, GasReads
  <2>10. CASE Register(s)
    BY <2>10, GasRegisters
  <2>11. CASE prepareStaticPaperGasForCandidate(s)
    BY <2>11, GasPrepares
  <2> QED
    BY <1>1, <2>1, <2>2, <2>3, <2>4, <2>5, <2>6, <2>7, <2>8, <2>9, <2>10, <2>11 DEF SamplerStep
<1>2. CASE AcceptOperation \/ CompleteOperation \/ WriteMark
  BY <1>2, GasCampaign
<1>3. CASE GasTick
  BY <1>3, GasTicks
<1>4. CASE GasReorg
  BY <1>4, GasReorgs
<1>5. CASE UNCHANGED gasVars
  BY <1>5 DEF gasVars, GasInv, GasTypes, ReportsNamed, PathsLocked, ImportedThere, NewestThere,
     NewestIsLatest, ReportOnce, ExitFitsCampaign, PreparedFromOwnOrNewer, Report, Sampling,
     Stamped, Inside, MarkFits, RowsOf
<1> QED
  BY <1>1, <1>2, <1>3, <1>4, <1>5 DEF GasNext

(***************************************************************************)
(* Registered gas evidence is versioned in the order it was sampled in and *)
(* registered once, whichever samplers and retries race; rows that price an *)
(* exit fit the mark of the campaign they were inserted under; and a       *)
(* preview is costed from the imported sample or a newer one               *)
(* (registerPaperGasEvidence and its siblings,                             *)
(* prepareStaticPaperGasForCandidate).                                      *)
(***************************************************************************)
THEOREM GasEvidenceIsSound == GasSpec => []GasRowsSound
<1>1. GasInv => GasRowsSound
  BY DEF GasInv, GasRowsSound
<1> QED
  BY <1>1, GasStarts0, GasStays, PTL DEF GasSpec

=============================================================================

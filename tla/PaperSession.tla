---------------------------- MODULE PaperSession ----------------------------
(***************************************************************************)
(* The stand-alone paper sessions (paper/store.ts, paper/engine.ts): a     *)
(* worker advances the newest session over the collected checkpoints.      *)
(* Signals are filled by simulations at later checkpoints; the simulation  *)
(* runs between two transactions, while an operator may stop the session,  *)
(* the indexer may retract coverage and the chain may disown a checkpoint. *)
(* A closed session's cash funds its successor; an upgrade pins the proofs *)
(* of earlier builds; a saved exit can be recovered after an invalidation. *)
(*                                                                         *)
(* One checkpoint is collected per unit of time, so the number of          *)
(* checkpoints is the clock.                                               *)
(***************************************************************************)
EXTENDS Integers, Sequences, FiniteSetsExt

CONSTANTS
    MaxCheckpoints,  \* bound: collected checkpoints
    MaxSessions,     \* bound: sessions of the stream
    MaxSourceAge,    \* maxSourceAgeSeconds
    MaxGap,          \* maxGapSeconds
    PauseTtl,        \* chainPauseSeconds and riskPauseSeconds
    QuoteTtl,        \* maxQuoteAgeSeconds of a recenter
    Budget,          \* a fresh session's cash
    MaxReorgs,       \* bound: chain reorganisations
    MaxBuilds        \* bound: sealed releases

ASSUME BudgetIsInt == Budget \in Int

VARIABLES
    tape,      \* checkpoints: how many, is the newest covered, which are not canonical
    sessions,  \* paper_sessions, with the checkpoints each has observed
    xruns,     \* paper_execution_runs
    ticker     \* the worker: program counter, session snapshot, source, build

sessionVars == <<tape, sessions, xruns, ticker>>

now == tape.count
Terminal == {"closed", "invalid"}
Rest(build) == [pc |-> "idle", build |-> build]

\* A row of paper_execution_runs: accepted when it carries no error.
Run(id, cp, kind, err, build, timely) ==
    [id |-> id, cp |-> cp, kind |-> kind, err |-> err, build |-> build, timely |-> timely]

\* initialPaperState and insertSession.
insertSession(parent, budget, held, build) ==
    [status |-> "waiting", why |-> "none", was |-> "none", pos |-> FALSE, last |-> 0,
     since |-> 0, intent |-> 0, rq |-> 0, entered |-> 0, earned |-> 0, paid |-> 0,
     stopped |-> FALSE, touched |-> FALSE, parent |-> parent, budget |-> budget, born |-> now,
     entryRun |-> 0, exitRun |-> 0, moves |-> {}, build |-> build, history |-> <<>>,
     seen |-> {}, held |-> held, chainSince |-> 0, riskSince |-> 0, exitDue |-> FALSE,
     paused |-> FALSE, resume |-> FALSE]

\* A session that entered at the second checkpoint on the quote of the first.
SessionInit ==
    /\ tape = [count |-> 2, covered |-> TRUE, bad |-> {}, reorgs |-> 0]
    /\ xruns = <<Run(1, 1, "quote", "none", 1, TRUE), Run(1, 2, "entry", "none", 1, TRUE)>>
    /\ \E held \in BOOLEAN :
         sessions = <<[insertSession(0, Budget, held, 1) EXCEPT !.status = "open", !.born = 0,
                         !.pos = TRUE, !.last = 2, !.intent = 1, !.entered = 2, !.paid = 1,
                         !.entryRun = 2, !.seen = {1, 2}]>>
    /\ ticker = Rest(1)

-----------------------------------------------------------------------------
(* Collectors and the chain, while some step of the sessions can follow    *)

Watched == LET s == sessions[Len(sessions)] IN s.status = "invalid" => s.why = "source"

Collect ==
    /\ tape.count < MaxCheckpoints /\ Watched
    /\ tape' = [tape EXCEPT !.count = @ + 1, !.covered = FALSE]
    /\ UNCHANGED <<sessions, xruns, ticker>>

\* The indexer covers the newest checkpoint; an overlap rescan takes that
\* coverage back for a while.  Only a running simulation can tell a coverage
\* taken back from one not reached yet.
Cover ==
    /\ Watched /\ (tape.covered => ticker.pc = "network")
    /\ tape' = [tape EXCEPT !.covered = ~@]
    /\ UNCHANGED <<sessions, xruns, ticker>>

through == IF tape.covered THEN tape.count ELSE tape.count - 1

\* The canonicality records of a suffix turn false.
Disown == \E k \in 1..tape.count :
    /\ tape.reorgs < MaxReorgs /\ Watched
    /\ tape' = [tape EXCEPT !.bad = @ \cup k..tape.count, !.reorgs = @ + 1]
    /\ UNCHANGED <<sessions, xruns, ticker>>

\* A later validation finds the recorded hashes canonical again.
Revalidate ==
    /\ tape.bad # {} /\ Watched
    /\ tape' = [tape EXCEPT !.bad = {}]
    /\ UNCHANGED <<sessions, xruns, ticker>>

-----------------------------------------------------------------------------
(* Evidence                                                                *)

\* executionRuntime: the build a run must have been recorded by.
\* mutant: the boundary run counts to the new build.
BoundaryToNew(s, r) ==
    IF \E h \in 1..Len(s.history) : r < s.history[h].through THEN s.history[1].from ELSE s.build
executionRuntime(s, r) ==
    IF \E h \in 1..Len(s.history) : r <= s.history[h].through
    THEN s.history[CHOOSE h \in 1..Len(s.history) :
                     /\ r <= s.history[h].through
                     /\ \A g \in 1..h - 1 : r > s.history[g].through].from
    ELSE s.build

Proofs(s) == ({s.entryRun, s.exitRun} \cup s.moves) \ {0}

\* paperExecutionEvidenceValid
evidenceValid(s) ==
    IF s.entryRun = 0 THEN ~s.pos
    ELSE /\ \A r \in Proofs(s) :
              /\ xruns[r].err = "none" /\ xruns[r].cp \notin tape.bad
              /\ xruns[r].build = executionRuntime(s, r)
         /\ s.status = "closed" => s.exitRun # 0

paperSourcesValid(s) == s.status # "invalid" /\ s.seen \cap tape.bad = {} /\ evidenceValid(s)

\* closedPaperCash: 0 when nothing can be carried.
closedPaperCash(s) ==
    IF s.status = "closed" /\ s.exitRun # 0 THEN s.budget + s.earned - s.paid ELSE 0

\* A session and the sessions whose cash it carries.
Ancestry(i) ==
    LET up[j \in 0..Len(sessions)] == IF j = 0 THEN {} ELSE {j} \cup up[sessions[j].parent]
    IN  up[i]

\* readPaperChain
readPaperChain(i) ==
    \A j \in Ancestry(i) :
        /\ paperSourcesValid(sessions[j])
        /\ sessions[j].parent # 0 =>
              closedPaperCash(sessions[sessions[j].parent]) = sessions[j].budget

-----------------------------------------------------------------------------
(* The engine: advancePaper, advanceTransactionPaper, advanceRecenter      *)

invalidatePaper(s, why) == [s EXCEPT !.status = "invalid", !.why = why, !.was = s.status]

Idled(s) == [s EXCEPT !.status = "waiting", !.since = 0, !.intent = 0]

\* x: exec is the simulation at hand, run its record, at the decision time,
\* chain and gates the verdicts on the chain and on entry, outside the price.
AdvanceFlat(s, i, x) ==
    CASE ~x.chain \/ x.gates \/ x.exec = "error" -> [s |-> Idled(s), need |-> "none"]
      [] s.intent = 0 \/ s.status # "entry_pending" ->
            IF x.exec # "quote" THEN [s |-> [s EXCEPT !.status = "waiting"], need |-> "quote"]
            ELSE [s |-> [s EXCEPT !.intent = i, !.status = "entry_pending", !.since = x.at],
                  need |-> "none"]
      [] i <= s.since -> [s |-> s, need |-> "none"]
      [] x.at - s.since > MaxGap \/ x.outside -> [s |-> Idled(s), need |-> "none"]
      [] x.exec # "entry" -> [s |-> s, need |-> "entry"]
      [] OTHER -> [s |-> [s EXCEPT !.pos = TRUE, !.status = "open", !.since = 0, !.entered = i,
                            !.entryRun = x.run, !.paid = 1],
                   need |-> "none"]

advanceRecenter(s, i, x) ==
    CASE s.status # "open" \/ ~x.outside \/ ~x.chain \/ x.gates \/ x.exec = "error" ->
            [s |-> [s EXCEPT !.rq = 0], need |-> "none"]
      [] s.rq = 0 -> IF x.exec # "recenter_quote" THEN [s |-> s, need |-> "recenter_quote"]
                     ELSE [s |-> [s EXCEPT !.rq = i], need |-> "none"]
      [] x.at - s.rq > QuoteTtl -> [s |-> [s EXCEPT !.rq = 0], need |-> "none"]
      [] i <= s.rq -> [s |-> s, need |-> "none"]
      [] x.exec # "recenter" -> [s |-> s, need |-> "recenter"]
      [] OTHER -> [s |-> [s EXCEPT !.rq = 0, !.paid = @ + 1, !.moves = @ \cup {x.run}],
                   need |-> "none"]

AdvanceHeld(s, i, x) ==
    LET marked == [s EXCEPT !.earned = @ + (i - s.last), !.last = i] IN
    CASE i - s.last > MaxGap -> [s |-> invalidatePaper(s, "gap"), need |-> "none"]
      [] s.status = "exit_pending" /\ x.chain /\ i > s.since ->
            IF x.exec = "exit"
            THEN [s |-> [marked EXCEPT !.status = "closed", !.since = 0, !.rq = 0,
                           !.exitRun = x.run, !.paid = @ + 1],
                  need |-> "none"]
            ELSE [s |-> marked, need |-> IF x.exec = "error" THEN "none" ELSE "exit"]
      [] s.status = "exit_pending" \/ x.gates ->
            [s |-> [marked EXCEPT !.status = "exit_pending", !.rq = 0,
                      !.since = IF @ = 0 THEN x.at ELSE @],
             need |-> "none"]
      [] OTHER -> advanceRecenter(marked, i, x)

advancePaper(s, i, x) ==
    CASE s.status \in Terminal -> [s |-> s, need |-> "none"]
      [] i \in tape.bad \/ x.at - i > MaxSourceAge ->
            [s |-> IF s.pos THEN invalidatePaper(s, "stale")
                   ELSE [s EXCEPT !.status = "waiting", !.last = i],
             need |-> "none"]
      [] s.pos -> AdvanceHeld(s, i, x)
      [] OTHER -> AdvanceFlat([s EXCEPT !.last = i], i, x)

-----------------------------------------------------------------------------
(* observeSessionHolding: pauses and latched exits of a held position      *)

advanceHolding(s, f) ==
    LET chainSince == IF f # "chain" THEN 0 ELSE IF s.chainSince = 0 THEN now ELSE s.chainSince
        riskSince == CASE f = "risk" -> IF s.riskSince = 0 THEN now ELSE s.riskSince
                       [] f = "chain" -> s.riskSince
                       [] OTHER -> 0
        expired(t) == t # 0 /\ now - t >= PauseTtl
        exit == s.exitDue \/ f = "hard" \/ expired(s.chainSince) \/ expired(s.riskSince)
        paused == f = "chain" \/ (f = "risk" /\ ~exit)
    IN  [s EXCEPT !.chainSince = chainSince, !.riskSince = riskSince, !.exitDue = exit,
           !.paused = paused, !.resume = @ \/ paused]

observeSessionHolding(i, f) ==
    LET s == sessions[i]
        h == advanceHolding(s, f)
    IN  CASE ~s.held \/ ~s.pos -> s
          [] ~readPaperChain(i) -> invalidatePaper(s, "history")
          [] h.paused /\ now - s.last > MaxGap -> invalidatePaper(h, "gap")
          [] OTHER -> h

-----------------------------------------------------------------------------
(* The worker                                                              *)

Active == {i \in 1..Len(sessions) : sessions[i].status \notin Terminal}

\* The next source: the oldest unobserved checkpoint, the newest after a
\* pause; a source whose simulation was deferred is not used again.
\* mutant: deferred sources stay eligible.
DeferredAgain(i) == {}
deferred(i) == {xruns[r].cp : r \in {q \in 1..Len(xruns) : xruns[q].id = i /\ xruns[q].err = "deferred"}}

sources(i, s) ==
    {k \in (1..tape.count) \ (s.seen \cup deferred(i)) : k > s.born /\ k > s.last}

source(i, s) ==
    LET c == sources(i, s) IN
    CASE c = {} -> 0 [] c # {} /\ s.resume -> Max(c) [] OTHER -> Min(c)

\* maybeReenter: the first transaction of a tick.
maybeReenter ==
    LET n == Len(sessions) IN
    /\ ticker.pc = "idle" /\ n > 0
    /\ sessions[n].status = "closed" /\ ~sessions[n].stopped /\ sessions[n].build = ticker.build
    /\ IF readPaperChain(n) /\ closedPaperCash(sessions[n]) > 0
       THEN /\ n < MaxSessions
            /\ sessions' = Append(sessions, insertSession(n, closedPaperCash(sessions[n]),
                                                          sessions[n].held, ticker.build))
       ELSE sessions' = [sessions EXCEPT ![n].stopped = TRUE]
    /\ UNCHANGED <<tape, xruns, ticker>>

\* The observation and the session row commit together.
SourceObserved(s, i) ==
    [s EXCEPT !.seen = @ \cup {i}, !.touched = FALSE,
              !.resume = @ /\ ~(s.last = i /\ s.status # "invalid")]

\* pausedPaperSourceWait: the first source after a pause is fresh and within
\* the gap the ledger may have.
pausedPaperSourceWait(s, k) ==
    CASE ~s.pos \/ ~s.resume \/ s.paused \/ s.status = "invalid" -> "no"
      [] now - s.last > MaxGap -> "gap"
      [] OTHER -> IF now - k > MaxSourceAge THEN "wait" ELSE "no"

\* What a tick finds: entry or exit gates, a chain fault, a price outside the
\* range, fees that could not be read; for a held position the holding faults.
Views == {"fine", "outside", "gates", "noChain", "unread", "chain", "risk", "hard"}

\* The main transaction up to the decision, on the observed row s and its next
\* source k.  A decision that needs a simulation releases the row and goes to
\* the network.
decide(i, v, s, k) ==
    LET t == sessions[i]
        held == s.held /\ s.pos
        intact == /\ evidenceValid(t) /\ t.seen \cap tape.bad = {}
                  /\ t.parent # 0 => readPaperChain(i)
        x == [exec |-> "none", run |-> 0, at |-> now, chain |-> v # "noChain", outside |-> v = "outside",
              gates |-> v = "gates" \/ (held /\ s.exitDue) \/ (~held /\ v = "noChain")]
        wait == pausedPaperSourceWait(s, k)
        unread == v = "unread" /\ (s.pos \/ s.intent # 0) /\ now - k <= MaxSourceAge
        waits == TRUE \in {s.paused, s.status = "invalid", k = 0, k > through, unread, wait = "wait"}
    IN
    \/ /\ ~intact
       /\ sessions' = [sessions EXCEPT ![i] = invalidatePaper(t, "history")] /\ UNCHANGED ticker
    \/ /\ intact /\ k # 0 /\ wait = "gap"
       /\ sessions' = [sessions EXCEPT ![i] = invalidatePaper(s, "gap")] /\ UNCHANGED ticker
    \/ /\ intact /\ (k # 0 => wait # "gap") /\ waits
       /\ sessions' = [sessions EXCEPT ![i] = s] /\ UNCHANGED ticker
    \/ /\ intact /\ wait # "gap" /\ ~waits
       /\ \E a \in {advancePaper(s, k, x)} :
            IF a.need = "none"
            THEN sessions' = [sessions EXCEPT ![i] = SourceObserved(a.s, k)] /\ UNCHANGED ticker
            ELSE /\ sessions' = [sessions EXCEPT ![i] = s]
                 /\ ticker' = [pc |-> "network", build |-> ticker.build, id |-> i, cp |-> k,
                               need |-> a.need, snap |-> s]

sessionTick == ticker.pc = "idle" /\ \E i \in Active, v \in Views :
    /\ sessions[i].build = ticker.build
    /\ v \in {"chain", "risk", "hard"} => sessions[i].held /\ sessions[i].pos
    /\ \E s \in {observeSessionHolding(i, v)} : \E k \in {source(i, s)} : decide(i, v, s, k)
    /\ UNCHANGED <<tape, xruns>>

Class(need) == CASE need = "recenter" -> "entry" [] need = "recenter_quote" -> "quote" [] OTHER -> need

\* Was the session changed by an operator while the simulation ran?
\* mutant: the row is taken to be the worker's own.
NeverChanged(i) == FALSE
changed(i) == sessions[i] # ticker.snap

\* The simulation's result meets the state of the database again.
\* mutant: a deferred source is consumed.
ConsumeDeferred(s, i) == [s EXCEPT !.last = i, !.seen = @ \cup {i}]
deferSource(s, i) == s

\* The executor's simulation on the source returns its fill or fails.
execution(need) == {need, "error"}

\* Changed rows are left alone, moved sources revoke the session, a source
\* no longer covered is deferred.
verdict(exec) ==
    LET i == ticker.id
        k == ticker.cp
        s == ticker.snap
        moved == /\ ~changed(i)
                 /\ (s.parent # 0 /\ ~readPaperChain(i)) \/ k \in tape.bad \/ s.seen \cap tape.bad # {}
        defer == ~changed(i) /\ ~moved /\ k > through
    IN  CASE changed(i) -> "changed" [] moved -> "source" [] defer -> "deferred"
          [] OTHER -> IF exec # "error" THEN "none" ELSE "error"

\* The record of the simulation and the row commit together.
record(exec, e) ==
    LET i == ticker.id
        k == ticker.cp
        s == ticker.snap
        x == [exec |-> exec, run |-> Len(xruns) + 1, at |-> now,
              chain |-> TRUE, gates |-> FALSE, outside |-> ticker.need \in {"recenter_quote", "recenter"}]
    IN
    /\ xruns' = Append(xruns, Run(i, k, Class(ticker.need), e, ticker.build,
                                  exec # "error" /\ now - k <= MaxSourceAge))
    /\ sessions' = CASE e = "changed" -> sessions
                     [] e = "source" -> [sessions EXCEPT ![i] = invalidatePaper(s, "source")]
                     [] e = "deferred" -> [sessions EXCEPT ![i] = deferSource(s, k)]
                     [] OTHER -> [sessions EXCEPT ![i] = SourceObserved(advancePaper(s, k, x).s, k)]

settle ==
    /\ ticker.pc = "network"
    /\ \E exec \in execution(ticker.need) : \E e \in {verdict(exec)} : record(exec, e)
    /\ ticker' = Rest(ticker.build)
    /\ UNCHANGED tape

\* A failed tick or a crash: the transaction rolls back, the lock is freed.
tickFails ==
    /\ ticker.pc # "idle"
    /\ ticker' = Rest(ticker.build)
    /\ UNCHANGED <<tape, sessions, xruns>>

-----------------------------------------------------------------------------
(* Operator commands                                                       *)

\* stop needs only the row, so it may fall into a running simulation; of an
\* invalid session it only writes the date.
stop ==
    LET n == Len(sessions)
        s == sessions[n]
    IN
    /\ s.status # "invalid"
    /\ sessions' = [sessions EXCEPT ![n] =
         IF s.status \in Terminal THEN [s EXCEPT !.stopped = TRUE]
         ELSE [s EXCEPT !.stopped = TRUE, !.touched = TRUE,
                        !.status = IF s.pos THEN "exit_pending" ELSE "closed",
                        !.since = IF s.pos THEN now ELSE 0]]
    /\ UNCHANGED <<tape, xruns, ticker>>

\* The session a continuation may follow.
\* mutant: any session will do.
AnyPredecessor(i) == i \in 1..Len(sessions)
latestPredecessor(i) == i = Len(sessions)

\* start with --after; the sessions of a stream share one holding policy.
startSession == \E after \in 1..Len(sessions) :
    /\ ticker.pc = "idle" /\ Len(sessions) < MaxSessions
    /\ Active = {}
    /\ latestPredecessor(after) /\ readPaperChain(after)
    /\ closedPaperCash(sessions[after]) > 0
    /\ sessions' = Append(sessions, insertSession(after, closedPaperCash(sessions[after]),
                                                  sessions[1].held, ticker.build))
    /\ UNCHANGED <<tape, xruns, ticker>>

\* A new sealed release of the worker; while the session is not open it can
\* only stand still.
release ==
    /\ ticker.pc = "idle" /\ ticker.build < MaxBuilds
    /\ sessions[Len(sessions)].status = "open"
    /\ ticker' = [ticker EXCEPT !.build = @ + 1]
    /\ UNCHANGED <<tape, sessions, xruns>>

upgradePaperRuntime ==
    LET n == Len(sessions)
        s == sessions[n]
    IN
    /\ ticker.pc = "idle" /\ n > 0
    /\ s.build < ticker.build /\ s.status = "open" /\ ~s.stopped
    /\ readPaperChain(n)
    /\ sessions' = [sessions EXCEPT ![n] =
         [s EXCEPT !.build = ticker.build, !.rq = 0, !.touched = TRUE,
                   !.history = Append(@, [from |-> s.build, through |-> Len(xruns)])]]
    /\ UNCHANGED <<tape, xruns, ticker>>

\* prepareExitRecovery: the saved exit's source is covered, canonical and
\* unobserved, and the ledger rests on canonical sources.
prepareExitRecovery(n, r) ==
    LET k == xruns[r].cp IN
    /\ xruns[r].id = n /\ k \notin sessions[n].seen
    /\ k \notin tape.bad /\ k <= through /\ sessions[n].seen \cap tape.bad = {}

\* reconcileRecordedExit: the saved exit applied to the last accepted ledger.
reconcileRecordedExit(s, r) ==
    LET previous == [s EXCEPT !.status = s.was, !.why = "none", !.was = "none"]
        x == [exec |-> "exit", run |-> r, at |-> xruns[r].cp, chain |-> TRUE, gates |-> FALSE,
              outside |-> FALSE]
    IN  advancePaper(previous, xruns[r].cp, x).s

\* paper-recover: a simulated exit that was saved but rejected because its
\* source had moved is accepted once the source is covered and canonical again.
recoverSessionExit == \E r \in 1..Len(xruns) :
    LET n == Len(sessions)
        s == sessions[n]
        recovered == reconcileRecordedExit(s, r)
    IN
    /\ ticker.pc = "idle"
    /\ s.status = "invalid" /\ s.why = "source" /\ s.was = "exit_pending"
    /\ ~s.touched /\ ~s.held
    /\ xruns[r].kind = "exit" /\ xruns[r].err = "source" /\ xruns[r].timely
    /\ prepareExitRecovery(n, r)
    /\ recovered.status = "closed" /\ closedPaperCash(recovered) > 0
    /\ xruns' = [xruns EXCEPT ![r].err = "none"]
    /\ sessions' = [sessions EXCEPT ![n] = [recovered EXCEPT !.stopped = TRUE, !.seen = @ \cup {xruns[r].cp}]]
    /\ UNCHANGED <<tape, ticker>>

SessionNext ==
    \/ Collect \/ Cover \/ Disown \/ Revalidate
    \/ maybeReenter \/ sessionTick \/ settle \/ tickFails
    \/ stop \/ startSession \/ release \/ upgradePaperRuntime \/ recoverSessionExit

SessionSpec == SessionInit /\ [][SessionNext]_sessionVars

-----------------------------------------------------------------------------
\* A stop outlives whatever simulation was running when it was recorded: it is
\* never overwritten, and the session never holds on or waits again.
StopOutlivesPreflight ==
    [][\A i \in 1..Len(sessions) : sessions[i].stopped =>
          /\ sessions'[i].stopped
          /\ sessions'[i].status \in Terminal \cup {"exit_pending"}]_sessionVars

\* A closed session's cash funds at most one successor, by automatic reentry,
\* explicit continuation or after a recovered exit.
CashCarriedOnce ==
    \A i, j \in 1..Len(sessions) :
        i # j /\ sessions[i].parent = sessions[j].parent => sessions[i].parent = 0

\* The fees of a position cover its whole life once, also across deferred
\* sources, pauses that skip checkpoints and recovered exits.
FeesCoverHolding ==
    \A i \in 1..Len(sessions) : sessions[i].pos /\ sessions[i].status # "invalid" =>
        sessions[i].earned = sessions[i].last - sessions[i].entered

\* A simulation is recorded once per session, checkpoint and kind, so the
\* insert never meets the table's unique key (paper/schema.ts).
RunKeyFree ==
    \A p, q \in 1..Len(xruns) :
        p < q => \/ xruns[p].id # xruns[q].id \/ xruns[p].cp # xruns[q].cp
                 \/ xruns[p].kind # xruns[q].kind

\* Runs a position rests on keep matching the build that recorded them across
\* an upgrade: a running session is not revoked by its own upgrade.
ProofsKeepTheirBuild ==
    \A i \in 1..Len(sessions) : \A r \in Proofs(sessions[i]) :
        xruns[r].build = executionRuntime(sessions[i], r)

\* A session's cash funds one successor, its fee evidence covers what it
\* held, a deferred source can be run again, and proofs stay with the build
\* that made them.
SessionSound ==
    /\ CashCarriedOnce
    /\ FeesCoverHolding
    /\ RunKeyFree
    /\ ProofsKeepTheirBuild
=============================================================================

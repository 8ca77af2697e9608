--------------------------- MODULE PaperOperations ---------------------------
(***************************************************************************)
(* One paper campaign of the deployment control plane: the command server  *)
(* that previews and accepts operations (src/deployments.ts), the paper    *)
(* worker processes that claim and book them and maintain the marks, fee   *)
(* evidence and accounting of the campaign (src/deployments-paper-         *)
(* worker.ts), and the store whose transactions they share                 *)
(* (src/deployments/store.ts).  One action is one transaction, or one      *)
(* read that a later transaction relies on.                                *)
(*                                                                         *)
(* The campaign's strategy is a parameter: "static" (static_manual_v1,     *)
(* operated by hand) or "rangekeeper" (rangekeeper_v1, recentred by the    *)
(* worker).  Token amounts are left out; a model, its source and the mark  *)
(* it was built on are a preview's [prev, block, fork].                    *)
(***************************************************************************)
EXTENDS Integers, Sequences, FiniteSets

CONSTANTS Strategy,     \* "static" or "rangekeeper"
          Workers,      \* paper worker processes
          Keys,         \* idempotency keys of the operator's requests
          Kinds,        \* the kinds of operation the operator previews
          NoOne,        \* no owner
          Faults,       \* which faults may strike: see Strike
          MaxFaults,    \* bound: faults of one behaviour
          MaxBlock,     \* bound: length of the chain
          MaxReorgs,    \* bound: reorganisations of one behaviour
          MaxPreviews,  \* bound: previews of one behaviour
          MaxAttempts   \* MAX_ATTEMPTS of the worker

ASSUME PaperAssumption ==
  /\ Strategy \in {"static", "rangekeeper"}
  /\ IsFiniteSet(Workers) /\ NoOne \notin Workers
  /\ "server" \notin Workers /\ NoOne # "server"
  /\ {MaxFaults, MaxReorgs, MaxPreviews, MaxAttempts} \subseteq Nat
  /\ MaxBlock \in Nat \ {0}
  /\ Kinds \subseteq {"open", "pause", "resume", "close_retain", "close_convert"}

VARIABLES
  chain,      \* the canonical chain: fork of each block
  reorgs,     \* reorganisations so far
  lifecycle,  \* deployment_campaigns.lifecycle
  marks,      \* deployment_marks, oldest first
  ledger,     \* entry keys of deployment_ledger: <<kind, operation>>
  fee,        \* deployment_paper_fee_evidence: <<from mark, to mark>>
  acct,       \* deployment_paper_accounting: <<policy, mark>>
  invalid,    \* deployment_paper_accounting_invalidations
  previews,   \* deployment_previews
  ops,        \* deployment_operations
  exclusive,  \* holder of the exclusive preparation lease
  shared,     \* holders of the shared preparation lease
  srv,        \* the command server's request in progress
  worker,     \* the worker processes
  pass,       \* holder of the maintenance pass lock
  faults      \* faults so far

chainVars == <<chain, reorgs>>
bookVars  == <<lifecycle, marks, ledger, fee, acct, invalid>>
opVars    == <<previews, ops>>
leaseVars == <<exclusive, shared>>
vars == <<chain, reorgs, lifecycle, marks, ledger, fee, acct, invalid, previews,
          ops, exclusive, shared, srv, worker, pass, faults>>

Static == Strategy = "static"
Forks  == 0 .. MaxReorgs
Closes == {"close_retain", "close_convert"}
Policies == IF Static THEN {"v1", "v2"} ELSE {"rk"}

IdleSrv == [pc |-> "idle", kind |-> "open", prev |-> 0, block |-> 0, fork |-> 0,
            preview |-> 0, key |-> NoOne]
IdleWorker == [pc |-> "idle", op |-> 0, lost |-> FALSE, from |-> 0, to |-> 0,
               prev |-> 0, block |-> 0, fork |-> 0, sample |-> FALSE, work |-> FALSE]

OpPcs   == {"claimed", "checked", "ready"}
PassPcs == {"audit", "fee", "feed", "account", "observe", "sampled", "recenter", "frozen"}

Init ==
  /\ chain = <<0>> /\ reorgs = 0
  /\ lifecycle = "draft"
  /\ marks = <<>> /\ ledger = {} /\ fee = {} /\ acct = {} /\ invalid = {}
  /\ previews = <<>> /\ ops = <<>>
  /\ exclusive = NoOne /\ shared = {}
  /\ srv = IdleSrv
  /\ worker = [w \in Workers |-> IdleWorker]
  /\ pass = NoOne /\ faults = 0

-----------------------------------------------------------------------------
(* The chain *)

Canonical(b, f) == b \in 1 .. Len(chain) /\ chain[b] = f
MarkCanonical(m) == Canonical(marks[m].block, marks[m].fork)
Latest == Len(marks)

\* readCanonicalPaperNextFrame: a head later than the mark the sample builds on,
\* whose own source is still canonical.
NextFrame == Latest > 0 => MarkCanonical(Latest) /\ Len(chain) > marks[Latest].block

\* verifyCanonicalPaperAnchors of a saved model: the open mark, the mark it was
\* built on and its own source.
Anchored(v) == /\ Canonical(v.block, v.fork)
               /\ v.prev > 0 => MarkCanonical(1) /\ MarkCanonical(v.prev)

Grow ==
  /\ Len(chain) < MaxBlock
  /\ chain' = Append(chain, chain[Len(chain)])
  /\ UNCHANGED <<reorgs, bookVars, opVars, leaseVars, srv, worker, pass, faults>>

\* Every block from b on is replaced by a block of a branch not seen before.
Reorg(b) ==
  /\ reorgs < MaxReorgs
  /\ chain' = [i \in 1 .. Len(chain) |-> IF i < b THEN chain[i] ELSE reorgs + 1]
  /\ reorgs' = reorgs + 1
  /\ UNCHANGED <<bookVars, opVars, leaseVars, srv, worker, pass, faults>>

-----------------------------------------------------------------------------
(* The command server *)

\* Every status but "succeeded" counts, "blocked" included.
Pending(i) == ops[i].status # "succeeded"
SomePending == \E i \in 1 .. Len(ops) : Pending(i)

\* Mutant: a maintenance transaction that does not look for a preparation.
MutationUnchecked == TRUE

\* pg_try_advisory_lock and its shared form on the campaign's preparation name.
MutationAllowed == exclusive = NoOne
ExclusiveFree   == exclusive = NoOne /\ shared = {}

\* deleteStaticPaperDraft
DeleteDraft ==
  /\ Static /\ lifecycle = "draft" /\ ops = <<>> /\ marks = <<>>
  /\ lifecycle' = "closed"
  /\ UNCHANGED <<chainVars, marks, ledger, fee, acct, invalid, opVars, leaseVars,
                 srv, worker, pass, faults>>

SavePreview(k, prev, b, f) ==
  /\ Len(previews) < MaxPreviews
  /\ previews' = Append(previews,
       [kind |-> k, prev |-> prev, block |-> b, fork |-> f, live |-> TRUE])

\* The previews taken without a lease: an open of a draft, a pause or resume of
\* the matching lifecycle, and the retained close of a static campaign.
Preview(k) ==
  /\ srv.pc = "idle" /\ k \in Kinds
  /\ CASE k = "open" -> /\ lifecycle = "draft"
                        /\ SavePreview(k, 0, Len(chain), chain[Len(chain)])
       [] k \in {"pause", "resume"} ->
            /\ Static /\ ~SomePending
            /\ lifecycle = IF k = "pause" THEN "active" ELSE "paused"
            /\ SavePreview(k, 0, 0, 0)
       [] k = "close_retain" ->
            /\ Static /\ lifecycle \in {"active", "paused"} /\ NextFrame
            /\ SavePreview(k, Latest, Len(chain), chain[Len(chain)])
       [] OTHER -> FALSE
  /\ UNCHANGED <<chainVars, bookVars, ops, leaseVars, srv, worker, pass, faults>>

\* Under the exclusive lease: the mark the close will build on, and a frame.
\* A static conversion needs the fee carry of that mark; a RangeKeeper exit an
\* observation after the open.
StartPreparation(k) ==
  /\ srv.pc = "idle" /\ k \in Kinds \cap Closes
  /\ Static => k = "close_convert" /\ \E q \in fee : q[2] = Latest
  /\ ~Static => Latest > 1 /\ ~SomePending
  /\ lifecycle \in {"active", "paused"}
  /\ ExclusiveFree /\ NextFrame
  /\ exclusive' = "server"
  /\ srv' = [IdleSrv EXCEPT !.pc = "preparing", !.kind = k, !.prev = Latest,
                            !.block = Len(chain), !.fork = chain[Len(chain)]]
  /\ UNCHANGED <<chainVars, bookVars, opVars, shared, worker, pass, faults>>

\* The preview is saved only while the lease is healthy, and keeps it until the
\* preview expires.
FinishPreparation ==
  /\ srv.pc = "preparing" /\ exclusive = "server" /\ Anchored(srv)
  /\ SavePreview(srv.kind, srv.prev, srv.block, srv.fork)
  /\ srv' = IdleSrv
  /\ UNCHANGED <<chainVars, bookVars, ops, leaseVars, worker, pass, faults>>

AbortPreparation ==
  /\ srv.pc = "preparing"
  /\ srv' = IdleSrv
  /\ exclusive' = IF exclusive = "server" THEN NoOne ELSE exclusive
  /\ UNCHANGED <<chainVars, bookVars, opVars, shared, worker, pass, faults>>

\* The preview's deadline passes; the timer of its lease has the same deadline.
ExpirePreview(p) ==
  /\ previews[p].live
  /\ previews' = [previews EXCEPT ![p].live = FALSE]
  /\ exclusive' = IF exclusive = "server" /\ srv.pc = "idle" THEN NoOne ELSE exclusive
  /\ UNCHANGED <<chainVars, bookVars, ops, shared, srv, worker, pass, faults>>

\* Mutant: acceptance without the check for a pending operation.
AcceptablePending(p, k) ==
  /\ previews[p].live
  /\ \A i \in 1 .. Len(ops) : ops[i].key # k /\ ops[i].preview # p

\* What every acceptance checks under the campaign's row lock.  A key already
\* used replays or conflicts and changes nothing; a preview is accepted once.
\* The route also needs a worker that holds the readiness lease.
Acceptable(p, k) ==
  /\ previews[p].live
  /\ \A i \in 1 .. Len(ops) : ops[i].key # k /\ ops[i].preview # p
  /\ ~SomePending

WorkerReady == \E w \in Workers : worker[w].pc # "down"

Queued(kind, p, k) ==
  Append(ops, [kind |-> kind, preview |-> p, key |-> k, status |-> "queued",
               by |-> NoOne, valid |-> FALSE, attempts |-> 0])

\* acceptOperation: open, pause and resume.
AcceptOpenOrLifecycle(p, k) ==
  /\ srv.pc = "idle" /\ WorkerReady /\ Acceptable(p, k)
  /\ LET v == previews[p] IN
     /\ v.kind \in {"open", "pause", "resume"}
     /\ lifecycle = CASE v.kind = "open" -> "draft" [] v.kind = "pause" -> "active"
                      [] OTHER -> "paused"
     /\ v.kind = "open" => marks = <<>> /\ Anchored(v)
     /\ ops' = Queued(v.kind, p, k)
     /\ lifecycle' = IF v.kind = "open" THEN "opening" ELSE lifecycle
  /\ UNCHANGED <<chainVars, marks, ledger, fee, acct, invalid, previews, leaseVars,
                 srv, worker, pass, faults>>

\* acceptOperation of a static retained close: the saved model must still follow
\* the latest mark.
RetainFits(v) == v.prev = Latest /\ Anchored(v)

\* The same method reached by createRangeKeeperPaperExitAcceptance, without the
\* static admission: only the source of the model is checked.
RangeKeeperRetainFits(v) == Canonical(v.block, v.fork)

\* Mutant: the conversion is accepted on any earlier mark.
ConvertOnAnyMark(v) == Canonical(v.block, v.fork) /\ MarkCanonical(v.prev)

\* acceptRangeKeeperPaperConvertOperation
RangeKeeperConvertFits(v) ==
  v.prev = Latest /\ Canonical(v.block, v.fork) /\ MarkCanonical(v.prev)

AcceptClose(p, k) ==
  /\ srv.pc = "idle" /\ WorkerReady /\ Acceptable(p, k)
  /\ lifecycle \in {"active", "paused"}
  /\ LET v == previews[p] IN
     /\ \/ Static /\ v.kind = "close_retain" /\ RetainFits(v)
        \/ ~Static /\ v.kind = "close_retain" /\ RangeKeeperRetainFits(v)
        \/ ~Static /\ v.kind = "close_convert" /\ RangeKeeperConvertFits(v)
     /\ ops' = Queued(v.kind, p, k)
  /\ lifecycle' = "closing"
  /\ exclusive' = IF ~Static /\ exclusive = "server" THEN NoOne ELSE exclusive
  /\ UNCHANGED <<chainVars, marks, ledger, fee, acct, invalid, previews, shared,
                 srv, worker, pass, faults>>

\* createStaticPaperCloseConvertAcceptance: the lease is checked around a long
\* verification, before the transaction.
BeginAcceptConvert(p, k) ==
  /\ Static /\ srv.pc = "idle" /\ WorkerReady
  /\ previews[p].live /\ previews[p].kind = "close_convert"
  /\ \A i \in 1 .. Len(ops) : ops[i].key # k
  /\ exclusive = "server" /\ Anchored(previews[p])
  /\ srv' = [IdleSrv EXCEPT !.pc = "accepting", !.preview = p, !.key = k]
  /\ UNCHANGED <<chainVars, bookVars, opVars, leaseVars, worker, pass, faults>>

\* Mutants: without the latest mark, without its V2 snapshot.
ConvertStale(v) == /\ Anchored(v) /\ <<"v2", v.prev>> \in acct
                   /\ \E q \in fee : q[2] = v.prev
ConvertUnaccounted(v) == v.prev = Latest /\ Anchored(v) /\ \E q \in fee : q[2] = v.prev

\* acceptStaticPaperCloseConvertV3Operation: the latest mark, its fee evidence
\* and its V2 accounting are those the model was built on.
ConvertFits(v) ==
  /\ v.prev = Latest /\ Anchored(v)
  /\ \E q \in fee : q[2] = v.prev
  /\ <<"v2", v.prev>> \in acct

CommitAcceptConvert ==
  /\ srv.pc = "accepting"
  /\ LET v == previews[srv.preview]
         ok == /\ Acceptable(srv.preview, srv.key)
               /\ lifecycle \in {"active", "paused"}
               /\ ConvertFits(v)
     IN /\ ops' = IF ok THEN Queued("close_convert", srv.preview, srv.key) ELSE ops
        /\ lifecycle' = IF ok THEN "closing" ELSE lifecycle
  /\ exclusive' = IF exclusive = "server" THEN NoOne ELSE exclusive
  /\ srv' = IdleSrv
  /\ UNCHANGED <<chainVars, marks, ledger, fee, acct, invalid, previews, shared,
                 worker, pass, faults>>

-----------------------------------------------------------------------------
(* The operation worker: processOnePaperOperation *)

Owns(w) == LET o == ops[worker[w].op] IN o.by = w /\ o.valid
Settle(w) == worker' = [worker EXCEPT ![w] = IdleWorker]
\* Mutants: a claim released without its deadline; a status left behind.
HalfUnclaimed(o, s) == [o EXCEPT !.status = s, !.by = NoOne]
UnclaimedOnly(o, s) == [o EXCEPT !.by = NoOne, !.valid = FALSE]
Unclaimed(o, s) == [o EXCEPT !.status = s, !.by = NoOne, !.valid = FALSE]

\* One more attempt; an operation an earlier owner left keeps its status.
Claimed(o, w) ==
  [o EXCEPT !.by = w, !.valid = TRUE, !.attempts = @ + 1,
            !.status = IF @ = "queued" THEN "preflighting" ELSE @]

\* Mutant: only a fresh operation is claimed.
ClaimQueued(w, i) ==
  /\ worker[w].pc = "idle" /\ ops[i].status = "queued"
  /\ ops' = [ops EXCEPT ![i] = Claimed(@, w)]
  /\ worker' = [worker EXCEPT ![w] = [IdleWorker EXCEPT !.pc = "claimed", !.op = i]]
  /\ UNCHANGED <<chainVars, bookVars, previews, leaseVars, srv, pass, faults>>

Claim(w, i) ==
  /\ worker[w].pc = "idle"
  /\ ops[i].status \in {"queued", "preflighting", "executing", "reconciling"}
  /\ ~ops[i].valid
  /\ ops' = [ops EXCEPT ![i] = Claimed(@, w)]
  /\ worker' = [worker EXCEPT ![w] = [IdleWorker EXCEPT !.pc = "claimed", !.op = i]]
  /\ UNCHANGED <<chainVars, bookVars, previews, leaseVars, srv, pass, faults>>

\* block(): recorded only by the owner of a live claim; anyone else walks away.
Block(w) ==
  /\ ops' = IF ~worker[w].lost /\ Owns(w)
            THEN [ops EXCEPT ![worker[w].op] = Unclaimed(@, "blocked")] ELSE ops
  /\ Settle(w)
  /\ UNCHANGED <<chainVars, bookVars, previews, leaseVars, srv, pass, faults>>

Drop(w) ==
  /\ Settle(w)
  /\ UNCHANGED <<chainVars, bookVars, opVars, leaseVars, srv, pass, faults>>

\* The attempt bound, the claim's context, and the anchor of the saved model
\* (a recentre is anchored by its completion alone).
Preflight(w) ==
  /\ worker[w].pc = "claimed"
  /\ LET o == ops[worker[w].op]
         v == previews[o.preview]
         anchored == o.kind \in {"pause", "resume", "change_range"} \/ Canonical(v.block, v.fork)
     IN CASE o.attempts > MaxAttempts -> Block(w)
          [] o.attempts <= MaxAttempts /\ ~Owns(w) -> Drop(w)
          [] o.attempts <= MaxAttempts /\ Owns(w) /\ ~anchored -> Block(w)
          [] OTHER ->
               /\ worker' = [worker EXCEPT ![w].pc = "checked"]
               /\ UNCHANGED <<chainVars, bookVars, opVars, leaseVars, srv, pass, faults>>

\* advanceClaim, one persisted status at a time; an operation that an earlier
\* owner left reconciling is taken up there.
Advance(w) ==
  /\ worker[w].pc = "checked"
  /\ LET i == worker[w].op
         s == ops[i].status
         moves == s \in {"preflighting", "executing"}
     IN IF worker[w].lost THEN Drop(w)
        ELSE IF moves /\ ~Owns(w) THEN Block(w)
        ELSE /\ ops' = IF moves THEN [ops EXCEPT ![i].status =
                          IF s = "preflighting" THEN "executing" ELSE "reconciling"] ELSE ops
             /\ worker' = [worker EXCEPT ![w].pc =
                             IF s = "preflighting" THEN "checked" ELSE "ready"]
             /\ UNCHANGED <<chainVars, bookVars, previews, leaseVars, srv, pass, faults>>

\* Mutant: a completion that does not check its claim.
Unfenced(w) == TRUE

\* Every completion transaction: the claim is this worker's and has not lapsed.
Fenced(w) == Owns(w) /\ ops[worker[w].op].status = "reconciling"

\* What the completion of each kind demands of the campaign under its row lock.
\* The saved source of a RangeKeeper open is that of its second, confirming
\* observation.
OpenCompletes(v)            == lifecycle = "opening" /\ marks = <<>> /\ Anchored(v)
RangeKeeperOpenCompletes(v) == lifecycle = "opening" /\ marks = <<>> /\ Anchored(v)
LifecycleCompletes(k)       == lifecycle = IF k = "pause" THEN "active" ELSE "paused"
RetainCompletes(v)          == lifecycle = "closing" /\ v.prev = Latest /\ Anchored(v)
ConvertCompletes(v)         == lifecycle = "closing" /\ ConvertFits(v) /\ invalid = {}
RecenterCompletes(v)        == lifecycle = "active" /\ v.prev = Latest /\ Anchored(v)
RangeKeeperConvertCompletes(v) ==
  lifecycle = "closing" /\ v.prev = Latest /\ Anchored(v)
RangeKeeperExitCompletes(v) ==
  /\ lifecycle = "closing" /\ v.prev = Latest /\ v.prev > 1 /\ Anchored(v)
  /\ v.block > marks[v.prev].block

CompletionFits(o, v) ==
  CASE o.kind = "open" -> IF Static THEN OpenCompletes(v) ELSE RangeKeeperOpenCompletes(v)
    [] o.kind \in {"pause", "resume"} -> LifecycleCompletes(o.kind)
    [] o.kind = "change_range" -> RecenterCompletes(v)
    [] o.kind = "close_retain" -> IF Static THEN RetainCompletes(v)
                                            ELSE RangeKeeperExitCompletes(v)
    [] o.kind = "close_convert" -> IF Static THEN ConvertCompletes(v)
                                             ELSE RangeKeeperConvertCompletes(v)

\* The completion transaction: the mark, the ledger, for a static conversion the
\* fee evidence and V3 accounting too, the lifecycle and the operation together.
Book(w) ==
  LET i == worker[w].op
      o == ops[i]
      v == previews[o.preview]
      moves == o.kind \in {"pause", "resume"}
      n == Latest + 1
      terminal == Static /\ o.kind = "close_convert"
  IN /\ lifecycle' = CASE o.kind \in {"open", "resume"} -> "active"
                       [] o.kind = "pause" -> "paused"
                       [] o.kind = "change_range" -> lifecycle
                       [] OTHER -> "closed"
     /\ marks' = IF moves THEN marks ELSE Append(marks,
                   [kind |-> o.kind, block |-> v.block, fork |-> v.fork, op |-> i])
     /\ ledger' = IF moves THEN ledger ELSE ledger \cup {<<o.kind, i>>}
     /\ fee' = IF terminal THEN fee \cup {<<v.prev, n>>} ELSE fee
     /\ acct' = IF terminal THEN acct \cup {<<"v3", n>>} ELSE acct
     /\ ops' = [ops EXCEPT ![i] = Unclaimed(@, "succeeded")]
     /\ Settle(w)
     /\ UNCHANGED <<chainVars, invalid, previews, leaseVars, srv, pass, faults>>

Complete(w) ==
  /\ worker[w].pc = "ready"
  /\ LET o == ops[worker[w].op] IN
     CASE worker[w].lost -> Drop(w)
       [] ~worker[w].lost /\ Fenced(w) /\ CompletionFits(o, previews[o.preview]) -> Book(w)
       [] OTHER -> Block(w)

\* The renewal timer: a renewal of a claim that lapsed fails, and the worker
\* then knows the claim is lost.
LoseRenewal(w) ==
  /\ worker[w].pc \in OpPcs /\ ~worker[w].lost /\ ~Owns(w)
  /\ worker' = [worker EXCEPT ![w].lost = TRUE]
  /\ UNCHANGED <<chainVars, bookVars, opVars, leaseVars, srv, pass, faults>>

\* claim_until passes when nobody renews it any more.
Working(i) == \E w \in Workers : worker[w].pc \in OpPcs /\ worker[w].op = i /\ ops[i].by = w
ClaimLapses(i) ==
  /\ ops[i].valid /\ ~Working(i)
  /\ ops' = [ops EXCEPT ![i].valid = FALSE]
  /\ UNCHANGED <<chainVars, bookVars, previews, leaseVars, srv, worker, pass, faults>>

-----------------------------------------------------------------------------
(* The maintenance pass: runPaperMaintenancePass for this campaign *)

At(w, pc) == worker[w].pc = pc /\ pass = w

EndPass(w) ==
  /\ Settle(w)
  /\ pass' = NoOne
  /\ shared' = shared \ {w}
  /\ exclusive' = IF exclusive = w THEN NoOne ELSE exclusive
  /\ UNCHANGED <<chainVars, bookVars, opVars, srv, faults>>

Goto(w, pc) == worker' = [worker EXCEPT ![w].pc = pc]

\* The pass lock admits one pass at a time.  A closing RangeKeeper campaign is
\* not selected; only an active or paused one is sampled.
StartPass(w) ==
  /\ worker[w].pc = "idle" /\ pass = NoOne /\ marks # <<>>
  /\ lifecycle \in {"active", "paused", "closed"} \cup IF Static THEN {"closing"} ELSE {}
  /\ pass' = w
  /\ worker' = [worker EXCEPT ![w] = [IdleWorker EXCEPT !.pc = "audit",
                  !.sample = lifecycle \in {"active", "paused"}]]
  /\ UNCHANGED <<chainVars, bookVars, opVars, leaseVars, srv, faults>>

\* auditPaperAccounting, one policy after the other: the first snapshot whose
\* source is no longer canonical invalidates the snapshots from its mark on, of
\* every policy.
Audited == IF Static THEN <<"v1", "v2", "v3">> ELSE <<"rk">>
Mismatched(p) == {m \in 1 .. Latest : <<p, m>> \in acct /\ ~MarkCanonical(m)}
Replaced == {n \in 1 .. Len(Audited) : Mismatched(Audited[n]) # {}}
\* Mutant: only the snapshots of the audited policy.
InvalidatedPolicy(p, m) == {a \in acct : a[1] = p /\ m <= a[2]}
InvalidatedFrom(p, m) == {a \in acct : m <= a[2]}
Invalidated ==
  LET p == Audited[CHOOSE n \in Replaced : \A k \in Replaced : n <= k]
  IN InvalidatedFrom(p, CHOOSE m \in Mismatched(p) : \A k \in Mismatched(p) : m <= k)

\* One invalidation ends the campaign's maintenance for good.  A static pass
\* then takes the shared lease for all it still does.
Audit(w) ==
  /\ At(w, "audit")
  /\ \/ /\ invalid # {} /\ EndPass(w)
     \/ /\ invalid = {} /\ Replaced # {}
        /\ invalid' = Invalidated
        /\ Settle(w) /\ pass' = NoOne
        /\ UNCHANGED <<chainVars, lifecycle, marks, ledger, fee, acct, opVars,
                       leaseVars, srv, faults>>
     \/ /\ invalid = {} /\ Replaced = {} /\ Static
        /\ \/ (exclusive # NoOne \/ \E a \in acct : a[1] = "v3") /\ EndPass(w)
           \/ /\ exclusive = NoOne /\ ~\E a \in acct : a[1] = "v3"
              /\ shared' = shared \cup {w}
              /\ Goto(w, "account")
              /\ UNCHANGED <<chainVars, bookVars, opVars, exclusive, srv, pass, faults>>
     \/ /\ invalid = {} /\ Replaced = {} /\ ~Static
        /\ Goto(w, "fee")
        /\ UNCHANGED <<chainVars, bookVars, opVars, leaseVars, srv, pass, faults>>

\* Mutant: every interval starts at the open mark.
FirstMark == 1

\* The next interval to sample: from the last evidence to the next mark, for
\* RangeKeeper to the next boundary or else the latest mark.
LastFee == IF fee = {} THEN 1 ELSE CHOOSE m \in 1 .. Latest :
             (\E q \in fee : q[2] = m) /\ \A q \in fee : q[2] <= m
Boundaries == {m \in LastFee + 1 .. Latest : marks[m].kind \in Closes \cup {"change_range"}}
FeeTo == IF Static THEN LastFee + 1
         ELSE IF Boundaries = {} THEN Latest
         ELSE CHOOSE m \in Boundaries : \A k \in Boundaries : m <= k

\* paperFeeSamplingState and rangeKeeperPaperFeeSamplingState, and the proof read
\* between two canonical marks.
ReadFee(w) ==
  /\ At(w, "fee")
  /\ CASE LastFee >= Latest ->
            /\ Goto(w, "account")
            /\ UNCHANGED <<chainVars, bookVars, opVars, leaseVars, srv, pass, faults>>
       [] LastFee < Latest /\ MarkCanonical(LastFee) /\ MarkCanonical(FeeTo) ->
            /\ worker' = [worker EXCEPT ![w].pc = "feed", ![w].from = LastFee, ![w].to = FeeTo]
            /\ UNCHANGED <<chainVars, bookVars, opVars, leaseVars, srv, pass, faults>>
       [] OTHER -> EndPass(w)

\* recordTrustedPaperFeeEvidence: from one mark to the next, no second interval
\* for a mark, and the carry continues.
FeeContinues(f, t) == /\ \A q \in fee : q[2] # t
                      /\ marks[f].kind \in {"open", "change_range"} \/ \E q \in fee : q[2] = f
StaticFeeFits(f, t) == t = f + 1 /\ FeeContinues(f, t)

\* recordTrustedRangeKeeperPaperFeeEvidence: what the interval skips are
\* observations of one epoch.
RangeKeeperFeeFits(f, t) == /\ FeeContinues(f, t)
                            /\ \A m \in f + 1 .. t - 1 : marks[m].kind = "mark"

FeeFits(f, t) == IF Static THEN StaticFeeFits(f, t) ELSE RangeKeeperFeeFits(f, t)

RecordFee(w) ==
  /\ At(w, "feed")
  /\ IF MutationAllowed /\ FeeFits(worker[w].from, worker[w].to)
     THEN /\ fee' = fee \cup {<<worker[w].from, worker[w].to>>}
          /\ worker' = [worker EXCEPT ![w].pc = "account", ![w].work = TRUE]
          /\ UNCHANGED <<chainVars, lifecycle, marks, ledger, acct, invalid, opVars,
                         leaseVars, srv, pass, faults>>
     ELSE EndPass(w)

\* The oldest mark the policy has not accounted.  RangeKeeper passes over the
\* observations that are neither the latest mark nor the end of a fee interval.
Accountable(p) == {m \in 1 .. Latest :
  /\ <<p, m>> \notin acct
  /\ Static \/ m = Latest \/ marks[m].kind # "mark" \/ \E q \in fee : q[2] = m}
NextAccounting(p) == CHOOSE m \in Accountable(p) : \A k \in Accountable(p) : m <= k
Behind == {p \in Policies : Accountable(p) # {}}

\* V1 comes first; it has no conversion mark and leaves that to V2.
Policy == IF "v1" \in Behind /\ marks[NextAccounting("v1")].kind # "close_convert"
          THEN "v1" ELSE CHOOSE p \in Behind : p # "v1"
CaughtUp == IF Static /\ Latest > 0 /\ marks[Latest].kind = "close_convert"
            THEN Behind \cap {"v2"} = {} ELSE Behind = {}

\* The snapshot before: the previous mark, for RangeKeeper the last one accounted.
PriorAccounting(p, m) ==
  IF Static THEN {k \in {m - 1} : <<p, k>> \in acct}
  ELSE {k \in 1 .. m - 1 : <<p, k>> \in acct /\ \A j \in k + 1 .. m - 1 : <<p, j>> \notin acct}

\* What every snapshot needs: a campaign without invalidations, no preparation,
\* canonical sources, and evidence from the snapshot before.
SnapshotFits(p, m) ==
  /\ invalid = {} /\ MutationAllowed
  /\ MarkCanonical(1) /\ MarkCanonical(m)
  /\ m > 1 => \E k \in PriorAccounting(p, m) : <<k, m>> \in fee /\ MarkCanonical(k)
StaticAccountingFits(p, m) == marks[m].kind # "close_convert" /\ SnapshotFits(p, m)
RangeKeeperAccountingFits(p, m) == SnapshotFits(p, m)
AccountingFits(p, m) == IF Static THEN StaticAccountingFits(p, m)
                                  ELSE RangeKeeperAccountingFits(p, m)

Account(w) ==
  /\ At(w, "account")
  /\ IF CaughtUp \/ (~Static /\ Latest > 1 /\ NextAccounting("rk") > 1
                      /\ ~\E q \in fee : q[2] = NextAccounting("rk"))
     THEN IF worker[w].sample /\ ~worker[w].work /\ CaughtUp
          THEN /\ Goto(w, "observe")
               /\ UNCHANGED <<chainVars, bookVars, opVars, leaseVars, srv, pass, faults>>
          ELSE EndPass(w)
     ELSE LET m == NextAccounting(Policy) IN
          CASE AccountingFits(Policy, m) ->
                 /\ acct' = acct \cup {<<Policy, m>>}
                 /\ worker' = [worker EXCEPT ![w].work = TRUE]
                 /\ UNCHANGED <<chainVars, lifecycle, marks, ledger, fee, invalid, opVars,
                                leaseVars, srv, pass, faults>>
            [] Static /\ m > 1 /\ ~AccountingFits(Policy, m) /\ <<m - 1, m>> \notin fee ->
                 /\ Goto(w, "fee")
                 /\ UNCHANGED <<chainVars, bookVars, opVars, leaseVars, srv, pass, faults>>
            [] OTHER -> EndPass(w)

\* The sample: a static pass holds the shared lease already, a RangeKeeper pass
\* takes it here and refuses a campaign with a pending operation.
Observe(w) ==
  /\ At(w, "observe")
  /\ IF NextFrame /\ (~Static => exclusive = NoOne /\ ~SomePending
                                  /\ lifecycle \in {"active", "paused"})
     THEN /\ shared' = shared \cup {w}
          /\ worker' = [worker EXCEPT ![w].pc = "sampled", ![w].prev = Latest,
                          ![w].block = Len(chain), ![w].fork = chain[Len(chain)]]
          /\ UNCHANGED <<chainVars, bookVars, opVars, exclusive, srv, pass, faults>>
     ELSE EndPass(w)

\* Mutant: the sample is trusted as it was taken.
ObservationTrusted(w) == MutationAllowed

\* recordTrustedPaperPrincipalValuation: the sample still follows the latest
\* mark, an open or a valuation, and no valuation has its block.
ValuationFits(r) ==
  /\ MutationAllowed /\ lifecycle \in {"active", "paused"}
  /\ r.prev = Latest /\ marks[Latest].kind \in {"open", "mark"}
  /\ \A m \in 1 .. Latest : r.block = marks[m].block => m < Latest /\ marks[m].kind # "mark"

\* recordRangeKeeperPaperMark: nothing pending, a later and canonical source.
RangeKeeperMarkFits(r) ==
  /\ MutationAllowed /\ lifecycle \in {"active", "paused"} /\ ~SomePending
  /\ r.block > marks[Latest].block
  /\ Canonical(r.block, r.fork) /\ MarkCanonical(1) /\ MarkCanonical(Latest)

ObservationFits(w) == IF Static THEN ValuationFits(worker[w]) ELSE RangeKeeperMarkFits(worker[w])

RecordObservation(w) ==
  /\ At(w, "sampled")
  /\ IF ObservationFits(w)
     THEN /\ marks' = Append(marks, [kind |-> "mark", block |-> worker[w].block,
                                     fork |-> worker[w].fork, op |-> 0])
          /\ worker' = [worker EXCEPT ![w] = [IdleWorker EXCEPT
                          !.pc = IF Static THEN "account" ELSE "audit"]]
          /\ shared' = IF Static THEN shared ELSE shared \ {w}
          /\ UNCHANGED <<chainVars, lifecycle, ledger, fee, acct, invalid, opVars,
                         exclusive, srv, pass, faults>>
     ELSE EndPass(w)

\* prepareRangeKeeperPaperRecenterPreview decides to recentre: it swaps the
\* shared lease for the exclusive one, if that is free.
StartRecenter(w) ==
  /\ At(w, "sampled") /\ ~Static
  /\ lifecycle = "active" /\ marks[worker[w].prev].kind # "open"
  /\ IF exclusive = NoOne /\ shared \subseteq {w}
     THEN /\ exclusive' = w /\ shared' = {}
          /\ Goto(w, "recenter")
          /\ UNCHANGED <<chainVars, bookVars, opVars, srv, pass, faults>>
     ELSE EndPass(w)

\* Under the lease the latest mark and the operations are read again and the
\* preview is saved.
FreezeRecenter(w) ==
  /\ At(w, "recenter")
  /\ LET r == worker[w] IN
     IF exclusive = w /\ r.prev = Latest /\ ~SomePending /\ Len(previews) < MaxPreviews
     THEN /\ SavePreview("change_range", r.prev, r.block, r.fork)
          /\ Goto(w, "frozen")
          /\ UNCHANGED <<chainVars, bookVars, ops, leaseVars, srv, pass, faults>>
     ELSE EndPass(w)

\* acceptRangeKeeperPaperRecenterOperation, under the key rk-auto:<preview>.
RecenterFits(v) == /\ v.prev = Latest
                   /\ Canonical(v.block, v.fork) /\ MarkCanonical(v.prev)
AcceptRecenter(w) ==
  /\ At(w, "frozen")
  /\ LET p == CHOOSE q \in 1 .. Len(previews) :
                /\ previews[q].kind = "change_range"
                /\ \A r \in q + 1 .. Len(previews) : previews[r].kind # "change_range"
     IN IF Acceptable(p, <<"rk-auto", p>>) /\ lifecycle = "active" /\ RecenterFits(previews[p])
        THEN /\ ops' = Queued("change_range", p, <<"rk-auto", p>>)
             /\ exclusive' = IF exclusive = w THEN NoOne ELSE exclusive
             /\ worker' = [worker EXCEPT ![w] = [IdleWorker EXCEPT !.pc = "audit"]]
             /\ UNCHANGED <<chainVars, bookVars, previews, shared, srv, pass, faults>>
        ELSE EndPass(w)

-----------------------------------------------------------------------------
(* Faults *)

Strike(f) == f \in Faults /\ faults < MaxFaults /\ faults' = faults + 1

\* A worker process dies: its database sessions end and with them its locks; its
\* claim stays.
Crash(w) ==
  /\ Strike("crash") /\ worker[w].pc # "down"
  /\ worker' = [worker EXCEPT ![w] = [IdleWorker EXCEPT !.pc = "down"]]
  /\ pass' = IF pass = w THEN NoOne ELSE pass
  /\ shared' = shared \ {w}
  /\ exclusive' = IF exclusive = w THEN NoOne ELSE exclusive
  /\ UNCHANGED <<chainVars, bookVars, opVars, srv>>

Restart(w) ==
  /\ worker[w].pc = "down"
  /\ Settle(w)
  /\ UNCHANGED <<chainVars, bookVars, opVars, leaseVars, srv, pass, faults>>

\* The owner stalls past its claim, and wakes up later.
Stall(i) ==
  /\ Strike("stall") /\ ops[i].valid
  /\ ops' = [ops EXCEPT ![i].valid = FALSE]
  /\ UNCHANGED <<chainVars, bookVars, previews, leaseVars, srv, worker, pass>>

\* A read fails in flight: the claim is released for a retry, but the replay of
\* a static conversion blocks; a maintenance pass gives the campaign up.
ReadFails(w) ==
  /\ Strike("read")
  /\ \/ /\ worker[w].pc \in OpPcs
        /\ LET i == worker[w].op
               s == IF worker[w].pc = "ready" /\ Static /\ ops[i].kind = "close_convert"
                    THEN "blocked" ELSE ops[i].status
           IN ops' = IF ~worker[w].lost /\ Owns(w)
                     THEN [ops EXCEPT ![i] = Unclaimed(@, s)] ELSE ops
        /\ Settle(w)
        /\ UNCHANGED <<chainVars, bookVars, previews, leaseVars, srv, pass>>
     \/ /\ worker[w].pc \in PassPcs
        /\ Settle(w) /\ pass' = NoOne /\ shared' = shared \ {w}
        /\ exclusive' = IF exclusive = w THEN NoOne ELSE exclusive
        /\ UNCHANGED <<chainVars, bookVars, opVars, srv>>

\* The session that holds an advisory lock is lost, or the command server
\* restarts: PostgreSQL drops the lock, whatever its holder believes.
LeaseLost ==
  /\ Strike("lease")
  /\ \/ exclusive # NoOne /\ exclusive' = NoOne /\ UNCHANGED <<shared, srv>>
     \/ shared # {} /\ shared' = {} /\ UNCHANGED <<exclusive, srv>>
     \/ exclusive = "server" /\ exclusive' = NoOne /\ srv' = IdleSrv /\ UNCHANGED shared
  /\ UNCHANGED <<chainVars, bookVars, opVars, worker, pass>>

-----------------------------------------------------------------------------

ServerStep ==
  \/ DeleteDraft
  \/ \E k \in Kinds : Preview(k) \/ StartPreparation(k)
  \/ FinishPreparation \/ AbortPreparation \/ CommitAcceptConvert
  \/ \E p \in 1 .. Len(previews) :
       \/ ExpirePreview(p)
       \/ \E k \in Keys : \/ AcceptOpenOrLifecycle(p, k)
                          \/ AcceptClose(p, k)
                          \/ BeginAcceptConvert(p, k)

OpStep(w) ==
  \/ \E i \in 1 .. Len(ops) : Claim(w, i)
  \/ Preflight(w) \/ Advance(w) \/ Complete(w)

PassStep(w) ==
  \/ Audit(w) \/ ReadFee(w) \/ RecordFee(w) \/ Account(w) \/ Observe(w)
  \/ RecordObservation(w) \/ FreezeRecenter(w) \/ AcceptRecenter(w)

Next ==
  \/ Grow
  \/ \E b \in 1 .. Len(chain) : Reorg(b)
  \/ ServerStep
  \/ \E w \in Workers : \/ OpStep(w) \/ LoseRenewal(w)
                        \/ StartPass(w) \/ PassStep(w) \/ StartRecenter(w)
                        \/ Crash(w) \/ Restart(w) \/ ReadFails(w)
  \/ \E i \in 1 .. Len(ops) : ClaimLapses(i) \/ Stall(i)
  \/ LeaseLost

Spec == Init /\ [][Next]_vars

\* The supervisor restarts a worker; its loop asks for a claimable operation in
\* every turn, before it starts a pass, and finishes what it began (hence strong
\* fairness of OpStep); a claim nobody renews lapses.
Fairness ==
  /\ \A w \in Workers : SF_vars(OpStep(w)) /\ WF_vars(PassStep(w)) /\ WF_vars(Restart(w))
  /\ \A i \in 1 .. MaxPreviews : WF_vars(i <= Len(ops) /\ ClaimLapses(i))
FairSpec == Spec /\ Fairness

-----------------------------------------------------------------------------
(* Properties *)

Owners == Workers \cup {NoOne, "server"}

\* Every variable ranges over the rows, locks and process states of the code; a
\* fee interval and a snapshot refer to marks that exist, an operation to a
\* preview of its own kind.
TypeOK ==
  /\ chain \in UNION {[1 .. n -> Forks] : n \in 1 .. MaxBlock} /\ reorgs \in Forks
  /\ lifecycle \in {"draft", "opening", "active", "paused", "closing", "closed"}
  /\ \A m \in 1 .. Latest :
       /\ marks[m].block \in 1 .. MaxBlock /\ marks[m].fork \in Forks
       /\ marks[m].op \in 0 .. Len(ops)
       /\ marks[m].kind = IF marks[m].op = 0 THEN "mark" ELSE ops[marks[m].op].kind
  /\ fee \subseteq (1 .. Latest) \X (1 .. Latest)
  /\ invalid \subseteq acct /\ acct \subseteq {"v1", "v2", "v3", "rk"} \X (1 .. Latest)
  /\ \A i \in 1 .. Len(ops) :
       /\ ops[i].preview \in 1 .. Len(previews)
       /\ previews[ops[i].preview].kind = ops[i].kind
       /\ ops[i].by \in Workers \cup {NoOne} /\ (ops[i].valid => ops[i].by # NoOne)
       /\ ops[i].status \in {"queued", "preflighting", "executing", "reconciling",
                             "succeeded", "blocked"}
  /\ exclusive \in Owners /\ shared \subseteq Workers /\ pass \in Workers \cup {NoOne}
  /\ \A w \in Workers : /\ worker[w].pc \in {"idle", "down"} \cup OpPcs \cup PassPcs
                        /\ worker[w].pc \in PassPcs <=> pass = w

\* An operation that moves capital leaves exactly one mark and one ledger entry,
\* written with its success; one that has not succeeded (claimed and retried,
\* blocked, or completed by a stalled owner) leaves none.
BookedOnce ==
  \A i \in 1 .. Len(ops) :
    LET n == IF ops[i].status = "succeeded" /\ ops[i].kind \notin {"pause", "resume"}
             THEN 1 ELSE 0
    IN /\ Cardinality({m \in 1 .. Latest : marks[m].op = i}) = n
       /\ Cardinality({e \in ledger : e[2] = i}) = n

\* At most one operation is pending, and the lifecycle says which: opening and
\* closing are the states of a pending open and close, and a closed campaign has
\* nothing left to run.
PendingExplains ==
  LET P == {i \in 1 .. Len(ops) : Pending(i)} IN
  /\ Cardinality(P) <= 1
  /\ (lifecycle = "opening") = \E i \in P : ops[i].kind = "open"
  /\ (lifecycle = "closing") = \E i \in P : ops[i].kind \in Closes
  /\ lifecycle \in {"draft", "closed"} => P = {}

\* The marks tell one story: an open first, a close only last and then the
\* campaign is closed, every source later than the one before, whatever a worker
\* had sampled before the lifecycle moved on.
MarkStory ==
  /\ \A m \in 1 .. Latest : /\ (m = 1) = (marks[m].kind = "open")
                            /\ marks[m].kind \in Closes => m = Latest
                            /\ m > 1 => marks[m].block > marks[m - 1].block
  /\ Latest > 0 => (lifecycle = "closed") = (marks[Latest].kind \in Closes)

\* The model of an accepted close or recentre still builds on the latest mark
\* while the operation waits for a worker: nothing is written underneath it, so
\* that its completion does not find another mark and block.
AcceptedStillFits ==
  \A i \in 1 .. Len(ops) :
    Pending(i) /\ ops[i].status # "blocked" /\ ops[i].kind \in Closes \cup {"change_range"}
      => previews[ops[i].preview].prev = Latest

\* Fee evidence is one unbroken account: intervals never overlap, none spans a
\* recentre or a close, and each starts an epoch or where another ended.  An
\* accounted mark rests on the evidence from the last accounted mark before it.
EvidenceChained ==
  /\ \A q \in fee :
       /\ q[1] < q[2]
       /\ marks[q[1]].kind \in {"open", "change_range"} \/ \E r \in fee : r[2] = q[1]
       /\ \A m \in q[1] + 1 .. q[2] - 1 : marks[m].kind = "mark"
       /\ \A r \in fee \ {q} : q[2] <= r[1] \/ r[2] <= q[1]
  /\ \A a \in acct : a[2] > 1 =>
       LET p == IF a[1] = "v3" THEN "v2" ELSE a[1]
       IN \E k \in PriorAccounting(p, a[2]) : <<k, a[2]>> \in fee

\* Once a reorganisation was found, no snapshot at or after the first invalid
\* mark counts as valid, of whatever policy and whenever it was written.
InvalidTail ==
  \A d \in invalid, a \in acct : d[2] <= a[2] => a \in invalid

\* While a close or recentre is prepared under the exclusive lease, no maintenance
\* pass writes under it, not even one that lost its own lease and does not know:
\* only a completion may.
PreparedFrozen ==
  [][exclusive # NoOne /\ exclusive' = exclusive /\ <<marks, fee, acct>>' # <<marks, fee, acct>>
       => \E i \in 1 .. Len(ops) : Pending(i) /\ ops'[i].status = "succeeded"]_vars

\* A settled operation stays as it is: an owner that stalled past its claim and
\* wakes up after another blocked or completed the operation changes nothing.
SettledFinal ==
  [][\A i \in 1 .. Len(ops) : ops[i].status \in {"succeeded", "blocked"} =>
       ops'[i] = ops[i]]_vars

\* Every accepted operation is settled, completed or blocked, whatever crashes,
\* stalls and failed reads strike on the way.
Settles ==
  \A i \in 1 .. MaxPreviews :
    i <= Len(ops) ~> i <= Len(ops) /\ ops[i].status \in {"succeeded", "blocked"}

\* Operations of a campaign are accepted one at a time and booked once, and
\* its marks, ledger and lifecycle tell one story.
CommandsSound == TypeOK /\ BookedOnce /\ PendingExplains /\ MarkStory

\* What is accepted still builds on the latest mark, fee evidence and
\* accounting form one chain, and nothing from a replaced mark on stays
\* valid.
EvidenceSound == AcceptedStillFits /\ EvidenceChained /\ InvalidTail
=============================================================================

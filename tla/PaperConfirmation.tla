-------------------------- MODULE PaperConfirmation --------------------------
(***************************************************************************)
(* The two observations a RangeKeeper paper campaign opens on               *)
(* (src/src/deployments.ts, rangekeeper-paper-confirmation*.ts, the         *)
(* confirmation methods of deployments/store.ts, the open path of           *)
(* paper-operation-worker.ts), for one draft at its only revision.          *)
(*                                                                          *)
(* One block is produced per clock tick, so an observation is a block       *)
(* number, which is its time, and the fork it was read on.                  *)
(***************************************************************************)
EXTENDS Integers, Sequences, FiniteSets

CONSTANTS
    Requests,       \* command requests of the deployment server
    Bookers,        \* paper operation workers
    PreviewTtl,     \* life of an open preview
    CandidateTtl,   \* life of a planner candidate
    GasTtl,         \* age a gas price may have when the preview is accepted
    ClaimTtl,       \* an operation claim
    MaxConfTime, MaxConfForks, MaxFirsts   \* bounds

\* A row lock is held by a request or by a worker, or it is free.
ASSUME ConfActors == Requests \cap Bookers = {} /\ 0 \notin Requests \cup Bookers
ASSUME ConfTtls == PreviewTtl \in Nat /\ ClaimTtl \in Nat

VARIABLES
    confNow,        \* the clock, and the highest block
    confChain,      \* the fork of every block
    confForks,
    firsts,         \* deployment_previews of kind open: the first observations
    proof,          \* the confirmation and its producer receipt
    campaign,       \* deployment_campaigns.lifecycle
    rowLock,        \* who holds the campaign row
    opening,        \* the open operation
    booked,         \* marks of the open
    asker, booker   \* requests and workers

confVars == <<confNow, confChain, confForks, firsts, proof, campaign, rowLock,
              opening, booked, asker, booker>>

NoObs == [at |-> 0, fork |-> 0]
NoProof == [preview |-> 0, first |-> NoObs, second |-> NoObs, gasAt |-> 0]
NoOpening == [status |-> "none", preview |-> 0, acceptedAt |-> 0, by |-> 0, until |-> 0]
IdleAsk == [pc |-> "idle", preview |-> 0, first |-> NoObs, second |-> NoObs, gasAt |-> 0]
IdleBook == [pc |-> "idle", proof |-> NoProof]

ConfInit ==
    /\ confNow = 1 /\ confChain = <<0>> /\ confForks = 0
    /\ firsts = <<>> /\ proof = NoProof /\ campaign = "draft" /\ rowLock = 0
    /\ opening = NoOpening /\ booked = <<>>
    /\ asker = [r \in Requests |-> IdleAsk] /\ booker = [w \in Bookers |-> IdleBook]

Observed == [at |-> confNow, fork |-> confChain[confNow]]
OnChain(source) == confChain[source.at] = source.fork

\* Mutant: only the second observation is compared with the chain.
SecondOnly(first, second) == OnChain(second)

verifyAnchors(first, second) == OnChain(first) /\ OnChain(second)

Expired(i) == firsts[i].expires <= confNow
OpeningPending == opening.status \in {"queued", "preflighting", "reconciling", "blocked"}

Ask(r, state) == asker' = [asker EXCEPT ![r] = state]
AskAt(r, pc) == asker[r].pc = pc

----------------------------------------------------------------------------
(* A preview request: the first observation when no preview lives, the      *)
(* confirmation when one does, nothing once the draft is confirmed.         *)

rangeKeeperPaperOpenPreviewState(r) ==
    /\ AskAt(r, "idle") /\ campaign = "draft" /\ proof = NoProof
    /\ Ask(r, [IdleAsk EXCEPT !.pc =
                 IF \E i \in DOMAIN firsts : ~Expired(i) THEN "frame" ELSE "model"])
    /\ UNCHANGED <<confNow, confChain, confForks, firsts, proof, campaign, rowLock,
                   opening, booked, booker>>

\* prepareRangeKeeperPaperOpenRuntime pins the frame before it samples a fork.
runRangeKeeperPaperOpen(r) ==
    /\ AskAt(r, "model")
    /\ Ask(r, [asker[r] EXCEPT !.pc = "preview", !.first = Observed])
    /\ UNCHANGED <<confNow, confChain, confForks, firsts, proof, campaign, rowLock,
                   opening, booked, booker>>

\* recordPreview looks at the revision, not at the lifecycle.
persistTrustedRangeKeeperPaperOpenPreview(r) ==
    LET first == asker[r].first IN
    /\ AskAt(r, "preview")
    /\ IF OnChain(first) /\ confNow - first.at < PreviewTtl
       THEN /\ Len(firsts) < MaxFirsts
            /\ firsts' = Append(firsts, [source |-> first, expires |-> first.at + PreviewTtl])
       ELSE UNCHANGED firsts
    /\ Ask(r, IdleAsk)
    /\ UNCHANGED <<confNow, confChain, confForks, proof, campaign, rowLock, opening,
                   booked, booker>>

readCanonicalPaperOpenFrame(r) ==
    /\ AskAt(r, "frame")
    /\ Ask(r, [asker[r] EXCEPT !.pc = "gas", !.second = Observed])
    /\ UNCHANGED <<confNow, confChain, confForks, firsts, proof, campaign, rowLock,
                   opening, booked, booker>>

getGasPrice(r) ==
    /\ AskAt(r, "gas")
    /\ Ask(r, [asker[r] EXCEPT !.pc = "build", !.gasAt = confNow])
    /\ UNCHANGED <<confNow, confChain, confForks, firsts, proof, campaign, rowLock,
                   opening, booked, booker>>

\* The newest preview, whether or not it is the one that was live when the
\* request began.
Newest == Len(firsts)

\* Mutant: the second observation may be the first.
SameBlockAllowed(first, second) == second.at >= first.at /\ second.at <= first.at + CandidateTtl

LaterObservation(first, second) == second.at > first.at /\ second.at <= first.at + CandidateTtl

buildRangeKeeperPaperConfirmation(r) ==
    /\ AskAt(r, "build")
    /\ IF /\ campaign = "draft" /\ ~OpeningPending /\ ~Expired(Newest)
          /\ LaterObservation(firsts[Newest].source, asker[r].second)
          /\ confNow - asker[r].gasAt <= GasTtl
       THEN Ask(r, [asker[r] EXCEPT !.pc = "fork", !.preview = Newest,
                                    !.first = firsts[Newest].source])
       ELSE Ask(r, IdleAsk)
    /\ UNCHANGED <<confNow, confChain, confForks, firsts, proof, campaign, rowLock,
                   opening, booked, booker>>

simulateRangeKeeperPaperConfirmationOnOwnedFork(r) ==
    /\ AskAt(r, "fork")
    /\ Ask(r, [asker[r] EXCEPT !.pc = "publish"])
    /\ UNCHANGED <<confNow, confChain, confForks, firsts, proof, campaign, rowLock,
                   opening, booked, booker>>

\* A read, the gas preparation or the fork failed: the request is answered
\* "unavailable" and leaves nothing behind.
RequestUnavailable(r) ==
    /\ asker[r].pc \notin {"idle", "commit", "accept"}
    /\ Ask(r, IdleAsk)
    /\ UNCHANGED <<confNow, confChain, confForks, firsts, proof, campaign, rowLock,
                   opening, booked, booker>>

Envelope(r) == [preview |-> asker[r].preview, first |-> asker[r].first,
                second |-> asker[r].second, gasAt |-> asker[r].gasAt]

Publishable(r) ==
    /\ ~Expired(asker[r].preview)
    /\ confNow < asker[r].first.at + CandidateTtl
    /\ confNow < asker[r].second.at + CandidateTtl
    /\ verifyAnchors(asker[r].first, asker[r].second)

\* Under the campaign's lock: one confirmation per revision, for ever.
persistRangeKeeperPaperConfirmationWithProducerReceipt(r) ==
    /\ AskAt(r, "publish") /\ rowLock = 0
    /\ IF /\ campaign = "draft" /\ ~OpeningPending /\ proof \in {NoProof, Envelope(r)}
          /\ Publishable(r)
       THEN rowLock' = r /\ Ask(r, [asker[r] EXCEPT !.pc = "commit"])
       ELSE UNCHANGED rowLock /\ Ask(r, IdleAsk)
    /\ UNCHANGED <<confNow, confChain, confForks, firsts, proof, campaign, opening,
                   booked, booker>>

CommitProof(r) ==
    /\ AskAt(r, "commit")
    /\ proof' = IF Publishable(r) THEN Envelope(r) ELSE proof
    /\ rowLock' = 0 /\ Ask(r, IdleAsk)
    /\ UNCHANGED <<confNow, confChain, confForks, firsts, campaign, opening, booked, booker>>

\* Mutant: any live open preview of the campaign will do.
AnyPreview(i) == proof # NoProof

BoundPreview(i) == proof.preview = i

createRangeKeeperPaperOpenAcceptance(r) ==
    /\ AskAt(r, "idle")
    /\ \E i \in DOMAIN firsts :
         /\ campaign = "draft" /\ BoundPreview(i)
         /\ verifyAnchors(proof.first, proof.second)
         /\ Ask(r, [IdleAsk EXCEPT !.pc = "accept", !.preview = i])
    /\ UNCHANGED <<confNow, confChain, confForks, firsts, proof, campaign, rowLock,
                   opening, booked, booker>>

acceptOperation(r) ==
    LET i == asker[r].preview IN
    /\ AskAt(r, "accept") /\ rowLock = 0
    /\ IF campaign = "draft" /\ ~OpeningPending /\ ~Expired(i)
       THEN /\ opening' = [NoOpening EXCEPT !.status = "queued", !.preview = i,
                                            !.acceptedAt = confNow]
            /\ campaign' = "opening"
       ELSE UNCHANGED <<opening, campaign>>
    /\ Ask(r, IdleAsk)
    /\ UNCHANGED <<confNow, confChain, confForks, firsts, proof, rowLock, booked, booker>>

----------------------------------------------------------------------------
(* The worker                                                               *)

Work(w, state) == booker' = [booker EXCEPT ![w] = state]
Holds(w) == opening.by = w /\ opening.until >= confNow

claimPaperOperation(w) ==
    /\ booker[w].pc = "idle" /\ rowLock = 0
    /\ opening.status \in {"queued", "preflighting", "reconciling"}
    /\ opening.by = 0 \/ opening.until < confNow
    /\ opening' = [opening EXCEPT !.by = w, !.until = confNow + ClaimTtl,
                     !.status = IF @ = "queued" THEN "preflighting" ELSE @]
    /\ Work(w, [IdleBook EXCEPT !.pc = "snapshot"])
    /\ UNCHANGED <<confNow, confChain, confForks, firsts, proof, campaign, rowLock,
                   booked, asker>>

\* A conflict blocks the operation for good, if the claim is still held.
BlockOpening(w) ==
    /\ opening' = IF Holds(w) THEN [opening EXCEPT !.status = "blocked", !.by = 0] ELSE opening
    /\ Work(w, IdleBook)

rangeKeeperPaperConfirmationOperationSnapshot(w) ==
    /\ booker[w].pc = "snapshot" /\ rowLock = 0
    /\ IF /\ Holds(w) /\ opening.preview = proof.preview
          /\ verifyAnchors(proof.first, proof.second)
       THEN UNCHANGED opening /\ Work(w, [pc |-> "context", proof |-> proof])
       ELSE BlockOpening(w)
    /\ UNCHANGED <<confNow, confChain, confForks, firsts, proof, campaign, rowLock,
                   booked, asker>>

\* What the acceptance did not look at: the age of the gas price and of the
\* first candidate when the preview was accepted.
FreshAtAcceptance(p) ==
    /\ opening.acceptedAt <= p.first.at + CandidateTtl
    /\ opening.acceptedAt - p.gasAt <= GasTtl

loadRangeKeeperPaperConfirmationContext(w) ==
    /\ booker[w].pc = "context" /\ rowLock = 0
    /\ IF FreshAtAcceptance(booker[w].proof)
       THEN UNCHANGED opening /\ Work(w, [booker[w] EXCEPT !.pc = "advance"])
       ELSE BlockOpening(w)
    /\ UNCHANGED <<confNow, confChain, confForks, firsts, proof, campaign, rowLock,
                   booked, asker>>

advanceClaim(w) ==
    /\ booker[w].pc = "advance" /\ rowLock = 0
    /\ IF Holds(w) THEN /\ opening' = [opening EXCEPT !.status = "reconciling"]
                        /\ Work(w, [booker[w] EXCEPT !.pc = "replay"])
       ELSE UNCHANGED opening /\ Work(w, IdleBook)
    /\ UNCHANGED <<confNow, confChain, confForks, firsts, proof, campaign, rowLock,
                   booked, asker>>

\* The owned fork reproduces the envelope's evidence, or it does not.
replayRangeKeeperPaperConfirmationOnOwnedFork(w) ==
    /\ booker[w].pc = "replay" /\ rowLock = 0
    /\ \/ UNCHANGED opening /\ Work(w, [booker[w] EXCEPT !.pc = "complete"])
       \/ BlockOpening(w)
    /\ UNCHANGED <<confNow, confChain, confForks, firsts, proof, campaign, rowLock,
                   booked, asker>>

\* Claim, status, snapshot and anchors under the lock, before the inserts ...
completeRangeKeeperPaperConfirmedOpen(w) ==
    /\ booker[w].pc = "complete" /\ rowLock = 0
    /\ IF /\ Holds(w) /\ opening.status = "reconciling" /\ campaign = "opening"
          /\ proof = booker[w].proof /\ verifyAnchors(proof.first, proof.second)
          /\ booked = <<>>
       THEN /\ rowLock' = w /\ Work(w, [booker[w] EXCEPT !.pc = "write"])
            /\ UNCHANGED opening
       ELSE UNCHANGED rowLock /\ BlockOpening(w)
    /\ UNCHANGED <<confNow, confChain, confForks, firsts, proof, campaign, booked, asker>>

\* ... and the anchors again after them; a conflict rolls everything back.
CommitOpen(w) ==
    /\ booker[w].pc = "write" /\ rowLock' = 0
    /\ IF verifyAnchors(proof.first, proof.second) /\ opening.by = w
       THEN /\ booked' = Append(booked, [proof |-> proof,
                                         canonical |-> OnChain(proof.first) /\ OnChain(proof.second)])
            /\ campaign' = "active"
            /\ opening' = [opening EXCEPT !.status = "succeeded", !.by = 0]
            /\ Work(w, IdleBook)
       ELSE UNCHANGED <<booked, campaign>> /\ BlockOpening(w)
    /\ UNCHANGED <<confNow, confChain, confForks, firsts, proof, asker>>

\* A transient error gives the claim back; a crash leaves it to lapse.
WorkerStops(w) ==
    /\ booker[w].pc \notin {"idle", "write"} /\ rowLock = 0
    /\ opening' \in {opening, IF Holds(w) THEN [opening EXCEPT !.by = 0] ELSE opening}
    /\ Work(w, IdleBook)
    /\ UNCHANGED <<confNow, confChain, confForks, firsts, proof, campaign, rowLock,
                   booked, asker>>

----------------------------------------------------------------------------
ConfTick ==
    /\ confNow < MaxConfTime
    /\ confNow' = confNow + 1
    /\ confChain' = Append(confChain, confForks)
    /\ UNCHANGED <<confForks, firsts, proof, campaign, rowLock, opening, booked,
                   asker, booker>>

ConfReorg ==
    /\ confForks < MaxConfForks
    /\ confForks' = confForks + 1
    /\ \E h \in DOMAIN confChain :
         confChain' = [i \in DOMAIN confChain |->
                         IF i < h THEN confChain[i] ELSE confForks + 1]
    /\ UNCHANGED <<confNow, firsts, proof, campaign, rowLock, opening, booked,
                   asker, booker>>

ConfNext ==
    \/ \E r \in Requests :
         \/ rangeKeeperPaperOpenPreviewState(r) \/ runRangeKeeperPaperOpen(r)
         \/ persistTrustedRangeKeeperPaperOpenPreview(r)
         \/ readCanonicalPaperOpenFrame(r) \/ getGasPrice(r)
         \/ buildRangeKeeperPaperConfirmation(r)
         \/ simulateRangeKeeperPaperConfirmationOnOwnedFork(r) \/ RequestUnavailable(r)
         \/ persistRangeKeeperPaperConfirmationWithProducerReceipt(r) \/ CommitProof(r)
         \/ createRangeKeeperPaperOpenAcceptance(r) \/ acceptOperation(r)
    \/ \E w \in Bookers :
         \/ claimPaperOperation(w) \/ rangeKeeperPaperConfirmationOperationSnapshot(w)
         \/ loadRangeKeeperPaperConfirmationContext(w) \/ advanceClaim(w)
         \/ replayRangeKeeperPaperConfirmationOnOwnedFork(w)
         \/ completeRangeKeeperPaperConfirmedOpen(w) \/ CommitOpen(w) \/ WorkerStops(w)
    \/ ConfTick \/ ConfReorg

ConfSpec == ConfInit /\ [][ConfNext]_confVars

----------------------------------------------------------------------------
(***************************************************************************)
(* A RangeKeeper campaign is opened on two observations of one chain: its   *)
(* mark rests on a second block later than the first, and both were         *)
(* canonical when the mark was written (the anchors verified around both    *)
(* transactions).                                                           *)
(***************************************************************************)
OpenedOnTwoBlocks ==
    \A i \in DOMAIN booked : /\ booked[i].proof.second.at > booked[i].proof.first.at
                             /\ booked[i].canonical

(***************************************************************************)
(* The preview the operator accepted is the one the confirmation was built  *)
(* on, though the acceptance reads the confirmation before it takes the     *)
(* lock, a newer preview may be the live one and a concurrent request may   *)
(* publish (createRangeKeeperPaperOpenAcceptance, acceptOperation).         *)
(***************************************************************************)
AcceptedIsConfirmed ==
    opening.status # "none" =>
      /\ opening.preview = proof.preview
      /\ proof.first = firsts[opening.preview].source
      /\ opening.acceptedAt <= firsts[opening.preview].expires

\* A RangeKeeper campaign opens on two different canonical observations, the
\* second one made for the first it was accepted with.
OpeningConfirmed == OpenedOnTwoBlocks /\ AcceptedIsConfirmed
============================================================================

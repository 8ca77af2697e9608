---------------------------- MODULE KeeperRuntime ----------------------------
(***************************************************************************)
(* A RangeKeeper paper campaign across releases (deployments/store.ts).    *)
(* Worker processes of different builds observe the open position, book    *)
(* recenters and an exit; an operator adopts a new build for the campaign, *)
(* with a compatibility proof made for the newest mark.  Every writer      *)
(* compares its own build with the one effective for the campaign.         *)
(*                                                                         *)
(* Marks, kernels and proofs are reduced to what they are bound to: block, *)
(* fork, epoch, the mark they continue, the build that wrote them and, of  *)
(* the planner's state, the outside-range timer and the first confirmation *)
(* of a recenter.  A range is the tick it is centred on; time is counted   *)
(* in blocks.                                                              *)
(* Pausing is in PaperOperations; it changes nothing here.                 *)
(***************************************************************************)
EXTENDS Integers, Sequences

CONSTANTS
    Workers, Adopters,
    Builds,          \* releases an operator may adopt; 1 opened the campaign
    Deployed,        \* releases the workers run
    Ticks,           \* pool ticks, one per range
    Persistence,     \* how long the price must stay outside
    MaxGap,          \* maxObservationGapSeconds
    MaxKeeperBlock, MaxKeeperForks, MaxBook, MaxAdoptions   \* bounds

VARIABLES
    kchain,      \* fork and tick of each block
    kforks,
    life,        \* lifecycle of the campaign
    pending,     \* preview of the operation that is under way
    preview,     \* newest saved preview
    book,        \* deployment_marks
    adoptions,   \* runtime adoptions in deployment_ledger
    passLock,    \* advisory lock of the maintenance pass
    proc,        \* worker processes
    adopter      \* prepared adoption requests

keeperVars == <<kchain, kforks, life, pending, preview, book, adoptions, passLock, proc, adopter>>

NoFrame == [block |-> 0, fork |-> 0, tick |-> 0]
NoFirst == [block |-> 0, range |-> 0]
NoPreview == [kind |-> "none", base |-> 0, epoch |-> 0, frame |-> NoFrame]
NoRequest == [from |-> 0, to |-> 0, mark |-> 0]
Idle(build) == [pc |-> "idle", build |-> build, base |-> 0, epoch |-> 0, frame |-> NoFrame]
Opening == [class |-> "open", frame |-> [block |-> 1, fork |-> 0, tick |-> 0], epoch |-> 0, base |-> 0, by |-> 1,
            range |-> 0, since |-> 0, last |-> 0, first |-> NoFirst]

KeeperInit ==
    /\ kchain = <<[fork |-> 0, tick |-> 0]>> /\ kforks = 0
    /\ life = "active" /\ pending = NoPreview /\ preview = NoPreview
    /\ book = <<Opening>>
    /\ adoptions = <<>> /\ passLock = 0
    /\ proc = [w \in Workers |-> Idle(1)]
    /\ adopter = [a \in Adopters |-> NoRequest]

latest == book[Len(book)]
Canonical(frame) == kchain[frame.block].fork = frame.fork
Tip == [block |-> Len(kchain), fork |-> kchain[Len(kchain)].fork, tick |-> kchain[Len(kchain)].tick]

-----------------------------------------------------------------------------
(* Chain and processes                                                     *)

MineBlock ==
    /\ Len(kchain) < MaxKeeperBlock
    /\ \E tick \in Ticks : kchain' = Append(kchain, [fork |-> kforks, tick |-> tick])
    /\ UNCHANGED <<kforks, life, pending, preview, book, adoptions, passLock, proc, adopter>>

ReplaceBlock ==
    /\ kforks < MaxKeeperForks /\ Len(kchain) > 1
    /\ kforks' = kforks + 1
    /\ \E tick \in Ticks : kchain' = [kchain EXCEPT ![Len(kchain)] = [fork |-> kforks', tick |-> tick]]
    /\ UNCHANGED <<life, pending, preview, book, adoptions, passLock, proc, adopter>>

\* A crash or a deployment: the process starts again, its session's lock is gone.
Restart(w) == \E build \in Deployed :
    /\ proc[w] # Idle(build)
    /\ proc' = [proc EXCEPT ![w] = Idle(build)]
    /\ passLock' = IF passLock = w THEN 0 ELSE passLock
    /\ UNCHANGED <<kchain, kforks, life, pending, preview, book, adoptions, adopter>>

-----------------------------------------------------------------------------
(* The effective build                                                     *)

\* campaignEffectiveRuntimeIdentity: 0 when an adoption does not continue the
\* one before it.
campaignEffectiveRuntimeIdentity ==
    LET lineage[k \in 0..Len(adoptions)] ==
            IF k = 0 THEN 1
            ELSE IF adoptions[k].from = lineage[k - 1] THEN adoptions[k].to ELSE 0
    IN  lineage[Len(adoptions)]

campaignRuntimeMatches(build) == build = campaignEffectiveRuntimeIdentity

-----------------------------------------------------------------------------
(* Observations                                                            *)

Leave(w) ==
    /\ proc' = [proc EXCEPT ![w] = Idle(proc[w].build)]
    /\ passLock' = IF passLock = w THEN 0 ELSE passLock

\* pg_try_advisory_lock of the pass.
\* mutant: passes of two processes overlap.
AnyPass == TRUE
passFree == passLock = 0

\* rangeKeeperPaperMaintenanceSnapshot after the opening: nothing is pending
\* and the campaign belongs to this build.
campaignAvailable(build) == life = "active" /\ pending = NoPreview /\ campaignRuntimeMatches(build)

\* rangeKeeperPaperEpochSnapshot, with the pass's lock.
readEpochSnapshot(w) ==
    /\ proc[w].pc = "idle" /\ passFree /\ campaignAvailable(proc[w].build)
    /\ passLock' = w
    /\ proc' = [proc EXCEPT ![w] = [@ EXCEPT !.pc = "seen", !.base = Len(book), !.epoch = latest.epoch]]
    /\ UNCHANGED <<kchain, kforks, life, pending, preview, book, adoptions, adopter>>

\* readCanonicalPaperNextFrame: a later block, the anchor still canonical.
nextFrame(mark) == Canonical(mark.frame) /\ Tip.block > mark.frame.block

readFrame(w) ==
    LET p == proc[w] IN
    /\ p.pc = "seen"
    /\ IF nextFrame(book[p.base])
       THEN proc' = [proc EXCEPT ![w] = [p EXCEPT !.pc = "framed", !.frame = Tip]] /\ passLock' = passLock
       ELSE Leave(w)
    /\ UNCHANGED <<kchain, kforks, life, pending, preview, book, adoptions, adopter>>

\* The outside-range timer goes on over gaps of at most MaxGap.
outsideSince(m, frame) ==
    IF m.since # 0 /\ frame.block - m.last <= MaxGap THEN m.since ELSE frame.block

\* candidatePolicyIdentity: both observations ask for the same range.
\* mutant: the second observation may ask for another range.
AnyCandidate(first, frame) == first # NoFirst
samePolicy(first, frame) ==
    first # NoFirst /\ first.range = frame.tick /\ frame.block - first.block <= MaxGap

\* planRangeKeeper for an open position.  Wallet, price and cost limits are one
\* verdict, `gate`.
Decision(action, since, last, first) == [action |-> action, since |-> since, last |-> last, first |-> first]
planRangeKeeper(m, frame, gate) ==
    LET since == outsideSince(m, frame)
        kept  == IF since = m.since THEN m.first ELSE NoFirst
    IN  IF frame.tick = m.range THEN Decision("wait", 0, 0, NoFirst)
        ELSE IF frame.block - since < Persistence \/ ~gate THEN Decision("wait", since, frame.block, kept)
        ELSE IF samePolicy(kept, frame) THEN Decision("execute", since, frame.block, NoFirst)
        ELSE Decision("confirm", since, frame.block, [block |-> frame.block, range |-> frame.tick])

\* buildRangeKeeperPaperMaintenanceKernel: before the first observation only
\* the timer moves.
maintain(m, frame, gate) ==
    IF m.class = "open"
    THEN LET since == IF frame.tick = m.range THEN 0 ELSE outsideSince(m, frame)
         IN  Decision("wait", since, IF since = 0 THEN 0 ELSE frame.block, NoFirst)
    ELSE planRangeKeeper(m, frame, gate)

\* recordRangeKeeperPaperMark: nothing the kernel was built on has changed.
markRecordable(p) ==
    /\ campaignAvailable(p.build)
    /\ p.epoch = latest.epoch /\ p.frame.block > latest.frame.block
    /\ Canonical(book[1].frame) /\ Canonical(latest.frame) /\ Canonical(p.frame)

\* buildRangeKeeperPaperEpochObservationPayload: the range is the newest mark's.
Observation(p, d) ==
    [class |-> "mark", frame |-> p.frame, epoch |-> p.epoch, base |-> p.base, by |-> p.build,
     range |-> latest.range, since |-> d.since, last |-> d.last, first |-> d.first]

recordRangeKeeperPaperMark(w) == \E gate \in BOOLEAN :
    LET p == proc[w]
        d == maintain(book[p.base], p.frame, gate)
    IN
    /\ p.pc = "framed" /\ Len(book) < MaxBook /\ d.action # "execute"
    /\ book' = IF markRecordable(p) THEN Append(book, Observation(p, d)) ELSE book
    /\ Leave(w)
    /\ UNCHANGED <<kchain, kforks, life, pending, preview, adoptions, adopter>>

-----------------------------------------------------------------------------
(* Recenters and the exit                                                  *)

\* buildRangeKeeperPaperRecenterPlan: the second confirmation executes, and the
\* pass saves a preview of the recenter.
saveRecenterPreview(w) ==
    LET p == proc[w] IN
    /\ p.pc = "framed" /\ maintain(book[p.base], p.frame, TRUE).action = "execute"
    /\ preview' = [kind |-> "recenter", base |-> p.base, epoch |-> p.epoch + 1, frame |-> p.frame]
    /\ Leave(w)
    /\ UNCHANGED <<kchain, kforks, life, pending, book, adoptions, adopter>>

\* The mark that created the epoch the campaign is in.
epochCreator == CHOOSE i \in 1..Len(book) :
    book[i].class \in {"open", "recenter"} /\ book[i].epoch = latest.epoch

\* rangeKeeperPaperExitContextSnapshot: only after a first observation.
exitContext(build) == campaignAvailable(build) /\ Len(book) > 1

\* prepareRangeKeeperPaperExit: the frame is read after the seed's marks...
readExitFrame(w) ==
    /\ proc[w].pc = "idle" /\ exitContext(proc[w].build) /\ nextFrame(latest)
    /\ proc' = [proc EXCEPT ![w] = [@ EXCEPT !.pc = "exiting", !.base = Len(book), !.frame = Tip]]
    /\ UNCHANGED <<kchain, kforks, life, pending, preview, book, adoptions, passLock, adopter>>

\* ... and the context is replayed after the gas was sampled: the newest mark
\* is still the seed's, older than the frame and in the epoch its creator
\* opened (loadRangeKeeperPaperExitContext).
contextFits(p) ==
    /\ exitContext(p.build) /\ p.base = Len(book) /\ p.frame.block > latest.frame.block
    /\ book[epochCreator].frame.block <= latest.frame.block

\* The model leaves the position of that epoch, after as many recenters.
validateIdentity ==
    /\ latest.epoch = Len(SelectSeq(book, LAMBDA m : m.class = "recenter"))
    /\ book[epochCreator].range = latest.range

\* buildRangeKeeperPaperExitModel; a model that does not fit is answered as
\* blocked and nothing is saved.
saveExitPreview(w) ==
    LET p == proc[w] IN
    /\ p.pc = "exiting"
    /\ preview' = IF contextFits(p) /\ validateIdentity /\ Canonical(p.frame)
                  THEN [kind |-> "exit", base |-> p.base, epoch |-> latest.epoch, frame |-> p.frame]
                  ELSE preview
    /\ Leave(w)
    /\ UNCHANGED <<kchain, kforks, life, pending, book, adoptions, adopter>>

\* The preview continues the newest mark.
priorMarkFits(v) == v.base = Len(book) /\ v.epoch = latest.epoch + (IF v.kind = "recenter" THEN 1 ELSE 0)

\* acceptRangeKeeperPaperRecenterOperation and
\* acceptRangeKeeperPaperConvertOperation.
acceptOperation(w) ==
    /\ preview # NoPreview /\ campaignAvailable(proc[w].build)
    /\ priorMarkFits(preview) /\ Canonical(latest.frame) /\ Canonical(preview.frame)
    /\ pending' = preview /\ preview' = NoPreview
    /\ life' = IF preview.kind = "exit" THEN "closing" ELSE life
    /\ UNCHANGED <<kchain, kforks, book, adoptions, passLock, proc, adopter>>

\* buildRangeKeeperPaperRecenterBooking: the new range is centred on the
\* preview's tick and nothing is carried over from the old one.
Booking(v, build) ==
    [class |-> v.kind, frame |-> v.frame, epoch |-> v.epoch, base |-> v.base, by |-> build,
     range |-> IF v.kind = "recenter" THEN v.frame.tick ELSE latest.range,
     since |-> 0, last |-> 0, first |-> NoFirst]

\* completeRangeKeeperPaperConfirmedRecenter and the confirmed exits: the
\* worker that holds the claim books the mark of the preview's source.
completeOperation(w) ==
    /\ pending # NoPreview /\ Len(book) < MaxBook /\ campaignRuntimeMatches(proc[w].build)
    /\ Canonical(latest.frame) /\ Canonical(pending.frame)
    /\ book' = Append(book, Booking(pending, proc[w].build))
    /\ pending' = NoPreview /\ life' = IF pending.kind = "exit" THEN "closed" ELSE life
    /\ UNCHANGED <<kchain, kforks, preview, adoptions, passLock, proc, adopter>>

-----------------------------------------------------------------------------
(* Adopting a build                                                        *)

\* The operator proves a build compatible with the campaign as it stands.
proveCompatible(a) == \E to \in Builds :
    /\ adopter[a] = NoRequest /\ to # campaignEffectiveRuntimeIdentity
    /\ adopter' = [adopter EXCEPT ![a] =
            [from |-> campaignEffectiveRuntimeIdentity, to |-> to, mark |-> Len(book)]]
    /\ UNCHANGED <<kchain, kforks, life, pending, preview, book, adoptions, passLock, proc>>

\* mutant: a proof of an older mark is good enough.
AnyLatest(q) == TRUE
latestUnchanged(q) == q.mark = Len(book)
\* mutant: the predecessor is not compared with the effective build.
AnyPredecessor(q) == TRUE
predecessorEffective(q) == q.from = campaignEffectiveRuntimeIdentity

\* adoptRangeKeeperPaperRuntime; an adoption already in the ledger is answered
\* without writing.
adoptRangeKeeperPaperRuntime(a) ==
    LET q == adopter[a]
        replayed == \E k \in 1..Len(adoptions) : adoptions[k] = q
    IN
    /\ q # NoRequest /\ Len(adoptions) < MaxAdoptions
    /\ adopter' = [adopter EXCEPT ![a] = NoRequest]
    /\ adoptions' = IF /\ life = "active" /\ ~replayed
                       /\ predecessorEffective(q) /\ pending = NoPreview
                       /\ latestUnchanged(q) /\ Canonical(latest.frame)
                    THEN Append(adoptions, q) ELSE adoptions
    /\ UNCHANGED <<kchain, kforks, life, pending, preview, book, passLock, proc>>

KeeperNext ==
    \/ MineBlock \/ ReplaceBlock
    \/ \E w \in Workers :
        \/ Restart(w) \/ readEpochSnapshot(w) \/ readFrame(w) \/ recordRangeKeeperPaperMark(w)
        \/ saveRecenterPreview(w) \/ readExitFrame(w) \/ saveExitPreview(w)
        \/ acceptOperation(w) \/ completeOperation(w)
    \/ \E a \in Adopters : proveCompatible(a) \/ adoptRangeKeeperPaperRuntime(a)

KeeperSpec == KeeperInit /\ [][KeeperNext]_keeperVars

-----------------------------------------------------------------------------
\* The ledger's adoptions split the book: every mark was written by the build
\* that the adoptions before it made effective, so no mark computed by an old
\* process counts for its successor (adoptRangeKeeperPaperRuntime,
\* recordRangeKeeperPaperMark).
AdoptionSplitsBook ==
    LET before(i) == {k \in 1..Len(adoptions) : adoptions[k].mark < i} IN
    \A i \in 1..Len(book) :
        book[i].by = IF before(i) = {} THEN 1
                     ELSE adoptions[CHOOSE k \in before(i) : \A j \in before(i) : j <= k].to

\* Racing adoptions never leave a campaign without an effective build, which
\* nothing could repair (campaignEffectiveRuntimeIdentity).
LineageUnbroken == campaignEffectiveRuntimeIdentity # 0

\* Every mark continues the mark right before it: no outside-range timer,
\* high water mark or epoch is taken from an older one (runPaperMaintenancePass,
\* acceptRangeKeeperPaperRecenterOperation).
MarksContinue == \A i \in 2..Len(book) : book[i].base = i - 1

\* A range is given up only after the price was seen outside it at every
\* observation for Persistence, never out of sight for longer than MaxGap, and
\* asked for the same new range twice (planRangeKeeper).
RecenterEarned ==
    \A i \in 2..Len(book) : book[i].class = "recenter" =>
        \E j \in 2..i - 1 :
            /\ book[i].frame.block - book[j].frame.block >= Persistence
            /\ \A k \in j..i : book[k].frame.tick # book[j].range
            /\ \A k \in j..i - 1 :
                /\ book[k].class = "mark" /\ book[k].range = book[j].range
                /\ book[k + 1].frame.block - book[k].frame.block <= MaxGap
            /\ \E k \in j..i - 1 : book[k].frame.tick = book[i].range

\* The book of a paper campaign is unbroken across releases: each mark
\* continues the one before it, builds form one lineage, and an adoption
\* splits the marks at its place.
BookUnbroken == AdoptionSplitsBook /\ LineageUnbroken /\ MarksContinue
=============================================================================

-------------------------- MODULE PaperGasEvidence --------------------------
(***************************************************************************)
(* Gas evidence for paper campaigns: concurrent samplers measure a path's   *)
(* stages at a source block, verify the source, and register versioned      *)
(* calibration rows in one transaction (src/src/deployments/store.ts,       *)
(* paper-gas-*.ts, rangekeeper-paper-gas-evidence.ts, the prestate          *)
(* importer), while the campaign they measure moves on and the chain        *)
(* reorganises.  Previews are costed from the newest rows.                  *)
(*                                                                          *)
(* Paths: "static" rows are per pool and range, "open" and "exit" are the   *)
(* RangeKeeper's, "convert" is the static close-convert one of a closing    *)
(* campaign and "prestate" its prospective form.                            *)
(***************************************************************************)
EXTENDS Integers, FiniteSets, FiniteSetsExt

CONSTANTS
    Samplers,       \* sampling processes
    SourceTtl,      \* 180 s: age of the source when sampled
    VerifyTtl,      \* 5 min: age of the verification when registered
    RowTtl,         \* 24 h: age of a row that may cost a preview
    MaxGasTime,     \* bound on the clock
    MaxGasForks,    \* bound on reorganisations
    MaxMark,        \* bound on the campaign's marks
    MaxGasReports,  \* bound on sampled reports
    Narrow          \* TRUE: leave out what concerns no path measured

VARIABLES
    gasNow,         \* the clock; a block is named by its timestamp
    gasForks,       \* reorganisations so far
    gasRows,        \* deployment_calibration_profiles, one element per version
    keeper,         \* the campaign: lifecycle, latest mark, pending operation
    reports,        \* reports written so far
    sampler,        \* each sampling process
    prepared        \* how much later than the imported sample the costed one is

gasVars == <<gasNow, gasForks, gasRows, keeper, reports, sampler, prepared>>

Paths == {"static", "open", "exit", "convert", "prestate"}
NoReport == [id |-> 0, path |-> "static", block |-> 0, fork |-> 0, orphan |-> FALSE,
             mark |-> 0, sampledAt |-> 0]
IdleSampler == [pc |-> "idle", report |-> NoReport, verifiedAt |-> 0, seen |-> {}]

GasInit ==
    /\ gasNow = 0 /\ gasForks = 0 /\ gasRows = {}
    /\ keeper = [life |-> "draft", mark |-> 0, pending |-> FALSE]
    /\ reports = 0 /\ sampler = [s \in Samplers |-> IdleSampler] /\ prepared = 0

Report(s) == sampler[s].report
Goto(s, pc) ==
    sampler' = [sampler EXCEPT ![s] = IF pc = "idle" THEN IdleSampler ELSE [@ EXCEPT !.pc = pc]]
Attest(s, ok, pc) ==
    sampler' = [sampler EXCEPT ![s] = IF ok THEN [@ EXCEPT !.verifiedAt = gasNow, !.pc = pc]
                                      ELSE IdleSampler]
Age(t) == gasNow - t
Canonical(r) == ~r.orphan
SameBlock(r, o) == r.block = o.block /\ (r.fork = o.fork \/ (Canonical(r) /\ Canonical(o)))

\* The lifecycle a path's context reader and its registration ask for.
Lifecycle(path) ==
    CASE path = "static" -> {"draft", "active", "closing", "closed"}
      [] path = "open" -> {"draft"}
      [] path \in {"exit", "prestate"} -> {"active"}
      [] path = "convert" -> {"closing"}

OfCampaign(path) == path # "static"
\* Rows of a campaign's position are bound to its latest mark.
OfMark(path) == path \in {"exit", "convert", "prestate"}

----------------------------------------------------------------------------
(* Sampling                                                                 *)

\* Bound: all the samplers measure the same path.
SamePath(path) == Narrow =>
    /\ \A s \in Samplers : sampler[s].pc = "idle" \/ Report(s).path = path
    /\ \A row \in gasRows : row.report.path = path

StartSample(s, path) ==
    /\ sampler[s].pc = "idle" /\ reports < MaxGasReports /\ SamePath(path)
    /\ keeper.life \in Lifecycle(path)
    /\ reports' = reports + 1
    /\ sampler' = [sampler EXCEPT ![s] = [IdleSampler EXCEPT !.pc = "sampling",
         !.report = [id |-> reports + 1, path |-> path, block |-> gasNow,
                     fork |-> gasForks, orphan |-> FALSE,
                     mark |-> IF OfMark(path) THEN keeper.mark ELSE 0,
                     sampledAt |-> 0]]]
    /\ UNCHANGED <<gasNow, gasForks, gasRows, keeper, prepared>>

\* The stages run on a fork of the source; the report is stamped at the end.
Stamp(s) ==
    /\ sampler' = [sampler EXCEPT ![s] =
         IF Age(Report(s).block) <= SourceTtl /\ Canonical(Report(s))
         THEN [@ EXCEPT !.report.sampledAt = gasNow, !.pc = "reported"] ELSE IdleSampler]
    /\ UNCHANGED <<gasNow, gasForks, gasRows, keeper, reports, prepared>>

sampleStaticPaperGas(s) ==
    sampler[s].pc = "sampling" /\ Report(s).path \notin {"open", "exit"} /\ Stamp(s)

produceRangeKeeperPaperGasEvidence(s) ==
    sampler[s].pc = "sampling" /\ Report(s).path \in {"open", "exit"} /\ Stamp(s)

\* An operator registers a report a second time, from another process.
RetryReport(s, o) ==
    /\ sampler[s].pc = "idle" /\ sampler[o].pc \in {"reported", "imported"}
    /\ sampler' = [sampler EXCEPT ![s] = [sampler[o] EXCEPT !.pc = "reported",
                                                            !.seen = {}, !.verifiedAt = 0]]
    /\ UNCHANGED <<gasNow, gasForks, gasRows, keeper, reports, prepared>>

\* The static paths attest their source before the transaction.
verifyPaperGasSource(s) ==
    /\ sampler[s].pc = "reported" /\ Report(s).path \in {"static", "convert"}
    /\ Attest(s, Canonical(Report(s)), "attested")
    /\ UNCHANGED <<gasNow, gasForks, gasRows, keeper, reports, prepared>>

\* The importer replays the fees and reads the anchors before the transaction.
verifyFeeReplay(s) ==
    /\ sampler[s].pc = "reported" /\ Report(s).path = "prestate"
    /\ Attest(s, Age(Report(s).sampledAt) <= VerifyTtl /\ Canonical(Report(s)), "attested")
    /\ UNCHANGED <<gasNow, gasForks, gasRows, keeper, reports, prepared>>

----------------------------------------------------------------------------
(* Registration: ages against the clock, then the locks, then the reads     *)

InTransaction == {"locked", "verified", "read"}
BandFree(s) ==
    \A o \in Samplers \ {s} :
      ~(sampler[o].pc \in InTransaction /\ Report(o).path = Report(s).path)
\* FOR SHARE OF c, or FOR UPDATE OF c in the importer.
CampaignFree(s) ==
    \A o \in Samplers \ {s} :
      (sampler[o].pc \in InTransaction /\ OfCampaign(Report(o).path)) =>
        Report(s).path # "prestate" /\ Report(o).path # "prestate"

\* Mutant: the transaction starts without the advisory lock.
NoBandLock(s) == OfCampaign(Report(s).path) => CampaignFree(s)

MayLock(s) == BandFree(s) /\ (OfCampaign(Report(s).path) => CampaignFree(s))

FreshEnough(s) ==
    /\ Age(Report(s).sampledAt) <= RowTtl
    /\ Report(s).path \in {"static", "convert"} => Age(sampler[s].verifiedAt) <= VerifyTtl

\* The clock is read before the transaction waits for its locks.
CheckAges(s) ==
    /\ \/ sampler[s].pc = "attested"
       \/ sampler[s].pc = "reported" /\ Report(s).path \in {"open", "exit"}
    /\ Goto(s, IF FreshEnough(s) THEN "waiting" ELSE "idle")
    /\ UNCHANGED <<gasNow, gasForks, gasRows, keeper, reports, prepared>>

\* A blocked operation counts as pending for the RangeKeeper only.
Admitted(s) ==
    LET path == Report(s).path IN
    OfCampaign(path) =>
      /\ keeper.life \in Lifecycle(path)
      /\ path # "convert" => ~keeper.pending
      /\ OfMark(path) => keeper.mark = Report(s).mark

LockBand(s) ==
    /\ sampler[s].pc = "waiting" /\ MayLock(s)
    /\ Goto(s, IF ~Admitted(s) THEN "idle"
               ELSE IF Report(s).path \in {"open", "exit"} THEN "locked" ELSE "verified")
    /\ UNCHANGED <<gasNow, gasForks, gasRows, keeper, reports, prepared>>

\* The RangeKeeper's source is replayed inside the transaction.
verifyRangeKeeperPaperGasEvidenceSource(s) ==
    /\ sampler[s].pc = "locked"
    /\ Attest(s, Canonical(Report(s)), "verified")
    /\ UNCHANGED <<gasNow, gasForks, gasRows, keeper, reports, prepared>>

RowsOf(path) == {row \in gasRows : row.report.path = path}

ReadExisting(s) ==
    /\ sampler[s].pc = "verified"
    /\ sampler' = [sampler EXCEPT ![s].pc = "read", ![s].seen = RowsOf(Report(s).path)]
    /\ UNCHANGED <<gasNow, gasForks, gasRows, keeper, reports, prepared>>

Matching(s) == {row \in sampler[s].seen : row.report.id = Report(s).id}
NextVersion(s) == 1 + Max({0} \cup {row.version : row \in sampler[s].seen})

\* Mutant: an older sample becomes the newest version.
AnySample(s) == TRUE

\* The importer has no such check: its rows are chosen by report.
SampleNewer(s) ==
    Report(s).path # "prestate" =>
      \A row \in sampler[s].seen : Report(s).sampledAt > row.report.sampledAt

\* verifyCanonicalPaperAnchors just before the inserts; the static paths rely
\* on their attestation.
AnchorsHold(s) == Report(s).path \in {"open", "exit", "prestate"} => Canonical(Report(s))

InsertRows(s) ==
    gasRows' = gasRows \cup
      {[report |-> Report(s), version |-> NextVersion(s),
        fits |-> OfMark(Report(s).path) =>
                   /\ keeper.mark = Report(s).mark
                   /\ Report(s).path # "convert" => ~keeper.pending]}

\* registerPaperGasEvidence and its three siblings: a report already there is
\* answered with its version, an older sample or a replaced source refused.
Register(s) ==
    /\ sampler[s].pc = "read"
    /\ LET create == Matching(s) = {} /\ SampleNewer(s) /\ AnchorsHold(s) IN
       IF create THEN InsertRows(s) ELSE UNCHANGED gasRows
    /\ sampler' = [sampler EXCEPT ![s] =
         IF Matching(s) # {} \/ (SampleNewer(s) /\ AnchorsHold(s))
         THEN [@ EXCEPT !.pc = "imported", !.seen = {}, !.verifiedAt = 0] ELSE IdleSampler]
    /\ UNCHANGED <<gasNow, gasForks, keeper, reports, prepared>>

----------------------------------------------------------------------------
(* Costing a preview                                                        *)

\* Mutant: the first version found is kept.
OldestVersion(rows) == CHOOSE row \in rows : \A o \in rows : row.version <= o.version

NewestVersion(rows) == CHOOSE row \in rows : \A o \in rows : row.version >= o.version

\* The RangeKeeper's rows must also be at the candidate's source; the
\* prospective ones are the report's own.
FreshRow(row) == Age(row.report.sampledAt) <= RowTtl
AtSource(s, row) == Report(s).path \in {"open", "exit"} => SameBlock(row.report, Report(s))
OfReport(s) == {row \in RowsOf("prestate") : row.report.id = Report(s).id}

costIndicativePaperOpenPreview(s) ==
    NewestVersion(IF Report(s).path = "prestate" THEN OfReport(s) ELSE RowsOf(Report(s).path))

\* The preview is rebuilt from whatever is newest by then.
prepareStaticPaperGasForCandidate(s) ==
    LET row == costIndicativePaperOpenPreview(s) IN
    /\ sampler[s].pc = "imported"
    /\ prepared' = IF Age(Report(s).block) <= SourceTtl /\ FreshRow(row) /\ AtSource(s, row)
                   THEN row.report.sampledAt - Report(s).sampledAt ELSE 0
    /\ sampler' = [sampler EXCEPT ![s] = IdleSampler]
    /\ UNCHANGED <<gasNow, gasForks, gasRows, keeper, reports>>

----------------------------------------------------------------------------
(* The campaign, the clock and the chain                                    *)

\* Mutant: the campaign row is not locked by a registration.
Unlocked == TRUE

\* Every writer of the campaign takes it FOR UPDATE.
CampaignUnlocked ==
    \A s \in Samplers : ~(sampler[s].pc \in InTransaction /\ OfCampaign(Report(s).path))

\* Bounds: the clock stands still before the first sample, the
\* campaign while its state is of no concern to the path measured.
Started == Narrow => reports > 0
CampaignMatters == Narrow =>
    \A r \in {Report(s) : s \in Samplers} \cup {row.report : row \in gasRows} :
      r = NoReport \/ OfCampaign(r.path)

AcceptOperation ==
    /\ CampaignMatters /\ CampaignUnlocked /\ ~keeper.pending /\ keeper.life # "closed"
    /\ keeper' = [keeper EXCEPT !.pending = TRUE]
    /\ UNCHANGED <<gasNow, gasForks, gasRows, reports, sampler, prepared>>

CompleteOperation ==
    /\ CampaignMatters /\ CampaignUnlocked /\ keeper.pending /\ keeper.mark < MaxMark
    /\ \E life \in (CASE keeper.life = "draft" -> {"active"}
                      [] keeper.life = "active" -> {"active", "closing"}
                      [] OTHER -> {"closed"}) :
         keeper' = [life |-> life, pending |-> FALSE, mark |-> keeper.mark + 1]
    /\ UNCHANGED <<gasNow, gasForks, gasRows, reports, sampler, prepared>>

\* A maintenance pass.
WriteMark ==
    /\ CampaignMatters /\ CampaignUnlocked /\ ~keeper.pending /\ keeper.life = "active" /\ keeper.mark < MaxMark
    /\ keeper' = [keeper EXCEPT !.mark = @ + 1]
    /\ UNCHANGED <<gasNow, gasForks, gasRows, reports, sampler, prepared>>

GasTick ==
    /\ Started /\ gasNow < MaxGasTime
    /\ gasNow' = gasNow + 1
    /\ UNCHANGED <<gasForks, gasRows, keeper, reports, sampler, prepared>>

\* Blocks from `from` on are replaced: sources there are orphaned.
GasReorg ==
    /\ gasForks < MaxGasForks
    /\ \E from \in {Report(s).block : s \in {o \in Samplers : sampler[o].pc # "idle"}} :
         LET Cut(r) == [r EXCEPT !.orphan = @ \/ (r.id > 0 /\ r.block >= from)] IN
         /\ sampler' = [s \in Samplers |-> [sampler[s] EXCEPT !.report = Cut(@),
                          !.seen = {[row EXCEPT !.report = Cut(@)] : row \in @}]]
         /\ gasRows' = {[row EXCEPT !.report = Cut(@)] : row \in gasRows}
    /\ gasForks' = gasForks + 1
    /\ UNCHANGED <<gasNow, keeper, reports, prepared>>

SamplerStep(s) ==
    \/ \E path \in Paths : StartSample(s, path)
    \/ \E o \in Samplers \ {s} : RetryReport(s, o)
    \/ sampleStaticPaperGas(s) \/ produceRangeKeeperPaperGasEvidence(s)
    \/ verifyPaperGasSource(s) \/ verifyFeeReplay(s)
    \/ CheckAges(s) \/ LockBand(s) \/ verifyRangeKeeperPaperGasEvidenceSource(s)
    \/ ReadExisting(s) \/ Register(s) \/ prepareStaticPaperGasForCandidate(s)

GasNext ==
    \/ \E s \in Samplers : SamplerStep(s)
    \/ AcceptOperation \/ CompleteOperation \/ WriteMark \/ GasTick \/ GasReorg

GasSpec == GasInit /\ [][GasNext]_gasVars

----------------------------------------------------------------------------
(***************************************************************************)
(* The version order of a path's rows is the order they were sampled in,    *)
(* though samplers register concurrently and out of order; the selectors    *)
(* take the newest version for the latest sample (sample_not_newer).        *)
(***************************************************************************)
NewestIsLatest ==
    \A r1, r2 \in gasRows :
      (r1.report.path = r2.report.path /\ r1.report.path # "prestate" /\ r1.version < r2.version) =>
        r1.report.sampledAt < r2.report.sampledAt

(***************************************************************************)
(* A report is registered once, whoever retries it at the same time: its    *)
(* stages have one version and no two reports share one (the advisory lock  *)
(* around the read of the existing rows).                                   *)
(***************************************************************************)
ReportOnce ==
    \A r1, r2 \in gasRows :
      (r1.report.id = r2.report.id \/ (r1.report.path = r2.report.path /\ r1.version = r2.version)) =>
        r1 = r2

(***************************************************************************)
(* Rows that price an exit were inserted while the mark they were sampled   *)
(* from was still the campaign's latest and, but for the close-convert      *)
(* ones, no operation was pending (FOR SHARE OF c).                         *)
(***************************************************************************)
ExitFitsCampaign == \A row \in gasRows : row.fits

(***************************************************************************)
(* A preview prepared by importing a sample is never costed from an older   *)
(* one, even when another sampler registered meanwhile                      *)
(* (prepareStaticPaperGasForCandidate).                                     *)
(***************************************************************************)
PreparedFromOwnOrNewer == prepared >= 0

\* Registered gas evidence is versioned in sampling order, registered once,
\* fits the campaign it was measured for, and prices a preview with the
\* imported sample or a newer one.
GasRowsSound ==
    /\ NewestIsLatest
    /\ ReportOnce
    /\ ExitFitsCampaign
    /\ PreparedFromOwnOrNewer
============================================================================

------------------------- MODULE AccountingEvidence -------------------------
(***************************************************************************)
(* Fee accounting and what is computed from it: principal, NFT snapshots,   *)
(* the stable-fee baseline, the range simulation and the policy replay      *)
(* (src/src/accounting, nft, backtest, simulator and their commands).       *)
(*                                                                          *)
(* The chain is a sequence of blocks, each with the fork that produced it   *)
(* and what it does to the pool: nothing, a swap that leaves the range, or  *)
(* a mint or burn that touches the position.  The commands read it by block *)
(* number, one call after the other; the event rows come from the tail,     *)
(* which deletes and rescans its overlap in every cycle.                    *)
(***************************************************************************)
EXTENDS Integers, Sequences, SequencesExt, FiniteSets, FiniteSetsExt

CONSTANTS
    Clerks,               \* commands that run at the same time
    Overlap,              \* INDEXER_REORG_OVERLAP
    MaxBlock, MaxForks, MaxRuns, MaxResults   \* bounds

VARIABLES
    blocks,        \* the canonical chain
    forks,         \* forks so far
    rows,          \* v3_pool_events: the blocks scanned, by number
    scan,          \* indexer_cursors
    replayAt,      \* v3_replay_cursors
    feeRuns,       \* v3_fee_accounting_runs
    principals,    \* v3_principal_accounting_runs
    nfts,          \* v3_nft_position_snapshots
    results,       \* baseline, simulation and policy-replay runs
    clerk          \* each command

acctVars == <<blocks, forks, rows, scan, replayAt, feeRuns, principals, nfts,
              results, clerk>>

Kinds == {"quiet", "swap", "touch"}
NoCursor == [at |-> 0, fork |-> 0]
Free == [pc |-> "free", kind |-> "none", at |-> 0, fork |-> 0, past |-> <<>>,
         pool |-> 0, ticks |-> 0, positions |-> 0, run |-> 0, from |-> 0,
         todo |-> {}, path |-> {}]

AcctInit ==
    /\ blocks = <<[fork |-> 0, kind |-> "quiet"]>>
    /\ forks = 0 /\ rows = <<>>
    /\ scan = NoCursor /\ replayAt = NoCursor
    /\ feeRuns = <<>> /\ principals = {} /\ nfts = {} /\ results = {}
    /\ clerk = [c \in Clerks |-> Free]

CursorAt(height) == IF height = 0 THEN NoCursor
                    ELSE [at |-> height, fork |-> blocks[height].fork]
Touches(past) == Cardinality({h \in DOMAIN past : past[h].kind = "touch"})
Canonical(at, fork) == at <= Len(blocks) /\ blocks[at].fork = fork

\* Bound: what the commands may still store.
MayStore == Cardinality(principals) + Cardinality(nfts) + Cardinality(results) < MaxResults

Step(c, state) == clerk' = [clerk EXCEPT ![c] = state]

----------------------------------------------------------------------------
(* accounting:snapshot                                                      *)

\* readSource: one snapshot in which both cursors must name the same block.
readSource(c) ==
    /\ clerk[c].pc = "free" /\ Len(feeRuns) < MaxRuns
    /\ scan.at > 0 /\ scan = replayAt
    /\ Step(c, [Free EXCEPT !.pc = "before", !.at = scan.at, !.fork = scan.fork,
                            !.past = rows])
    /\ UNCHANGED <<blocks, forks, rows, scan, replayAt, feeRuns, principals, nfts, results>>

\* requireCanonicalBlock, before the reads.
requireCanonicalBlock(c) ==
    /\ clerk[c].pc = "before"
    /\ Step(c, IF Canonical(clerk[c].at, clerk[c].fork)
               THEN [clerk[c] EXCEPT !.pc = "pool"] ELSE Free)
    /\ UNCHANGED <<blocks, forks, rows, scan, replayAt, feeRuns, principals, nfts, results>>

\* Each read goes to the block with the source's number, whatever its fork; price,
\* liquidity and tick must agree with the replay, or the command fails.
ForkNow(c) == blocks[clerk[c].at].fork

readPool(c) ==
    /\ clerk[c].pc = "pool"
    /\ \/ Step(c, [clerk[c] EXCEPT !.pc = "ticks", !.pool = ForkNow(c)])
       \/ ForkNow(c) # clerk[c].fork /\ Step(c, Free)
    /\ UNCHANGED <<blocks, forks, rows, scan, replayAt, feeRuns, principals, nfts, results>>

readTick(c) ==
    /\ clerk[c].pc = "ticks"
    /\ \/ Step(c, [clerk[c] EXCEPT !.pc = "positions", !.ticks = ForkNow(c)])
       \/ ForkNow(c) # clerk[c].fork /\ Step(c, Free)
    /\ UNCHANGED <<blocks, forks, rows, scan, replayAt, feeRuns, principals, nfts, results>>

readPosition(c) ==
    /\ clerk[c].pc = "positions"
    /\ \/ Step(c, [clerk[c] EXCEPT !.pc = "after", !.positions = ForkNow(c)])
       \/ ForkNow(c) # clerk[c].fork /\ Step(c, Free)
    /\ UNCHANGED <<blocks, forks, rows, scan, replayAt, feeRuns, principals, nfts, results>>

\* Mutant: the source's block is only checked before the reads.
Unchecked(at, fork) == TRUE

StillCanonical(at, fork) == Canonical(at, fork)

\* collectFeeAccountingSnapshot's last check.
collectFeeAccountingSnapshot(c) ==
    /\ clerk[c].pc = "after"
    /\ Step(c, IF StillCanonical(clerk[c].at, clerk[c].fork)
               THEN [clerk[c] EXCEPT !.pc = "save"] ELSE Free)
    /\ UNCHANGED <<blocks, forks, rows, scan, replayAt, feeRuns, principals, nfts, results>>

\* A second run of the same block and hash keeps the first.
saveFeeRun(c) ==
    /\ clerk[c].pc = "save"
    /\ feeRuns' = IF \E i \in DOMAIN feeRuns : /\ feeRuns[i].at = clerk[c].at
                                               /\ feeRuns[i].fork = clerk[c].fork
                  THEN feeRuns
                  ELSE Append(feeRuns, [at |-> clerk[c].at, fork |-> clerk[c].fork,
                         pool |-> clerk[c].pool, ticks |-> clerk[c].ticks,
                         positions |-> clerk[c].positions, past |-> clerk[c].past])
    /\ Step(c, Free)
    /\ UNCHANGED <<blocks, forks, rows, scan, replayAt, principals, nfts, results>>

----------------------------------------------------------------------------
(* principal:reconstruct and nft:snapshot                                   *)

\* ORDER BY block_number, id.
After(i, j) == \/ feeRuns[i].at > feeRuns[j].at
               \/ feeRuns[i].at = feeRuns[j].at /\ i > j
Newest(runs) == CHOOSE i \in runs : \A j \in runs \ {i} : After(i, j)

\* Mutant: a run is taken without asking for its block.
AnyRun(i) == TRUE

validateAccountingRun(i) == Canonical(feeRuns[i].at, feeRuns[i].fork)

\* The newest run, one named by the operator or every one that misses its
\* principal; one that fails ends the command.
runIds(c) ==
    /\ clerk[c].pc = "free" /\ feeRuns # <<>> /\ MayStore
    /\ \E i \in DOMAIN feeRuns :
         Step(c, [Free EXCEPT !.pc = "validate", !.kind = "principal", !.run = i,
                              !.todo = {i}])
    /\ UNCHANGED <<blocks, forks, rows, scan, replayAt, feeRuns, principals, nfts, results>>

savePrincipal(c) ==
    /\ clerk[c].pc = "evaluate" /\ clerk[c].kind = "principal"
    /\ principals' = principals \cup {clerk[c].run}
    /\ Step(c, Free)
    /\ UNCHANGED <<blocks, forks, rows, scan, replayAt, feeRuns, nfts, results>>

loadNftSource(c) ==
    /\ clerk[c].pc = "free" /\ feeRuns # <<>> /\ MayStore
    /\ LET i == Newest(DOMAIN feeRuns) IN
       Step(c, [Free EXCEPT !.pc = "validate", !.kind = "nft", !.run = i,
                            !.at = feeRuns[i].at, !.fork = feeRuns[i].fork, !.todo = {i}])
    /\ UNCHANGED <<blocks, forks, rows, scan, replayAt, feeRuns, principals, nfts, results>>

\* ownerOf and positions by number.
readNftPosition(c) ==
    /\ clerk[c].pc = "evaluate" /\ clerk[c].kind = "nft"
    /\ Step(c, [clerk[c] EXCEPT !.pc = "recheck", !.positions = ForkNow(c)])
    /\ UNCHANGED <<blocks, forks, rows, scan, replayAt, feeRuns, principals, nfts, results>>

collectNftPositionSnapshots(c) ==
    /\ clerk[c].pc = "recheck"
    /\ Step(c, IF StillCanonical(clerk[c].at, clerk[c].fork)
               THEN [clerk[c] EXCEPT !.pc = "save_nft"] ELSE Free)
    /\ UNCHANGED <<blocks, forks, rows, scan, replayAt, feeRuns, principals, nfts, results>>

saveNft(c) ==
    /\ clerk[c].pc = "save_nft"
    /\ nfts' = IF \E n \in nfts : n.run = clerk[c].run THEN nfts
               ELSE nfts \cup {[run |-> clerk[c].run, seen |-> clerk[c].positions]}
    /\ Step(c, Free)
    /\ UNCHANGED <<blocks, forks, rows, scan, replayAt, feeRuns, principals, results>>

----------------------------------------------------------------------------
(* backtest:baseline, simulate and policy-replay                            *)

\* The kinds of the rows that the table holds between two blocks.
RowKinds(low, high) == {rows[h].kind : h \in {k \in DOMAIN rows : k > low /\ k <= high}}

\* loadRuns or an explicit pair, and the events between, in one snapshot.
LoadPair(c, kind) ==
    /\ clerk[c].pc = "free" /\ Len(feeRuns) > 1 /\ MayStore
    /\ LET to == Newest(DOMAIN feeRuns)
           from == Newest(DOMAIN feeRuns \ {to})
       IN  Step(c, [Free EXCEPT !.pc = "validate", !.kind = kind, !.run = to,
                      !.from = from, !.todo = {from, to},
                      !.path = RowKinds(feeRuns[from].at, feeRuns[to].at)])
    /\ UNCHANGED <<blocks, forks, rows, scan, replayAt, feeRuns, principals, nfts, results>>

loadBaseline(c) == LoadPair(c, "baseline")
loadSimulation(c) == LoadPair(c, "simulation")
loadPolicyReplay(c) == LoadPair(c, "policy")

\* The getBlock calls of validateBaselineSource, validateRangeSimulationSource
\* and validateRangePolicyReplaySource end in any order.
ValidateSource(c) ==
    /\ clerk[c].pc = "validate"
    /\ \E i \in clerk[c].todo :
         Step(c, IF ~validateAccountingRun(i) THEN Free
                 ELSE [clerk[c] EXCEPT !.todo = @ \ {i},
                         !.pc = IF clerk[c].todo = {i} THEN "evaluate" ELSE "validate"])
    /\ UNCHANGED <<blocks, forks, rows, scan, replayAt, feeRuns, principals, nfts, results>>

Ordered(c) == feeRuns[clerk[c].from].at < feeRuns[clerk[c].run].at

\* Mutant: a position without a mint or burn row is taken as untouched.
RowsTrusted(c) == TRUE

\* Without a mint or burn row the position must be the same at both ends.
Unchanged(c) ==
    "touch" \in clerk[c].path
    \/ Touches(feeRuns[clerk[c].from].past) = Touches(feeRuns[clerk[c].run].past)

SaveResult(c, outcome) ==
    /\ results' = IF \E r \in results : /\ r.kind = clerk[c].kind
                                        /\ r.from = clerk[c].from /\ r.to = clerk[c].run
                  THEN results
                  ELSE results \cup {[kind |-> clerk[c].kind, from |-> clerk[c].from,
                                      to |-> clerk[c].run, outcome |-> outcome]}
    /\ Step(c, Free)
    /\ UNCHANGED <<blocks, forks, rows, scan, replayAt, feeRuns, principals, nfts>>

saveBaseline(c) == SaveResult(c, IF "touch" \in clerk[c].path THEN "touched" ELSE "stable")

buildStableFeeBaseline(c) ==
    /\ clerk[c].pc = "evaluate" /\ clerk[c].kind = "baseline"
    /\ Ordered(c) /\ Unchanged(c)
    /\ saveBaseline(c)

simulateStaticCenteredRanges(c) ==
    /\ clerk[c].pc = "evaluate" /\ clerk[c].kind = "simulation"
    /\ Ordered(c)
    /\ SaveResult(c, IF "swap" \in clerk[c].path THEN "excluded" ELSE "complete")

savePolicyReplay(c, enough) ==
    SaveResult(c, IF "swap" \in clerk[c].path \/ ~enough THEN "excluded" ELSE "complete")

\* The budget may also be too small, or a rebalance exhaust it.
replayRangePolicies(c) ==
    /\ clerk[c].pc = "evaluate" /\ clerk[c].kind = "policy"
    /\ Ordered(c)
    /\ \E enough \in BOOLEAN : savePolicyReplay(c, enough)

RejectPair(c) ==
    /\ clerk[c].pc = "evaluate" /\ clerk[c].kind \in {"baseline", "simulation", "policy"}
    /\ ~Ordered(c) \/ (clerk[c].kind = "baseline" /\ ~Unchanged(c))
    /\ Step(c, Free)
    /\ UNCHANGED <<blocks, forks, rows, scan, replayAt, feeRuns, principals, nfts, results>>

----------------------------------------------------------------------------
(* The chain and the tail.                                                  *)

Produce ==
    /\ Len(blocks) < MaxBlock
    /\ \E kind \in Kinds : blocks' = Append(blocks, [fork |-> forks, kind |-> kind])
    /\ UNCHANGED <<forks, rows, scan, replayAt, feeRuns, principals, nfts, results, clerk>>

\* A deep reorganisation, below the blocks the tail takes for final.
ReplaceTip ==
    /\ forks < MaxForks
    /\ forks' = forks + 1
    /\ \E h \in DOMAIN blocks, kind \in Kinds :
         blocks' = [i \in DOMAIN blocks |->
                      IF i < h THEN blocks[i] ELSE [fork |-> forks + 1, kind |-> kind]]
    /\ UNCHANGED <<rows, scan, replayAt, feeRuns, principals, nfts, results, clerk>>

\* runBackfill starts with a rewind of its overlap, or further when the fork
\* is deeper.
RewindOverlap ==
    /\ rows # <<>>
    /\ LET base == Max({h \in 0..Len(rows) : /\ h <= Max({0, Len(rows) - Overlap})
                                             /\ \A i \in 1..h : rows[i] = blocks[i]})
       IN  rows' = SubSeq(rows, 1, base) /\ scan' = CursorAt(base)
    /\ UNCHANGED <<blocks, forks, replayAt, feeRuns, principals, nfts, results, clerk>>

Rescan ==
    /\ Len(rows) < Len(blocks) /\ \A i \in DOMAIN rows : rows[i] = blocks[i]
    /\ rows' = blocks /\ scan' = CursorAt(Len(blocks))
    /\ UNCHANGED <<blocks, forks, replayAt, feeRuns, principals, nfts, results, clerk>>

ReplayEvents ==
    /\ replayAt # scan
    /\ replayAt' = scan
    /\ UNCHANGED <<blocks, forks, rows, scan, feeRuns, principals, nfts, results, clerk>>

AcctNext ==
    \/ \E c \in Clerks :
         \/ readSource(c) \/ requireCanonicalBlock(c) \/ readPool(c) \/ readTick(c)
         \/ readPosition(c) \/ collectFeeAccountingSnapshot(c) \/ saveFeeRun(c)
         \/ runIds(c) \/ savePrincipal(c) \/ loadNftSource(c) \/ readNftPosition(c)
         \/ collectNftPositionSnapshots(c) \/ saveNft(c)
         \/ loadBaseline(c) \/ loadSimulation(c) \/ loadPolicyReplay(c)
         \/ ValidateSource(c) \/ buildStableFeeBaseline(c)
         \/ simulateStaticCenteredRanges(c) \/ replayRangePolicies(c) \/ RejectPair(c)
    \/ Produce \/ ReplaceTip \/ RewindOverlap \/ Rescan \/ ReplayEvents

----------------------------------------------------------------------------
(***************************************************************************)
(* A snapshot is many reads by number with a block check before and after:  *)
(* every read that a stored accounting run or NFT snapshot rests on comes   *)
(* from the fork of the block it names (collectFeeAccountingSnapshot,       *)
(* collectNftPositionSnapshots).                                            *)
(***************************************************************************)
ReadsOfOneFork ==
    /\ \A i \in DOMAIN feeRuns :
         {feeRuns[i].pool, feeRuns[i].ticks, feeRuns[i].positions} = {feeRuns[i].fork}
    /\ \A n \in nfts : n.seen = feeRuns[n.run].fork

(***************************************************************************)
(* Two runs may have been taken on two forks: the ends of every baseline,   *)
(* simulation and policy replay lie on one chain, the first before the      *)
(* second (validateBaselineSource, validateRangeSimulationSource).          *)
(***************************************************************************)
EndsOnOneChain ==
    \A r \in results :
      LET from == feeRuns[r.from]  to == feeRuns[r.to]
      IN  from.at < to.at /\ to.past[from.at].fork = from.fork

(***************************************************************************)
(* The tail deletes the rows of its overlap in every cycle, and a load may  *)
(* fall in between: a position that the baseline counts as stable was not   *)
(* touched between the ends all the same (buildStableFeeBaseline).          *)
(***************************************************************************)
StableIsUntouched ==
    \A r \in results : r.outcome = "stable" =>
      \A h \in feeRuns[r.from].at + 1..feeRuns[r.to].at :
        feeRuns[r.to].past[h].kind # "touch"

(***************************************************************************)
(* What simulateStaticCenteredRanges states of its result,                  *)
(* "crossed_range_paths_excluded": a completed candidate's range was not    *)
(* left between the ends.                                                   *)
(***************************************************************************)
CrossedPathsExcluded ==
    \A r \in results : r.outcome = "complete" =>
      \A h \in feeRuns[r.from].at + 1..feeRuns[r.to].at :
        feeRuns[r.to].past[h].kind # "swap"

\* A figure of the fee accounting rests on reads of one fork, compares runs
\* of one chain, and calls a position stable only if nothing touched it.
AccountsOnOneChain == ReadsOfOneFork /\ EndsOnOneChain /\ StableIsUntouched
============================================================================

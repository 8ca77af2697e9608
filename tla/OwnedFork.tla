------------------------------ MODULE OwnedFork ------------------------------
(***************************************************************************)
(* The gas samplers (src/src/deployments/...gas-sampler.ts and the prestate   *)
(* sampler): a campaign's exact sequence of transactions, run on a local    *)
(* fork pinned to one source block (src/src/paper/fork.ts), every           *)
(* transaction priced by concurrent reads of the upstream node, which are   *)
(* by block NUMBER while the chain may replace that block.                  *)
(*                                                                          *)
(* Amounts are small integers: an allocation of Units, a saved swap of one  *)
(* token for the other, what the mint takes and what the withdrawal gives.  *)
(***************************************************************************)
EXTENDS Integers, Sequences, FiniteSets

CONSTANTS
    Units,          \* the raw amount of the allocation
    Cap,            \* maxDeploymentValue in units of the acquired token
    MaxRequests,    \* upstream read budget of one fork
    Readers,        \* reads a priced transaction makes at once
    MaxReplaced     \* bound: replacements of the source block

ASSUME ForkAssumption == Units \in Nat /\ Cap \in Nat

VARIABLES
    upstream,       \* the fork the node's source block is on, 0 the pinned one
    requests,       \* budget.requests
    reader,         \* the concurrent reads of the transaction being priced
    probe           \* the sampler

forkVars == <<upstream, requests, reader, probe>>

Token == {0, 1}
Other(t) == 1 - t
Spender == {"manager", "router"}

\* The frozen candidate: funding, the saved entry swap (in = 0: none), the
\* mint's amounts (the planner keeps their value within maxDeploymentValue) and
\* the withdrawal's, which a price move turns around.
Candidates ==
    {c \in [funds : [Token -> 0..Units], token : Token, in : 0..Units, out : 0..1,
            mint : [Token -> 0..Units], moved : BOOLEAN] :
       /\ c.funds[0] + c.funds[1] = Units
       /\ c.in <= c.funds[c.token] /\ (c.in = 0) = (c.out = 0)
       /\ c.in = 0 => c.token = 0
       /\ \A t \in Token : c.mint[t] <= c.funds[t] - (IF c.in > 0 /\ t = c.token THEN c.in ELSE 0)
                                        + (IF t # c.token THEN c.out ELSE 0)
       /\ c.mint[0] + c.mint[1] \in 1..Cap}

rangeKeeperPaperCandidateFunding(c) ==
    [t \in Token |-> IF t = c.token THEN c.funds[t] - c.in ELSE c.funds[t] + c.out]

Larger(a, b) == IF a > b THEN a ELSE b
NoAllowance == [s \in Spender |-> [t \in Token |-> 0]]

FutureCap(c, t) == IF c.in > 0 /\ t # c.token THEN Larger(c.funds[t], Cap) ELSE c.funds[t]

\* Mutant: the entry swap's use of the router allowance is forgotten.
EntrySwapForgotten(c) ==
    [manager |-> [t \in Token |-> FutureCap(c, t) - c.mint[t]],
     router |-> [t \in Token |-> IF c.in > 0 /\ t = c.token THEN c.funds[t] ELSE 0]]

\* What the entry left behind, worked out again for an exit.
rangeKeeperPaperTerminalAllowances(c) ==
    [manager |-> [t \in Token |-> FutureCap(c, t) - c.mint[t]],
     router |-> [t \in Token |-> IF c.in > 0 /\ t = c.token THEN c.funds[t] - c.in ELSE 0]]

IdleTokens(c) == [t \in Token |-> rangeKeeperPaperCandidateFunding(c)[t] - c.mint[t]]
Principal(c) == [t \in Token |-> IF c.moved THEN c.mint[Other(t)] ELSE c.mint[t]]

----------------------------------------------------------------------------
(* The stage sequences                                                      *)

Approve(s, t, a) == [op |-> "approve", spender |-> s, token |-> t, amount |-> a]
Mint == [op |-> "mint", spender |-> "manager", token |-> 0, amount |-> 0]
Withdraw == [op |-> "withdraw", spender |-> "manager", token |-> 0, amount |-> 0]
Swap(t, a) == [op |-> "swap", spender |-> "router", token |-> t, amount |-> a]

CleanManager == <<Approve("manager", 0, 0), Approve("manager", 1, 0)>>
CleanRouter == <<Approve("router", 0, 0), Approve("router", 1, 0)>>

\* Mutant: the router is left its allowance.
ManagerOnly == <<Withdraw>> \o CleanManager

RANGEKEEPER_PAPER_RETAIN_EXIT_STAGES == <<Withdraw>> \o CleanRouter \o CleanManager

RANGEKEEPER_PAPER_OPEN_STAGES_NO_SWAP(c) ==
    <<Approve("manager", 0, c.funds[0]), Approve("manager", 1, c.funds[1]), Mint>>

RANGEKEEPER_PAPER_OPEN_STAGES_SWAP(c) ==
    <<Approve("manager", c.token, c.funds[c.token]),
      Approve("manager", Other(c.token), FutureCap(c, Other(c.token))),
      Approve("router", c.token, c.funds[c.token]), Swap(c.token, c.in), Mint>>

\* The whole balance of the risk token is converted: the quote is frozen.
Converted(c, risk) == IdleTokens(c)[risk] + Principal(c)[risk]

RANGEKEEPER_PAPER_CONVERT_EXIT_STAGES(c, risk) ==
    <<Withdraw, Approve("router", risk, Converted(c, risk)), Swap(risk, Converted(c, risk))>>
      \o CleanRouter \o CleanManager

PAPER_STATIC_GAS_STAGES(c) ==
    <<Approve("manager", 0, c.mint[0]), Approve("manager", 1, c.mint[1]), Mint, Withdraw>>
      \o CleanManager

PAPER_STATIC_CONVERT_GAS_STAGES_V2(c, risk) ==
    <<Withdraw, Approve("router", risk, Converted(c, risk)), Swap(risk, Converted(c, risk))>>
      \o CleanManager \o CleanRouter

SamplerKinds == {"static", "open", "retain_exit", "convert_exit", "static_convert", "prestate"}
StaticConvert == {"static_convert", "prestate"}
Converts(kind) == kind \in {"convert_exit"} \cup StaticConvert

Stages(kind, c, risk) ==
    CASE kind = "static" -> PAPER_STATIC_GAS_STAGES(c)
      [] kind = "open" /\ c.in = 0 -> RANGEKEEPER_PAPER_OPEN_STAGES_NO_SWAP(c)
                                        \o RANGEKEEPER_PAPER_RETAIN_EXIT_STAGES
      [] kind = "open" /\ c.in > 0 -> RANGEKEEPER_PAPER_OPEN_STAGES_SWAP(c)
                                        \o RANGEKEEPER_PAPER_RETAIN_EXIT_STAGES
      [] kind = "retain_exit" -> RANGEKEEPER_PAPER_RETAIN_EXIT_STAGES
      [] kind = "convert_exit" -> RANGEKEEPER_PAPER_CONVERT_EXIT_STAGES(c, risk)
      [] kind \in StaticConvert -> PAPER_STATIC_CONVERT_GAS_STAGES_V2(c, risk)

----------------------------------------------------------------------------
NoCandidate == [funds |-> [t \in Token |-> 0], token |-> 0, in |-> 0, out |-> 0,
                mint |-> [t \in Token |-> 0], moved |-> FALSE]
IdleProbe == [status |-> "idle", kind |-> "static", c |-> NoCandidate, risk |-> 0, stage |-> 1,
              wallet |-> [t \in Token |-> 0], allow |-> NoAllowance, nft |-> FALSE,
              seen |-> {}]

ForkInit ==
    /\ upstream = 0 /\ requests = 0 /\ reader = [r \in Readers |-> "idle"] /\ probe = IdleProbe

MayRead == requests < MaxRequests

\* openPaperFork: the hints fetched between two anchors, then the local node's
\* own fork point; every one of these is a read of the budget.
StartProbe ==
    /\ probe.status = "idle"
    /\ \E kind \in SamplerKinds, c \in Candidates, risk \in Token :
         /\ kind = "static" => c.in = 0
         /\ Converts(kind) => Converted(c, risk) > 0
         /\ ~Converts(kind) => risk = 0
         /\ probe' = [IdleProbe EXCEPT !.status = "prefetch", !.kind = kind, !.c = c, !.risk = risk]
    /\ UNCHANGED <<upstream, requests, reader>>

fetchFreshForkReadPrefetch ==
    /\ probe.status = "prefetch"
    /\ requests' = requests + 1
    /\ probe' = [probe EXCEPT !.status = "anchor", !.seen = @ \cup {upstream}]
    /\ UNCHANGED <<upstream, reader>>

\* The fixture: the draft's allocation for an entry, the restored position
\* with its idle tokens and the allowances of the entry for an exit.
Funded ==
    LET c == probe.c IN
    CASE probe.kind = "static" -> [probe EXCEPT !.wallet = c.mint]
      [] probe.kind = "open" -> [probe EXCEPT !.wallet = c.funds]
      [] probe.kind \in StaticConvert ->
           [probe EXCEPT !.wallet = IdleTokens(c), !.nft = TRUE,
                         !.allow = [NoAllowance EXCEPT !["manager"] = IdleTokens(c)]]
      [] OTHER -> [probe EXCEPT !.wallet = IdleTokens(c), !.nft = TRUE,
                                !.allow = rangeKeeperPaperTerminalAllowances(c)]

openPaperFork ==
    /\ probe.status = "anchor"
    /\ requests' = IF MayRead THEN requests + 1 ELSE requests
    /\ probe' = IF MayRead /\ upstream = 0
                THEN [Funded EXCEPT !.status = "stage", !.seen = @ \cup {upstream}]
                ELSE [probe EXCEPT !.status = "failed"]
    /\ UNCHANGED <<upstream, reader>>

Left == probe.stage <= Len(Stages(probe.kind, probe.c, probe.risk))
Pricing == probe.status = "stage" /\ Left

\* read: looked at and counted before the first await.
CountRead(r) ==
    /\ reader' = [reader EXCEPT ![r] = IF MayRead THEN "issued" ELSE "failed"]
    /\ requests' = IF MayRead THEN requests + 1 ELSE requests

IssueRead(r) ==
    /\ Pricing /\ reader[r] = "idle"
    /\ CountRead(r)
    /\ UNCHANGED <<upstream, probe>>

AnswerRead(r) ==
    /\ Pricing /\ reader[r] = "issued"
    /\ \/ /\ reader' = [reader EXCEPT ![r] = "done"]
          /\ probe' = [probe EXCEPT !.seen = @ \cup {upstream}]
       \/ reader' = [reader EXCEPT ![r] = "failed"] /\ UNCHANGED probe
    /\ UNCHANGED <<upstream, requests>>

Settled == \A r \in Readers : reader[r] \in {"done", "failed"}

\* The effect of one transaction on the local fork; a call that lacks its
\* allowance or balance reverts.
Runs(s) ==
    CASE s.op = "mint" -> \A t \in Token : /\ probe.wallet[t] >= probe.c.mint[t]
                                           /\ probe.allow.manager[t] >= probe.c.mint[t]
      [] s.op = "withdraw" -> probe.nft
      [] s.op = "swap" -> /\ probe.wallet[s.token] >= s.amount
                          /\ probe.allow.router[s.token] >= s.amount
      [] OTHER -> TRUE

AfterStage(s) ==
    CASE s.op = "approve" -> [probe EXCEPT !.allow[s.spender][s.token] = s.amount]
      [] s.op = "mint" -> [probe EXCEPT !.nft = TRUE,
             !.wallet = [t \in Token |-> @[t] - probe.c.mint[t]],
             !.allow.manager = [t \in Token |-> @[t] - probe.c.mint[t]]]
      [] s.op = "withdraw" -> [probe EXCEPT !.nft = FALSE,
             !.wallet = [t \in Token |-> @[t] + Principal(probe.c)[t]]]
      [] s.op = "swap" -> [probe EXCEPT
             !.wallet = [t \in Token |-> IF t = s.token THEN @[t] - s.amount
                                        ELSE @[t] + (IF probe.kind = "open" THEN probe.c.out ELSE 1)],
             !.allow.router[s.token] = @ - s.amount]

simulatePaperTransaction ==
    LET s == Stages(probe.kind, probe.c, probe.risk)[probe.stage] IN
    /\ Pricing /\ Settled
    /\ reader' = [r \in Readers |-> "idle"]
    /\ \/ /\ \E r \in Readers : reader[r] = "failed"
          /\ probe' = [probe EXCEPT !.status = "failed"]
       \/ /\ \A r \in Readers : reader[r] = "done"
          /\ probe' = IF Runs(s) THEN [AfterStage(s) EXCEPT !.stage = @ + 1]
                      ELSE [probe EXCEPT !.status = "refused"]
    /\ UNCHANGED <<upstream, requests>>

\* The samplers' own assertions on what the sequence left behind; the static
\* one looks at the position only.
Retired ==
    /\ ~probe.nft
    /\ probe.kind # "static" => probe.allow = NoAllowance
    /\ Converts(probe.kind) => probe.wallet[probe.risk] = 0

\* Mutant: the source block is not looked at again.
NeverRead == TRUE

SourceStillPinned == upstream = 0

\* The samplers end with one more read of the pinned block, except the static
\* close-convert one, whose report relies on the source check before import.
ReadsPinned == probe.kind # "static_convert"

FinishProbe ==
    /\ probe.status = "stage" /\ ~Left
    /\ requests' = IF ReadsPinned /\ MayRead THEN requests + 1 ELSE requests
    /\ probe' = [probe EXCEPT !.status =
                   IF ~Retired THEN "refused"
                   ELSE IF ReadsPinned => MayRead /\ SourceStillPinned THEN "reported"
                   ELSE "failed"]
    /\ UNCHANGED <<upstream, reader>>

\* The importer's own reads of the report's source.
verifyPaperGasSource ==
    /\ probe.status = "reported"
    /\ probe' = [probe EXCEPT !.status = IF SourceStillPinned THEN "verified" ELSE "failed"]
    /\ UNCHANGED <<upstream, requests, reader>>

ReplaceSource ==
    /\ upstream < MaxReplaced
    /\ upstream' = upstream + 1
    /\ UNCHANGED <<requests, reader, probe>>

ForkNext ==
    \/ StartProbe \/ fetchFreshForkReadPrefetch \/ openPaperFork
    \/ \E r \in Readers : IssueRead(r) \/ AnswerRead(r)
    \/ simulatePaperTransaction \/ FinishProbe \/ verifyPaperGasSource
    \/ ReplaceSource

ForkSpec == ForkInit /\ [][ForkNext]_forkVars

----------------------------------------------------------------------------
(***************************************************************************)
(* Every stage sequence satisfies the assertions of its own sampler: no     *)
(* call lacks an allowance or a balance, and what is reported left neither  *)
(* a position nor an allowance behind, whatever the saved entry was         *)
(* (simulatePaperTransaction, assertRangeKeeperPaperRetiredPosition).       *)
(***************************************************************************)
SequencesClean ==
    /\ probe.status # "refused"
    /\ probe.status \in {"reported", "verified"} => ~probe.nft /\ probe.allow = NoAllowance

(***************************************************************************)
(* The allowances an exit restores are the ones the entry sequence really   *)
(* left on the fork (rangeKeeperPaperTerminalAllowances against             *)
(* sampleRangeKeeperPaperGasStages).                                        *)
(***************************************************************************)
AllowancesReplayed ==
    (probe.status = "stage" /\ probe.kind = "open" /\ probe.nft) =>
      probe.allow = rangeKeeperPaperTerminalAllowances(probe.c)

(***************************************************************************)
(* A sample that may be imported was priced on the fork its source names,   *)
(* though every upstream read goes by block number and several are in       *)
(* flight when the chain replaces the block (the final pinned read, the     *)
(* verification of the source).                                             *)
(***************************************************************************)
SampledAtSource ==
    (probe.status = "verified" \/ (probe.status = "reported" /\ ReadsPinned)) =>
      probe.seen \subseteq {0}

\* A gas sample prices the sequence the campaign would send, from the
\* allowances it would have, at the block it is pinned to.
SamplesExact == SequencesClean /\ AllowancesReplayed /\ SampledAtSource
============================================================================

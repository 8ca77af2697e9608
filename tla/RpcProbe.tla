------------------------------ MODULE RpcProbe ------------------------------
(***************************************************************************)
(* One probe round of the RPC health monitor (src/src/rpc-health/probe.ts   *)
(* and policy.ts): the anchor block, the references that agree on it, and   *)
(* the hard and soft reasons against the private node.                      *)
(*                                                                          *)
(* The answers of the nodes are external and nondeterministic: any head     *)
(* from the tip to one beyond the hard lag, a failure, either of two        *)
(* branches at the anchor.  One block is produced per clock tick, so a head *)
(* is its own timestamp and a lag in blocks is a lag in ticks.              *)
(***************************************************************************)
EXTENDS Integers, FiniteSets, FiniteSetsExt

CONSTANTS
    References,       \* reference endpoints
    Quorum,           \* RPC_HEALTH_REFERENCE_QUORUM
    Depth,            \* confirmationDepth
    SoftLag, HardLag, \* thresholds, in blocks and in ticks
    StallSeconds      \* ticks without a new private head

VARIABLE round        \* the last round: its answers and what was made of them

Never == -1
Failed == -1

(***************************************************************************)
(* The probe of one endpoint: a valid latest block or a failure, and the    *)
(* branch of the hash it returns for the anchor, "none" when that read      *)
(* fails.                                                                   *)
(***************************************************************************)
Answers(now) ==
    {[head |-> Failed, branch |-> "none"]} \cup
    [head: {h \in 0..now : h >= now - HardLag - 1}, branch: {"a", "b", "none"}]

\* The private node names its own branch "a"; besides, it answers slowly, or
\* says that it is syncing, or does not say.
Conditions == {"ok", "soft_latency", "hard_latency", "syncing", "unknown"}
PrivateAnswers(now) == {p \in Answers(now) : p.branch # "b"}

Usable(refs) == {r \in References : refs[r].head # Failed}
Heads(refs, group) == {refs[r].head : r \in group}

Below(head) == IF head > Depth THEN head - Depth ELSE 0

calculateReferenceAnchorBlock(refs) == Below(Min(Heads(refs, Usable(refs))))

calculateMonitorAnchorBlock(refs, private) ==
    LET anchor == calculateReferenceAnchorBlock(refs)
        highest == Max(Heads(refs, Usable(refs)))
    IN  IF private = Failed \/ highest - private > SoftLag
        THEN anchor
        ELSE Min({anchor, Below(private)})

\* The references that agree on the anchor's hash: the largest group, and of
\* two equal ones the one with the higher head.
canonicalReferenceGroup(refs) ==
    LET on(b) == {r \in Usable(refs) : refs[r].branch = b}
        top(b) == IF on(b) = {} THEN Failed ELSE Max(Heads(refs, on(b)))
        better(x, y) == \/ Cardinality(on(x)) > Cardinality(on(y))
                        \/ /\ Cardinality(on(x)) = Cardinality(on(y))
                           /\ top(x) >= top(y)
    IN  on(IF better("a", "b") THEN "a" ELSE "b")

(***************************************************************************)
(* evaluateRpcHealth.  `own` is the private probe with its condition.       *)
(***************************************************************************)
HardReason(now, own, refs, group, refHead, since) ==
    \/ Cardinality(group) < Quorum
    \/ own.head = Failed
    \/ own.condition = "syncing"
    \/ own.branch \notin {refs[r].branch : r \in group}
    \/ refHead # Failed /\ own.head # Failed /\ refHead - own.head > HardLag
    \/ own.condition = "hard_latency"
    \/ since # Never /\ now - since >= StallSeconds
    \/ refHead # Failed /\ now > refHead + HardLag

SoftReason(own, refHead) ==
    \/ refHead # Failed /\ own.head # Failed /\ refHead - own.head > SoftLag
    \/ own.condition = "soft_latency"

\* The moment since which the private head has not moved: carried over only
\* while the reference moves and is ahead.
UnchangedSince(now, previous, head, refHead) ==
    IF head = Failed THEN Never
    ELSE IF /\ previous.head = head
            /\ refHead # Failed /\ previous.reference # Failed
            /\ refHead > previous.reference /\ refHead > head
         THEN IF previous.since # Never THEN previous.since
              ELSE previous.observedAt
         ELSE now

\* Mutant: the private node's lag is ignored when the anchor is chosen.
ReferenceAnchorOnly(own, refs) ==
    IF Usable(refs) = {} THEN Failed ELSE calculateReferenceAnchorBlock(refs)

AnchorOf(own, refs) ==
    IF Usable(refs) = {} THEN Failed
    ELSE calculateMonitorAnchorBlock(
           refs, IF own.condition \in {"syncing", "unknown"}
                 THEN Failed ELSE own.head)

\* An anchor read needs a head at or above it; a failed latest probe has none.
Readable(answer, anchor) ==
    /\ answer.head = Failed => answer.branch = "none"
    /\ answer.head # Failed /\ anchor > answer.head => answer.branch = "none"
    /\ answer.head # Failed /\ anchor = answer.head => answer.branch # "none"

\* One round: the private answer `own`, the answers `refs`, and what the
\* previous sample says of the heads.
evaluateProbes(now, previous, own, refs) ==
    LET group == canonicalReferenceGroup(refs)
        refHead == IF group # {} /\ Cardinality(group) >= Quorum
                   THEN Max(Heads(refs, group)) ELSE Failed
        since == UnchangedSince(now, previous, own.head, refHead)
    IN  [verdict |-> IF HardReason(now, own, refs, group, refHead, since) THEN "hard"
                     ELSE IF SoftReason(own, refHead) THEN "soft" ELSE "clean",
         head |-> own.head, reference |-> refHead, since |-> since,
         anchor |-> AnchorOf(own, refs)]

\* A round that can happen: no node answers for a block it does not have.
Possible(own, refs) ==
    LET anchor == AnchorOf(own, refs)
    IN  /\ anchor = Failed => own.branch = "none"
        /\ \A r \in References : Readable(refs[r], anchor)
        /\ Readable(own, anchor)

NoRound == [own |-> [head |-> Failed, branch |-> "none", condition |-> "unknown"],
            refs |-> [r \in References |-> [head |-> Failed, branch |-> "none"]],
            verdict |-> "none", anchor |-> Failed]

ProbeInit == round = NoRound

\* The samples a round may find: none, or one of the tick before.
Previous(now) ==
    {[head |-> Failed, reference |-> Failed, since |-> Never, observedAt |-> Never]} \cup
    [head: {now - 2, now - 1}, reference: {now - 2, now - 1},
     since: {Never, now - StallSeconds}, observedAt: {now - 1}]

monitorRound ==
    LET now == HardLag + 2
    IN  /\ round = NoRound
        /\ \E previous \in Previous(now), o \in PrivateAnswers(now), c \in Conditions,
              refs \in [References -> Answers(now)] :
             LET own == [head |-> o.head, branch |-> o.branch, condition |-> c]
                 outcome == evaluateProbes(now, previous, own, refs)
             IN  /\ Possible(own, refs)
                 /\ round' = [own |-> own, refs |-> refs, verdict |-> outcome.verdict,
                              anchor |-> outcome.anchor]

ProbeNext == monitorRound

(***************************************************************************)
(* A clean round is about a block the private node has buried: when its     *)
(* sync state is known and the references that answered agree, the anchor   *)
(* compared is at least the confirmation depth below the private head       *)
(* (calculateMonitorAnchorBlock).                                           *)
(***************************************************************************)
CleanAnchorBuried ==
    /\ round.verdict = "clean" /\ round.own.condition # "unknown"
    /\ canonicalReferenceGroup(round.refs) = Usable(round.refs)
    => round.anchor <= Below(round.own.head)
============================================================================

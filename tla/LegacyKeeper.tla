---------------------------- MODULE LegacyKeeper ----------------------------
(***************************************************************************)
(* The RangeKeeper live controller that owns a whole wallet                *)
(* (strategy/rangekeeper/live-controller.ts): one tick reconciles the      *)
(* pending transaction or decides the next stage, saves the campaign,      *)
(* prepares, signs and sends.  Every operation holds the wallet's advisory *)
(* lock, so operations do not interleave with each other; they interleave  *)
(* with crashes, with the chain and with the network that carries the      *)
(* signed bytes, and the operator's commands fall between any two ticks.   *)
(***************************************************************************)
EXTENDS Naturals, FiniteSets

CONSTANTS
    MaxNonce,     \* bound: transactions of the wallet
    MaxAttempts,  \* mint recoveries the operator may ask for
    CountCap,     \* economic actions of a capped configuration
    MaxManual,    \* bound: transactions the wallet's key signs elsewhere
    MaxBuild      \* bound: sealed builds

VARIABLES
    saved,    \* the campaign row: phase, candidate, flags, accepted custody
    rowOut,   \* its unresolved action row (prepared or signed)
    dirty,    \* some action row ended cancelled or reverted
    mainnet,  \* wallet custody at the newest and at the confirmed block, transactions in flight
    ctl,      \* the controller process: program counter, stage in hand, build
    seen      \* history: highest nonce ever signed, candidate swaps of the current action

keeperVars == <<saved, rowOut, dirty, mainnet, ctl, seen>>

NoTx == [nonce |-> 0, kind |-> "none"]
NoRow == [st |-> "none", tx |-> NoTx]
Idle == [pc |-> "idle", stage |-> "none"]
Pairs == {"router", "manager"}

\* freshState: a campaign that has accepted custody c and done nothing.
freshState(c, build, capped) ==
    [phase |-> "entry", kind |-> "entry", desired |-> "running", cand |-> "none",
     confirm |-> "none", swapDone |-> FALSE, withdrawDone |-> FALSE, active |-> 0,
     retired |-> FALSE, economic |-> 0, recenters |-> 0, costed |-> FALSE,
     attempts |-> 0, halt |-> "none", last |-> c, build |-> build, capped |-> capped]

KeeperInit ==
    LET c == [nonce |-> 0, pos |-> 0, risky |-> FALSE, allow |-> {}] IN
    /\ saved = freshState(c, 1, TRUE)
    /\ rowOut = NoRow
    /\ dirty = FALSE
    /\ mainnet = [final |-> c, mined |-> NoTx, ok |-> TRUE, wire |-> {}, manual |-> 0]
    /\ ctl = [pc |-> "idle", stage |-> "none", build |-> 1, capped |-> TRUE]
    /\ seen = [top |-> 0, swaps |-> 0]

-----------------------------------------------------------------------------
(* The chain.  One transaction of the wallet is mined at a time; it is     *)
(* confirmed, or reorganised away and back on the wire.                    *)

\* What a transaction of kind k does to custody c when it succeeds.
Effect(c, k) ==
    CASE k = "approveManager" -> [c EXCEPT !.allow = @ \cup {"manager"}]
      [] k = "approveRouter"  -> [c EXCEPT !.allow = @ \cup {"router"}]
      [] k = "revokeManager"  -> [c EXCEPT !.allow = @ \ {"manager"}]
      [] k = "revokeRouter"   -> [c EXCEPT !.allow = @ \ {"router"}]
      [] k = "swap"           -> [c EXCEPT !.risky = TRUE]
      [] k = "sell"           -> [c EXCEPT !.risky = FALSE]
      [] k = "withdraw"       -> [c EXCEPT !.pos = 0, !.risky = TRUE]
      [] k = "mint"           -> [c EXCEPT !.pos = c.nonce + 1]
      [] OTHER                -> c

After(c, t, ok) == [IF ok THEN Effect(c, t.kind) ELSE c EXCEPT !.nonce = @ + 1]

latest == IF mainnet.mined = NoTx THEN mainnet.final
          ELSE After(mainnet.final, mainnet.mined, mainnet.ok)

\* A node's pending nonce counts a transaction on the wire once it has
\* reached that node.
pendingNonces == {latest.nonce} \cup {t.nonce + 1 : t \in {u \in mainnet.wire : u.nonce = latest.nonce}}

\* A transaction on the wire is lost.
Vanish == \E t \in mainnet.wire :
    /\ mainnet' = [mainnet EXCEPT !.wire = @ \ {t}]
    /\ UNCHANGED <<saved, rowOut, dirty, ctl, seen>>

\* Deadlines and price minimums can revert a stage that moves tokens.
Mine == \E t \in mainnet.wire, ok \in BOOLEAN :
    /\ mainnet.mined = NoTx
    /\ t.nonce = mainnet.final.nonce
    /\ ok \/ t.kind \in {"swap", "sell", "mint", "withdraw"}
    /\ mainnet' = [mainnet EXCEPT !.mined = t, !.ok = ok,
                     !.wire = {u \in @ : u.nonce > t.nonce}]
    /\ UNCHANGED <<saved, rowOut, dirty, ctl, seen>>

Confirm ==
    /\ mainnet.mined # NoTx
    /\ mainnet' = [mainnet EXCEPT !.final = latest, !.mined = NoTx, !.ok = TRUE]
    /\ seen' = [seen EXCEPT !.swaps =
                  IF mainnet.ok /\ mainnet.mined.kind = "swap" THEN @ + 1 ELSE @]
    /\ UNCHANGED <<saved, rowOut, dirty, ctl>>

Reorganise ==
    /\ mainnet.mined # NoTx
    /\ mainnet' = [mainnet EXCEPT !.mined = NoTx, !.ok = TRUE, !.wire = @ \cup {mainnet.mined}]
    /\ UNCHANGED <<saved, rowOut, dirty, ctl, seen>>

\* The wallet's key is used elsewhere: an unexplained nonce, confirmed before
\* the controller looks again.
ManualTransaction ==
    /\ mainnet.mined = NoTx /\ mainnet.final.nonce < MaxNonce /\ mainnet.manual < MaxManual
    /\ mainnet' = [mainnet EXCEPT !.manual = @ + 1, !.final.nonce = @ + 1,
                     !.wire = {u \in @ : u.nonce > mainnet.final.nonce}]
    /\ UNCHANGED <<saved, rowOut, dirty, ctl, seen>>

-----------------------------------------------------------------------------
(* One tick                                                                *)

Free == ctl.pc = "idle"

\* assertIdentity: the stored configuration and build are the running ones.
assertIdentity(s) == s.build = ctl.build /\ s.capped = ctl.capped

\* exactCustody: confirmed custody is the accepted one, nothing is pending.
exactCustody(s) == mainnet.final = s.last /\ mainnet.final.nonce \in pendingNonces

\* zeroUnusedAllowance: one allowance to take back, "none" when all are.
Revokes(c) ==
    IF c.allow = {} THEN {"none"}
    ELSE {IF p = "router" THEN "revokeRouter" ELSE "revokeManager" : p \in c.allow}

\* mutant: an exit is done when the risky leg is sold.
NoCleanup(s, c) ==
    CASE s.phase = "exit" ->
            IF c.pos # 0 THEN {"withdraw"}
            ELSE IF ~c.risky THEN {"none"}
            ELSE IF "router" \in c.allow THEN {"sell"} ELSE {"approveRouter"}
      [] s.phase \in {"entry", "recenter"} /\ s.cand # "none" ->
            IF c.pos # 0 THEN {"withdraw"}
            ELSE IF "manager" \notin c.allow THEN {"approveManager"} ELSE {"mint"}
      [] OTHER -> {"none"}

\* nextRangeKeeperStage: the next transaction of the phase, "none" when it is done.
nextRangeKeeperStage(s, c) ==
    CASE s.phase = "exit" ->
            IF c.pos # 0 THEN {"withdraw"}
            ELSE IF ~c.risky THEN Revokes(c)
            ELSE IF "router" \in c.allow THEN {"sell"} ELSE {"approveRouter"}
      [] s.phase = "holding" -> Revokes(c)
      [] s.phase \in {"entry", "recenter"} /\ s.cand # "none" ->
            IF c.pos # 0 THEN {"withdraw"}
            ELSE IF "manager" \notin c.allow THEN {"approveManager"}
            ELSE IF s.cand = "plain" \/ s.swapDone THEN {"mint"}
            ELSE IF "router" \notin c.allow THEN {"approveRouter"} ELSE {"swap"}
      [] OTHER -> {"none"}

\* Stages whose quote or range may have gone stale since the proposal.
Priced(s, c) == s.phase \in {"entry", "recenter"} /\ s.cand # "none" /\ c.pos = 0

\* settleRangeKeeperStaleStage, settleRangeKeeperMintUnavailable: the settled
\* campaigns, none when the error is thrown on.
settleStale(s) ==
    CASE s.phase = "entry" /\ ~s.swapDone /\ ~s.withdrawDone ->
            {[s EXCEPT !.cand = "none", !.confirm = "none"]}
      [] s.phase = "recenter" /\ s.withdrawDone /\ ~s.swapDone /\ s.active = 0 ->
            {[s EXCEPT !.cand = "none", !.confirm = "none"]}
      [] s.swapDone /\ s.cand # "none" ->
            {s, [s EXCEPT !.phase = "exit", !.desired = "stopped", !.cand = "none"]}
      [] OTHER -> {}

\* The exit triggers of a tick: a stop on record, or a limit this tick sees.
\* mutant: the phase already says exit when a stop is on record.
LimitsOnly(s, limit) == limit \/ s.phase = "exit"
exitDue(s, limit) == s.desired = "stopped" \/ limit

exitTriggered(s, limit) ==
    IF exitDue(s, limit)
    THEN [s EXCEPT !.phase = "exit", !.desired = "stopped", !.cand = "none"] ELSE s

replanAfterWithdrawal(s) ==
    s.phase = "recenter" /\ s.cand = "none" /\ s.withdrawDone /\ ~s.swapDone /\ s.active = 0

mayPlan(s) ==
    /\ s.phase = "holding" \/ (s.phase = "entry" /\ s.cand = "none") \/ replanAfterWithdrawal(s)
    /\ s.capped => s.economic < CountCap

\* planRangeKeeper: wait, confirm a first time, or execute what a second
\* observation confirms.
planRangeKeeper(s) ==
    {s, [s EXCEPT !.confirm = "none"]}
    \cup {[s EXCEPT !.confirm = k] : k \in {"swap", "plain"}}
    \cup (IF s.confirm = "none" THEN {}
          ELSE {[s EXCEPT !.confirm = "none", !.cand = s.confirm, !.swapDone = FALSE,
                   !.phase = IF s.active # 0 \/ replanAfterWithdrawal(s) THEN "recenter" ELSE "entry",
                   !.kind = IF s.active # 0 \/ replanAfterWithdrawal(s) THEN "recenter" ELSE "entry",
                   !.withdrawDone = @ /\ replanAfterWithdrawal(s)]})

Planned(s) == IF mayPlan(s) THEN planRangeKeeper(s) ELSE {s}

NewAction(s, t) == t.cand # "none" /\ s.cand = "none" /\ ~replanAfterWithdrawal(s)

Ready(s) ==
    /\ Free /\ assertIdentity(s) /\ rowOut = NoRow
    /\ s.phase \notin {"closed", "halted"} /\ exactCustody(s)

\* tick decides: valuation, exit triggers, plan, stage; the campaign is saved
\* before anything is submitted.  An exit with no stage left closes.
tick == \E limit \in BOOLEAN :
    LET s == exitTriggered(saved, limit) IN
    /\ Ready(saved)
    /\ \E t \in Planned(s) : \E k \in nextRangeKeeperStage(t, mainnet.final) :
        /\ saved' = IF k = "none" /\ t.phase = "exit" THEN [t EXCEPT !.phase = "closed"] ELSE t
        /\ ctl' = IF k = "none" THEN ctl ELSE [ctl EXCEPT !.pc = "prepare", !.stage = k]
        /\ seen' = [seen EXCEPT !.swaps = IF NewAction(s, t) THEN 0 ELSE @]
    /\ UNCHANGED <<rowOut, dirty, mainnet>>

\* The stage turns out stale, at the decision or at the simulation before signing.
staleStage ==
    /\ \/ Ready(saved) /\ ~exitDue(saved, FALSE)
       \/ ctl.pc = "prepare" /\ ctl.stage = "mint"
    /\ Priced(saved, mainnet.final)
    /\ saved' \in settleStale(saved)
    /\ ctl' = [ctl EXCEPT !.pc = "idle", !.stage = "none"]
    /\ UNCHANGED <<rowOut, dirty, mainnet, seen>>

\* submit: the last checks and the prepared row.
prepare ==
    /\ ctl.pc = "prepare"
    /\ latest = saved.last /\ saved.last.nonce \in pendingNonces /\ latest.nonce < MaxNonce
    /\ rowOut' = [st |-> "prepared", tx |-> [nonce |-> latest.nonce, kind |-> ctl.stage]]
    /\ ctl' = [ctl EXCEPT !.pc = "sign"]
    /\ UNCHANGED <<saved, dirty, mainnet, seen>>

sign ==
    /\ ctl.pc = "sign"
    /\ rowOut' = [rowOut EXCEPT !.st = "signed"]
    /\ ctl' = [ctl EXCEPT !.pc = "send"]
    /\ seen' = [seen EXCEPT !.top = rowOut.tx.nonce + 1]
    /\ UNCHANGED <<saved, dirty, mainnet>>

\* The send may fail or be acknowledged late: the bytes are on the wire.
send ==
    /\ ctl.pc = "send"
    /\ mainnet' = [mainnet EXCEPT !.wire = @ \cup {rowOut.tx}]
    /\ ctl' = [ctl EXCEPT !.pc = "idle", !.stage = "none"]
    /\ UNCHANGED <<saved, rowOut, dirty, seen>>

\* A failed check, an exception or a crash ends the tick and frees the lock.
interrupted ==
    /\ ~Free
    /\ ctl' = [ctl EXCEPT !.pc = "idle", !.stage = "none"]
    /\ UNCHANGED <<saved, rowOut, dirty, mainnet, seen>>

-----------------------------------------------------------------------------
(* reconcilePending                                                        *)

Reconciling == Free /\ assertIdentity(saved)

\* mutant: a signed row the network does not know is cancelled too.
UnknownCancellable(r) ==
    r.st = "prepared" \/ (r.st = "signed" /\ r.tx \notin mainnet.wire \cup {mainnet.mined})
cancellable(r) == r.st = "prepared"

cancelUnsigned ==
    /\ Reconciling /\ cancellable(rowOut)
    /\ rowOut.tx.nonce \in pendingNonces
    /\ rowOut' = NoRow
    /\ dirty' = TRUE
    /\ UNCHANGED <<saved, mainnet, ctl, seen>>

\* No receipt: the same bytes again, unless their nonce is gone.
resend ==
    /\ Reconciling /\ rowOut.st = "signed"
    /\ mainnet.mined # rowOut.tx /\ latest.nonce <= rowOut.tx.nonce
    /\ rowOut.tx \notin mainnet.wire
    /\ mainnet' = [mainnet EXCEPT !.wire = @ \cup {rowOut.tx}]
    /\ UNCHANGED <<saved, rowOut, dirty, ctl, seen>>

\* What a confirmed receipt makes of the campaign.
\* mutant: a swap's receipt is booked like an approval's.
SwapForgotten(s, k) ==
    CASE k = "withdraw" -> [s EXCEPT !.retired = TRUE, !.active = 0, !.withdrawDone = TRUE]
      [] k = "mint" -> [s EXCEPT !.active = s.last.pos, !.phase = "holding", !.cand = "none"]
      [] OTHER -> s
bookReceipt(s, k) ==
    CASE k = "withdraw" -> [s EXCEPT !.retired = TRUE, !.active = 0, !.withdrawDone = TRUE]
      [] k = "swap" -> [s EXCEPT !.swapDone = @ \/ s.phase \in {"entry", "recenter"}]
      [] k = "mint" -> [s EXCEPT !.active = s.last.pos, !.economic = IF @ < CountCap THEN @ + 1 ELSE @,
                          !.recenters = IF s.phase = "recenter" THEN 1 ELSE @,
                          !.phase = "holding", !.cand = "none",
                          !.swapDone = FALSE, !.withdrawDone = FALSE]
      [] OTHER -> s

\* The transaction's own receipt is confirmed when the confirmed nonce has
\* passed it and custody is what it leaves (reconcileRangeKeeperAction).
Receipt(ok) ==
    /\ rowOut.st = "signed"
    /\ mainnet.final = After(saved.last, rowOut.tx, ok)

reconcilePending == \E ok \in BOOLEAN :
    /\ Reconciling /\ Receipt(ok)
    /\ saved' = LET s == [saved EXCEPT !.last = mainnet.final, !.costed = TRUE] IN
                IF ok THEN bookReceipt(s, rowOut.tx.kind)
                ELSE [s EXCEPT !.phase = "halted",
                        !.halt = IF rowOut.tx.kind = "mint" THEN "mint" ELSE "other"]
    /\ rowOut' = NoRow
    /\ dirty' = (dirty \/ ~ok)
    /\ UNCHANGED <<mainnet, ctl, seen>>

-----------------------------------------------------------------------------
(* The operator                                                            *)

requestStop ==
    /\ Free /\ assertIdentity(saved)
    /\ saved' = [saved EXCEPT !.desired = "stopped",
                   !.phase = IF @ \in {"closed", "halted"} THEN @ ELSE "exit"]
    /\ UNCHANGED <<rowOut, dirty, mainnet, ctl, seen>>

recoverExit ==
    /\ Free /\ assertIdentity(saved) /\ rowOut = NoRow
    /\ saved.phase = "halted" /\ exactCustody(saved)
    /\ saved' = [saved EXCEPT !.phase = "exit", !.desired = "stopped", !.cand = "none", !.halt = "none"]
    /\ UNCHANGED <<rowOut, dirty, mainnet, ctl, seen>>

recoverMint ==
    /\ Free /\ assertIdentity(saved) /\ rowOut = NoRow
    /\ saved.phase = "halted" /\ saved.halt = "mint" /\ saved.cand # "none"
    /\ saved.swapDone \/ saved.cand = "plain"
    /\ saved.active = 0 /\ saved.attempts < MaxAttempts /\ saved.desired = "running"
    /\ exactCustody(saved)
    /\ saved' = [saved EXCEPT !.phase = saved.kind, !.halt = "none", !.attempts = @ + 1]
    /\ UNCHANGED <<rowOut, dirty, mainnet, ctl, seen>>

\* A new sealed build, with the count limits or without them.
deployBuild == \E capped \in BOOLEAN :
    /\ Free /\ ctl.build < MaxBuild /\ (capped => ctl.capped)
    /\ ctl' = [ctl EXCEPT !.build = @ + 1, !.capped = capped]
    /\ UNCHANGED <<saved, rowOut, dirty, mainnet, seen>>

\* The settled campaigns a new build may adopt: a held position that reached
\* its count limit, a recenter before its withdrawal or after it.
countsMigratable(s) ==
    /\ s.capped /\ ~ctl.capped /\ s.phase = "holding" /\ s.desired = "running"
    /\ s.active # 0 /\ s.cand = "none" /\ s.economic >= CountCap /\ s.recenters >= 1
recenterMigratable(s) ==
    /\ s.capped = ctl.capped /\ s.phase = "recenter" /\ s.desired = "running"
    /\ \/ s.cand # "none" /\ ~s.withdrawDone /\ ~s.swapDone /\ s.active # 0
       \/ s.withdrawDone /\ s.active = 0 /\ s.retired /\ (s.cand # "none" \/ ~s.swapDone)

migrate ==
    /\ Free /\ rowOut = NoRow /\ saved.build < ctl.build
    /\ countsMigratable(saved) \/ recenterMigratable(saved)
    /\ exactCustody(saved)
    /\ saved' = [saved EXCEPT !.build = ctl.build, !.capped = ctl.capped,
                   !.confirm = IF countsMigratable(saved) THEN "none" ELSE @]
    /\ UNCHANGED <<rowOut, dirty, mainnet, ctl, seen>>

Closed(s) == s.phase = "closed" /\ s.desired = "stopped" /\ rowOut = NoRow

\* rearmUntraded, resumeCosted: a closed campaign that never minted runs again
\* under a new build; start opens the next campaign.
rearm ==
    /\ Free /\ Closed(saved) /\ saved.build < ctl.build /\ saved.capped = ctl.capped
    /\ saved.economic = 0 /\ ~saved.retired /\ (saved.costed => ~dirty)
    /\ exactCustody(saved)
    /\ saved' = [freshState(mainnet.final, ctl.build, ctl.capped) EXCEPT
                   !.costed = saved.costed, !.attempts = saved.attempts]
    /\ UNCHANGED <<rowOut, dirty, mainnet, ctl, seen>>

start ==
    /\ Free /\ Closed(saved) /\ ~dirty /\ exactCustody(saved)
    /\ saved' = freshState(mainnet.final, ctl.build, ctl.capped)
    /\ UNCHANGED <<rowOut, dirty, mainnet, ctl, seen>>

KeeperNext ==
    \/ Vanish \/ Mine \/ Confirm \/ Reorganise \/ ManualTransaction
    \/ tick \/ staleStage \/ prepare \/ sign \/ send \/ interrupted
    \/ cancelUnsigned \/ resend \/ reconcilePending
    \/ requestStop \/ recoverExit \/ recoverMint
    \/ deployBuild \/ migrate \/ rearm \/ start

KeeperSpec == KeeperInit /\ [][KeeperNext]_keeperVars

-----------------------------------------------------------------------------
\* No nonce is signed twice: whatever crashed, restarted, was lost or
\* reorganised, the bytes the network may still hold are the only ones of
\* their nonce (reconcilePending cancels only what was never signed).
NonceSignedOnce == [][sign => rowOut.tx.nonce >= seen.top]_keeperVars

\* One proposal swaps at most once: neither a crash, a resend, a replan after
\* the withdrawal nor a mint recovery repeats the balancing swap (swapDone).
SwapOnce == seen.swaps <= 1

\* A recorded stop is final: after it nothing is signed that would add
\* exposure, even when a mint already on the wire lands later and its receipt
\* puts the campaign back to holding (tick, exit triggers).
StopSticks == [][sign /\ rowOut.tx.kind \in {"mint", "swap"} => saved.desired = "running"]_keeperVars

\* A closed campaign left the wallet without position, allowance and pending
\* transaction of its own, also on the newest block.
ClosedIsFlat ==
    saved.phase = "closed" /\ mainnet.final = saved.last =>
        /\ latest.pos = 0 /\ latest.allow = {} /\ ~latest.risky
        /\ \A t \in mainnet.wire : t.nonce < latest.nonce

\* The RangeKeeper controller swaps once per range and closes a campaign only
\* when position and allowances are gone.
KeeperFlat == SwapOnce /\ ClosedIsFlat

\* No step signs a nonce whose earlier bytes may still be mined, and nothing
\* that adds exposure is signed after the operator's stop.
KeeperSteps == NonceSignedOnce /\ StopSticks
=============================================================================

------------------------------ MODULE LivePilot ------------------------------
(***************************************************************************)
(* The live pilot's controller (live-pilot/controller.ts): the predecessor *)
(* of the RangeKeeper controller on the same wallet.  Its ticks cancel     *)
(* unsigned intents, book confirmed receipts, broadcast signed bytes only  *)
(* while their intent is fresh and still authorised by the campaign's      *)
(* phase, and recover reverted mints and native deposits.                  *)
(***************************************************************************)
EXTENDS Naturals

CONSTANTS
    MaxPilotNonce,\* bound: transactions of the wallet
    MaxDeposits,  \* bound: direct native deposits
    MaxRecovery   \* mint recoveries per mint (3 in the code)

VARIABLES
    pilot,    \* the campaign row
    prow,     \* the unresolved action row
    pnet,     \* wallet custody at the newest and the confirmed block, transactions in flight
    pctl,     \* the controller process
    ptop      \* history: highest nonce ever signed

pilotVars == <<pilot, prow, pnet, pctl, ptop>>

None == [nonce |-> 0, kind |-> "none"]
Flat == [nonce |-> 0, pos |-> 0, rwa |-> FALSE, allow |-> {}, native |-> 0]
NoAction == [st |-> "none", tx |-> None, before |-> Flat, attempted |-> FALSE, expired |-> FALSE]

\* start: an entry from cash, no position and no allowance.
PilotInit ==
    /\ pilot = [phase |-> "entry", desired |-> "running", swapDone |-> FALSE, token |-> 0,
                ranged |-> FALSE, recovery |-> 0, halt |-> "none", from |-> "entry",
                credits |-> 0, last |-> Flat]
    /\ prow = NoAction
    /\ pnet = [final |-> Flat, mined |-> None, ok |-> TRUE, wire |-> {}]
    /\ pctl = "idle"
    /\ ptop = 0

-----------------------------------------------------------------------------
(* The chain                                                               *)

PilotEffect(c, k) ==
    CASE k = "approveRouter"  -> [c EXCEPT !.allow = @ \cup {"router"}]
      [] k = "approveManager" -> [c EXCEPT !.allow = @ \cup {"manager"}]
      [] k = "revokeRouter"   -> [c EXCEPT !.allow = @ \ {"router"}]
      [] k = "revokeManager"  -> [c EXCEPT !.allow = @ \ {"manager"}]
      [] k = "buy"            -> [c EXCEPT !.rwa = TRUE]
      [] k = "sell"           -> [c EXCEPT !.rwa = FALSE]
      [] k = "withdraw"       -> [c EXCEPT !.pos = 0, !.rwa = TRUE]
      [] k = "mint"           -> [c EXCEPT !.pos = c.nonce + 1, !.rwa = FALSE]
      [] OTHER                -> c

PilotAfter(c, t, ok) == [IF ok THEN PilotEffect(c, t.kind) ELSE c EXCEPT !.nonce = @ + 1]

newest == IF pnet.mined = None THEN pnet.final ELSE PilotAfter(pnet.final, pnet.mined, pnet.ok)

\* A node counts a transaction on the wire once it has reached that node.
pendingCounts == {newest.nonce} \cup {t.nonce + 1 : t \in {u \in pnet.wire : u.nonce = newest.nonce}}

PilotVanish == \E t \in pnet.wire :
    /\ pnet' = [pnet EXCEPT !.wire = @ \ {t}]
    /\ UNCHANGED <<pilot, prow, pctl, ptop>>

PilotMine == \E t \in pnet.wire, ok \in BOOLEAN :
    /\ pnet.mined = None /\ t.nonce = pnet.final.nonce
    /\ ok \/ t.kind \in {"buy", "sell", "mint", "withdraw"}
    /\ pnet' = [pnet EXCEPT !.mined = t, !.ok = ok, !.wire = {u \in @ : u.nonce > t.nonce}]
    /\ UNCHANGED <<pilot, prow, pctl, ptop>>

PilotConfirm ==
    /\ pnet.mined # None
    /\ pnet' = [pnet EXCEPT !.final = newest, !.mined = None, !.ok = TRUE]
    /\ UNCHANGED <<pilot, prow, pctl, ptop>>

PilotReorg ==
    /\ pnet.mined # None
    /\ pnet' = [pnet EXCEPT !.mined = None, !.ok = TRUE, !.wire = @ \cup {pnet.mined}]
    /\ UNCHANGED <<pilot, prow, pctl, ptop>>

\* A direct deposit of native gas, confirmed before the next look.
Deposit ==
    /\ pnet.mined = None /\ pnet.final.native < MaxDeposits
    /\ pnet' = [pnet EXCEPT !.final.native = @ + 1]
    /\ UNCHANGED <<pilot, prow, pctl, ptop>>

-----------------------------------------------------------------------------
(* Planning                                                                *)

\* assertPilotWalletContinuity, native aside: that is proveNativeCredit's part.
Continuous(a, b) == [a EXCEPT !.native = b.native] = b /\ a.native <= b.native

RevokeKinds(c) == {IF p = "router" THEN "revokeRouter" ELSE "revokeManager" : p \in c.allow}

Approved(c, p, k) == IF p \in c.allow THEN k
                     ELSE IF p = "router" THEN "approveRouter" ELSE "approveManager"

\* plan: what the phase does next, as [state, kind] pairs; "none" closes an exit.
\* An entry re-centres its range when the price has left it, which forgets a
\* completed swap unless a mint is being recovered.
plan(s, c) ==
    IF c.pos # 0 THEN {[s |-> s, kind |-> "withdraw"]}
    ELSE IF s.phase = "exit"
    THEN {[s |-> s, kind |-> k] : k \in IF c.rwa THEN {Approved(c, "router", "sell")}
                                        ELSE IF c.allow = {} THEN {"none"} ELSE RevokeKinds(c)}
    ELSE LET ranges == {[s EXCEPT !.ranged = TRUE, !.swapDone = s.recovery > 0]}
                         \cup (IF s.ranged THEN {s} ELSE {})
             minting == {[r EXCEPT !.swapDone = TRUE] : r \in ranges}
         IN  {[s |-> r, kind |-> Approved(c, "router", "buy")] : r \in {q \in ranges : ~q.swapDone}}
             \cup {[s |-> r, kind |-> Approved(c, "manager", "mint")] : r \in minting}

\* authorizePilotPlan: the phase still wants this transaction.
\* mutant: only the envelope is compared.
AnyPhase(k, s) == TRUE
authorizePilotPlan(k, s) ==
    CASE k = "buy"      -> s.phase \in {"entry", "recenter"} /\ s.recovery = 0
      [] k = "mint"     -> s.phase \in {"entry", "recenter"}
      [] k = "sell"     -> s.phase = "exit"
      [] k = "withdraw" -> s.phase \in {"recenter", "exit"}
      [] OTHER          -> TRUE

\* beforeBroadcast: fresh intent, authorised plan, unchanged newest custody.
beforeBroadcast(r) ==
    /\ ~r.expired
    /\ authorizePilotPlan(r.tx.kind, pilot)
    /\ newest = r.before /\ r.tx.nonce \in pendingCounts

-----------------------------------------------------------------------------
(* tick                                                                    *)

Quiet == pctl = "idle" /\ prow = NoAction

Moving(s, exit) ==
    IF s.phase # "closed" /\ (s.desired # "running" \/ exit) THEN [s EXCEPT !.phase = "exit"]
    ELSE s

\* Wallet unchanged but for proven deposits: book them, then manage.
credited(s, c) == [s EXCEPT !.credits = @ + (c.native - s.last.native), !.last = c]

\* The management step: plan, save, prepare the row; or close.
managePosition == \E exit \in BOOLEAN :
    LET s == Moving(credited(pilot, pnet.final), exit) IN
    /\ Quiet /\ pilot.phase \notin {"halted", "closed", "holding"} /\ Continuous(pilot.last, pnet.final)
    /\ \E p \in plan(s, pnet.final) :
        IF p.kind = "none"
        THEN /\ pilot' = [p.s EXCEPT !.phase = "closed"]
             /\ UNCHANGED <<prow, pctl>>
        ELSE /\ pnet.final.nonce < MaxPilotNonce
             /\ pilot' = p.s
             /\ prow' = [NoAction EXCEPT !.st = "prepared", !.before = pnet.final,
                           !.tx = [nonce |-> pnet.final.nonce, kind |-> p.kind]]
             /\ pctl' = "sign"
    /\ UNCHANGED <<pnet, ptop>>

\* A held position: mark it, recenter when the price left it, or exit.
observeHolding == \E next \in {"holding", "recenter", "exit"} :
    LET s == Moving(credited(pilot, pnet.final), next = "exit") IN
    /\ Quiet /\ pilot.phase = "holding" /\ Continuous(pilot.last, pnet.final)
    /\ pilot' = IF s.phase = "exit" \/ next = "holding" THEN s
                ELSE [s EXCEPT !.phase = "recenter", !.ranged = FALSE, !.swapDone = FALSE]
    /\ UNCHANGED <<prow, pnet, pctl, ptop>>

\* A closed pilot re-enters when it is asked to run.
reenter ==
    LET s == credited(pilot, pnet.final) IN
    /\ Quiet /\ pilot.phase = "closed" /\ pilot.desired = "running"
    /\ Continuous(pilot.last, pnet.final)
    /\ pilot' = [s EXCEPT !.phase = "entry", !.ranged = FALSE, !.swapDone = FALSE, !.recovery = 0]
    /\ UNCHANGED <<prow, pnet, pctl, ptop>>

\* Continuity or the deposit's proof fails: the campaign halts.
haltUnexplained ==
    /\ Quiet /\ pilot.phase \notin {"halted", "closed"} /\ pnet.final # pilot.last
    /\ pilot' = [pilot EXCEPT !.phase = "halted", !.halt = "wallet"]
    /\ UNCHANGED <<prow, pnet, pctl, ptop>>

pilotSign ==
    /\ pctl = "sign"
    /\ beforeBroadcast(prow)
    /\ prow' = [prow EXCEPT !.st = "signed"]
    /\ pctl' = "broadcast"
    /\ ptop' = prow.tx.nonce + 1
    /\ UNCHANGED <<pilot, pnet>>

\* The bytes go out; whether the attempt is recorded depends on a crash.
broadcast == \E recorded \in BOOLEAN :
    /\ pctl = "broadcast" \/ (pctl = "idle" /\ prow.st = "signed" /\ ~prow.attempted)
    /\ prow.tx # pnet.mined /\ beforeBroadcast(prow)
    /\ pnet' = [pnet EXCEPT !.wire = @ \cup {prow.tx}]
    /\ prow' = [prow EXCEPT !.attempted = recorded]
    /\ pctl' = "idle"
    /\ UNCHANGED <<pilot, ptop>>

stopTick ==
    /\ pctl # "idle"
    /\ pctl' = "idle"
    /\ UNCHANGED <<pilot, prow, pnet, ptop>>

\* 90 seconds after its source an intent is not broadcast any more.
Expire ==
    /\ prow.st \in {"prepared", "signed"} /\ ~prow.expired
    /\ prow' = [prow EXCEPT !.expired = TRUE]
    /\ UNCHANGED <<pilot, pnet, pctl, ptop>>

-----------------------------------------------------------------------------
(* pending                                                                 *)

\* mutant: signed bytes with no recorded attempt are requoted too.
UnattemptedToo(r) == r.st = "prepared" \/ (r.st = "signed" /\ ~r.attempted)
requotable(r) == r.st = "prepared"

cancelPrepared ==
    /\ pctl = "idle" /\ requotable(prow)
    /\ prow' = NoAction
    /\ UNCHANGED <<pilot, pnet, pctl, ptop>>

\* reconcilePilotAction: the receipt explains custody up to proven deposits.
\* mutant: the deposit is taken into custody but not booked.
CustodyOnly(s, c) == [s EXCEPT !.last = c]
receiptCredit(s, c) == credited(s, c)

reconcileReceipt == \E ok \in BOOLEAN :
    LET c == pnet.final
        s == receiptCredit(pilot, c)
        k == prow.tx.kind
    IN
    /\ pctl = "idle" /\ prow.st = "signed"
    /\ Continuous(PilotAfter(prow.before, prow.tx, ok), c)
    /\ pilot' = CASE ~ok -> [s EXCEPT !.phase = "halted", !.from = pilot.phase,
                               !.halt = IF k = "mint" /\ c.native = prow.before.native
                                        THEN "mint" ELSE "reverted"]
                  [] ok /\ k = "buy" -> [s EXCEPT !.swapDone = TRUE]
                  [] ok /\ k = "sell" -> [s EXCEPT !.swapDone = TRUE]
                  [] ok /\ k = "mint" -> [s EXCEPT !.token = c.pos, !.ranged = FALSE, !.swapDone = FALSE,
                                            !.recovery = 0,
                                            !.phase = IF s.desired = "running" THEN "holding" ELSE "exit"]
                  [] ok /\ k = "withdraw" -> [s EXCEPT !.token = 0, !.ranged = FALSE, !.swapDone = FALSE]
                  [] OTHER -> s
    /\ prow' = NoAction
    /\ UNCHANGED <<pnet, pctl, ptop>>

\* retryApproval: the operator resends a stranded approval of an entry, same bytes.
retryApproval ==
    /\ pctl = "idle" /\ prow.st = "signed" /\ prow.tx.kind \in {"approveRouter", "approveManager"}
    /\ pilot.phase = "entry" /\ pilot.desired = "running" /\ ~newest.rwa
    /\ prow.tx # pnet.mined /\ newest = prow.before /\ prow.tx.nonce \in pendingCounts
    /\ prow.tx \notin pnet.wire
    /\ pnet' = [pnet EXCEPT !.wire = @ \cup {prow.tx}]
    /\ prow' = [prow EXCEPT !.attempted = TRUE]
    /\ UNCHANGED <<pilot, pctl, ptop>>

-----------------------------------------------------------------------------
(* Recovery and requests                                                   *)

\* recoverMintLocked: a slipped mint is requoted without another swap.
recoverPilotMint ==
    /\ Quiet /\ pilot.phase = "halted" /\ pilot.halt = "mint" /\ pilot.desired = "running"
    /\ pilot.recovery < MaxRecovery /\ pilot.token = 0 /\ pilot.swapDone
    /\ pnet.final = pilot.last /\ pnet.final.nonce \in pendingCounts
    /\ pilot' = [pilot EXCEPT !.phase = pilot.from, !.halt = "none", !.recovery = @ + 1]
    /\ UNCHANGED <<prow, pnet, pctl, ptop>>

recoverPilotExit ==
    /\ Quiet /\ pilot.phase = "halted" /\ pilot.halt \in {"mint", "reverted"}
    /\ pnet.final = pilot.last /\ pnet.final.nonce \in pendingCounts
    /\ pilot' = [pilot EXCEPT !.phase = "exit", !.desired = "stopped", !.halt = "none"]
    /\ UNCHANGED <<prow, pnet, pctl, ptop>>

\* recoverNativeCredit: the operator names the deposits a halt did not find.
recoverNativeCredit ==
    /\ Quiet /\ pilot.phase = "halted" /\ pilot.halt = "wallet"
    /\ pilot.token = 0 /\ ~pilot.last.rwa /\ pilot.last.pos = 0
    /\ Continuous(pilot.last, pnet.final) /\ pnet.final.native > pilot.last.native
    /\ pilot' = [credited(pilot, pnet.final) EXCEPT !.phase = "exit", !.halt = "none"]
    /\ UNCHANGED <<prow, pnet, pctl, ptop>>

request == \E desired \in {"running", "stopped"} :
    /\ pctl = "idle" /\ pilot.phase # "halted"
    /\ pilot' = [pilot EXCEPT !.desired = desired,
                   !.phase = IF desired # "running" /\ @ # "closed" THEN "exit" ELSE @]
    /\ UNCHANGED <<prow, pnet, pctl, ptop>>

PilotNext ==
    \/ PilotVanish \/ PilotMine \/ PilotConfirm \/ PilotReorg \/ Deposit
    \/ managePosition \/ observeHolding \/ reenter \/ haltUnexplained
    \/ pilotSign \/ broadcast \/ stopTick \/ Expire
    \/ cancelPrepared \/ reconcileReceipt \/ retryApproval
    \/ recoverPilotMint \/ recoverPilotExit \/ recoverNativeCredit \/ request

PilotSpec == PilotInit /\ [][PilotNext]_pilotVars

-----------------------------------------------------------------------------
\* No nonce is signed twice, although a crash may leave bytes on the network
\* whose broadcast the row does not record (cancel works on prepared rows).
PilotNonceOnce == [][pilotSign => prow.tx.nonce >= ptop]_pilotVars

\* A stop reaches bytes already signed: once it is recorded no mint and no
\* purchase goes out for the first time (beforeBroadcast authorises the plan
\* against the phase the stop left).
StopBlocksBroadcast ==
    [][broadcast /\ prow.tx.kind \in {"mint", "buy"} => pilot.phase # "exit"]_pilotVars

\* Every deposit taken into accepted custody is booked exactly once as
\* outside funding, on the three paths that accept one (tick, receipt, repair).
CreditsBooked == pilot.credits = pilot.last.native

\* No step of the pilot signs a nonce whose earlier bytes may still be mined,
\* and none broadcasts entry bytes after a stop.
PilotSteps == PilotNonceOnce /\ StopBlocksBroadcast
=============================================================================

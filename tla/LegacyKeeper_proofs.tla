------------------------- MODULE LegacyKeeper_proofs -------------------------
(***************************************************************************)
(* The RangeKeeper live controller that owns a whole wallet never signs a  *)
(* nonce twice, never signs a mint or a swap after a recorded stop, swaps  *)
(* once per range and closes a campaign only when the wallet is flat.      *)
(*                                                                         *)
(* The proof is one inductive invariant, KeeperInv:                        *)
(*   - Typed, the type of every variable;                                  *)
(*   - Flight ties the campaign's accepted custody, its unresolved action  *)
(*     row, the highest nonce signed and what the network may still mine;  *)
(*   - Settled says what each phase of the campaign row promises;          *)
(*   - Flow ties the phase to the row and to the tick in progress;         *)
(*   - Swaps counts the candidate swaps the chain has confirmed.           *)
(***************************************************************************)
EXTENDS LegacyKeeper, TLAPS

Kinds == {"approveManager", "approveRouter", "revokeManager", "revokeRouter",
          "swap", "sell", "withdraw", "mint"}
\* The transactions that add exposure.
Adds == {"mint", "swap"}
Working == {"entry", "recenter"}

Custody == [nonce : Nat, pos : Nat, risky : BOOLEAN, allow : SUBSET Pairs]
Tx == [nonce : Nat, kind : Kinds \cup {"none"}]
SavedRecord ==
  [phase : {"entry", "recenter", "holding", "exit", "closed", "halted"}, kind : Working,
   desired : {"running", "stopped"}, cand : {"none", "swap", "plain"},
   confirm : {"none", "swap", "plain"}, swapDone : BOOLEAN, withdrawDone : BOOLEAN,
   active : Nat, retired : BOOLEAN, economic : Nat, recenters : Nat, costed : BOOLEAN,
   attempts : Nat, halt : {"none", "mint", "other"}, last : Custody, build : Nat,
   capped : BOOLEAN]
RowRecord == [st : {"none", "prepared", "signed"}, tx : Tx]
MainnetRecord == [final : Custody, mined : Tx, ok : BOOLEAN, wire : SUBSET Tx, manual : Nat]
CtlRecord == [pc : {"idle", "prepare", "sign", "send"}, stage : Kinds \cup {"none"},
              build : Nat, capped : BOOLEAN]

Typed ==
  /\ saved \in SavedRecord /\ rowOut \in RowRecord /\ mainnet \in MainnetRecord
  /\ ctl \in CtlRecord /\ seen \in [top : Nat, swaps : Nat] /\ dirty \in BOOLEAN

\* Nothing of the wallet's next nonce is on the wire.
NothingNext == \A t \in mainnet.wire : t.nonce < mainnet.final.nonce

\* The unresolved row holds the nonce after the accepted custody.  Once it is
\* signed its bytes, and only they, may still be mined.
Flight ==
  /\ rowOut.st = "none" => rowOut = NoRow
  /\ rowOut.st # "none" => rowOut.tx.nonce = saved.last.nonce /\ rowOut.tx.kind \in Kinds
  /\ saved.last.nonce <= mainnet.final.nonce
  /\ rowOut.st = "signed" => seen.top = saved.last.nonce + 1
  /\ rowOut.st # "signed" => seen.top <= saved.last.nonce
  /\ \A t \in mainnet.wire :
       \/ t.nonce < mainnet.final.nonce
       \/ t = rowOut.tx /\ rowOut.st = "signed" /\ t.nonce = mainnet.final.nonce
  /\ mainnet.mined # NoTx =>
       /\ mainnet.mined = rowOut.tx /\ rowOut.st = "signed"
       /\ mainnet.mined.nonce = mainnet.final.nonce /\ NothingNext
  /\ ctl.pc = "prepare" => rowOut = NoRow /\ ctl.stage \in Kinds
  /\ ctl.pc = "sign" => rowOut.st = "prepared"
  /\ ctl.pc = "send" => rowOut.st = "signed" /\ mainnet.mined = NoTx /\ NothingNext

\* A campaign between the withdrawal of a range and the plan of the next one.
Replanning(s) == s.phase = "recenter" /\ s.cand = "none"

Settled(s) ==
  /\ s.phase \in Working => s.desired = "running"
  /\ s.phase = "exit" => s.desired = "stopped"
  /\ s.phase = "holding" => s.cand = "none"
  /\ Replanning(s) => s.withdrawDone /\ ~s.swapDone /\ s.active = 0
  /\ s.phase = "closed" => s.last.pos = 0 /\ s.last.allow = {} /\ ~s.last.risky

Quiet == rowOut = NoRow /\ ctl.pc = "idle"

Flow ==
  /\ saved.phase \in {"closed", "halted"} \/ Replanning(saved) => Quiet
  /\ ctl.pc = "prepare" /\ ctl.stage \in Adds => saved.desired = "running"
  /\ ctl.pc = "sign" /\ rowOut.tx.kind \in Adds => saved.desired = "running"

\* The campaign works on a range, or a mint recovery may bring it back to it.
InAction(s) ==
  \/ s.phase = "recenter"
  \/ s.phase = "entry" /\ s.cand # "none"
  \/ s.phase = "halted" /\ s.halt = "mint" /\ s.cand # "none" /\ s.desired = "running"

\* A swap is prepared or signed and the confirmed chain has not seen it.
SwapAhead == rowOut.tx.kind = "swap" /\ mainnet.final.nonce = saved.last.nonce

Swaps ==
  /\ seen.swaps <= 1
  /\ SwapAhead => seen.swaps = 0
  /\ ctl.pc = "prepare" /\ ctl.stage = "swap" => seen.swaps = 0
  /\ InAction(saved) /\ ~saved.swapDone /\ (rowOut.tx.kind # "swap" \/ SwapAhead)
       => seen.swaps = 0

KeeperInv == Typed /\ Flight /\ Settled(saved) /\ Flow /\ Swaps

-----------------------------------------------------------------------------
(* The chain.                                                              *)

LEMMA EffectType ==
  ASSUME NEW c \in Custody, NEW k
  PROVE  Effect(c, k) \in Custody /\ Effect(c, k).nonce = c.nonce
<1> DEFINE Fits(d) == d \in Custody /\ d.nonce = c.nonce
<1>1. ASSUME NEW a \in SUBSET Pairs PROVE Fits([c EXCEPT !.allow = a])
  BY DEF Custody
<1>2. /\ Fits([c EXCEPT !.risky = TRUE]) /\ Fits([c EXCEPT !.risky = FALSE])
      /\ Fits([c EXCEPT !.pos = 0, !.risky = TRUE]) /\ Fits([c EXCEPT !.pos = c.nonce + 1])
  <2>1. ASSUME NEW b \in BOOLEAN PROVE Fits([c EXCEPT !.risky = b])
    BY DEF Custody
  <2>2. ASSUME NEW n \in Nat PROVE Fits([c EXCEPT !.pos = n])
    BY DEF Custody
  <2>3. ASSUME NEW b \in BOOLEAN PROVE Fits([c EXCEPT !.pos = 0, !.risky = b])
    BY DEF Custody
  <2>4. c.nonce + 1 \in Nat
    BY DEF Custody
  <2> QED BY <2>1, <2>2, <2>3, <2>4
<1>3. /\ c.allow \cup {"manager"} \in SUBSET Pairs /\ c.allow \cup {"router"} \in SUBSET Pairs
      /\ c.allow \ {"manager"} \in SUBSET Pairs /\ c.allow \ {"router"} \in SUBSET Pairs
  BY DEF Custody, Pairs
<1>4. /\ Fits([c EXCEPT !.allow = @ \cup {"manager"}]) /\ Fits([c EXCEPT !.allow = @ \cup {"router"}])
      /\ Fits([c EXCEPT !.allow = @ \ {"manager"}]) /\ Fits([c EXCEPT !.allow = @ \ {"router"}])
  BY <1>1, <1>3
<1>5. Fits(c)
  OBVIOUS
<1> HIDE DEF Fits
<1>6. Fits(Effect(c, k))
  BY <1>2, <1>4, <1>5 DEF Effect
<1> QED BY <1>6 DEF Fits

LEMMA AfterType ==
  ASSUME NEW c \in Custody, NEW t, NEW ok \in BOOLEAN
  PROVE  After(c, t, ok) \in Custody /\ After(c, t, ok).nonce = c.nonce + 1
<1> DEFINE d == IF ok THEN Effect(c, t.kind) ELSE c
<1>1. d \in Custody /\ d.nonce = c.nonce
  BY EffectType
<1>2. After(c, t, ok) = [d EXCEPT !.nonce = @ + 1]
  BY DEF After
<1> HIDE DEF d
<1> QED BY <1>1, <1>2 DEF Custody

\* The newest block is at the confirmed nonce, or one past it.
LEMMA LatestNonce ==
  ASSUME Typed
  PROVE  /\ latest \in Custody
         /\ mainnet.mined = NoTx => latest = mainnet.final
         /\ mainnet.mined # NoTx => latest.nonce = mainnet.final.nonce + 1
<1>1. mainnet.final \in Custody /\ mainnet.ok \in BOOLEAN
  BY DEF Typed, MainnetRecord
<1> QED BY <1>1, AfterType DEF latest

\* A nonce the node may hand out is not below the newest block's.
LEMMA PendingNonce ==
  ASSUME Typed, NEW n \in pendingNonces
  PROVE  n >= latest.nonce
BY LatestNonce DEF pendingNonces, Custody, Typed, MainnetRecord, Tx

\* Every nonce and count is a number.
LEMMA Numbers ==
  ASSUME KeeperInv
  PROVE  /\ saved.last.nonce \in Nat /\ mainnet.final.nonce \in Nat /\ rowOut.tx.nonce \in Nat
         /\ seen.top \in Nat /\ seen.swaps \in Nat /\ \A t \in mainnet.wire : t.nonce \in Nat
<1>1. Typed
  BY DEF KeeperInv
<1>2. saved.last.nonce \in Nat
  BY <1>1 DEF Typed, SavedRecord, Custody
<1>3. mainnet.final.nonce \in Nat /\ \A t \in mainnet.wire : t.nonce \in Nat
  BY <1>1 DEF Typed, MainnetRecord, Custody, Tx
<1>4. rowOut.tx.nonce \in Nat
  BY <1>1 DEF Typed, RowRecord, Tx
<1>5. seen.top \in Nat /\ seen.swaps \in Nat
  BY <1>1 DEF Typed
<1> QED BY <1>2, <1>3, <1>4, <1>5


LEMMA VanishKeeps == ASSUME KeeperInv, Vanish PROVE KeeperInv'
<1>1. PICK t \in mainnet.wire : mainnet' = [mainnet EXCEPT !.wire = @ \ {t}]
  BY DEF Vanish
<1>2. UNCHANGED <<saved, rowOut, dirty, ctl, seen>>
  BY DEF Vanish
<1>3. /\ mainnet' \in MainnetRecord /\ mainnet'.final = mainnet.final
      /\ mainnet'.mined = mainnet.mined /\ mainnet'.wire \subseteq mainnet.wire
  BY <1>1 DEF KeeperInv, Typed, MainnetRecord
<1>4. Typed'
  BY <1>2, <1>3 DEF KeeperInv, Typed
<1>5. Flight'
  BY <1>2, <1>3 DEF KeeperInv, Flight, NothingNext
<1>6. Settled(saved)' /\ Flow' /\ Swaps'
  BY <1>2, <1>3 DEF KeeperInv, Settled, Replanning, Flow, Quiet, Swaps, SwapAhead, InAction
<1> QED BY <1>4, <1>5, <1>6 DEF KeeperInv

LEMMA MineKeeps == ASSUME KeeperInv, Mine PROVE KeeperInv'
<1>1. PICK t \in mainnet.wire, ok \in BOOLEAN :
        /\ mainnet.mined = NoTx /\ t.nonce = mainnet.final.nonce
        /\ mainnet' = [mainnet EXCEPT !.mined = t, !.ok = ok, !.wire = {u \in @ : u.nonce > t.nonce}]
  BY DEF Mine
<1>2. UNCHANGED <<saved, rowOut, dirty, ctl, seen>>
  BY DEF Mine
<1>3. /\ mainnet' \in MainnetRecord /\ mainnet'.final = mainnet.final /\ mainnet'.mined = t
      /\ mainnet'.wire = {u \in mainnet.wire : u.nonce > t.nonce}
  BY <1>1 DEF KeeperInv, Typed, MainnetRecord
<1>4. Typed'
  BY <1>2, <1>3 DEF KeeperInv, Typed
<1>5. t = rowOut.tx /\ rowOut.st = "signed"
  BY <1>1, Numbers DEF KeeperInv, Flight
<1>6. mainnet'.wire = {}
  <2>1. \A u \in mainnet.wire : u.nonce <= mainnet.final.nonce
    BY Numbers DEF KeeperInv, Flight
  <2>2. \A u \in mainnet.wire : ~(u.nonce > t.nonce)
    BY <1>1, <2>1, Numbers
  <2> QED BY <1>3, <2>2
<1>7. Flight'
  <2>1. ctl.pc # "send"
    BY <1>1, Numbers DEF KeeperInv, Flight, NothingNext
  <2> QED BY <1>1, <1>2, <1>3, <1>5, <1>6, <2>1 DEF KeeperInv, Flight, NothingNext
<1>8. Settled(saved)' /\ Flow' /\ Swaps'
  BY <1>2, <1>3 DEF KeeperInv, Settled, Replanning, Flow, Quiet, Swaps, SwapAhead, InAction
<1> QED BY <1>4, <1>7, <1>8 DEF KeeperInv

LEMMA ConfirmKeeps == ASSUME KeeperInv, Confirm PROVE KeeperInv'
<1>1. /\ mainnet.mined # NoTx /\ UNCHANGED <<saved, rowOut, dirty, ctl>>
      /\ mainnet' = [mainnet EXCEPT !.final = latest, !.mined = NoTx, !.ok = TRUE]
  BY DEF Confirm
<1>2. PICK n \in 0 .. 1 : seen' = [seen EXCEPT !.swaps = seen.swaps + n]
                        /\ (n = 1 => mainnet.mined.kind = "swap")
  <2>1. seen \in [top : Nat, swaps : Nat]
    BY DEF KeeperInv, Typed
  <2>2. CASE mainnet.ok /\ mainnet.mined.kind = "swap"
    BY <2>2 DEF Confirm
  <2>3. CASE ~(mainnet.ok /\ mainnet.mined.kind = "swap")
    <3>1. seen' = [seen EXCEPT !.swaps = seen.swaps]
      BY <2>3 DEF Confirm
    <3>2. seen.swaps = seen.swaps + 0 /\ 0 # 1
      BY <2>1
    <3>3. seen' = [seen EXCEPT !.swaps = seen.swaps + 0]
      BY <3>1, <3>2
    <3> QED BY <3>2, <3>3
  <2> QED BY <2>2, <2>3
<1>3. seen' \in [top : Nat, swaps : Nat] /\ seen'.top = seen.top /\ seen'.swaps = seen.swaps + n
  <2>1. seen \in [top : Nat, swaps : Nat] /\ seen.swaps + n \in Nat
    BY Numbers DEF KeeperInv, Typed
  <2> QED BY <1>2, <2>1
<1>4. latest \in Custody /\ latest.nonce = mainnet.final.nonce + 1
  BY <1>1, LatestNonce DEF KeeperInv
<1>5. /\ mainnet' \in MainnetRecord /\ mainnet'.final = latest /\ mainnet'.mined = NoTx
      /\ mainnet'.wire = mainnet.wire
  BY <1>1, <1>4 DEF KeeperInv, Typed, MainnetRecord, Tx, NoTx
<1>6. Typed'
  BY <1>1, <1>3, <1>5 DEF KeeperInv, Typed
<1>7. /\ mainnet.mined = rowOut.tx /\ rowOut.st = "signed" /\ NothingNext
      /\ rowOut.tx.nonce = mainnet.final.nonce /\ rowOut.tx.nonce = saved.last.nonce
  BY <1>1 DEF KeeperInv, Flight
<1>8. saved.last.nonce \in Nat /\ mainnet.final.nonce \in Nat /\ \A t \in mainnet.wire : t.nonce \in Nat
  BY Numbers
<1>9. Flight'
  BY <1>1, <1>3, <1>4, <1>5, <1>7, <1>8 DEF KeeperInv, Flight, NothingNext, NoRow
<1>10. Swaps'
  <2>1. ~SwapAhead' /\ ctl.pc # "prepare"
    BY <1>1, <1>4, <1>5, <1>7, <1>8 DEF SwapAhead, KeeperInv, Flight, NoRow
  <2>2. n = 0 \/ (SwapAhead /\ rowOut.tx.kind = "swap")
    <3>1. n # 1 => n = 0
      OBVIOUS
    <3> QED BY <1>2, <1>7, <3>1 DEF SwapAhead
  <2>3. rowOut.tx.kind # "swap" => n = 0
    BY <2>2
  <2> QED BY <1>1, <1>3, <2>1, <2>2, <2>3 DEF KeeperInv, Swaps, InAction, Typed
<1>11. Settled(saved)' /\ Flow'
  BY <1>1 DEF KeeperInv, Settled, Replanning, Flow, Quiet
<1> QED BY <1>6, <1>9, <1>10, <1>11 DEF KeeperInv

LEMMA ReorganiseKeeps == ASSUME KeeperInv, Reorganise PROVE KeeperInv'
<1>1. /\ mainnet.mined # NoTx /\ UNCHANGED <<saved, rowOut, dirty, ctl, seen>>
      /\ mainnet' = [mainnet EXCEPT !.mined = NoTx, !.ok = TRUE, !.wire = @ \cup {mainnet.mined}]
  BY DEF Reorganise
<1>2. /\ mainnet' \in MainnetRecord /\ mainnet'.final = mainnet.final /\ mainnet'.mined = NoTx
      /\ mainnet'.wire = mainnet.wire \cup {mainnet.mined}
  BY <1>1 DEF KeeperInv, Typed, MainnetRecord, Tx, NoTx
<1>3. Typed'
  BY <1>1, <1>2 DEF KeeperInv, Typed
<1>4. /\ mainnet.mined = rowOut.tx /\ rowOut.st = "signed" /\ ctl.pc # "send"
      /\ rowOut.tx.nonce = mainnet.final.nonce
  BY <1>1 DEF KeeperInv, Flight
<1>5. Flight'
  BY <1>1, <1>2, <1>4 DEF KeeperInv, Flight, NothingNext
<1>6. Settled(saved)' /\ Flow' /\ Swaps'
  BY <1>1, <1>2 DEF KeeperInv, Settled, Replanning, Flow, Quiet, Swaps, SwapAhead, InAction
<1> QED BY <1>3, <1>5, <1>6 DEF KeeperInv

LEMMA ManualKeeps == ASSUME KeeperInv, ManualTransaction PROVE KeeperInv'
<1>1. /\ mainnet.mined = NoTx /\ UNCHANGED <<saved, rowOut, dirty, ctl, seen>>
      /\ mainnet' = [mainnet EXCEPT !.manual = @ + 1, !.final.nonce = @ + 1,
                       !.wire = {u \in @ : u.nonce > mainnet.final.nonce}]
  BY DEF ManualTransaction
<1>2. mainnet.final \in Custody /\ mainnet.final.nonce \in Nat
  BY DEF KeeperInv, Typed, MainnetRecord, Custody
<1>3. [mainnet.final EXCEPT !.nonce = @ + 1] \in Custody
      /\ [mainnet.final EXCEPT !.nonce = @ + 1].nonce = mainnet.final.nonce + 1
  BY <1>2 DEF Custody
<1>4. /\ mainnet' \in MainnetRecord /\ mainnet'.final = [mainnet.final EXCEPT !.nonce = @ + 1]
      /\ mainnet'.mined = NoTx /\ mainnet'.wire = {u \in mainnet.wire : u.nonce > mainnet.final.nonce}
  <2> DEFINE c == [mainnet.final EXCEPT !.nonce = @ + 1]
             W == {u \in mainnet.wire : u.nonce > mainnet.final.nonce}
  <2>1. mainnet \in MainnetRecord /\ c \in Custody /\ W \in SUBSET Tx /\ mainnet.manual + 1 \in Nat
    BY <1>3 DEF KeeperInv, Typed, MainnetRecord
  <2>2. mainnet' = [mainnet EXCEPT !.manual = @ + 1, !.final = c, !.wire = W]
    BY <1>1, <2>1 DEF MainnetRecord
  <2> HIDE DEF c, W
  <2>3. /\ mainnet' \in MainnetRecord /\ mainnet'.final = c /\ mainnet'.mined = mainnet.mined
        /\ mainnet'.wire = W
    BY <2>1, <2>2 DEF MainnetRecord
  <2> QED BY <1>1, <2>3 DEF c, W
<1>5. mainnet'.final.nonce = mainnet.final.nonce + 1
  BY <1>3, <1>4
<1>6. Typed'
  BY <1>1, <1>4 DEF KeeperInv, Typed
<1>7. mainnet'.wire = {}
  BY <1>4 DEF KeeperInv, Flight, Typed, MainnetRecord, Custody, Tx
<1>8. saved.last.nonce \in Nat
  BY DEF KeeperInv, Typed, SavedRecord, Custody
<1>9. Flight'
  BY <1>1, <1>2, <1>4, <1>5, <1>7, <1>8 DEF KeeperInv, Flight, NothingNext
<1>10. SwapAhead' => SwapAhead
  BY <1>1, <1>2, <1>5, <1>8 DEF SwapAhead, KeeperInv, Flight
<1>11. Settled(saved)' /\ Flow' /\ Swaps'
  BY <1>1, <1>10 DEF KeeperInv, Settled, Replanning, Flow, Quiet, Swaps, InAction
<1> QED BY <1>6, <1>9, <1>11 DEF KeeperInv

-----------------------------------------------------------------------------
(* The tick in progress.                                                   *)

LEMMA PrepareKeeps == ASSUME KeeperInv, prepare PROVE KeeperInv'
<1> DEFINE t == [nonce |-> latest.nonce, kind |-> ctl.stage]
<1>1. /\ ctl.pc = "prepare" /\ latest = saved.last /\ UNCHANGED <<saved, dirty, mainnet, seen>>
      /\ rowOut' = [st |-> "prepared", tx |-> t] /\ ctl' = [ctl EXCEPT !.pc = "sign"]
  BY DEF prepare
<1>2. rowOut = NoRow /\ ctl.stage \in Kinds /\ ctl \in CtlRecord
  BY <1>1 DEF KeeperInv, Flight, Typed
<1>3. t \in Tx /\ t.nonce = saved.last.nonce /\ t.kind = ctl.stage
  BY <1>1, <1>2, Numbers DEF Tx
<1> HIDE DEF t
<1>4. ctl' \in CtlRecord /\ ctl'.pc = "sign" /\ ctl'.stage = ctl.stage
  BY <1>1, <1>2 DEF CtlRecord
<1>5. rowOut' \in RowRecord /\ rowOut'.st = "prepared" /\ rowOut'.tx = t
  BY <1>1, <1>3 DEF RowRecord
<1>6. Typed'
  BY <1>1, <1>4, <1>5 DEF KeeperInv, Typed
<1>7. rowOut.st = "none" /\ rowOut.tx.kind = "none"
  BY <1>2 DEF NoRow, NoTx
<1>8. Flight'
  <2>1. mainnet.mined = NoTx /\ \A u \in mainnet.wire : u.nonce < mainnet.final.nonce
    BY <1>7 DEF KeeperInv, Flight
  <2> QED BY <1>1, <1>2, <1>3, <1>4, <1>5, <1>7, <2>1 DEF KeeperInv, Flight
<1>9. Settled(saved)'
  BY <1>1 DEF KeeperInv, Settled, Replanning
<1>10. Flow'
  BY <1>1, <1>3, <1>4, <1>5 DEF KeeperInv, Flow, Quiet, Replanning
<1>11. Swaps'
  <2>1. seen.swaps <= 1 /\ (t.kind = "swap" => seen.swaps = 0)
    BY <1>1, <1>3 DEF KeeperInv, Swaps
  <2>2. InAction(saved) /\ ~saved.swapDone => seen.swaps = 0
    BY <1>7 DEF KeeperInv, Swaps
  <2> QED BY <1>1, <1>4, <1>5, <2>1, <2>2 DEF Swaps, SwapAhead, InAction
<1> QED BY <1>6, <1>8, <1>9, <1>10, <1>11 DEF KeeperInv

LEMMA SignKeeps == ASSUME KeeperInv, sign PROVE KeeperInv'
<1>1. /\ ctl.pc = "sign" /\ UNCHANGED <<saved, dirty, mainnet>>
      /\ rowOut' = [rowOut EXCEPT !.st = "signed"] /\ ctl' = [ctl EXCEPT !.pc = "send"]
      /\ seen' = [seen EXCEPT !.top = rowOut.tx.nonce + 1]
  BY DEF sign
<1>2. /\ rowOut \in RowRecord /\ ctl \in CtlRecord /\ seen \in [top : Nat, swaps : Nat]
      /\ rowOut.st = "prepared" /\ rowOut.tx.nonce = saved.last.nonce /\ rowOut.tx.kind \in Kinds
  BY <1>1 DEF KeeperInv, Flight, Typed
<1>3. /\ rowOut' \in RowRecord /\ rowOut'.st = "signed" /\ rowOut'.tx = rowOut.tx
      /\ ctl' \in CtlRecord /\ ctl'.pc = "send"
  BY <1>1, <1>2 DEF RowRecord, CtlRecord
<1>4. /\ seen' \in [top : Nat, swaps : Nat] /\ seen'.top = saved.last.nonce + 1
      /\ seen'.swaps = seen.swaps
  BY <1>1, <1>2, Numbers
<1>5. Typed'
  BY <1>1, <1>3, <1>4 DEF KeeperInv, Typed
<1>6. Flight'
  <2>1. mainnet.mined = NoTx /\ NothingNext
    BY <1>2 DEF KeeperInv, Flight, NothingNext
  <2> QED BY <1>1, <1>2, <1>3, <1>4, <2>1 DEF KeeperInv, Flight, NothingNext
<1>7. Settled(saved)'
  BY <1>1 DEF KeeperInv, Settled, Replanning
<1>8. Flow'
  BY <1>1, <1>3 DEF KeeperInv, Flow, Quiet, Replanning
<1>9. Swaps'
  BY <1>1, <1>3, <1>4 DEF KeeperInv, Swaps, SwapAhead, InAction
<1> QED BY <1>5, <1>6, <1>7, <1>8, <1>9 DEF KeeperInv

\* The bytes of the signed row reach the wire, the first time or again.
LEMMA BytesOnTheWire ==
  ASSUME KeeperInv, rowOut.st = "signed", mainnet.mined = NoTx, UNCHANGED <<saved, rowOut, dirty, seen>>,
         mainnet' = [mainnet EXCEPT !.wire = @ \cup {rowOut.tx}],
         ctl' \in CtlRecord, ctl'.pc = "idle"
  PROVE  KeeperInv'
<1>1. mainnet \in MainnetRecord /\ rowOut.tx \in Tx
  BY DEF KeeperInv, Typed, RowRecord
<1>2. /\ mainnet' \in MainnetRecord /\ mainnet'.final = mainnet.final /\ mainnet'.mined = NoTx
      /\ mainnet'.wire = mainnet.wire \cup {rowOut.tx}
  BY <1>1 DEF MainnetRecord
<1>3. Typed'
  BY <1>2 DEF KeeperInv, Typed
<1>4. Flight'
  <2>1. rowOut.tx.nonce = saved.last.nonce /\ saved.last.nonce <= mainnet.final.nonce
    BY DEF KeeperInv, Flight
  <2>2. rowOut.tx.nonce < mainnet.final.nonce \/ rowOut.tx.nonce = mainnet.final.nonce
    BY <2>1, Numbers
  <2> QED BY <1>2, <2>2 DEF KeeperInv, Flight, NothingNext
<1>5. Settled(saved)' /\ Flow' /\ Swaps'
  BY <1>2 DEF KeeperInv, Settled, Replanning, Flow, Quiet, Swaps, SwapAhead, InAction
<1> QED BY <1>3, <1>4, <1>5 DEF KeeperInv

LEMMA IdleTyped ==
  ASSUME KeeperInv, ctl' = [ctl EXCEPT !.pc = "idle", !.stage = "none"]
  PROVE  ctl' \in CtlRecord /\ ctl'.pc = "idle" /\ ctl'.stage = "none"
BY DEF KeeperInv, Typed, CtlRecord

LEMMA SendKeeps == ASSUME KeeperInv, send PROVE KeeperInv'
<1>1. rowOut.st = "signed" /\ mainnet.mined = NoTx
  BY DEF send, KeeperInv, Flight
<1>2. /\ UNCHANGED <<saved, rowOut, dirty, seen>> /\ ctl' = [ctl EXCEPT !.pc = "idle", !.stage = "none"]
      /\ mainnet' = [mainnet EXCEPT !.wire = @ \cup {rowOut.tx}]
  BY DEF send
<1> QED BY <1>1, <1>2, IdleTyped, BytesOnTheWire

LEMMA ResendKeeps == ASSUME KeeperInv, resend PROVE KeeperInv'
<1>1. /\ rowOut.st = "signed" /\ ctl.pc = "idle" /\ mainnet.mined # rowOut.tx
      /\ UNCHANGED <<saved, rowOut, dirty, ctl, seen>>
      /\ mainnet' = [mainnet EXCEPT !.wire = @ \cup {rowOut.tx}]
  BY DEF resend, Reconciling, Free
<1>2. mainnet.mined = NoTx
  BY <1>1 DEF KeeperInv, Flight
<1>3. ctl' \in CtlRecord /\ ctl'.pc = "idle"
  BY <1>1 DEF KeeperInv, Typed
<1> QED BY <1>1, <1>2, <1>3, BytesOnTheWire

\* A tick ends, or a build is deployed: only the process changes.
LEMMA IdleKeeps ==
  ASSUME KeeperInv, UNCHANGED <<saved, rowOut, dirty, mainnet, seen>>,
         ctl' \in CtlRecord, ctl'.pc = "idle"
  PROVE  KeeperInv'
<1>1. Typed'
  BY DEF KeeperInv, Typed
<1>2. Flight'
  BY DEF KeeperInv, Flight, NothingNext
<1>3. Settled(saved)' /\ Flow' /\ Swaps'
  BY DEF KeeperInv, Settled, Replanning, Flow, Quiet, Swaps, SwapAhead, InAction
<1> QED BY <1>1, <1>2, <1>3 DEF KeeperInv

LEMMA InterruptedKeeps == ASSUME KeeperInv, interrupted PROVE KeeperInv'
BY IdleTyped, IdleKeeps DEF interrupted

LEMMA DeployKeeps == ASSUME KeeperInv, deployBuild PROVE KeeperInv'
<1>1. PICK capped \in BOOLEAN : ctl' = [ctl EXCEPT !.build = @ + 1, !.capped = capped]
  BY DEF deployBuild
<1>2. ctl.pc = "idle" /\ ctl \in CtlRecord /\ UNCHANGED <<saved, rowOut, dirty, mainnet, seen>>
  BY DEF deployBuild, Free, KeeperInv, Typed
<1>3. ctl' \in CtlRecord /\ ctl'.pc = "idle"
  <2>1. PICK n \in Nat : n = ctl.build + 1
    BY <1>2 DEF CtlRecord
  <2>2. ctl' = [ctl EXCEPT !.build = n, !.capped = capped]
    BY <1>1, <2>1
  <2> QED BY <1>2, <2>2 DEF CtlRecord
<1> QED BY <1>2, <1>3, IdleKeeps

\* What was never signed and whose nonce is still free is given up.
LEMMA CancelKeeps == ASSUME KeeperInv, cancelUnsigned PROVE KeeperInv'
<1>1. /\ ctl.pc = "idle" /\ rowOut.st = "prepared" /\ rowOut.tx.nonce \in pendingNonces
      /\ rowOut' = NoRow /\ dirty' = TRUE /\ UNCHANGED <<saved, mainnet, ctl, seen>>
  BY DEF cancelUnsigned, Reconciling, Free, cancellable
<1>2. NoRow \in RowRecord /\ NoRow.st = "none" /\ NoRow.tx.kind = "none"
  BY DEF NoRow, NoTx, RowRecord, Tx
<1>3. Typed'
  BY <1>1, <1>2 DEF KeeperInv, Typed
<1>4. mainnet.mined = NoTx /\ NothingNext /\ rowOut.tx.nonce = saved.last.nonce
  BY <1>1 DEF KeeperInv, Flight, NothingNext
<1>5. mainnet.final.nonce = saved.last.nonce
  <2>1. rowOut.tx.nonce >= mainnet.final.nonce
    BY <1>1, <1>4, PendingNonce, LatestNonce DEF KeeperInv
  <2> QED BY <1>4, <2>1, Numbers DEF KeeperInv, Flight
<1>6. Flight'
  BY <1>1, <1>2, <1>4 DEF KeeperInv, Flight, NothingNext
<1>7. Settled(saved)' /\ Flow'
  BY <1>1 DEF KeeperInv, Settled, Replanning, Flow, Quiet
<1>8. Swaps'
  <2>1. InAction(saved) /\ ~saved.swapDone => seen.swaps = 0
    BY <1>5 DEF KeeperInv, Swaps, SwapAhead
  <2> QED BY <1>1, <1>2, <2>1 DEF KeeperInv, Swaps, SwapAhead, InAction
<1> QED BY <1>3, <1>6, <1>7, <1>8 DEF KeeperInv

-----------------------------------------------------------------------------
(* The campaign row.                                                       *)

\* An operator's command leaves a campaign that has accepted the same custody
\* and works on a range only if it did before.
LEMMA CommandKeeps ==
  ASSUME KeeperInv, NEW x \in SavedRecord, saved' = x, x.last = saved.last, Settled(x),
         UNCHANGED <<rowOut, dirty, mainnet, ctl, seen>>, ctl.pc = "idle",
         x.phase \in {"closed", "halted"} \/ Replanning(x) => rowOut = NoRow,
         InAction(x) /\ ~x.swapDone => InAction(saved) /\ ~saved.swapDone
  PROVE  KeeperInv'
<1>1. Typed'
  BY DEF KeeperInv, Typed
<1>2. Flight'
  BY DEF KeeperInv, Flight, NothingNext
<1>3. Settled(saved)'
  BY DEF Settled, Replanning
<1>4. Flow'
  BY DEF Flow, Quiet, Replanning
<1>5. Swaps'
  BY DEF KeeperInv, Swaps, SwapAhead, InAction
<1> QED BY <1>1, <1>2, <1>3, <1>4, <1>5 DEF KeeperInv

LEMMA StopKeeps == ASSUME KeeperInv, requestStop PROVE KeeperInv'
<1>1. ctl.pc = "idle" /\ UNCHANGED <<rowOut, dirty, mainnet, ctl, seen>> /\ saved \in SavedRecord
  BY DEF requestStop, Free, KeeperInv, Typed
<1>2. PICK p \in {"exit", "closed", "halted"} :
        /\ saved' = [saved EXCEPT !.desired = "stopped", !.phase = p]
        /\ p # "exit" => p = saved.phase
  BY <1>1 DEF requestStop, SavedRecord
<1>3. /\ saved' \in SavedRecord /\ saved'.last = saved.last /\ saved'.desired = "stopped"
      /\ saved'.phase = p /\ saved'.cand = saved.cand
  BY <1>1, <1>2 DEF SavedRecord
<1>4. p # "exit" => rowOut = NoRow
  BY <1>2 DEF KeeperInv, Flow, Quiet
<1>5. Settled(saved')
  BY <1>2, <1>3 DEF KeeperInv, Settled, Replanning, Working
<1>6. ~InAction(saved') /\ ~Replanning(saved')
  BY <1>3 DEF InAction, Replanning
<1> QED BY <1>1, <1>2, <1>3, <1>4, <1>5, <1>6, CommandKeeps

LEMMA RecoverExitKeeps == ASSUME KeeperInv, recoverExit PROVE KeeperInv'
<1>1. /\ ctl.pc = "idle" /\ UNCHANGED <<rowOut, dirty, mainnet, ctl, seen>> /\ saved \in SavedRecord
      /\ saved' = [saved EXCEPT !.phase = "exit", !.desired = "stopped", !.cand = "none", !.halt = "none"]
  BY DEF recoverExit, Free, KeeperInv, Typed
<1>2. /\ saved' \in SavedRecord /\ saved'.last = saved.last /\ saved'.desired = "stopped"
      /\ saved'.phase = "exit"
  BY <1>1 DEF SavedRecord
<1> QED BY <1>1, <1>2, CommandKeeps DEF Settled, Replanning, InAction, Working

LEMMA RecoverMintKeeps == ASSUME KeeperInv, recoverMint PROVE KeeperInv'
<1>1. /\ ctl.pc = "idle" /\ UNCHANGED <<rowOut, dirty, mainnet, ctl, seen>> /\ saved \in SavedRecord
      /\ saved.phase = "halted" /\ saved.halt = "mint" /\ saved.cand # "none"
      /\ saved.desired = "running" /\ rowOut = NoRow
      /\ saved' = [saved EXCEPT !.phase = saved.kind, !.halt = "none", !.attempts = saved.attempts + 1]
  BY DEF recoverMint, Free, KeeperInv, Typed
<1>2. PICK n \in Nat : n = saved.attempts + 1
  BY <1>1 DEF SavedRecord
<1>3. saved.kind \in Working
  BY <1>1 DEF SavedRecord
<1>4. /\ saved' \in SavedRecord /\ saved'.last = saved.last /\ saved'.desired = "running"
      /\ saved'.phase = saved.kind /\ saved'.cand = saved.cand /\ saved'.swapDone = saved.swapDone
  <2>1. saved' = [saved EXCEPT !.phase = saved.kind, !.halt = "none", !.attempts = n]
    BY <1>1, <1>2
  <2> DEFINE u == [saved EXCEPT !.halt = "none", !.attempts = n]
  <2>2. /\ u \in SavedRecord /\ u.last = saved.last /\ u.desired = saved.desired
        /\ u.cand = saved.cand /\ u.swapDone = saved.swapDone
    BY <1>1 DEF SavedRecord
  <2>3. saved' = [u EXCEPT !.phase = saved.kind]
    BY <1>1, <2>1 DEF SavedRecord
  <2> HIDE DEF u
  <2>4. PICK p \in Working : p = saved.kind
    BY <1>3
  <2>5. saved' = [u EXCEPT !.phase = p]
    BY <2>3, <2>4
  <2>6. /\ saved' \in SavedRecord /\ saved'.last = u.last /\ saved'.desired = u.desired
        /\ saved'.phase = p /\ saved'.cand = u.cand /\ saved'.swapDone = u.swapDone
    BY <2>2, <2>5 DEF SavedRecord, Working
  <2> QED BY <1>1, <2>2, <2>4, <2>6
<1>5. InAction(saved)
  BY <1>1 DEF InAction
<1>6. Settled(saved')
  BY <1>1, <1>3, <1>4 DEF Settled, Replanning, Working
<1> QED BY <1>1, <1>4, <1>5, <1>6, CommandKeeps

\* A build that adopts a settled campaign changes neither phase nor range.
LEMMA MigrateKeeps == ASSUME KeeperInv, migrate PROVE KeeperInv'
<1>1. /\ ctl.pc = "idle" /\ UNCHANGED <<rowOut, dirty, mainnet, ctl, seen>>
      /\ saved \in SavedRecord /\ ctl \in CtlRecord /\ rowOut = NoRow
  BY DEF migrate, Free, KeeperInv, Typed
<1>2. PICK k \in {"none", "swap", "plain"} :
        saved' = [saved EXCEPT !.build = ctl.build, !.capped = ctl.capped, !.confirm = k]
  BY <1>1 DEF migrate, SavedRecord
<1>3. ctl.build \in Nat /\ ctl.capped \in BOOLEAN
  BY <1>1 DEF CtlRecord
<1>4. /\ saved' \in SavedRecord /\ saved'.last = saved.last /\ saved'.desired = saved.desired
      /\ saved'.phase = saved.phase /\ saved'.cand = saved.cand /\ saved'.swapDone = saved.swapDone
      /\ saved'.withdrawDone = saved.withdrawDone /\ saved'.active = saved.active
      /\ saved'.halt = saved.halt
  BY <1>1, <1>2, <1>3 DEF SavedRecord
<1>5. Settled(saved')
  BY <1>4 DEF KeeperInv, Settled, Replanning
<1>6. InAction(saved') <=> InAction(saved)
  BY <1>4 DEF InAction
<1> QED BY <1>1, <1>4, <1>5, <1>6, CommandKeeps

\* The next campaign starts from the custody the closed one left.
LEMMA FreshKeeps ==
  ASSUME KeeperInv, ctl.pc = "idle", UNCHANGED <<rowOut, dirty, mainnet, ctl, seen>>,
         NEW x \in SavedRecord, saved' = x, x.last = saved.last, x.phase = "entry",
         x.cand = "none", x.desired = "running"
  PROVE  KeeperInv'
BY CommandKeeps DEF Settled, Replanning, InAction, Working

LEMMA FreshType ==
  ASSUME KeeperInv, NEW x, x = freshState(mainnet.final, ctl.build, ctl.capped)
  PROVE  x \in SavedRecord /\ x.last = mainnet.final /\ x.phase = "entry" /\ x.cand = "none"
         /\ x.desired = "running"
<1>1. /\ mainnet.final \in Custody /\ ctl.build \in Nat /\ ctl.capped \in BOOLEAN
  BY DEF KeeperInv, Typed, MainnetRecord, CtlRecord
<1> QED BY <1>1 DEF freshState, SavedRecord, Working

LEMMA RearmKeeps == ASSUME KeeperInv, rearm PROVE KeeperInv'
<1> DEFINE x == freshState(mainnet.final, ctl.build, ctl.capped)
<1>1. saved.costed \in BOOLEAN /\ saved.attempts \in Nat
  BY DEF KeeperInv, Typed, SavedRecord
<1>2. /\ ctl.pc = "idle" /\ mainnet.final = saved.last /\ UNCHANGED <<rowOut, dirty, mainnet, ctl, seen>>
      /\ saved' = [x EXCEPT !.costed = saved.costed, !.attempts = saved.attempts]
  BY DEF rearm, Free, exactCustody
<1>3. x \in SavedRecord /\ x.last = mainnet.final /\ x.phase = "entry" /\ x.cand = "none"
      /\ x.desired = "running"
  BY FreshType
<1> HIDE DEF x
<1>4. saved' \in SavedRecord /\ saved'.last = x.last /\ saved'.phase = x.phase
      /\ saved'.cand = x.cand /\ saved'.desired = x.desired
  BY <1>1, <1>2, <1>3 DEF SavedRecord
<1> QED BY <1>2, <1>3, <1>4, FreshKeeps

LEMMA StartKeeps == ASSUME KeeperInv, start PROVE KeeperInv'
<1>1. /\ ctl.pc = "idle" /\ mainnet.final = saved.last /\ UNCHANGED <<rowOut, dirty, mainnet, ctl, seen>>
      /\ saved' = freshState(mainnet.final, ctl.build, ctl.capped)
  BY DEF start, Free, exactCustody
<1> QED BY <1>1, FreshType, FreshKeeps

\* A stage found stale leaves the campaign waiting, planning again or in its exit.
LEMMA StaleKeeps == ASSUME KeeperInv, staleStage PROVE KeeperInv'
<1>1. /\ rowOut = NoRow /\ saved \in SavedRecord /\ saved' \in settleStale(saved)
      /\ saved.phase \in Working /\ saved.cand # "none"
      /\ UNCHANGED <<rowOut, dirty, mainnet, seen>>
      /\ ctl' = [ctl EXCEPT !.pc = "idle", !.stage = "none"]
  BY DEF staleStage, Ready, Priced, Working, KeeperInv, Typed, Flight
<1>2. ctl' \in CtlRecord /\ ctl'.pc = "idle"
  BY <1>1, IdleTyped
<1>3. rowOut.tx.kind # "swap"
  BY <1>1 DEF NoRow, NoTx
<1>4. /\ saved' \in SavedRecord /\ saved'.last = saved.last /\ Settled(saved')
      /\ saved'.phase \in Working \cup {"exit"} /\ saved'.swapDone = saved.swapDone
  <2>1. /\ saved.desired = "running" /\ saved.swapDone \in BOOLEAN
    BY <1>1 DEF KeeperInv, Settled, SavedRecord
  <2>2. CASE saved' = saved
    BY <1>1, <2>2 DEF KeeperInv
  <2>3. CASE /\ saved' = [saved EXCEPT !.phase = "exit", !.desired = "stopped", !.cand = "none"]
    <3>1. /\ saved' \in SavedRecord /\ saved'.last = saved.last /\ saved'.phase = "exit"
          /\ saved'.desired = "stopped" /\ saved'.swapDone = saved.swapDone
      BY <1>1, <2>3 DEF SavedRecord
    <3> QED BY <3>1 DEF Settled, Replanning, Working
  <2>4. CASE /\ saved' = [saved EXCEPT !.cand = "none", !.confirm = "none"]
             /\ saved.phase = "recenter" => saved.withdrawDone /\ ~saved.swapDone /\ saved.active = 0
    <3>1. /\ saved' \in SavedRecord /\ saved'.last = saved.last /\ saved'.phase = saved.phase
          /\ saved'.desired = saved.desired /\ saved'.swapDone = saved.swapDone
          /\ saved'.withdrawDone = saved.withdrawDone /\ saved'.active = saved.active
      BY <1>1, <2>4 DEF SavedRecord
    <3> QED BY <1>1, <2>1, <2>4, <3>1 DEF Settled, Replanning, Working
  <2> QED BY <1>1, <2>2, <2>3, <2>4 DEF settleStale
<1>5. InAction(saved') /\ ~saved'.swapDone => seen.swaps = 0
  <2>1. CASE saved.phase = "recenter" \/ saved.cand # "none"
    BY <1>1, <1>3, <1>4, <2>1 DEF KeeperInv, Swaps, InAction, Working
  <2> QED BY <1>1, <2>1
<1>6. Typed'
  BY <1>1, <1>2, <1>4 DEF KeeperInv, Typed
<1>7. Flight'
  BY <1>1, <1>2, <1>4 DEF KeeperInv, Flight, NothingNext
<1>8. Flow'
  BY <1>1, <1>2, <1>4 DEF Flow, Quiet, Working
<1>9. Swaps'
  BY <1>1, <1>2, <1>3, <1>5 DEF KeeperInv, Swaps, SwapAhead, InAction
<1>10. Settled(saved)'
  BY <1>4 DEF Settled, Replanning
<1> QED BY <1>6, <1>7, <1>8, <1>9, <1>10 DEF KeeperInv

\* A confirmed receipt: custody is accepted, the row is finished, and the
\* campaign becomes what its kind and outcome make of it.
LEMMA ReceiptKeeps == ASSUME KeeperInv, reconcilePending PROVE KeeperInv'
<1> DEFINE k == rowOut.tx.kind
           s == [saved EXCEPT !.last = mainnet.final, !.costed = TRUE]
           x == bookReceipt(s, k)
           y == [s EXCEPT !.phase = "halted", !.halt = IF k = "mint" THEN "mint" ELSE "other"]
<1>1. PICK ok \in BOOLEAN :
        /\ ctl.pc = "idle" /\ rowOut.st = "signed" /\ mainnet.final = After(saved.last, rowOut.tx, ok)
        /\ saved' = (IF ok THEN x ELSE y) /\ rowOut' = NoRow /\ dirty' = (dirty \/ ~ok)
        /\ UNCHANGED <<mainnet, ctl, seen>>
  BY DEF reconcilePending, Reconciling, Free, Receipt
<1>2. /\ saved \in SavedRecord /\ saved.last \in Custody /\ mainnet.final \in Custody
      /\ dirty \in BOOLEAN
  BY DEF KeeperInv, Typed, SavedRecord, MainnetRecord
<1>3. mainnet.final.nonce = saved.last.nonce + 1
  BY <1>1, <1>2, AfterType
<1>4. k \in Kinds /\ rowOut.tx.nonce = saved.last.nonce /\ seen.top = saved.last.nonce + 1
  BY <1>1 DEF KeeperInv, Flight
<1>5. /\ s \in SavedRecord /\ s.last = mainnet.final /\ s.phase = saved.phase /\ s.cand = saved.cand
      /\ s.desired = saved.desired /\ s.swapDone = saved.swapDone /\ s.active = saved.active
      /\ s.withdrawDone = saved.withdrawDone /\ s.halt = saved.halt
  BY <1>2 DEF SavedRecord
<1> HIDE DEF s
<1>6. saved.phase \notin {"closed", "halted"} /\ ~Replanning(saved)
  BY <1>1 DEF KeeperInv, Flow, Quiet, NoRow
<1>7. /\ saved' \in SavedRecord /\ saved'.last = mainnet.final /\ Settled(saved')
      /\ ~Replanning(saved') /\ saved'.phase # "closed"
      /\ InAction(saved') /\ ~saved'.swapDone => InAction(saved) /\ ~saved.swapDone /\ k # "swap"
  <2>1. /\ saved.phase \in Working \cup {"holding", "exit"} /\ saved.swapDone \in BOOLEAN
        /\ saved.phase \in Working => saved.desired = "running"
        /\ saved.phase = "exit" => saved.desired = "stopped"
        /\ saved.phase = "holding" => saved.cand = "none"
    BY <1>2, <1>6 DEF KeeperInv, Settled, SavedRecord, Working
  <2>7. ASSUME NEW z, z.phase = saved.phase, z.cand = saved.cand, z.desired = saved.desired,
               z.halt = saved.halt
        PROVE  /\ Settled(z) /\ ~Replanning(z) /\ z.phase # "closed"
               /\ InAction(z) <=> InAction(saved)
    <3>1. ~Replanning(z) /\ z.phase # "closed"
      BY <1>6, <2>7 DEF Replanning
    <3>2. InAction(z) <=> InAction(saved)
      BY <2>7 DEF InAction
    <3> QED BY <2>1, <2>7, <3>1, <3>2 DEF Settled
  <2>2. CASE ~ok
    <3>1. /\ y \in SavedRecord /\ y.last = s.last /\ y.phase = "halted" /\ y.cand = s.cand
          /\ y.desired = s.desired /\ y.swapDone = s.swapDone /\ (y.halt = "mint" => k # "swap")
      BY <1>5 DEF SavedRecord
    <3>2. saved' = y
      BY <1>1, <2>2
    <3> HIDE DEF y, k
    <3>3. InAction(saved') => InAction(saved) /\ k # "swap"
      BY <1>5, <2>1, <3>1, <3>2 DEF InAction, Working
    <3> QED BY <1>5, <3>1, <3>2, <3>3 DEF Settled, Replanning, Working
  <2>3. CASE ok /\ k = "withdraw"
    <3> DEFINE z == [s EXCEPT !.retired = TRUE, !.active = 0, !.withdrawDone = TRUE]
    <3>1. saved' = z
      BY <1>1, <2>3 DEF bookReceipt
    <3>2. /\ z \in SavedRecord /\ z.last = s.last /\ z.phase = s.phase /\ z.cand = s.cand
          /\ z.desired = s.desired /\ z.swapDone = s.swapDone /\ z.halt = s.halt
      BY <1>5 DEF SavedRecord
    <3> HIDE DEF z
    <3> QED BY <1>5, <2>3, <2>7, <3>1, <3>2
  <2>4. CASE ok /\ k = "swap"
    <3> DEFINE z == [s EXCEPT !.swapDone = @ \/ s.phase \in {"entry", "recenter"}]
    <3>1. saved' = z
      BY <1>1, <2>4 DEF bookReceipt
    <3>2. /\ z \in SavedRecord /\ z.last = s.last /\ z.phase = s.phase /\ z.cand = s.cand
          /\ z.desired = s.desired /\ z.halt = s.halt /\ (s.phase \in Working => z.swapDone)
      BY <1>5 DEF SavedRecord, Working
    <3> HIDE DEF z
    <3>3. InAction(z) => z.swapDone
      BY <1>5, <1>6, <3>2 DEF InAction, Working
    <3> QED BY <1>5, <2>7, <3>1, <3>2, <3>3
  <2>5. CASE ok /\ k = "mint"
    <3>1. PICK e \in Nat, m \in Nat :
            saved' = [s EXCEPT !.active = s.last.pos, !.economic = e, !.recenters = m,
                        !.phase = "holding", !.cand = "none", !.swapDone = FALSE,
                        !.withdrawDone = FALSE]
      <4>1. PICK e \in Nat : e = IF s.economic < CountCap THEN s.economic + 1 ELSE s.economic
        BY <1>5 DEF SavedRecord
      <4>2. PICK m \in Nat : m = IF s.phase = "recenter" THEN 1 ELSE s.recenters
        BY <1>5 DEF SavedRecord
      <4>3. x = [s EXCEPT !.active = s.last.pos, !.economic = e, !.recenters = m,
                    !.phase = "holding", !.cand = "none", !.swapDone = FALSE, !.withdrawDone = FALSE]
        BY <2>5, <4>1, <4>2 DEF bookReceipt
      <4> QED BY <1>1, <2>5, <4>3
    <3>2. s.last.pos \in Nat
      BY <1>2, <1>5 DEF Custody
    <3>3. saved' \in SavedRecord /\ saved'.last = s.last /\ saved'.phase = "holding"
          /\ saved'.cand = "none"
      BY <1>5, <3>1, <3>2 DEF SavedRecord
    <3> QED BY <1>5, <3>3 DEF Settled, Replanning, InAction, Working
  <2>6. CASE ok /\ k \notin {"withdraw", "swap", "mint"}
    <3>1. saved' = s
      BY <1>1, <2>6 DEF bookReceipt
    <3> QED BY <1>5, <2>6, <2>7, <3>1
  <2> QED BY <2>2, <2>3, <2>4, <2>5, <2>6
<1>8. NoRow \in RowRecord /\ NoRow.st = "none" /\ NoRow.tx.kind = "none"
  BY DEF NoRow, NoTx, RowRecord, Tx
<1>9. Typed'
  BY <1>1, <1>2, <1>7, <1>8 DEF KeeperInv, Typed
<1>10. mainnet.mined = NoTx /\ NothingNext
  BY <1>3, <1>4, Numbers DEF KeeperInv, Flight, NothingNext
<1>11. Flight'
  BY <1>1, <1>3, <1>4, <1>7, <1>8, <1>10, Numbers DEF Flight, NothingNext
<1>12. Flow'
  BY <1>1, <1>7, <1>8 DEF Flow, Quiet
<1>13. Swaps'
  BY <1>1, <1>7, <1>8 DEF KeeperInv, Swaps, SwapAhead
<1>14. Settled(saved)'
  BY <1>7 DEF Settled, Replanning
<1> QED BY <1>9, <1>11, <1>12, <1>13, <1>14 DEF KeeperInv

-----------------------------------------------------------------------------
(* The decision of a tick.                                                 *)

\* A stage adds exposure only while the campaign works on a range, and no stage
\* is left on an exit only when the wallet is flat.
LEMMA StageFits ==
  ASSUME NEW t \in SavedRecord, NEW c \in Custody, NEW k \in nextRangeKeeperStage(t, c)
  PROVE  /\ k \in Kinds \cup {"none"}
         /\ k \in Adds => t.phase \in Working /\ t.cand # "none"
         /\ k = "swap" => ~t.swapDone
         /\ k = "none" /\ t.phase = "exit" => c.pos = 0 /\ c.allow = {} /\ ~c.risky
         /\ Replanning(t) => k = "none"
<1>1. c.allow \subseteq Pairs
  BY DEF Custody
<1>2. ASSUME NEW r \in Revokes(c)
      PROVE  r \in {"none", "revokeRouter", "revokeManager"} /\ (r = "none" => c.allow = {})
  BY DEF Revokes
<1>3. CASE t.phase = "exit"
  <2>1. nextRangeKeeperStage(t, c) =
          IF c.pos # 0 THEN {"withdraw"} ELSE IF ~c.risky THEN Revokes(c)
          ELSE IF "router" \in c.allow THEN {"sell"} ELSE {"approveRouter"}
    BY <1>3 DEF nextRangeKeeperStage
  <2>2. \/ k = "withdraw" /\ c.pos # 0
        \/ k \in {"sell", "approveRouter"}
        \/ k \in Revokes(c) /\ c.pos = 0 /\ ~c.risky
    BY <2>1
  <2> QED BY <1>2, <1>3, <2>2 DEF Kinds, Adds, Replanning
<1>4. CASE t.phase = "holding"
  <2>1. k \in Revokes(c)
    BY <1>4 DEF nextRangeKeeperStage
  <2> QED BY <1>2, <1>4, <2>1 DEF Kinds, Adds, Replanning
<1>5. CASE t.phase \in {"entry", "recenter"} /\ t.cand # "none"
  <2>1. k \in {"withdraw", "approveManager", "mint", "approveRouter"} \/ (k = "swap" /\ ~t.swapDone)
    BY <1>5 DEF nextRangeKeeperStage
  <2> QED BY <1>5, <2>1 DEF Kinds, Adds, Replanning, Working
<1>6. CASE t.phase \notin {"exit", "holding"} /\ ~(t.phase \in {"entry", "recenter"} /\ t.cand # "none")
  <2>1. k = "none"
    BY <1>6 DEF nextRangeKeeperStage
  <2> QED BY <1>6, <2>1 DEF Adds
<1> QED BY <1>3, <1>4, <1>5, <1>6

\* The exit triggers: the campaign is in its exit, or untouched and running.
LEMMA TriggerFits ==
  ASSUME KeeperInv, saved.phase \notin {"closed", "halted"}, NEW limit \in BOOLEAN,
         NEW s, s = exitTriggered(saved, limit)
  PROVE  /\ s \in SavedRecord /\ s.last = saved.last /\ Settled(s)
         /\ \/ s.phase = "exit"
            \/ s = saved /\ saved.desired = "running"
<1>1. saved \in SavedRecord /\ saved.desired \in {"running", "stopped"}
  BY DEF KeeperInv, Typed, SavedRecord
<1>2. CASE exitDue(saved, limit)
  <2>1. s = [saved EXCEPT !.phase = "exit", !.desired = "stopped", !.cand = "none"]
    BY <1>2 DEF exitTriggered
  <2>2. s \in SavedRecord /\ s.last = saved.last /\ s.phase = "exit" /\ s.desired = "stopped"
    BY <1>1, <2>1 DEF SavedRecord
  <2> QED BY <2>2 DEF Settled, Replanning, Working
<1>3. CASE ~exitDue(saved, limit)
  <2>1. s = saved /\ saved.desired = "running"
    BY <1>1, <1>3 DEF exitTriggered, exitDue
  <2> QED BY <1>1, <2>1 DEF KeeperInv
<1> QED BY <1>2, <1>3

\* The record of a campaign that takes range q on.
Taken(s, q, p, d) == [s EXCEPT !.confirm = "none", !.cand = q, !.swapDone = FALSE, !.phase = p,
                        !.kind = p, !.withdrawDone = d]

LEMMA TakenType ==
  ASSUME NEW s \in SavedRecord, NEW q \in {"swap", "plain"}, NEW p \in Working, NEW d \in BOOLEAN,
         NEW t, t = Taken(s, q, p, d)
  PROVE  t \in SavedRecord /\ t.last = s.last /\ t.phase = p /\ t.cand = q /\ t.desired = s.desired
<1> DEFINE u == [s EXCEPT !.confirm = "none", !.cand = q]
           v == [u EXCEPT !.phase = p, !.kind = p]
<1>1. u \in SavedRecord /\ u.last = s.last /\ u.cand = q /\ u.desired = s.desired
  BY DEF SavedRecord
<1>2. t = [v EXCEPT !.swapDone = FALSE, !.withdrawDone = d]
  BY DEF SavedRecord, Taken
<1> HIDE DEF u
<1>3. v \in SavedRecord /\ v.last = u.last /\ v.phase = p /\ v.cand = u.cand /\ v.desired = u.desired
  BY <1>1 DEF SavedRecord, Working
<1> HIDE DEF v
<1> DEFINE w == [v EXCEPT !.withdrawDone = d]
<1>4. w \in SavedRecord /\ w.last = v.last /\ w.phase = v.phase /\ w.cand = v.cand /\ w.desired = v.desired
  BY <1>3 DEF SavedRecord
<1>5. t = [w EXCEPT !.swapDone = FALSE]
  BY <1>2, <1>3 DEF SavedRecord
<1> HIDE DEF w
<1>6. PICK b \in BOOLEAN : b = FALSE
  OBVIOUS
<1>7. t = [w EXCEPT !.swapDone = b]
  BY <1>5, <1>6
<1>8. t \in SavedRecord /\ t.last = w.last /\ t.phase = w.phase /\ t.cand = w.cand /\ t.desired = w.desired
  BY <1>4, <1>7 DEF SavedRecord
<1> QED BY <1>1, <1>3, <1>4, <1>8

\* The plan: the campaign waits, or takes a range on.
LEMMA PlanFits ==
  ASSUME KeeperInv, saved.phase \notin {"closed", "halted"}, NEW limit \in BOOLEAN,
         NEW s, s = exitTriggered(saved, limit), NEW t \in Planned(s)
  PROVE  /\ t \in SavedRecord /\ t.last = saved.last /\ Settled(t)
         /\ t.phase \notin {"closed", "halted"}
         /\ InAction(t) /\ ~t.swapDone => NewAction(s, t) \/ (InAction(saved) /\ ~saved.swapDone)
<1>1. /\ s \in SavedRecord /\ s.last = saved.last /\ Settled(s)
      /\ s.phase = "exit" \/ (s = saved /\ saved.desired = "running")
  BY TriggerFits
<1>2. CASE \E c \in {"none", "swap", "plain"} : t = [s EXCEPT !.confirm = c]
  <2>1. /\ t \in SavedRecord /\ t.last = s.last /\ t.phase = s.phase /\ t.cand = s.cand
        /\ t.desired = s.desired /\ t.swapDone = s.swapDone /\ t.withdrawDone = s.withdrawDone
        /\ t.active = s.active /\ t.halt = s.halt
    BY <1>1, <1>2 DEF SavedRecord
  <2>2. Settled(t)
    BY <1>1, <2>1 DEF Settled, Replanning
  <2>3. InAction(t) => InAction(saved) /\ s = saved
    BY <1>1, <2>1 DEF InAction
  <2> QED BY <1>1, <2>1, <2>2, <2>3
<1>3. CASE /\ mayPlan(s) /\ s.confirm # "none"
           /\ t = [s EXCEPT !.confirm = "none", !.cand = s.confirm, !.swapDone = FALSE,
                     !.phase = IF s.active # 0 \/ replanAfterWithdrawal(s) THEN "recenter" ELSE "entry",
                     !.kind = IF s.active # 0 \/ replanAfterWithdrawal(s) THEN "recenter" ELSE "entry",
                     !.withdrawDone = @ /\ replanAfterWithdrawal(s)]
  <2>1. PICK p \in Working : p = IF s.active # 0 \/ replanAfterWithdrawal(s) THEN "recenter" ELSE "entry"
    BY DEF Working
  <2>2. PICK d \in BOOLEAN : d = (s.withdrawDone /\ replanAfterWithdrawal(s))
    BY Zenon
  <2>3. PICK q \in {"swap", "plain"} : q = s.confirm
    BY <1>1, <1>3 DEF SavedRecord
  <2>4. t = Taken(s, q, p, d)
    BY <1>3, <2>1, <2>2, <2>3 DEF Taken
  <2>5. t \in SavedRecord /\ t.last = s.last /\ t.phase = p /\ t.cand = q /\ t.desired = s.desired
    <3>1. s \in SavedRecord
      BY <1>1
    <3>2. p \in Working /\ q \in {"swap", "plain"} /\ d \in BOOLEAN
      BY <2>1, <2>2, <2>3
    <3> QED BY <2>4, <3>1, <3>2, TakenType
  <2>6. s.phase # "exit" /\ s.cand = "none"
    BY <1>1, <1>3 DEF mayPlan, replanAfterWithdrawal, Settled
  <2>7. Settled(t) /\ t.phase \notin {"closed", "halted"}
    BY <1>1, <2>3, <2>5, <2>6 DEF Settled, Replanning, Working
  <2>8. NewAction(s, t) \/ replanAfterWithdrawal(s)
    BY <2>3, <2>5, <2>6 DEF NewAction
  <2>9. replanAfterWithdrawal(s) => InAction(saved) /\ ~saved.swapDone
    BY <1>1, <2>6 DEF replanAfterWithdrawal, InAction
  <2> QED BY <1>1, <2>5, <2>7, <2>8, <2>9
<1>4. CASE t = s
  <2>1. InAction(s) => s = saved
    BY <1>1 DEF InAction
  <2> QED BY <1>1, <1>4, <2>1
<1> QED BY <1>2, <1>3, <1>4 DEF Planned, planRangeKeeper

LEMMA TickKeeps == ASSUME KeeperInv, tick PROVE KeeperInv'
<1>1. /\ ctl.pc = "idle" /\ rowOut = NoRow /\ saved.phase \notin {"closed", "halted"}
      /\ mainnet.final = saved.last /\ UNCHANGED <<rowOut, dirty, mainnet>>
  BY DEF tick, Ready, Free, exactCustody
<1>2. PICK limit \in BOOLEAN : \E t \in Planned(exitTriggered(saved, limit)) :
        \E k \in nextRangeKeeperStage(t, mainnet.final) :
          /\ saved' = IF k = "none" /\ t.phase = "exit" THEN [t EXCEPT !.phase = "closed"] ELSE t
          /\ ctl' = IF k = "none" THEN ctl ELSE [ctl EXCEPT !.pc = "prepare", !.stage = k]
          /\ seen' = [seen EXCEPT !.swaps = IF NewAction(exitTriggered(saved, limit), t) THEN 0 ELSE @]
  BY DEF tick
<1>3. PICK s : s = exitTriggered(saved, limit)
  OBVIOUS
<1>4. PICK t \in Planned(s), k \in Kinds \cup {"none"} :
        /\ k \in nextRangeKeeperStage(t, mainnet.final)
        /\ saved' = IF k = "none" /\ t.phase = "exit" THEN [t EXCEPT !.phase = "closed"] ELSE t
        /\ ctl' = IF k = "none" THEN ctl ELSE [ctl EXCEPT !.pc = "prepare", !.stage = k]
        /\ seen' = [seen EXCEPT !.swaps = IF NewAction(s, t) THEN 0 ELSE seen.swaps]
  <2>1. ASSUME NEW t \in Planned(s), NEW k \in nextRangeKeeperStage(t, mainnet.final)
        PROVE  k \in Kinds \cup {"none"}
    <3>1. t \in SavedRecord
      BY <1>1, <1>3, PlanFits
    <3>2. mainnet.final \in Custody
      BY DEF KeeperInv, Typed, MainnetRecord
    <3> QED BY <3>1, <3>2, StageFits
  <2> QED BY <1>2, <1>3, <2>1
<1>5. /\ t \in SavedRecord /\ t.last = saved.last /\ Settled(t) /\ t.phase \notin {"closed", "halted"}
      /\ InAction(t) /\ ~t.swapDone => NewAction(s, t) \/ (InAction(saved) /\ ~saved.swapDone)
  BY <1>1, <1>3, PlanFits
<1>6. /\ mainnet.final \in Custody /\ ctl \in CtlRecord /\ seen \in [top : Nat, swaps : Nat]
      /\ rowOut.st = "none" /\ rowOut.tx.kind = "none"
  BY <1>1 DEF KeeperInv, Typed, MainnetRecord, NoRow, NoTx
<1>7. /\ k \in Adds => t.phase \in Working /\ t.cand # "none"
      /\ k = "swap" => ~t.swapDone
      /\ k = "none" /\ t.phase = "exit" =>
           saved.last.pos = 0 /\ saved.last.allow = {} /\ ~saved.last.risky
      /\ Replanning(t) => k = "none"
  BY <1>1, <1>4, <1>5, <1>6, StageFits
<1>8. /\ seen' \in [top : Nat, swaps : Nat] /\ seen'.top = seen.top
      /\ seen'.swaps = IF NewAction(s, t) THEN 0 ELSE seen.swaps
  <2>1. PICK n \in Nat : n = IF NewAction(s, t) THEN 0 ELSE seen.swaps
    BY Numbers
  <2>2. seen' = [seen EXCEPT !.swaps = n]
    BY <1>4, <2>1
  <2> QED BY <1>6, <2>1, <2>2
<1>9. /\ ctl' \in CtlRecord
      /\ \/ k = "none" /\ ctl'.pc = "idle"
         \/ k # "none" /\ ctl'.pc = "prepare" /\ ctl'.stage = k
  <2>1. CASE k = "none"
    BY <1>1, <1>4, <1>6, <2>1
  <2>2. CASE k # "none"
    <3>1. ctl' = [ctl EXCEPT !.pc = "prepare", !.stage = k]
      BY <1>4, <2>2
    <3> QED BY <1>6, <2>2, <3>1 DEF CtlRecord
  <2> QED BY <2>1, <2>2
<1>10. /\ saved' \in SavedRecord /\ saved'.last = saved.last /\ Settled(saved')
       /\ saved'.phase # "halted" /\ (saved'.phase = "closed" \/ Replanning(saved') => k = "none")
       /\ k \in Adds => saved'.desired = "running"
       /\ InAction(saved') => saved' = t
  <2>1. CASE k = "none" /\ t.phase = "exit"
    <3>1. saved' = [t EXCEPT !.phase = "closed"]
      BY <1>4, <2>1
    <3>2. saved' \in SavedRecord /\ saved'.last = t.last /\ saved'.phase = "closed"
      BY <1>5, <3>1 DEF SavedRecord
    <3> QED BY <1>5, <1>7, <2>1, <3>2 DEF Settled, Replanning, InAction, Working, Adds
  <2>2. CASE ~(k = "none" /\ t.phase = "exit")
    <3>1. saved' = t
      BY <1>4, <2>2
    <3> QED BY <1>5, <1>7, <3>1 DEF Settled
  <2> QED BY <2>1, <2>2
<1>11. InAction(t) /\ ~t.swapDone => seen'.swaps = 0
  <2>1. InAction(saved) /\ ~saved.swapDone => seen.swaps = 0
    BY <1>6 DEF KeeperInv, Swaps
  <2> QED BY <1>5, <1>8, <2>1
<1>12. Typed'
  BY <1>1, <1>8, <1>9, <1>10 DEF KeeperInv, Typed
<1>13. Flight'
  BY <1>1, <1>4, <1>6, <1>8, <1>9, <1>10 DEF KeeperInv, Flight, NothingNext
<1>14. Flow'
  BY <1>1, <1>9, <1>10 DEF Flow, Quiet
<1>15. Swaps'
  <2>1. seen'.swaps <= 1
    BY <1>8 DEF KeeperInv, Swaps
  <2>2. k = "swap" => seen'.swaps = 0
    BY <1>7, <1>11 DEF Adds, InAction, Working
  <2> QED BY <1>1, <1>6, <1>9, <1>10, <1>11, <2>1, <2>2 DEF Swaps, SwapAhead
<1>16. Settled(saved)'
  BY <1>10 DEF Settled, Replanning
<1> QED BY <1>12, <1>13, <1>14, <1>15, <1>16 DEF KeeperInv

-----------------------------------------------------------------------------
(* The controller is safe.                                                 *)

LEMMA KeeperInvInit == KeeperInit => KeeperInv
<1> SUFFICES ASSUME KeeperInit PROVE KeeperInv
  OBVIOUS
<1> DEFINE c == [nonce |-> 0, pos |-> 0, risky |-> FALSE, allow |-> {}]
<1>1. /\ saved = freshState(c, 1, TRUE) /\ rowOut = NoRow /\ dirty = FALSE
      /\ mainnet = [final |-> c, mined |-> NoTx, ok |-> TRUE, wire |-> {}, manual |-> 0]
      /\ ctl = [pc |-> "idle", stage |-> "none", build |-> 1, capped |-> TRUE]
      /\ seen = [top |-> 0, swaps |-> 0]
  BY DEF KeeperInit
<1>2. c \in Custody /\ c.nonce = 0
  BY DEF Custody, Pairs
<1> HIDE DEF c
<1>3. /\ saved \in SavedRecord /\ saved.last = c /\ saved.phase = "entry" /\ saved.cand = "none"
      /\ saved.desired = "running"
  BY <1>1, <1>2 DEF freshState, SavedRecord, Working
<1>4. NoTx \in Tx /\ NoRow \in RowRecord /\ NoRow.st = "none" /\ NoRow.tx.kind = "none"
  BY DEF NoTx, NoRow, Tx, RowRecord
<1>5. mainnet \in MainnetRecord /\ mainnet.final = c /\ mainnet.mined = NoTx /\ mainnet.wire = {}
  BY <1>1, <1>2, <1>4 DEF MainnetRecord
<1>6. Typed
  BY <1>1, <1>3, <1>4, <1>5 DEF Typed, CtlRecord
<1>7. Flight
  <2>1. ctl.pc = "idle" /\ seen.top = 0 /\ rowOut = NoRow /\ rowOut.st = "none"
    BY <1>1, <1>4
  <2>2. saved.last.nonce = 0 /\ mainnet.final.nonce = 0
    BY <1>2, <1>3, <1>5
  <2> QED BY <1>5, <2>1, <2>2 DEF Flight, NothingNext
<1>8. Settled(saved)
  BY <1>3 DEF Settled, Replanning, Working
<1>9. Flow /\ Swaps
  <2>1. ctl.pc = "idle" /\ seen.swaps = 0
    BY <1>1
  <2> QED BY <1>3, <2>1 DEF Flow, Replanning, Swaps
<1> QED BY <1>6, <1>7, <1>8, <1>9 DEF KeeperInv

LEMMA KeeperInvNext == KeeperInv /\ [KeeperNext]_keeperVars => KeeperInv'
<1> SUFFICES ASSUME KeeperInv, [KeeperNext]_keeperVars PROVE KeeperInv'
  OBVIOUS
<1>1. CASE Vanish \/ Mine \/ Confirm \/ Reorganise \/ ManualTransaction
  BY <1>1, VanishKeeps, MineKeeps, ConfirmKeeps, ReorganiseKeeps, ManualKeeps
<1>2. CASE tick \/ staleStage \/ prepare \/ sign \/ send \/ interrupted
  BY <1>2, TickKeeps, StaleKeeps, PrepareKeeps, SignKeeps, SendKeeps, InterruptedKeeps
<1>3. CASE cancelUnsigned \/ resend \/ reconcilePending
  BY <1>3, CancelKeeps, ResendKeeps, ReceiptKeeps
<1>4. CASE requestStop \/ recoverExit \/ recoverMint
  BY <1>4, StopKeeps, RecoverExitKeeps, RecoverMintKeeps
<1>5. CASE deployBuild \/ migrate \/ rearm \/ start
  BY <1>5, DeployKeeps, MigrateKeeps, RearmKeeps, StartKeeps
<1>6. CASE UNCHANGED keeperVars
  <2>1. UNCHANGED <<saved, rowOut, dirty, mainnet, ctl, seen>>
    BY <1>6 DEF keeperVars
  <2> QED BY <2>1 DEF KeeperInv, Typed, Flight, NothingNext, Settled, Replanning, Flow, Quiet,
        Swaps, SwapAhead, InAction
<1> QED BY <1>1, <1>2, <1>3, <1>4, <1>5, <1>6 DEF KeeperNext

LEMMA KeeperInvHolds == KeeperSpec => []KeeperInv
BY KeeperInvInit, KeeperInvNext, PTL DEF KeeperSpec

\* At most one swap per range taken on, and a closed campaign leaves the wallet
\* without position, allowance, risky balance or transaction of its own, for
\* every number of nonces, builds, recoveries and foreign transactions.
THEOREM KeeperIsFlat == KeeperSpec => []KeeperFlat
<1>1. KeeperInv => KeeperFlat
  <2> SUFFICES ASSUME KeeperInv PROVE SwapOnce /\ ClosedIsFlat
    BY DEF KeeperFlat
  <2>1. SwapOnce
    BY DEF KeeperInv, Swaps, SwapOnce
  <2>2. ASSUME saved.phase = "closed", mainnet.final = saved.last
        PROVE  /\ latest.pos = 0 /\ latest.allow = {} /\ ~latest.risky
               /\ \A t \in mainnet.wire : t.nonce < latest.nonce
    <3>1. rowOut = NoRow /\ saved.last.pos = 0 /\ saved.last.allow = {} /\ ~saved.last.risky
      BY <2>2 DEF KeeperInv, Flow, Quiet, Settled
    <3>2. mainnet.mined = NoTx /\ NothingNext
      BY <3>1 DEF KeeperInv, Flight, NothingNext, NoRow
    <3>3. latest = mainnet.final
      BY <3>2 DEF latest
    <3> QED BY <2>2, <3>1, <3>2, <3>3 DEF NothingNext
  <2> QED BY <2>1, <2>2 DEF ClosedIsFlat
<1> QED BY <1>1, KeeperInvHolds, PTL

\* No nonce is signed a second time while its first bytes could be mined, and
\* no mint or swap is signed once the operator's stop is recorded.
THEOREM KeeperStepsSafe == KeeperSpec => KeeperSteps
<1>1. KeeperInv => (sign => rowOut.tx.nonce >= seen.top)
                   /\ (sign /\ rowOut.tx.kind \in {"mint", "swap"} => saved.desired = "running")
  <2> SUFFICES ASSUME KeeperInv, sign
               PROVE  /\ rowOut.tx.nonce >= seen.top
                      /\ rowOut.tx.kind \in {"mint", "swap"} => saved.desired = "running"
    OBVIOUS
  <2>1. ctl.pc = "sign" /\ rowOut.st = "prepared"
    BY DEF sign, KeeperInv, Flight
  <2>2. rowOut.tx.nonce >= seen.top
    BY <2>1, Numbers DEF KeeperInv, Flight
  <2> QED BY <2>1, <2>2 DEF KeeperInv, Flow, Adds
<1> QED BY <1>1, KeeperInvHolds, PTL DEF KeeperSpec, KeeperSteps, NonceSignedOnce, StopSticks

=============================================================================

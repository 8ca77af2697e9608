-------------------------- MODULE Campaigns_proofs --------------------------
(***************************************************************************)
(* The live pilot never signs a nonce whose bytes it may already have put  *)
(* on the network, never sends a mint or a purchase once an exit is        *)
(* recorded, and books every native deposit it accepts exactly once.       *)
(*                                                                         *)
(* PilotInv is its inductive invariant.  The action row carries the nonce  *)
(* that follows the accepted custody (RowFollows), so what was signed is   *)
(* at most that nonce while the row is prepared and exactly it once it is  *)
(* signed (SignedBelow).  Every path that accepts a new custody either     *)
(* keeps its nonce (a deposit) or takes the row's effect into it.          *)
(*                                                                         *)
(* A stand-alone paper session carries its cash into one successor, counts *)
(* its fees once, records a simulation once, keeps its records with the    *)
(* build that made them, and is never taken back from an operator's stop.  *)
(* SessionInvariant says of every record why its source is not simulated   *)
(* again (Spent) and which build of its session made it (Built), and of a  *)
(* running simulation that the row is the one it left, or was stopped past *)
(* the source (TickOk).                                                    *)
(*                                                                         *)
(* An owned-fork gas sample prices the sequence the campaign would send.   *)
(* ForkInv carries the course of each sampler's sequence: what the wallet  *)
(* holds and which allowances stand at every stage of it.                  *)
(***************************************************************************)
EXTENDS LivePilot, PaperSession, OwnedFork, TLAPS, WellFoundedInduction, SequenceTheorems

Phases == {"entry", "recenter", "holding", "exit", "closed", "halted"}
Kinds == {"approveRouter", "approveManager", "revokeRouter", "revokeManager",
          "buy", "sell", "withdraw", "mint"}
TxRecord == [nonce : Nat, kind : Kinds \cup {"none"}]
CustodyRecord == [nonce : Nat, pos : Nat, rwa : BOOLEAN, allow : SUBSET {"router", "manager"},
                  native : Nat]
PilotRecord ==
    [phase : Phases, desired : {"running", "stopped"}, swapDone : BOOLEAN, token : Nat,
     ranged : BOOLEAN, recovery : Nat, halt : {"none", "mint", "reverted", "wallet"},
     from : Phases, credits : Nat, last : CustodyRecord]
RowRecord ==
    [st : {"none", "prepared", "signed"}, tx : TxRecord, before : CustodyRecord,
     attempted : BOOLEAN, expired : BOOLEAN]
NetRecord == [final : CustodyRecord, mined : TxRecord, ok : BOOLEAN, wire : SUBSET TxRecord]

PilotTypeOK ==
    /\ pilot \in PilotRecord
    /\ prow \in RowRecord
    /\ pnet \in NetRecord
    /\ pctl \in {"idle", "sign", "broadcast"}
    /\ ptop \in Nat

\* The unresolved row spends the nonce after the accepted custody.
RowFollows ==
    /\ prow.st # "none" => prow.tx.nonce = pilot.last.nonce /\ prow.before.nonce = pilot.last.nonce
    /\ pctl = "sign" => prow.st = "prepared"

\* What was ever signed lies below the custody, or is the row itself.
SignedBelow ==
    /\ prow.st = "signed" => ptop = pilot.last.nonce + 1
    /\ prow.st # "signed" => ptop <= pilot.last.nonce

PilotInv == PilotTypeOK /\ RowFollows /\ SignedBelow /\ CreditsBooked

-----------------------------------------------------------------------------
(* The operators of the module.                                            *)

LEMMA EffectType ==
  ASSUME NEW c \in CustodyRecord, NEW k
  PROVE  /\ PilotEffect(c, k) \in CustodyRecord
         /\ PilotEffect(c, k).nonce = c.nonce /\ PilotEffect(c, k).native = c.native
<1>1. PICK e : e = PilotEffect(c, k)
  OBVIOUS
<1>2. PICK n \in Nat : n = c.nonce + 1
  BY DEF CustodyRecord
<1>3. c.allow \cup {"router"} \in SUBSET {"router", "manager"}
  BY DEF CustodyRecord
<1>4. c.allow \cup {"manager"} \in SUBSET {"router", "manager"}
  BY DEF CustodyRecord
<1>5. c.allow \ {"router"} \in SUBSET {"router", "manager"}
  BY DEF CustodyRecord
<1>6. c.allow \ {"manager"} \in SUBSET {"router", "manager"}
  BY DEF CustodyRecord
<1>7. CASE k \in {"approveRouter", "approveManager", "revokeRouter", "revokeManager"}
  <2>1. PICK a \in SUBSET {"router", "manager"} : e = [c EXCEPT !.allow = a]
    BY <1>1, <1>3, <1>4, <1>5, <1>6, <1>7 DEF PilotEffect
  <2>2. e \in CustodyRecord /\ e.nonce = c.nonce /\ e.native = c.native
    BY <2>1 DEF CustodyRecord
  <2> QED BY <1>1, <2>2
<1>8. CASE k \in {"buy", "sell"}
  <2>1. PICK b \in BOOLEAN : e = [c EXCEPT !.rwa = b]
    BY <1>1, <1>8 DEF PilotEffect
  <2>2. e \in CustodyRecord /\ e.nonce = c.nonce /\ e.native = c.native
    BY <2>1 DEF CustodyRecord
  <2> QED BY <1>1, <2>2
<1>9. CASE k \in {"withdraw", "mint"}
  <2>1. PICK m \in Nat, b \in BOOLEAN : e = [c EXCEPT !.pos = m, !.rwa = b]
    BY <1>1, <1>2, <1>9 DEF PilotEffect
  <2>2. e \in CustodyRecord /\ e.nonce = c.nonce /\ e.native = c.native
    BY <2>1 DEF CustodyRecord
  <2> QED BY <1>1, <2>2
<1>10. CASE k \notin {"approveRouter", "approveManager", "revokeRouter", "revokeManager",
                      "buy", "sell", "withdraw", "mint"}
  BY <1>10 DEF PilotEffect
<1> QED BY <1>7, <1>8, <1>9, <1>10

\* A transaction takes the next nonce and leaves the native deposits alone.
LEMMA AfterType ==
  ASSUME NEW c \in CustodyRecord, NEW t, NEW ok
  PROVE  /\ PilotAfter(c, t, ok) \in CustodyRecord
         /\ PilotAfter(c, t, ok).nonce = c.nonce + 1
<1>1. PICK d \in CustodyRecord :
        d = (IF ok THEN PilotEffect(c, t.kind) ELSE c) /\ d.nonce = c.nonce
  BY EffectType
<1>2. PICK n \in Nat : n = c.nonce + 1
  BY DEF CustodyRecord
<1>3. PilotAfter(c, t, ok) = [d EXCEPT !.nonce = n]
  BY <1>1, <1>2 DEF PilotAfter
<1>4. PICK a : a = [d EXCEPT !.nonce = n]
  OBVIOUS
<1>5. a \in CustodyRecord /\ a.nonce = n
  BY <1>4 DEF CustodyRecord
<1> QED BY <1>2, <1>3, <1>4, <1>5

\* Only deposits may separate two custodies of a continuous wallet.
LEMMA ContinuousNonce ==
  ASSUME NEW a \in CustodyRecord, NEW b \in CustodyRecord, Continuous(a, b)
  PROVE  a.nonce = b.nonce
<1>1. PICK n \in Nat : n = b.native
  BY DEF CustodyRecord
<1>2. b = [a EXCEPT !.native = n]
  BY <1>1 DEF Continuous
<1> QED BY <1>2 DEF CustodyRecord

\* Custody is accepted together with the deposits it holds.
LEMMA CreditedType ==
  ASSUME NEW s \in PilotRecord, NEW c \in CustodyRecord, s.credits = s.last.native,
         NEW t, t = credited(s, c)
  PROVE  /\ t \in PilotRecord /\ t.last = c /\ t.credits = c.native
         /\ t.phase = s.phase /\ t.desired = s.desired
<1>1. s.credits \in Nat /\ s.last.native \in Nat /\ c.native \in Nat
  BY DEF PilotRecord, CustodyRecord
<1>2. s.credits + (c.native - s.last.native) = c.native
  BY <1>1
<1>3. PICK n \in Nat : n = c.native
  BY <1>1
<1>4. t = [s EXCEPT !.credits = n, !.last = c]
  BY <1>2, <1>3 DEF credited
<1>5. t \in PilotRecord /\ t.last = c /\ t.credits = n /\ t.phase = s.phase /\ t.desired = s.desired
  BY <1>4 DEF PilotRecord
<1> QED BY <1>3, <1>5

LEMMA MovingType ==
  ASSUME NEW s \in PilotRecord, NEW exit, NEW t, t = Moving(s, exit)
  PROVE  t \in PilotRecord /\ t.last = s.last /\ t.credits = s.credits
<1>1. t = s \/ t = [s EXCEPT !.phase = "exit"]
  BY DEF Moving
<1> QED BY <1>1 DEF PilotRecord, Phases

\* Planning chooses a range and a transaction; custody and funding stay.
LEMMA PlanType ==
  ASSUME NEW s \in PilotRecord, NEW c \in CustodyRecord, NEW p \in plan(s, c)
  PROVE  /\ p.s \in PilotRecord /\ p.s.last = s.last /\ p.s.credits = s.credits
         /\ p.kind \in Kinds \cup {"none"}
<1>1. PICK r \in PilotRecord : r = s
  OBVIOUS
<1> DEFINE ranges == {[s EXCEPT !.ranged = TRUE, !.swapDone = s.recovery > 0]}
                       \cup (IF s.ranged THEN {s} ELSE {})
<1>2. \A q \in ranges : q \in PilotRecord /\ q.last = s.last /\ q.credits = s.credits
  <2>1. PICK b \in BOOLEAN : b = (s.recovery > 0)
    <3>1. (s.recovery > 0) \in BOOLEAN
      OBVIOUS
    <3> QED BY <3>1, Zenon
  <2>2. ranges \subseteq {[s EXCEPT !.ranged = TRUE, !.swapDone = b], s}
    BY <2>1
  <2>3. SUFFICES ASSUME NEW q, q = [s EXCEPT !.ranged = TRUE, !.swapDone = b]
                 PROVE  q \in PilotRecord /\ q.last = s.last /\ q.credits = s.credits
    BY <2>2
  <2> QED BY <2>3 DEF PilotRecord
<1> HIDE DEF ranges
<1>3. ASSUME NEW q \in ranges, NEW m, m = [q EXCEPT !.swapDone = TRUE]
      PROVE  m \in PilotRecord /\ m.last = s.last /\ m.credits = s.credits
  <2>1. q \in PilotRecord /\ q.last = s.last /\ q.credits = s.credits
    BY <1>2
  <2> QED BY <1>3, <2>1 DEF PilotRecord
<1>4. \A a, k : k \in Kinds => Approved(c, a, k) \in Kinds
  BY DEF Approved, Kinds
<1>5. CASE c.pos # 0
  <2>1. p = [s |-> s, kind |-> "withdraw"]
    BY <1>5 DEF plan
  <2> QED BY <2>1 DEF Kinds
<1>6. CASE c.pos = 0 /\ s.phase = "exit"
  <2>1. p.s = s /\ p.kind \in {Approved(c, "router", "sell")} \cup {"none"} \cup RevokeKinds(c)
    BY <1>6 DEF plan
  <2>2. Approved(c, "router", "sell") \in Kinds
    BY <1>4 DEF Kinds
  <2>3. RevokeKinds(c) \subseteq Kinds
    BY DEF RevokeKinds, Kinds
  <2> QED BY <2>1, <2>2, <2>3
<1>7. CASE c.pos = 0 /\ s.phase # "exit"
  <2>1. \/ p.s \in ranges /\ p.kind = Approved(c, "router", "buy")
        \/ /\ p.s \in {[q EXCEPT !.swapDone = TRUE] : q \in ranges}
           /\ p.kind = Approved(c, "manager", "mint")
    BY <1>7 DEF plan, ranges
  <2>2. p.kind \in Kinds \cup {"none"}
    <3>1. Approved(c, "router", "buy") \in Kinds /\ Approved(c, "manager", "mint") \in Kinds
      BY <1>4 DEF Kinds
    <3> QED BY <2>1, <3>1
  <2>3. \/ p.s \in ranges
        \/ \E q \in ranges : p.s = [q EXCEPT !.swapDone = TRUE]
    BY <2>1
  <2> QED BY <1>2, <1>3, <2>2, <2>3
<1> QED BY <1>5, <1>6, <1>7

-----------------------------------------------------------------------------
(* The steps keep the invariant.                                           *)

LEMMA NoActionType == NoAction \in RowRecord
<1>1. None \in TxRecord
  BY DEF None, TxRecord
<1>2. Flat \in CustodyRecord
  BY DEF Flat, CustodyRecord
<1> QED BY <1>1, <1>2 DEF NoAction, RowRecord

\* The numbers the other parts compare.
LEMMA Numbers ==
  ASSUME PilotTypeOK
  PROVE  /\ pilot.last \in CustodyRecord /\ pilot.last.nonce \in Nat
         /\ prow.tx \in TxRecord /\ prow.tx.nonce \in Nat
         /\ prow.before \in CustodyRecord /\ prow.before.nonce \in Nat
         /\ pnet.final \in CustodyRecord /\ pnet.final.nonce \in Nat
         /\ pnet.final.native \in Nat
         /\ pnet.mined \in TxRecord /\ pnet.wire \in SUBSET TxRecord /\ ptop \in Nat
<1>1. pilot \in PilotRecord /\ prow \in RowRecord /\ pnet \in NetRecord /\ ptop \in Nat
  BY DEF PilotTypeOK
<1>2. /\ pilot.last \in CustodyRecord /\ prow.tx \in TxRecord /\ prow.before \in CustodyRecord
      /\ pnet.final \in CustodyRecord /\ pnet.mined \in TxRecord /\ pnet.wire \in SUBSET TxRecord
  BY <1>1 DEF PilotRecord, RowRecord, NetRecord
<1>3. pilot.last.nonce \in Nat
  BY <1>2 DEF CustodyRecord
<1>4. prow.tx.nonce \in Nat
  BY <1>2 DEF TxRecord
<1>5. prow.before.nonce \in Nat
  BY <1>2 DEF CustodyRecord
<1>6. pnet.final.nonce \in Nat /\ pnet.final.native \in Nat
  BY <1>2 DEF CustodyRecord
<1> QED BY <1>1, <1>2, <1>3, <1>4, <1>5, <1>6

LEMMA NewestType ==
  ASSUME PilotTypeOK
  PROVE  newest \in CustodyRecord
BY AfterType, Numbers DEF newest

\* The chain moves, the pilot's own state does not.
LEMMA ChainKeeps ==
  ASSUME PilotInv, pnet' \in NetRecord, UNCHANGED <<pilot, prow, pctl, ptop>>
  PROVE  PilotInv'
BY DEF PilotInv, PilotTypeOK, RowFollows, SignedBelow, CreditsBooked

\* The campaign row moves, custody keeps its nonce and its deposits are booked.
LEMMA CampaignKeeps ==
  ASSUME PilotInv, UNCHANGED <<prow, pnet, pctl, ptop>>, pilot' \in PilotRecord,
         pilot'.last.nonce = pilot.last.nonce, pilot'.credits = pilot'.last.native
  PROVE  PilotInv'
BY DEF PilotInv, PilotTypeOK, RowFollows, SignedBelow, CreditsBooked

\* The controller process stops where it is.
LEMMA ProcessKeeps ==
  ASSUME PilotInv, UNCHANGED <<pilot, prow, pnet, ptop>>, pctl' = "idle"
  PROVE  PilotInv'
BY DEF PilotInv, PilotTypeOK, RowFollows, SignedBelow, CreditsBooked

LEMMA VanishKeeps == ASSUME PilotInv, PilotVanish PROVE PilotInv'
<1>1. PICK t \in pnet.wire : pnet' = [pnet EXCEPT !.wire = @ \ {t}]
  BY DEF PilotVanish
<1>2. pnet \in NetRecord /\ pnet.wire \ {t} \in SUBSET TxRecord
  BY Numbers DEF PilotInv, PilotTypeOK
<1>3. PICK w \in SUBSET TxRecord : w = pnet.wire \ {t}
  BY <1>2
<1>4. pnet' = [pnet EXCEPT !.wire = w]
  BY <1>1, <1>3
<1>5. pnet' \in NetRecord
  BY <1>2, <1>4 DEF NetRecord
<1> QED BY <1>5, ChainKeeps DEF PilotVanish

LEMMA MineKeeps == ASSUME PilotInv, PilotMine PROVE PilotInv'
<1>1. PICK t \in pnet.wire, ok \in BOOLEAN :
        pnet' = [pnet EXCEPT !.mined = t, !.ok = ok, !.wire = {u \in @ : u.nonce > t.nonce}]
  BY DEF PilotMine
<1>2. pnet \in NetRecord /\ t \in TxRecord /\ {u \in pnet.wire : u.nonce > t.nonce} \in SUBSET TxRecord
  BY Numbers DEF PilotInv, PilotTypeOK
<1>3. PICK w \in SUBSET TxRecord : w = {u \in pnet.wire : u.nonce > t.nonce}
  BY <1>2
<1>4. pnet' = [pnet EXCEPT !.mined = t, !.ok = ok, !.wire = w]
  BY <1>1, <1>3
<1>5. pnet' \in NetRecord
  BY <1>2, <1>4 DEF NetRecord
<1> QED BY <1>5, ChainKeeps DEF PilotMine

LEMMA ConfirmKeeps == ASSUME PilotInv, PilotConfirm PROVE PilotInv'
<1>1. PICK c \in CustodyRecord : c = newest
  BY NewestType DEF PilotInv
<1>2. PICK b \in BOOLEAN : b = TRUE
  OBVIOUS
<1>3. pnet' = [pnet EXCEPT !.final = c, !.mined = None, !.ok = b]
  BY <1>1, <1>2 DEF PilotConfirm
<1>4. pnet \in NetRecord /\ None \in TxRecord
  BY DEF PilotInv, PilotTypeOK, None, TxRecord
<1>5. pnet' \in NetRecord
  BY <1>3, <1>4 DEF NetRecord
<1> QED BY <1>5, ChainKeeps DEF PilotConfirm

LEMMA ReorgKeeps == ASSUME PilotInv, PilotReorg PROVE PilotInv'
<1>1. pnet \in NetRecord /\ None \in TxRecord /\ pnet.wire \cup {pnet.mined} \in SUBSET TxRecord
  BY Numbers DEF PilotInv, PilotTypeOK, None, TxRecord
<1>2. PICK w \in SUBSET TxRecord : w = pnet.wire \cup {pnet.mined}
  BY <1>1
<1>3. PICK b \in BOOLEAN : b = TRUE
  OBVIOUS
<1>4. pnet' = [pnet EXCEPT !.mined = None, !.ok = b, !.wire = w]
  BY <1>2, <1>3 DEF PilotReorg
<1>5. pnet' \in NetRecord
  BY <1>1, <1>4 DEF NetRecord
<1> QED BY <1>5, ChainKeeps DEF PilotReorg

LEMMA DepositKeeps == ASSUME PilotInv, Deposit PROVE PilotInv'
<1>1. pnet \in NetRecord /\ pnet.final \in CustodyRecord /\ pnet.final.native \in Nat
  BY Numbers DEF PilotInv, PilotTypeOK
<1>2. PICK n \in Nat : n = pnet.final.native + 1
  BY <1>1
<1>3. PICK c \in CustodyRecord : c = [pnet.final EXCEPT !.native = n]
  BY <1>1 DEF CustodyRecord
<1>4. pnet' = [pnet EXCEPT !.final = c]
  BY <1>1, <1>2, <1>3 DEF Deposit, NetRecord
<1>5. pnet' \in NetRecord
  BY <1>1, <1>4 DEF NetRecord
<1> QED BY <1>5, ChainKeeps DEF Deposit

\* What every look at the wallet accepts: deposits, and the exit it leads to.
LEMMA LookType ==
  ASSUME PilotInv, Continuous(pilot.last, pnet.final), NEW exit,
         NEW s, s = Moving(credited(pilot, pnet.final), exit)
  PROVE  /\ s \in PilotRecord /\ s.last = pnet.final /\ s.credits = pnet.final.native
         /\ pnet.final.nonce = pilot.last.nonce
<1>1. pilot \in PilotRecord /\ pilot.last \in CustodyRecord /\ pnet.final \in CustodyRecord
  BY Numbers DEF PilotInv, PilotTypeOK
<1>2. pilot.credits = pilot.last.native
  BY DEF PilotInv, CreditsBooked
<1>3. PICK t : t = credited(pilot, pnet.final)
  OBVIOUS
<1>4. t \in PilotRecord /\ t.last = pnet.final /\ t.credits = pnet.final.native
  BY <1>1, <1>2, <1>3, CreditedType
<1>5. s \in PilotRecord /\ s.last = t.last /\ s.credits = t.credits
  BY <1>3, <1>4, MovingType
<1>6. pilot.last.nonce = pnet.final.nonce
  BY <1>1, ContinuousNonce
<1> QED BY <1>4, <1>5, <1>6

LEMMA ManageKeeps == ASSUME PilotInv, managePosition PROVE PilotInv'
<1>1. PICK exit \in BOOLEAN : \E p \in plan(Moving(credited(pilot, pnet.final), exit), pnet.final) :
        IF p.kind = "none"
        THEN pilot' = [p.s EXCEPT !.phase = "closed"] /\ UNCHANGED <<prow, pctl>>
        ELSE /\ pilot' = p.s
             /\ prow' = [NoAction EXCEPT !.st = "prepared", !.before = pnet.final,
                           !.tx = [nonce |-> pnet.final.nonce, kind |-> p.kind]]
             /\ pctl' = "sign"
  BY DEF managePosition
<1>2. Continuous(pilot.last, pnet.final) /\ UNCHANGED <<pnet, ptop>> /\ prow = NoAction
  BY DEF managePosition, Quiet
<1>3. PICK s : s = Moving(credited(pilot, pnet.final), exit)
  OBVIOUS
<1>4. PICK p \in plan(s, pnet.final) :
        IF p.kind = "none"
        THEN pilot' = [p.s EXCEPT !.phase = "closed"] /\ UNCHANGED <<prow, pctl>>
        ELSE /\ pilot' = p.s
             /\ prow' = [NoAction EXCEPT !.st = "prepared", !.before = pnet.final,
                           !.tx = [nonce |-> pnet.final.nonce, kind |-> p.kind]]
             /\ pctl' = "sign"
  BY <1>1, <1>3
<1>5. /\ s \in PilotRecord /\ s.last = pnet.final /\ s.credits = pnet.final.native
      /\ pnet.final.nonce = pilot.last.nonce
  BY <1>2, <1>3, LookType
<1>6. pnet.final \in CustodyRecord /\ pnet.final.nonce \in Nat /\ ptop \in Nat
  BY Numbers DEF PilotInv
<1>7. PICK q \in PilotRecord : q = p.s /\ q.last = pnet.final /\ q.credits = pnet.final.native
  BY <1>5, <1>6, PlanType
<1>8. PICK k \in Kinds \cup {"none"} : k = p.kind
  BY <1>5, <1>6, PlanType
<1>9. CASE k = "none"
  <2>1. pilot' = [q EXCEPT !.phase = "closed"] /\ UNCHANGED <<prow, pctl>>
    BY <1>4, <1>7, <1>8, <1>9
  <2>2. /\ pilot' \in PilotRecord /\ pilot'.last = pnet.final
        /\ pilot'.credits = pnet.final.native
    BY <1>7, <2>1 DEF PilotRecord, Phases
  <2> QED BY <1>2, <1>5, <2>1, <2>2, CampaignKeeps
<1>10. CASE k # "none"
  <2>1. /\ pilot' = q /\ pctl' = "sign"
        /\ prow' = [NoAction EXCEPT !.st = "prepared", !.before = pnet.final,
                      !.tx = [nonce |-> pnet.final.nonce, kind |-> k]]
    BY <1>4, <1>7, <1>8, <1>10
  <2>2. PICK t \in TxRecord : t = [nonce |-> pnet.final.nonce, kind |-> k]
    BY <1>6 DEF TxRecord
  <2>3. t.nonce = pnet.final.nonce
    BY <2>2
  <2>4. prow' = [NoAction EXCEPT !.st = "prepared", !.before = pnet.final, !.tx = t]
    BY <2>1, <2>2
  <2>5. /\ prow' \in RowRecord /\ prow'.st = "prepared" /\ prow'.before = pnet.final
        /\ prow'.tx = t
    BY <1>6, <2>4, NoActionType DEF RowRecord
  <2>6. PilotTypeOK'
    BY <1>2, <1>7, <2>1, <2>5 DEF PilotInv, PilotTypeOK
  <2>7. RowFollows'
    BY <1>7, <2>1, <2>3, <2>5 DEF RowFollows
  <2>8. prow.st = "none"
    BY <1>2 DEF NoAction
  <2>9. SignedBelow'
    BY <1>2, <1>5, <1>7, <2>1, <2>5, <2>8 DEF PilotInv, SignedBelow
  <2>10. CreditsBooked'
    BY <1>7, <2>1 DEF CreditsBooked
  <2> QED BY <2>6, <2>7, <2>9, <2>10 DEF PilotInv
<1> QED BY <1>9, <1>10

LEMMA HoldingKeeps == ASSUME PilotInv, observeHolding PROVE PilotInv'
<1>1. PICK next \in {"holding", "recenter", "exit"} :
        pilot' = IF Moving(credited(pilot, pnet.final), next = "exit").phase = "exit" \/ next = "holding"
                 THEN Moving(credited(pilot, pnet.final), next = "exit")
                 ELSE [Moving(credited(pilot, pnet.final), next = "exit") EXCEPT
                         !.phase = "recenter", !.ranged = FALSE, !.swapDone = FALSE]
  BY DEF observeHolding
<1>2. Continuous(pilot.last, pnet.final) /\ UNCHANGED <<prow, pnet, pctl, ptop>>
  BY DEF observeHolding
<1>3. PICK s : s = Moving(credited(pilot, pnet.final), next = "exit")
  OBVIOUS
<1>4. /\ s \in PilotRecord /\ s.last = pnet.final /\ s.credits = pnet.final.native
      /\ pnet.final.nonce = pilot.last.nonce
  BY <1>2, <1>3, LookType
<1>5. pilot' = s \/ pilot' = [s EXCEPT !.phase = "recenter", !.ranged = FALSE, !.swapDone = FALSE]
  BY <1>1, <1>3
<1>6. /\ pilot' \in PilotRecord /\ pilot'.last = pnet.final /\ pilot'.credits = pnet.final.native
  BY <1>4, <1>5 DEF PilotRecord, Phases
<1> QED BY <1>2, <1>4, <1>6, CampaignKeeps

LEMMA ReenterKeeps == ASSUME PilotInv, reenter PROVE PilotInv'
<1>1. Continuous(pilot.last, pnet.final) /\ UNCHANGED <<prow, pnet, pctl, ptop>>
  BY DEF reenter
<1>2. PICK s : s = credited(pilot, pnet.final)
  OBVIOUS
<1>3. /\ pilot \in PilotRecord /\ pilot.last \in CustodyRecord /\ pnet.final \in CustodyRecord
      /\ pilot.credits = pilot.last.native
  BY Numbers DEF PilotInv, PilotTypeOK, CreditsBooked
<1>4. s \in PilotRecord /\ s.last = pnet.final /\ s.credits = pnet.final.native
  BY <1>2, <1>3, CreditedType
<1>5. pilot.last.nonce = pnet.final.nonce
  BY <1>1, <1>3, ContinuousNonce
<1>6. pilot' = [s EXCEPT !.phase = "entry", !.ranged = FALSE, !.swapDone = FALSE, !.recovery = 0]
  BY <1>2 DEF reenter
<1>7. /\ pilot' \in PilotRecord /\ pilot'.last = pnet.final /\ pilot'.credits = pnet.final.native
  <2>1. PICK b \in BOOLEAN : b = FALSE
    OBVIOUS
  <2>2. pilot' = [s EXCEPT !.phase = "entry", !.ranged = b, !.swapDone = b, !.recovery = 0]
    BY <1>6, <2>1
  <2> QED BY <1>4, <2>2 DEF PilotRecord, Phases
<1> QED BY <1>1, <1>5, <1>7, CampaignKeeps

LEMMA CreditKeeps == ASSUME PilotInv, recoverNativeCredit PROVE PilotInv'
<1>1. Continuous(pilot.last, pnet.final) /\ UNCHANGED <<prow, pnet, pctl, ptop>>
  BY DEF recoverNativeCredit
<1>2. PICK s : s = credited(pilot, pnet.final)
  OBVIOUS
<1>3. /\ pilot \in PilotRecord /\ pilot.last \in CustodyRecord /\ pnet.final \in CustodyRecord
      /\ pilot.credits = pilot.last.native
  BY Numbers DEF PilotInv, PilotTypeOK, CreditsBooked
<1>4. s \in PilotRecord /\ s.last = pnet.final /\ s.credits = pnet.final.native
  BY <1>2, <1>3, CreditedType
<1>5. pilot.last.nonce = pnet.final.nonce
  BY <1>1, <1>3, ContinuousNonce
<1>6. pilot' = [s EXCEPT !.phase = "exit", !.halt = "none"]
  BY <1>2 DEF recoverNativeCredit
<1>7. /\ pilot' \in PilotRecord /\ pilot'.last = pnet.final /\ pilot'.credits = pnet.final.native
  BY <1>4, <1>6 DEF PilotRecord, Phases
<1> QED BY <1>1, <1>5, <1>7, CampaignKeeps

LEMMA HaltKeeps == ASSUME PilotInv, haltUnexplained PROVE PilotInv'
<1>1. /\ pilot \in PilotRecord /\ pilot.credits = pilot.last.native
      /\ pilot' = [pilot EXCEPT !.phase = "halted", !.halt = "wallet"]
      /\ UNCHANGED <<prow, pnet, pctl, ptop>>
  BY DEF haltUnexplained, PilotInv, PilotTypeOK, CreditsBooked
<1>2. pilot' \in PilotRecord /\ pilot'.last = pilot.last /\ pilot'.credits = pilot.credits
  BY <1>1 DEF PilotRecord, Phases
<1> QED BY <1>1, <1>2, CampaignKeeps

LEMMA RecoverMintKeeps == ASSUME PilotInv, recoverPilotMint PROVE PilotInv'
<1>1. /\ pilot \in PilotRecord /\ pilot.credits = pilot.last.native
      /\ pilot' = [pilot EXCEPT !.phase = pilot.from, !.halt = "none", !.recovery = pilot.recovery + 1]
      /\ UNCHANGED <<prow, pnet, pctl, ptop>>
  BY DEF recoverPilotMint, PilotInv, PilotTypeOK, CreditsBooked
<1>2. PICK f \in Phases : f = pilot.from
  BY <1>1 DEF PilotRecord
<1>3. PICK n \in Nat : n = pilot.recovery + 1
  BY <1>1 DEF PilotRecord
<1>4. pilot' = [pilot EXCEPT !.phase = f, !.halt = "none", !.recovery = n]
  BY <1>1, <1>2, <1>3
<1>5. pilot' \in PilotRecord /\ pilot'.last = pilot.last /\ pilot'.credits = pilot.credits
  BY <1>1, <1>4 DEF PilotRecord
<1> QED BY <1>1, <1>5, CampaignKeeps

LEMMA RecoverExitKeeps == ASSUME PilotInv, recoverPilotExit PROVE PilotInv'
<1>1. /\ pilot \in PilotRecord /\ pilot.credits = pilot.last.native
      /\ pilot' = [pilot EXCEPT !.phase = "exit", !.desired = "stopped", !.halt = "none"]
      /\ UNCHANGED <<prow, pnet, pctl, ptop>>
  BY DEF recoverPilotExit, PilotInv, PilotTypeOK, CreditsBooked
<1>2. pilot' \in PilotRecord /\ pilot'.last = pilot.last /\ pilot'.credits = pilot.credits
  BY <1>1 DEF PilotRecord, Phases
<1> QED BY <1>1, <1>2, CampaignKeeps

LEMMA RequestKeeps == ASSUME PilotInv, request PROVE PilotInv'
<1>1. /\ pilot \in PilotRecord /\ pilot.credits = pilot.last.native
      /\ UNCHANGED <<prow, pnet, pctl, ptop>>
  BY DEF request, PilotInv, PilotTypeOK, CreditsBooked
<1>2. PICK desired \in {"running", "stopped"} :
        pilot' = [pilot EXCEPT !.desired = desired,
                    !.phase = IF desired # "running" /\ @ # "closed" THEN "exit" ELSE @]
  BY DEF request
<1>3. PICK f \in Phases :
        f = IF desired # "running" /\ pilot.phase # "closed" THEN "exit" ELSE pilot.phase
  BY <1>1 DEF PilotRecord, Phases
<1>4. pilot' = [pilot EXCEPT !.desired = desired, !.phase = f]
  BY <1>2, <1>3
<1>5. pilot' \in PilotRecord /\ pilot'.last = pilot.last /\ pilot'.credits = pilot.credits
  BY <1>1, <1>4 DEF PilotRecord
<1> QED BY <1>1, <1>5, CampaignKeeps

\* The nonce is signed: it becomes the highest one signed.
LEMMA SignKeeps == ASSUME PilotInv, pilotSign PROVE PilotInv'
<1>1. /\ prow' = [prow EXCEPT !.st = "signed"] /\ prow \in RowRecord
      /\ pctl' = "broadcast" /\ ptop' = prow.tx.nonce + 1 /\ UNCHANGED <<pilot, pnet>>
      /\ prow.st = "prepared"
  BY DEF pilotSign, PilotInv, PilotTypeOK, RowFollows
<1>2. prow.tx.nonce = pilot.last.nonce /\ prow.before.nonce = pilot.last.nonce
  BY <1>1 DEF PilotInv, RowFollows
<1>3. /\ prow' \in RowRecord /\ prow'.st = "signed" /\ prow'.tx = prow.tx
      /\ prow'.before = prow.before
  BY <1>1 DEF RowRecord
<1>4. ptop' \in Nat /\ ptop' = pilot.last.nonce + 1
  BY <1>1, <1>2, Numbers DEF PilotInv
<1>5. PilotTypeOK' /\ CreditsBooked'
  BY <1>1, <1>3, <1>4 DEF PilotInv, PilotTypeOK, CreditsBooked
<1>6. RowFollows'
  BY <1>1, <1>2, <1>3 DEF RowFollows
<1>7. SignedBelow'
  BY <1>1, <1>3, <1>4 DEF SignedBelow
<1> QED BY <1>5, <1>6, <1>7 DEF PilotInv

\* The row's own bookkeeping changes, its transaction and stage do not.
LEMMA RowKeeps ==
  ASSUME PilotInv, prow' \in RowRecord, pnet' \in NetRecord, UNCHANGED <<pilot, ptop>>,
         prow'.st = prow.st, prow'.tx = prow.tx, prow'.before = prow.before,
         pctl' = pctl \/ pctl' = "idle"
  PROVE  PilotInv'
<1>1. PilotTypeOK'
  BY DEF PilotInv, PilotTypeOK
<1>2. RowFollows'
  BY DEF PilotInv, RowFollows
<1>3. SignedBelow' /\ CreditsBooked'
  BY DEF PilotInv, SignedBelow, CreditsBooked
<1> QED BY <1>1, <1>2, <1>3 DEF PilotInv

\* The row's bytes reach the network.
LEMMA BytesOut ==
  ASSUME PilotInv, NEW n, n = [pnet EXCEPT !.wire = @ \cup {prow.tx}]
  PROVE  n \in NetRecord
<1>1. pnet \in NetRecord /\ pnet.wire \cup {prow.tx} \in SUBSET TxRecord
  BY Numbers DEF PilotInv, PilotTypeOK
<1>2. PICK w \in SUBSET TxRecord : w = pnet.wire \cup {prow.tx}
  BY <1>1
<1>3. n = [pnet EXCEPT !.wire = w]
  BY <1>2
<1> QED BY <1>1, <1>3 DEF NetRecord

LEMMA BroadcastKeeps == ASSUME PilotInv, broadcast PROVE PilotInv'
<1>1. PICK recorded \in BOOLEAN : prow' = [prow EXCEPT !.attempted = recorded]
  BY DEF broadcast
<1>2. /\ pnet' = [pnet EXCEPT !.wire = @ \cup {prow.tx}] /\ pctl' = "idle"
      /\ UNCHANGED <<pilot, ptop>> /\ prow \in RowRecord
  BY DEF broadcast, PilotInv, PilotTypeOK
<1>3. /\ prow' \in RowRecord /\ prow'.st = prow.st /\ prow'.tx = prow.tx
      /\ prow'.before = prow.before
  BY <1>1, <1>2 DEF RowRecord
<1>4. pnet' \in NetRecord
  BY <1>2, BytesOut
<1> QED BY <1>2, <1>3, <1>4, RowKeeps

LEMMA RetryKeeps == ASSUME PilotInv, retryApproval PROVE PilotInv'
<1>1. /\ pnet' = [pnet EXCEPT !.wire = @ \cup {prow.tx}]
      /\ prow' = [prow EXCEPT !.attempted = TRUE]
      /\ UNCHANGED <<pilot, pctl, ptop>> /\ prow \in RowRecord
  BY DEF retryApproval, PilotInv, PilotTypeOK
<1>2. /\ prow' \in RowRecord /\ prow'.st = prow.st /\ prow'.tx = prow.tx
      /\ prow'.before = prow.before
  BY <1>1 DEF RowRecord
<1>3. pnet' \in NetRecord
  BY <1>1, BytesOut
<1> QED BY <1>1, <1>2, <1>3, RowKeeps

LEMMA ExpireKeeps == ASSUME PilotInv, Expire PROVE PilotInv'
<1>1. /\ prow' = [prow EXCEPT !.expired = TRUE] /\ prow \in RowRecord /\ pnet \in NetRecord
      /\ UNCHANGED <<pilot, pnet, pctl, ptop>>
  BY DEF Expire, PilotInv, PilotTypeOK
<1>2. /\ prow' \in RowRecord /\ prow'.st = prow.st /\ prow'.tx = prow.tx
      /\ prow'.before = prow.before
  BY <1>1 DEF RowRecord
<1> QED BY <1>1, <1>2, RowKeeps

\* Only a row that was never signed is given up, so its nonce stays unsigned.
LEMMA CancelKeeps == ASSUME PilotInv, cancelPrepared PROVE PilotInv'
<1>1. /\ prow' = NoAction /\ prow.st = "prepared" /\ pctl = "idle"
      /\ UNCHANGED <<pilot, pnet, pctl, ptop>>
  BY DEF cancelPrepared, requotable
<1>2. prow' \in RowRecord /\ prow'.st = "none"
  BY <1>1, NoActionType DEF NoAction
<1>3. PilotTypeOK' /\ CreditsBooked'
  BY <1>1, <1>2 DEF PilotInv, PilotTypeOK, CreditsBooked
<1>4. RowFollows' /\ SignedBelow'
  BY <1>1, <1>2 DEF PilotInv, RowFollows, SignedBelow
<1> QED BY <1>3, <1>4 DEF PilotInv

\* The receipt takes the row's nonce into the custody, whatever it explains.
LEMMA ReceiptKeeps == ASSUME PilotInv, reconcileReceipt PROVE PilotInv'
<1>1. PICK ok \in BOOLEAN :
        /\ Continuous(PilotAfter(prow.before, prow.tx, ok), pnet.final)
        /\ pilot' = CASE ~ok -> [receiptCredit(pilot, pnet.final) EXCEPT
                                   !.phase = "halted", !.from = pilot.phase,
                                   !.halt = IF prow.tx.kind = "mint"
                                               /\ pnet.final.native = prow.before.native
                                            THEN "mint" ELSE "reverted"]
                      [] ok /\ prow.tx.kind = "buy" ->
                           [receiptCredit(pilot, pnet.final) EXCEPT !.swapDone = TRUE]
                      [] ok /\ prow.tx.kind = "sell" ->
                           [receiptCredit(pilot, pnet.final) EXCEPT !.swapDone = TRUE]
                      [] ok /\ prow.tx.kind = "mint" ->
                           [receiptCredit(pilot, pnet.final) EXCEPT
                              !.token = pnet.final.pos, !.ranged = FALSE, !.swapDone = FALSE,
                              !.recovery = 0,
                              !.phase = IF receiptCredit(pilot, pnet.final).desired = "running"
                                        THEN "holding" ELSE "exit"]
                      [] ok /\ prow.tx.kind = "withdraw" ->
                           [receiptCredit(pilot, pnet.final) EXCEPT
                              !.token = 0, !.ranged = FALSE, !.swapDone = FALSE]
                      [] OTHER -> receiptCredit(pilot, pnet.final)
  BY DEF reconcileReceipt
<1>2. /\ pctl = "idle" /\ prow.st = "signed" /\ prow' = NoAction
      /\ UNCHANGED <<pnet, pctl, ptop>>
  BY DEF reconcileReceipt
<1>3. /\ pilot \in PilotRecord /\ pilot.credits = pilot.last.native
      /\ pnet.final \in CustodyRecord /\ prow.before \in CustodyRecord
      /\ prow.before.nonce \in Nat
  BY Numbers DEF PilotInv, PilotTypeOK, CreditsBooked
<1>4. PICK s \in PilotRecord : /\ s = receiptCredit(pilot, pnet.final)
                               /\ s.last = pnet.final
                               /\ s.credits = pnet.final.native
  BY <1>3, CreditedType DEF receiptCredit
<1>5. pnet.final.nonce = pilot.last.nonce + 1
  <2>1. PICK a \in CustodyRecord : a = PilotAfter(prow.before, prow.tx, ok)
                                   /\ a.nonce = prow.before.nonce + 1
    BY <1>3, AfterType
  <2>2. a.nonce = pnet.final.nonce
    BY <1>1, <1>3, <2>1, ContinuousNonce
  <2>3. prow.before.nonce = pilot.last.nonce
    BY <1>2 DEF PilotInv, RowFollows
  <2> QED BY <2>1, <2>2, <2>3
<1>6. pilot' \in PilotRecord /\ pilot'.last = s.last /\ pilot'.credits = s.credits
  <2>1. CASE ~ok
    <3>1. PICK h \in {"mint", "reverted"} :
            h = IF prow.tx.kind = "mint" /\ pnet.final.native = prow.before.native
                THEN "mint" ELSE "reverted"
      OBVIOUS
    <3>2. PICK f \in Phases : f = pilot.phase
      BY <1>3 DEF PilotRecord
    <3>3. pilot' = [s EXCEPT !.phase = "halted", !.from = f, !.halt = h]
      BY <1>1, <1>4, <2>1, <3>1, <3>2
    <3> QED BY <3>3 DEF PilotRecord, Phases
  <2>2. CASE ok /\ prow.tx.kind \in {"buy", "sell"}
    <3>1. pilot' = [s EXCEPT !.swapDone = TRUE]
      BY <1>1, <1>4, <2>2
    <3> QED BY <3>1 DEF PilotRecord
  <2>3. CASE ok /\ prow.tx.kind = "mint"
    <3>1. PICK n \in Nat : n = pnet.final.pos
      BY <1>3 DEF CustodyRecord
    <3>2. PICK f \in Phases : f = IF s.desired = "running" THEN "holding" ELSE "exit"
      BY DEF Phases
    <3>3. PICK b \in BOOLEAN : b = FALSE
      OBVIOUS
    <3>4. pilot' = [s EXCEPT !.token = n, !.ranged = b, !.swapDone = b, !.recovery = 0, !.phase = f]
      BY <1>1, <1>4, <2>3, <3>1, <3>2, <3>3
    <3> QED BY <3>4 DEF PilotRecord
  <2>4. CASE ok /\ prow.tx.kind = "withdraw"
    <3>1. PICK b \in BOOLEAN : b = FALSE
      OBVIOUS
    <3>2. pilot' = [s EXCEPT !.token = 0, !.ranged = b, !.swapDone = b]
      BY <1>1, <1>4, <2>4, <3>1
    <3> QED BY <3>2 DEF PilotRecord
  <2>5. CASE ok /\ prow.tx.kind \notin {"buy", "sell", "mint", "withdraw"}
    <3>1. pilot' = s
      BY <1>1, <1>4, <2>5
    <3> QED BY <3>1
  <2> QED BY <2>1, <2>2, <2>3, <2>4, <2>5
<1>7. prow' \in RowRecord /\ prow'.st = "none"
  BY <1>2, NoActionType DEF NoAction
<1>8. PilotTypeOK' /\ CreditsBooked'
  BY <1>2, <1>4, <1>6, <1>7 DEF PilotInv, PilotTypeOK, CreditsBooked
<1>9. RowFollows'
  BY <1>2, <1>7 DEF RowFollows
<1>10. ptop' <= pilot'.last.nonce
  <2>1. ptop = pilot.last.nonce + 1
    BY <1>2 DEF PilotInv, SignedBelow
  <2>2. pilot'.last.nonce = pilot.last.nonce + 1
    BY <1>4, <1>5, <1>6
  <2> QED BY <1>2, <2>1, <2>2, Numbers DEF PilotInv
<1> QED BY <1>7, <1>8, <1>9, <1>10 DEF PilotInv, SignedBelow

-----------------------------------------------------------------------------
(* The theorems.                                                           *)

LEMMA PilotInvInit == PilotInit => PilotInv
<1> SUFFICES ASSUME PilotInit PROVE PilotInv
  OBVIOUS
<1>1. /\ Flat \in CustodyRecord /\ Flat.native = 0 /\ Flat.nonce = 0
      /\ None \in TxRecord
  BY DEF Flat, CustodyRecord, None, TxRecord
<1>2. pilot \in PilotRecord /\ pilot.credits = 0 /\ pilot.last = Flat
  BY <1>1 DEF PilotInit, PilotRecord, Phases
<1>3. prow \in RowRecord /\ prow.st = "none"
  BY NoActionType DEF PilotInit, NoAction
<1>4. pnet \in NetRecord /\ pctl = "idle" /\ ptop = 0
  BY <1>1 DEF PilotInit, NetRecord
<1> QED BY <1>1, <1>2, <1>3, <1>4
     DEF PilotInv, PilotTypeOK, RowFollows, SignedBelow, CreditsBooked

LEMMA PilotInvNext == PilotInv /\ [PilotNext]_pilotVars => PilotInv'
<1> SUFFICES ASSUME PilotInv, [PilotNext]_pilotVars PROVE PilotInv'
  OBVIOUS
<1>1. CASE PilotVanish \/ PilotMine \/ PilotConfirm \/ PilotReorg \/ Deposit
  BY <1>1, VanishKeeps, MineKeeps, ConfirmKeeps, ReorgKeeps, DepositKeeps
<1>2. CASE managePosition \/ observeHolding \/ reenter \/ haltUnexplained
  BY <1>2, ManageKeeps, HoldingKeeps, ReenterKeeps, HaltKeeps
<1>3. CASE pilotSign \/ broadcast \/ stopTick \/ Expire
  BY <1>3, SignKeeps, BroadcastKeeps, ProcessKeeps, ExpireKeeps DEF stopTick
<1>4. CASE cancelPrepared \/ reconcileReceipt \/ retryApproval
  BY <1>4, CancelKeeps, ReceiptKeeps, RetryKeeps
<1>5. CASE recoverPilotMint \/ recoverPilotExit \/ recoverNativeCredit \/ request
  BY <1>5, RecoverMintKeeps, RecoverExitKeeps, CreditKeeps, RequestKeeps
<1>6. CASE UNCHANGED pilotVars
  BY <1>6 DEF pilotVars, PilotInv, PilotTypeOK, RowFollows, SignedBelow, CreditsBooked
<1> QED BY <1>1, <1>2, <1>3, <1>4, <1>5, <1>6 DEF PilotNext

LEMMA PilotInvHolds == PilotSpec => []PilotInv
BY PilotInvInit, PilotInvNext, PTL DEF PilotSpec

\* Whatever deposits arrive, and however a campaign halts, recovers and enters
\* again, each unit of outside gas in the accepted custody is booked once.
THEOREM CreditsAlwaysBooked == PilotSpec => []CreditsBooked
<1>1. PilotInv => CreditsBooked
  BY DEF PilotInv
<1> QED BY <1>1, PilotInvHolds, PTL

\* For every number of transactions, crashes and recoveries: no nonce is signed
\* a second time, whether or not its first bytes were recorded as sent, and no
\* mint or purchase is sent once the campaign is on its way out.
THEOREM PilotStepsSafe == PilotSpec => PilotSteps
<1>1. PilotInv /\ [PilotNext]_pilotVars => [pilotSign => prow.tx.nonce >= ptop]_pilotVars
  <2> SUFFICES ASSUME PilotInv, pilotSign PROVE prow.tx.nonce >= ptop
    OBVIOUS
  <2>1. prow.st = "prepared"
    BY DEF pilotSign, PilotInv, RowFollows
  <2>2. prow.tx.nonce = pilot.last.nonce /\ ptop <= pilot.last.nonce
    BY <2>1 DEF PilotInv, RowFollows, SignedBelow
  <2> QED BY <2>2, Numbers DEF PilotInv
<1>2. [PilotNext]_pilotVars =>
        [broadcast /\ prow.tx.kind \in {"mint", "buy"} => pilot.phase # "exit"]_pilotVars
  BY DEF broadcast, beforeBroadcast, authorizePilotPlan
<1> QED BY <1>1, <1>2, PilotInvHolds, PTL
     DEF PilotSpec, PilotSteps, PilotNonceOnce, StopBlocksBroadcast

-----------------------------------------------------------------------------
(* Paper sessions: the inductive invariant.                                *)

Statuses == {"waiting", "entry_pending", "open", "exit_pending", "closed", "invalid", "none"}
Reasons == {"none", "gap", "stale", "history", "source"}
Needs == {"none", "quote", "entry", "recenter_quote", "recenter", "exit"}
Results == Needs \cup {"error"}
Verdicts == {"none", "changed", "source", "deferred", "error"}
Cut == [from : Int, through : Int]
Cuts == Seq(Cut)
RunSet == SUBSET Nat
Sources == SUBSET Int
Session ==
    [status : Statuses, why : Reasons, was : Statuses, pos : BOOLEAN, last : Int, since : Int,
     intent : Int, rq : Int, entered : Int, earned : Int, paid : Int, stopped : BOOLEAN,
     touched : BOOLEAN, parent : Nat, budget : Int, born : Int, entryRun : Nat, exitRun : Nat,
     moves : RunSet, build : Int, history : Cuts, seen : Sources, held : BOOLEAN,
     chainSince : Int, riskSince : Int, exitDue : BOOLEAN, paused : BOOLEAN, resume : BOOLEAN]
RunRow == [id : Nat, cp : Int, kind : Needs, err : Verdicts, build : Int, timely : BOOLEAN]
Tape == [count : Nat, covered : BOOLEAN, bad : SUBSET Int, reorgs : Int]
IdleTicker == [pc : {"idle"}, build : Int]
BusyTicker == [pc : {"network"}, build : Int, id : Nat, cp : Nat, need : Needs, snap : Session]

\* The type invariant.
SessionTypes ==
    /\ tape \in Tape
    /\ sessions \in Seq(Session) /\ Len(sessions) > 0
    /\ xruns \in Seq(RunRow)
    /\ ticker \in IdleTicker \cup BusyTicker

\* The fees counted cover the position from its entry to its last source.
FeesOK(s) == s.earned = IF s.pos THEN s.last - s.entered ELSE 0
\* The session asks for nothing more at source k.
Over(s, k) == s.status \in Terminal \/ (s.status = "exit_pending" /\ s.pos /\ k <= s.since)
\* Why the source of a record is not simulated again.
Spent(s, run) == Over(s, run.cp) \/ run.cp \in s.seen \/ run.err = "deferred"
\* Build b made record r: the session's own since its last cut, or the one the
\* first cut at or after r names.
Built(s, r, b) ==
    \/ b = s.build /\ \A h \in 1..Len(s.history) : r > s.history[h].through
    \/ \E h \in 1..Len(s.history) :
          /\ b = s.history[h].from /\ r <= s.history[h].through
          /\ \A g \in 1..h - 1 : r > s.history[g].through

\* What holds of one session's row.
RowOk(s, i, total) ==
    /\ s.parent = 0 \/ s.parent = i - 1
    /\ FeesOK(s)
    /\ s.status = "exit_pending" => s.pos
    /\ s.stopped => s.status \in Terminal \cup {"exit_pending"}
    /\ \A h \in 1..Len(s.history) : s.history[h].through <= total

RowsOk == \A i \in 1..Len(sessions) : RowOk(sessions[i], i, Len(xruns))
ProofsOk == \A i \in 1..Len(sessions) : \A r \in Proofs(sessions[i]) :
    r \in 1..Len(xruns) /\ xruns[r].id = i
\* What the book of simulations says of the rows it belongs to.
RunsOk == \A r \in 1..Len(xruns) :
    /\ xruns[r].id \in 1..Len(sessions)
    /\ xruns[r].cp \in 1..tape.count
    /\ Spent(sessions[xruns[r].id], xruns[r])
    /\ Built(sessions[xruns[r].id], r, xruns[r].build)
OnePerSource == \A p, q \in 1..Len(xruns) : p < q => xruns[p].id # xruns[q].id \/ xruns[p].cp # xruns[q].cp
\* The row a running simulation left is still that row, or is done with its source.
TickOk == ticker.pc = "network" =>
    /\ ticker.id \in 1..Len(sessions)
    /\ ticker.cp \in 1..tape.count
    /\ \A r \in 1..Len(xruns) : xruns[r].id # ticker.id \/ xruns[r].cp # ticker.cp
    /\ sessions[ticker.id].build = ticker.build
    /\ ticker.snap.status \notin Terminal
    /\ sessions[ticker.id] = ticker.snap \/ Over(sessions[ticker.id], ticker.cp)

\* What a step keeps of one row, for the sources collected so far.
RowKept(s, t, c) ==
    /\ t.parent = s.parent
    /\ s.seen \subseteq t.seen
    /\ FeesOK(s) => FeesOK(t)
    /\ (s.status = "exit_pending" => s.pos) => (t.status = "exit_pending" => t.pos)
    /\ s.stopped => t.stopped
    /\ (s.status = "exit_pending" => s.pos) /\ (s.stopped => s.status \in Terminal \cup {"exit_pending"})
          => (t.stopped => t.status \in Terminal \cup {"exit_pending"})
    /\ \A k \in 1..c : Over(s, k) => Over(t, k)

\* What a step does to a session it keeps.
SessionKept(i) ==
    /\ RowKept(sessions[i], sessions'[i], tape.count)
    /\ \A r \in Proofs(sessions'[i]) : r \in Proofs(sessions[i]) \/ (r \in 1..Len(xruns') /\ xruns'[r].id = i)
    /\ \A r \in 1..Len(xruns) : Built(sessions[i], r, xruns[r].build) => Built(sessions'[i], r, xruns[r].build)
    /\ \A h \in 1..Len(sessions'[i].history) : sessions'[i].history[h].through <= Len(xruns')

\* What a step keeps of one record.
RunKept(r) ==
    /\ xruns'[r].id = xruns[r].id /\ xruns'[r].cp = xruns[r].cp /\ xruns'[r].build = xruns[r].build
    /\ xruns'[r].err = xruns[r].err \/ Over(sessions[xruns[r].id], xruns[r].cp)

\* What a step owes of a record it adds.
RunFresh(r) ==
    /\ xruns'[r].id \in 1..Len(sessions')
    /\ xruns'[r].cp \in 1..tape'.count
    /\ Spent(sessions'[xruns'[r].id], xruns'[r])
    /\ Built(sessions'[xruns'[r].id], r, xruns'[r].build)
    /\ \A q \in 1..r - 1 : xruns'[q].id # xruns'[r].id \/ xruns'[q].cp # xruns'[r].cp

Books == RowsOk /\ ProofsOk /\ RunsOk /\ OnePerSource

\* Old sessions and records kept, new ones sound: the books stay sound.
LEMMA BooksKept ==
  ASSUME SessionTypes, SessionTypes', Books,
         Len(sessions') >= Len(sessions), Len(xruns') >= Len(xruns), tape'.count >= tape.count,
         \A i \in 1..Len(sessions) : SessionKept(i),
         \A i \in Len(sessions) + 1..Len(sessions') :
             RowOk(sessions'[i], i, Len(xruns')) /\ Proofs(sessions'[i]) = {},
         \A r \in 1..Len(xruns) : RunKept(r),
         \A r \in Len(xruns) + 1..Len(xruns') : RunFresh(r)
  PROVE  Books'
<1>1. /\ Len(sessions) \in Nat /\ Len(sessions') \in Nat /\ Len(xruns) \in Nat /\ Len(xruns') \in Nat
      /\ tape.count \in Nat /\ tape'.count \in Nat
  BY DEF SessionTypes, Tape
<1>2. RowsOk'
  <2>1. SUFFICES ASSUME NEW i \in 1..Len(sessions') PROVE RowOk(sessions'[i], i, Len(xruns'))
    BY DEF RowsOk
  <2>2. CASE i \in 1..Len(sessions)
    <3>1. RowOk(sessions[i], i, Len(xruns)) BY <2>2 DEF Books, RowsOk
    <3>2. SessionKept(i) BY <2>2
    <3>. QED BY <3>1, <3>2 DEF RowOk, SessionKept, RowKept
  <2>3. CASE i \notin 1..Len(sessions) BY <1>1, <2>3
  <2>. QED BY <2>2, <2>3
<1>3. ProofsOk'
  <2>1. SUFFICES ASSUME NEW i \in 1..Len(sessions'), NEW r \in Proofs(sessions'[i])
                 PROVE  r \in 1..Len(xruns') /\ xruns'[r].id = i
    BY DEF ProofsOk, Proofs
  <2>2. CASE i \in 1..Len(sessions)
    <3>1. SessionKept(i) BY <2>2
    <3>2. CASE r \in Proofs(sessions[i])
      <4>1. r \in 1..Len(xruns) /\ xruns[r].id = i BY <2>2, <3>2 DEF Books, ProofsOk
      <4>. QED BY <1>1, <4>1 DEF RunKept
    <3>. QED BY <3>1, <3>2 DEF SessionKept
  <2>3. CASE i \notin 1..Len(sessions)
    <3>1. i \in Len(sessions) + 1..Len(sessions') BY <1>1, <2>3
    <3>2. Proofs(sessions'[i]) = {} BY <3>1
    <3>. QED BY <2>1, <3>2, Zenon
  <2>. QED BY <2>2, <2>3
<1>4. RunsOk'
  <2>1. SUFFICES ASSUME NEW r \in 1..Len(xruns')
                 PROVE  /\ xruns'[r].id \in 1..Len(sessions')
                        /\ xruns'[r].cp \in 1..tape'.count
                        /\ Spent(sessions'[xruns'[r].id], xruns'[r])
                        /\ Built(sessions'[xruns'[r].id], r, xruns'[r].build)
    BY DEF RunsOk
  <2>2. CASE r \in 1..Len(xruns)
    <3>1. /\ xruns[r].id \in 1..Len(sessions) /\ xruns[r].cp \in 1..tape.count
          /\ Spent(sessions[xruns[r].id], xruns[r])
          /\ Built(sessions[xruns[r].id], r, xruns[r].build)
      BY <2>2 DEF Books, RunsOk
    <3>2. RunKept(r) /\ SessionKept(xruns[r].id) BY <2>2, <3>1
    <3>3. Built(sessions'[xruns'[r].id], r, xruns'[r].build)
      BY <2>2, <3>1, <3>2 DEF RunKept, SessionKept
    <3>4. Spent(sessions'[xruns'[r].id], xruns'[r])
      BY <3>1, <3>2 DEF RunKept, SessionKept, RowKept, Spent
    <3>. QED BY <1>1, <3>1, <3>2, <3>3, <3>4 DEF RunKept
  <2>3. CASE r \notin 1..Len(xruns) BY <1>1, <2>3 DEF RunFresh
  <2>. QED BY <2>2, <2>3
<1>5. OnePerSource'
  <2>1. SUFFICES ASSUME NEW p \in 1..Len(xruns'), NEW q \in 1..Len(xruns'), p < q
                 PROVE  xruns'[p].id # xruns'[q].id \/ xruns'[p].cp # xruns'[q].cp
    BY DEF OnePerSource
  <2>2. CASE q \in 1..Len(xruns)
    <3>1. p \in 1..Len(xruns) BY <1>1, <2>1, <2>2
    <3>2. xruns[p].id # xruns[q].id \/ xruns[p].cp # xruns[q].cp
      BY <2>1, <2>2, <3>1 DEF Books, OnePerSource
    <3>. QED BY <2>2, <3>1, <3>2 DEF RunKept
  <2>3. CASE q \notin 1..Len(xruns)
    <3>1. RunFresh(q) /\ p \in 1..q - 1 BY <1>1, <2>1, <2>3
    <3>. QED BY <3>1 DEF RunFresh
  <2>. QED BY <2>2, <2>3
<1>. QED BY <1>2, <1>3, <1>4, <1>5 DEF Books

-----------------------------------------------------------------------------
(* The engine.                                                             *)

Sim == [exec : Results, run : Nat, at : Int, chain : BOOLEAN, outside : BOOLEAN, gates : BOOLEAN]

\* What the engine never touches.
Same(s, t) ==
    /\ t.parent = s.parent /\ t.build = s.build /\ t.history = s.history /\ t.seen = s.seen
    /\ t.stopped = s.stopped

SameProofs(s, t) == t.moves = s.moves /\ t.entryRun = s.entryRun /\ t.exitRun = s.exitRun

SameFees(s, t) ==
    t.pos = s.pos /\ t.last = s.last /\ t.entered = s.entered /\ t.earned = s.earned

\* What the engine makes of an active session at a checkpoint.
Advanced(s, t, x) ==
    /\ t \in Session
    /\ Same(s, t)
    /\ FeesOK(t)
    /\ t.status = "exit_pending" => t.pos
    /\ s.status = "exit_pending" => t.status \in Terminal \cup {"exit_pending"}
    /\ \A k \in Nat \ {0} : Over(s, k) => Over(t, k)
    /\ \A r \in Proofs(t) : r \in Proofs(s) \/ (r = x.run /\ r # 0)

\* Without a position, a source quotes, enters or leaves the session waiting.
LEMMA FlatAdvanced ==
  ASSUME NEW s \in Session, NEW i \in Int, NEW x \in Sim, FeesOK(s), ~s.pos,
         s.status \notin Terminal, s.status # "exit_pending"
  PROVE  LET a == AdvanceFlat([s EXCEPT !.last = i], i, x) IN
         /\ Advanced(s, a.s, x)
<1>1. PICK zero \in Int, one \in Int : zero = 0 /\ one = 1 OBVIOUS
<1>2. PICK at \in Int, run \in Nat : at = x.at /\ run = x.run BY DEF Sim
<1>3. PICK waiting \in Statuses, pending \in Statuses, open \in Statuses :
         waiting = "waiting" /\ pending = "entry_pending" /\ open = "open"
  BY DEF Statuses
<1>4. PICK u : u = [s EXCEPT !.last = i] OBVIOUS
<1>5. u \in Session BY <1>4 DEF Session
<1>6. /\ Same(s, u) /\ SameProofs(s, u) /\ u.last = i /\ u.earned = s.earned
      /\ ~u.pos /\ u.status = s.status /\ u.since = s.since
  BY <1>4 DEF Session, Same, SameProofs
<1>7. Advanced(s, u, x)
  BY <1>5, <1>6 DEF Advanced, Same, SameProofs, FeesOK, Over, Proofs, Terminal
<1>8. Advanced(s, Idled(u), x)
  <2>1. PICK v : v = [u EXCEPT !.status = waiting, !.since = zero, !.intent = zero] OBVIOUS
  <2>2. v \in Session BY <2>1, <1>5 DEF Session
  <2>3. Same(u, v) /\ SameProofs(u, v) /\ SameFees(u, v) /\ v.status = waiting
    BY <1>5, <2>1 DEF Session, Same, SameProofs, SameFees
  <2>4. Advanced(s, v, x)
    BY <1>2, <1>3, <1>6, <2>2, <2>3 DEF Advanced, Same, SameProofs, SameFees, FeesOK, Over, Proofs, Terminal
  <2>. QED BY <2>1, <2>4, <1>3, <1>1 DEF Idled
<1>9. Advanced(s, [u EXCEPT !.status = "waiting"], x)
  <2>1. PICK v : v = [u EXCEPT !.status = waiting] OBVIOUS
  <2>2. v \in Session BY <2>1, <1>5 DEF Session
  <2>3. Same(u, v) /\ SameProofs(u, v) /\ SameFees(u, v) /\ v.status = waiting
    BY <1>5, <2>1 DEF Session, Same, SameProofs, SameFees
  <2>4. Advanced(s, v, x)
    BY <1>2, <1>3, <1>6, <2>2, <2>3 DEF Advanced, Same, SameProofs, SameFees, FeesOK, Over, Proofs, Terminal
  <2>. QED BY <2>1, <2>4, <1>3
<1>10. Advanced(s, [u EXCEPT !.intent = i, !.status = "entry_pending", !.since = x.at], x)
  <2>1. PICK v : v = [u EXCEPT !.intent = i, !.status = pending, !.since = at] OBVIOUS
  <2>2. v \in Session BY <2>1, <1>5 DEF Session
  <2>3. Same(u, v) /\ SameProofs(u, v) /\ SameFees(u, v) /\ v.status = pending
    BY <1>5, <2>1 DEF Session, Same, SameProofs, SameFees
  <2>4. Advanced(s, v, x)
    BY <1>2, <1>3, <1>6, <2>2, <2>3 DEF Advanced, Same, SameProofs, SameFees, FeesOK, Over, Proofs, Terminal
  <2>. QED BY <2>1, <2>4, <1>3, <1>2
<1>11. Advanced(s, [u EXCEPT !.pos = TRUE, !.status = "open", !.since = 0, !.entered = i,
                            !.entryRun = x.run, !.paid = 1], x)
  <2>1. PICK v : v = [u EXCEPT !.pos = TRUE, !.status = open, !.since = zero, !.entered = i,
                            !.entryRun = run, !.paid = one] OBVIOUS
  <2>2. v \in Session BY <1>1, <2>1, <1>5 DEF Session
  <2>3. Same(u, v) /\ v.moves = u.moves /\ v.exitRun = u.exitRun /\ v.entryRun = run
        /\ v.pos /\ v.last = u.last /\ v.entered = i /\ v.earned = u.earned /\ v.status = open
    BY <1>5, <2>1 DEF Session, Same, SameProofs, SameFees
  <2>4. Advanced(s, v, x)
    BY <1>2, <1>3, <1>6, <2>2, <2>3 DEF Advanced, Same, SameProofs, SameFees, FeesOK, Over, Proofs, Terminal
  <2>. QED BY <2>1, <2>4, <1>3, <1>1, <1>2
<1>. QED
  BY <1>4, <1>7, <1>8, <1>9, <1>10, <1>11 DEF AdvanceFlat
\* A revocation is terminal and touches neither fees nor records.
LEMMA Invalidated ==
  ASSUME NEW s \in Session, NEW why \in Reasons
  PROVE  LET t == invalidatePaper(s, why) IN
         t \in Session /\ Same(s, t) /\ SameProofs(s, t) /\ SameFees(s, t) /\ t.status = "invalid"
<1>1. PICK invalid \in Statuses : invalid = "invalid" BY DEF Statuses
<1>2. PICK was \in Statuses : was = s.status BY DEF Session
<1>3. PICK v : v = [s EXCEPT !.status = invalid, !.why = why, !.was = was] OBVIOUS
<1>4. v \in Session BY <1>3 DEF Session
<1>5. Same(s, v) /\ SameProofs(s, v) /\ SameFees(s, v) /\ v.status = invalid
  BY <1>3 DEF Session, Same, SameProofs, SameFees
<1>6. v = invalidatePaper(s, why) BY <1>1, <1>2, <1>3 DEF invalidatePaper
<1>. QED BY <1>1, <1>4, <1>5, <1>6

\* Revoking an advanced row is an advance of its own.
LEMMA InvalidAdvanced ==
  ASSUME NEW s \in Session, NEW u \in Session, NEW x, NEW why \in Reasons, Advanced(s, u, x)
  PROVE  Advanced(s, invalidatePaper(u, why), x)
<1>1. PICK t : t = invalidatePaper(u, why) OBVIOUS
<1>2. t \in Session /\ Same(u, t) /\ SameProofs(u, t) /\ SameFees(u, t) /\ t.status = "invalid"
  BY <1>1, Invalidated
<1>3. Advanced(s, t, x)
  BY <1>2 DEF Advanced, Same, SameProofs, SameFees, FeesOK, Over, Proofs, Terminal
<1>. QED BY <1>1, <1>3

\* A row left as it is, is the least advance.
LEMMA SelfAdvanced ==
  ASSUME NEW s \in Session, NEW x, FeesOK(s), s.status = "exit_pending" => s.pos
  PROVE  Advanced(s, s, x)
BY DEF Advanced, Same

\* A recenter replaces the quote or adds the move's record.
LEMMA RecenterAdvanced ==
  ASSUME NEW s \in Session, NEW u \in Session, NEW i \in Int, NEW x \in Sim, Advanced(s, u, x),
         u.status \notin Terminal, u.status # "exit_pending", s.status # "exit_pending", u.pos
  PROVE  LET a == advanceRecenter(u, i, x) IN Advanced(s, a.s, x) /\ a.need \in Needs
<1>1. PICK zero \in Int : zero = 0 OBVIOUS
<1>2. PICK more \in Int : more = u.paid + 1 BY DEF Session
<1>3. PICK moves \in RunSet : moves = u.moves \cup {x.run} BY DEF Session, RunSet, Sim
<1>4. Advanced(s, [u EXCEPT !.rq = 0], x)
  <2>1. PICK v : v = [u EXCEPT !.rq = zero] OBVIOUS
  <2>2. v \in Session BY <2>1 DEF Session
  <2>3. Same(u, v) /\ SameProofs(u, v) /\ SameFees(u, v) /\ v.status = u.status /\ v.since = u.since
    BY <2>1 DEF Session, Same, SameProofs, SameFees
  <2>4. Advanced(s, v, x)
    BY <2>2, <2>3 DEF Advanced, Same, SameProofs, SameFees, FeesOK, Over, Proofs, Terminal
  <2>. QED BY <1>1, <2>1, <2>4
<1>5. Advanced(s, [u EXCEPT !.rq = i], x)
  <2>1. PICK v : v = [u EXCEPT !.rq = i] OBVIOUS
  <2>2. v \in Session BY <2>1 DEF Session
  <2>3. Same(u, v) /\ SameProofs(u, v) /\ SameFees(u, v) /\ v.status = u.status /\ v.since = u.since
    BY <2>1 DEF Session, Same, SameProofs, SameFees
  <2>4. Advanced(s, v, x)
    BY <2>2, <2>3 DEF Advanced, Same, SameProofs, SameFees, FeesOK, Over, Proofs, Terminal
  <2>. QED BY <2>1, <2>4
<1>6. Advanced(s, [u EXCEPT !.rq = 0, !.paid = @ + 1, !.moves = @ \cup {x.run}], x)
  <2>1. PICK v : v = [u EXCEPT !.rq = zero, !.paid = more, !.moves = moves] OBVIOUS
  <2>2. v \in Session BY <2>1 DEF Session
  <2>3. /\ Same(u, v) /\ SameFees(u, v) /\ v.status = u.status /\ v.since = u.since
        /\ v.moves = moves /\ v.entryRun = u.entryRun /\ v.exitRun = u.exitRun
    BY <2>1 DEF Session, Same, SameFees
  <2>4. \A r \in Proofs(v) : r \in Proofs(u) \/ (r = x.run /\ r # 0)
    BY <1>3, <2>3 DEF Proofs
  <2>5. Advanced(s, v, x)
    BY <2>2, <2>3, <2>4 DEF Advanced, Same, SameFees, FeesOK, Over, Terminal
  <2>. QED BY <1>1, <1>2, <1>3, <2>1, <2>5
<1>7. Advanced(s, advanceRecenter(u, i, x).s, x)
  BY <1>4, <1>5, <1>6 DEF advanceRecenter
<1>8. advanceRecenter(u, i, x).need \in Needs
  BY DEF advanceRecenter, Needs
<1>. QED BY <1>7, <1>8

\* A held position: the fees of the interval, then the exit or the recenter.
LEMMA HeldAdvanced ==
  ASSUME NEW s \in Session, NEW i \in Int, NEW x \in Sim, FeesOK(s), s.pos,
         s.status \notin Terminal
  PROVE  LET a == AdvanceHeld(s, i, x) IN
         /\ Advanced(s, a.s, x) /\ a.need \in Needs
         /\ s.status = "exit_pending" /\ i <= s.since => a.need = "none"
<1>1. PICK zero \in Int : zero = 0 OBVIOUS
<1>2. PICK run \in Nat : run = x.run BY DEF Sim
<1>3. PICK closed \in Statuses, exiting \in Statuses : closed = "closed" /\ exiting = "exit_pending"
  BY DEF Statuses
<1>4. PICK earned \in Int : earned = s.earned + (i - s.last) BY DEF Session
<1>5. PICK paid \in Int : paid = s.paid + 1 BY DEF Session
<1>6. PICK since \in Int : since = IF s.since = 0 THEN x.at ELSE s.since BY DEF Session, Sim
<1>7. PICK gap \in Reasons : gap = "gap" BY DEF Reasons
<1>8. PICK u : u = [s EXCEPT !.earned = earned, !.last = i] OBVIOUS
<1>9. u \in Session BY <1>8 DEF Session
<1>10. /\ Same(s, u) /\ SameProofs(s, u) /\ u.last = i /\ u.earned = earned /\ u.pos = s.pos
      /\ u.entered = s.entered /\ u.status = s.status /\ u.since = s.since /\ u.paid = s.paid
  BY <1>8 DEF Session, Same, SameProofs
<1>11. FeesOK(u)
  <2>1. s.entered \in Int /\ s.last \in Int /\ s.earned = s.last - s.entered BY DEF Session, FeesOK
  <2>. QED BY <2>1, <1>10, <1>4 DEF FeesOK
<1>12. Advanced(s, u, x)
  BY <1>9, <1>10, <1>11 DEF Advanced, Same, SameProofs, Over, Proofs, Terminal
<1>13. Advanced(s, invalidatePaper(s, "gap"), x)
  <2>1. Advanced(s, s, x) BY SelfAdvanced
  <2>. QED BY <2>1, <1>7, InvalidAdvanced
<1>14. Advanced(s, [u EXCEPT !.status = "closed", !.since = 0, !.rq = 0,
                           !.exitRun = x.run, !.paid = @ + 1], x)
  <2>1. PICK v : v = [u EXCEPT !.status = closed, !.since = zero, !.rq = zero,
                           !.exitRun = run, !.paid = paid] OBVIOUS
  <2>2. v \in Session BY <1>9, <2>1 DEF Session
  <2>3. /\ Same(u, v) /\ SameFees(u, v) /\ v.status = closed
        /\ v.moves = u.moves /\ v.entryRun = u.entryRun /\ v.exitRun = run
    BY <1>9, <2>1 DEF Session, Same, SameFees
  <2>4. \A r \in Proofs(v) : r \in Proofs(u) \/ (r = x.run /\ r # 0)
    BY <1>2, <2>3 DEF Proofs
  <2>5. Advanced(s, v, x)
    BY <1>3, <1>12, <2>2, <2>3, <2>4 DEF Advanced, Same, SameFees, FeesOK, Over, Terminal
  <2>. QED BY <1>1, <1>2, <1>3, <1>5, <1>10, <2>1, <2>5
<1>15. ASSUME s.status = "exit_pending" \/ x.gates
      PROVE  Advanced(s, [u EXCEPT !.status = "exit_pending", !.rq = 0,
                      !.since = IF @ = 0 THEN x.at ELSE @], x)
  <2>1. PICK v : v = [u EXCEPT !.status = exiting, !.rq = zero, !.since = since] OBVIOUS
  <2>2. v \in Session BY <1>9, <2>1 DEF Session
  <2>3. Same(u, v) /\ SameProofs(u, v) /\ SameFees(u, v) /\ v.status = exiting /\ v.since = since
    BY <1>9, <2>1 DEF Session, Same, SameProofs, SameFees
  <2>4. \A k \in Nat \ {0} : Over(s, k) => Over(v, k)
    <3>. SUFFICES ASSUME NEW k \in Nat \ {0}, Over(s, k) PROVE Over(v, k) OBVIOUS
    <3>1. k <= s.since /\ s.since \in Int BY DEF Over, Session
    <3>2. since = s.since BY <3>1, <1>6
    <3>. QED BY <1>3, <1>10, <2>3, <3>1, <3>2 DEF Over, SameFees
  <2>5. Advanced(s, v, x)
    BY <1>3, <1>12, <1>10, <2>2, <2>3, <2>4 DEF Advanced, Same, SameProofs, SameFees, FeesOK, Proofs, Terminal
  <2>. QED BY <1>1, <1>3, <1>6, <1>10, <2>1, <2>5
<1>16. ASSUME s.status # "exit_pending"
      PROVE  Advanced(s, advanceRecenter(u, i, x).s, x) /\ advanceRecenter(u, i, x).need \in Needs
  BY <1>9, <1>10, <1>12, <1>16, RecenterAdvanced
<1>17. PICK a : a = AdvanceHeld(s, i, x) OBVIOUS
<1>18. Advanced(s, a.s, x)
  BY <1>8, <1>4, <1>12, <1>13, <1>14, <1>15, <1>16, <1>17 DEF AdvanceHeld
<1>19. a.need \in Needs
  BY <1>8, <1>4, <1>16, <1>17 DEF AdvanceHeld, Needs
<1>20. s.status = "exit_pending" /\ i <= s.since => a.need = "none"
  <2>1. s.since \in Int BY DEF Session
  <2>. QED BY <2>1, <1>17 DEF AdvanceHeld
<1>. QED BY <1>17, <1>18, <1>19, <1>20
\* One source, whatever it decides: an exit is never asked again at a source
\* the exit already covers.
LEMMA PaperAdvanced ==
  ASSUME NEW s \in Session, NEW i \in Int, NEW x \in Sim, FeesOK(s),
         s.status \notin Terminal, s.status = "exit_pending" => s.pos
  PROVE  LET a == advancePaper(s, i, x) IN
         /\ Advanced(s, a.s, x) /\ a.need \in Needs
         /\ s.status = "exit_pending" /\ i <= s.since => a.need = "none"
<1>1. PICK a : a = advancePaper(s, i, x) OBVIOUS
<1>2. CASE a = [s |-> invalidatePaper(s, "stale"), need |-> "none"]
  <2>1. Advanced(s, s, x) BY SelfAdvanced
  <2>2. PICK stale \in Reasons : stale = "stale" BY DEF Reasons
  <2>3. Advanced(s, invalidatePaper(s, "stale"), x) BY <2>1, <2>2, InvalidAdvanced
  <2>. QED BY <1>1, <1>2, <2>3 DEF Needs
<1>3. CASE ~s.pos /\ a = [s |-> [s EXCEPT !.status = "waiting", !.last = i], need |-> "none"]
  <2>1. PICK waiting \in Statuses : waiting = "waiting" BY DEF Statuses
  <2>2. PICK v : v = [s EXCEPT !.status = waiting, !.last = i] OBVIOUS
  <2>3. v \in Session BY <2>2 DEF Session
  <2>4. /\ Same(s, v) /\ SameProofs(s, v) /\ v.pos = s.pos /\ v.earned = s.earned
        /\ v.status = waiting
    BY <2>2 DEF Session, Same, SameProofs
  <2>5. Advanced(s, v, x)
    BY <1>3, <2>1, <2>3, <2>4 DEF Advanced, Same, SameProofs, FeesOK, Over, Proofs, Terminal
  <2>. QED BY <1>1, <1>3, <2>1, <2>2, <2>5 DEF Needs
<1>4. CASE s.pos /\ a = AdvanceHeld(s, i, x)
  BY <1>1, <1>4, HeldAdvanced
<1>5. CASE ~s.pos /\ a = AdvanceFlat([s EXCEPT !.last = i], i, x)
  <2>1. Advanced(s, a.s, x) BY <1>5, FlatAdvanced
  <2>2. a.need \in Needs BY <1>5 DEF AdvanceFlat, Needs
  <2>. QED BY <1>1, <1>5, <2>1, <2>2
<1>6. \/ a = [s |-> invalidatePaper(s, "stale"), need |-> "none"]
      \/ ~s.pos /\ a = [s |-> [s EXCEPT !.status = "waiting", !.last = i], need |-> "none"]
      \/ s.pos /\ a = AdvanceHeld(s, i, x)
      \/ ~s.pos /\ a = AdvanceFlat([s EXCEPT !.last = i], i, x)
  BY <1>1 DEF advancePaper
<1>. QED BY <1>2, <1>3, <1>4, <1>5, <1>6

\* A row in which nothing that binds the books changed.
Framed(s, t) == Same(s, t) /\ SameProofs(s, t) /\ SameFees(s, t) /\ t.status = s.status /\ t.since = s.since

\* An advance keeps what the invariant says of a row that may still move.
LEMMA AdvancedKept ==
  ASSUME NEW s, NEW t, NEW x, NEW c \in Nat, Advanced(s, t, x),
         s.stopped => s.status \in Terminal \cup {"exit_pending"}, s.status \notin Terminal
  PROVE  RowKept(s, t, c)
<1>1. \A k \in 1..c : k \in Nat \ {0} OBVIOUS
<1>. QED BY <1>1 DEF Advanced, RowKept, Same

\* So does a write to the holding timers and the pause alone.
LEMMA FramedKept ==
  ASSUME NEW s, NEW t, NEW c \in Nat, Framed(s, t)
  PROVE  RowKept(s, t, c)
BY DEF Framed, Same, SameFees, RowKept, FeesOK, Over

\* And a revocation.
LEMMA InvalidKept ==
  ASSUME NEW s \in Session, NEW c \in Nat, NEW why \in Reasons
  PROVE  RowKept(s, invalidatePaper(s, why), c)
<1>1. PICK t : t = invalidatePaper(s, why) OBVIOUS
<1>2. Same(s, t) /\ SameFees(s, t) /\ t.status = "invalid" BY <1>1, Invalidated
<1>3. RowKept(s, t, c) BY <1>2 DEF Same, SameFees, RowKept, FeesOK, Over, Terminal
<1>. QED BY <1>1, <1>3

\* Observation, decision and the source's mark are kept one after the other.
LEMMA RowKeptTransitive ==
  ASSUME NEW r, NEW s, NEW t, NEW c, RowKept(r, s, c), RowKept(s, t, c)
  PROVE  RowKept(r, t, c)
BY DEF RowKept

\* Marking a source as seen adds it to the row and nothing else.
LEMMA SourceObservedFrame ==
  ASSUME NEW t \in Session, NEW k \in Int, NEW c \in Nat
  PROVE  LET o == SourceObserved(t, k) IN
         /\ o \in Session /\ RowKept(t, o, c) /\ SameProofs(t, o)
         /\ o.build = t.build /\ o.history = t.history /\ k \in o.seen
         /\ o.stopped = t.stopped /\ o.status = t.status
<1>1. PICK seen \in Sources : seen = t.seen \cup {k} BY DEF Session, Sources
<1>2. PICK resume \in BOOLEAN : resume = (t.resume /\ ~(t.last = k /\ t.status # "invalid"))
  BY DEF Session
<1>3. PICK o : o = [t EXCEPT !.seen = seen, !.touched = FALSE, !.resume = resume] OBVIOUS
<1>4. o \in Session BY <1>3 DEF Session
<1>5. /\ o.seen = seen /\ o.parent = t.parent /\ o.build = t.build /\ o.history = t.history
      /\ o.stopped = t.stopped /\ SameProofs(t, o) /\ SameFees(t, o)
      /\ o.status = t.status /\ o.since = t.since
  BY <1>3 DEF Session, SameProofs, SameFees
<1>6. RowKept(t, o, c) BY <1>1, <1>5 DEF SameFees, RowKept, FeesOK, Over
<1>7. o = SourceObserved(t, k) BY <1>1, <1>2, <1>3 DEF SourceObserved
<1>. QED BY <1>1, <1>4, <1>5, <1>6, <1>7

\* The pauses touch neither the ledger nor the status.
LEMMA HoldingFrame ==
  ASSUME NEW s \in Session, NEW f, tape \in Tape
  PROVE  LET h == advanceHolding(s, f) IN h \in Session /\ Framed(s, h)
<1>1. tape.count \in Int BY DEF Tape
<1>2. s.chainSince \in Int /\ s.riskSince \in Int /\ s.exitDue \in BOOLEAN /\ s.resume \in BOOLEAN
  BY DEF Session
<1> DEFINE c == IF f # "chain" THEN 0 ELSE IF s.chainSince = 0 THEN now ELSE s.chainSince
           r == CASE f = "risk" -> IF s.riskSince = 0 THEN now ELSE s.riskSince
                  [] f = "chain" -> s.riskSince
                  [] OTHER -> 0
           expired(t) == t # 0 /\ now - t >= PauseTtl
           e == s.exitDue \/ f = "hard" \/ expired(s.chainSince) \/ expired(s.riskSince)
           p == f = "chain" \/ (f = "risk" /\ ~e)
           q == s.resume \/ p
<1>3. c \in Int /\ r \in Int BY <1>1, <1>2 DEF now
<1>4. e \in BOOLEAN /\ p \in BOOLEAN /\ q \in BOOLEAN BY <1>2
<1>5. PICK cc \in Int, rr \in Int : cc = c /\ rr = r BY <1>3
<1>6. PICK ee \in BOOLEAN, pp \in BOOLEAN, qq \in BOOLEAN : ee = e /\ pp = p /\ qq = q BY <1>4, Zenon
<1>7. advanceHolding(s, f) = [s EXCEPT !.chainSince = c, !.riskSince = r, !.exitDue = e,
                                       !.paused = p, !.resume = q]
  BY DEF advanceHolding
<1> HIDE DEF c, r, e, p, q
<1>8. PICK g : g = [s EXCEPT !.chainSince = cc, !.riskSince = rr] OBVIOUS
<1>9. PICK h1 : h1 = [g EXCEPT !.exitDue = ee] OBVIOUS
<1>10. PICK h2 : h2 = [h1 EXCEPT !.paused = pp] OBVIOUS
<1>11. PICK h : h = [h2 EXCEPT !.resume = qq] OBVIOUS
<1>12. g \in Session BY <1>8 DEF Session
<1>13. h1 \in Session BY <1>9, <1>12 DEF Session
<1>14. h2 \in Session BY <1>10, <1>13 DEF Session
<1>15. h \in Session BY <1>11, <1>14 DEF Session
<1>16. Framed(s, g) BY <1>8 DEF Framed, Same, SameProofs, SameFees, Session
<1>17. Framed(g, h)
  BY <1>9, <1>10, <1>11, <1>12 DEF Framed, Same, SameProofs, SameFees, Session
<1>18. Framed(s, h) BY <1>16, <1>17 DEF Framed, Same, SameProofs, SameFees
<1>19. h = [s EXCEPT !.chainSince = cc, !.riskSince = rr, !.exitDue = ee, !.paused = pp,
                     !.resume = qq]
  BY <1>8, <1>9, <1>10, <1>11
<1>. QED BY <1>7, <1>5, <1>6, <1>15, <1>18, <1>19

\* An observation keeps the row or revokes it.
LEMMA ObservedRow ==
  ASSUME NEW i, NEW v, sessions[i] \in Session, tape \in Tape
  PROVE  LET s == sessions[i]
             o == observeSessionHolding(i, v)
         IN  /\ o \in Session /\ RowKept(s, o, tape.count)
             /\ Same(s, o) /\ SameProofs(s, o) /\ SameFees(s, o)
             /\ o.status = "invalid" \/ (o.status = s.status /\ o.since = s.since)
<1>1. tape.count \in Nat BY DEF Tape
<1>2. PICK s \in Session : s = sessions[i] OBVIOUS
<1>3. PICK h : h = advanceHolding(s, v) OBVIOUS
<1>4. h \in Session /\ Framed(s, h) BY <1>3, HoldingFrame
<1>5. PICK history \in Reasons, gap \in Reasons : history = "history" /\ gap = "gap" BY DEF Reasons
<1>6. PICK o : o = observeSessionHolding(i, v) OBVIOUS
<1>7. o \in {s, h, invalidatePaper(s, history), invalidatePaper(h, gap)}
  BY <1>2, <1>3, <1>5, <1>6 DEF observeSessionHolding
<1>8. CASE o = s
  BY <1>1, <1>2, <1>6, <1>8, FramedKept DEF Framed, Same, SameProofs, SameFees
<1>9. CASE o = h
  BY <1>1, <1>2, <1>4, <1>6, <1>9, FramedKept DEF Framed
<1>10. CASE o = invalidatePaper(s, history)
  BY <1>1, <1>2, <1>5, <1>6, <1>10, Invalidated, InvalidKept
<1>11. CASE o = invalidatePaper(h, gap)
  <2>1. o \in Session /\ Same(h, o) /\ SameProofs(h, o) /\ SameFees(h, o) /\ o.status = "invalid"
    BY <1>4, <1>5, <1>11, Invalidated
  <2>2. RowKept(s, o, tape.count)
    BY <1>1, <1>4, <1>5, <1>11, FramedKept, InvalidKept, RowKeptTransitive
  <2>3. Same(s, o) /\ SameProofs(s, o) /\ SameFees(s, o)
    BY <1>4, <2>1 DEF Framed, Same, SameProofs, SameFees
  <2>. QED BY <1>2, <1>6, <2>1, <2>2, <2>3
<1>. QED BY <1>7, <1>8, <1>9, <1>10, <1>11

\* A set of numbers has a least one.
LEMMA LeastThere ==
  ASSUME NEW T, T \subseteq Nat, T # {}
  PROVE  \E x \in T : \A y \in T : x <= y
<1> DEFINE R == {ss \in Nat \X Nat : ss[1] < ss[2]}
<1>1. IsWellFoundedOn(R, Nat) BY NatLessThanWellFounded DEF OpToRel
<1> HIDE DEF R
<1>2. PICK x \in T : \A y \in T : ~(<<y, x>> \in R) BY <1>1, WFMin, Zenon
<1>3. ASSUME NEW y \in T PROVE x <= y
  <2>1. ~(<<y, x>> \in R) BY <1>2
  <2>2. x \in Nat /\ y \in Nat OBVIOUS
  <2>. QED BY <2>1, <2>2 DEF R
<1>. QED BY <1>3

\* A bounded set of numbers has a greatest one.
LEMMA GreatestThere ==
  ASSUME NEW T, NEW n \in Nat, T \subseteq 0..n, T # {}
  PROVE  \E x \in T : \A y \in T : x >= y
<1> DEFINE U == {n - x : x \in T}
<1>1. U \subseteq Nat OBVIOUS
<1>2. U # {}
  <2>1. PICK x : x \in T OBVIOUS
  <2>2. n - x \in U BY <2>1
  <2>. QED BY <2>2
<1>3. PICK u \in U : \A w \in U : u <= w BY <1>1, <1>2, LeastThere
<1>4. PICK x \in T : u = n - x OBVIOUS
<1>5. ASSUME NEW y \in T PROVE x >= y
  <2>1. n - y \in U OBVIOUS
  <2>2. u <= n - y BY <1>3, <2>1
  <2>. QED BY <1>4, <2>2
<1>. QED BY <1>5

\* The source of a tick is one of the sources there are.
LEMMA SourceThere ==
  ASSUME NEW i, NEW s, tape \in Tape, source(i, s) # 0
  PROVE  source(i, s) \in sources(i, s) /\ source(i, s) \in 1..tape.count
<1>1. PICK c : c = sources(i, s) OBVIOUS
<1>2. c \subseteq 1..tape.count BY <1>1 DEF sources
<1>3. c # {} BY <1>1 DEF source
<1>4. tape.count \in Nat BY DEF Tape
<1>5. c \subseteq Nat /\ c \subseteq 0..tape.count BY <1>2, <1>4
<1>6. Min(c) \in c
  <2>1. \E x \in c : \A y \in c : x <= y BY <1>5, <1>3, LeastThere
  <2>. QED BY <2>1 DEF Min
<1>7. Max(c) \in c
  <2>1. \E x \in c : \A y \in c : x >= y BY <1>5, <1>3, <1>4, GreatestThere
  <2>. QED BY <2>1 DEF Max
<1>8. source(i, s) \in {Min(c), Max(c)} BY <1>1, <1>3 DEF source
<1>. QED BY <1>1, <1>2, <1>6, <1>7, <1>8
-----------------------------------------------------------------------------
(* The steps.                                                              *)

\* A stop, once written, stays.
StopStands == \A i \in 1..Len(sessions) : i \in 1..Len(sessions') /\ (sessions[i].stopped => sessions'[i].stopped)

\* A step that writes one row, and records at most its own simulation.
LEMMA RowStep ==
  ASSUME SessionTypes, Books, NEW n \in 1..Len(sessions), NEW t \in Session,
         sessions' = [sessions EXCEPT ![n] = t], tape' = tape,
         xruns' \in Seq(RunRow), Len(xruns') >= Len(xruns),
         ticker' \in IdleTicker \cup BusyTicker,
         RowKept(sessions[n], t, tape.count),
         \A r \in Proofs(t) : r \in Proofs(sessions[n]) \/ (r \in 1..Len(xruns') /\ xruns'[r].id = n),
         \A r \in 1..Len(xruns) : Built(sessions[n], r, xruns[r].build) => Built(t, r, xruns[r].build),
         \A h \in 1..Len(t.history) : t.history[h].through <= Len(xruns'),
         \A r \in 1..Len(xruns) : RunKept(r),
         \A r \in Len(xruns) + 1..Len(xruns') : RunFresh(r)
  PROVE  SessionTypes' /\ Books' /\ StopStands
<1>1. Len(sessions) \in Nat /\ Len(xruns) \in Nat /\ Len(xruns') \in Nat /\ tape.count \in Nat
  BY DEF SessionTypes, Tape
<1>2. /\ sessions' \in Seq(Session) /\ Len(sessions') = Len(sessions)
      /\ sessions'[n] = t /\ \A i \in 1..Len(sessions) : i # n => sessions'[i] = sessions[i]
  BY DEF SessionTypes
<1>3. SessionTypes' BY <1>1, <1>2 DEF SessionTypes
<1>4. ASSUME NEW i \in 1..Len(sessions) PROVE SessionKept(i)
  <2>1. CASE i = n BY <1>2, <2>1 DEF SessionKept
  <2>2. CASE i # n
    <3>1. sessions'[i] = sessions[i] BY <1>2, <2>2
    <3>2. RowKept(sessions[i], sessions'[i], tape.count) BY <3>1 DEF RowKept
    <3>3. \A h \in 1..Len(sessions[i].history) : sessions[i].history[h].through <= Len(xruns')
      <4>1. ASSUME NEW h \in 1..Len(sessions[i].history)
            PROVE  sessions[i].history[h].through <= Len(xruns')
        <5>1. sessions[i].history[h].through <= Len(xruns) BY DEF Books, RowsOk, RowOk
        <5>2. sessions[i].history \in Seq(Cut)
          <6>1. sessions[i] \in Session BY DEF SessionTypes
          <6>. QED BY <6>1 DEF Session, Cuts
        <5>3. sessions[i].history[h] \in Cut BY <5>2
        <5>4. sessions[i].history[h].through \in Int BY <5>3 DEF Cut
        <5>. QED BY <1>1, <5>1, <5>4
      <4>. QED BY <4>1
    <3>. QED BY <3>1, <3>2, <3>3 DEF SessionKept
  <2>. QED BY <2>1, <2>2
<1>5. Books'
  <2>1. \A i \in Len(sessions) + 1..Len(sessions') :
             RowOk(sessions'[i], i, Len(xruns')) /\ Proofs(sessions'[i]) = {}
    BY <1>1, <1>2
  <2>2. Len(sessions') >= Len(sessions) /\ tape'.count >= tape.count BY <1>1, <1>2
  <2>. QED BY <1>3, <1>4, <2>1, <2>2, BooksKept
<1>6. StopStands
  BY <1>2, <1>4 DEF StopStands, SessionKept, RowKept
<1>. QED BY <1>3, <1>5, <1>6

\* A step that only writes one row and keeps the row's release.
LEMMA RowOnly ==
  ASSUME SessionTypes, Books, NEW n \in 1..Len(sessions), NEW t \in Session,
         sessions' = [sessions EXCEPT ![n] = t], tape' = tape, xruns' = xruns,
         ticker' \in IdleTicker \cup BusyTicker,
         RowKept(sessions[n], t, tape.count),
         t.build = sessions[n].build, t.history = sessions[n].history,
         \A r \in Proofs(t) : r \in Proofs(sessions[n])
  PROVE  SessionTypes' /\ Books' /\ StopStands
<1>1. xruns' \in Seq(RunRow) /\ Len(xruns') >= Len(xruns) /\ Len(xruns) \in Nat
  BY DEF SessionTypes
<1>2. \A r \in 1..Len(xruns) : Built(sessions[n], r, xruns[r].build) => Built(t, r, xruns[r].build)
  BY DEF Built
<1>3. \A h \in 1..Len(t.history) : t.history[h].through <= Len(xruns')
  BY DEF Books, RowsOk, RowOk
<1>4. \A r \in 1..Len(xruns) : RunKept(r) BY DEF RunKept
<1>5. \A r \in Len(xruns) + 1..Len(xruns') : RunFresh(r) BY <1>1
<1>. QED BY <1>1, <1>2, <1>3, <1>4, <1>5, RowStep

\* Collectors, the chain, releases and failed ticks touch no row.
LEMMA OutsideStep ==
  ASSUME SessionTypes, Books, TickOk, UNCHANGED <<sessions, xruns>>,
         tape' \in Tape, tape'.count >= tape.count,
         ticker' = ticker \/ ticker' \in IdleTicker
  PROVE  SessionTypes' /\ Books' /\ TickOk' /\ StopStands
<1>1. Len(sessions) \in Nat /\ Len(xruns) \in Nat /\ tape.count \in Nat /\ tape'.count \in Nat
  BY DEF SessionTypes, Tape
<1>2. SessionTypes' BY DEF SessionTypes
<1>3. ASSUME NEW i \in 1..Len(sessions) PROVE SessionKept(i)
  BY DEF SessionKept, RowKept, Books, RowsOk, RowOk
<1>4. Books'
  <2>1. \A r \in 1..Len(xruns) : RunKept(r) BY DEF RunKept
  <2>2. \A r \in Len(xruns) + 1..Len(xruns') : RunFresh(r) BY <1>1
  <2>3. \A i \in Len(sessions) + 1..Len(sessions') :
             RowOk(sessions'[i], i, Len(xruns')) /\ Proofs(sessions'[i]) = {}
    BY <1>1
  <2>. QED BY <1>1, <1>2, <1>3, <2>1, <2>2, <2>3, BooksKept
<1>5. TickOk'
  <2>1. CASE ticker' = ticker
    <3>1. SUFFICES ASSUME ticker.pc = "network" PROVE TickOk' BY <2>1 DEF TickOk
    <3>2. ticker.cp \in 1..tape'.count BY <1>1, <3>1 DEF TickOk
    <3>. QED BY <2>1, <3>1, <3>2 DEF TickOk
  <2>2. CASE ticker' \in IdleTicker BY <2>2 DEF TickOk, IdleTicker
  <2>. QED BY <2>1, <2>2
<1>. QED BY <1>2, <1>4, <1>5 DEF StopStands

\* Collected, covered, disowned and revalidated sources leave every row alone.
LEMMA CollectKeeps ==
  ASSUME SessionTypes, Books, TickOk, Collect \/ Cover \/ Disown \/ Revalidate
  PROVE  SessionTypes' /\ Books' /\ TickOk' /\ StopStands
<1>1. tape.count \in Nat /\ tape.covered \in BOOLEAN /\ tape.bad \in SUBSET Int /\ tape.reorgs \in Int
  BY DEF SessionTypes, Tape
<1>2. UNCHANGED <<sessions, xruns, ticker>> BY DEF Collect, Cover, Disown, Revalidate
<1>3. CASE Collect
  <2>1. PICK m \in Nat : m = tape.count + 1 BY <1>1
  <2>2. tape' = [tape EXCEPT !.count = m, !.covered = FALSE] BY <1>3, <2>1 DEF Collect
  <2>3. tape' \in Tape /\ tape'.count = m BY <2>2 DEF SessionTypes, Tape
  <2>. QED BY <1>1, <1>2, <2>1, <2>3, OutsideStep
<1>4. CASE Cover
  <2>1. tape' = [tape EXCEPT !.covered = ~@] BY <1>4 DEF Cover
  <2>2. tape' \in Tape /\ tape'.count = tape.count BY <2>1 DEF SessionTypes, Tape
  <2>. QED BY <1>1, <1>2, <2>2, OutsideStep
<1>5. CASE Disown
  <2>1. PICK k \in 1..tape.count :
           tape' = [tape EXCEPT !.bad = @ \cup k..tape.count, !.reorgs = @ + 1]
    BY <1>5 DEF Disown
  <2>2. k..tape.count \in SUBSET Int BY <1>1
  <2>3. PICK bad \in SUBSET Int : bad = tape.bad \cup k..tape.count BY <1>1, <2>2
  <2>4. PICK reorgs \in Int : reorgs = tape.reorgs + 1 BY <1>1
  <2>5. tape' = [tape EXCEPT !.bad = bad, !.reorgs = reorgs] BY <2>1, <2>3, <2>4
  <2>6. tape' \in Tape /\ tape'.count = tape.count BY <2>5 DEF SessionTypes, Tape
  <2>. QED BY <1>1, <1>2, <2>6, OutsideStep
<1>6. CASE Revalidate
  <2>1. PICK none \in SUBSET Int : none = {} OBVIOUS
  <2>2. tape' = [tape EXCEPT !.bad = none] BY <1>6, <2>1 DEF Revalidate
  <2>3. tape' \in Tape /\ tape'.count = tape.count BY <2>2 DEF SessionTypes, Tape
  <2>. QED BY <1>1, <1>2, <2>3, OutsideStep
<1>. QED BY <1>3, <1>4, <1>5, <1>6

\* A released build, or a simulation that fails, leaves the rows alone.
LEMMA ReleaseKeeps ==
  ASSUME SessionTypes, Books, TickOk, release \/ tickFails
  PROVE  SessionTypes' /\ Books' /\ TickOk' /\ StopStands
<1>1. tape' = tape /\ tape \in Tape /\ tape.count \in Nat BY DEF release, tickFails, SessionTypes, Tape
<1>2. UNCHANGED <<sessions, xruns>> BY DEF release, tickFails
<1>3. ticker.build \in Int BY DEF SessionTypes, IdleTicker, BusyTicker
<1>4. CASE release
  <2>1. ticker \in IdleTicker BY <1>4 DEF release, SessionTypes, BusyTicker
  <2>2. PICK b \in Int : b = ticker.build + 1 BY <1>3
  <2>3. ticker' = [ticker EXCEPT !.build = b] BY <1>4, <2>2 DEF release
  <2>4. ticker' \in IdleTicker BY <2>1, <2>3 DEF IdleTicker
  <2>. QED BY <1>1, <1>2, <2>4, OutsideStep
<1>5. CASE tickFails
  <2>1. ticker' \in IdleTicker BY <1>3, <1>5 DEF tickFails, Rest, IdleTicker
  <2>. QED BY <1>1, <1>2, <2>1, OutsideStep
<1>. QED BY <1>4, <1>5
\* A tick writes one row; a source it takes to the network has no record yet.
LEMMA TickKeeps ==
  ASSUME SessionTypes, Books, TickOk, sessionTick
  PROVE  SessionTypes' /\ Books' /\ TickOk' /\ StopStands
<1>1. PICK i \in Active, v \in Views :
        /\ sessions[i].build = ticker.build
        /\ \E s \in {observeSessionHolding(i, v)} : \E k \in {source(i, s)} : decide(i, v, s, k)
  BY DEF sessionTick
<1>2. tape' = tape /\ xruns' = xruns /\ ticker.pc = "idle" BY DEF sessionTick
<1>3. i \in 1..Len(sessions) /\ sessions[i].status \notin Terminal BY DEF Active
<1>4. PICK t \in Session : t = sessions[i] BY <1>3 DEF SessionTypes
<1>5. PICK s : s = observeSessionHolding(i, v) OBVIOUS
<1>6. PICK k : k = source(i, s) OBVIOUS
<1>7. decide(i, v, s, k) BY <1>1, <1>5, <1>6
<1>8. tape \in Tape /\ tape.count \in Nat /\ ticker \in IdleTicker /\ ticker.build \in Int
  BY <1>2 DEF SessionTypes, Tape, IdleTicker, BusyTicker
<1>9. /\ s \in Session /\ RowKept(t, s, tape.count)
      /\ Same(t, s) /\ SameProofs(t, s) /\ SameFees(t, s)
      /\ s.status = "invalid" \/ (s.status = t.status /\ s.since = t.since)
  BY <1>4, <1>5, <1>8, ObservedRow
<1>10. RowOk(t, i, Len(xruns)) BY <1>3, <1>4 DEF Books, RowsOk
<1>11. FeesOK(s) /\ (s.status = "exit_pending" => s.pos)
       /\ (s.stopped => s.status \in Terminal \cup {"exit_pending"})
  BY <1>9, <1>10 DEF RowOk, RowKept
<1>12. PICK chain \in BOOLEAN, outside \in BOOLEAN, gates \in BOOLEAN :
        /\ chain = (v # "noChain") /\ outside = (v = "outside")
        /\ gates = (v = "gates" \/ ((s.held /\ s.pos) /\ s.exitDue) \/ (~(s.held /\ s.pos) /\ v = "noChain"))
  OBVIOUS
<1>13. PICK x : x = [exec |-> "none", run |-> 0, at |-> now, chain |-> chain, outside |-> outside, gates |-> gates]
  OBVIOUS
<1>14. x \in Sim BY <1>13, <1>8 DEF Sim, Results, Needs, now
<1>15. \/ sessions' = [sessions EXCEPT ![i] = invalidatePaper(t, "history")] /\ ticker' = ticker
       \/ sessions' = [sessions EXCEPT ![i] = invalidatePaper(s, "gap")] /\ ticker' = ticker
       \/ sessions' = [sessions EXCEPT ![i] = s] /\ ticker' = ticker
       \/ /\ s.status # "invalid" /\ k # 0
          /\ \E a \in {advancePaper(s, k, x)} :
                   IF a.need = "none"
                   THEN sessions' = [sessions EXCEPT ![i] = SourceObserved(a.s, k)] /\ ticker' = ticker
                   ELSE /\ sessions' = [sessions EXCEPT ![i] = s]
                        /\ ticker' = [pc |-> "network", build |-> ticker.build, id |-> i, cp |-> k,
                                      need |-> a.need, snap |-> s]
  BY <1>7, <1>4, <1>12, <1>13 DEF decide
<1>16. ASSUME ticker' = ticker PROVE TickOk' /\ ticker' \in IdleTicker \cup BusyTicker
  BY <1>8, <1>2, <1>16 DEF TickOk
<1>17. CASE sessions' = [sessions EXCEPT ![i] = invalidatePaper(t, "history")] /\ ticker' = ticker
  <2>1. PICK why \in Reasons : why = "history" BY DEF Reasons
  <2>2. PICK u : u = invalidatePaper(t, why) OBVIOUS
  <2>3. u \in Session /\ Same(t, u) /\ SameProofs(t, u) /\ RowKept(t, u, tape.count)
    BY <1>8, <2>2, Invalidated, InvalidKept
  <2>4. \A r \in Proofs(u) : r \in Proofs(t) BY <2>3 DEF Proofs, SameProofs
  <2>. QED BY <1>2, <1>3, <1>4, <1>16, <1>17, <2>1, <2>2, <2>3, <2>4, RowOnly DEF Same
<1>18. CASE sessions' = [sessions EXCEPT ![i] = invalidatePaper(s, "gap")] /\ ticker' = ticker
  <2>1. PICK why \in Reasons : why = "gap" BY DEF Reasons
  <2>2. PICK u : u = invalidatePaper(s, why) OBVIOUS
  <2>3. u \in Session /\ Same(s, u) /\ SameProofs(s, u) /\ RowKept(s, u, tape.count)
    BY <1>8, <1>9, <2>2, Invalidated, InvalidKept
  <2>4. RowKept(t, u, tape.count) BY <1>9, <2>3, RowKeptTransitive
  <2>5. \A r \in Proofs(u) : r \in Proofs(t) BY <1>9, <2>3 DEF Proofs, SameProofs
  <2>6. u.build = t.build /\ u.history = t.history BY <1>9, <2>3 DEF Same
  <2>. QED BY <1>2, <1>3, <1>4, <1>16, <1>18, <2>1, <2>2, <2>3, <2>4, <2>5, <2>6, RowOnly
<1>19. ASSUME sessions' = [sessions EXCEPT ![i] = s], ticker' \in IdleTicker \cup BusyTicker
       PROVE  SessionTypes' /\ Books' /\ StopStands
  <2>1. \A r \in Proofs(s) : r \in Proofs(t) BY <1>9 DEF Proofs, SameProofs
  <2>2. s.build = t.build /\ s.history = t.history BY <1>9 DEF Same
  <2>. QED BY <1>2, <1>3, <1>4, <1>9, <1>19, <2>1, <2>2, RowOnly
<1>20. CASE sessions' = [sessions EXCEPT ![i] = s] /\ ticker' = ticker
  BY <1>16, <1>19, <1>20
<1>21. CASE s.status # "invalid" /\ k # 0
  <2>1. s.status \notin Terminal /\ s.status = t.status /\ s.since = t.since
    BY <1>3, <1>4, <1>9, <1>21
  <2>2. k \in sources(i, s) /\ k \in 1..tape.count BY <1>6, <1>8, <1>21, SourceThere
  <2>3. PICK a : a = advancePaper(s, k, x) OBVIOUS
  <2>4. /\ Advanced(s, a.s, x) /\ a.need \in Needs
        /\ s.status = "exit_pending" /\ k <= s.since => a.need = "none"
    BY <1>9, <1>11, <1>14, <1>8, <2>1, <2>2, <2>3, PaperAdvanced
  <2>5. CASE a.need = "none" /\ sessions' = [sessions EXCEPT ![i] = SourceObserved(a.s, k)] /\ ticker' = ticker
    <3>1. PICK b : b = a.s OBVIOUS
    <3>2. b \in Session /\ Same(s, b) BY <3>1, <2>4 DEF Advanced
    <3>3. \A r \in Proofs(b) : r \in Proofs(s) BY <3>1, <2>4, <1>13 DEF Advanced
    <3>4. RowKept(s, b, tape.count) BY <1>8, <1>11, <2>1, <2>4, <3>1, AdvancedKept
    <3>5. PICK o : o = SourceObserved(b, k) OBVIOUS
    <3>6. /\ o \in Session /\ RowKept(b, o, tape.count) /\ SameProofs(b, o)
          /\ o.build = b.build /\ o.history = b.history
      BY <1>8, <2>2, <3>2, <3>5, SourceObservedFrame
    <3>7. RowKept(t, o, tape.count) BY <1>9, <3>4, <3>6, RowKeptTransitive
    <3>8. \A r \in Proofs(o) : r \in Proofs(t)
      <4>1. Proofs(o) = Proofs(b) BY <3>6 DEF Proofs, SameProofs
      <4>2. Proofs(s) = Proofs(t) BY <1>9 DEF Proofs, SameProofs
      <4>. QED BY <3>3, <4>1, <4>2
    <3>9. o.build = t.build /\ o.history = t.history BY <1>9, <3>2, <3>6 DEF Same
    <3>10. sessions' = [sessions EXCEPT ![i] = o] BY <2>5, <3>1, <3>5
    <3>. QED BY <1>2, <1>3, <1>4, <1>16, <2>5, <3>6, <3>7, <3>8, <3>9, <3>10, RowOnly
  <2>6. CASE /\ a.need # "none" /\ sessions' = [sessions EXCEPT ![i] = s]
             /\ ticker' = [pc |-> "network", build |-> ticker.build, id |-> i, cp |-> k,
                           need |-> a.need, snap |-> s]
    <3>1. ticker' \in BusyTicker BY <1>3, <1>8, <1>9, <2>2, <2>4, <2>6 DEF BusyTicker
    <3>2. SessionTypes' /\ Books' /\ StopStands BY <1>19, <2>6, <3>1
    <3>3. sessions'[i] = s /\ Len(sessions') = Len(sessions)
      BY <1>3, <2>6 DEF SessionTypes
    <3>4. ASSUME NEW r \in 1..Len(xruns), xruns[r].id = i, xruns[r].cp = k PROVE FALSE
      <4>1. Spent(t, xruns[r]) BY <1>4, <3>4 DEF Books, RunsOk
      <4>2. k \notin t.seen /\ xruns[r].err # "deferred"
        <5>1. k \notin s.seen /\ k \notin deferred(i) BY <2>2 DEF sources
        <5>2. xruns[r].err # "deferred" BY <3>4, <5>1 DEF deferred
        <5>. QED BY <1>9, <5>1, <5>2 DEF Same
      <4>3. ~Over(t, k) BY <2>1, <2>4, <2>6 DEF Over
      <4>. QED BY <3>4, <4>1, <4>2, <4>3 DEF Spent
    <3>5. /\ ticker'.id = i /\ ticker'.cp = k /\ ticker'.snap = s /\ ticker'.build = ticker.build
      BY <2>6
    <3>6. s.build = ticker.build BY <1>1, <1>4, <1>9 DEF Same
    <3>7. TickOk' BY <1>2, <1>3, <2>1, <2>2, <3>3, <3>4, <3>5, <3>6 DEF TickOk
    <3>. QED BY <3>2, <3>7
  <2>. QED BY <1>15, <1>17, <1>18, <1>20, <2>3, <2>5, <2>6
<1>. QED BY <1>15, <1>17, <1>18, <1>20, <1>21
\* What a settled simulation writes: its record and its session's row.
LEMMA SettledRow ==
  ASSUME SessionTypes, Books, TickOk, ticker.pc = "network",
         NEW n, n = ticker.id, NEW t \in Session, NEW run \in RunRow,
         run.id = n, run.cp = ticker.cp, run.build = ticker.build,
         sessions' = [sessions EXCEPT ![n] = t], xruns' = Append(xruns, run),
         tape' = tape, ticker' = Rest(ticker.build),
         RowKept(sessions[n], t, tape.count),
         t.build = sessions[n].build, t.history = sessions[n].history,
         \A r \in Proofs(t) : r \in Proofs(sessions[n]) \/ r = Len(xruns) + 1,
         Spent(t, run)
  PROVE  SessionTypes' /\ Books' /\ TickOk' /\ StopStands
<1>1. Len(sessions) \in Nat /\ Len(xruns) \in Nat /\ tape.count \in Nat
  BY DEF SessionTypes, Tape
<1>2. /\ n \in 1..Len(sessions) /\ ticker.cp \in 1..tape.count /\ sessions[n].build = ticker.build
      /\ \A r \in 1..Len(xruns) : xruns[r].id # n \/ xruns[r].cp # ticker.cp
  BY DEF TickOk
<1>3. /\ xruns' \in Seq(RunRow) /\ Len(xruns') = Len(xruns) + 1 /\ xruns'[Len(xruns) + 1] = run
      /\ \A r \in 1..Len(xruns) : xruns'[r] = xruns[r]
  <2>1. xruns \in Seq(RunRow) BY DEF SessionTypes
  <2> HIDE DEF RunRow
  <2>. QED BY <2>1
<1>4. ticker' \in IdleTicker
  BY DEF SessionTypes, Rest, IdleTicker, BusyTicker
<1>5. sessions'[n] = t /\ Len(sessions') = Len(sessions) BY <1>2 DEF SessionTypes
<1>6. \A h \in 1..Len(t.history) :
         t.history[h].through <= Len(xruns) /\ t.history[h].through <= Len(xruns')
               /\ Len(xruns) + 1 > t.history[h].through
  <2>1. ASSUME NEW h \in 1..Len(t.history)
        PROVE  t.history[h].through <= Len(xruns) /\ t.history[h].through \in Int
    <3>1. t.history[h].through <= Len(xruns) BY <1>2 DEF Books, RowsOk, RowOk
    <3>2. t.history \in Seq(Cut) BY DEF Session, Cuts
    <3>3. t.history[h] \in Cut BY <3>2
    <3>. QED BY <3>1, <3>3 DEF Cut
  <2>. QED BY <1>1, <1>3, <2>1
<1>7. \A r \in Proofs(t) : r \in Proofs(sessions[n]) \/ (r \in 1..Len(xruns') /\ xruns'[r].id = n)
  BY <1>1, <1>3
<1>8. \A r \in 1..Len(xruns) : Built(sessions[n], r, xruns[r].build) => Built(t, r, xruns[r].build)
  BY DEF Built
<1>9. \A r \in 1..Len(xruns) : RunKept(r) BY <1>3 DEF RunKept
<1>10. RunFresh(Len(xruns) + 1)
  <2>1. Built(t, Len(xruns) + 1, run.build) BY <1>2, <1>6 DEF Built
  <2>. QED BY <1>1, <1>2, <1>3, <1>5, <2>1 DEF RunFresh
<1>11. \A r \in Len(xruns) + 1..Len(xruns') : RunFresh(r) BY <1>1, <1>3, <1>10
<1>12. SessionTypes' /\ Books' /\ StopStands
  <2>1. Len(xruns') >= Len(xruns) /\ ticker' \in IdleTicker \cup BusyTicker BY <1>1, <1>3, <1>4
  <2>2. \A h \in 1..Len(t.history) : t.history[h].through <= Len(xruns') BY <1>6
  <2>. QED BY <1>2, <1>3, <1>7, <1>8, <1>9, <1>11, <2>1, <2>2, RowStep
<1>. QED BY <1>4, <1>12 DEF TickOk, IdleTicker

\* The answer finds the row it left, or a row that was stopped meanwhile.
LEMMA SettleKeeps ==
  ASSUME SessionTypes, Books, TickOk, settle
  PROVE  SessionTypes' /\ Books' /\ TickOk' /\ StopStands
<1>1. ticker.pc = "network" /\ tape' = tape /\ ticker' = Rest(ticker.build) BY DEF settle
<1>2. ticker \in BusyTicker BY <1>1 DEF SessionTypes, IdleTicker
<1>3. PICK i \in Nat, k \in Nat, need \in Needs, s \in Session, build \in Int :
         i = ticker.id /\ k = ticker.cp /\ need = ticker.need /\ s = ticker.snap /\ build = ticker.build
  BY <1>2 DEF BusyTicker
<1>4. PICK exec \in {need, "error"} : record(exec, verdict(exec))
  BY <1>3 DEF settle, execution
<1>5. PICK err : err = verdict(exec) /\ record(exec, err)
  BY <1>4
<1>6. \/ err = "changed" /\ changed(i)
      \/ err \in {"source", "deferred", "none", "error"} /\ ~changed(i)
  BY <1>3, <1>5 DEF verdict
<1>7. PICK outside : outside = (need \in {"recenter_quote", "recenter"})
  OBVIOUS
<1>8. outside \in BOOLEAN BY <1>7
<1>9. PICK timely \in BOOLEAN : timely = (exec # "error" /\ now - k <= MaxSourceAge)
  BY Zenon
<1>10. PICK x : x = [exec |-> exec, run |-> Len(xruns) + 1, at |-> now,
                    chain |-> TRUE, gates |-> FALSE, outside |-> outside]
  OBVIOUS
<1>11. PICK run : run = Run(i, k, Class(need), err, build, timely) OBVIOUS
<1>12. xruns' = Append(xruns, run) BY <1>3, <1>5, <1>9, <1>11 DEF record
<1>13. /\ err = "changed" => sessions' = sessions
       /\ err = "source" => sessions' = [sessions EXCEPT ![i] = invalidatePaper(s, "source")]
       /\ err = "deferred" => sessions' = [sessions EXCEPT ![i] = s]
       /\ err \in {"none", "error"} =>
             sessions' = [sessions EXCEPT ![i] = SourceObserved(advancePaper(s, k, x).s, k)]
  BY <1>7, <1>3, <1>5, <1>9, <1>10 DEF record, deferSource
<1>14. /\ tape.count \in Nat /\ Len(xruns) \in Nat /\ x \in Sim
  <2>1. tape.count \in Nat /\ Len(xruns) \in Nat BY DEF SessionTypes, Tape
  <2>. QED BY <1>5, <1>10, <1>8, <2>1 DEF Sim, Results, now
<1>15. run \in RunRow /\ run.id = i /\ run.cp = k /\ run.build = build /\ run.err = err
  <2>1. Class(need) \in Needs BY DEF Class, Needs
  <2>2. err \in Verdicts BY <1>6 DEF Verdicts
  <2>. QED BY <1>11, <2>1, <2>2 DEF Run, RunRow
<1>16. i \in 1..Len(sessions) /\ sessions[i] \in Session BY <1>1, <1>3 DEF TickOk, SessionTypes
<1>17. k \in Int OBVIOUS
<1>18. RowOk(sessions[i], i, Len(xruns)) BY <1>16 DEF Books, RowsOk
<1>19. CASE err = "changed"
  <2>1. Over(sessions[i], k) BY <1>1, <1>3, <1>6, <1>19 DEF TickOk, changed
  <2>2. Spent(sessions[i], run) BY <1>15, <2>1 DEF Spent
  <2>3. sessions' = [sessions EXCEPT ![i] = sessions[i]] BY <1>13, <1>16, <1>19 DEF SessionTypes
  <2>4. RowKept(sessions[i], sessions[i], tape.count) BY DEF RowKept
  <2>. QED BY <1>1, <1>3, <1>12, <1>15, <1>16, <2>2, <2>3, <2>4, SettledRow
<1>20. CASE err # "changed"
  <2>1. sessions[i] = s /\ s.status \notin Terminal
    BY <1>1, <1>3, <1>6, <1>20 DEF changed, TickOk
  <2>2. CASE err = "source"
    <3>1. PICK why \in Reasons : why = "source" BY DEF Reasons
    <3>2. PICK t : t = invalidatePaper(s, why) OBVIOUS
    <3>3. /\ t \in Session /\ Same(s, t) /\ SameProofs(s, t) /\ RowKept(s, t, tape.count)
          /\ t.status = "invalid"
      BY <1>14, <3>2, Invalidated, InvalidKept
    <3>4. \A r \in Proofs(t) : r \in Proofs(s) BY <3>3 DEF Proofs, SameProofs
    <3>5. t.build = s.build /\ t.history = s.history BY <3>3 DEF Same
    <3>6. Spent(t, run) BY <3>3 DEF Spent, Over, Terminal
    <3>7. sessions' = [sessions EXCEPT ![i] = t] BY <1>13, <2>2, <3>1, <3>2
    <3>. QED BY <1>1, <1>3, <1>12, <1>15, <2>1, <3>3, <3>4, <3>5, <3>6, <3>7, SettledRow
  <2>3. CASE err = "deferred"
    <3>1. Spent(s, run) BY <1>15, <2>3 DEF Spent
    <3>2. sessions' = [sessions EXCEPT ![i] = s] BY <1>13, <2>3
    <3>3. RowKept(s, s, tape.count) BY DEF RowKept
    <3>. QED BY <1>1, <1>3, <1>12, <1>15, <2>1, <3>1, <3>2, <3>3, SettledRow
  <2>4. CASE err \in {"none", "error"}
    <3>1. PICK a : a = advancePaper(s, k, x).s OBVIOUS
    <3>2. Advanced(s, a, x)
      <4>1. FeesOK(s) /\ (s.status = "exit_pending" => s.pos) BY <1>18, <2>1 DEF RowOk
      <4>. QED BY <1>14, <1>17, <2>1, <3>1, <4>1, PaperAdvanced
    <3>3. a \in Session /\ a.build = s.build /\ a.history = s.history BY <3>2 DEF Advanced, Same
    <3>4. RowKept(s, a, tape.count) BY <1>14, <1>18, <2>1, <3>2, AdvancedKept DEF RowOk
    <3>5. PICK o : o = SourceObserved(a, k) OBVIOUS
    <3>6. /\ o \in Session /\ RowKept(a, o, tape.count) /\ SameProofs(a, o)
          /\ o.build = a.build /\ o.history = a.history /\ k \in o.seen
      BY <1>14, <1>17, <3>3, <3>5, SourceObservedFrame
    <3>7. RowKept(s, o, tape.count) BY <3>4, <3>6, RowKeptTransitive
    <3>8. \A r \in Proofs(o) : r \in Proofs(s) \/ r = Len(xruns) + 1
      <4>1. Proofs(o) = Proofs(a) BY <3>6 DEF Proofs, SameProofs
      <4>. QED BY <1>10, <3>2, <4>1 DEF Advanced
    <3>9. Spent(o, run) BY <1>15, <3>6 DEF Spent
    <3>10. sessions' = [sessions EXCEPT ![i] = o] BY <1>13, <2>4, <3>1, <3>5
    <3>. QED
      BY <1>1, <1>3, <1>12, <1>15, <2>1, <3>3, <3>6, <3>7, <3>8, <3>9, <3>10, SettledRow
  <2>. QED BY <1>6, <1>20, <2>2, <2>3, <2>4
<1>. QED BY <1>19, <1>20
\* An operator's stop waives an entry or makes the position leave.
LEMMA StopKeeps ==
  ASSUME SessionTypes, Books, TickOk, stop
  PROVE  SessionTypes' /\ Books' /\ TickOk' /\ StopStands
<1>1. PICK n \in Nat : n = Len(sessions) /\ n \in 1..Len(sessions) BY DEF SessionTypes
<1>2. PICK s \in Session : s = sessions[n] BY <1>1 DEF SessionTypes
<1>3. RowOk(s, n, Len(xruns)) BY <1>1, <1>2 DEF Books, RowsOk
<1>4. tape.count \in Nat BY DEF SessionTypes, Tape
<1>5. PICK closed \in Statuses, exiting \in Statuses : closed = "closed" /\ exiting = "exit_pending"
  BY DEF Statuses
<1>6. PICK status \in Statuses : status = IF s.pos THEN exiting ELSE closed OBVIOUS
<1>7. PICK since \in Int : since = IF s.pos THEN now ELSE 0 BY <1>4 DEF now
<1>8. PICK u : u = [s EXCEPT !.stopped = TRUE] OBVIOUS
<1>9. PICK w : w = [u EXCEPT !.touched = TRUE, !.status = status, !.since = since] OBVIOUS
<1>10. u \in Session BY <1>8 DEF Session
<1>11. w \in Session BY <1>9, <1>10 DEF Session
<1>12. /\ u.parent = s.parent /\ u.build = s.build /\ u.history = s.history /\ u.seen = s.seen
       /\ SameProofs(s, u) /\ SameFees(s, u) /\ u.status = s.status /\ u.since = s.since /\ u.stopped
  BY <1>8 DEF Session, SameProofs, SameFees
<1>13. /\ w.parent = s.parent /\ w.build = s.build /\ w.history = s.history /\ w.seen = s.seen
       /\ SameProofs(s, w) /\ SameFees(s, w) /\ w.status = status /\ w.since = since /\ w.stopped
  BY <1>9, <1>10, <1>12 DEF Session, SameProofs, SameFees
<1>14. PICK t : t = IF s.status \in Terminal THEN u ELSE w OBVIOUS
<1>15. sessions' = [sessions EXCEPT ![n] = t] /\ UNCHANGED <<tape, xruns, ticker>>
  <2>1. [s EXCEPT !.stopped = TRUE, !.touched = TRUE, !.status = IF s.pos THEN "exit_pending" ELSE "closed",
                  !.since = IF s.pos THEN now ELSE 0] = w
    BY <1>5, <1>6, <1>7, <1>8, <1>9
  <2>. QED BY <1>1, <1>2, <1>8, <1>14, <2>1 DEF stop
<1>16. /\ t \in Session /\ t.parent = s.parent /\ t.build = s.build /\ t.history = s.history
       /\ t.seen = s.seen /\ SameProofs(s, t) /\ SameFees(s, t) /\ t.stopped
       /\ s.status \in Terminal => t.status = s.status
       /\ s.status \notin Terminal => t.status = status /\ t.since = since
  BY <1>10, <1>11, <1>12, <1>13, <1>14
<1>17. \A k \in 1..tape.count : s.status \notin Terminal \/ Over(s, k) => Over(t, k)
  <2>. SUFFICES ASSUME NEW k \in 1..tape.count, s.status \notin Terminal \/ Over(s, k) PROVE Over(t, k)
    OBVIOUS
  <2>1. CASE s.status \in Terminal BY <1>16, <2>1 DEF Over
  <2>2. CASE s.status \notin Terminal /\ s.pos
    BY <1>4, <1>5, <1>6, <1>7, <1>16, <2>2 DEF Over, SameFees, now
  <2>3. CASE s.status \notin Terminal /\ ~s.pos
    BY <1>5, <1>6, <1>16, <2>3 DEF Over, Terminal
  <2>4. s.pos \in BOOLEAN BY DEF Session
  <2>. QED BY <2>1, <2>2, <2>3, <2>4
<1>18. RowKept(s, t, tape.count)
  <2>1. FeesOK(s) => FeesOK(t) BY <1>16 DEF FeesOK, SameFees
  <2>2. t.status = "exit_pending" => t.pos
    BY <1>3, <1>5, <1>6, <1>16 DEF RowOk, SameFees, Terminal
  <2>3. t.status \in Terminal \cup {"exit_pending"} BY <1>5, <1>6, <1>16 DEF Terminal
  <2>. QED BY <1>16, <1>17, <2>1, <2>2, <2>3 DEF RowKept
<1>19. SessionTypes' /\ Books' /\ StopStands
  <2>1. \A r \in Proofs(t) : r \in Proofs(s) BY <1>16 DEF Proofs, SameProofs
  <2>2. ticker' \in IdleTicker \cup BusyTicker BY <1>15 DEF SessionTypes
  <2>. QED BY <1>1, <1>2, <1>15, <1>16, <1>18, <2>1, <2>2, RowOnly
<1>20. TickOk'
  <2>1. SUFFICES ASSUME ticker.pc = "network" PROVE TickOk' BY <1>15 DEF TickOk
  <2>2. /\ sessions'[n] = t /\ Len(sessions') = Len(sessions)
        /\ \A i \in 1..Len(sessions) : i # n => sessions'[i] = sessions[i]
    BY <1>1, <1>15 DEF SessionTypes
  <2>3. CASE ticker.id = n
    <3>1. ticker.cp \in 1..tape.count /\ (s = ticker.snap \/ Over(s, ticker.cp))
          /\ ticker.snap.status \notin Terminal
      BY <1>2, <2>1, <2>3 DEF TickOk
    <3>2. Over(t, ticker.cp) BY <1>17, <3>1
    <3>. QED BY <1>1, <1>2, <1>15, <1>16, <2>1, <2>2, <2>3, <3>2 DEF TickOk
  <2>4. CASE ticker.id # n BY <1>15, <2>1, <2>2, <2>4 DEF TickOk
  <2>. QED BY <2>3, <2>4
<1>. QED BY <1>19, <1>20

\* A new session follows the newest one and rests on no record.
LEMMA FreshSession ==
  ASSUME NEW p \in Nat, NEW b \in Int, NEW h \in BOOLEAN, NEW build \in Int, tape \in Tape,
         NEW s, s = insertSession(p, b, h, build)
  PROVE  /\ s \in Session /\ s.parent = p /\ ~s.pos /\ s.earned = 0 /\ s.status = "waiting"
         /\ ~s.stopped /\ s.history = <<>> /\ Proofs(s) = {}
<1>1. PICK moves, seen, cuts : moves = {} /\ seen = {} /\ cuts = <<>> OBVIOUS
<1>2. moves \in RunSet BY <1>1 DEF RunSet
<1>3. seen \in Sources BY <1>1 DEF Sources
<1>4. cuts \in Cuts BY <1>1 DEF Cuts
<1>5. PICK status \in Statuses, was \in Statuses, why \in Reasons :
        status = "waiting" /\ was = "none" /\ why = "none"
  BY DEF Statuses, Reasons
<1>6. tape.count \in Int BY DEF Tape
<1>7. PICK born \in Int : born = now BY <1>6 DEF now
<1>8. PICK r : r =
    [status |-> status, why |-> why, was |-> was, pos |-> FALSE, last |-> 0,
     since |-> 0, intent |-> 0, rq |-> 0, entered |-> 0, earned |-> 0, paid |-> 0,
     stopped |-> FALSE, touched |-> FALSE, parent |-> p, budget |-> b, born |-> born,
     entryRun |-> 0, exitRun |-> 0, moves |-> moves, build |-> build, history |-> cuts,
     seen |-> seen, held |-> h, chainSince |-> 0, riskSince |-> 0, exitDue |-> FALSE,
     paused |-> FALSE, resume |-> FALSE]
  OBVIOUS
<1>9. r = s BY <1>1, <1>5, <1>7, <1>8 DEF insertSession
<1>10. r \in Session BY <1>2, <1>3, <1>4, <1>8 DEF Session
<1>11. /\ r.parent = p /\ ~r.pos /\ r.earned = 0 /\ r.status = status /\ ~r.stopped
      /\ r.history = cuts /\ r.moves = moves /\ r.entryRun = 0 /\ r.exitRun = 0
  BY <1>8
<1>12. Proofs(r) = {} BY <1>1, <1>11 DEF Proofs
<1>. QED BY <1>1, <1>5, <1>9, <1>10, <1>11, <1>12

\* A new session is numbered after the newest and rests on no record.
LEMMA FirstSession ==
  ASSUME SessionTypes, Books, NEW n \in Nat, n = Len(sessions), NEW b \in Int, NEW h \in BOOLEAN,
         ticker \in IdleTicker, NEW build \in Int, build = ticker.build,
         sessions' = Append(sessions, insertSession(n, b, h, build)),
         UNCHANGED <<tape, xruns, ticker>>
  PROVE  SessionTypes' /\ Books' /\ TickOk' /\ StopStands
<1>1. /\ Len(sessions) \in Nat /\ Len(sessions) > 0 /\ Len(xruns) \in Nat /\ tape.count \in Nat
      /\ tape \in Tape /\ ticker.build \in Int
  BY DEF SessionTypes, Tape, IdleTicker
<1>2. PICK t : t = insertSession(n, b, h, build) OBVIOUS
<1>3. tape \in Tape BY <1>1
<1>4. /\ t \in Session /\ t.parent = n /\ ~t.pos /\ t.earned = 0 /\ t.status = "waiting"
      /\ ~t.stopped /\ t.history = <<>> /\ Proofs(t) = {}
  BY <1>3, <1>2, FreshSession
<1>5. /\ sessions' \in Seq(Session) /\ Len(sessions') = Len(sessions) + 1
      /\ sessions'[Len(sessions) + 1] = t
      /\ \A i \in 1..Len(sessions) : sessions'[i] = sessions[i]
  <2>1. sessions \in Seq(Session) BY DEF SessionTypes
  <2>. QED BY <1>2, <1>4, <2>1
<1>6. SessionTypes' BY <1>1, <1>5 DEF SessionTypes
<1>7. ASSUME NEW i \in 1..Len(sessions) PROVE SessionKept(i)
  <2>1. sessions'[i] = sessions[i] BY <1>5
  <2>2. RowKept(sessions[i], sessions'[i], tape.count) BY <2>1 DEF RowKept
  <2>. QED BY <2>1, <2>2 DEF SessionKept, Books, RowsOk, RowOk
<1>8. RowOk(t, Len(sessions) + 1, Len(xruns'))
  <2>1. t.parent = Len(sessions) + 1 - 1 BY <1>1, <1>4
  <2>. QED BY <1>4, <2>1 DEF RowOk, FeesOK
<1>9. Books'
  <2>1. \A i \in Len(sessions) + 1..Len(sessions') :
             RowOk(sessions'[i], i, Len(xruns')) /\ Proofs(sessions'[i]) = {}
    BY <1>1, <1>4, <1>5, <1>8
  <2>2. \A r \in 1..Len(xruns) : RunKept(r) BY DEF RunKept
  <2>3. \A r \in Len(xruns) + 1..Len(xruns') : RunFresh(r) BY <1>1
  <2>. QED BY <1>1, <1>5, <1>6, <1>7, <2>1, <2>2, <2>3, BooksKept
<1>10. StopStands BY <1>1, <1>5 DEF StopStands
<1>11. TickOk' BY DEF TickOk, IdleTicker
<1>. QED BY <1>6, <1>9, <1>10, <1>11

\* A session's closing cash is a number.
LEMMA CashTyped ==
  ASSUME NEW s \in Session
  PROVE  closedPaperCash(s) \in Int
BY DEF closedPaperCash, Session

\* An operator's continuation.
LEMMA StartKeeps ==
  ASSUME SessionTypes, Books, TickOk, startSession
  PROVE  SessionTypes' /\ Books' /\ TickOk' /\ StopStands
<1>1. PICK after \in 1..Len(sessions) :
        /\ ticker.pc = "idle" /\ after = Len(sessions)
        /\ sessions' = Append(sessions, insertSession(after, closedPaperCash(sessions[after]),
                                                      sessions[1].held, ticker.build))
        /\ UNCHANGED <<tape, xruns, ticker>>
  BY DEF startSession, latestPredecessor
<1>2. sessions[after] \in Session /\ sessions[1] \in Session BY DEF SessionTypes
<1>3. closedPaperCash(sessions[after]) \in Int BY <1>2, CashTyped
<1>4. sessions[1].held \in BOOLEAN BY <1>2 DEF Session
<1>5. ticker \in IdleTicker BY <1>1 DEF SessionTypes, BusyTicker
<1>6. PICK n \in Nat, build \in Int : n = after /\ build = ticker.build
  BY <1>5 DEF IdleTicker, SessionTypes
<1>7. PICK cash \in Int : cash = closedPaperCash(sessions[after]) BY <1>3
<1>8. PICK h \in BOOLEAN : h = sessions[1].held BY <1>4
<1>9. sessions' = Append(sessions, insertSession(n, cash, h, build)) BY <1>1, <1>6, <1>7, <1>8
<1>. QED BY <1>1, <1>5, <1>6, <1>9, FirstSession

\* Automatic reentry, or its refusal.
LEMMA ReentryKeeps ==
  ASSUME SessionTypes, Books, TickOk, maybeReenter
  PROVE  SessionTypes' /\ Books' /\ TickOk' /\ StopStands
<1>1. PICK n \in Nat : n = Len(sessions) /\ n \in 1..Len(sessions) BY DEF SessionTypes
<1>2. PICK s \in Session : s = sessions[n] BY <1>1 DEF SessionTypes
<1>3. /\ ticker.pc = "idle" /\ s.status = "closed" /\ s.build = ticker.build
      /\ UNCHANGED <<tape, xruns, ticker>>
  BY <1>1, <1>2 DEF maybeReenter
<1>4. ticker \in IdleTicker BY <1>3 DEF SessionTypes, BusyTicker
<1>5. \/ sessions' = Append(sessions, insertSession(n, closedPaperCash(s), s.held, ticker.build))
      \/ sessions' = [sessions EXCEPT ![n].stopped = TRUE]
  BY <1>1, <1>2 DEF maybeReenter
<1>6. CASE sessions' = Append(sessions, insertSession(n, closedPaperCash(s), s.held, ticker.build))
  <2>1. closedPaperCash(s) \in Int BY CashTyped
  <2>2. s.held \in BOOLEAN BY DEF Session
  <2>3. PICK build \in Int : build = ticker.build BY <1>4 DEF IdleTicker
  <2>4. PICK cash \in Int : cash = closedPaperCash(s) BY <2>1
  <2>5. PICK h \in BOOLEAN : h = s.held BY <2>2
  <2>6. sessions' = Append(sessions, insertSession(n, cash, h, build)) BY <1>6, <2>3, <2>4, <2>5
  <2>. QED BY <1>1, <1>3, <1>4, <2>3, <2>6, FirstSession
<1>7. CASE sessions' = [sessions EXCEPT ![n].stopped = TRUE]
  <2>1. PICK t : t = [s EXCEPT !.stopped = TRUE] OBVIOUS
  <2>2. t \in Session BY <2>1 DEF Session
  <2>3. /\ t.parent = s.parent /\ t.build = s.build /\ t.history = s.history /\ t.seen = s.seen
        /\ SameProofs(s, t) /\ SameFees(s, t) /\ t.status = s.status /\ t.stopped
    BY <2>1 DEF Session, SameProofs, SameFees
  <2>4. RowKept(s, t, tape.count)
    BY <1>3, <2>3 DEF RowKept, FeesOK, Over, SameFees, Terminal
  <2>5. \A r \in Proofs(t) : r \in Proofs(s) BY <2>3 DEF Proofs, SameProofs
  <2>6. sessions' = [sessions EXCEPT ![n] = t] BY <1>2, <1>7, <2>1
  <2>7. SessionTypes' /\ Books' /\ StopStands
    BY <1>1, <1>2, <1>3, <1>4, <2>2, <2>3, <2>4, <2>5, <2>6, RowOnly
  <2>8. TickOk' BY <1>3 DEF TickOk
  <2>. QED BY <2>7, <2>8
<1>. QED BY <1>5, <1>6, <1>7
\* The records made so far stay with the build that is left.
LEMMA BuiltUpgraded ==
  ASSUME NEW s \in Session, NEW t \in Session, NEW total \in Nat, NEW to,
         t.build = to, t.history = Append(s.history, [from |-> s.build, through |-> total])
  PROVE  /\ \A r \in 1..total : \A b : Built(s, r, b) => Built(t, r, b)
         /\ (\A h \in 1..Len(s.history) : s.history[h].through <= total) =>
               \A h \in 1..Len(t.history) : t.history[h].through <= total
<1>1. s.history \in Seq(Cut) /\ s.build \in Int BY DEF Session, Cuts
<1>2. PICK c : c = [from |-> s.build, through |-> total] OBVIOUS
<1>3. c \in Cut /\ c.from = s.build /\ c.through = total BY <1>1, <1>2 DEF Cut
<1>4. PICK m \in Nat : m = Len(s.history) BY <1>1
<1>5. /\ Len(t.history) = m + 1 /\ t.history[m + 1] = c
      /\ \A h \in 1..m : t.history[h] = s.history[h]
  BY <1>1, <1>2, <1>3, <1>4
<1>6. ASSUME NEW r \in 1..total, NEW b, Built(s, r, b) PROVE Built(t, r, b)
  <2>1. CASE b = s.build /\ \A h \in 1..Len(s.history) : r > s.history[h].through
    <3>1. b = t.history[m + 1].from /\ r <= t.history[m + 1].through BY <1>3, <1>5, <2>1
    <3>2. \A g \in 1..(m + 1) - 1 : r > t.history[g].through BY <1>4, <1>5, <2>1
    <3>3. m + 1 \in 1..Len(t.history) BY <1>5
    <3>. QED BY <3>1, <3>2, <3>3 DEF Built
  <2>2. CASE \E h \in 1..Len(s.history) :
               /\ b = s.history[h].from /\ r <= s.history[h].through
               /\ \A g \in 1..h - 1 : r > s.history[g].through
    <3>1. PICK h \in 1..m : /\ b = s.history[h].from /\ r <= s.history[h].through
                            /\ \A g \in 1..h - 1 : r > s.history[g].through
      BY <1>4, <2>2
    <3>2. h \in 1..Len(t.history) /\ \A g \in 1..h - 1 : g \in 1..m BY <1>4, <1>5
    <3>. QED BY <1>5, <3>1, <3>2 DEF Built
  <2>. QED BY <1>6, <2>1, <2>2 DEF Built
<1>7. ASSUME \A h \in 1..Len(s.history) : s.history[h].through <= total,
             NEW h \in 1..Len(t.history)
      PROVE  t.history[h].through <= total
  BY <1>3, <1>4, <1>5, <1>7
<1>. QED BY <1>6, <1>7

\* An adopted build cuts the history at the records made so far.
LEMMA UpgradeKeeps ==
  ASSUME SessionTypes, Books, TickOk, upgradePaperRuntime
  PROVE  SessionTypes' /\ Books' /\ TickOk' /\ StopStands
<1>1. PICK n \in Nat : n = Len(sessions) /\ n \in 1..Len(sessions) BY DEF SessionTypes
<1>2. PICK s \in Session : s = sessions[n] BY <1>1 DEF SessionTypes
<1>3. /\ ticker.pc = "idle" /\ s.status = "open" /\ UNCHANGED <<tape, xruns, ticker>>
      /\ sessions' = [sessions EXCEPT ![n] =
           [s EXCEPT !.build = ticker.build, !.rq = 0, !.touched = TRUE,
                   !.history = Append(@, [from |-> s.build, through |-> Len(xruns)])]]
  BY <1>1, <1>2 DEF upgradePaperRuntime
<1>4. ticker \in IdleTicker BY <1>3 DEF SessionTypes, BusyTicker
<1>5. PICK build \in Int : build = ticker.build BY <1>4 DEF IdleTicker
<1>6. PICK total \in Nat : total = Len(xruns) BY DEF SessionTypes
<1>7. PICK cuts \in Cuts : cuts = Append(s.history, [from |-> s.build, through |-> total])
  <2>1. s.history \in Seq(Cut) /\ s.build \in Int BY DEF Session, Cuts
  <2>2. PICK c : c = [from |-> s.build, through |-> total] OBVIOUS
  <2>3. c \in Cut BY <2>1, <2>2 DEF Cut
  <2>4. Append(s.history, c) \in Seq(Cut) BY <2>1, <2>3
  <2>. QED BY <2>2, <2>4 DEF Cuts
<1>8. PICK zero \in Int : zero = 0 OBVIOUS
<1>9. PICK u : u = [s EXCEPT !.build = build, !.rq = zero] OBVIOUS
<1>10. PICK t : t = [u EXCEPT !.touched = TRUE, !.history = cuts] OBVIOUS
<1>11. u \in Session BY <1>9 DEF Session
<1>12. t \in Session BY <1>10, <1>11 DEF Session
<1>13. /\ t.build = build /\ t.history = cuts /\ t.parent = s.parent /\ t.seen = s.seen
       /\ t.stopped = s.stopped /\ SameProofs(s, t) /\ SameFees(s, t)
       /\ t.status = s.status /\ t.since = s.since
  BY <1>9, <1>10, <1>11 DEF Session, SameProofs, SameFees
<1>14. sessions' = [sessions EXCEPT ![n] = t]
  BY <1>3, <1>5, <1>6, <1>7, <1>8, <1>9, <1>10
<1>15. RowKept(s, t, tape.count) BY <1>13 DEF RowKept, FeesOK, Over, SameFees
<1>16. \A r \in Proofs(t) : r \in Proofs(s) BY <1>13 DEF Proofs, SameProofs
<1>17. RowOk(s, n, total) BY <1>1, <1>2, <1>6 DEF Books, RowsOk
<1>18. /\ \A r \in 1..total : \A b : Built(s, r, b) => Built(t, r, b)
       /\ \A h \in 1..Len(t.history) : t.history[h].through <= total
  BY <1>7, <1>12, <1>13, <1>17, BuiltUpgraded DEF RowOk
<1>19. SessionTypes' /\ Books' /\ StopStands
  <2>1. xruns' \in Seq(RunRow) /\ Len(xruns') >= Len(xruns) /\ tape' = tape
    BY <1>3, <1>6 DEF SessionTypes
  <2>2. ticker' \in IdleTicker \cup BusyTicker BY <1>3, <1>4
  <2>3. \A r \in 1..Len(xruns) : RunKept(r) BY <1>3 DEF RunKept
  <2>4. \A r \in Len(xruns) + 1..Len(xruns') : RunFresh(r) BY <1>3, <1>6
  <2>5. \A r \in 1..Len(xruns) : Built(s, r, xruns[r].build) => Built(t, r, xruns[r].build)
    BY <1>6, <1>18
  <2>6. \A h \in 1..Len(t.history) : t.history[h].through <= Len(xruns') BY <1>3, <1>6, <1>18
  <2>. QED
    BY <1>1, <1>2, <1>12, <1>14, <1>15, <1>16, <2>1, <2>2, <2>3, <2>4, <2>5, <2>6, RowStep
<1>. QED BY <1>3, <1>19 DEF TickOk

\* A recovered exit closes the session on the saved record.
LEMMA RecoverKeeps ==
  ASSUME SessionTypes, Books, TickOk, recoverSessionExit
  PROVE  SessionTypes' /\ Books' /\ TickOk' /\ StopStands
<1>1. PICK n \in Nat : n = Len(sessions) /\ n \in 1..Len(sessions) BY DEF SessionTypes
<1>2. PICK s \in Session : s = sessions[n] BY <1>1 DEF SessionTypes
<1>3. PICK r \in 1..Len(xruns) :
        /\ ticker.pc = "idle" /\ s.status = "invalid" /\ s.was = "exit_pending"
        /\ xruns[r].id = n /\ reconcileRecordedExit(s, r).status = "closed"
        /\ xruns' = [xruns EXCEPT ![r].err = "none"]
        /\ sessions' = [sessions EXCEPT ![n] = [reconcileRecordedExit(s, r) EXCEPT !.stopped = TRUE,
                                                  !.seen = @ \cup {xruns[r].cp}]]
        /\ UNCHANGED <<tape, ticker>>
  BY <1>1, <1>2 DEF recoverSessionExit, prepareExitRecovery
<1>4. /\ Len(xruns) \in Nat /\ xruns \in Seq(RunRow) /\ xruns[r] \in RunRow /\ tape.count \in Nat
  BY DEF SessionTypes, Tape
<1>5. PICK k \in Int : k = xruns[r].cp BY <1>4 DEF RunRow
<1>6. RowOk(s, n, Len(xruns)) BY <1>1, <1>2 DEF Books, RowsOk
<1>7. PICK exiting \in Statuses, none \in Statuses, fine \in Reasons :
        exiting = "exit_pending" /\ none = "none" /\ fine = "none"
  BY DEF Statuses, Reasons
<1>8. PICK p : p = [s EXCEPT !.status = exiting, !.why = fine, !.was = none] OBVIOUS
<1>9. p \in Session BY <1>8 DEF Session
<1>10. Same(s, p) /\ SameProofs(s, p) /\ SameFees(s, p) /\ p.status = exiting
  BY <1>8 DEF Session, Same, SameProofs, SameFees
<1>11. PICK x : x = [exec |-> "exit", run |-> r, at |-> k, chain |-> TRUE, gates |-> FALSE,
                     outside |-> FALSE]
  OBVIOUS
<1>12. x \in Sim BY <1>11 DEF Sim, Results, Needs
<1>13. PICK a : a = reconcileRecordedExit(s, r) OBVIOUS
<1>14. a = advancePaper(p, k, x).s
  BY <1>3, <1>5, <1>7, <1>8, <1>11, <1>13 DEF reconcileRecordedExit
<1>15. p.pos
  <2>1. SUFFICES ASSUME ~p.pos PROVE FALSE OBVIOUS
  <2>2. p.status = "exit_pending" BY <1>7, <1>10
  <2>3. a.status \in {"waiting", "entry_pending"} \/ a.status = "exit_pending"
    <3>1. \/ a = [p EXCEPT !.status = "waiting", !.last = k]
          \/ a = AdvanceFlat([p EXCEPT !.last = k], k, x).s
      BY <1>14, <2>1, <2>2 DEF advancePaper, Terminal
    <3>2. PICK u : u = [p EXCEPT !.last = k] OBVIOUS
    <3>3. u \in Session /\ u.status = "exit_pending" BY <1>9, <2>2, <3>2 DEF Session
    <3>4. CASE a = [p EXCEPT !.status = "waiting", !.last = k] BY <1>9, <3>4 DEF Session
    <3>5. CASE a = AdvanceFlat(u, k, x).s
      <4>1. a \in {u, Idled(u), [u EXCEPT !.status = "waiting"]}
        BY <1>11, <3>3, <3>5 DEF AdvanceFlat
      <4>2. Idled(u).status = "waiting" BY <3>3 DEF Idled, Session
      <4>3. [u EXCEPT !.status = "waiting"].status = "waiting" BY <3>3 DEF Session
      <4>. QED BY <3>3, <4>1, <4>2, <4>3
    <3>. QED BY <3>1, <3>2, <3>4, <3>5
  <2>. QED BY <1>3, <1>13, <2>3
<1>16. Advanced(p, a, x)
  <2>1. FeesOK(p) BY <1>6, <1>10 DEF RowOk, FeesOK, SameFees
  <2>2. p.status \notin Terminal BY <1>7, <1>10 DEF Terminal
  <2>. QED BY <1>9, <1>12, <1>14, <1>15, <2>1, <2>2, PaperAdvanced
<1>17. PICK seen \in Sources : seen = a.seen \cup {k} BY <1>16 DEF Advanced, Session, Sources
<1>18. PICK t : t = [a EXCEPT !.stopped = TRUE, !.seen = seen] OBVIOUS
<1>19. t \in Session
  <2>1. a \in Session BY <1>16 DEF Advanced
  <2>. QED BY <1>18, <2>1 DEF Session
<1>20. /\ t.parent = s.parent /\ t.build = s.build /\ t.history = s.history /\ s.seen \subseteq t.seen
       /\ t.stopped /\ t.status = "closed" /\ FeesOK(t) /\ SameProofs(a, t)
  <2>1. /\ t.parent = a.parent /\ t.build = a.build /\ t.history = a.history /\ t.seen = seen
        /\ t.stopped /\ t.status = a.status /\ SameFees(a, t) /\ SameProofs(a, t)
    BY <1>16, <1>18 DEF Advanced, Session, SameFees, SameProofs
  <2>2. FeesOK(t) BY <1>16, <2>1 DEF Advanced, FeesOK, SameFees
  <2>. QED BY <1>3, <1>10, <1>13, <1>16, <1>17, <2>1, <2>2 DEF Advanced, Same
<1>21. RowKept(s, t, tape.count) BY <1>20 DEF RowKept, Over, Terminal
<1>22. /\ xruns' \in Seq(RunRow) /\ Len(xruns') = Len(xruns)
       /\ \A q \in 1..Len(xruns) : /\ xruns'[q].id = xruns[q].id /\ xruns'[q].cp = xruns[q].cp
                                   /\ xruns'[q].build = xruns[q].build
                                   /\ q # r => xruns'[q] = xruns[q]
  <2>1. PICK ok \in Verdicts : ok = "none" BY DEF Verdicts
  <2>2. PICK row : row = [xruns[r] EXCEPT !.err = ok] OBVIOUS
  <2>3. row \in RunRow /\ row.id = xruns[r].id /\ row.cp = xruns[r].cp /\ row.build = xruns[r].build
    BY <1>4, <2>2 DEF RunRow
  <2>4. xruns' = [xruns EXCEPT ![r] = row] BY <1>3, <2>1, <2>2
  <2>. QED BY <1>4, <2>3, <2>4
<1>23. \A q \in 1..Len(xruns) : RunKept(q)
  <2>1. Over(s, xruns[r].cp) BY <1>3 DEF Over, Terminal
  <2>. QED BY <1>2, <1>3, <1>22, <2>1 DEF RunKept
<1>24. \A q \in Proofs(t) : q \in Proofs(s) \/ (q \in 1..Len(xruns') /\ xruns'[q].id = n)
  <2>1. Proofs(t) = Proofs(a) BY <1>20 DEF Proofs, SameProofs
  <2>2. Proofs(p) = Proofs(s) BY <1>10 DEF Proofs, SameProofs
  <2>3. \A q \in Proofs(a) : q \in Proofs(p) \/ q = r BY <1>11, <1>16 DEF Advanced
  <2>. QED BY <1>3, <1>22, <2>1, <2>2, <2>3
<1>25. SessionTypes' /\ Books' /\ StopStands
  <2>1. sessions' = [sessions EXCEPT ![n] = t] BY <1>3, <1>5, <1>13, <1>17, <1>18
  <2>2. Len(xruns') >= Len(xruns) /\ tape' = tape BY <1>3, <1>4, <1>22
  <2>3. ticker' \in IdleTicker \cup BusyTicker BY <1>3 DEF SessionTypes
  <2>4. \A q \in Len(xruns) + 1..Len(xruns') : RunFresh(q) BY <1>4, <1>22
  <2>5. \A q \in 1..Len(xruns) : Built(s, q, xruns[q].build) => Built(t, q, xruns[q].build)
    BY <1>20 DEF Built
  <2>6. \A h \in 1..Len(t.history) : t.history[h].through <= Len(xruns')
    BY <1>6, <1>20, <1>22 DEF RowOk
  <2>7. /\ n \in 1..Len(sessions) /\ RowKept(sessions[n], t, tape.count)
        /\ \A q \in Proofs(t) : q \in Proofs(sessions[n]) \/ (q \in 1..Len(xruns') /\ xruns'[q].id = n)
        /\ \A q \in 1..Len(xruns) :
              Built(sessions[n], q, xruns[q].build) => Built(t, q, xruns[q].build)
        /\ xruns' \in Seq(RunRow)
    BY <1>1, <1>2, <1>21, <1>22, <1>24, <2>5
  <2>. QED BY <1>19, <1>23, <2>1, <2>2, <2>3, <2>4, <2>6, <2>7, RowStep
<1>. QED BY <1>3, <1>25 DEF TickOk
\* The build that counts for a record is unique.
LEMMA BuiltRuntime ==
  ASSUME NEW s \in Session, NEW r \in Nat, NEW b, Built(s, r, b)
  PROVE  executionRuntime(s, r) = b
<1>1. s.history \in Seq(Cut) BY DEF Session, Cuts
<1>2. \A h \in 1..Len(s.history) : s.history[h].through \in Int
  <2>1. ASSUME NEW h \in 1..Len(s.history) PROVE s.history[h].through \in Int
    <3>1. s.history[h] \in Cut BY <1>1
    <3>. QED BY <3>1 DEF Cut
  <2>. QED BY <2>1
<1>3. CASE b = s.build /\ \A h \in 1..Len(s.history) : r > s.history[h].through
  <2>1. ~ \E h \in 1..Len(s.history) : r <= s.history[h].through BY <1>2, <1>3
  <2>. QED BY <1>3, <2>1 DEF executionRuntime
<1>4. CASE \E h \in 1..Len(s.history) :
             /\ b = s.history[h].from /\ r <= s.history[h].through
             /\ \A g \in 1..h - 1 : r > s.history[g].through
  <2> DEFINE First(h) == r <= s.history[h].through /\ \A g \in 1..h - 1 : r > s.history[g].through
  <2>1. PICK h \in 1..Len(s.history) : b = s.history[h].from /\ First(h) BY <1>4
  <2>2. ASSUME NEW g \in 1..Len(s.history), First(g) PROVE g = h
    <3>1. ~(g < h) BY <1>2, <2>1, <2>2
    <3>2. ~(h < g) BY <1>2, <2>1, <2>2
    <3>. QED BY <3>1, <3>2
  <2>3. executionRuntime(s, r) = s.history[CHOOSE g \in 1..Len(s.history) : First(g)].from
    BY <2>1 DEF executionRuntime
  <2> HIDE DEF First
  <2>4. (CHOOSE g \in 1..Len(s.history) : First(g)) = h BY <2>1, <2>2
  <2>. QED BY <2>1, <2>3, <2>4
<1>. QED BY <1>3, <1>4 DEF Built

SessionInvariant == SessionTypes /\ Books /\ TickOk

\* The first session is open on its recorded entry.
LEMMA SessionInvariantInit ==
  SessionInit => SessionInvariant
<1> SUFFICES ASSUME SessionInit PROVE SessionInvariant OBVIOUS
<1>1. PICK held \in BOOLEAN :
        sessions = <<[insertSession(0, Budget, held, 1) EXCEPT !.status = "open", !.born = 0,
                         !.pos = TRUE, !.last = 2, !.intent = 1, !.entered = 2, !.paid = 1,
                         !.entryRun = 2, !.seen = {1, 2}]>>
  BY DEF SessionInit
<1>2. /\ tape = [count |-> 2, covered |-> TRUE, bad |-> {}, reorgs |-> 0]
      /\ xruns = <<Run(1, 1, "quote", "none", 1, TRUE), Run(1, 2, "entry", "none", 1, TRUE)>>
      /\ ticker = Rest(1)
  BY DEF SessionInit
<1>3. tape \in Tape /\ tape.count = 2
  <2>1. PICK none \in SUBSET Int : none = {} OBVIOUS
  <2>2. tape = [count |-> 2, covered |-> TRUE, bad |-> none, reorgs |-> 0] BY <1>2, <2>1
  <2>. QED BY <2>2 DEF Tape
<1>4. ticker \in IdleTicker /\ ticker.pc = "idle" BY <1>2 DEF Rest, IdleTicker
<1>5. PICK q : q = Run(1, 1, "quote", "none", 1, TRUE) OBVIOUS
<1>6. PICK e : e = Run(1, 2, "entry", "none", 1, TRUE) OBVIOUS
<1>7. /\ q \in RunRow /\ q.id = 1 /\ q.cp = 1 /\ q.build = 1
      /\ e \in RunRow /\ e.id = 1 /\ e.cp = 2 /\ e.build = 1
  BY <1>5, <1>6 DEF Run, RunRow, Needs, Verdicts
<1>8. xruns \in Seq(RunRow) /\ Len(xruns) = 2 /\ xruns[1] = q /\ xruns[2] = e
  <2> HIDE DEF RunRow
  <2>1. xruns = <<q, e>> BY <1>2, <1>5, <1>6
  <2>. QED BY <1>7, <2>1
<1>9. PICK b \in Int, one \in Int : b = Budget /\ one = 1 BY BudgetIsInt
<1>10. PICK s : s = insertSession(0, b, held, one) OBVIOUS
<1>11. /\ s \in Session /\ s.parent = 0 /\ ~s.pos /\ s.earned = 0 /\ s.status = "waiting"
       /\ ~s.stopped /\ s.history = <<>> /\ Proofs(s) = {}
  BY <1>3, <1>10, FreshSession
<1>12. s.moves = {} /\ s.exitRun = 0 /\ s.build = one BY <1>10 DEF insertSession
<1>13. PICK open \in Statuses : open = "open" BY DEF Statuses
<1>14. PICK seen : seen = {1, 2} OBVIOUS
<1>15. seen \in Sources BY <1>14 DEF Sources
<1>16. PICK zero \in Int, two \in Nat : zero = 0 /\ two = 2 OBVIOUS
<1>17. two \in Int OBVIOUS
<1>18. PICK u : u = [s EXCEPT !.status = open, !.born = zero, !.pos = TRUE, !.last = two] OBVIOUS
<1>19. PICK v : v = [u EXCEPT !.intent = one, !.entered = two, !.paid = one] OBVIOUS
<1>20. PICK t : t = [v EXCEPT !.entryRun = two, !.seen = seen] OBVIOUS
<1>21. u \in Session BY <1>17, <1>11, <1>18 DEF Session
<1>22. v \in Session BY <1>17, <1>19, <1>21 DEF Session
<1>23. t \in Session BY <1>15, <1>20, <1>22 DEF Session
<1>24. /\ t.parent = 0 /\ t.pos /\ t.last = 2 /\ t.entered = 2 /\ t.earned = 0 /\ t.status = open
       /\ ~t.stopped /\ t.history = <<>> /\ t.moves = {} /\ t.exitRun = 0 /\ t.entryRun = 2
       /\ t.seen = seen /\ t.build = one
  BY <1>16, <1>11, <1>12, <1>18, <1>19, <1>20, <1>21, <1>22 DEF Session
<1>25. sessions = <<t>>
  BY <1>1, <1>9, <1>10, <1>13, <1>14, <1>18, <1>19, <1>20, <1>16
<1>26. sessions \in Seq(Session) /\ Len(sessions) = 1 /\ sessions[1] = t BY <1>23, <1>25
<1>27. SessionTypes BY <1>3, <1>4, <1>8, <1>26 DEF SessionTypes
<1>28. RowsOk
  <2>1. RowOk(t, 1, 2) BY <1>13, <1>24 DEF RowOk, FeesOK
  <2>. QED BY <1>8, <1>26, <2>1 DEF RowsOk
<1>29. ProofsOk
  <2>1. Proofs(t) = {2} BY <1>24 DEF Proofs
  <2>. QED BY <1>7, <1>8, <1>26, <2>1 DEF ProofsOk
<1>30. RunsOk
  <2>1. ASSUME NEW r \in 1..Len(xruns)
        PROVE  /\ xruns[r].id \in 1..Len(sessions) /\ xruns[r].cp \in 1..tape.count
               /\ Spent(sessions[xruns[r].id], xruns[r])
               /\ Built(sessions[xruns[r].id], r, xruns[r].build)
    <3>1. xruns[r].id = 1 /\ xruns[r].cp \in {1, 2} /\ xruns[r].build = 1 BY <1>7, <1>8
    <3>2. Spent(t, xruns[r]) BY <1>14, <1>24, <3>1 DEF Spent
    <3>3. Built(t, r, xruns[r].build) BY <1>9, <1>24, <3>1 DEF Built
    <3>. QED BY <1>3, <1>26, <3>1, <3>2, <3>3
  <2>. QED BY <2>1 DEF RunsOk
<1>31. OnePerSource BY <1>7, <1>8 DEF OnePerSource
<1>. QED BY <1>4, <1>27, <1>28, <1>29, <1>30, <1>31 DEF SessionInvariant, Books, TickOk

\* The invariant is inductive, and every step lets a stop stand.
LEMMA SessionInvariantStep ==
  SessionInvariant /\ [SessionNext]_sessionVars => SessionInvariant' /\ StopStands
<1> SUFFICES ASSUME SessionInvariant, [SessionNext]_sessionVars
             PROVE  SessionInvariant' /\ StopStands
  OBVIOUS
<1>1. SessionTypes /\ Books /\ TickOk BY DEF SessionInvariant
<1>2. CASE Collect \/ Cover \/ Disown \/ Revalidate
  BY <1>1, <1>2, CollectKeeps DEF SessionInvariant
<1>3. CASE maybeReenter BY <1>1, <1>3, ReentryKeeps DEF SessionInvariant
<1>4. CASE sessionTick BY <1>1, <1>4, TickKeeps DEF SessionInvariant
<1>5. CASE settle BY <1>1, <1>5, SettleKeeps DEF SessionInvariant
<1>6. CASE tickFails \/ release BY <1>1, <1>6, ReleaseKeeps DEF SessionInvariant
<1>7. CASE stop BY <1>1, <1>7, StopKeeps DEF SessionInvariant
<1>8. CASE startSession BY <1>1, <1>8, StartKeeps DEF SessionInvariant
<1>9. CASE upgradePaperRuntime BY <1>1, <1>9, UpgradeKeeps DEF SessionInvariant
<1>10. CASE recoverSessionExit BY <1>1, <1>10, RecoverKeeps DEF SessionInvariant
<1>11. CASE UNCHANGED sessionVars
  <2>1. UNCHANGED <<tape, sessions, xruns, ticker>> BY <1>11 DEF sessionVars
  <2>2. tape' \in Tape /\ tape'.count >= tape.count BY <1>1, <2>1 DEF SessionTypes, Tape
  <2>. QED BY <1>1, <2>1, <2>2, OutsideStep DEF SessionInvariant
<1>. QED
  BY <1>2, <1>3, <1>4, <1>5, <1>6, <1>7, <1>8, <1>9, <1>10, <1>11 DEF SessionNext

\* What the records and rows promise follows from the invariant.
LEMMA SessionInvariantSound ==
  SessionInvariant => SessionSound
<1> SUFFICES ASSUME SessionInvariant PROVE SessionSound OBVIOUS
<1>1. SessionTypes /\ RowsOk /\ ProofsOk /\ RunsOk /\ OnePerSource BY DEF SessionInvariant, Books
<1>2. CashCarriedOnce
  <2>1. SUFFICES ASSUME NEW i \in 1..Len(sessions), NEW j \in 1..Len(sessions), i # j,
                        sessions[i].parent = sessions[j].parent
                 PROVE  sessions[i].parent = 0
    BY DEF CashCarriedOnce
  <2>2. RowOk(sessions[i], i, Len(xruns)) /\ RowOk(sessions[j], j, Len(xruns)) BY <1>1 DEF RowsOk
  <2>. QED BY <2>1, <2>2 DEF RowOk
<1>3. FeesCoverHolding BY <1>1 DEF FeesCoverHolding, RowsOk, RowOk, FeesOK
<1>4. RunKeyFree BY <1>1 DEF RunKeyFree, OnePerSource
<1>5. ProofsKeepTheirBuild
  <2>1. SUFFICES ASSUME NEW i \in 1..Len(sessions), NEW r \in Proofs(sessions[i])
                 PROVE  xruns[r].build = executionRuntime(sessions[i], r)
    BY DEF ProofsKeepTheirBuild
  <2>2. r \in 1..Len(xruns) /\ xruns[r].id = i BY <1>1 DEF ProofsOk
  <2>3. sessions[i] \in Session BY <1>1 DEF SessionTypes
  <2>4. Built(sessions[i], r, xruns[r].build) BY <1>1, <2>2 DEF RunsOk
  <2>. QED BY <2>2, <2>3, <2>4, BuiltRuntime
<1>. QED BY <1>2, <1>3, <1>4, <1>5 DEF SessionSound

\* For every number of sessions, sources, builds and source changes: the cash of
\* a closed session funds one successor (startSession, maybeReenter,
\* recoverSessionExit), the fees of a position cover its whole life once
\* (advancePaper), a session's source is simulated once (settle), and a record
\* names the build that made it (upgradePaperRuntime, executionRuntime).
THEOREM SessionsAreSound == SessionSpec => []SessionSound
<1>1. SessionInit => SessionInvariant BY SessionInvariantInit
<1>2. SessionInvariant /\ [SessionNext]_sessionVars => SessionInvariant' BY SessionInvariantStep
<1>3. SessionInvariant => SessionSound BY SessionInvariantSound
<1>. QED BY <1>1, <1>2, <1>3, PTL DEF SessionSpec

\* A stop recorded while a simulation is on the network is not overwritten by
\* the answer (settle's changed row), nor by an upgrade, a recovery or a
\* revoked source: the session is leaving or over from then on.
THEOREM StopOutlives == SessionSpec => StopOutlivesPreflight
<1>1. SessionInit => SessionInvariant BY SessionInvariantInit
<1>2. SessionInvariant /\ [SessionNext]_sessionVars => SessionInvariant' BY SessionInvariantStep
<1> DEFINE Stands == \A i \in 1..Len(sessions) : sessions[i].stopped =>
                        /\ sessions'[i].stopped
                        /\ sessions'[i].status \in Terminal \cup {"exit_pending"}
<1>3. SessionInvariant /\ [SessionNext]_sessionVars => [Stands]_sessionVars
  <2> SUFFICES ASSUME SessionInvariant, [SessionNext]_sessionVars,
                      NEW i \in 1..Len(sessions), sessions[i].stopped
               PROVE  /\ sessions'[i].stopped
                      /\ sessions'[i].status \in Terminal \cup {"exit_pending"}
    OBVIOUS
  <2>1. SessionInvariant' /\ StopStands BY SessionInvariantStep
  <2>2. i \in 1..Len(sessions') /\ sessions'[i].stopped BY <2>1 DEF StopStands
  <2>3. RowOk(sessions'[i], i, Len(xruns')) BY <2>1, <2>2 DEF SessionInvariant, Books, RowsOk
  <2>. QED BY <2>2, <2>3 DEF RowOk
<1>. QED BY <1>1, <1>2, <1>3, PTL DEF SessionSpec, StopOutlivesPreflight

-----------------------------------------------------------------------------
(* The owned-fork gas samplers (OwnedFork).                                 *)

\* What a wallet holds, and what it allows its two spenders.
Purses == [Token -> Int]
Grants == [Spender -> Purses]
Candidate == [funds : Purses, token : Token, in : Int, out : Int, mint : Purses, moved : BOOLEAN]
ProbeStatuses ==
    {"idle", "prefetch", "anchor", "stage", "failed", "refused", "reported", "verified"}
Forks == SUBSET Nat
Probes ==
    [status : ProbeStatuses, kind : SamplerKinds, c : Candidate, risk : Token, stage : Nat,
     wallet : Purses, allow : Grants, nft : BOOLEAN, seen : Forks]

ForkTypes == upstream \in Nat /\ probe \in Probes

\* The candidate is one the sampler accepts.
Chosen(p) ==
    /\ p.c \in Candidates
    /\ p.kind = "static" => p.c.in = 0
    /\ Converts(p.kind) => Converted(p.c, p.risk) > 0

\* Not funded yet.
Fresh(p) == p.stage = 1 /\ ~p.nft /\ p.allow = NoAllowance

\* Which allowances are taken back by then, when the sequence clears the
\* router's first from stage r and the manager's from stage m on.
Cleared(p, r, m) == \A t \in Token :
    /\ p.stage > r + t => p.allow["router"][t] = 0
    /\ p.stage > m + t => p.allow["manager"][t] = 0

\* The static sequence: what one token stands at, stage by stage.
StaticHolding(p, t) ==
    /\ p.allow["router"][t] = 0
    /\ p.stage <= 3 => p.wallet[t] = p.c.mint[t]
    /\ p.stage <= 3 /\ p.stage > 1 + t => p.allow["manager"][t] = p.c.mint[t]

StaticCourse(p) ==
    /\ p.stage \in 1..7 /\ (p.nft <=> p.stage = 4)
    /\ \A t \in Token : StaticHolding(p, t)
    /\ Cleared(p, 7, 5)

\* An entry without a swap and its exit.
PlainHolding(p, t) ==
    /\ p.stage <= 3 => p.wallet[t] = p.c.funds[t]
    /\ p.stage <= 3 /\ p.stage > 1 + t => p.allow["manager"][t] = p.c.funds[t]
    /\ p.stage = 4 => p.allow["manager"][t] = p.c.funds[t] - p.c.mint[t]
    /\ p.stage <= 4 => p.allow["router"][t] = 0

PlainCourse(p) ==
    /\ p.stage \in 1..9 /\ (p.nft <=> p.stage = 4)
    /\ \A t \in Token : PlainHolding(p, t)
    /\ Cleared(p, 5, 7)

\* An entry with a swap and its exit: only the sold token has a router allowance.
SwappedHolding(p, t) ==
    /\ p.stage <= 4 => p.wallet[t] = p.c.funds[t]
    /\ p.stage = 5 => p.wallet[t] = rangeKeeperPaperCandidateFunding(p.c)[t]
    /\ p.stage = 2 /\ t = p.c.token => p.allow["manager"][t] = FutureCap(p.c, t)
    /\ p.stage >= 3 /\ p.stage <= 5 => p.allow["manager"][t] = FutureCap(p.c, t)
    /\ p.stage = 6 => p.allow["manager"][t] = FutureCap(p.c, t) - p.c.mint[t]
    /\ p.stage <= 6 /\ t # p.c.token => p.allow["router"][t] = 0
    /\ p.stage = 4 /\ t = p.c.token => p.allow["router"][t] = p.c.funds[t]
    /\ p.stage >= 5 /\ p.stage <= 6 /\ t = p.c.token =>
         p.allow["router"][t] = p.c.funds[t] - p.c.in

SwappedCourse(p) ==
    /\ p.stage \in 1..11 /\ (p.nft <=> p.stage = 6)
    /\ \A t \in Token : SwappedHolding(p, t)
    /\ Cleared(p, 7, 9)

\* The exit that keeps both tokens: nothing is spent, the allowances are taken back.
RetainCourse(p) == p.stage \in 1..6 /\ (p.nft <=> p.stage = 1) /\ Cleared(p, 2, 4)

\* The converted balance is all there when it is swapped, and gone after.
ConvertHolding(p) ==
    /\ p.stage = 1 => p.wallet[p.risk] = IdleTokens(p.c)[p.risk]
    /\ p.stage = 2 \/ p.stage = 3 => p.wallet[p.risk] = Converted(p.c, p.risk)
    /\ p.stage = 3 => p.allow["router"][p.risk] = Converted(p.c, p.risk)
    /\ p.stage >= 4 => p.wallet[p.risk] = 0

ConvertCourse(p, r, m) ==
    /\ p.stage \in 1..8 /\ (p.nft <=> p.stage = 1)
    /\ ConvertHolding(p)
    /\ Cleared(p, r, m)

\* Where the sampler is on its own sequence.
Course(p) ==
    /\ p.kind = "static" => StaticCourse(p)
    /\ p.kind = "open" /\ p.c.in = 0 => PlainCourse(p)
    /\ p.kind = "open" /\ p.c.in > 0 => SwappedCourse(p)
    /\ p.kind = "retain_exit" => RetainCourse(p)
    /\ p.kind = "convert_exit" => ConvertCourse(p, 4, 6)
    /\ p.kind \in StaticConvert => ConvertCourse(p, 6, 4)

\* The inductive invariant of the samplers.
ForkInv ==
    /\ ForkTypes
    /\ probe.status # "idle" => Chosen(probe)
    /\ probe.status \in {"prefetch", "anchor"} => Fresh(probe)
    /\ probe.status = "stage" => Course(probe)
    /\ \A u \in probe.seen : u <= upstream
    /\ SequencesClean
    /\ SampledAtSource

\* What a step of the sequence leaves alone.
Onward(p, q) ==
    /\ q \in Probes /\ q.stage = p.stage + 1
    /\ q.status = p.status /\ q.kind = p.kind /\ q.c = p.c /\ q.risk = p.risk /\ q.seen = p.seen

\* The transaction of one stage, priced.
Step(s) == [AfterStage(s) EXCEPT !.stage = @ + 1]

\* An approval sets one allowance and nothing else.
LEMMA ApproveStep ==
  ASSUME probe \in Probes, NEW s \in Spender, NEW t \in Token, NEW a \in Int,
         NEW q, q = Step(Approve(s, t, a))
  PROVE  /\ Onward(probe, q) /\ q.nft = probe.nft /\ q.wallet = probe.wallet
         /\ q.allow[s][t] = a
         /\ \A r \in Spender, u \in Token : r # s \/ u # t => q.allow[r][u] = probe.allow[r][u]
<1>1. PICK allow : allow = [probe.allow EXCEPT ![s][t] = a] OBVIOUS
<1>2. probe.allow \in Grants /\ probe.allow[s] \in Purses BY DEF Probes, Grants
<1>3. /\ allow \in Grants /\ allow[s][t] = a
      /\ \A r \in Spender, u \in Token : r # s \/ u # t => allow[r][u] = probe.allow[r][u]
  BY <1>1, <1>2 DEF Grants, Purses
<1>4. PICK stage \in Nat : stage = probe.stage + 1 BY DEF Probes
<1>5. q = [probe EXCEPT !.allow = allow, !.stage = stage]
  BY <1>1, <1>4 DEF Step, AfterStage, Approve, Probes
<1>6. q \in Probes BY <1>3, <1>5 DEF Probes
<1>7. /\ q.stage = stage /\ q.allow = allow /\ q.nft = probe.nft /\ q.wallet = probe.wallet
      /\ q.status = probe.status /\ q.kind = probe.kind /\ q.c = probe.c /\ q.risk = probe.risk
      /\ q.seen = probe.seen
  BY <1>5 DEF Probes
<1>. QED BY <1>3, <1>4, <1>6, <1>7 DEF Onward

\* The withdrawal gives the principal back and takes the position.
LEMMA WithdrawStep ==
  ASSUME probe \in Probes, NEW q, q = Step(Withdraw)
  PROVE  /\ Onward(probe, q) /\ ~q.nft /\ q.allow = probe.allow
         /\ \A t \in Token : q.wallet[t] = probe.wallet[t] + Principal(probe.c)[t]
<1>1. PICK wallet : wallet = [t \in Token |-> probe.wallet[t] + Principal(probe.c)[t]] OBVIOUS
<1>2. wallet \in Purses
  BY <1>1 DEF Probes, Purses, Candidate, Principal, Other, Token
<1>3. PICK stage \in Nat : stage = probe.stage + 1 BY DEF Probes
<1>4. PICK no \in BOOLEAN : no = FALSE OBVIOUS
<1>5. q = [probe EXCEPT !.nft = no, !.wallet = wallet, !.stage = stage]
  BY <1>1, <1>3, <1>4 DEF Step, AfterStage, Withdraw, Probes
<1>6. q \in Probes BY <1>2, <1>5 DEF Probes
<1>7. /\ q.stage = stage /\ q.wallet = wallet /\ q.nft = no /\ q.allow = probe.allow
      /\ q.status = probe.status /\ q.kind = probe.kind /\ q.c = probe.c /\ q.risk = probe.risk
      /\ q.seen = probe.seen
  BY <1>5 DEF Probes
<1>. QED BY <1>1, <1>3, <1>4, <1>6, <1>7 DEF Onward

\* The mint spends the manager's allowances and leaves the router's.
LEMMA MintStep ==
  ASSUME probe \in Probes, NEW q, q = Step(Mint)
  PROVE  /\ Onward(probe, q) /\ q.nft
         /\ \A t \in Token :
              /\ q.allow["manager"][t] = probe.allow["manager"][t] - probe.c.mint[t]
              /\ q.allow["router"][t] = probe.allow["router"][t]
<1>1. PICK wallet : wallet = [t \in Token |-> probe.wallet[t] - probe.c.mint[t]] OBVIOUS
<1>2. PICK left : left = [t \in Token |-> probe.allow["manager"][t] - probe.c.mint[t]] OBVIOUS
<1>3. PICK allow : allow = [probe.allow EXCEPT !["manager"] = left] OBVIOUS
<1>4. wallet \in Purses BY <1>1 DEF Probes, Purses, Candidate
<1>5. left \in Purses BY <1>2 DEF Probes, Purses, Candidate, Grants, Spender
<1>6. allow \in Grants /\ allow["manager"] = left /\ allow["router"] = probe.allow["router"]
  BY <1>3, <1>5 DEF Probes, Grants, Spender
<1>7. PICK stage \in Nat : stage = probe.stage + 1 BY DEF Probes
<1>8. PICK yes \in BOOLEAN : yes = TRUE OBVIOUS
<1>9. q = [probe EXCEPT !.nft = yes, !.wallet = wallet, !.allow = allow, !.stage = stage]
  BY <1>1, <1>2, <1>3, <1>7, <1>8 DEF Step, AfterStage, Mint, Probes
<1>10. q \in Probes BY <1>4, <1>6, <1>9 DEF Probes
<1>11. /\ q.stage = stage /\ q.allow = allow /\ q.nft = yes
       /\ q.status = probe.status /\ q.kind = probe.kind /\ q.c = probe.c /\ q.risk = probe.risk
       /\ q.seen = probe.seen
  BY <1>9 DEF Probes
<1>. QED BY <1>2, <1>6, <1>7, <1>8, <1>10, <1>11 DEF Onward

\* A swap spends one token and the router's allowance of it.
LEMMA SwapStep ==
  ASSUME probe \in Probes, NEW t \in Token, NEW a \in Int, NEW q, q = Step(Swap(t, a))
  PROVE  /\ Onward(probe, q) /\ q.nft = probe.nft
         /\ q.wallet[t] = probe.wallet[t] - a
         /\ probe.kind = "open" => q.wallet[Other(t)] = probe.wallet[Other(t)] + probe.c.out
         /\ q.allow["router"][t] = probe.allow["router"][t] - a
         /\ \A r \in Spender, u \in Token :
              r # "router" \/ u # t => q.allow[r][u] = probe.allow[r][u]
<1>1. PICK wallet : wallet = [u \in Token |-> IF u = t THEN probe.wallet[u] - a
                       ELSE probe.wallet[u] + (IF probe.kind = "open" THEN probe.c.out ELSE 1)]
  OBVIOUS
<1>2. PICK allow : allow = [probe.allow EXCEPT !["router"][t] = probe.allow["router"][t] - a]
  OBVIOUS
<1>3. wallet \in Purses BY <1>1 DEF Probes, Purses, Candidate
<1>4. probe.allow \in Grants /\ probe.allow["router"] \in Purses /\ "router" \in Spender
  BY DEF Probes, Grants, Spender
<1>5. /\ allow \in Grants /\ allow["router"][t] = probe.allow["router"][t] - a
      /\ \A r \in Spender, u \in Token : r # "router" \/ u # t => allow[r][u] = probe.allow[r][u]
  BY <1>2, <1>4 DEF Grants, Purses
<1>6. PICK stage \in Nat : stage = probe.stage + 1 BY DEF Probes
<1>7. q = [probe EXCEPT !.wallet = wallet, !.allow = allow, !.stage = stage]
  BY <1>1, <1>2, <1>6 DEF Step, AfterStage, Swap, Probes
<1>8. q \in Probes BY <1>3, <1>5, <1>7 DEF Probes
<1>9. /\ q.stage = stage /\ q.allow = allow /\ q.wallet = wallet /\ q.nft = probe.nft
      /\ q.status = probe.status /\ q.kind = probe.kind /\ q.c = probe.c /\ q.risk = probe.risk
      /\ q.seen = probe.seen
  BY <1>7 DEF Probes
<1>10. Other(t) \in Token /\ Other(t) # t BY DEF Other, Token
<1>. QED BY <1>1, <1>5, <1>6, <1>8, <1>9, <1>10 DEF Onward

\* The exit that keeps both tokens, written out.
LEMMA RetainStages ==
  ASSUME NEW s, s = RANGEKEEPER_PAPER_RETAIN_EXIT_STAGES
  PROVE  /\ Len(s) = 5
         /\ s[1] = Withdraw
         /\ s[2] = Approve("router", 0, 0)
         /\ s[3] = Approve("router", 1, 0)
         /\ s[4] = Approve("manager", 0, 0)
         /\ s[5] = Approve("manager", 1, 0)
<1>1. PICK r : r = CleanRouter OBVIOUS
<1>2. PICK m : m = CleanManager OBVIOUS
<1>3. PICK h : h = <<Withdraw>> \o r OBVIOUS
<1>4. /\ Len(h) = 3 /\ h[1] = Withdraw
      /\ h[2] = Approve("router", 0, 0) /\ h[3] = Approve("router", 1, 0)
  BY <1>1, <1>3 DEF CleanRouter
<1>. QED
  BY <1>2, <1>3, <1>4, <1>1 DEF RANGEKEEPER_PAPER_RETAIN_EXIT_STAGES, CleanManager, CleanRouter

\* A sequence of ten, entry by entry.
LEMMA Halves ==
  ASSUME NEW s, NEW h, NEW r, \A i \in 1..10 : s[i] = IF i <= 5 THEN h[i] ELSE r[i - 5]
  PROVE  /\ s[1] = h[1] /\ s[2] = h[2] /\ s[3] = h[3] /\ s[4] = h[4] /\ s[5] = h[5]
         /\ s[6] = r[1] /\ s[7] = r[2] /\ s[8] = r[3] /\ s[9] = r[4] /\ s[10] = r[5]
OBVIOUS

\* Two sequences of five, one after the other.
LEMMA Joined ==
  ASSUME NEW S, NEW h \in Seq(S), NEW r \in Seq(S), Len(h) = 5, Len(r) = 5
  PROVE  Len(h \o r) = 10 /\ \A i \in 1..10 : (h \o r)[i] = IF i <= 5 THEN h[i] ELSE r[i - 5]
<1>1. Len(h \o r) = Len(h) + Len(r) BY ConcatProperties, Zenon
<1>2. \A i \in 1..Len(h) + Len(r) : (h \o r)[i] = IF i <= Len(h) THEN h[i] ELSE r[i - Len(h)]
  BY ConcatProperties, Zenon
<1>3. Len(h) + Len(r) = 10 OBVIOUS
<1>4. \A i \in 1..10 : (h \o r)[i] = IF i <= 5 THEN h[i] ELSE r[i - 5] BY <1>2, <1>3, Zenon
<1>5. Len(h \o r) = 10 BY <1>1, <1>3, Zenon
<1>. QED BY <1>4, <1>5, Zenon

\* The exit that keeps both tokens, as a sequence over any set of its calls.
LEMMA RetainTyped ==
  ASSUME NEW S, Withdraw \in S, Approve("router", 0, 0) \in S, Approve("router", 1, 0) \in S,
         Approve("manager", 0, 0) \in S, Approve("manager", 1, 0) \in S
  PROVE  RANGEKEEPER_PAPER_RETAIN_EXIT_STAGES \in Seq(S)
<1>1. <<Withdraw>> \in Seq(S) /\ CleanRouter \in Seq(S) /\ CleanManager \in Seq(S)
  BY DEF CleanRouter, CleanManager
<1>2. <<Withdraw>> \o CleanRouter \in Seq(S) BY <1>1
<1>. QED BY <1>1, <1>2 DEF RANGEKEEPER_PAPER_RETAIN_EXIT_STAGES

\* The static sequence, written out.
LEMMA StaticStages ==
  ASSUME NEW c, NEW s, s = PAPER_STATIC_GAS_STAGES(c)
  PROVE  /\ Len(s) = 6
         /\ s[1] = Approve("manager", 0, c.mint[0])
         /\ s[2] = Approve("manager", 1, c.mint[1])
         /\ s[3] = Mint
         /\ s[4] = Withdraw
         /\ s[5] = Approve("manager", 0, 0)
         /\ s[6] = Approve("manager", 1, 0)
BY DEF PAPER_STATIC_GAS_STAGES, CleanManager

\* An entry without a swap and its exit, written out.
LEMMA PlainStages ==
  ASSUME NEW c, c.in = 0, NEW risk, NEW s, s = Stages("open", c, risk)
  PROVE  /\ Len(s) = 8
         /\ s[1] = Approve("manager", 0, c.funds[0])
         /\ s[2] = Approve("manager", 1, c.funds[1])
         /\ s[3] = Mint
         /\ s[4] = Withdraw
         /\ s[5] = Approve("router", 0, 0)
         /\ s[6] = Approve("router", 1, 0)
         /\ s[7] = Approve("manager", 0, 0)
         /\ s[8] = Approve("manager", 1, 0)
BY RetainStages DEF Stages, RANGEKEEPER_PAPER_OPEN_STAGES_NO_SWAP, StaticConvert

\* An entry with a swap and its exit, written out.
LEMMA SwappedStages ==
  ASSUME NEW c, c.in \in Int, c.in > 0, NEW risk, NEW s, s = Stages("open", c, risk)
  PROVE  /\ Len(s) = 10
         /\ s[1] = Approve("manager", c.token, c.funds[c.token])
         /\ s[2] = Approve("manager", Other(c.token), FutureCap(c, Other(c.token)))
         /\ s[3] = Approve("router", c.token, c.funds[c.token])
         /\ s[4] = Swap(c.token, c.in)
         /\ s[5] = Mint
         /\ s[6] = Withdraw
         /\ s[7] = Approve("router", 0, 0)
         /\ s[8] = Approve("router", 1, 0)
         /\ s[9] = Approve("manager", 0, 0)
         /\ s[10] = Approve("manager", 1, 0)
<1>1. PICK r : r = RANGEKEEPER_PAPER_RETAIN_EXIT_STAGES OBVIOUS
<1>2. PICK h : h = RANGEKEEPER_PAPER_OPEN_STAGES_SWAP(c) OBVIOUS
<1>3. s = h \o r BY <1>1, <1>2 DEF Stages, StaticConvert
<1>4. PICK a : a = Approve("manager", c.token, c.funds[c.token]) OBVIOUS
<1>5. PICK b : b = Approve("manager", Other(c.token), FutureCap(c, Other(c.token))) OBVIOUS
<1>6. PICK d : d = Approve("router", c.token, c.funds[c.token]) OBVIOUS
<1>7. PICK e : e = Swap(c.token, c.in) OBVIOUS
<1>8. PICK m : m = Mint OBVIOUS
<1>9. h = <<a, b, d, e, m>>
  BY <1>2, <1>4, <1>5, <1>6, <1>7, <1>8 DEF RANGEKEEPER_PAPER_OPEN_STAGES_SWAP
<1>10. /\ Len(r) = 5 /\ r[1] = Withdraw /\ r[2] = Approve("router", 0, 0)
       /\ r[3] = Approve("router", 1, 0) /\ r[4] = Approve("manager", 0, 0)
       /\ r[5] = Approve("manager", 1, 0)
  BY <1>1, RetainStages
<1>11. Len(h) = 5 /\ h[1] = a /\ h[2] = b /\ h[3] = d /\ h[4] = e /\ h[5] = m BY <1>9
<1>12. PICK S : S = {a, b, d, e, m, r[1], r[2], r[3], r[4], r[5]} OBVIOUS
<1>13. h \in Seq(S) BY <1>9, <1>12
<1>14. r \in Seq(S) BY <1>1, <1>10, <1>12, RetainTyped
<1>15. Len(h) = 5 BY <1>11
<1>16. Len(r) = 5 BY <1>10
<1>17. PICK g \in Seq(S), k \in Seq(S) : g = h /\ k = r BY <1>13, <1>14, Zenon
<1>18. Len(g) = 5 /\ Len(k) = 5 BY <1>15, <1>16, <1>17, Zenon
<1>19. PICK q : q = g \o k OBVIOUS
<1>20. Len(q) = 10 /\ \A i \in 1..10 : q[i] = IF i <= 5 THEN g[i] ELSE k[i - 5]
  BY <1>18, <1>19, Joined, Zenon
<1>21. /\ q[1] = g[1] /\ q[2] = g[2] /\ q[3] = g[3] /\ q[4] = g[4] /\ q[5] = g[5]
       /\ q[6] = k[1] /\ q[7] = k[2] /\ q[8] = k[3] /\ q[9] = k[4] /\ q[10] = k[5]
  BY <1>20, Halves
<1>22. s = q BY <1>3, <1>17, <1>19
<1>. QED BY <1>4, <1>5, <1>6, <1>7, <1>8, <1>10, <1>11, <1>20, <1>21, <1>17, <1>22

\* The converting exit, written out: the router is cleared first.
LEMMA ConvertStages ==
  ASSUME NEW c, NEW risk, NEW s, s = RANGEKEEPER_PAPER_CONVERT_EXIT_STAGES(c, risk)
  PROVE  /\ Len(s) = 7
         /\ s[1] = Withdraw
         /\ s[2] = Approve("router", risk, Converted(c, risk))
         /\ s[3] = Swap(risk, Converted(c, risk))
         /\ s[4] = Approve("router", 0, 0)
         /\ s[5] = Approve("router", 1, 0)
         /\ s[6] = Approve("manager", 0, 0)
         /\ s[7] = Approve("manager", 1, 0)
BY DEF RANGEKEEPER_PAPER_CONVERT_EXIT_STAGES, CleanRouter, CleanManager

\* The static converting close, written out: the manager is cleared first.
LEMMA StaticConvertStages ==
  ASSUME NEW c, NEW risk, NEW s, s = PAPER_STATIC_CONVERT_GAS_STAGES_V2(c, risk)
  PROVE  /\ Len(s) = 7
         /\ s[1] = Withdraw
         /\ s[2] = Approve("router", risk, Converted(c, risk))
         /\ s[3] = Swap(risk, Converted(c, risk))
         /\ s[4] = Approve("manager", 0, 0)
         /\ s[5] = Approve("manager", 1, 0)
         /\ s[6] = Approve("router", 0, 0)
         /\ s[7] = Approve("router", 1, 0)
BY DEF PAPER_STATIC_CONVERT_GAS_STAGES_V2, CleanRouter, CleanManager

\* What the planner keeps true of a candidate.
LEMMA CandidateFacts ==
  ASSUME NEW c \in Candidates
  PROVE  /\ c.token \in Token /\ c.in \in Int /\ c.out \in Int /\ c.in >= 0 /\ c.out >= 0
         /\ c.in <= c.funds[c.token] /\ (c.in = 0 => c.out = 0)
         /\ \A t \in Token :
              /\ c.funds[t] \in Int /\ c.mint[t] \in Int /\ c.funds[t] >= 0 /\ c.mint[t] >= 0
              /\ rangeKeeperPaperCandidateFunding(c)[t] =
                   IF t = c.token THEN c.funds[t] - c.in ELSE c.funds[t] + c.out
              /\ c.mint[t] <= rangeKeeperPaperCandidateFunding(c)[t]
              /\ FutureCap(c, t) \in Int /\ c.mint[t] <= FutureCap(c, t)
              /\ c.in = 0 \/ t = c.token => FutureCap(c, t) = c.funds[t]
<1>1. /\ c.token \in Token /\ c.in \in 0..Units /\ c.out \in 0..1
      /\ c.in <= c.funds[c.token] /\ (c.in = 0) = (c.out = 0)
      /\ c.funds \in [Token -> 0..Units] /\ c.mint \in [Token -> 0..Units]
      /\ \A t \in Token : c.mint[t] <= c.funds[t] - (IF c.in > 0 /\ t = c.token THEN c.in ELSE 0)
                                        + (IF t # c.token THEN c.out ELSE 0)
      /\ c.mint[0] + c.mint[1] \in 1..Cap
  BY DEF Candidates
<1>2. Units \in Nat /\ Cap \in Nat BY ForkAssumption
<1>3. ASSUME NEW t \in Token
      PROVE  /\ c.funds[t] \in 0..Units /\ c.mint[t] \in 0..Units /\ c.mint[t] <= Cap
  BY <1>1, <1>2, <1>3 DEF Token
<1>4. ASSUME NEW t \in Token
      PROVE  rangeKeeperPaperCandidateFunding(c)[t] =
               IF t = c.token THEN c.funds[t] - c.in ELSE c.funds[t] + c.out
  BY <1>4 DEF rangeKeeperPaperCandidateFunding
<1>5. ASSUME NEW t \in Token
      PROVE  /\ FutureCap(c, t) \in Int /\ c.mint[t] <= FutureCap(c, t)
             /\ c.mint[t] <= rangeKeeperPaperCandidateFunding(c)[t]
             /\ c.in = 0 \/ t = c.token => FutureCap(c, t) = c.funds[t]
  BY <1>1, <1>2, <1>3, <1>4, <1>5 DEF FutureCap, Larger
<1>. QED BY <1>1, <1>2, <1>3, <1>4, <1>5

\* Every call of the static sequence runs and keeps its course.
LEMMA StaticStep ==
  ASSUME probe \in Probes, probe.kind = "static", Chosen(probe), StaticCourse(probe),
         probe.stage <= 6, NEW s, s = Stages(probe.kind, probe.c, probe.risk)[probe.stage],
         NEW q, q = Step(s)
  PROVE  Runs(s) /\ Onward(probe, q) /\ StaticCourse(q)
<1>1. PICK c : c = probe.c OBVIOUS
<1>2. c \in Candidates BY <1>1 DEF Chosen
<1>3. \A t \in Token : c.mint[t] \in Int BY <1>2, CandidateFacts
<1>4. Stages(probe.kind, c, probe.risk) = PAPER_STATIC_GAS_STAGES(c) BY DEF Stages, StaticConvert
<1>5. PICK z : z = PAPER_STATIC_GAS_STAGES(c) OBVIOUS
<1>6. s = z[probe.stage] BY <1>1, <1>4, <1>5
<1>7. /\ z[1] = Approve("manager", 0, c.mint[0]) /\ z[2] = Approve("manager", 1, c.mint[1])
      /\ z[3] = Mint /\ z[4] = Withdraw
      /\ z[5] = Approve("manager", 0, 0) /\ z[6] = Approve("manager", 1, 0)
  BY <1>5, StaticStages
<1>8. "manager" \in Spender /\ "router" \in Spender /\ 0 \in Token /\ 1 \in Token
      /\ \A t \in Token : t = 0 \/ t = 1
  BY DEF Spender, Token
<1>9. probe.stage \in 1..6 BY DEF StaticCourse
<1>10. CASE probe.stage = 1
  <2>1. s = Approve("manager", 0, c.mint[0]) BY <1>6, <1>7, <1>10
  <2>2. Runs(s) BY <2>1 DEF Runs, Approve
  <2>3. /\ Onward(probe, q) /\ q.nft = probe.nft /\ q.wallet = probe.wallet
        /\ q.allow["manager"][0] = c.mint[0]
        /\ \A r \in Spender, u \in Token :
             r # "manager" \/ u # 0 => q.allow[r][u] = probe.allow[r][u]
    BY <1>3, <1>8, <2>1, ApproveStep
  <2>4. q.stage = 2 /\ q.c = c /\ ~q.nft BY <1>1, <1>10, <2>3 DEF StaticCourse, Onward
  <2>5. ASSUME NEW t \in Token PROVE StaticHolding(q, t)
    <3>1. /\ probe.allow["router"][t] = 0 /\ probe.wallet[t] = c.mint[t]
          /\ 1 > 1 + t => probe.allow["manager"][t] = c.mint[t]
      BY <1>1, <1>10 DEF StaticCourse, StaticHolding
    <3>2. q.allow["router"][t] = 0 /\ q.wallet[t] = c.mint[t] BY <1>8, <2>3, <3>1
    <3>3. 2 > 1 + t => q.allow["manager"][t] = c.mint[t] BY <1>8, <2>3, <3>1
    <3>. QED BY <2>4, <3>2, <3>3 DEF StaticHolding
  <2>6. q.stage \in 1..7 /\ (q.nft <=> q.stage = 4) BY <2>4
  <2>7. Cleared(q, 7, 5) BY <1>8, <2>4 DEF Cleared
  <2>. QED BY <2>2, <2>3, <2>5, <2>6, <2>7, Zenon DEF StaticCourse
<1>11. CASE probe.stage = 2
  <2>1. s = Approve("manager", 1, c.mint[1]) BY <1>6, <1>7, <1>11
  <2>2. Runs(s) BY <2>1 DEF Runs, Approve
  <2>3. /\ Onward(probe, q) /\ q.nft = probe.nft /\ q.wallet = probe.wallet
        /\ q.allow["manager"][1] = c.mint[1]
        /\ \A r \in Spender, u \in Token :
             r # "manager" \/ u # 1 => q.allow[r][u] = probe.allow[r][u]
    BY <1>3, <1>8, <2>1, ApproveStep
  <2>4. q.stage = 3 /\ q.c = c /\ ~q.nft BY <1>1, <1>11, <2>3 DEF StaticCourse, Onward
  <2>5. ASSUME NEW t \in Token PROVE StaticHolding(q, t)
    <3>1. /\ probe.allow["router"][t] = 0 /\ probe.wallet[t] = c.mint[t]
          /\ 2 > 1 + t => probe.allow["manager"][t] = c.mint[t]
      BY <1>1, <1>11 DEF StaticCourse, StaticHolding
    <3>2. q.allow["router"][t] = 0 /\ q.wallet[t] = c.mint[t] BY <1>8, <2>3, <3>1
    <3>3. 3 > 1 + t => q.allow["manager"][t] = c.mint[t] BY <1>8, <2>3, <3>1
    <3>. QED BY <2>4, <3>2, <3>3 DEF StaticHolding
  <2>6. q.stage \in 1..7 /\ (q.nft <=> q.stage = 4) BY <2>4
  <2>7. Cleared(q, 7, 5) BY <1>8, <2>4 DEF Cleared
  <2>. QED BY <2>2, <2>3, <2>5, <2>6, <2>7, Zenon DEF StaticCourse
<1>12. CASE probe.stage = 3
  <2>1. s = Mint BY <1>6, <1>7, <1>12
  <2>2. Runs(s) BY <1>1, <1>3, <1>8, <1>12, <2>1 DEF Runs, Mint, StaticCourse, StaticHolding
  <2>3. /\ Onward(probe, q) /\ q.nft
        /\ \A t \in Token : q.allow["router"][t] = probe.allow["router"][t]
    BY <2>1, MintStep
  <2>4. q.stage = 4 BY <1>12, <2>3 DEF Onward
  <2>5. ASSUME NEW t \in Token PROVE StaticHolding(q, t)
    <3>1. q.allow["router"][t] = 0 BY <2>3 DEF StaticCourse, StaticHolding
    <3>. QED BY <2>4, <3>1 DEF StaticHolding
  <2>6. q.stage \in 1..7 /\ (q.nft <=> q.stage = 4) BY <2>3, <2>4
  <2>7. Cleared(q, 7, 5) BY <1>8, <2>4 DEF Cleared
  <2>. QED BY <2>2, <2>3, <2>5, <2>6, <2>7, Zenon DEF StaticCourse
<1>13. CASE probe.stage = 4
  <2>1. s = Withdraw BY <1>6, <1>7, <1>13
  <2>2. Runs(s) BY <1>13, <2>1 DEF Runs, Withdraw, StaticCourse
  <2>3. Onward(probe, q) /\ ~q.nft /\ q.allow = probe.allow BY <2>1, WithdrawStep
  <2>4. q.stage = 5 BY <1>13, <2>3 DEF Onward
  <2>5. ASSUME NEW t \in Token PROVE StaticHolding(q, t)
    <3>1. q.allow["router"][t] = 0 BY <2>3 DEF StaticCourse, StaticHolding
    <3>. QED BY <2>4, <3>1 DEF StaticHolding
  <2>6. q.stage \in 1..7 /\ (q.nft <=> q.stage = 4) BY <2>3, <2>4
  <2>7. Cleared(q, 7, 5) BY <1>8, <2>4 DEF Cleared
  <2>. QED BY <2>2, <2>3, <2>5, <2>6, <2>7, Zenon DEF StaticCourse
<1>14. CASE probe.stage = 5
  <2>1. s = Approve("manager", 0, 0) BY <1>6, <1>7, <1>14
  <2>2. Runs(s) BY <2>1 DEF Runs, Approve
  <2>3. /\ Onward(probe, q) /\ q.nft = probe.nft
        /\ q.allow["manager"][0] = 0
        /\ \A r \in Spender, u \in Token :
             r # "manager" \/ u # 0 => q.allow[r][u] = probe.allow[r][u]
    BY <1>8, <2>1, ApproveStep
  <2>4. q.stage = 6 /\ ~q.nft BY <1>14, <2>3 DEF StaticCourse, Onward
  <2>5. ASSUME NEW t \in Token PROVE StaticHolding(q, t)
    <3>1. q.allow["router"][t] = 0 BY <1>8, <2>3 DEF StaticCourse, StaticHolding
    <3>. QED BY <2>4, <3>1 DEF StaticHolding
  <2>6. q.stage \in 1..7 /\ (q.nft <=> q.stage = 4) BY <2>4
  <2>7. Cleared(q, 7, 5) BY <1>8, <2>3, <2>4 DEF Cleared
  <2>. QED BY <2>2, <2>3, <2>5, <2>6, <2>7, Zenon DEF StaticCourse
<1>15. CASE probe.stage = 6
  <2>1. s = Approve("manager", 1, 0) BY <1>6, <1>7, <1>15
  <2>2. Runs(s) BY <2>1 DEF Runs, Approve
  <2>3. /\ Onward(probe, q) /\ q.nft = probe.nft
        /\ q.allow["manager"][1] = 0
        /\ \A r \in Spender, u \in Token :
             r # "manager" \/ u # 1 => q.allow[r][u] = probe.allow[r][u]
    BY <1>8, <2>1, ApproveStep
  <2>4. q.stage = 7 /\ ~q.nft BY <1>15, <2>3 DEF StaticCourse, Onward
  <2>5. ASSUME NEW t \in Token PROVE StaticHolding(q, t)
    <3>1. q.allow["router"][t] = 0 BY <1>8, <2>3 DEF StaticCourse, StaticHolding
    <3>. QED BY <2>4, <3>1 DEF StaticHolding
  <2>6. q.stage \in 1..7 /\ (q.nft <=> q.stage = 4) BY <2>4
  <2>7. Cleared(q, 7, 5) BY <1>8, <1>15, <2>3, <2>4 DEF StaticCourse, Cleared
  <2>. QED BY <2>2, <2>3, <2>5, <2>6, <2>7, Zenon DEF StaticCourse
<1>. QED BY <1>9, <1>10, <1>11, <1>12, <1>13, <1>14, <1>15

\* Taking an allowance back, whichever of the two spenders comes first.
LEMMA Clearing ==
  ASSUME probe \in Probes, NEW r \in Int, NEW m \in Int, r + 2 <= m \/ m + 2 <= r,
         Cleared(probe, r, m), NEW t \in Token, NEW e \in Spender,
         (e = "router" /\ probe.stage = r + t) \/ (e = "manager" /\ probe.stage = m + t),
         NEW s, s = Approve(e, t, 0), NEW q, q = Step(s)
  PROVE  /\ Runs(s) /\ Onward(probe, q) /\ Cleared(q, r, m)
         /\ q.nft = probe.nft /\ q.wallet = probe.wallet
<1>1. Runs(s) BY DEF Runs, Approve
<1>2. /\ Onward(probe, q) /\ q.nft = probe.nft /\ q.wallet = probe.wallet
      /\ q.allow[e][t] = 0
      /\ \A d \in Spender, u \in Token : d # e \/ u # t => q.allow[d][u] = probe.allow[d][u]
  BY ApproveStep
<1>3. "manager" \in Spender /\ "router" \in Spender BY DEF Spender
<1>4. ASSUME NEW u \in Token
      PROVE  /\ q.stage > r + u => q.allow["router"][u] = 0
             /\ q.stage > m + u => q.allow["manager"][u] = 0
  <2>1. /\ probe.stage > r + u => probe.allow["router"][u] = 0
        /\ probe.stage > m + u => probe.allow["manager"][u] = 0
    BY DEF Cleared
  <2>2. q.stage = probe.stage + 1 /\ probe.stage \in Nat BY <1>2 DEF Onward, Probes
  <2>3. u \in 0..1 /\ t \in 0..1 BY DEF Token
  <2>4. q.stage > r + u => (e = "router" /\ u = t) \/ probe.stage > r + u BY <2>2, <2>3
  <2>5. q.stage > m + u => (e = "manager" /\ u = t) \/ probe.stage > m + u BY <2>2, <2>3
  <2>6. q.stage > r + u => q.allow["router"][u] = 0
    BY <1>2, <1>3, <2>1, <2>4
  <2>7. q.stage > m + u => q.allow["manager"][u] = 0
    BY <1>2, <1>3, <2>1, <2>5
  <2>. QED BY <2>6, <2>7
<1>5. Cleared(q, r, m) BY <1>4 DEF Cleared
<1>. QED BY <1>1, <1>2, <1>3, <1>5

\* The same for the exit that keeps both tokens.
LEMMA RetainStep ==
  ASSUME probe \in Probes, probe.kind = "retain_exit", Chosen(probe), RetainCourse(probe),
         probe.stage <= 5, NEW s, s = Stages(probe.kind, probe.c, probe.risk)[probe.stage],
         NEW q, q = Step(s)
  PROVE  Runs(s) /\ Onward(probe, q) /\ RetainCourse(q)
<1>1. PICK c : c = probe.c OBVIOUS
<1>2. c \in Candidates /\ probe.risk \in Token BY <1>1 DEF Chosen, Probes
<1>3. PICK z : z = RANGEKEEPER_PAPER_RETAIN_EXIT_STAGES OBVIOUS
<1>4. s = z[probe.stage] BY <1>1, <1>3 DEF Stages, StaticConvert
<1>5. /\ z[1] = Withdraw
      /\ z[2] = Approve("router", 0, 0)
      /\ z[3] = Approve("router", 1, 0)
      /\ z[4] = Approve("manager", 0, 0)
      /\ z[5] = Approve("manager", 1, 0)
  BY <1>2, <1>3, RetainStages
<1>6. "manager" \in Spender /\ "router" \in Spender /\ 0 \in Token /\ 1 \in Token
      /\ \A t \in Token : t = 0 \/ t = 1
  BY DEF Spender, Token
<1>7. probe.stage \in 1..5 BY DEF RetainCourse
<1>8. CASE probe.stage = 1
  <2>1. s = Withdraw BY <1>4, <1>5, <1>8
  <2>2. Runs(s) BY <1>8, <2>1 DEF Runs, Withdraw, RetainCourse
  <2>3. Onward(probe, q) /\ ~q.nft /\ q.allow = probe.allow BY <2>1, WithdrawStep
  <2>4. RetainCourse(q) BY <1>6, <1>8, <2>3 DEF RetainCourse, Cleared, Onward
  <2>. QED BY <2>2, <2>3, <2>4
<1>9. CASE probe.stage \in 2..5
  <2>1. PICK e \in Spender, t \in Token :
          /\ s = Approve(e, t, 0)
          /\ (e = "router" /\ probe.stage = 2 + t) \/ (e = "manager" /\ probe.stage = 4 + t)
    <3>1. CASE probe.stage \in {2, 3}
      BY <1>4, <1>5, <1>6, <3>1
    <3>2. CASE probe.stage \in {4, 5}
      BY <1>4, <1>5, <1>6, <3>2
    <3>. QED BY <1>9, <3>1, <3>2
  <2>2. Cleared(probe, 2, 4) BY DEF RetainCourse
  <2>3. /\ Runs(s) /\ Onward(probe, q) /\ Cleared(q, 2, 4)
        /\ q.nft = probe.nft /\ q.wallet = probe.wallet
    BY <2>1, <2>2, Clearing
  <2>4. q.stage \in 3..6 BY <1>9, <2>3 DEF Onward
  <2>5. ~q.nft BY <1>9, <2>3 DEF RetainCourse
  <2>6. q.stage \in 1..6 /\ q.stage # 1 BY <2>4
  <2>7. RetainCourse(q) BY <1>9, <2>3, <2>5, <2>6 DEF RetainCourse, Onward
  <2>. QED BY <2>3, <2>7
<1>. QED BY <1>7, <1>8, <1>9

\* The same for an entry without a swap and its exit.
LEMMA PlainStep ==
  ASSUME probe \in Probes, probe.kind = "open", probe.c.in = 0, Chosen(probe), PlainCourse(probe),
         probe.stage <= 8, NEW s, s = Stages(probe.kind, probe.c, probe.risk)[probe.stage],
         NEW q, q = Step(s)
  PROVE  Runs(s) /\ Onward(probe, q) /\ PlainCourse(q)
<1>1. PICK c : c = probe.c OBVIOUS
<1>2. c \in Candidates /\ probe.risk \in Token BY <1>1 DEF Chosen, Probes
<1>3. PICK z : z = Stages("open", c, probe.risk) OBVIOUS
<1>4. s = z[probe.stage] BY <1>1, <1>3 DEF Stages, StaticConvert
<1>5. /\ z[1] = Approve("manager", 0, c.funds[0])
      /\ z[2] = Approve("manager", 1, c.funds[1])
      /\ z[3] = Mint
      /\ z[4] = Withdraw
      /\ z[5] = Approve("router", 0, 0)
      /\ z[6] = Approve("router", 1, 0)
      /\ z[7] = Approve("manager", 0, 0)
      /\ z[8] = Approve("manager", 1, 0)
  BY <1>1, <1>3, PlainStages
<1>6. "manager" \in Spender /\ "router" \in Spender /\ 0 \in Token /\ 1 \in Token
      /\ \A t \in Token : t = 0 \/ t = 1
  BY DEF Spender, Token
<1>7. probe.stage \in 1..8 BY DEF PlainCourse
<1>8. /\ c.in = 0
      /\ \A t \in Token :
           /\ c.funds[t] \in Int /\ c.mint[t] \in Int /\ c.mint[t] <= c.funds[t]
           /\ FutureCap(c, t) = c.funds[t]
  BY <1>1, <1>2, CandidateFacts
<1>9. CASE probe.stage = 1
  <2>1. s = Approve("manager", 0, c.funds[0]) BY <1>4, <1>5, <1>9
  <2>2. Runs(s) BY <2>1 DEF Runs, Approve
  <2>3. /\ Onward(probe, q) /\ q.nft = probe.nft /\ q.wallet = probe.wallet
        /\ q.allow["manager"][0] = c.funds[0]
        /\ \A r \in Spender, u \in Token :
             r # "manager" \/ u # 0 => q.allow[r][u] = probe.allow[r][u]
    BY <1>6, <1>8, <2>1, ApproveStep
  <2>4. q.stage = 2 /\ q.c = c /\ ~q.nft BY <1>1, <1>9, <2>3 DEF PlainCourse, Onward
  <2>5. ASSUME NEW t \in Token PROVE PlainHolding(q, t)
    <3>1. /\ probe.allow["router"][t] = 0 /\ probe.wallet[t] = c.funds[t]
          /\ 1 > 1 + t => probe.allow["manager"][t] = c.funds[t]
      BY <1>1, <1>9 DEF PlainCourse, PlainHolding
    <3>2. q.allow["router"][t] = 0 /\ q.wallet[t] = c.funds[t] BY <1>6, <2>3, <3>1
    <3>3. 2 > 1 + t => q.allow["manager"][t] = c.funds[t] BY <1>6, <2>3, <3>1
    <3>. QED BY <2>4, <3>2, <3>3 DEF PlainHolding
  <2>6. q.stage \in 1..9 /\ (q.nft <=> q.stage = 4) BY <2>4
  <2>7. Cleared(q, 5, 7) BY <1>6, <2>4 DEF Cleared
  <2>. QED BY <2>2, <2>3, <2>5, <2>6, <2>7, Zenon DEF PlainCourse
<1>10. CASE probe.stage = 2
  <2>1. s = Approve("manager", 1, c.funds[1]) BY <1>4, <1>5, <1>10
  <2>2. Runs(s) BY <2>1 DEF Runs, Approve
  <2>3. /\ Onward(probe, q) /\ q.nft = probe.nft /\ q.wallet = probe.wallet
        /\ q.allow["manager"][1] = c.funds[1]
        /\ \A r \in Spender, u \in Token :
             r # "manager" \/ u # 1 => q.allow[r][u] = probe.allow[r][u]
    BY <1>6, <1>8, <2>1, ApproveStep
  <2>4. q.stage = 3 /\ q.c = c /\ ~q.nft BY <1>1, <1>10, <2>3 DEF PlainCourse, Onward
  <2>5. ASSUME NEW t \in Token PROVE PlainHolding(q, t)
    <3>1. /\ probe.allow["router"][t] = 0 /\ probe.wallet[t] = c.funds[t]
          /\ 2 > 1 + t => probe.allow["manager"][t] = c.funds[t]
      BY <1>1, <1>10 DEF PlainCourse, PlainHolding
    <3>2. q.allow["router"][t] = 0 /\ q.wallet[t] = c.funds[t] BY <1>6, <2>3, <3>1
    <3>3. 3 > 1 + t => q.allow["manager"][t] = c.funds[t] BY <1>6, <2>3, <3>1
    <3>. QED BY <2>4, <3>2, <3>3 DEF PlainHolding
  <2>6. q.stage \in 1..9 /\ (q.nft <=> q.stage = 4) BY <2>4
  <2>7. Cleared(q, 5, 7) BY <1>6, <2>4 DEF Cleared
  <2>. QED BY <2>2, <2>3, <2>5, <2>6, <2>7, Zenon DEF PlainCourse
<1>11. CASE probe.stage = 3
  <2>1. s = Mint BY <1>4, <1>5, <1>11
  <2>2. /\ \A t \in Token : probe.wallet[t] = c.funds[t] /\ probe.allow["manager"][t] = c.funds[t]
        /\ \A t \in Token : probe.allow["router"][t] = 0
    BY <1>1, <1>6, <1>11 DEF PlainCourse, PlainHolding
  <2>3. Runs(s) BY <1>1, <1>8, <2>1, <2>2 DEF Runs, Mint
  <2>4. /\ Onward(probe, q) /\ q.nft
        /\ \A t \in Token :
             /\ q.allow["manager"][t] = probe.allow["manager"][t] - probe.c.mint[t]
             /\ q.allow["router"][t] = probe.allow["router"][t]
    BY <2>1, MintStep
  <2>5. q.stage = 4 /\ q.c = c BY <1>1, <1>11, <2>4 DEF Onward
  <2>6. ASSUME NEW t \in Token PROVE PlainHolding(q, t)
    <3>1. q.allow["manager"][t] = c.funds[t] - c.mint[t] /\ q.allow["router"][t] = 0
      BY <1>1, <2>2, <2>4
    <3>. QED BY <2>5, <3>1 DEF PlainHolding
  <2>7. q.stage \in 1..9 /\ (q.nft <=> q.stage = 4) BY <2>4, <2>5
  <2>8. Cleared(q, 5, 7) BY <1>6, <2>5 DEF Cleared
  <2>. QED BY <2>3, <2>4, <2>6, <2>7, <2>8, Zenon DEF PlainCourse
<1>12. CASE probe.stage = 4
  <2>1. s = Withdraw BY <1>4, <1>5, <1>12
  <2>2. Runs(s) BY <1>12, <2>1 DEF Runs, Withdraw, PlainCourse
  <2>3. Onward(probe, q) /\ ~q.nft /\ q.allow = probe.allow BY <2>1, WithdrawStep
  <2>4. q.stage = 5 BY <1>12, <2>3 DEF Onward
  <2>5. ASSUME NEW t \in Token PROVE PlainHolding(q, t) BY <2>4 DEF PlainHolding
  <2>6. q.stage \in 1..9 /\ (q.nft <=> q.stage = 4) BY <2>3, <2>4
  <2>7. Cleared(q, 5, 7) BY <1>6, <2>4 DEF Cleared
  <2>. QED BY <2>2, <2>3, <2>5, <2>6, <2>7, Zenon DEF PlainCourse
<1>13. CASE probe.stage \in 5..8
  <2>1. PICK e \in Spender, t \in Token :
          /\ s = Approve(e, t, 0)
          /\ (e = "router" /\ probe.stage = 5 + t) \/ (e = "manager" /\ probe.stage = 7 + t)
    <3>1. CASE probe.stage \in {5, 6}
      BY <1>4, <1>5, <1>6, <3>1
    <3>2. CASE probe.stage \in {7, 8}
      BY <1>4, <1>5, <1>6, <3>2
    <3>. QED BY <1>13, <3>1, <3>2
  <2>2. Cleared(probe, 5, 7) BY DEF PlainCourse
  <2>3. /\ Runs(s) /\ Onward(probe, q) /\ Cleared(q, 5, 7)
        /\ q.nft = probe.nft /\ q.wallet = probe.wallet
    BY <2>1, <2>2, Clearing
  <2>4. q.stage \in 6..9 /\ ~q.nft BY <1>13, <2>3 DEF PlainCourse, Onward
  <2>5. ASSUME NEW u \in Token PROVE PlainHolding(q, u) BY <2>4 DEF PlainHolding
  <2>6. q.stage \in 1..9 /\ (q.nft <=> q.stage = 4) BY <2>4
  <2>. QED BY <2>3, <2>5, <2>6, Zenon DEF PlainCourse
<1>. QED BY <1>7, <1>9, <1>10, <1>11, <1>12, <1>13

\* What an exit converts is an amount, none of it negative.
LEMMA ConvertedTyped ==
  ASSUME NEW c \in Candidates, NEW t \in Token
  PROVE  /\ Converted(c, t) \in Int /\ IdleTokens(c)[t] \in Int /\ Principal(c)[t] \in Int
<1>1. rangeKeeperPaperCandidateFunding(c)[t] \in Int /\ \A u \in Token : c.mint[u] \in Int
  BY CandidateFacts
<1>2. IdleTokens(c)[t] \in Int BY <1>1 DEF IdleTokens
<1>3. Principal(c)[t] \in Int BY <1>1 DEF Principal, Other, Token
<1>. QED BY <1>2, <1>3 DEF Converted

\* The same for the converting exit.
LEMMA ConvertStep ==
  ASSUME probe \in Probes, probe.kind = "convert_exit", Chosen(probe), ConvertCourse(probe, 4, 6),
         probe.stage <= 7, NEW s, s = Stages(probe.kind, probe.c, probe.risk)[probe.stage],
         NEW q, q = Step(s)
  PROVE  Runs(s) /\ Onward(probe, q) /\ ConvertCourse(q, 4, 6)
<1>1. PICK c : c = probe.c OBVIOUS
<1>2. c \in Candidates /\ probe.risk \in Token BY <1>1 DEF Chosen, Probes
<1>3. PICK z : z = RANGEKEEPER_PAPER_CONVERT_EXIT_STAGES(c, probe.risk) OBVIOUS
<1>4. s = z[probe.stage] BY <1>1, <1>3 DEF Stages, StaticConvert
<1>5. /\ z[1] = Withdraw
      /\ z[2] = Approve("router", probe.risk, Converted(c, probe.risk))
      /\ z[3] = Swap(probe.risk, Converted(c, probe.risk))
      /\ z[4] = Approve("router", 0, 0)
      /\ z[5] = Approve("router", 1, 0)
      /\ z[6] = Approve("manager", 0, 0)
      /\ z[7] = Approve("manager", 1, 0)
  BY <1>2, <1>3, ConvertStages
<1>6. "manager" \in Spender /\ "router" \in Spender /\ 0 \in Token /\ 1 \in Token
      /\ \A t \in Token : t = 0 \/ t = 1
  BY DEF Spender, Token
<1>7. probe.stage \in 1..7 BY DEF ConvertCourse
<1>8. /\ Converted(c, probe.risk) \in Int
      /\ Converted(c, probe.risk) = IdleTokens(c)[probe.risk] + Principal(c)[probe.risk]
  BY <1>2, ConvertedTyped DEF Converted
<1>9. CASE probe.stage = 1
  <2>1. s = Withdraw BY <1>4, <1>5, <1>9
  <2>2. Runs(s) BY <1>9, <2>1 DEF Runs, Withdraw, ConvertCourse
  <2>3. /\ Onward(probe, q) /\ ~q.nft /\ q.allow = probe.allow
        /\ \A t \in Token : q.wallet[t] = probe.wallet[t] + Principal(probe.c)[t]
    BY <2>1, WithdrawStep
  <2>4. probe.wallet[probe.risk] = IdleTokens(c)[probe.risk]
    BY <1>1, <1>2, <1>9 DEF ConvertCourse, ConvertHolding
  <2>5. q.wallet[q.risk] = Converted(q.c, q.risk) BY <1>1, <1>2, <1>8, <2>3, <2>4 DEF Onward
  <2>6. q.stage = 2 /\ ~q.nft BY <1>9, <2>3 DEF Onward
  <2>7. ConvertHolding(q) BY <2>5, <2>6 DEF ConvertHolding
  <2>8. q.stage \in 1..8 /\ (q.nft <=> q.stage = 1) BY <2>6
  <2>9. Cleared(q, 4, 6) BY <1>6, <2>6 DEF Cleared
  <2>. QED BY <2>2, <2>3, <2>7, <2>8, <2>9, Zenon DEF ConvertCourse
<1>10. CASE probe.stage = 2
  <2>1. s = Approve("router", probe.risk, Converted(c, probe.risk)) BY <1>4, <1>5, <1>10
  <2>2. Runs(s) BY <2>1 DEF Runs, Approve
  <2>3. /\ Onward(probe, q) /\ q.nft = probe.nft /\ q.wallet = probe.wallet
        /\ q.allow["router"][probe.risk] = Converted(c, probe.risk)
    BY <1>2, <1>6, <1>8, <2>1, ApproveStep
  <2>4. probe.wallet[probe.risk] = Converted(c, probe.risk)
    BY <1>1, <1>10 DEF ConvertCourse, ConvertHolding
  <2>5. /\ q.wallet[q.risk] = Converted(q.c, q.risk)
        /\ q.allow["router"][q.risk] = Converted(q.c, q.risk)
    BY <1>1, <2>3, <2>4 DEF Onward
  <2>6. q.stage = 3 /\ ~q.nft BY <1>10, <2>3 DEF ConvertCourse, Onward
  <2>7. ConvertHolding(q) BY <2>5, <2>6 DEF ConvertHolding
  <2>8. q.stage \in 1..8 /\ (q.nft <=> q.stage = 1) BY <2>6
  <2>9. Cleared(q, 4, 6) BY <1>6, <2>6 DEF Cleared
  <2>. QED BY <2>2, <2>3, <2>7, <2>8, <2>9, Zenon DEF ConvertCourse
<1>11. CASE probe.stage = 3
  <2>1. s = Swap(probe.risk, Converted(c, probe.risk)) BY <1>4, <1>5, <1>11
  <2>2. /\ probe.wallet[probe.risk] = Converted(c, probe.risk)
        /\ probe.allow["router"][probe.risk] = Converted(c, probe.risk)
    BY <1>1, <1>11 DEF ConvertCourse, ConvertHolding
  <2>3. Runs(s) BY <1>8, <2>1, <2>2 DEF Runs, Swap
  <2>4. /\ Onward(probe, q) /\ q.nft = probe.nft
        /\ q.wallet[probe.risk] = probe.wallet[probe.risk] - Converted(c, probe.risk)
    BY <1>2, <1>8, <2>1, SwapStep
  <2>5. q.wallet[q.risk] = 0 BY <1>8, <2>2, <2>4 DEF Onward
  <2>6. q.stage = 4 /\ ~q.nft BY <1>11, <2>4 DEF ConvertCourse, Onward
  <2>7. ConvertHolding(q) BY <2>5, <2>6 DEF ConvertHolding
  <2>8. q.stage \in 1..8 /\ (q.nft <=> q.stage = 1) BY <2>6
  <2>9. Cleared(q, 4, 6) BY <1>6, <2>6 DEF Cleared
  <2>. QED BY <2>3, <2>4, <2>7, <2>8, <2>9, Zenon DEF ConvertCourse
<1>12. CASE probe.stage \in 4..7
  <2>1. PICK e \in Spender, t \in Token :
          /\ s = Approve(e, t, 0)
          /\ (e = "router" /\ probe.stage = 4 + t) \/ (e = "manager" /\ probe.stage = 6 + t)
    <3>1. CASE probe.stage \in {4, 5}
      BY <1>4, <1>5, <1>6, <3>1
    <3>2. CASE probe.stage \in {6, 7}
      BY <1>4, <1>5, <1>6, <3>2
    <3>. QED BY <1>12, <3>1, <3>2
  <2>2. Cleared(probe, 4, 6) BY DEF ConvertCourse
  <2>3. /\ Runs(s) /\ Onward(probe, q) /\ Cleared(q, 4, 6)
        /\ q.nft = probe.nft /\ q.wallet = probe.wallet
    BY <2>1, <2>2, Clearing
  <2>4. q.stage \in 5..8 /\ ~q.nft BY <1>12, <2>3 DEF ConvertCourse, Onward
  <2>5. probe.wallet[probe.risk] = 0 BY <1>12 DEF ConvertCourse, ConvertHolding
  <2>6. q.wallet[q.risk] = 0 BY <2>3, <2>5 DEF Onward
  <2>7. ConvertHolding(q) BY <2>4, <2>6 DEF ConvertHolding
  <2>8. q.stage \in 1..8 /\ (q.nft <=> q.stage = 1) BY <2>4
  <2>. QED BY <2>3, <2>7, <2>8, Zenon DEF ConvertCourse
<1>. QED BY <1>7, <1>9, <1>10, <1>11, <1>12

\* The same for the static converting close.
LEMMA StaticConvertStep ==
  ASSUME probe \in Probes, probe.kind \in StaticConvert, Chosen(probe), ConvertCourse(probe, 6, 4),
         probe.stage <= 7, NEW s, s = Stages(probe.kind, probe.c, probe.risk)[probe.stage],
         NEW q, q = Step(s)
  PROVE  Runs(s) /\ Onward(probe, q) /\ ConvertCourse(q, 6, 4)
<1>1. PICK c : c = probe.c OBVIOUS
<1>2. c \in Candidates /\ probe.risk \in Token BY <1>1 DEF Chosen, Probes
<1>3. PICK z : z = PAPER_STATIC_CONVERT_GAS_STAGES_V2(c, probe.risk) OBVIOUS
<1>4. s = z[probe.stage] BY <1>1, <1>3 DEF Stages, StaticConvert
<1>5. /\ z[1] = Withdraw
      /\ z[2] = Approve("router", probe.risk, Converted(c, probe.risk))
      /\ z[3] = Swap(probe.risk, Converted(c, probe.risk))
      /\ z[4] = Approve("manager", 0, 0)
      /\ z[5] = Approve("manager", 1, 0)
      /\ z[6] = Approve("router", 0, 0)
      /\ z[7] = Approve("router", 1, 0)
  BY <1>2, <1>3, StaticConvertStages
<1>6. "manager" \in Spender /\ "router" \in Spender /\ 0 \in Token /\ 1 \in Token
      /\ \A t \in Token : t = 0 \/ t = 1
  BY DEF Spender, Token
<1>7. probe.stage \in 1..7 BY DEF ConvertCourse
<1>8. /\ Converted(c, probe.risk) \in Int
      /\ Converted(c, probe.risk) = IdleTokens(c)[probe.risk] + Principal(c)[probe.risk]
  BY <1>2, ConvertedTyped DEF Converted
<1>9. CASE probe.stage = 1
  <2>1. s = Withdraw BY <1>4, <1>5, <1>9
  <2>2. Runs(s) BY <1>9, <2>1 DEF Runs, Withdraw, ConvertCourse
  <2>3. /\ Onward(probe, q) /\ ~q.nft /\ q.allow = probe.allow
        /\ \A t \in Token : q.wallet[t] = probe.wallet[t] + Principal(probe.c)[t]
    BY <2>1, WithdrawStep
  <2>4. probe.wallet[probe.risk] = IdleTokens(c)[probe.risk]
    BY <1>1, <1>2, <1>9 DEF ConvertCourse, ConvertHolding
  <2>5. q.wallet[q.risk] = Converted(q.c, q.risk) BY <1>1, <1>2, <1>8, <2>3, <2>4 DEF Onward
  <2>6. q.stage = 2 /\ ~q.nft BY <1>9, <2>3 DEF Onward
  <2>7. ConvertHolding(q) BY <2>5, <2>6 DEF ConvertHolding
  <2>8. q.stage \in 1..8 /\ (q.nft <=> q.stage = 1) BY <2>6
  <2>9. Cleared(q, 6, 4) BY <1>6, <2>6 DEF Cleared
  <2>. QED BY <2>2, <2>3, <2>7, <2>8, <2>9, Zenon DEF ConvertCourse
<1>10. CASE probe.stage = 2
  <2>1. s = Approve("router", probe.risk, Converted(c, probe.risk)) BY <1>4, <1>5, <1>10
  <2>2. Runs(s) BY <2>1 DEF Runs, Approve
  <2>3. /\ Onward(probe, q) /\ q.nft = probe.nft /\ q.wallet = probe.wallet
        /\ q.allow["router"][probe.risk] = Converted(c, probe.risk)
    BY <1>2, <1>6, <1>8, <2>1, ApproveStep
  <2>4. probe.wallet[probe.risk] = Converted(c, probe.risk)
    BY <1>1, <1>10 DEF ConvertCourse, ConvertHolding
  <2>5. /\ q.wallet[q.risk] = Converted(q.c, q.risk)
        /\ q.allow["router"][q.risk] = Converted(q.c, q.risk)
    BY <1>1, <2>3, <2>4 DEF Onward
  <2>6. q.stage = 3 /\ ~q.nft BY <1>10, <2>3 DEF ConvertCourse, Onward
  <2>7. ConvertHolding(q) BY <2>5, <2>6 DEF ConvertHolding
  <2>8. q.stage \in 1..8 /\ (q.nft <=> q.stage = 1) BY <2>6
  <2>9. Cleared(q, 6, 4) BY <1>6, <2>6 DEF Cleared
  <2>. QED BY <2>2, <2>3, <2>7, <2>8, <2>9, Zenon DEF ConvertCourse
<1>11. CASE probe.stage = 3
  <2>1. s = Swap(probe.risk, Converted(c, probe.risk)) BY <1>4, <1>5, <1>11
  <2>2. /\ probe.wallet[probe.risk] = Converted(c, probe.risk)
        /\ probe.allow["router"][probe.risk] = Converted(c, probe.risk)
    BY <1>1, <1>11 DEF ConvertCourse, ConvertHolding
  <2>3. Runs(s) BY <1>8, <2>1, <2>2 DEF Runs, Swap
  <2>4. /\ Onward(probe, q) /\ q.nft = probe.nft
        /\ q.wallet[probe.risk] = probe.wallet[probe.risk] - Converted(c, probe.risk)
    BY <1>2, <1>8, <2>1, SwapStep
  <2>5. q.wallet[q.risk] = 0 BY <1>8, <2>2, <2>4 DEF Onward
  <2>6. q.stage = 4 /\ ~q.nft BY <1>11, <2>4 DEF ConvertCourse, Onward
  <2>7. ConvertHolding(q) BY <2>5, <2>6 DEF ConvertHolding
  <2>8. q.stage \in 1..8 /\ (q.nft <=> q.stage = 1) BY <2>6
  <2>9. Cleared(q, 6, 4) BY <1>6, <2>6 DEF Cleared
  <2>. QED BY <2>3, <2>4, <2>7, <2>8, <2>9, Zenon DEF ConvertCourse
<1>12. CASE probe.stage \in 4..7
  <2>1. PICK e \in Spender, t \in Token :
          /\ s = Approve(e, t, 0)
          /\ (e = "router" /\ probe.stage = 6 + t) \/ (e = "manager" /\ probe.stage = 4 + t)
    <3>1. CASE probe.stage \in {4, 5}
      BY <1>4, <1>5, <1>6, <3>1
    <3>2. CASE probe.stage \in {6, 7}
      BY <1>4, <1>5, <1>6, <3>2
    <3>. QED BY <1>12, <3>1, <3>2
  <2>2. Cleared(probe, 6, 4) BY DEF ConvertCourse
  <2>3. /\ Runs(s) /\ Onward(probe, q) /\ Cleared(q, 6, 4)
        /\ q.nft = probe.nft /\ q.wallet = probe.wallet
    BY <2>1, <2>2, Clearing
  <2>4. q.stage \in 5..8 /\ ~q.nft BY <1>12, <2>3 DEF ConvertCourse, Onward
  <2>5. probe.wallet[probe.risk] = 0 BY <1>12 DEF ConvertCourse, ConvertHolding
  <2>6. q.wallet[q.risk] = 0 BY <2>3, <2>5 DEF Onward
  <2>7. ConvertHolding(q) BY <2>4, <2>6 DEF ConvertHolding
  <2>8. q.stage \in 1..8 /\ (q.nft <=> q.stage = 1) BY <2>4
  <2>. QED BY <2>3, <2>7, <2>8, Zenon DEF ConvertCourse
<1>. QED BY <1>7, <1>9, <1>10, <1>11, <1>12

\* The same for an entry with a swap and its exit.
LEMMA SwappedStep ==
  ASSUME probe \in Probes, probe.kind = "open", probe.c.in > 0, Chosen(probe),
     SwappedCourse(probe),
         probe.stage <= 10, NEW s, s = Stages(probe.kind, probe.c, probe.risk)[probe.stage],
         NEW q, q = Step(s)
  PROVE  Runs(s) /\ Onward(probe, q) /\ SwappedCourse(q)
<1>1. PICK c : c = probe.c OBVIOUS
<1>2. c \in Candidates /\ probe.risk \in Token BY <1>1 DEF Chosen, Probes
<1>3. PICK a \in Token, o \in Token : a = c.token /\ o = Other(a) /\ a # o
  BY <1>2, CandidateFacts DEF Other, Token
<1>4. PICK z : z = Stages("open", c, probe.risk) OBVIOUS
<1>5. s = z[probe.stage] BY <1>1, <1>4 DEF Stages, StaticConvert
<1>6. c.in \in Int /\ c.in > 0 BY <1>1, <1>2, CandidateFacts
<1>7. /\ z[1] = Approve("manager", c.token, c.funds[c.token])
       /\ z[2] = Approve("manager", Other(c.token), FutureCap(c, Other(c.token)))
       /\ z[3] = Approve("router", c.token, c.funds[c.token]) /\ z[4] = Swap(c.token, c.in)
       /\ z[5] = Mint /\ z[6] = Withdraw
       /\ z[7] = Approve("router", 0, 0) /\ z[8] = Approve("router", 1, 0)
       /\ z[9] = Approve("manager", 0, 0) /\ z[10] = Approve("manager", 1, 0)
  BY <1>4, <1>6, SwappedStages
<1>8. /\ z[1] = Approve("manager", a, c.funds[a])
      /\ z[2] = Approve("manager", o, FutureCap(c, o))
      /\ z[3] = Approve("router", a, c.funds[a])
      /\ z[4] = Swap(a, c.in)
      /\ z[5] = Mint
      /\ z[6] = Withdraw
      /\ z[7] = Approve("router", 0, 0)
      /\ z[8] = Approve("router", 1, 0)
      /\ z[9] = Approve("manager", 0, 0)
      /\ z[10] = Approve("manager", 1, 0)
  BY <1>3, <1>7
<1>9. /\ "manager" \in Spender /\ "router" \in Spender
      /\ 0 \in Token /\ 1 \in Token /\ (a = 0 \/ a = 1)
      /\ \A t \in Token : (t = 0 \/ t = 1) /\ (t = a \/ t = o)
  BY <1>3 DEF Spender, Token, Other
<1>10. probe.stage \in 1..10 BY DEF SwappedCourse
<1>11. /\ c.in \in Int /\ c.in > 0 /\ c.out \in Int
      /\ FutureCap(c, a) = c.funds[a] /\ c.in <= c.funds[a]
      /\ \A t \in Token :
           /\ c.funds[t] \in Int /\ c.mint[t] \in Int /\ FutureCap(c, t) \in Int
           /\ c.mint[t] <= FutureCap(c, t)
           /\ rangeKeeperPaperCandidateFunding(c)[t] =
                IF t = a THEN c.funds[t] - c.in ELSE c.funds[t] + c.out
           /\ c.mint[t] <= rangeKeeperPaperCandidateFunding(c)[t]
  BY <1>1, <1>2, <1>3, CandidateFacts
<1>12. c.funds[a] \in Int /\ FutureCap(c, o) \in Int BY <1>11
<1>13. probe.stage <= 6 => (probe.nft <=> probe.stage = 6) /\ probe.allow["router"][o] = 0
  BY <1>1, <1>3 DEF SwappedCourse, SwappedHolding
<1>14. CASE probe.stage = 1
  <2>1. s = Approve("manager", a, c.funds[a]) BY <1>5, <1>8, <1>14
  <2>2. Runs(s) BY <2>1 DEF Runs, Approve
  <2>3. /\ Onward(probe, q) /\ q.nft = probe.nft /\ q.wallet = probe.wallet
        /\ q.allow["manager"][a] = c.funds[a]
        /\ \A r \in Spender, u \in Token :
             r # "manager" \/ u # a => q.allow[r][u] = probe.allow[r][u]
    BY <1>9, <1>12, <2>1, ApproveStep
  <2>4. \A t \in Token : probe.wallet[t] = c.funds[t]
    BY <1>1, <1>14 DEF SwappedCourse, SwappedHolding
  <2>5. q.c = c /\ q.stage = 2 /\ ~q.nft BY <1>1, <1>13, <1>14, <2>3 DEF Onward
  <2>6. q.allow["router"][o] = 0 BY <1>9, <1>13, <1>14, <2>3
  <2>7. Cleared(q, 7, 9) BY <1>9, <2>5 DEF Cleared
  <2>8. ASSUME NEW t \in Token PROVE SwappedHolding(q, t)
    <3>1. /\ q.wallet[t] = c.funds[t] /\ (t = a => q.allow["manager"][t] = FutureCap(c, t))
          /\ (t # a => q.allow["router"][t] = 0)
      BY <1>9, <1>11, <2>3, <2>4, <2>6
    <3>2. a = q.c.token BY <1>3, <2>5
    <3>. QED BY <2>5, <3>1, <3>2 DEF SwappedHolding
  <2>9. q.stage \in 1..11 /\ (q.nft <=> q.stage = 6) BY <2>5
  <2>. QED BY <2>2, <2>3, <2>7, <2>8, <2>9, Zenon DEF SwappedCourse
<1>15. CASE probe.stage = 2
  <2>1. PICK x \in Int : x = FutureCap(c, o) /\ s = Approve("manager", o, x)
    BY <1>5, <1>8, <1>15, <1>12
  <2>2. Runs(s) BY <2>1 DEF Runs, Approve
  <2>3. /\ Onward(probe, q) /\ q.nft = probe.nft /\ q.wallet = probe.wallet
        /\ q.allow["manager"][o] = FutureCap(c, o)
        /\ \A r \in Spender, u \in Token :
             r # "manager" \/ u # o => q.allow[r][u] = probe.allow[r][u]
    BY <1>9, <2>1, ApproveStep
  <2>4. /\ \A t \in Token : probe.wallet[t] = c.funds[t]
        /\ probe.allow["manager"][a] = FutureCap(c, a)
    BY <1>1, <1>15, <1>3 DEF SwappedCourse, SwappedHolding
  <2>5. q.c = c /\ q.stage = 3 /\ ~q.nft BY <1>1, <1>13, <1>15, <2>3 DEF Onward
  <2>6. q.allow["router"][o] = 0 BY <1>9, <1>13, <1>15, <2>3
  <2>7. Cleared(q, 7, 9) BY <1>9, <2>5 DEF Cleared
  <2>8. ASSUME NEW t \in Token PROVE SwappedHolding(q, t)
    <3>1. /\ q.wallet[t] = c.funds[t] /\ q.allow["manager"][t] = FutureCap(c, t)
          /\ (t # a => q.allow["router"][t] = 0)
      BY <1>9, <1>11, <1>3, <2>3, <2>4, <2>6
    <3>2. a = q.c.token BY <1>3, <2>5
    <3>. QED BY <2>5, <3>1, <3>2 DEF SwappedHolding
  <2>9. q.stage \in 1..11 /\ (q.nft <=> q.stage = 6) BY <2>5
  <2>. QED BY <2>2, <2>3, <2>7, <2>8, <2>9, Zenon DEF SwappedCourse
<1>16. CASE probe.stage = 3
  <2>1. s = Approve("router", a, c.funds[a]) BY <1>5, <1>8, <1>16
  <2>2. Runs(s) BY <2>1 DEF Runs, Approve
  <2>3. /\ Onward(probe, q) /\ q.nft = probe.nft /\ q.wallet = probe.wallet
        /\ q.allow["router"][a] = c.funds[a]
        /\ \A r \in Spender, u \in Token :
             r # "router" \/ u # a => q.allow[r][u] = probe.allow[r][u]
    BY <1>9, <1>12, <2>1, ApproveStep
  <2>4. \A t \in Token :
          probe.wallet[t] = c.funds[t] /\ probe.allow["manager"][t] = FutureCap(c, t)
    BY <1>1, <1>16 DEF SwappedCourse, SwappedHolding
  <2>5. q.c = c /\ q.stage = 4 /\ ~q.nft BY <1>1, <1>13, <1>16, <2>3 DEF Onward
  <2>6. q.allow["router"][o] = 0 BY <1>9, <1>13, <1>16, <1>3, <2>3
  <2>7. Cleared(q, 7, 9) BY <1>9, <2>5 DEF Cleared
  <2>8. ASSUME NEW t \in Token PROVE SwappedHolding(q, t)
    <3>1. /\ q.wallet[t] = c.funds[t] /\ q.allow["manager"][t] = FutureCap(c, t)
          /\ (t # a => q.allow["router"][t] = 0) /\ (t = a => q.allow["router"][t] = c.funds[t])
      BY <1>9, <1>3, <2>3, <2>4, <2>6
    <3>2. a = q.c.token BY <1>3, <2>5
    <3>. QED BY <2>5, <3>1, <3>2 DEF SwappedHolding
  <2>9. q.stage \in 1..11 /\ (q.nft <=> q.stage = 6) BY <2>5
  <2>. QED BY <2>2, <2>3, <2>7, <2>8, <2>9, Zenon DEF SwappedCourse
<1>17. CASE probe.stage = 4
  <2>1. s = Swap(a, c.in) BY <1>5, <1>8, <1>17
  <2>2. /\ \A t \in Token :
             probe.wallet[t] = c.funds[t] /\ probe.allow["manager"][t] = FutureCap(c, t)
        /\ probe.allow["router"][a] = c.funds[a]
    BY <1>1, <1>17, <1>3 DEF SwappedCourse, SwappedHolding
  <2>3. Runs(s) BY <1>11, <2>1, <2>2 DEF Runs, Swap
  <2>4. /\ Onward(probe, q) /\ q.nft = probe.nft
        /\ q.wallet[a] = probe.wallet[a] - c.in
        /\ probe.kind = "open" => q.wallet[Other(a)] = probe.wallet[Other(a)] + probe.c.out
        /\ q.allow["router"][a] = probe.allow["router"][a] - c.in
        /\ \A r \in Spender, u \in Token :
             r # "router" \/ u # a => q.allow[r][u] = probe.allow[r][u]
    BY <1>11, <2>1, SwapStep
  <2>5. q.c = c /\ q.stage = 5 /\ ~q.nft BY <1>1, <1>13, <1>17, <2>4 DEF Onward
  <2>6. q.allow["router"][o] = 0 BY <1>9, <1>13, <1>17, <1>3, <2>4
  <2>7. Cleared(q, 7, 9) BY <1>9, <2>5 DEF Cleared
  <2>8. q.wallet[o] = c.funds[o] + c.out BY <1>1, <1>3, <2>2, <2>4
  <2>9. ASSUME NEW t \in Token PROVE SwappedHolding(q, t)
    <3>1. q.wallet[t] = rangeKeeperPaperCandidateFunding(c)[t]
      <4>1. CASE t = a BY <1>11, <2>2, <2>4, <4>1
      <4>2. CASE t = o BY <1>11, <1>3, <2>8, <4>2
      <4>. QED BY <1>9, <4>1, <4>2
    <3>2. q.allow["manager"][t] = FutureCap(c, t) BY <1>9, <2>2, <2>4
    <3>3. t # a => q.allow["router"][t] = 0 BY <1>9, <2>6
    <3>4. t = a => q.allow["router"][t] = c.funds[t] - c.in BY <2>2, <2>4
    <3>5. a = q.c.token BY <1>3, <2>5
    <3>. QED BY <2>5, <3>1, <3>2, <3>3, <3>4, <3>5 DEF SwappedHolding
  <2>10. q.stage \in 1..11 /\ (q.nft <=> q.stage = 6) BY <2>5
  <2>. QED BY <2>3, <2>4, <2>7, <2>9, <2>10, Zenon DEF SwappedCourse
<1>18. CASE probe.stage = 5
  <2>1. s = Mint BY <1>5, <1>8, <1>18
  <2>2. /\ \A t \in Token : /\ probe.wallet[t] = rangeKeeperPaperCandidateFunding(c)[t]
                           /\ probe.allow["manager"][t] = FutureCap(c, t)
        /\ probe.allow["router"][a] = c.funds[a] - c.in
    BY <1>1, <1>18, <1>3 DEF SwappedCourse, SwappedHolding
  <2>3. Runs(s) BY <1>1, <1>11, <2>1, <2>2 DEF Runs, Mint
  <2>4. /\ Onward(probe, q) /\ q.nft
        /\ \A t \in Token :
             /\ q.allow["manager"][t] = probe.allow["manager"][t] - probe.c.mint[t]
             /\ q.allow["router"][t] = probe.allow["router"][t]
    BY <2>1, MintStep
  <2>5. q.c = c /\ q.stage = 6 BY <1>1, <1>18, <2>4 DEF Onward
  <2>6. q.allow["router"][o] = 0 BY <1>13, <1>18, <2>4
  <2>7. Cleared(q, 7, 9) BY <1>9, <2>5 DEF Cleared
  <2>8. ASSUME NEW t \in Token PROVE SwappedHolding(q, t)
    <3>1. /\ q.allow["manager"][t] = FutureCap(c, t) - c.mint[t]
          /\ (t # a => q.allow["router"][t] = 0)
          /\ (t = a => q.allow["router"][t] = c.funds[t] - c.in)
      BY <1>1, <1>9, <2>2, <2>4, <2>6
    <3>2. a = q.c.token BY <1>3, <2>5
    <3>. QED BY <2>5, <3>1, <3>2 DEF SwappedHolding
  <2>9. q.stage \in 1..11 /\ (q.nft <=> q.stage = 6) BY <2>4, <2>5
  <2>. QED BY <2>3, <2>4, <2>7, <2>8, <2>9, Zenon DEF SwappedCourse
<1>19. CASE probe.stage = 6
  <2>1. s = Withdraw BY <1>5, <1>8, <1>19
  <2>2. Runs(s) BY <1>13, <1>19, <2>1 DEF Runs, Withdraw
  <2>3. Onward(probe, q) /\ ~q.nft /\ q.allow = probe.allow BY <2>1, WithdrawStep
  <2>4. q.stage = 7 BY <1>19, <2>3 DEF Onward
  <2>5. Cleared(q, 7, 9) BY <1>9, <2>4 DEF Cleared
  <2>6. ASSUME NEW t \in Token PROVE SwappedHolding(q, t) BY <2>4 DEF SwappedHolding
  <2>7. q.stage \in 1..11 /\ (q.nft <=> q.stage = 6) BY <2>3, <2>4
  <2>. QED BY <2>2, <2>3, <2>5, <2>6, <2>7, Zenon DEF SwappedCourse
<1>20. CASE probe.stage \in 7..10
  <2>1. PICK e \in Spender, t \in Token :
          /\ s = Approve(e, t, 0)
          /\ (e = "router" /\ probe.stage = 7 + t) \/ (e = "manager" /\ probe.stage = 9 + t)
    <3>1. CASE probe.stage \in {7, 8}
      BY <1>5, <1>8, <1>9, <3>1
    <3>2. CASE probe.stage \in {9, 10}
      BY <1>5, <1>8, <1>9, <3>2
    <3>. QED BY <1>20, <3>1, <3>2
  <2>2. Cleared(probe, 7, 9) BY DEF SwappedCourse
  <2>3. /\ Runs(s) /\ Onward(probe, q) /\ Cleared(q, 7, 9)
        /\ q.nft = probe.nft
    BY <2>1, <2>2, Clearing
  <2>4. q.stage \in 8..11 /\ ~q.nft BY <1>20, <2>3 DEF SwappedCourse, Onward
  <2>5. q.stage \in Int /\ q.stage > 7 BY <2>4
  <2>6. ASSUME NEW u \in Token PROVE SwappedHolding(q, u) BY <2>5 DEF SwappedHolding
  <2>7. q.stage \in 1..11 /\ (q.nft <=> q.stage = 6) BY <2>4
  <2>. QED BY <2>3, <2>6, <2>7, Zenon DEF SwappedCourse
<1>. QED BY <1>10, <1>14, <1>15, <1>16, <1>17, <1>18, <1>19, <1>20

\* How long the sequence of the probe is.
LEMMA StagesLeft ==
  ASSUME probe \in Probes, Chosen(probe)
  PROVE  /\ probe.kind = "static" => (Left <=> probe.stage <= 6)
         /\ probe.kind = "open" /\ probe.c.in = 0 => (Left <=> probe.stage <= 8)
         /\ probe.kind = "open" /\ probe.c.in > 0 => (Left <=> probe.stage <= 10)
         /\ probe.kind = "retain_exit" => (Left <=> probe.stage <= 5)
         /\ probe.kind = "convert_exit" => (Left <=> probe.stage <= 7)
         /\ probe.kind \in StaticConvert => (Left <=> probe.stage <= 7)
<1>1. PICK z : z = Stages(probe.kind, probe.c, probe.risk) OBVIOUS
<1>2. Left <=> probe.stage <= Len(z) BY <1>1 DEF Left
<1>3. probe.c.in \in Int BY CandidateFacts DEF Chosen
<1>4. CASE probe.kind = "static"
  <2>1. z = PAPER_STATIC_GAS_STAGES(probe.c) BY <1>1, <1>4 DEF Stages, StaticConvert
  <2>2. Len(z) = 6 BY <2>1, StaticStages
  <2>. QED BY <1>2, <1>4, <2>2 DEF StaticConvert
<1>5. CASE probe.kind = "open"
  <2>1. probe.c.in = 0 => Len(z) = 8 BY <1>1, <1>5, PlainStages
  <2>2. probe.c.in > 0 => Len(z) = 10 BY <1>1, <1>3, <1>5, SwappedStages
  <2>. QED BY <1>2, <1>5, <2>1, <2>2 DEF StaticConvert
<1>6. CASE probe.kind = "retain_exit"
  <2>1. z = RANGEKEEPER_PAPER_RETAIN_EXIT_STAGES BY <1>1, <1>6 DEF Stages, StaticConvert
  <2>2. Len(z) = 5 BY <2>1, RetainStages
  <2>. QED BY <1>2, <1>6, <2>2 DEF StaticConvert
<1>7. CASE probe.kind = "convert_exit"
  <2>1. z = RANGEKEEPER_PAPER_CONVERT_EXIT_STAGES(probe.c, probe.risk)
    BY <1>1, <1>7 DEF Stages, StaticConvert
  <2>2. Len(z) = 7 BY <2>1, ConvertStages
  <2>. QED BY <1>2, <1>7, <2>2 DEF StaticConvert
<1>8. CASE probe.kind \in StaticConvert
  <2>1. z = PAPER_STATIC_CONVERT_GAS_STAGES_V2(probe.c, probe.risk)
    BY <1>1, <1>8 DEF Stages, StaticConvert
  <2>2. Len(z) = 7 BY <2>1, StaticConvertStages
  <2>. QED BY <1>2, <1>8, <2>2 DEF StaticConvert
<1>. QED BY <1>4, <1>5, <1>6, <1>7, <1>8 DEF Probes, SamplerKinds, StaticConvert

\* Every transaction of every sequence runs and keeps the course.
LEMMA CourseStep ==
  ASSUME probe \in Probes, Chosen(probe), Course(probe), Left,
         NEW s, s = Stages(probe.kind, probe.c, probe.risk)[probe.stage], NEW q, q = Step(s)
  PROVE  Runs(s) /\ Onward(probe, q) /\ Course(q)
<1>1. probe.c.in \in Int /\ probe.c.in >= 0 BY CandidateFacts DEF Chosen
<1>2. Onward(probe, q) => q.kind = probe.kind /\ q.c = probe.c BY DEF Onward
<1>3. CASE probe.kind = "static"
  <2>1. StaticCourse(probe) /\ probe.stage <= 6 BY <1>3, StagesLeft DEF Course
  <2>2. Runs(s) /\ Onward(probe, q) /\ StaticCourse(q) BY <1>3, <2>1, StaticStep
  <2>. QED BY <1>2, <1>3, <2>2 DEF Course, StaticConvert
<1>4. CASE probe.kind = "open" /\ probe.c.in = 0
  <2>1. PlainCourse(probe) /\ probe.stage <= 8 BY <1>4, StagesLeft DEF Course
  <2>2. Runs(s) /\ Onward(probe, q) /\ PlainCourse(q) BY <1>4, <2>1, PlainStep
  <2>. QED BY <1>2, <1>4, <2>2 DEF Course, StaticConvert
<1>5. CASE probe.kind = "open" /\ probe.c.in > 0
  <2>1. SwappedCourse(probe) /\ probe.stage <= 10 BY <1>5, StagesLeft DEF Course
  <2>2. Runs(s) /\ Onward(probe, q) /\ SwappedCourse(q) BY <1>5, <2>1, SwappedStep
  <2>. QED BY <1>2, <1>5, <2>2 DEF Course, StaticConvert
<1>6. CASE probe.kind = "retain_exit"
  <2>1. RetainCourse(probe) /\ probe.stage <= 5 BY <1>6, StagesLeft DEF Course
  <2>2. Runs(s) /\ Onward(probe, q) /\ RetainCourse(q) BY <1>6, <2>1, RetainStep
  <2>. QED BY <1>2, <1>6, <2>2 DEF Course, StaticConvert
<1>7. CASE probe.kind = "convert_exit"
  <2>1. ConvertCourse(probe, 4, 6) /\ probe.stage <= 7 BY <1>7, StagesLeft DEF Course
  <2>2. Runs(s) /\ Onward(probe, q) /\ ConvertCourse(q, 4, 6) BY <1>7, <2>1, ConvertStep
  <2>. QED BY <1>2, <1>7, <2>2 DEF Course, StaticConvert
<1>8. CASE probe.kind \in StaticConvert
  <2>1. ConvertCourse(probe, 6, 4) /\ probe.stage <= 7 BY <1>8, StagesLeft DEF Course
  <2>2. Runs(s) /\ Onward(probe, q) /\ ConvertCourse(q, 6, 4) BY <1>8, <2>1, StaticConvertStep
  <2>. QED BY <1>2, <1>8, <2>2 DEF Course, StaticConvert
<1>. QED BY <1>1, <1>3, <1>4, <1>5, <1>6, <1>7, <1>8 DEF Probes, SamplerKinds, StaticConvert

\* At its end every sequence has retired the position and every allowance.
LEMMA CourseEnds ==
  ASSUME probe \in Probes, Chosen(probe), Course(probe), ~Left
  PROVE  Retired /\ ~probe.nft /\ probe.allow = NoAllowance
<1>1. probe.c.in \in Int /\ probe.c.in >= 0 BY CandidateFacts DEF Chosen
<1>2. \A t \in Token : t \in 0..1 BY DEF Token
<1>3. /\ ~probe.nft
      /\ \A t \in Token : probe.allow["router"][t] = 0 /\ probe.allow["manager"][t] = 0
      /\ Converts(probe.kind) => probe.wallet[probe.risk] = 0
  <2>1. CASE probe.kind = "static"
    <3>1. StaticCourse(probe) /\ ~(probe.stage <= 6) BY <2>1, StagesLeft DEF Course
    <3>2. probe.stage = 7 BY <3>1 DEF StaticCourse
    <3>. QED
      BY <1>2, <2>1, <3>1, <3>2 DEF StaticCourse, StaticHolding, Cleared, Converts, StaticConvert
  <2>2. CASE probe.kind = "open" /\ probe.c.in = 0
    <3>1. PlainCourse(probe) /\ ~(probe.stage <= 8) BY <2>2, StagesLeft DEF Course
    <3>2. probe.stage = 9 BY <3>1 DEF PlainCourse
    <3>. QED BY <1>2, <2>2, <3>1, <3>2 DEF PlainCourse, Cleared, Converts, StaticConvert
  <2>3. CASE probe.kind = "open" /\ probe.c.in > 0
    <3>1. SwappedCourse(probe) /\ ~(probe.stage <= 10) BY <2>3, StagesLeft DEF Course
    <3>2. probe.stage = 11 BY <3>1 DEF SwappedCourse
    <3>. QED BY <1>2, <2>3, <3>1, <3>2 DEF SwappedCourse, Cleared, Converts, StaticConvert
  <2>4. CASE probe.kind = "retain_exit"
    <3>1. RetainCourse(probe) /\ ~(probe.stage <= 5) BY <2>4, StagesLeft DEF Course
    <3>2. probe.stage = 6 BY <3>1 DEF RetainCourse
    <3>. QED BY <1>2, <2>4, <3>1, <3>2 DEF RetainCourse, Cleared, Converts, StaticConvert
  <2>5. CASE probe.kind = "convert_exit"
    <3>1. ConvertCourse(probe, 4, 6) /\ ~(probe.stage <= 7) BY <2>5, StagesLeft DEF Course
    <3>2. probe.stage = 8 BY <3>1 DEF ConvertCourse
    <3>. QED BY <1>2, <2>5, <3>1, <3>2 DEF ConvertCourse, ConvertHolding, Cleared
  <2>6. CASE probe.kind \in StaticConvert
    <3>1. ConvertCourse(probe, 6, 4) /\ ~(probe.stage <= 7) BY <2>6, StagesLeft DEF Course
    <3>2. probe.stage = 8 BY <3>1 DEF ConvertCourse
    <3>. QED BY <1>2, <2>6, <3>1, <3>2 DEF ConvertCourse, ConvertHolding, Cleared
  <2>. QED BY <1>1, <2>1, <2>2, <2>3, <2>4, <2>5, <2>6 DEF Probes, SamplerKinds, StaticConvert
<1>4. probe.allow = NoAllowance
  <2>1. probe.allow \in [Spender -> [Token -> Int]] BY DEF Probes, Grants, Purses
  <2>2. \A e \in Spender : \A t \in Token : probe.allow[e][t] = 0 BY <1>3 DEF Spender
  <2>3. ASSUME NEW e \in Spender PROVE probe.allow[e] = [t \in Token |-> 0]
    <3>1. probe.allow[e] \in [Token -> Int] BY <2>1
    <3>. QED BY <2>2, <3>1
  <2>. QED BY <2>1, <2>3 DEF NoAllowance
<1>. QED BY <1>3, <1>4 DEF Retired


\* A freshly funded fork is at the first stage of its own course.
LEMMA FundedCourse ==
  ASSUME probe \in Probes, Chosen(probe), Fresh(probe), upstream \in Nat,
         NEW q, q = [Funded EXCEPT !.status = "stage", !.seen = @ \cup {upstream}]
  PROVE  /\ q \in Probes /\ q.status = "stage" /\ q.kind = probe.kind /\ q.c = probe.c
         /\ q.risk = probe.risk /\ q.seen = probe.seen \cup {upstream} /\ Course(q)
<1>. DEFINE c == probe.c
<1>1. c \in Candidates /\ c \in Candidate BY DEF Chosen, Probes
<1>2. c.in \in Int /\ c.in >= 0 /\ c.token \in Token BY <1>1, CandidateFacts
<1>3. c.funds \in Purses /\ c.mint \in Purses BY <1>1 DEF Candidate
<1>4. probe.stage = 1 /\ probe.nft = FALSE /\ probe.allow = NoAllowance
  BY DEF Fresh, Probes
<1>5. NoAllowance \in Grants
  BY DEF NoAllowance, Grants, Purses
<1>6. \A t \in Token : NoAllowance["router"][t] = 0 /\ NoAllowance["manager"][t] = 0
  BY DEF NoAllowance, Spender
<1>7. /\ IdleTokens(c) \in Purses
      /\ [NoAllowance EXCEPT !["manager"] = IdleTokens(c)] \in Grants
      /\ rangeKeeperPaperTerminalAllowances(c) \in Grants
  <2>1. \A t \in Token : IdleTokens(c)[t] \in Int BY <1>1, ConvertedTyped
  <2>2. IdleTokens(c) \in Purses BY <2>1 DEF IdleTokens, Purses
  <2>3. PICK g : g = Grants OBVIOUS
  <2>4. [NoAllowance EXCEPT !["manager"] = IdleTokens(c)] \in Grants
    BY <1>5, <2>2 DEF Grants
  <2>5. \A t \in Token : /\ FutureCap(c, t) \in Int /\ c.mint[t] \in Int /\ c.funds[t] \in Int
    BY <1>1, CandidateFacts
  <2>6. [t \in Token |-> FutureCap(c, t) - c.mint[t]] \in Purses BY <2>5 DEF Purses
  <2>7. [t \in Token |-> IF c.in > 0 /\ t = c.token THEN c.funds[t] - c.in ELSE 0] \in Purses
    BY <1>2, <2>5 DEF Purses
  <2>8. rangeKeeperPaperTerminalAllowances(c) \in Grants
    BY <2>6, <2>7 DEF rangeKeeperPaperTerminalAllowances, Grants, Spender
  <2>. QED BY <2>2, <2>4, <2>8
<1>8. probe.seen \cup {upstream} \in Forks BY DEF Probes, Forks
<1>9. PICK w, a, n : /\ w \in Purses /\ a \in Grants /\ n \in BOOLEAN
                     /\ Funded = [probe EXCEPT !.wallet = w, !.nft = n, !.allow = a]
                     /\ probe.kind = "static" => w = c.mint /\ a = NoAllowance /\ n = FALSE
                     /\ probe.kind = "open" => w = c.funds /\ a = NoAllowance /\ n = FALSE
                     /\ probe.kind \in StaticConvert =>
                          w = IdleTokens(c) /\ n = TRUE
                     /\ probe.kind \in {"retain_exit", "convert_exit"} =>
                          w = IdleTokens(c) /\ n = TRUE
  <2>1. CASE probe.kind = "static"
    <3>1. Funded = [probe EXCEPT !.wallet = c.mint] BY <2>1 DEF Funded, StaticConvert
    <3>2. Funded = [probe EXCEPT !.wallet = c.mint, !.nft = FALSE, !.allow = NoAllowance]
      BY <1>4, <3>1 DEF Probes
    <3>. QED BY <1>3, <1>5, <2>1, <3>2 DEF StaticConvert
  <2>2. CASE probe.kind = "open"
    <3>1. Funded = [probe EXCEPT !.wallet = c.funds] BY <2>2 DEF Funded, StaticConvert
    <3>2. Funded = [probe EXCEPT !.wallet = c.funds, !.nft = FALSE, !.allow = NoAllowance]
      BY <1>4, <3>1 DEF Probes
    <3>. QED BY <1>3, <1>5, <2>2, <3>2 DEF StaticConvert
  <2>3. CASE probe.kind \in StaticConvert
    <3>1. PICK a : a = [NoAllowance EXCEPT !["manager"] = IdleTokens(c)] OBVIOUS
    <3>2. PICK w : w = IdleTokens(c) OBVIOUS
    <3>3. Funded = [probe EXCEPT !.wallet = w, !.nft = TRUE, !.allow = a]
      BY <2>3, <3>1, <3>2 DEF Funded, StaticConvert
    <3>. QED BY <1>7, <2>3, <3>1, <3>2, <3>3 DEF StaticConvert
  <2>4. CASE probe.kind \in {"retain_exit", "convert_exit"}
    <3>1. PICK a : a = rangeKeeperPaperTerminalAllowances(c) OBVIOUS
    <3>2. PICK w : w = IdleTokens(c) OBVIOUS
    <3>3. Funded = [probe EXCEPT !.wallet = w, !.nft = TRUE, !.allow = a]
      BY <2>4, <3>1, <3>2 DEF Funded, StaticConvert
    <3>. QED BY <1>7, <2>4, <3>1, <3>2, <3>3 DEF StaticConvert
  <2>. QED BY <2>1, <2>2, <2>3, <2>4 DEF Probes, SamplerKinds, StaticConvert
<1>10. PICK z : z = probe.seen \cup {upstream} OBVIOUS
<1>11. PICK f : f = Funded OBVIOUS
<1>12. f \in [status : ProbeStatuses, kind : SamplerKinds, c : Candidate, risk : Token,
              stage : Nat, wallet : Purses, allow : Grants, nft : BOOLEAN, seen : Forks]
  BY <1>9, <1>11 DEF Probes
<1>13. /\ f.kind = probe.kind /\ f.c = c /\ f.risk = probe.risk /\ f.stage = 1
       /\ f.wallet = w /\ f.allow = a /\ (f.nft <=> n) /\ f.seen = probe.seen
  BY <1>4, <1>9, <1>11 DEF Probes
<1>14. q = [f EXCEPT !.status = "stage", !.seen = z]
  BY <1>10, <1>11, <1>13
<1>15. "stage" \in ProbeStatuses BY DEF ProbeStatuses
<1>16. /\ q \in Probes /\ q.status = "stage" /\ q.kind = probe.kind /\ q.c = c
       /\ q.risk = probe.risk /\ q.stage = 1 /\ q.wallet = w /\ q.allow = a /\ (q.nft <=> n)
       /\ q.seen = z
  BY <1>8, <1>10, <1>12, <1>13, <1>14, <1>15 DEF Probes
<1>17. \A t \in Token : t \in 0..1 BY DEF Token
<1>18. Course(q)
  <2>1. CASE probe.kind = "static"
    <3>1. StaticCourse(q)
      BY <1>6, <1>9, <1>16, <1>17, <2>1 DEF StaticCourse, StaticHolding, Cleared
    <3>. QED BY <1>16, <2>1, <3>1 DEF Course, StaticConvert
  <2>2. CASE probe.kind = "open"
    <3>1. PlainCourse(q)
      BY <1>6, <1>9, <1>16, <1>17, <2>2 DEF PlainCourse, PlainHolding, Cleared
    <3>2. SwappedCourse(q)
      BY <1>6, <1>9, <1>16, <1>17, <2>2 DEF SwappedCourse, SwappedHolding, Cleared
    <3>. QED BY <1>16, <2>2, <3>1, <3>2 DEF Course, StaticConvert
  <2>3. CASE probe.kind = "retain_exit"
    <3>1. RetainCourse(q)
      BY <1>9, <1>16, <1>17, <2>3 DEF RetainCourse, Cleared
    <3>. QED BY <1>16, <2>3, <3>1 DEF Course, StaticConvert
  <2>4. CASE probe.kind \in {"convert_exit"} \cup StaticConvert
    <3>1. ConvertCourse(q, 4, 6) /\ ConvertCourse(q, 6, 4)
      BY <1>9, <1>16, <1>17, <2>4 DEF ConvertCourse, ConvertHolding, Cleared
    <3>. QED BY <1>16, <2>4, <3>1 DEF Course, StaticConvert
  <2>. QED BY <2>1, <2>2, <2>3, <2>4 DEF Probes, SamplerKinds, StaticConvert
<1>. QED BY <1>10, <1>16, <1>18

\* A replaced block leaves every sequence where it was.
LEMMA ReplaceKeeps == ForkInv /\ ReplaceSource => ForkInv'
<1>. SUFFICES ASSUME ForkInv, ReplaceSource PROVE ForkInv' OBVIOUS
<1>1. upstream \in Nat /\ upstream' = upstream + 1 /\ probe' = probe
  BY DEF ForkInv, ForkTypes, ReplaceSource
<1>2. upstream' \in Nat BY <1>1
<1>3. \A u \in probe.seen : u \in Nat /\ u <= upstream'
  BY <1>1 DEF ForkInv, ForkTypes, Probes, Forks
<1>4. SequencesClean' BY <1>1 DEF ForkInv, SequencesClean
<1>5. SampledAtSource' BY <1>1 DEF ForkInv, SampledAtSource, ReadsPinned
<1>6. ForkTypes' BY <1>1, <1>2 DEF ForkInv, ForkTypes
<1>. QED BY <1>1, <1>3, <1>4, <1>5, <1>6 DEF ForkInv

\* What a probe with another status keeps.
LEMMA Restatus ==
  ASSUME probe \in Probes, NEW x \in ProbeStatuses, NEW q, q = [probe EXCEPT !.status = x]
  PROVE  /\ q \in Probes /\ q.status = x /\ q.kind = probe.kind /\ q.c = probe.c
         /\ q.risk = probe.risk /\ q.stage = probe.stage /\ (q.nft <=> probe.nft)
         /\ q.allow = probe.allow /\ q.seen = probe.seen
BY DEF Probes

\* What a probe that made one more read keeps.
LEMMA Reseen ==
  ASSUME probe \in Probes, upstream \in Nat, NEW x \in ProbeStatuses,
         NEW q, q = [probe EXCEPT !.status = x, !.seen = @ \cup {upstream}]
  PROVE  /\ q \in Probes /\ q.status = x /\ q.kind = probe.kind /\ q.c = probe.c
         /\ q.risk = probe.risk /\ q.stage = probe.stage /\ q.wallet = probe.wallet
         /\ (q.nft <=> probe.nft) /\ q.allow = probe.allow /\ q.seen = probe.seen \cup {upstream}
<1>1. PICK z : z = probe.seen \cup {upstream} OBVIOUS
<1>2. z \in Forks BY <1>1 DEF Probes, Forks
<1>3. q = [probe EXCEPT !.status = x, !.seen = z] BY <1>1
<1>4. /\ q \in Probes /\ q.status = x /\ q.kind = probe.kind /\ q.c = probe.c
      /\ q.risk = probe.risk /\ q.stage = probe.stage /\ q.wallet = probe.wallet
      /\ (q.nft <=> probe.nft) /\ q.allow = probe.allow /\ q.seen = z
  BY <1>2, <1>3 DEF Probes
<1>. QED BY <1>1, <1>4

\* What a change of the probe's status has to show.
LEMMA StatusKeeps ==
  ASSUME ForkInv, probe.status # "idle", upstream' = upstream, NEW x \in ProbeStatuses \ {"idle"},
         probe' = [probe EXCEPT !.status = x],
         x \notin {"prefetch", "anchor", "stage", "refused"},
         x \in {"reported", "verified"} => ~probe.nft /\ probe.allow = NoAllowance,
         x = "verified" \/ (x = "reported" /\ ReadsPinned) => probe.seen \subseteq {0}
  PROVE  ForkInv'
<1>1. PICK q : q = probe' OBVIOUS
<1>2. /\ q \in Probes /\ q.status = x /\ q.kind = probe.kind /\ q.c = probe.c
      /\ q.risk = probe.risk /\ q.stage = probe.stage /\ (q.nft <=> probe.nft)
      /\ q.allow = probe.allow /\ q.seen = probe.seen
  BY <1>1, Restatus DEF ForkInv, ForkTypes
<1>3. ForkTypes' BY <1>1, <1>2 DEF ForkInv, ForkTypes
<1>4. Chosen(q) BY <1>2 DEF ForkInv, Chosen
<1>5. SequencesClean' BY <1>1, <1>2 DEF SequencesClean
<1>6. SampledAtSource' BY <1>1, <1>2 DEF SampledAtSource, ReadsPinned
<1>7. \A u \in q.seen : u <= upstream' BY <1>2 DEF ForkInv
<1>. QED BY <1>1, <1>2, <1>3, <1>4, <1>5, <1>6, <1>7 DEF ForkInv

\* A pinned block has been the only one read.
LEMMA PinnedSeen ==
  ASSUME ForkInv, SourceStillPinned
  PROVE  probe.seen \subseteq {0}
<1>1. \A u \in probe.seen : u \in Nat /\ u <= 0
  BY DEF ForkInv, ForkTypes, Probes, Forks, SourceStillPinned
<1>. QED BY <1>1

\* A new probe is idle on its fork and has read nothing.
LEMMA ForkStartKeeps == ForkInv /\ StartProbe => ForkInv'
<1>. SUFFICES ASSUME ForkInv, StartProbe PROVE ForkInv' OBVIOUS
<1>1. PICK kind \in SamplerKinds, c \in Candidates, risk \in Token :
        /\ kind = "static" => c.in = 0
        /\ Converts(kind) => Converted(c, risk) > 0
        /\ probe' = [IdleProbe EXCEPT !.status = "prefetch", !.kind = kind, !.c = c, !.risk = risk]
  BY DEF StartProbe
<1>2. upstream' = upstream BY DEF StartProbe
<1>3. PICK q : q = probe' OBVIOUS
<1>4. c \in Candidate
  <2>1. /\ c \in [funds : [Token -> 0..Units], token : Token, in : 0..Units, out : 0..1,
                  mint : [Token -> 0..Units], moved : BOOLEAN]
    BY DEF Candidates
  <2>. QED BY <2>1, ForkAssumption DEF Candidate, Purses
<1>5. "prefetch" \in ProbeStatuses BY DEF ProbeStatuses
<1>6. [t \in Token |-> 0] \in Purses /\ NoAllowance \in Grants
  BY DEF NoAllowance, Grants, Purses
<1>7. q = [status |-> "prefetch", kind |-> kind, c |-> c, risk |-> risk, stage |-> 1,
           wallet |-> [t \in Token |-> 0], allow |-> NoAllowance, nft |-> FALSE, seen |-> {}]
  BY <1>1, <1>3 DEF IdleProbe
<1>8. {} \in Forks BY DEF Forks
<1>9. PICK w \in Purses, a \in Grants : w = [t \in Token |-> 0] /\ a = NoAllowance BY <1>6
<1>10. q \in Probes BY <1>4, <1>5, <1>7, <1>8, <1>9 DEF Probes
<1>11. /\ q.status = "prefetch" /\ q.kind = kind /\ q.c = c /\ q.risk = risk /\ q.stage = 1
       /\ q.allow = NoAllowance /\ ~q.nft /\ q.seen = {}
  BY <1>7
<1>12. Chosen(q) BY <1>1, <1>11 DEF Chosen
<1>13. Fresh(q) BY <1>11 DEF Fresh
<1>14. SequencesClean' BY <1>3, <1>11 DEF SequencesClean
<1>15. SampledAtSource' BY <1>3, <1>11 DEF SampledAtSource
<1>16. ForkTypes' BY <1>2, <1>3, <1>10 DEF ForkInv, ForkTypes
<1>. QED BY <1>3, <1>11, <1>12, <1>13, <1>14, <1>15, <1>16 DEF ForkInv

\* The hints are read at whatever block the node is on.
LEMMA PrefetchKeeps == ForkInv /\ fetchFreshForkReadPrefetch => ForkInv'
<1>. SUFFICES ASSUME ForkInv, fetchFreshForkReadPrefetch PROVE ForkInv' OBVIOUS
<1>1. /\ probe.status = "prefetch" /\ upstream' = upstream
      /\ probe' = [probe EXCEPT !.status = "anchor", !.seen = @ \cup {upstream}]
  BY DEF fetchFreshForkReadPrefetch
<1>2. PICK q : q = probe' OBVIOUS
<1>3. probe \in Probes /\ upstream \in Nat BY DEF ForkInv, ForkTypes
<1>4. "anchor" \in ProbeStatuses BY DEF ProbeStatuses
<1>5. /\ q \in Probes /\ q.status = "anchor" /\ q.kind = probe.kind /\ q.c = probe.c
      /\ q.risk = probe.risk /\ q.stage = probe.stage /\ (q.nft <=> probe.nft)
      /\ q.allow = probe.allow /\ q.seen = probe.seen \cup {upstream}
  BY <1>1, <1>2, <1>3, <1>4, Reseen
<1>6. Chosen(q) BY <1>1, <1>5 DEF ForkInv, Chosen
<1>7. Fresh(q) BY <1>1, <1>5 DEF ForkInv, Fresh
<1>8. \A u \in q.seen : u <= upstream' BY <1>1, <1>3, <1>5 DEF ForkInv
<1>9. SequencesClean' BY <1>2, <1>5 DEF SequencesClean
<1>10. SampledAtSource' BY <1>2, <1>5 DEF SampledAtSource
<1>11. ForkTypes' BY <1>1, <1>2, <1>3, <1>5 DEF ForkTypes
<1>. QED BY <1>2, <1>5, <1>6, <1>7, <1>8, <1>9, <1>10, <1>11 DEF ForkInv

\* A fork is opened at the pinned block, or not at all.
LEMMA OpenKeeps == ForkInv /\ openPaperFork => ForkInv'
<1>. SUFFICES ASSUME ForkInv, openPaperFork PROVE ForkInv' OBVIOUS
<1>1. probe.status = "anchor" /\ upstream' = upstream BY DEF openPaperFork
<1>2. probe \in Probes /\ upstream \in Nat /\ Chosen(probe) /\ Fresh(probe)
  BY <1>1 DEF ForkInv, ForkTypes
<1>3. CASE ~(MayRead /\ upstream = 0)
  <2>1. probe' = [probe EXCEPT !.status = "failed"] BY <1>3 DEF openPaperFork
  <2>2. "failed" \in ProbeStatuses \ {"idle"} BY DEF ProbeStatuses
  <2>. QED BY <1>1, <2>1, <2>2, StatusKeeps
<1>4. CASE MayRead /\ upstream = 0
  <2>1. PICK q : q = [Funded EXCEPT !.status = "stage", !.seen = @ \cup {upstream}] OBVIOUS
  <2>2. probe' = q BY <1>4, <2>1 DEF openPaperFork
  <2>3. /\ q \in Probes /\ q.status = "stage" /\ q.kind = probe.kind /\ q.c = probe.c
        /\ q.risk = probe.risk /\ q.seen = probe.seen \cup {upstream} /\ Course(q)
    BY <1>2, <2>1, FundedCourse
  <2>4. Chosen(q) BY <1>2, <2>3 DEF Chosen
  <2>5. \A u \in q.seen : u <= upstream' BY <1>1, <1>2, <2>3 DEF ForkInv
  <2>6. SequencesClean' BY <2>2, <2>3 DEF SequencesClean
  <2>7. SampledAtSource' BY <2>2, <2>3 DEF SampledAtSource
  <2>8. ForkTypes' BY <1>1, <1>2, <2>2, <2>3 DEF ForkTypes
  <2>. QED BY <2>2, <2>3, <2>4, <2>5, <2>6, <2>7, <2>8 DEF ForkInv
<1>. QED BY <1>3, <1>4

\* A read that is issued, or a step of the other components, changes nothing here.
LEMMA StillKeeps == ForkInv /\ probe' = probe /\ upstream' = upstream => ForkInv'
<1>. SUFFICES ASSUME ForkInv, probe' = probe, upstream' = upstream PROVE ForkInv' OBVIOUS
<1>1. SequencesClean' BY DEF ForkInv, SequencesClean
<1>2. SampledAtSource' BY DEF ForkInv, SampledAtSource, ReadsPinned
<1>3. ForkTypes' BY DEF ForkInv, ForkTypes
<1>. QED BY <1>1, <1>2, <1>3 DEF ForkInv

\* An answered read adds the block it was answered from.
LEMMA AnswerKeeps == ASSUME NEW r, ForkInv, AnswerRead(r) PROVE ForkInv'
<1>1. probe.status = "stage" /\ upstream' = upstream BY DEF AnswerRead, Pricing
<1>2. CASE probe' = probe BY <1>1, <1>2, StillKeeps
<1>3. CASE probe' = [probe EXCEPT !.seen = @ \cup {upstream}]
  <2>1. PICK q : q = probe' OBVIOUS
  <2>2. probe \in Probes /\ upstream \in Nat /\ Chosen(probe) /\ Course(probe)
    BY <1>1 DEF ForkInv, ForkTypes
  <2>3. "stage" \in ProbeStatuses BY DEF ProbeStatuses
  <2>4. q = [probe EXCEPT !.status = "stage", !.seen = @ \cup {upstream}]
    BY <1>1, <1>3, <2>1, <2>2 DEF Probes
  <2>5. /\ q \in Probes /\ q.status = "stage" /\ q.kind = probe.kind /\ q.c = probe.c
        /\ q.risk = probe.risk /\ q.stage = probe.stage /\ q.wallet = probe.wallet
        /\ (q.nft <=> probe.nft) /\ q.allow = probe.allow /\ q.seen = probe.seen \cup {upstream}
    BY <2>2, <2>3, <2>4, Reseen
  <2>6. Chosen(q) BY <2>2, <2>5 DEF Chosen
  <2>7. Course(q)
    BY <2>2, <2>5 DEF Course, StaticCourse, StaticHolding, PlainCourse, PlainHolding,
       SwappedCourse,
                      SwappedHolding, ConvertHolding,
                      RetainCourse, ConvertCourse, Cleared
  <2>8. \A u \in q.seen : u <= upstream' BY <1>1, <2>2, <2>5 DEF ForkInv
  <2>9. SequencesClean' BY <2>1, <2>5 DEF SequencesClean
  <2>10. SampledAtSource' BY <2>1, <2>5 DEF SampledAtSource
  <2>11. ForkTypes' BY <1>1, <2>1, <2>2, <2>5 DEF ForkTypes
  <2>. QED BY <2>1, <2>5, <2>6, <2>7, <2>8, <2>9, <2>10, <2>11 DEF ForkInv
<1>. QED BY <1>2, <1>3 DEF AnswerRead

\* A priced transaction runs and keeps the course, or the sampler fails.
LEMMA SimulateKeeps == ForkInv /\ simulatePaperTransaction => ForkInv'
<1>. SUFFICES ASSUME ForkInv, simulatePaperTransaction PROVE ForkInv' OBVIOUS
<1>1. probe.status = "stage" /\ Left /\ upstream' = upstream
  BY DEF simulatePaperTransaction, Pricing
<1>2. probe \in Probes /\ upstream \in Nat /\ Chosen(probe) /\ Course(probe)
  BY <1>1 DEF ForkInv, ForkTypes
<1>3. CASE probe' = [probe EXCEPT !.status = "failed"]
  <2>1. "failed" \in ProbeStatuses \ {"idle"} BY DEF ProbeStatuses
  <2>. QED BY <1>1, <1>3, <2>1, StatusKeeps
<1>4. PICK s : s = Stages(probe.kind, probe.c, probe.risk)[probe.stage] OBVIOUS
<1>5. PICK q : q = Step(s) OBVIOUS
<1>6. Runs(s) /\ Onward(probe, q) /\ Course(q) BY <1>1, <1>2, <1>4, <1>5, CourseStep
<1>7. CASE probe' = IF Runs(s) THEN [AfterStage(s) EXCEPT !.stage = @ + 1]
                    ELSE [probe EXCEPT !.status = "refused"]
  <2>1. probe' = q BY <1>5, <1>6, <1>7 DEF Step
  <2>2. /\ q \in Probes /\ q.status = "stage" /\ q.kind = probe.kind /\ q.c = probe.c
        /\ q.risk = probe.risk /\ q.seen = probe.seen
    BY <1>1, <1>6 DEF Onward
  <2>3. Chosen(q) BY <1>2, <2>2 DEF Chosen
  <2>4. \A u \in q.seen : u <= upstream' BY <1>1, <2>2 DEF ForkInv
  <2>5. SequencesClean' BY <2>1, <2>2 DEF SequencesClean
  <2>6. SampledAtSource' BY <2>1, <2>2 DEF SampledAtSource
  <2>7. ForkTypes' BY <1>1, <1>2, <2>1, <2>2 DEF ForkTypes
  <2>. QED BY <1>6, <2>1, <2>2, <2>3, <2>4, <2>5, <2>6, <2>7 DEF ForkInv
<1>. QED BY <1>3, <1>4, <1>7 DEF simulatePaperTransaction

\* A finished sequence left nothing behind; its report was read at the pinned block.
LEMMA FinishKeeps == ForkInv /\ FinishProbe => ForkInv'
<1>. SUFFICES ASSUME ForkInv, FinishProbe PROVE ForkInv' OBVIOUS
<1>1. probe.status = "stage" /\ ~Left /\ upstream' = upstream BY DEF FinishProbe
<1>2. probe \in Probes /\ Chosen(probe) /\ Course(probe) BY <1>1 DEF ForkInv, ForkTypes
<1>3. Retired /\ ~probe.nft /\ probe.allow = NoAllowance BY <1>1, <1>2, CourseEnds
<1>4. "reported" \in ProbeStatuses \ {"idle"} /\ "failed" \in ProbeStatuses \ {"idle"}
  BY DEF ProbeStatuses
<1>5. CASE ReadsPinned => MayRead /\ SourceStillPinned
  <2>1. probe' = [probe EXCEPT !.status = "reported"] BY <1>3, <1>5 DEF FinishProbe
  <2>2. ReadsPinned => probe.seen \subseteq {0} BY <1>5, PinnedSeen
  <2>. QED BY <1>1, <1>3, <1>4, <2>1, <2>2, StatusKeeps
<1>6. CASE ~(ReadsPinned => MayRead /\ SourceStillPinned)
  <2>1. probe' = [probe EXCEPT !.status = "failed"] BY <1>3, <1>6 DEF FinishProbe
  <2>. QED BY <1>1, <1>4, <2>1, StatusKeeps
<1>. QED BY <1>5, <1>6

\* The importer takes a report only while its block stands.
LEMMA VerifyKeeps == ForkInv /\ verifyPaperGasSource => ForkInv'
<1>. SUFFICES ASSUME ForkInv, verifyPaperGasSource PROVE ForkInv' OBVIOUS
<1>1. probe.status = "reported" /\ upstream' = upstream BY DEF verifyPaperGasSource
<1>2. ~probe.nft /\ probe.allow = NoAllowance BY <1>1 DEF ForkInv, SequencesClean
<1>3. "verified" \in ProbeStatuses \ {"idle"} /\ "failed" \in ProbeStatuses \ {"idle"}
  BY DEF ProbeStatuses
<1>4. CASE SourceStillPinned
  <2>1. probe' = [probe EXCEPT !.status = "verified"] BY <1>4 DEF verifyPaperGasSource
  <2>2. probe.seen \subseteq {0} BY <1>4, PinnedSeen
  <2>. QED BY <1>1, <1>2, <1>3, <2>1, <2>2, StatusKeeps
<1>5. CASE ~SourceStillPinned
  <2>1. probe' = [probe EXCEPT !.status = "failed"] BY <1>5 DEF verifyPaperGasSource
  <2>. QED BY <1>1, <1>3, <2>1, StatusKeeps
<1>. QED BY <1>4, <1>5

\* No probe has begun.
LEMMA ForkStarts == ForkInit => ForkInv
<1>. SUFFICES ASSUME ForkInit PROVE ForkInv OBVIOUS
<1>1. upstream = 0 /\ probe = IdleProbe BY DEF ForkInit
<1>2. [t \in Token |-> 0] \in Purses /\ NoAllowance \in Grants BY DEF NoAllowance, Grants, Purses
<1>3. PICK w \in Purses, a \in Grants : w = [t \in Token |-> 0] /\ a = NoAllowance BY <1>2
<1>4. NoCandidate = [funds |-> w, token |-> 0, in |-> 0, out |-> 0, mint |-> w, moved |-> FALSE]
  BY <1>3 DEF NoCandidate
<1>5. PICK c : c = NoCandidate OBVIOUS
<1>6. c \in Candidate BY <1>4, <1>5 DEF Candidate, Token
<1>7. "idle" \in ProbeStatuses /\ "static" \in SamplerKinds /\ {} \in Forks /\ 0 \in Token
  BY DEF ProbeStatuses, SamplerKinds, Forks, Token
<1>8. probe = [status |-> "idle", kind |-> "static", c |-> c, risk |-> 0, stage |-> 1,
               wallet |-> w, allow |-> a, nft |-> FALSE, seen |-> {}]
  BY <1>1, <1>3, <1>5 DEF IdleProbe
<1>9. probe \in Probes BY <1>6, <1>7, <1>8 DEF Probes
<1>10. probe.status = "idle" /\ probe.seen = {} BY <1>8
<1>11. SequencesClean BY <1>10 DEF SequencesClean
<1>12. SampledAtSource BY <1>10 DEF SampledAtSource
<1>13. ForkTypes BY <1>1, <1>9 DEF ForkTypes
<1>. QED BY <1>10, <1>11, <1>12, <1>13 DEF ForkInv

\* Between the mint and the withdrawal of an entry the allowances are the ones
\* worked out for its exit.
LEMMA CourseReplays == ForkInv => AllowancesReplayed
<1>. SUFFICES ASSUME ForkInv, probe.status = "stage", probe.kind = "open", probe.nft
       PROVE  probe.allow = rangeKeeperPaperTerminalAllowances(probe.c)
  BY DEF AllowancesReplayed
<1>. DEFINE c == probe.c
<1>1. probe \in Probes /\ c \in Candidates /\ Course(probe) BY DEF ForkInv, ForkTypes, Chosen
<1>2. c.in \in Int /\ c.in >= 0 /\ c.token \in Token BY <1>1, CandidateFacts
<1>3. \A t \in Token :
        /\ probe.allow["manager"][t] = FutureCap(c, t) - c.mint[t]
        /\ probe.allow["router"][t] = IF c.in > 0 /\ t = c.token THEN c.funds[t] - c.in ELSE 0
  <2>1. CASE c.in = 0
    <3>1. PlainCourse(probe) BY <1>1, <2>1 DEF Course
    <3>2. probe.stage = 4 BY <3>1 DEF PlainCourse
    <3>3. \A t \in Token : FutureCap(c, t) = c.funds[t] BY <1>1, <2>1, CandidateFacts
    <3>. QED BY <2>1, <3>1, <3>2, <3>3 DEF PlainCourse, PlainHolding
  <2>2. CASE c.in > 0
    <3>1. SwappedCourse(probe) BY <1>1, <2>2 DEF Course
    <3>2. probe.stage = 6 BY <3>1 DEF SwappedCourse
    <3>. QED BY <2>2, <3>1, <3>2 DEF SwappedCourse, SwappedHolding
  <2>. QED BY <1>2, <2>1, <2>2
<1>4. probe.allow \in [Spender -> [Token -> Int]] BY <1>1 DEF Probes, Grants, Purses
<1>5. PICK m, r : /\ m = [t \in Token |-> FutureCap(c, t) - c.mint[t]]
                  /\ r = [t \in Token |-> IF c.in > 0 /\ t = c.token THEN c.funds[t] - c.in ELSE 0]
  OBVIOUS
<1>6. probe.allow["manager"] = m
  <2>1. probe.allow["manager"] \in [Token -> Int] BY <1>4 DEF Spender
  <2>. QED BY <1>3, <1>5, <2>1
<1>7. probe.allow["router"] = r
  <2>1. probe.allow["router"] \in [Token -> Int] BY <1>4 DEF Spender
  <2>. QED BY <1>3, <1>5, <2>1
<1>8. probe.allow = [manager |-> m, router |-> r] BY <1>4, <1>6, <1>7 DEF Spender
<1>. QED BY <1>5, <1>8 DEF rangeKeeperPaperTerminalAllowances

(***************************************************************************)
(* A gas sample prices the sequence the campaign would send: whatever the   *)
(* candidate, the reads' outcomes and order and the replacements of the     *)
(* source block, no sampler's sequence lacks a balance or an allowance or   *)
(* leaves one behind, the allowances worked out for an exit are the ones    *)
(* its entry left, and an importable sample was read at the pinned block    *)
(* alone (sampleRangeKeeperPaperGasStages, rangeKeeperPaperTerminalAllowances, *)
(* verifyPaperGasSource).                                                   *)
(***************************************************************************)
THEOREM SamplesAreExact == ForkSpec => []SamplesExact
<1>1. ForkInv /\ [ForkNext]_forkVars => ForkInv'
  <2>1. ForkInv /\ (\E r \in Readers : IssueRead(r) \/ AnswerRead(r)) => ForkInv'
    <3>1. ASSUME NEW r, ForkInv, IssueRead(r) PROVE ForkInv'
      BY <3>1, StillKeeps DEF IssueRead
    <3>. QED BY <3>1, AnswerKeeps
  <2>2. ForkInv /\ UNCHANGED forkVars => ForkInv' BY StillKeeps DEF forkVars
  <2>. QED BY <2>1, <2>2, ForkStartKeeps, PrefetchKeeps, OpenKeeps, SimulateKeeps, FinishKeeps,
              VerifyKeeps, ReplaceKeeps DEF ForkNext
<1>2. ForkInv => SamplesExact BY CourseReplays DEF ForkInv, SamplesExact
<1>. QED BY ForkStarts, <1>1, <1>2, PTL DEF ForkSpec
=============================================================================

----------------------------- MODULE NonceLane ------------------------------
(***************************************************************************)
(* What the shared wallet promises about its transactions: one nonce at a  *)
(* time.  An intent for the next nonce is frozen; until bytes are signed   *)
(* for it, it may be discarded and the nonce used by another.  Committed   *)
(* bytes stay: the chain includes them, and only their attribution moves   *)
(* the lane to the next nonce.                                             *)
(***************************************************************************)
EXTENDS Naturals

VARIABLES
  phase,      \* "free", "frozen" (an unsigned intent) or "committed" (signed bytes)
  next,       \* the next nonce to be used
  included    \* the chain has included the committed bytes

vars == <<phase, next, included>>

Init == phase = "free" /\ next = 0 /\ included = FALSE

Freeze == phase = "free" /\ phase' = "frozen" /\ UNCHANGED <<next, included>>
Discard == phase = "frozen" /\ phase' = "free" /\ UNCHANGED <<next, included>>
Commit == phase = "frozen" /\ phase' = "committed" /\ UNCHANGED <<next, included>>

Include ==
  /\ phase = "committed" /\ ~included
  /\ included' = TRUE
  /\ UNCHANGED <<phase, next>>

Attribute ==
  /\ phase = "committed" /\ included
  /\ phase' = "free" /\ next' = next + 1 /\ included' = FALSE

Next == Freeze \/ Discard \/ Commit \/ Include \/ Attribute

Spec == Init /\ [][Next]_vars
=============================================================================

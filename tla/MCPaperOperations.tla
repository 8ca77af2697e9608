------------------------- MODULE MCPaperOperations -------------------------
(* Model values for the workers and request keys of PaperOperations. *)
EXTENDS PaperOperations, TLC

CONSTANTS w1, w2, k1, k2, k3

Symmetry == Permutations(Workers) \cup Permutations(Keys)
=============================================================================

--------------------------- MODULE MCEventIndexer ---------------------------
(* Model values for the processes of EventIndexer. *)
EXTENDS EventIndexer

CONSTANTS t1, t2, b1, r1
=============================================================================

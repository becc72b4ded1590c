--------------------------- MODULE MCCommandQueue ---------------------------
(* Three calls that compete for one lane. *)
EXTENDS CommandQueue

CONSTANTS main, t1, t2, t3, w1

AllMain == [t \in {t1, t2, t3} |-> main]
=============================================================================

--------------------------- MODULE MCHeartbeatWake ---------------------------
(* Two targets, one of which is also woken at once with a higher priority, *)
(* a handler that is replaced once, and one call that never settles.       *)
EXTENDS HeartbeatWake

CONSTANTS t1, t2

MCRequests ==
  {[target |-> t, priority |-> 1, coalesce |-> 1] : t \in {t1, t2}}
    \cup {[target |-> t1, priority |-> 2, coalesce |-> 0]}
=============================================================================

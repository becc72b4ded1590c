---------------------------- MODULE MCCronService ----------------------------
(* A job of each kind, due at different times; the cron job is added. *)
EXTENDS CronService

CONSTANTS j1, j2, j3, m1

MCKindOf == [j \in Jobs |-> IF j = j1 THEN "at" ELSE IF j = j2 THEN "every" ELSE "cron"]

MCPeriod == [j \in Jobs |-> IF j = j2 THEN 2 ELSE 1]
=============================================================================

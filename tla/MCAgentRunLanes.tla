-------------------------- MODULE MCAgentRunLanes --------------------------
(* A run in the main lane beside a manual cron job, both of one session.   *)
EXTENDS AgentRunLanes

MCSessionOf == [r1 |-> "a", job |-> "a"]
MCGivenLane == [r1 |-> "main", job |-> "cron"]
CapOne == [n \in GlobalNames |-> 1]
=============================================================================

--------------------------- MODULE MCFollowupQueue ---------------------------
(* Small instances of FollowupQueue. *)
EXTENDS FollowupQueue, TLC

CONSTANTS m1, m2, m3

ThreeMessages == {m1, m2, m3}

(* One sender and one route; a second sender; a second route.              *)
OneRoute == [m \in ThreeMessages |-> "a"]
OneSender == [m \in ThreeMessages |-> "owner"]
TwoSenders == [m \in ThreeMessages |-> IF m = m2 THEN "guest" ELSE "owner"]
TwoRoutes == [m \in ThreeMessages |-> IF m = m3 THEN "none" ELSE "a"]

With(mode, cap, drop) == [mode |-> mode, cap |-> cap, drop |-> drop]

(* Nothing queued is ever dropped: newest refused, in either mode.         *)
RefuseNewest == {With("followup", 2, "new"), With("collect", 2, "new")}

(* Caps that overflow while a run is in progress.                          *)
SummarizeOrOld == {With("collect", 2, "summarize"), With("followup", 1, "old")}

FollowupSummarize == {With("followup", 2, "summarize")}
=============================================================================

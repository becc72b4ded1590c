------------------------ MODULE DeliveryQueueProofs ------------------------
(***************************************************************************)
(* Theorems about the write-ahead delivery queue, for every set of         *)
(* messages, senders and payloads, and every number of crashes and faults. *)
(* IInv is the inductive invariant behind the safety theorems: a sender at *)
(* work has an entry in hand (InHandOK), the claims are those of the       *)
(* senders at work (Owned), and an attempt's progress has reached the      *)
(* recipient (Progress).  Tidy, which holds when nothing but the owner of  *)
(* a claim writes an entry's file, joins it for the refinement.            *)
(***************************************************************************)
EXTENDS DeliveryQueue, TLAPS

(* A sender with an entry in hand. *)
Busy(s) == pc[s] \in Holding \cup {"claimed"}

InHandOK ==
  /\ \A e \in Entries : /\ at[e] = e
                        /\ pc[e] \in Holding \cup {"idle", "enqueued", "done"}
  /\ \A d \in Drainers : /\ pc[d] \in Holding \cup {"idle", "next", "claimed", "deferring"}
                         /\ pc[d] # "aborting"
                         /\ Busy(d) => at[d] \in Entries

(* The claims: one owner, who has the claim, and no claim without owner. *)
ClaimHeld == \A s \in Senders : Holds(s) => at[s] \in claimed

ClaimOwned == \A e \in claimed : \E s \in Senders : Holds(s) /\ at[s] = e

Owned == OneOwner /\ ClaimHeld /\ ClaimOwned

(* An attempt's progress is what reached the recipient, and it goes on to  *)
(* acknowledge only when that is everything.                               *)
Progress ==
  \A s \in Senders :
    /\ pc[s] = "sending" => 1..part[s] \subseteq received[at[s]]
    /\ pc[s] # "sending" => part[s] = 0
    /\ pc[s] = "acking" => received[at[s]] = 1..Parts

(* Types are preserved. *)
LEMMA TypeStep ==
  TypeOK /\ InHandOK /\ [Next]_vars => TypeOK'
<1> SUFFICES ASSUME TypeOK, InHandOK, [Next]_vars
             PROVE  TypeOK'
  OBVIOUS
<1> USE DeliveryAssumption DEF TypeOK, InHandOK, Busy, Holding, Senders, Gone, disk, outside
<1>1. ASSUME NEW e \in Entries, Enqueue(e) PROVE TypeOK'
  BY <1>1 DEF Enqueue, Goto
<1>2. ASSUME NEW e \in Entries, EnqueueFails(e) PROVE TypeOK'
  BY <1>2 DEF EnqueueFails, Goto
<1>3. ASSUME NEW e \in Entries, StartLive(e) PROVE TypeOK'
  BY <1>3 DEF StartLive, Goto, Free
<1>4. ASSUME NEW e \in Entries, Abort(e) PROVE TypeOK'
  BY <1>4 DEF Abort, Goto
<1>5. ASSUME NEW e \in Entries, Elapse(e) PROVE TypeOK'
  BY <1>5 DEF Elapse
<1>6. ASSUME NEW s \in Senders, PartArrives(s) PROVE TypeOK'
  <2>1. at[s] \in Entries /\ part[s] + 1 \in 1..Parts /\ NextPart(part[s]) \in 0..(Parts - 1)
    BY <1>6 DEF PartArrives, NextPart
  <2> QED
    BY <1>6, <2>1 DEF PartArrives, Goto
<1>7. ASSUME NEW s \in Senders, SendThrows(s) PROVE TypeOK'
  BY <1>7 DEF SendThrows, Goto
<1>8. ASSUME NEW s \in Senders, AckRename(s) PROVE TypeOK'
  BY <1>8 DEF AckRename, Goto, Queued
<1>9. ASSUME NEW s \in Senders, AckUnlink(s) PROVE TypeOK'
  BY <1>9 DEF AckUnlink, EndAttempt, Released
<1>10. ASSUME NEW s \in Senders, AckFails(s) PROVE TypeOK'
  BY <1>10 DEF AckFails, EndAttempt, Released, Goto, Queued
<1>11. ASSUME NEW s \in Senders, FailRead(s) PROVE TypeOK'
  BY <1>11 DEF FailRead, EndAttempt, Released, Goto, Queued
<1>12. ASSUME NEW s \in Senders, FailWrite(s) PROVE TypeOK'
  BY <1>12 DEF FailWrite, Rewrite, Bumped, EndAttempt, Released
<1>13. ASSUME NEW s \in Senders, MoveToFailed(s) PROVE TypeOK'
  BY <1>13 DEF MoveToFailed, Queued, EndAttempt, Released
<1>14. ASSUME NEW d \in Drainers, Scan(d) PROVE TypeOK'
  BY <1>14 DEF Scan, Goto, Queued
<1>15. ASSUME NEW d \in Drainers, ScanEnds(d) PROVE TypeOK'
  BY <1>15 DEF ScanEnds, Goto
<1>16. ASSUME NEW d \in Drainers, Claim(d) PROVE TypeOK'
  BY <1>16 DEF Claim, Oldest, Free
<1>17. ASSUME NEW d \in Drainers, Pass(d) PROVE TypeOK'
  BY <1>17 DEF Pass, Reread, Queued, EndAttempt, Released
<1>18. ASSUME NEW d \in Drainers, GiveUp(d) PROVE TypeOK'
  BY <1>18 DEF GiveUp, Reread, Queued, Goto
<1>19. ASSUME NEW d \in Drainers, Replay(d) PROVE TypeOK'
  BY <1>19 DEF Replay, Reread, Queued, Goto
<1>20. ASSUME NEW d \in Drainers, Defer(d) PROVE TypeOK'
  BY <1>20 DEF Defer, Goto
<1>21. ASSUME NEW d \in Drainers, DeferRead(d) PROVE TypeOK'
  BY <1>21 DEF DeferRead, Queued
<1>22. ASSUME NEW d \in Drainers, DeferWrite(d) PROVE TypeOK'
  BY <1>22 DEF DeferWrite, Rewrite, Bumped
<1>23. ASSUME NEW d \in Drainers, DeferEnds(d) PROVE TypeOK'
  BY <1>23 DEF DeferEnds, Goto
<1>24. CASE Crash
  BY <1>24 DEF Crash
<1>25. CASE UNCHANGED vars
  BY <1>25 DEF vars
<1> QED
  BY <1>1, <1>2, <1>3, <1>4, <1>5, <1>6, <1>7, <1>8, <1>9, <1>10, <1>11, <1>12, <1>13, <1>14, <1>15, <1>16, <1>17, <1>18, <1>19, <1>20, <1>21, <1>22, <1>23, <1>24, <1>25 DEF Next, Live, Drain, Attempt

(* A sender at work has an entry in hand. *)
LEMMA InHandStep ==
  TypeOK /\ InHandOK /\ [Next]_vars => InHandOK'
<1> SUFFICES ASSUME TypeOK, InHandOK, [Next]_vars
             PROVE  InHandOK'
  OBVIOUS
<1> USE DeliveryAssumption DEF TypeOK, InHandOK, Busy, Holding, Senders, Drainers, Gone, disk, outside
<1>1. ASSUME NEW e \in Entries, Enqueue(e) PROVE InHandOK'
  BY <1>1 DEF Enqueue, Goto
<1>2. ASSUME NEW e \in Entries, EnqueueFails(e) PROVE InHandOK'
  BY <1>2 DEF EnqueueFails, Goto
<1>3. ASSUME NEW e \in Entries, StartLive(e) PROVE InHandOK'
  BY <1>3 DEF StartLive, Goto, Free
<1>4. ASSUME NEW e \in Entries, Abort(e) PROVE InHandOK'
  BY <1>4 DEF Abort, Goto
<1>5. ASSUME NEW e \in Entries, Elapse(e) PROVE InHandOK'
  BY <1>5 DEF Elapse
<1>6. ASSUME NEW s \in Senders, PartArrives(s) PROVE InHandOK'
  BY <1>6 DEF PartArrives, Goto, NextPart
<1>7. ASSUME NEW s \in Senders, SendThrows(s) PROVE InHandOK'
  BY <1>7 DEF SendThrows, Goto
<1>8. ASSUME NEW s \in Senders, AckRename(s) PROVE InHandOK'
  BY <1>8 DEF AckRename, Goto, Queued
<1>9. ASSUME NEW s \in Senders, AckUnlink(s) PROVE InHandOK'
  BY <1>9 DEF AckUnlink, EndAttempt, Released
<1>10. ASSUME NEW s \in Senders, AckFails(s) PROVE InHandOK'
  BY <1>10 DEF AckFails, EndAttempt, Released, Goto, Queued
<1>11. ASSUME NEW s \in Senders, FailRead(s) PROVE InHandOK'
  BY <1>11 DEF FailRead, EndAttempt, Released, Goto, Queued
<1>12. ASSUME NEW s \in Senders, FailWrite(s) PROVE InHandOK'
  BY <1>12 DEF FailWrite, Rewrite, Bumped, EndAttempt, Released
<1>13. ASSUME NEW s \in Senders, MoveToFailed(s) PROVE InHandOK'
  BY <1>13 DEF MoveToFailed, Queued, EndAttempt, Released
<1>14. ASSUME NEW d \in Drainers, Scan(d) PROVE InHandOK'
  BY <1>14 DEF Scan, Goto, Queued
<1>15. ASSUME NEW d \in Drainers, ScanEnds(d) PROVE InHandOK'
  BY <1>15 DEF ScanEnds, Goto
<1>16. ASSUME NEW d \in Drainers, Claim(d) PROVE InHandOK'
  BY <1>16 DEF Claim, Oldest, Free
<1>17. ASSUME NEW d \in Drainers, Pass(d) PROVE InHandOK'
  BY <1>17 DEF Pass, Reread, Queued, EndAttempt, Released
<1>18. ASSUME NEW d \in Drainers, GiveUp(d) PROVE InHandOK'
  BY <1>18 DEF GiveUp, Reread, Queued, Goto
<1>19. ASSUME NEW d \in Drainers, Replay(d) PROVE InHandOK'
  BY <1>19 DEF Replay, Reread, Queued, Goto
<1>20. ASSUME NEW d \in Drainers, Defer(d) PROVE InHandOK'
  BY <1>20 DEF Defer, Goto
<1>21. ASSUME NEW d \in Drainers, DeferRead(d) PROVE InHandOK'
  BY <1>21 DEF DeferRead, Queued
<1>22. ASSUME NEW d \in Drainers, DeferWrite(d) PROVE InHandOK'
  BY <1>22 DEF DeferWrite, Rewrite, Bumped
<1>23. ASSUME NEW d \in Drainers, DeferEnds(d) PROVE InHandOK'
  BY <1>23 DEF DeferEnds, Goto
<1>24. CASE Crash
  BY <1>24 DEF Crash
<1>25. CASE UNCHANGED vars
  BY <1>25 DEF vars
<1> QED
  BY <1>1, <1>2, <1>3, <1>4, <1>5, <1>6, <1>7, <1>8, <1>9, <1>10, <1>11, <1>12, <1>13, <1>14, <1>15, <1>16, <1>17, <1>18, <1>19, <1>20, <1>21, <1>22, <1>23, <1>24, <1>25 DEF Next, Live, Drain, Attempt

(* No step gives an entry a second owner, or leaves a claim behind. *)
LEMMA OwnedStep ==
  TypeOK /\ InHandOK /\ Owned /\ [Next]_vars => Owned'
<1> SUFFICES ASSUME TypeOK, InHandOK, Owned, [Next]_vars
             PROVE  Owned'
  OBVIOUS
<1> USE DeliveryAssumption DEF TypeOK, InHandOK, Owned, OneOwner, ClaimHeld, ClaimOwned, Holds, Busy, Holding, Senders, Drainers, disk, outside
<1>1. ASSUME NEW e \in Entries, Enqueue(e) PROVE Owned'
  BY <1>1 DEF Enqueue, Goto
<1>2. ASSUME NEW e \in Entries, EnqueueFails(e) PROVE Owned'
  BY <1>2 DEF EnqueueFails, Goto
<1>3. ASSUME NEW e \in Entries, StartLive(e) PROVE Owned'
  BY <1>3 DEF StartLive, Goto, Free
<1>4. ASSUME NEW e \in Entries, Abort(e) PROVE Owned'
  BY <1>4 DEF Abort, Goto
<1>5. ASSUME NEW e \in Entries, Elapse(e) PROVE Owned'
  BY <1>5 DEF Elapse
<1>6. ASSUME NEW s \in Senders, PartArrives(s) PROVE Owned'
  BY <1>6 DEF PartArrives, Goto, NextPart
<1>7. ASSUME NEW s \in Senders, SendThrows(s) PROVE Owned'
  BY <1>7 DEF SendThrows, Goto
<1>8. ASSUME NEW s \in Senders, AckRename(s) PROVE Owned'
  BY <1>8 DEF AckRename, Goto, Queued
<1>9. ASSUME NEW s \in Senders, AckUnlink(s) PROVE Owned'
  BY <1>9 DEF AckUnlink, EndAttempt, Released
<1>10. ASSUME NEW s \in Senders, AckFails(s) PROVE Owned'
  BY <1>10 DEF AckFails, EndAttempt, Released, Goto, Queued
<1>11. ASSUME NEW s \in Senders, FailRead(s) PROVE Owned'
  BY <1>11 DEF FailRead, EndAttempt, Released, Goto, Queued
<1>12. ASSUME NEW s \in Senders, FailWrite(s) PROVE Owned'
  BY <1>12 DEF FailWrite, Rewrite, Bumped, EndAttempt, Released
<1>13. ASSUME NEW s \in Senders, MoveToFailed(s) PROVE Owned'
  BY <1>13 DEF MoveToFailed, Queued, EndAttempt, Released
<1>14. ASSUME NEW d \in Drainers, Scan(d) PROVE Owned'
  BY <1>14 DEF Scan, Goto, Queued
<1>15. ASSUME NEW d \in Drainers, ScanEnds(d) PROVE Owned'
  BY <1>15 DEF ScanEnds, Goto
<1>16. ASSUME NEW d \in Drainers, Claim(d) PROVE Owned'
  <2>1. PICK e \in todo[d] : /\ IF Free(e)
                                THEN /\ at' = [at EXCEPT ![d] = e]
                                     /\ pc' = [pc EXCEPT ![d] = "claimed"]
                                     /\ claimed' = claimed \cup {e}
                                ELSE UNCHANGED <<at, pc, claimed>>
    BY <1>16 DEF Claim
  <2>2. CASE Free(e)
    <3>1. /\ e \in Entries /\ d \notin Notices /\ pc[d] = "next" /\ e \notin claimed
          /\ Holds(d)' /\ at'[d] = e /\ ~Holds(d)
      BY <1>16, <2>1, <2>2 DEF Claim, Free
    <3>2. \A s \in Senders \ {d} : Holds(s)' = Holds(s) /\ at'[s] = at[s]
      BY <2>1, <2>2
    <3>3. \A s \in Senders \ {d} : Holds(s) => at[s] # e
      BY <3>1
    <3>4. claimed' = claimed \cup {e}
      BY <2>1, <2>2
    <3> HIDE DEF Holds
    <3> QED
      BY <3>1, <3>2, <3>3, <3>4
  <2>3. CASE ~Free(e)
    BY <2>1, <2>3
  <2> QED
    BY <2>2, <2>3
<1>17. ASSUME NEW d \in Drainers, Pass(d) PROVE Owned'
  BY <1>17 DEF Pass, Reread, Queued, EndAttempt, Released
<1>18. ASSUME NEW d \in Drainers, GiveUp(d) PROVE Owned'
  BY <1>18 DEF GiveUp, Reread, Queued, Goto
<1>19. ASSUME NEW d \in Drainers, Replay(d) PROVE Owned'
  BY <1>19 DEF Replay, Reread, Queued, Goto
<1>20. ASSUME NEW d \in Drainers, Defer(d) PROVE Owned'
  BY <1>20 DEF Defer, Goto
<1>21. ASSUME NEW d \in Drainers, DeferRead(d) PROVE Owned'
  BY <1>21 DEF DeferRead, Queued
<1>22. ASSUME NEW d \in Drainers, DeferWrite(d) PROVE Owned'
  BY <1>22 DEF DeferWrite, Rewrite, Bumped
<1>23. ASSUME NEW d \in Drainers, DeferEnds(d) PROVE Owned'
  BY <1>23 DEF DeferEnds, Goto
<1>24. CASE Crash
  BY <1>24 DEF Crash
<1>25. CASE UNCHANGED vars
  BY <1>25 DEF vars
<1> QED
  BY <1>1, <1>2, <1>3, <1>4, <1>5, <1>6, <1>7, <1>8, <1>9, <1>10, <1>11, <1>12, <1>13, <1>14, <1>15, <1>16, <1>17, <1>18, <1>19, <1>20, <1>21, <1>22, <1>23, <1>24, <1>25 DEF Next, Live, Drain, Attempt

(* A send only adds to what reached the recipient. *)
LEMMA ReceivedGrows ==
  ASSUME TypeOK, InHandOK, NEW s \in Senders, PartArrives(s) \/ SendThrows(s)
  PROVE  /\ received' \in [Entries -> SUBSET (1..Parts)]
         /\ \A e \in Entries : received[e] \subseteq received'[e]
<1> USE DeliveryAssumption DEF TypeOK, InHandOK, Busy, Holding, Senders
<1>1. at[s] \in Entries /\ part[s] + 1 \in 1..Parts
  BY DEF PartArrives, SendThrows
<1>2. CASE PartArrives(s)
  BY <1>1, <1>2 DEF PartArrives
<1>3. CASE SendThrows(s)
  BY <1>1, <1>3 DEF SendThrows
<1> QED
  BY <1>2, <1>3

(* Progress is kept. *)
LEMMA ProgressStep ==
  TypeOK /\ InHandOK /\ Progress /\ [Next]_vars => Progress'
<1> SUFFICES ASSUME TypeOK, InHandOK, Progress, [Next]_vars
             PROVE  Progress'
  OBVIOUS
<1> USE DeliveryAssumption DEF TypeOK, InHandOK, Progress, Busy, Holding, Senders, Drainers, disk, outside
<1>1. ASSUME NEW e \in Entries, Enqueue(e) PROVE Progress'
  BY <1>1 DEF Enqueue, Goto
<1>2. ASSUME NEW e \in Entries, EnqueueFails(e) PROVE Progress'
  BY <1>2 DEF EnqueueFails, Goto
<1>3. ASSUME NEW e \in Entries, StartLive(e) PROVE Progress'
  BY <1>3 DEF StartLive, Goto, Free
<1>4. ASSUME NEW e \in Entries, Abort(e) PROVE Progress'
  BY <1>4 DEF Abort, Goto
<1>5. ASSUME NEW e \in Entries, Elapse(e) PROVE Progress'
  BY <1>5 DEF Elapse
<1>6. ASSUME NEW s \in Senders, PartArrives(s) PROVE Progress'
  <2>0. /\ received' \in [Entries -> SUBSET (1..Parts)]
        /\ \A f \in Entries : received[f] \subseteq received'[f]
    BY <1>6, ReceivedGrows
  <2>1. /\ at' = at /\ at[s] \in Entries /\ part[s] \in 0..(Parts - 1)
        /\ pc'[s] = (IF part[s] + 1 = Parts THEN "acking" ELSE "sending")
        /\ part'[s] = (IF part[s] + 1 = Parts THEN 0 ELSE part[s] + 1)
        /\ received'[at[s]] = received[at[s]] \cup {part[s] + 1}
        /\ \A t \in Senders \ {s} : pc'[t] = pc[t] /\ part'[t] = part[t]
    BY <1>6 DEF PartArrives, Goto, NextPart
  <2> SUFFICES ASSUME NEW t \in Senders
               PROVE  /\ pc'[t] = "sending" => 1..part'[t] \subseteq received'[at[t]]
                      /\ pc'[t] # "sending" => part'[t] = 0
                      /\ pc'[t] = "acking" => received'[at[t]] = 1..Parts
    BY <2>1 DEF Progress
  <2>2. CASE t = s
    <3>1. 1..(part[s] + 1) \subseteq received'[at[s]]
      BY <1>6, <2>1 DEF PartArrives, Progress
    <3>2. received'[at[s]] \subseteq 1..Parts
      BY <2>0, <2>1
    <3> QED
      <4>1. part[s] + 1 = Parts => received'[at[s]] = 1..Parts
        <5> SUFFICES ASSUME part[s] + 1 = Parts PROVE received'[at[s]] = 1..Parts
          OBVIOUS
        <5>1. 1..Parts \subseteq received'[at[s]]
          BY <3>1
        <5> QED
          BY <5>1, <3>2, Zenon
      <4>2. /\ pc'[s] = "sending" => 1..part'[s] \subseteq received'[at[s]]
            /\ pc'[s] # "sending" => part'[s] = 0
        BY <2>1, <3>1
      <4>3. pc'[s] = "acking" => received'[at[s]] = 1..Parts
        BY <2>1, <4>1
      <4> QED
        BY <2>2, <4>2, <4>3
  <2>3. CASE t # s
    <3>1. pc[t] \in Holding => at[t] \in Entries
      OBVIOUS
    <3>2. pc[t] = "acking" => received'[at[t]] = 1..Parts
      <4> SUFFICES ASSUME pc[t] = "acking" PROVE received'[at[t]] = 1..Parts
        OBVIOUS
      <4>1. received[at[t]] = 1..Parts
        BY DEF Progress
      <4>2. received[at[t]] \subseteq received'[at[t]] /\ received'[at[t]] \subseteq 1..Parts
        BY <2>0, <3>1
      <4> QED
        BY <4>1, <4>2, Zenon
    <3>3. /\ pc[t] = "sending" => 1..part[t] \subseteq received'[at[t]]
          /\ pc[t] # "sending" => part[t] = 0
      BY <2>0, <3>1 DEF Progress
    <3> QED
      BY <2>1, <2>3, <3>2, <3>3
  <2> QED
    BY <2>2, <2>3
<1>7. ASSUME NEW s \in Senders, SendThrows(s) PROVE Progress'
  <2>0. /\ received' \in [Entries -> SUBSET (1..Parts)]
        /\ \A f \in Entries : received[f] \subseteq received'[f]
    BY <1>7, ReceivedGrows
  <2>1. /\ at' = at
        /\ pc'[s] # "acking" /\ part'[s] = 0
        /\ \A t \in Senders \ {s} : pc'[t] = pc[t] /\ part'[t] = part[t]
    BY <1>7 DEF SendThrows, Goto
  <2> SUFFICES ASSUME NEW t \in Senders
               PROVE  /\ pc'[t] = "sending" => 1..part'[t] \subseteq received'[at[t]]
                      /\ pc'[t] # "sending" => part'[t] = 0
                      /\ pc'[t] = "acking" => received'[at[t]] = 1..Parts
    BY <2>1 DEF Progress
  <2>2. CASE t = s
    BY <2>1, <2>2
  <2>3. CASE t # s
    <3>1. pc[t] \in Holding => at[t] \in Entries
      OBVIOUS
    <3>2. pc[t] = "acking" => received'[at[t]] = 1..Parts
      <4> SUFFICES ASSUME pc[t] = "acking" PROVE received'[at[t]] = 1..Parts
        OBVIOUS
      <4>1. received[at[t]] = 1..Parts
        BY DEF Progress
      <4>2. received[at[t]] \subseteq received'[at[t]] /\ received'[at[t]] \subseteq 1..Parts
        BY <2>0, <3>1
      <4> QED
        BY <4>1, <4>2, Zenon
    <3>3. /\ pc[t] = "sending" => 1..part[t] \subseteq received'[at[t]]
          /\ pc[t] # "sending" => part[t] = 0
      BY <2>0, <3>1 DEF Progress
    <3> QED
      BY <2>1, <2>3, <3>2, <3>3
  <2> QED
    BY <2>2, <2>3
<1>8. ASSUME NEW s \in Senders, AckRename(s) PROVE Progress'
  BY <1>8 DEF AckRename, Goto, Queued
<1>9. ASSUME NEW s \in Senders, AckUnlink(s) PROVE Progress'
  BY <1>9 DEF AckUnlink, EndAttempt, Released
<1>10. ASSUME NEW s \in Senders, AckFails(s) PROVE Progress'
  BY <1>10 DEF AckFails, EndAttempt, Released, Goto, Queued
<1>11. ASSUME NEW s \in Senders, FailRead(s) PROVE Progress'
  BY <1>11 DEF FailRead, EndAttempt, Released, Goto, Queued
<1>12. ASSUME NEW s \in Senders, FailWrite(s) PROVE Progress'
  BY <1>12 DEF FailWrite, Rewrite, Bumped, EndAttempt, Released
<1>13. ASSUME NEW s \in Senders, MoveToFailed(s) PROVE Progress'
  BY <1>13 DEF MoveToFailed, Queued, EndAttempt, Released
<1>14. ASSUME NEW d \in Drainers, Scan(d) PROVE Progress'
  BY <1>14 DEF Scan, Goto, Queued
<1>15. ASSUME NEW d \in Drainers, ScanEnds(d) PROVE Progress'
  BY <1>15 DEF ScanEnds, Goto
<1>16. ASSUME NEW d \in Drainers, Claim(d) PROVE Progress'
  BY <1>16 DEF Claim, Oldest, Free
<1>17. ASSUME NEW d \in Drainers, Pass(d) PROVE Progress'
  BY <1>17 DEF Pass, Reread, Queued, EndAttempt, Released
<1>18. ASSUME NEW d \in Drainers, GiveUp(d) PROVE Progress'
  BY <1>18 DEF GiveUp, Reread, Queued, Goto
<1>19. ASSUME NEW d \in Drainers, Replay(d) PROVE Progress'
  BY <1>19 DEF Replay, Reread, Queued, Goto
<1>20. ASSUME NEW d \in Drainers, Defer(d) PROVE Progress'
  BY <1>20 DEF Defer, Goto
<1>21. ASSUME NEW d \in Drainers, DeferRead(d) PROVE Progress'
  BY <1>21 DEF DeferRead, Queued
<1>22. ASSUME NEW d \in Drainers, DeferWrite(d) PROVE Progress'
  BY <1>22 DEF DeferWrite, Rewrite, Bumped
<1>23. ASSUME NEW d \in Drainers, DeferEnds(d) PROVE Progress'
  BY <1>23 DEF DeferEnds, Goto
<1>24. CASE Crash
  BY <1>24 DEF Crash
<1>25. CASE UNCHANGED vars
  BY <1>25 DEF vars
<1> QED
  BY <1>1, <1>2, <1>3, <1>4, <1>5, <1>6, <1>7, <1>8, <1>9, <1>10, <1>11, <1>12, <1>13, <1>14, <1>15, <1>16, <1>17, <1>18, <1>19, <1>20, <1>21, <1>22, <1>23, <1>24, <1>25 DEF Next, Live, Drain, Attempt

(* No step loses a message. *)
LEMMA NotLostStep ==
  TypeOK /\ InHandOK /\ Progress /\ NotLost /\ [Next]_vars => NotLost'
<1> SUFFICES ASSUME TypeOK, InHandOK, Progress, NotLost, [Next]_vars
             PROVE  NotLost'
  OBVIOUS
<1> USE DeliveryAssumption DEF TypeOK, InHandOK, Progress, NotLost, Queued, Busy, Holding, Senders, Drainers, Gone, disk, outside
<1>1. ASSUME NEW e \in Entries, Enqueue(e) PROVE NotLost'
  BY <1>1 DEF Enqueue, Goto
<1>2. ASSUME NEW e \in Entries, EnqueueFails(e) PROVE NotLost'
  BY <1>2 DEF EnqueueFails, Goto
<1>3. ASSUME NEW e \in Entries, StartLive(e) PROVE NotLost'
  BY <1>3 DEF StartLive, Goto, Free
<1>4. ASSUME NEW e \in Entries, Abort(e) PROVE NotLost'
  BY <1>4 DEF Abort, Goto
<1>5. ASSUME NEW e \in Entries, Elapse(e) PROVE NotLost'
  BY <1>5 DEF Elapse
<1>6. ASSUME NEW s \in Senders, PartArrives(s) PROVE NotLost'
  <2>0. /\ received' \in [Entries -> SUBSET (1..Parts)]
        /\ \A f \in Entries : received[f] \subseteq received'[f]
    BY <1>6, ReceivedGrows
  <2>1. UNCHANGED <<retries, age, failed, aborted>>
    BY <1>6 DEF PartArrives
  <2> SUFFICES ASSUME NEW f \in Entries, age[f] # 0
               PROVE  Queued(f) \/ f \in failed \/ f \in aborted \/ received'[f] = 1..Parts
    BY <2>1 DEF NotLost
  <2>2. CASE received[f] = 1..Parts
    <3>1. received[f] \subseteq received'[f] /\ received'[f] \subseteq 1..Parts
      BY <2>0
    <3>2. received'[f] = 1..Parts
      BY <2>2, <3>1, Zenon
    <3> QED
      BY <3>2
  <2> QED
    BY <2>2 DEF NotLost
<1>7. ASSUME NEW s \in Senders, SendThrows(s) PROVE NotLost'
  <2>0. /\ received' \in [Entries -> SUBSET (1..Parts)]
        /\ \A f \in Entries : received[f] \subseteq received'[f]
    BY <1>7, ReceivedGrows
  <2>1. UNCHANGED <<retries, age, failed, aborted>>
    BY <1>7 DEF SendThrows
  <2> SUFFICES ASSUME NEW f \in Entries, age[f] # 0
               PROVE  Queued(f) \/ f \in failed \/ f \in aborted \/ received'[f] = 1..Parts
    BY <2>1 DEF NotLost
  <2>2. CASE received[f] = 1..Parts
    <3>1. received[f] \subseteq received'[f] /\ received'[f] \subseteq 1..Parts
      BY <2>0
    <3>2. received'[f] = 1..Parts
      BY <2>2, <3>1, Zenon
    <3> QED
      BY <3>2
  <2> QED
    BY <2>2 DEF NotLost
<1>8. ASSUME NEW s \in Senders, AckRename(s) PROVE NotLost'
  BY <1>8 DEF AckRename, Goto, Queued
<1>9. ASSUME NEW s \in Senders, AckUnlink(s) PROVE NotLost'
  BY <1>9 DEF AckUnlink, EndAttempt, Released
<1>10. ASSUME NEW s \in Senders, AckFails(s) PROVE NotLost'
  BY <1>10 DEF AckFails, EndAttempt, Released, Goto, Queued
<1>11. ASSUME NEW s \in Senders, FailRead(s) PROVE NotLost'
  BY <1>11 DEF FailRead, EndAttempt, Released, Goto, Queued
<1>12. ASSUME NEW s \in Senders, FailWrite(s) PROVE NotLost'
  BY <1>12 DEF FailWrite, Rewrite, Bumped, EndAttempt, Released
<1>13. ASSUME NEW s \in Senders, MoveToFailed(s) PROVE NotLost'
  BY <1>13 DEF MoveToFailed, Queued, EndAttempt, Released
<1>14. ASSUME NEW d \in Drainers, Scan(d) PROVE NotLost'
  BY <1>14 DEF Scan, Goto, Queued
<1>15. ASSUME NEW d \in Drainers, ScanEnds(d) PROVE NotLost'
  BY <1>15 DEF ScanEnds, Goto
<1>16. ASSUME NEW d \in Drainers, Claim(d) PROVE NotLost'
  BY <1>16 DEF Claim, Oldest, Free
<1>17. ASSUME NEW d \in Drainers, Pass(d) PROVE NotLost'
  BY <1>17 DEF Pass, Reread, Queued, EndAttempt, Released
<1>18. ASSUME NEW d \in Drainers, GiveUp(d) PROVE NotLost'
  BY <1>18 DEF GiveUp, Reread, Queued, Goto
<1>19. ASSUME NEW d \in Drainers, Replay(d) PROVE NotLost'
  BY <1>19 DEF Replay, Reread, Queued, Goto
<1>20. ASSUME NEW d \in Drainers, Defer(d) PROVE NotLost'
  BY <1>20 DEF Defer, Goto
<1>21. ASSUME NEW d \in Drainers, DeferRead(d) PROVE NotLost'
  BY <1>21 DEF DeferRead, Queued
<1>22. ASSUME NEW d \in Drainers, DeferWrite(d) PROVE NotLost'
  BY <1>22 DEF DeferWrite, Rewrite, Bumped
<1>23. ASSUME NEW d \in Drainers, DeferEnds(d) PROVE NotLost'
  BY <1>23 DEF DeferEnds, Goto
<1>24. CASE Crash
  BY <1>24 DEF Crash
<1>25. CASE UNCHANGED vars
  BY <1>25 DEF vars
<1> QED
  BY <1>1, <1>2, <1>3, <1>4, <1>5, <1>6, <1>7, <1>8, <1>9, <1>10, <1>11, <1>12, <1>13, <1>14, <1>15, <1>16, <1>17, <1>18, <1>19, <1>20, <1>21, <1>22, <1>23, <1>24, <1>25 DEF Next, Live, Drain, Attempt

-----------------------------------------------------------------------------
IInv == TypeOK /\ InHandOK /\ Owned /\ Progress /\ NotLost

LEMMA InitEstablishes == Init => IInv
<1> SUFFICES ASSUME Init PROVE IInv
  OBVIOUS
<1> USE DeliveryAssumption DEF Init, Senders, Drainers, Holding, Busy, Gone
<1>1. TypeOK
  BY DEF TypeOK
<1>2. InHandOK
  BY DEF InHandOK
<1>3. Owned
  BY DEF Owned, OneOwner, ClaimHeld, ClaimOwned, Holds
<1>4. Progress
  BY DEF Progress
<1>5. NotLost
  BY DEF NotLost
<1> QED
  BY <1>1, <1>2, <1>3, <1>4, <1>5 DEF IInv

LEMMA NextPreserves == IInv /\ [Next]_vars => IInv'
BY TypeStep, InHandStep, OwnedStep, ProgressStep, NotLostStep DEF IInv

LEMMA Invariance == Spec => []IInv
<1>1. Init => IInv
  BY InitEstablishes
<1>2. IInv /\ [Next]_vars => IInv'
  BY NextPreserves
<1> QED
  BY <1>1, <1>2, PTL DEF Spec

(* Types, for any messages, senders and bounds. *)
THEOREM TypeCorrect == Spec => []TypeOK
<1>1. IInv => TypeOK
  BY DEF IInv
<1> QED
  BY <1>1, Invariance, PTL

(* Whatever live sends, scans and notices do, two senders never have the   *)
(* same entry in hand, notices excepted.                                   *)
THEOREM SingleOwner == Spec => []OneOwner
<1>1. IInv => OneOwner
  BY DEF IInv, Owned
<1> QED
  BY <1>1, Invariance, PTL

(* No path through an attempt leaves its claim behind. *)
THEOREM ClaimsReleased == Spec => []ClaimsExact
<1>1. IInv => ClaimsExact
  BY DEF IInv, Owned, ClaimHeld, ClaimOwned, ClaimsExact
<1> QED
  BY <1>1, Invariance, PTL

(* A message that is on disk once is never lost: not by a crash at any     *)
(* step, nor by deferrals, notices or concurrent scans.                    *)
THEOREM NothingLost == Spec => []NotLost
<1>1. IInv => NotLost
  BY DEF IInv
<1> QED
  BY <1>1, Invariance, PTL

-----------------------------------------------------------------------------
(* The promise of AtLeastOnce is kept when nothing touches an entry's file *)
(* but the owner of its claim: there are no notices, recovery does not     *)
(* run out of time, and live sends resume in time to find their claim      *)
(* taken.  Each of the three is needed: TLC refutes it without any one.    *)
Unhurried == Notices = {} /\ ~Budgeted /\ Prompt

(* An entry's file agrees with what is known of it.  A live send that has  *)
(* not started is alone with its entry; a sender at work finds the file    *)
(* until it removes it; a rewrite in progress is that of its owner.        *)
Tidy ==
  /\ \A e \in Entries :
       /\ age[e] = 0 => /\ ~Queued(e)
                        /\ e \notin failed \cup aborted
                        /\ pc[e] \in {"idle", "done"}
       /\ pc[e] = "idle" => age[e] = 0
       /\ Queued(e) => e \notin failed \cup aborted
       /\ pc[e] = "enqueued" =>
            Queued(e) /\ \A s \in Senders : pc[s] \in Holding => at[s] # e
  /\ \A s \in Senders :
       /\ Busy(s) => age[at[s]] # 0
       /\ pc[s] \in Holding \ {"unlinking"} => Queued(at[s])
  /\ \A d \in Drainers :
       /\ pc[d] # "deferring"
       /\ \A e \in todo[d] : age[e] # 0
  /\ \A w \in rewrites : pc[w[1]] = "rewriting" /\ at[w[1]] = w[2]
  /\ \A v, w \in rewrites : v[1] = w[1] => v = w

(* Without notices and deferrals, only the owner of an entry touches its file. *)
LEMMA TidyStep ==
  Unhurried /\ TypeOK /\ InHandOK /\ Owned /\ Tidy /\ [Next]_vars => Tidy'
<1> SUFFICES ASSUME Unhurried, TypeOK, InHandOK, Owned, Tidy, [Next]_vars
             PROVE  Tidy'
  OBVIOUS
<1> USE DeliveryAssumption DEF TypeOK, InHandOK, Owned, OneOwner, ClaimHeld, Tidy, Unhurried, Holds, Queued, Busy, Holding, Senders, Drainers, Gone, disk, outside
<1>1. ASSUME NEW e \in Entries, Enqueue(e) PROVE Tidy'
  BY <1>1 DEF Enqueue, Goto
<1>2. ASSUME NEW e \in Entries, EnqueueFails(e) PROVE Tidy'
  BY <1>2 DEF EnqueueFails, Goto
<1>3. ASSUME NEW e \in Entries, StartLive(e) PROVE Tidy'
  BY <1>3 DEF StartLive, Goto, Free
<1>4. ASSUME NEW e \in Entries, Abort(e) PROVE Tidy'
  BY <1>4 DEF Abort, Goto
<1>5. ASSUME NEW e \in Entries, Elapse(e) PROVE Tidy'
  BY <1>5 DEF Elapse
<1>6. ASSUME NEW s \in Senders, PartArrives(s) PROVE Tidy'
  BY <1>6 DEF PartArrives, Goto, NextPart
<1>7. ASSUME NEW s \in Senders, SendThrows(s) PROVE Tidy'
  <2>1. /\ UNCHANGED <<retries, age, failed, aborted, at, todo, rewrites>>
        /\ pc[s] = "sending"
        /\ \E label \in {"failing", "moving", "sending"} : pc' = [pc EXCEPT ![s] = label]
    BY <1>7 DEF SendThrows, Goto
  <2> QED
    BY <2>1
<1>8. ASSUME NEW s \in Senders, AckRename(s) PROVE Tidy'
  BY <1>8 DEF AckRename, Goto, Queued
<1>9. ASSUME NEW s \in Senders, AckUnlink(s) PROVE Tidy'
  BY <1>9 DEF AckUnlink, EndAttempt, Released
<1>10. ASSUME NEW s \in Senders, AckFails(s) PROVE Tidy'
  BY <1>10 DEF AckFails, EndAttempt, Released, Goto, Queued
<1>11. ASSUME NEW s \in Senders, FailRead(s) PROVE Tidy'
  <2>1. /\ UNCHANGED <<retries, age, failed, aborted, at, todo>>
        /\ pc[s] = "failing" /\ Queued(at[s])
    BY <1>11 DEF FailRead
  <2>2. /\ rewrites' = rewrites \cup {<<s, at[s], retries[at[s]]>>}
        /\ pc' = [pc EXCEPT ![s] = "rewriting"]
    BY <1>11, <2>1 DEF FailRead, Goto
  <2>3. \A w \in rewrites : w[1] # s
    BY <2>1
  <2>4. \A w \in rewrites' : w \in rewrites \/ (w[1] = s /\ w[2] = at[s])
    BY <2>2
  <2>5. \A w \in rewrites' : pc'[w[1]] = "rewriting" /\ at'[w[1]] = w[2]
    BY <2>1, <2>2, <2>3, <2>4
  <2>6. \A v, w \in rewrites' : v[1] = w[1] => v = w
    BY <2>2, <2>3
  <2> QED
    BY <2>1, <2>2, <2>5, <2>6
<1>12. ASSUME NEW s \in Senders, FailWrite(s) PROVE Tidy'
  <2>1. PICK w \in rewrites : w[1] = s /\ Rewrite(w)
    BY <1>12 DEF FailWrite
  <2>2. w[2] = at[s] /\ at[s] \in Entries /\ w[3] \in Nat /\ pc[s] = "rewriting"
    BY <1>12, <2>1 DEF FailWrite
  <2>3. /\ retries' = [retries EXCEPT ![at[s]] = Bumped(w[3])]
        /\ rewrites' = rewrites \ {w}
        /\ UNCHANGED <<age, failed, at, todo, aborted>>
        /\ pc' = [pc EXCEPT ![s] = IF s \in Entries THEN "done" ELSE "next"]
    <3>1. /\ retries' = [retries EXCEPT ![w[2]] = Bumped(w[3])]
          /\ rewrites' = rewrites \ {w}
          /\ UNCHANGED <<age, failed, at, todo, aborted>>
      BY <2>1 DEF Rewrite
    <3>2. pc' = [pc EXCEPT ![s] = IF s \in Entries THEN "done" ELSE "next"]
      BY <1>12 DEF FailWrite, EndAttempt
    <3> QED
      BY <2>2, <3>1, <3>2
  <2>6. Bumped(w[3]) \in Nat
    BY <2>2 DEF Bumped
  <2>4. \A v \in rewrites' : v[1] # s
    BY <2>1, <2>3
  <2>5. age[at[s]] # 0 /\ Queued(at[s])
    BY <2>2
  <2> QED
    BY <2>2, <2>3, <2>4, <2>5, <2>6
<1>13. ASSUME NEW s \in Senders, MoveToFailed(s) PROVE Tidy'
  BY <1>13 DEF MoveToFailed, Queued, EndAttempt, Released
<1>14. ASSUME NEW d \in Drainers, Scan(d) PROVE Tidy'
  BY <1>14 DEF Scan, Goto, Queued
<1>15. ASSUME NEW d \in Drainers, ScanEnds(d) PROVE Tidy'
  BY <1>15 DEF ScanEnds, Goto
<1>16. ASSUME NEW d \in Drainers, Claim(d) PROVE Tidy'
  BY <1>16 DEF Claim, Oldest, Free
<1>17. ASSUME NEW d \in Drainers, Pass(d) PROVE Tidy'
  BY <1>17 DEF Pass, Reread, Queued, EndAttempt, Released
<1>18. ASSUME NEW d \in Drainers, GiveUp(d) PROVE Tidy'
  BY <1>18 DEF GiveUp, Reread, Queued, Goto
<1>19. ASSUME NEW d \in Drainers, Replay(d) PROVE Tidy'
  BY <1>19 DEF Replay, Reread, Queued, Goto
<1>20. ASSUME NEW d \in Drainers, Defer(d) PROVE Tidy'
  BY <1>20 DEF Defer, Goto
<1>21. ASSUME NEW d \in Drainers, DeferRead(d) PROVE Tidy'
  BY <1>21 DEF DeferRead, Queued
<1>22. ASSUME NEW d \in Drainers, DeferWrite(d) PROVE Tidy'
  BY <1>22 DEF DeferWrite, Rewrite, Bumped
<1>23. ASSUME NEW d \in Drainers, DeferEnds(d) PROVE Tidy'
  BY <1>23 DEF DeferEnds, Goto
<1>24. CASE Crash
  BY <1>24 DEF Crash
<1>25. CASE UNCHANGED vars
  BY <1>25 DEF vars
<1> QED
  BY <1>1, <1>2, <1>3, <1>4, <1>5, <1>6, <1>7, <1>8, <1>9, <1>10, <1>11, <1>12, <1>13, <1>14, <1>15, <1>16, <1>17, <1>18, <1>19, <1>20, <1>21, <1>22, <1>23, <1>24, <1>25 DEF Next, Live, Drain, Attempt

-----------------------------------------------------------------------------
(* How the abstract state follows the queue's: what a step does to one     *)
(* entry's standing, and to the set of entries being sent.                 *)
Standings == [e \in Entries |-> Standing(e)]

LEMMA OneMoves ==
  ASSUME NEW e \in Entries, NEW v,
         \A f \in Entries : Standing(f)' = IF f = e THEN v ELSE Standing(f)
  PROVE  Standings' = [Standings EXCEPT ![e] = v]
BY DEF Standings

LEMMA NoneMoves ==
  ASSUME \A f \in Entries : Standing(f)' = Standing(f)
  PROVE  Standings' = Standings
BY DEF Standings

Flies(s) == pc[s] = "sending"

LEMMA FlightKept ==
  ASSUME \A s \in Senders : Flies(s)' = Flies(s) /\ (Flies(s) => at'[s] = at[s])
  PROVE  InFlight' = InFlight
BY DEF InFlight, Flies

LEMMA FlightBegins ==
  ASSUME NEW s \in Senders, pc'[s] = "sending",
         \A t \in Senders \ {s} : pc'[t] = pc[t] /\ at'[t] = at[t],
         pc[s] # "sending"
  PROVE  InFlight' = InFlight \cup {at'[s]}
BY DEF InFlight

LEMMA FlightEnds ==
  ASSUME NEW s \in Senders, pc[s] = "sending", pc'[s] # "sending",
         \A t \in Senders \ {s} : pc'[t] = pc[t] /\ at'[t] = at[t],
         \A t \in Senders \ {s} : pc[t] = "sending" => at[t] # at[s]
  PROVE  InFlight' = InFlight \ {at[s]}
BY DEF InFlight

(* Every step of the queue is a step of its promise, or none. *)
LEMMA PromiseStep ==
  Unhurried /\ IInv /\ Tidy /\ [Next]_vars => [Promise!Next]_(Promise!vars)
<1> SUFFICES ASSUME Unhurried, IInv, Tidy, [Next]_vars
             PROVE  [Promise!Next]_(Promise!vars)
  OBVIOUS
<1>0. TypeOK /\ InHandOK /\ Owned /\ Progress
  BY DEF IInv
<1> USE <1>0, DeliveryAssumption DEF TypeOK, InHandOK, Unhurried, Busy, Holding, Senders, Drainers, Gone, disk, outside
<1>1. ASSUME NEW e \in Entries, Enqueue(e) PROVE [Promise!Next]_(Promise!vars)
  <2>1. \A f \in Entries : Standing(f)' = IF f = e THEN "owed" ELSE Standing(f)
    BY <1>1 DEF Enqueue, Standing, Queued
  <2>2. Standings' = [Standings EXCEPT ![e] = "owed"]
    BY <2>1, OneMoves
  <2>3. InFlight' = InFlight
    BY <1>1, FlightKept DEF Enqueue, Goto, Flies
  <2>4. Standings[e] = "new" /\ received' = received
    BY <1>1 DEF Enqueue, Standings, Standing, Tidy
  <2>5. Promise!Accept(e)
    BY <2>2, <2>3, <2>4 DEF Promise!Accept, Standings
  <2> QED
    BY <2>5 DEF Promise!Next
<1>2. ASSUME NEW e \in Entries, EnqueueFails(e) PROVE [Promise!Next]_(Promise!vars)
  <2>1. UNCHANGED <<Standings, received>>
    BY <1>2, NoneMoves DEF EnqueueFails, Goto, Standing, Queued, Tidy
  <2>2. \A s \in Senders : Flies(s)' = Flies(s) /\ (Flies(s) => at'[s] = at[s])
    BY <1>2 DEF EnqueueFails, Goto, Flies
  <2>3. UNCHANGED InFlight
    BY <2>2, FlightKept
  <2> QED
    BY <2>1, <2>3 DEF Promise!vars, Standings
<1>3. ASSUME NEW e \in Entries, StartLive(e) PROVE [Promise!Next]_(Promise!vars)
  <2>1. UNCHANGED <<Standings, received>>
    BY <1>3, NoneMoves DEF StartLive, Standing, Queued
  <2>2. CASE pc'[e] = "sending"
    <3>1. InFlight' = InFlight \cup {e}
      <4>1. /\ pc[e] = "enqueued" /\ at'[e] = e
            /\ \A t \in Senders \ {e} : pc'[t] = pc[t] /\ at'[t] = at[t]
        BY <1>3 DEF StartLive, Goto
      <4> QED
        BY <2>2, <4>1, FlightBegins
    <3>2. e \notin InFlight
      BY <1>3 DEF StartLive, InFlight, Tidy
    <3>3. Standings[e] = "owed"
      BY <1>3 DEF StartLive, Standings, Standing, Tidy
    <3>4. Promise!Begin(e)
      BY <2>1, <3>1, <3>2, <3>3 DEF Promise!Begin, Standings
    <3> QED
      BY <3>4 DEF Promise!Next
  <2>3. CASE pc'[e] # "sending"
    <3>1. InFlight' = InFlight
      BY <1>3, <2>3, FlightKept DEF StartLive, Goto, Flies
    <3> QED
      BY <2>1, <3>1 DEF Promise!vars, Standings
  <2> QED
    BY <2>2, <2>3
<1>4. ASSUME NEW e \in Entries, Abort(e) PROVE [Promise!Next]_(Promise!vars)
  <2>1. UNCHANGED <<Standings, received>>
    BY <1>4, NoneMoves DEF Abort, Standing, Queued
  <2>2. /\ pc[e] = "sending" /\ at' = at /\ at[e] = e /\ pc'[e] # "sending"
        /\ \A t \in Senders \ {e} : pc'[t] = pc[t]
    BY <1>4 DEF Abort, Goto
  <2>3. e \in InFlight
    BY <2>2 DEF InFlight
  <2>4. InFlight' = InFlight \ {e}
    <3>1. \A t \in Senders \ {e} : pc[t] = "sending" => at[t] # at[e]
      BY <2>2 DEF Owned, OneOwner, Holds
    <3> QED
      BY <2>2, <3>1, FlightEnds
  <2>5. Promise!Stop({e})
    BY <2>1, <2>3, <2>4 DEF Promise!Stop, Standings
  <2> QED
    BY <2>5 DEF Promise!Next
<1>5. ASSUME NEW e \in Entries, Elapse(e) PROVE [Promise!Next]_(Promise!vars)
  <2>1. UNCHANGED <<Standings, received>>
    BY <1>5, NoneMoves DEF Elapse, Standing, Queued, Tidy
  <2>2. \A s \in Senders : Flies(s)' = Flies(s) /\ (Flies(s) => at'[s] = at[s])
    BY <1>5 DEF Elapse, Flies
  <2>3. UNCHANGED InFlight
    BY <2>2, FlightKept
  <2> QED
    BY <2>1, <2>3 DEF Promise!vars, Standings
<1>6. ASSUME NEW s \in Senders, PartArrives(s) PROVE [Promise!Next]_(Promise!vars)
  <2>1. UNCHANGED Standings
    BY <1>6, NoneMoves DEF PartArrives, Standing, Queued
  <2>2. /\ pc[s] = "sending" /\ at' = at /\ at[s] \in Entries /\ part[s] + 1 \in 1..Parts
        /\ \A t \in Senders \ {s} : pc'[t] = pc[t]
        /\ received' = [received EXCEPT ![at[s]] = @ \cup {part[s] + 1}]
    BY <1>6 DEF PartArrives, Goto
  <2>3. at[s] \in InFlight
    BY <2>2 DEF InFlight
  <2>4. InFlight' \in {InFlight, InFlight \ {at[s]}}
    <3>1. CASE pc'[s] = "sending"
      BY <2>2, <3>1, FlightKept DEF Flies
    <3>2. CASE pc'[s] # "sending"
      <4>1. \A t \in Senders \ {s} : pc[t] = "sending" => at[t] # at[s]
        BY <2>2 DEF Owned, OneOwner, Holds
      <4> QED
        BY <2>2, <3>2, <4>1, FlightEnds
    <3> QED
      BY <3>1, <3>2
  <2>5. Promise!Arrive(at[s], part[s] + 1)
    BY <2>1, <2>2, <2>3, <2>4 DEF Promise!Arrive, Standings
  <2> QED
    BY <2>2, <2>5 DEF Promise!Next
<1>7. ASSUME NEW s \in Senders, SendThrows(s) PROVE [Promise!Next]_(Promise!vars)
  <2>1. UNCHANGED Standings
    BY <1>7, NoneMoves DEF SendThrows, Standing, Queued
  <2>2. /\ pc[s] = "sending" /\ at' = at /\ at[s] \in Entries /\ part[s] + 1 \in 1..Parts
        /\ \A t \in Senders \ {s} : pc'[t] = pc[t]
        /\ pc'[s] # "sending"
    BY <1>7 DEF SendThrows, Goto
  <2>3. at[s] \in InFlight
    BY <2>2 DEF InFlight
  <2>4. InFlight' = InFlight \ {at[s]}
    <3>1. \A t \in Senders \ {s} : pc[t] = "sending" => at[t] # at[s]
      BY <2>2 DEF Owned, OneOwner, Holds
    <3> QED
      BY <2>2, <3>1, FlightEnds
  <2>5. CASE received' = received
    <3>1. Promise!Stop({at[s]})
      BY <2>1, <2>2, <2>3, <2>4, <2>5 DEF Promise!Stop, Standings
    <3> QED
      BY <2>2, <3>1 DEF Promise!Next
  <2>6. CASE received' = [received EXCEPT ![at[s]] = @ \cup {part[s] + 1}]
    <3>1. Promise!Arrive(at[s], part[s] + 1)
      BY <2>1, <2>2, <2>3, <2>4, <2>6 DEF Promise!Arrive, Standings
    <3> QED
      BY <2>2, <3>1 DEF Promise!Next
  <2> QED
    BY <1>7, <2>5, <2>6 DEF SendThrows
<1>8. ASSUME NEW s \in Senders, AckRename(s) PROVE [Promise!Next]_(Promise!vars)
  <2>1. /\ pc[s] \in {"acking", "aborting"} /\ at' = at /\ at[s] \in Entries
        /\ \A t \in Senders \ {s} : pc'[t] = pc[t]
        /\ pc'[s] # "sending" /\ received' = received
    BY <1>8 DEF AckRename, Goto, EndAttempt
  <2>2. Queued(at[s]) /\ age[at[s]] # 0 /\ at[s] \notin failed \cup aborted
    BY <2>1 DEF Tidy
  <2>3. InFlight' = InFlight
    BY <2>1, FlightKept DEF Flies
  <2>4. at[s] \notin InFlight
    BY <2>1 DEF InFlight, Owned, OneOwner, Holds
  <2>5. Standings[at[s]] = "owed"
    BY <2>1, <2>2 DEF Standings, Standing
  <2>6. CASE pc[s] = "aborting"
    <3>1. \A f \in Entries : Standing(f)' = IF f = at[s] THEN "aborted" ELSE Standing(f)
      BY <1>8, <2>1, <2>2, <2>6 DEF AckRename, Standing, Queued
    <3>2. Standings' = [Standings EXCEPT ![at[s]] = "aborted"]
      BY <2>1, <3>1, OneMoves
    <3>3. Promise!Settle(at[s])
      BY <2>1, <2>3, <2>4, <2>5, <3>2 DEF Promise!Settle, Standings
    <3> QED
      BY <2>1, <3>3 DEF Promise!Next
  <2>7. CASE pc[s] = "acking"
    <3>1. \A f \in Entries : Standing(f)' = IF f = at[s] THEN "delivered" ELSE Standing(f)
      BY <1>8, <2>1, <2>2, <2>7 DEF AckRename, Standing, Queued
    <3>2. Standings' = [Standings EXCEPT ![at[s]] = "delivered"]
      BY <2>1, <3>1, OneMoves
    <3>3. received[at[s]] = 1..Parts
      BY <2>7 DEF Progress
    <3>4. Promise!Settle(at[s])
      BY <2>1, <2>3, <2>4, <2>5, <3>2, <3>3 DEF Promise!Settle, Standings
    <3> QED
      BY <2>1, <3>4 DEF Promise!Next
  <2> QED
    BY <2>1, <2>6, <2>7
<1>9. ASSUME NEW s \in Senders, AckUnlink(s) PROVE [Promise!Next]_(Promise!vars)
  <2>1. UNCHANGED <<Standings, received>>
    BY <1>9, NoneMoves DEF AckUnlink, EndAttempt, Released, Standing, Queued, Tidy
  <2>2. \A t \in Senders : Flies(t)' = Flies(t) /\ (Flies(t) => at'[t] = at[t])
    BY <1>9 DEF AckUnlink, EndAttempt, Released, Flies
  <2>3. UNCHANGED InFlight
    BY <2>2, FlightKept
  <2> QED
    BY <2>1, <2>3 DEF Promise!vars, Standings
<1>10. ASSUME NEW s \in Senders, AckFails(s) PROVE [Promise!Next]_(Promise!vars)
  <2>1. UNCHANGED <<Standings, received>>
    BY <1>10, NoneMoves DEF AckFails, EndAttempt, Released, Goto, Standing, Queued, Tidy
  <2>2. \A t \in Senders : Flies(t)' = Flies(t) /\ (Flies(t) => at'[t] = at[t])
    BY <1>10 DEF AckFails, EndAttempt, Released, Goto, Flies
  <2>3. UNCHANGED InFlight
    BY <2>2, FlightKept
  <2> QED
    BY <2>1, <2>3 DEF Promise!vars, Standings
<1>11. ASSUME NEW s \in Senders, FailRead(s) PROVE [Promise!Next]_(Promise!vars)
  <2>1. UNCHANGED <<Standings, received>>
    BY <1>11, NoneMoves DEF FailRead, EndAttempt, Released, Goto, Standing, Queued, Tidy
  <2>2. \A t \in Senders : Flies(t)' = Flies(t) /\ (Flies(t) => at'[t] = at[t])
    BY <1>11 DEF FailRead, EndAttempt, Released, Goto, Flies
  <2>3. UNCHANGED InFlight
    BY <2>2, FlightKept
  <2> QED
    BY <2>1, <2>3 DEF Promise!vars, Standings
<1>12. ASSUME NEW s \in Senders, FailWrite(s) PROVE [Promise!Next]_(Promise!vars)
  <2>1. UNCHANGED <<Standings, received>>
    BY <1>12, NoneMoves DEF FailWrite, Rewrite, Bumped, EndAttempt, Released, Standing, Queued, Tidy
  <2>2. \A t \in Senders : Flies(t)' = Flies(t) /\ (Flies(t) => at'[t] = at[t])
    BY <1>12 DEF FailWrite, Rewrite, Bumped, EndAttempt, Released, Flies
  <2>3. UNCHANGED InFlight
    BY <2>2, FlightKept
  <2> QED
    BY <2>1, <2>3 DEF Promise!vars, Standings
<1>13. ASSUME NEW s \in Senders, MoveToFailed(s) PROVE [Promise!Next]_(Promise!vars)
  <2>1. /\ pc[s] = "moving" /\ at' = at /\ at[s] \in Entries
        /\ \A t \in Senders \ {s} : pc'[t] = pc[t]
        /\ pc'[s] # "sending" /\ received' = received
    BY <1>13 DEF MoveToFailed, Goto, EndAttempt
  <2>2. Queued(at[s]) /\ age[at[s]] # 0 /\ at[s] \notin failed \cup aborted
    BY <2>1 DEF Tidy
  <2>3. InFlight' = InFlight
    BY <2>1, FlightKept DEF Flies
  <2>4. at[s] \notin InFlight
    BY <2>1 DEF InFlight, Owned, OneOwner, Holds
  <2>5. Standings[at[s]] = "owed"
    BY <2>1, <2>2 DEF Standings, Standing
  <2>6. \A f \in Entries : Standing(f)' = IF f = at[s] THEN "parked" ELSE Standing(f)
    BY <1>13, <2>1, <2>2 DEF MoveToFailed, Standing, Queued
  <2>7. Standings' = [Standings EXCEPT ![at[s]] = "parked"]
    BY <2>1, <2>6, OneMoves
  <2>9. Promise!Settle(at[s])
    BY <2>1, <2>3, <2>4, <2>5, <2>7 DEF Promise!Settle, Standings
  <2> QED
    BY <2>1, <2>9 DEF Promise!Next
<1>14. ASSUME NEW d \in Drainers, Scan(d) PROVE [Promise!Next]_(Promise!vars)
  <2>1. UNCHANGED <<Standings, received>>
    BY <1>14, NoneMoves DEF Scan, Goto, Standing, Queued, Tidy
  <2>2. \A s \in Senders : Flies(s)' = Flies(s) /\ (Flies(s) => at'[s] = at[s])
    <3>1. /\ pc[d] = "idle" /\ pc'[d] # "sending"
          /\ \A s \in Senders \ {d} : pc'[s] = pc[s] /\ at'[s] = at[s]
      BY <1>14 DEF Scan, Goto
    <3> QED
      BY <3>1 DEF Flies
  <2>3. UNCHANGED InFlight
    BY <2>2, FlightKept
  <2> QED
    BY <2>1, <2>3 DEF Promise!vars, Standings
<1>15. ASSUME NEW d \in Drainers, ScanEnds(d) PROVE [Promise!Next]_(Promise!vars)
  <2>1. UNCHANGED <<Standings, received>>
    BY <1>15, NoneMoves DEF ScanEnds, Goto, Standing, Queued, Tidy
  <2>2. \A s \in Senders : Flies(s)' = Flies(s) /\ (Flies(s) => at'[s] = at[s])
    BY <1>15 DEF ScanEnds, Goto, Flies
  <2>3. UNCHANGED InFlight
    BY <2>2, FlightKept
  <2> QED
    BY <2>1, <2>3 DEF Promise!vars, Standings
<1>16. ASSUME NEW d \in Drainers, Claim(d) PROVE [Promise!Next]_(Promise!vars)
  <2>1. UNCHANGED <<Standings, received>>
    BY <1>16, NoneMoves DEF Claim, Oldest, Free, Standing, Queued, Tidy
  <2>2. \A s \in Senders : Flies(s)' = Flies(s) /\ (Flies(s) => at'[s] = at[s])
    <3>1. /\ pc[d] = "next" /\ pc'[d] # "sending"
          /\ \A s \in Senders \ {d} : pc'[s] = pc[s] /\ at'[s] = at[s]
      BY <1>16 DEF Claim
    <3> QED
      BY <3>1 DEF Flies
  <2>3. UNCHANGED InFlight
    BY <2>2, FlightKept
  <2> QED
    BY <2>1, <2>3 DEF Promise!vars, Standings
<1>17. ASSUME NEW d \in Drainers, Pass(d) PROVE [Promise!Next]_(Promise!vars)
  <2>1. UNCHANGED <<Standings, received>>
    BY <1>17, NoneMoves DEF Pass, Reread, EndAttempt, Released, Standing, Queued, Tidy
  <2>2. \A s \in Senders : Flies(s)' = Flies(s) /\ (Flies(s) => at'[s] = at[s])
    BY <1>17 DEF Pass, Reread, EndAttempt, Released, Flies
  <2>3. UNCHANGED InFlight
    BY <2>2, FlightKept
  <2> QED
    BY <2>1, <2>3 DEF Promise!vars, Standings
<1>18. ASSUME NEW d \in Drainers, GiveUp(d) PROVE [Promise!Next]_(Promise!vars)
  <2>1. UNCHANGED <<Standings, received>>
    BY <1>18, NoneMoves DEF GiveUp, Reread, Goto, Standing, Queued, Tidy
  <2>2. \A s \in Senders : Flies(s)' = Flies(s) /\ (Flies(s) => at'[s] = at[s])
    BY <1>18 DEF GiveUp, Reread, Goto, Flies
  <2>3. UNCHANGED InFlight
    BY <2>2, FlightKept
  <2> QED
    BY <2>1, <2>3 DEF Promise!vars, Standings
<1>19. ASSUME NEW d \in Drainers, Replay(d) PROVE [Promise!Next]_(Promise!vars)
  <2>1. UNCHANGED <<Standings, received>>
    BY <1>19, NoneMoves DEF Replay, Standing, Queued
  <2>2. /\ pc[d] = "claimed" /\ pc'[d] = "sending" /\ at' = at /\ at[d] \in Entries
        /\ \A t \in Senders \ {d} : pc'[t] = pc[t]
        /\ Queued(at[d])
    BY <1>19 DEF Replay, Reread, Goto
  <2>3. InFlight' = InFlight \cup {at[d]}
    BY <2>2, FlightBegins
  <2>4. at[d] \notin InFlight
    BY <2>2 DEF InFlight, Owned, OneOwner, Holds
  <2>5. Standings[at[d]] = "owed"
    BY <2>2 DEF Standings, Standing, Tidy
  <2>6. Promise!Begin(at[d])
    BY <2>1, <2>3, <2>4, <2>5 DEF Promise!Begin, Standings
  <2> QED
    BY <2>2, <2>6 DEF Promise!Next
<1>20. ASSUME NEW d \in Drainers, Defer(d) PROVE [Promise!Next]_(Promise!vars)
  <2>1. UNCHANGED <<Standings, received>>
    BY <1>20, NoneMoves DEF Defer, Goto, Standing, Queued, Tidy
  <2>2. \A s \in Senders : Flies(s)' = Flies(s) /\ (Flies(s) => at'[s] = at[s])
    BY <1>20 DEF Defer, Goto, Flies
  <2>3. UNCHANGED InFlight
    BY <2>2, FlightKept
  <2> QED
    BY <2>1, <2>3 DEF Promise!vars, Standings
<1>21. ASSUME NEW d \in Drainers, DeferRead(d) PROVE [Promise!Next]_(Promise!vars)
  <2>1. UNCHANGED <<Standings, received>>
    BY <1>21, NoneMoves DEF DeferRead, Standing, Queued, Tidy
  <2>2. \A s \in Senders : Flies(s)' = Flies(s) /\ (Flies(s) => at'[s] = at[s])
    BY <1>21 DEF DeferRead, Flies
  <2>3. UNCHANGED InFlight
    BY <2>2, FlightKept
  <2> QED
    BY <2>1, <2>3 DEF Promise!vars, Standings
<1>22. ASSUME NEW d \in Drainers, DeferWrite(d) PROVE [Promise!Next]_(Promise!vars)
  <2>1. UNCHANGED <<Standings, received>>
    BY <1>22, NoneMoves DEF DeferWrite, Rewrite, Bumped, Standing, Queued, Tidy
  <2>2. \A s \in Senders : Flies(s)' = Flies(s) /\ (Flies(s) => at'[s] = at[s])
    BY <1>22 DEF DeferWrite, Rewrite, Bumped, Flies
  <2>3. UNCHANGED InFlight
    BY <2>2, FlightKept
  <2> QED
    BY <2>1, <2>3 DEF Promise!vars, Standings
<1>23. ASSUME NEW d \in Drainers, DeferEnds(d) PROVE [Promise!Next]_(Promise!vars)
  <2>1. UNCHANGED <<Standings, received>>
    BY <1>23, NoneMoves DEF DeferEnds, Goto, Standing, Queued, Tidy
  <2>2. \A s \in Senders : Flies(s)' = Flies(s) /\ (Flies(s) => at'[s] = at[s])
    BY <1>23 DEF DeferEnds, Goto, Flies
  <2>3. UNCHANGED InFlight
    BY <2>2, FlightKept
  <2> QED
    BY <2>1, <2>3 DEF Promise!vars, Standings
<1>24. CASE Crash
  <2>1. UNCHANGED <<Standings, received>>
    BY <1>24, NoneMoves DEF Crash, Standing, Queued
  <2>2. InFlight' = {}
    <3>1. \A s \in Senders : pc'[s] # "sending"
      BY <1>24 DEF Crash
    <3> QED
      BY <3>1 DEF InFlight
  <2>3. InFlight \subseteq Entries
    BY DEF InFlight
  <2>4. CASE InFlight = {}
    BY <2>1, <2>2, <2>4 DEF Promise!vars, Standings
  <2>5. CASE InFlight # {}
    <3>1. Promise!Stop(InFlight)
      BY <2>1, <2>2, <2>5 DEF Promise!Stop, Standings
    <3> QED
      BY <2>3, <3>1 DEF Promise!Next
  <2> QED
    BY <2>4, <2>5
<1>25. CASE UNCHANGED vars
  <2>1. UNCHANGED <<Standings, InFlight, received>>
    BY <1>25 DEF vars, Standings, Standing, Queued, InFlight
  <2> QED
    BY <2>1 DEF Promise!vars, Standings
<1> QED
  BY <1>1, <1>2, <1>3, <1>4, <1>5, <1>6, <1>7, <1>8, <1>9, <1>10, <1>11, <1>12, <1>13, <1>14, <1>15, <1>16, <1>17, <1>18, <1>19, <1>20, <1>21, <1>22, <1>23, <1>24, <1>25 DEF Next, Live, Drain, Attempt

LEMMA PromiseInit == Init => Tidy /\ Promise!Init
<1> SUFFICES ASSUME Init PROVE Tidy /\ Promise!Init
  OBVIOUS
<1>1. Tidy
  BY DeliveryAssumption DEF Init, Tidy, Senders, Drainers, Holding, Busy, Queued, Gone
<1>2. InFlight = {}
  BY DEF Init, InFlight
<1>3. \A e \in Entries : Standing(e) = "new"
  BY DEF Init, Standing
<1> QED
  BY <1>1, <1>2, <1>3 DEF Init, Promise!Init

(* The write-ahead queue keeps the promise of AtLeastOnce.                 *)
THEOREM PromiseKept == Unhurried => (Spec => KeepsPromise)
<1> SUFFICES ASSUME Unhurried PROVE Spec => KeepsPromise
  OBVIOUS
<1>1. Init => Tidy /\ Promise!Init
  BY PromiseInit
<1>2. IInv /\ Tidy /\ [Next]_vars => Tidy'
  BY TidyStep DEF IInv
<1>3. IInv /\ Tidy /\ [Next]_vars => [Promise!Next]_(Promise!vars)
  BY PromiseStep
<1> QED
  BY <1>1, <1>2, <1>3, Invariance, PTL DEF Spec, KeepsPromise, Promise!Spec
=============================================================================

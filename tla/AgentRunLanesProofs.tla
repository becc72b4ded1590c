------------------------ MODULE AgentRunLanesProofs ------------------------
(***************************************************************************)
(* The proof that two runs of a session work at a time only after a lane   *)
(* was taken from one of them, for any runs, sessions, jobs and resets.    *)
(* What the queue guarantees comes from the proofs of CommandQueue; this   *)
(* module adds what the nesting of the tasks guarantees: the body of an    *)
(* outer task stays in its slot while it awaits the inner one.             *)
(***************************************************************************)
EXTENDS AgentRunLanes, FiniteSetTheorems, TLAPS

P == INSTANCE CommandQueueProofs WITH
       Lanes <- GlobalLanes \cup SessionLanes,
       Timed <- {Inner(r) : r \in TimedRuns},
       Waiters <- {},
       Requested <- {}

(* The instance is one the queue's proofs are about. *)
LEMMA QueueAssumption ==
  /\ LaneOf \in [Tasks -> GlobalLanes \cup SessionLanes]
  /\ {Inner(r) : r \in TimedRuns} \subseteq Tasks
  /\ {} \subseteq Int
  /\ MaxGeneration \in Nat
<1>1. \A r \in Runs : GlobalLane(r) \in GlobalLanes /\ SessionLane(r) \in SessionLanes
  BY RunsAssumption DEF GlobalLane, GlobalLanes, GlobalNames, SessionLanes
<1>2. <<"global", "cron">> \in GlobalLanes
  BY DEF GlobalLanes, GlobalNames
<1>3. ASSUME NEW t \in Tasks PROVE LaneOf[t] \in GlobalLanes \cup SessionLanes
  <2>1. CASE \E r \in Runs : t = Inner(r)
    BY <2>1, <1>1 DEF LaneOf, Inner
  <2>2. CASE \E r \in Runs : t = Outer(r)
    BY <2>2, <1>1 DEF LaneOf, Outer
  <2>3. CASE \E r \in ManualRuns : t = Hold(r)
    BY <2>3, <1>2 DEF LaneOf, Hold
  <2> QED
    BY <2>1, <2>2, <2>3 DEF Tasks
<1>4. LaneOf \in [Tasks -> GlobalLanes \cup SessionLanes]
  BY <1>3 DEF LaneOf
<1>5. {Inner(r) : r \in TimedRuns} \subseteq Tasks
  BY RunsAssumption DEF Tasks
<1> QED
  BY <1>4, <1>5, RunsAssumption

-----------------------------------------------------------------------------
(* Every action is a call of the queue or a step of one of its tasks. *)

(* The two instances pump alike. *)
LEMMA SamePump ==
  ASSUME NEW S, NEW qs, NEW as, NEW ended, Q!DrainLanes(S, qs, as, ended)
  PROVE  P!DrainLanes(S, qs, as, ended)
<1>1. \A a : Q!Cardinality(a) = P!Cardinality(a)
  BY DEF Q!Cardinality, P!Cardinality
<1>2. \A q, a, m : Q!PumpCount(q, a, m) = P!PumpCount(q, a, m)
  BY <1>1 DEF Q!PumpCount, P!PumpCount, Q!Free, P!Free
<1>3. \A q, a, m : Q!Started(q, a, m) = P!Started(q, a, m) /\ Q!Left(q, a, m) = P!Left(q, a, m)
  BY <1>2 DEF Q!Started, P!Started, Q!Left, P!Left
<1>4. \A l : Q!StartedIn(S, qs, as, l) = P!StartedIn(S, qs, as, l)
  BY <1>3 DEF Q!StartedIn, P!StartedIn
<1> DEFINE L == GlobalLanes \cup SessionLanes
<1>5. queue' = [l \in L |-> IF l \in S THEN P!Left(qs[l], as[l], maxConcurrent'[l]) ELSE qs[l]]
  BY <1>3 DEF Q!DrainLanes
<1>6. active' = [l \in L |-> as[l] \cup P!StartedIn(S, qs, as, l)]
  BY <1>4 DEF Q!DrainLanes
<1>7. taskGeneration' = [t \in Tasks |-> IF t \in P!StartedIn(S, qs, as, LaneOf[t])
                                         THEN generation'[LaneOf[t]]
                                         ELSE taskGeneration[t]]
  <2>1. \A t \in Tasks : (IF t \in P!StartedIn(S, qs, as, LaneOf[t])
                          THEN generation'[LaneOf[t]] ELSE taskGeneration[t])
                       = (IF t \in Q!StartedIn(S, qs, as, LaneOf[t])
                          THEN generation'[LaneOf[t]] ELSE taskGeneration[t])
    <3> SUFFICES ASSUME NEW t \in Tasks
                 PROVE  P!StartedIn(S, qs, as, LaneOf[t]) = Q!StartedIn(S, qs, as, LaneOf[t])
      OBVIOUS
    <3> QED
      BY <1>4, Zenon
  <2> QED
    BY <2>1 DEF Q!DrainLanes
<1>8. running' = (running \ ended) \cup UNION {P!StartedIn(S, qs, as, l) : l \in L}
  BY <1>4 DEF Q!DrainLanes
<1> QED
  BY <1>5, <1>6, <1>7, <1>8 DEF P!DrainLanes

(* What a call, a settling task and the other operations do to outcomes and *)
(* running tasks; the caps never change.                                   *)
LEMMA CallEffect ==
  ASSUME NEW t \in Tasks, Call(t)
  PROVE  /\ P!Next
         /\ UNCHANGED maxConcurrent
         /\ running \subseteq running'
         /\ outcome[t] = "uncalled"
         /\ \/ outcome' = [outcome EXCEPT ![t] = "pending"]
            \/ outcome' = [outcome EXCEPT ![t] = "draining"]
<1>1. CASE Q!EnqueueRejected(t)
  <2>1. P!EnqueueRejected(t)
    BY <1>1 DEF Q!EnqueueRejected, P!EnqueueRejected
  <2> QED
    BY <2>1, <1>1 DEF P!Next, P!TaskStep, Q!EnqueueRejected
<1>2. CASE Q!Enqueue(t)
  <2>1. P!Enqueue(t)
    BY <1>2, SamePump DEF Q!Enqueue, P!Enqueue, Q!Pushed, P!Pushed
  <2> QED
    BY <2>1 DEF P!Next, P!TaskStep, P!Enqueue, P!DrainLanes
<1> QED
  BY <1>1, <1>2 DEF Call

LEMMA SameNotify == Q!NotifyActiveTaskWaiters => P!NotifyActiveTaskWaiters
BY DEF Q!NotifyActiveTaskWaiters, P!NotifyActiveTaskWaiters

LEMMA SameCompletion ==
  ASSUME NEW t \in Tasks, NEW result, NEW ended, Q!CompleteTask(t, result, ended)
  PROVE  /\ P!CompleteTask(t, result, ended)
         /\ UNCHANGED maxConcurrent
         /\ running \ ended \subseteq running'
         /\ outcome' = [outcome EXCEPT ![t] = result]
<1>1. CASE Q!CurrentGeneration(t)
  <2>1. Q!DrainLanes({LaneOf[t]}, queue, Q!SlotsWithout(t), ended)
    BY <1>1 DEF Q!CompleteTask
  <2>2. P!DrainLanes({LaneOf[t]}, queue, P!SlotsWithout(t), ended)
    BY <2>1, SamePump DEF Q!SlotsWithout, P!SlotsWithout
  <2> QED
    BY <1>1, <2>2, SameNotify DEF Q!CompleteTask, P!CompleteTask, P!DrainLanes,
                                  Q!CurrentGeneration, P!CurrentGeneration
<1>2. CASE ~Q!CurrentGeneration(t)
  <2>1. P!DrainLanes({}, queue, active, ended)
    BY <1>2, SamePump DEF Q!CompleteTask
  <2> QED
    BY <1>2, <2>1 DEF Q!CompleteTask, P!CompleteTask, P!DrainLanes,
                      Q!CurrentGeneration, P!CurrentGeneration
<1> QED
  BY <1>1, <1>2

LEMMA SettleEffect ==
  ASSUME NEW t \in Tasks, Settle(t)
  PROVE  /\ P!Next
         /\ UNCHANGED maxConcurrent
         /\ running \ {t} \subseteq running'
         /\ outcome' \in {outcome, [outcome EXCEPT ![t] = "settled"]}
<1>1. CASE Q!Finish(t)
  <2>1. P!Finish(t)
    BY <1>1, SameCompletion DEF Q!Finish, P!Finish
  <2> QED
    BY <2>1, <1>1, SameCompletion DEF P!Next, P!TaskStep, Q!Finish
<1>2. CASE Q!FinishLate(t)
  <2>1. P!FinishLate(t)
    BY <1>2 DEF Q!FinishLate, P!FinishLate
  <2> QED
    BY <2>1 DEF P!Next, P!TaskStep, P!FinishLate
<1> QED
  BY <1>1, <1>2 DEF Settle

LEMMA TimeoutEffect ==
  ASSUME NEW t \in Tasks, Q!Timeout(t)
  PROVE  /\ P!Next
         /\ UNCHANGED maxConcurrent
         /\ running \subseteq running'
         /\ outcome' = [outcome EXCEPT ![t] = "timedOut"]
<1>1. P!Timeout(t)
  BY SameCompletion DEF Q!Timeout, P!Timeout
<1>2. Q!CompleteTask(t, "timedOut", {})
  BY DEF Q!Timeout
<1> QED
  BY <1>1, <1>2, SameCompletion DEF P!Next, P!TaskStep

LEMMA ClearEffect ==
  ASSUME NEW l \in SessionLanes, Q!ClearCommandLane(l)
  PROVE  /\ P!Next
         /\ UNCHANGED <<maxConcurrent, running>>
         /\ \A t \in Tasks : outcome'[t] \in {outcome[t], "cleared"}
<1>1. P!ClearCommandLane(l)
  BY DEF Q!ClearCommandLane, P!ClearCommandLane, Q!InQueue, P!InQueue
<1> QED
  BY <1>1 DEF P!Next, P!LaneStep, P!ClearCommandLane

LEMMA SameReset ==
  ASSUME NEW S, Q!ResetLanes(S)
  PROVE  /\ P!ResetLanes(S)
         /\ UNCHANGED <<maxConcurrent, outcome>>
         /\ running \subseteq running'
<1>1. Q!DrainLanes(Q!LanesToDrain(S), queue, Q!SlotsAfterReset(S), {})
  BY DEF Q!ResetLanes
<1>2. P!DrainLanes(P!LanesToDrain(S), queue, P!SlotsAfterReset(S), {})
  BY <1>1, SamePump DEF Q!LanesToDrain, P!LanesToDrain, Q!SlotsAfterReset, P!SlotsAfterReset
<1> QED
  BY <1>2, SameNotify DEF Q!ResetLanes, P!ResetLanes, P!DrainLanes

LEMMA ResetEffect ==
  ASSUME Q!ResetAllLanes \/ \E l \in SessionLanes : Q!ResetCommandLane(l)
  PROVE  /\ P!Next
         /\ UNCHANGED <<maxConcurrent, outcome>>
         /\ running \subseteq running'
<1>1. CASE Q!ResetAllLanes
  <2>1. P!ResetAllLanes
    BY <1>1, SameReset DEF Q!ResetAllLanes, P!ResetAllLanes
  <2> QED
    BY <1>1, <2>1, SameReset DEF P!Next, Q!ResetAllLanes
<1>2. ASSUME NEW l \in SessionLanes, Q!ResetCommandLane(l)
      PROVE  /\ P!Next
             /\ UNCHANGED <<maxConcurrent, outcome>>
             /\ running \subseteq running'
  <2>1. P!ResetCommandLane(l)
    BY <1>2, SameReset DEF Q!ResetCommandLane, P!ResetCommandLane
  <2>2. P!Next
    BY <2>1 DEF P!Next, P!LaneStep
  <2> QED
    BY <1>2, <2>2, SameReset DEF Q!ResetCommandLane
<1> QED
  BY <1>1, <1>2

-----------------------------------------------------------------------------
(* The invariant. A session lane has room for one task, since nothing sets *)
(* its cap, and holds at most one; while a caller waits for an inner task  *)
(* the outer one runs; and an outer task has no lane timeout, so that it   *)
(* holds its slot until it ends or its lane is reset.                      *)

SessionCaps == \A l \in SessionLanes : maxConcurrent[l] = 1

OneSlot == \A l \in SessionLanes : Cardinality(active[l]) <= 1

Nested == \A r \in Runs : outcome[Inner(r)] = "pending" => Outer(r) \in running

OuterUntimed == \A r \in Runs : outcome[Outer(r)] # "timedOut"

Inv == P!IInv /\ SessionCaps /\ OneSlot /\ Nested /\ OuterUntimed

LEMMA TaskNames ==
  /\ \A r \in Runs : /\ Inner(r) \in Tasks
                     /\ Outer(r) \in Tasks
                     /\ LaneOf[Outer(r)] = SessionLane(r)
                     /\ SessionLane(r) \in SessionLanes
  /\ \A r \in ManualRuns : Hold(r) \in Tasks
  /\ \A r1, r2 \in Runs : /\ Inner(r1) # Outer(r2)
                          /\ Inner(r1) # Hold(r2)
                          /\ Outer(r1) # Hold(r2)
                          /\ Inner(r1) = Inner(r2) => r1 = r2
                          /\ Outer(r1) = Outer(r2) => r1 = r2
<1>1. \A r \in Runs : Inner(r) \in Tasks /\ Outer(r) \in Tasks
  BY DEF Tasks
<1>2. \A r \in ManualRuns : Hold(r) \in Tasks
  BY DEF Tasks
<1>3. \A r \in Runs : LaneOf[Outer(r)] = SessionLane(r)
  <2> SUFFICES ASSUME NEW r \in Runs PROVE LaneOf[Outer(r)] = SessionLane(r)
    OBVIOUS
  <2>1. Outer(r) \in Tasks
    BY <1>1
  <2>2. Outer(r)[1] = "outer" /\ Outer(r)[2] = r
    BY DEF Outer
  <2> QED
    BY <2>1, <2>2 DEF LaneOf
<1> QED
  BY <1>1, <1>2, <1>3 DEF Inner, Outer, Hold, SessionLanes

(* A step is one of the queue's, leaves the caps alone, and only an outer  *)
(* task whose inner one is over, or was never called, stops.               *)
StepShape ==
  /\ P!Next \/ UNCHANGED P!vars
  /\ UNCHANGED maxConcurrent
  /\ \A r \in Runs :
       /\ outcome'[Inner(r)] = "pending" => \/ outcome[Inner(r)] = "pending"
                                            \/ Outer(r) \in running'
       /\ outcome'[Inner(r)] = "pending" /\ Outer(r) \in running => Outer(r) \in running'
       /\ outcome'[Outer(r)] = "timedOut" => outcome[Outer(r)] = "timedOut"

LEMMA StepHasShape ==
  ASSUME P!TypeOK, [Next]_vars
  PROVE  StepShape
<1>0. outcome \in [Tasks -> P!Outcomes]
  BY DEF P!TypeOK
<1> USE TaskNames
<1>1. ASSUME NEW r \in Runs, Call(Outer(r)) PROVE StepShape
  BY <1>0, <1>1, CallEffect DEF StepShape
<1>2. ASSUME NEW r \in ManualRuns, Call(Hold(r)) PROVE StepShape
  <2>1. r \in Runs
    BY <1>2, RunsAssumption
  <2> QED
    BY <1>0, <1>2, <2>1, CallEffect DEF StepShape
<1>3. ASSUME NEW r \in ManualRuns, Settle(Hold(r)) PROVE StepShape
  <2>1. r \in Runs
    BY <1>3, RunsAssumption
  <2> QED
    BY <1>0, <1>3, <2>1, SettleEffect DEF StepShape
<1>4. ASSUME NEW r \in Runs, NestGlobal(r) PROVE StepShape
  BY <1>0, <1>4, CallEffect DEF StepShape, NestGlobal
<1>5. ASSUME NEW r \in Runs, AbortOuter(r) \/ EndOuter(r) PROVE StepShape
  <2>1. Settle(Outer(r)) /\ outcome[Inner(r)] # "pending"
    BY <1>5 DEF AbortOuter, EndOuter, OuterMayEnd, Over, Called
  <2> QED
    BY <1>0, <2>1, SettleEffect DEF StepShape
<1>6. ASSUME NEW r \in Runs, EndInner(r) PROVE StepShape
  BY <1>0, <1>6, SettleEffect DEF StepShape, EndInner
<1>7. ASSUME NEW r \in Runs, TimeoutInner(r) PROVE StepShape
  BY <1>0, <1>7, TimeoutEffect DEF StepShape, TimeoutInner
<1>8. ASSUME NEW r \in Runs, ClearSession(r) PROVE StepShape
  BY <1>8, ClearEffect DEF StepShape, ClearSession
<1>9. ASSUME NEW r \in Runs, RecoverStuckSession(r) PROVE StepShape
  BY <1>9, ResetEffect DEF StepShape, RecoverStuckSession
<1>10. CASE RestartIteration
  BY <1>10, ResetEffect DEF StepShape, RestartIteration
<1>11. CASE BeginRestart
  <2>1. P!MarkGatewayDraining
    BY <1>11 DEF BeginRestart, Q!MarkGatewayDraining, P!MarkGatewayDraining
  <2> QED
    BY <2>1 DEF StepShape, P!Next, P!MarkGatewayDraining
<1>12. CASE UNCHANGED vars
  BY <1>12 DEF vars, StepShape, P!vars
<1> QED
  BY <1>1, <1>2, <1>3, <1>4, <1>5, <1>6, <1>7, <1>8, <1>9, <1>10, <1>11, <1>12
     DEF Next, StartRun, StartJob, SkipJob, JobRuns, EndJob

LEMMA InvStep == Inv /\ [Next]_vars => Inv'
<1> SUFFICES ASSUME Inv, [Next]_vars PROVE Inv'
  OBVIOUS
<1>1. StepShape
  BY StepHasShape DEF Inv, P!IInv
<1>2. P!IInv' /\ (P!Caps \/ UNCHANGED P!vars)
  BY <1>1, QueueAssumption, P!StepKeeps DEF Inv, StepShape, P!LanesAssumption
<1>3. SessionCaps'
  BY <1>1 DEF StepShape, Inv, SessionCaps
<1>4. Nested' /\ OuterUntimed'
  BY <1>1 DEF StepShape, Inv, Nested, OuterUntimed
<1>5. OneSlot'
  <2> SUFFICES ASSUME NEW l \in SessionLanes PROVE Cardinality(active'[l]) <= 1
    BY DEF OneSlot
  <2>1. \A S : P!Cardinality(S) = Cardinality(S) /\ (P!IsFiniteSet(S) <=> IsFiniteSet(S))
    BY DEF P!Cardinality, Cardinality, P!IsFiniteSet, IsFiniteSet
  <2>2. IsFiniteSet(active[l]) /\ Cardinality(active[l]) \in Nat /\ Cardinality(active[l]) <= 1
    BY <2>1, FS_CardinalityType DEF Inv, P!IInv, P!Core, P!FiniteSlots, OneSlot
  <2>3. CASE active'[l] \subseteq active[l]
    BY <2>2, <2>3, FS_Subset, FS_CardinalityType
  <2>4. CASE ~(active'[l] \subseteq active[l])
    <3>1. P!Caps
      BY <1>2, <2>4 DEF P!vars
    <3>2. maxConcurrent'[l] = 1
      BY <1>3 DEF SessionCaps
    <3> QED
      BY <2>1, <2>4, <3>1, <3>2 DEF P!Caps
  <2> QED
    BY <2>3, <2>4
<1> QED
  BY <1>2, <1>3, <1>4, <1>5 DEF Inv

LEMMA InvInit == Init => Inv
<1> SUFFICES ASSUME Init PROVE Inv
  OBVIOUS
<1> DEFINE caps == [l \in GlobalLanes \cup SessionLanes |->
                      IF l \in GlobalLanes THEN ConfiguredCap[l[2]] ELSE 1]
<1>1. Q!InitWith(caps)
  BY DEF Init
<1>2. caps \in [GlobalLanes \cup SessionLanes -> Nat \ {0}]
  BY CapsAssumption DEF GlobalLanes
<1>3. P!InitWith(caps)
  BY <1>1 DEF Q!InitWith, P!InitWith, Q!NoWait, P!NoWait
<1> HIDE DEF caps
<1>4. P!IInv
  BY <1>2, <1>3, QueueAssumption, P!InitWithEstablishes DEF P!LanesAssumption
<1>5. maxConcurrent = caps /\ outcome = [t \in Tasks |-> "uncalled"]
      /\ \A l \in SessionLanes : active[l] = {}
  BY <1>1 DEF Q!InitWith
<1>6. SessionCaps
  <2>1. \A l \in SessionLanes : l \notin GlobalLanes
    BY DEF SessionLanes, SessionLane, GlobalLanes
  <2> QED
    BY <2>1, <1>5 DEF SessionCaps, caps
<1>7. OneSlot
  BY <1>5, FS_EmptySet DEF OneSlot
<1>8. Nested /\ OuterUntimed
  BY <1>5, TaskNames DEF Nested, OuterUntimed
<1> QED
  BY <1>4, <1>6, <1>7, <1>8 DEF Inv

(* Two working runs neither of which lost its lane would both hold the one *)
(* slot of their session.                                                  *)
LEMMA InvExcludes == Inv => OverlapOnlyWhenForced
<1> SUFFICES ASSUME Inv,
                    NEW r1 \in Runs, NEW r2 \in Runs, r1 # r2, SessionOf[r1] = SessionOf[r2],
                    Working(r1), Working(r2), ~Forced(r1), ~Forced(r2)
             PROVE  FALSE
  BY DEF OverlapOnlyWhenForced
<1>1. ASSUME NEW r \in Runs, Working(r), ~Forced(r)
      PROVE  Outer(r) \in active[SessionLane(r)]
  <2>1. P!RunInv /\ P!ActiveExact
    BY DEF Inv, P!IInv, P!Core
  <2>2. outcome[Inner(r)] = "pending"
    BY <1>1, <2>1 DEF P!RunInv, Working, Forced
  <2>3. Outer(r) \in running /\ outcome[Outer(r)] = "pending"
    BY <2>1, <2>2 DEF Inv, Nested, OuterUntimed, P!RunInv
  <2>4. taskGeneration[Outer(r)] = generation[SessionLane(r)]
    BY <1>1 DEF Forced
  <2> QED
    BY <2>1, <2>3, <2>4, TaskNames DEF P!ActiveExact, P!CurrentGeneration
<1> DEFINE l == SessionLane(r1)
           two == {Outer(r1), Outer(r2)}
<1>2. two \subseteq active[l] /\ l \in SessionLanes
  BY <1>1, TaskNames DEF SessionLane
<1>3. IsFiniteSet(active[l]) /\ Cardinality(active[l]) <= 1
  <2>1. \A S : P!IsFiniteSet(S) <=> IsFiniteSet(S)
    BY DEF P!IsFiniteSet, IsFiniteSet
  <2> QED
    BY <1>2, <2>1 DEF Inv, P!IInv, P!Core, P!FiniteSlots, OneSlot
<1>4. Cardinality(two) = 2
  <2>1. IsFiniteSet({Outer(r1)}) /\ Cardinality({Outer(r1)}) = 1
    BY FS_Singleton
  <2>2. Outer(r2) \notin {Outer(r1)} /\ two = {Outer(r1)} \cup {Outer(r2)}
    BY TaskNames
  <2> QED
    BY <2>1, <2>2, FS_AddElement
<1>5. Cardinality(two) <= Cardinality(active[l])
  BY <1>2, <1>3, FS_Subset
<1> QED
  BY <1>3, <1>4, <1>5, FS_CardinalityType

LEMMA Invariance == Spec => []Inv
BY InvInit, InvStep, PTL DEF Spec

(* The lanes are as sound under the nesting as they are under any calls:   *)
(* no lane idles while work waits, and slots are the live tasks.           *)
THEOREM LanesSound == Spec => [](P!TypeOK /\ P!NoIdleBacklog /\ P!ActiveExact)
<1>1. Inv => P!TypeOK /\ P!NoIdleBacklog /\ P!ActiveExact
  BY DEF Inv, P!IInv, P!Core
<1> QED
  BY Invariance, <1>1, PTL

(* Two runs of a session work at a time only after a lane was taken from   *)
(* one of them: by its lane timeout, or by a reset of the session lane.    *)
THEOREM SessionExclusive == Spec => []OverlapOnlyWhenForced
BY Invariance, InvExcludes, PTL
=============================================================================

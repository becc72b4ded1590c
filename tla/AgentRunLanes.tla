---------------------------- MODULE AgentRunLanes ----------------------------
(***************************************************************************)
(* Agent runs on top of the command queue: runEmbeddedPiAgent              *)
(* (agents/pi-embedded-runner/run.ts) and queued compaction enqueue an     *)
(* outer task in the session's lane, whose body enqueues an inner task in  *)
(* a global lane and awaits it; a manual cron run (cron/service/ops.ts)    *)
(* holds a slot of the cron lane while its own agent run goes through      *)
(* both. Only the inner task gets a lane timeout.                          *)
(*                                                                         *)
(* A task is <<kind, r>> for a run r: "inner", "outer" or, when the run    *)
(* belongs to a manual cron job, "hold". Awaiting is a guard: a body goes  *)
(* on when the caller's promise of the task it awaits has settled.         *)
(*                                                                         *)
(* GivenAsIs and OuterDoesNotAwait are wrong variants of the definition    *)
(* that follows each; no action uses them.                                 *)
(***************************************************************************)
EXTENDS Integers, Sequences, FiniteSets

CONSTANTS
  Runs,           \* agent runs
  SessionOf,      \* the session each run works for
  GivenLane,      \* params.lane of each run
  ManualRuns,     \* the runs of manually triggered cron jobs
  TimedRuns,      \* runs whose timeoutMs is positive and finite
  ConfiguredCap,  \* what applyGatewayLaneConcurrency set each global lane to
  MaxGeneration   \* bound on lane resets explored

ASSUME RunsAssumption ==
  /\ ManualRuns \subseteq Runs
  /\ TimedRuns \subseteq Runs
  /\ \A r \in Runs : GivenLane[r] \in {"main", "cron", "subagent"}
  /\ MaxGeneration \in Nat

VARIABLES queue, active, maxConcurrent, generation, gatewayDraining,
          taskGeneration, running, outcome, waiter, arrived

vars == <<queue, active, maxConcurrent, generation, gatewayDraining,
          taskGeneration, running, outcome, waiter, arrived>>

(* Lanes are <<"global", name>> or <<"session", key>>. *)
GlobalNames == {"main", "cron", "cron-nested", "subagent"}

ASSUME CapsAssumption == ConfiguredCap \in [GlobalNames -> Nat \ {0}]

GlobalLanes == {<<"global", n>> : n \in GlobalNames}

SessionLane(r) == <<"session", SessionOf[r]>>

SessionLanes == {SessionLane(r) : r \in Runs}

(* resolveGlobalLane: the cron lane is held by the job itself. *)
GivenAsIs(r) == <<"global", GivenLane[r]>>

GlobalLane(r) == <<"global", IF GivenLane[r] = "cron" THEN "cron-nested" ELSE GivenLane[r]>>

Inner(r) == <<"inner", r>>
Outer(r) == <<"outer", r>>
Hold(r) == <<"hold", r>>

Tasks == {Inner(r) : r \in Runs} \cup {Outer(r) : r \in Runs} \cup {Hold(r) : r \in ManualRuns}

LaneOf == [t \in Tasks |-> CASE t[1] = "inner" -> GlobalLane(t[2])
                             [] t[1] = "outer" -> SessionLane(t[2])
                             [] t[1] = "hold"  -> <<"global", "cron">>]

Q == INSTANCE CommandQueue WITH
       Lanes <- GlobalLanes \cup SessionLanes,
       Timed <- {Inner(r) : r \in TimedRuns},
       Waiters <- {},
       Requested <- {}

Init ==
  Q!InitWith([l \in GlobalLanes \cup SessionLanes |->
                IF l \in GlobalLanes THEN ConfiguredCap[l[2]] ELSE 1])

-----------------------------------------------------------------------------
(* A call of the queue, accepted or refused; a task's promise settling,    *)
(* whether its caller still waits or was told it timed out.                *)
Call(t) == Q!Enqueue(t) \/ Q!EnqueueRejected(t)

Settle(t) == Q!Finish(t) \/ Q!FinishLate(t)

Called(t) == outcome[t] # "uncalled"

(* The awaited call has settled. *)
Over(t) == outcome[t] \notin {"uncalled", "pending"}

(* runEmbeddedPiAgent, or queued compaction, is called for the session. *)
StartRun(r) ==
  /\ r \notin ManualRuns
  /\ Call(Outer(r))

(* enqueueRun of the cron service. *)
StartJob(r) ==
  /\ r \in ManualRuns
  /\ Call(Hold(r))

(* The job has a slot of the cron lane and runs its agent turn. *)
JobRuns(r) ==
  /\ r \in ManualRuns
  /\ Hold(r) \in running
  /\ Call(Outer(r))

(* The job is found not runnable after all, or needs no agent run.         *)
SkipJob(r) ==
  /\ r \in ManualRuns
  /\ ~Called(Outer(r))
  /\ Settle(Hold(r))

(* The body of the outer task: throwIfAborted, then the global lane. *)
NestGlobal(r) ==
  /\ Outer(r) \in running
  /\ Call(Inner(r))

AbortOuter(r) ==
  /\ ~Called(Inner(r))
  /\ Settle(Outer(r))

(* The run itself ends, or its lane timeout passes it by. *)
EndInner(r) == Settle(Inner(r))

TimeoutInner(r) == Q!Timeout(Inner(r))

OuterDoesNotAwait(r) == Called(Inner(r))

OuterMayEnd(r) == Over(Inner(r))

EndOuter(r) ==
  /\ OuterMayEnd(r)
  /\ Settle(Outer(r))

(* The job ends with its run. Its own timeout, executeJobCoreWithTimeout,  *)
(* is armed only when the run has started executing.                       *)
EndJob(r) ==
  /\ r \in ManualRuns
  /\ Over(Outer(r)) \/ taskGeneration[Inner(r)] # -1
  /\ Settle(Hold(r))

(* clearSessionQueues, stuck-session recovery, restart. Recovery keeps the *)
(* lane of a task that has no working run: it only resets one whose run    *)
(* did not drain when aborted, or an idle one.                             *)
ClearSession(r) == Q!ClearCommandLane(SessionLane(r))

Working(r) == Inner(r) \in running

RecoverStuckSession(r) ==
  /\ Working(r) \/ active[SessionLane(r)] = {}
  /\ Q!ResetCommandLane(SessionLane(r))

BeginRestart == Q!MarkGatewayDraining

RestartIteration == Q!ResetAllLanes

Next ==
  \/ \E r \in Runs :
       \/ StartRun(r) \/ StartJob(r) \/ SkipJob(r) \/ JobRuns(r)
       \/ NestGlobal(r) \/ AbortOuter(r) \/ EndInner(r) \/ TimeoutInner(r)
       \/ EndOuter(r) \/ EndJob(r)
       \/ ClearSession(r) \/ RecoverStuckSession(r)
  \/ BeginRestart
  \/ RestartIteration

Spec == Init /\ [][Next]_vars

(* Fair: the continuations of promises that have settled, and the lane     *)
(* timer of the inner task. A run itself may hang.                         *)
FairSpec ==
  /\ Spec
  /\ \A r \in Runs : /\ WF_vars(JobRuns(r))
                     /\ WF_vars(NestGlobal(r))
                     /\ WF_vars(TimeoutInner(r))
                     /\ WF_vars(EndOuter(r))
                     /\ WF_vars(EndJob(r))

-----------------------------------------------------------------------------
(* Properties. *)

(* The run's lane was taken from it while it worked: its lane timeout      *)
(* fired, or its session lane was reset after the outer task started.      *)
Forced(r) ==
  \/ outcome[Inner(r)] = "timedOut"
  \/ taskGeneration[Outer(r)] # generation[SessionLane(r)]

(* What the lanes do guarantee: two runs of a session work at a time only  *)
(* after a lane was taken from one of them by force.                       *)
OverlapOnlyWhenForced ==
  \A r1, r2 \in Runs :
    (r1 # r2 /\ SessionOf[r1] = SessionOf[r2] /\ Working(r1) /\ Working(r2)) =>
      (Forced(r1) \/ Forced(r2))

(* No nesting of lanes deadlocks: every call that was accepted, of a run,  *)
(* its inner task or its job, settles although runs may hang.              *)
EveryCallSettles ==
  \A r \in Runs : /\ outcome[Outer(r)] = "pending" ~> outcome[Outer(r)] # "pending"
                  /\ outcome[Inner(r)] = "pending" ~> outcome[Inner(r)] # "pending"
                  /\ r \in ManualRuns =>
                       (outcome[Hold(r)] = "pending" ~> outcome[Hold(r)] # "pending")
=============================================================================

---------------------------- MODULE CommandQueue ----------------------------
(***************************************************************************)
(* The in-process command queue of the gateway                             *)
(* (openclaw/src/process/command-queue.ts): named lanes, each a FIFO with  *)
(* a concurrency cap, a generation that forced resets bump, and waiters    *)
(* that a restart uses to let active work drain.                           *)
(*                                                                         *)
(* JavaScript runs one callback at a time, so every exported function and  *)
(* every continuation of a task is one action; what interleaves is the     *)
(* order in which calls arrive, tasks settle and timers fire.              *)
(*                                                                         *)
(* A task is one call of enqueueCommandInLane. The numeric task id of the  *)
(* code is drawn when the entry is dequeued and never reused, so the task  *)
(* itself stands for it. LaneState.draining is TRUE only inside the        *)
(* synchronous pump loop, hence in no state between two actions.           *)
(* The operators NotifyForgotten, PushedInFront, SlotsKept,                *)
(* AnyNumber, ClearWithoutReject, SlotsSurvive and NoLaneToDrain are wrong *)
(* variants of the definition that follows each: no action uses them, and  *)
(* each breaks the property named for it in PROJECT.json.                  *)
(***************************************************************************)
EXTENDS Integers, Sequences, FiniteSets

CONSTANTS
  Lanes,          \* lane names
  Tasks,          \* calls of enqueueCommandInLane, each made at most once
  LaneOf,         \* the lane each call names
  Timed,          \* the calls made with a taskTimeoutMs
  Waiters,        \* calls of waitForActiveTasks
  Requested,      \* values setCommandLaneConcurrency is called with
  MaxGeneration   \* bound on lane generations (resets) explored

ASSUME LanesAssumption ==
  /\ LaneOf \in [Tasks -> Lanes]
  /\ Timed \subseteq Tasks
  /\ Requested \subseteq Int
  /\ MaxGeneration \in Nat

VARIABLES
  queue,            \* LaneState.queue
  active,           \* LaneState.activeTaskIds
  maxConcurrent,    \* LaneState.maxConcurrent
  generation,       \* LaneState.generation
  gatewayDraining,  \* state.gatewayDraining
  taskGeneration,   \* taskGeneration captured when the task was dequeued, -1 before
  running,          \* tasks whose own promise has not settled yet
  outcome,          \* what the promise returned to the caller shows
  waiter,           \* ActiveTaskWaiter of each waitForActiveTasks call
  arrived           \* history: accepted calls of each lane in order

vars == <<queue, active, maxConcurrent, generation, gatewayDraining,
          taskGeneration, running, outcome, waiter, arrived>>

(* "settled" stands for the task's own value or error alike: the queue      *)
(* treats the two the same but for a log line.                             *)
Outcomes == {"uncalled", "pending", "settled", "timedOut", "cleared", "draining"}
NoWait == [status |-> "uncalled", ids |-> {}, timed |-> FALSE]
WaitStatus == {"uncalled", "waiting", "drained", "undrained"}

(* The type invariant: in particular a lane always allows one task. *)
TypeOK ==
  /\ queue \in [Lanes -> Seq(Tasks)]
  /\ active \in [Lanes -> SUBSET Tasks]
  /\ maxConcurrent \in [Lanes -> Nat \ {0}]
  /\ generation \in [Lanes -> Nat]
  /\ gatewayDraining \in BOOLEAN
  /\ taskGeneration \in [Tasks -> Nat \cup {-1}]
  /\ running \subseteq Tasks
  /\ outcome \in [Tasks -> Outcomes]
  /\ waiter \in [Waiters -> [status : WaitStatus, ids : SUBSET Tasks, timed : BOOLEAN]]
  /\ arrived \in [Lanes -> Seq(Tasks)]

(* getLaneState creates a lane empty, with room for one task; InitWith     *)
(* starts from other caps, for a gateway that has set them.                *)
InitWith(caps) ==
  /\ queue = [l \in Lanes |-> <<>>]
  /\ active = [l \in Lanes |-> {}]
  /\ maxConcurrent = caps
  /\ generation = [l \in Lanes |-> 0]
  /\ gatewayDraining = FALSE
  /\ taskGeneration = [t \in Tasks |-> -1]
  /\ running = {}
  /\ outcome = [t \in Tasks |-> "uncalled"]
  /\ waiter = [w \in Waiters |-> NoWait]
  /\ arrived = [l \in Lanes |-> <<>>]

Init == InitWith([l \in Lanes |-> 1])

-----------------------------------------------------------------------------
(* The pump loop of drainLane: entries are shifted off the queue q while   *)
(* fewer than m of the slots in a are taken.                               *)

Free(a, m) == IF Cardinality(a) < m THEN m - Cardinality(a) ELSE 0

PumpCount(q, a, m) == IF Len(q) < Free(a, m) THEN Len(q) ELSE Free(a, m)

Started(q, a, m) == {q[i] : i \in 1..PumpCount(q, a, m)}

Left(q, a, m) == SubSeq(q, PumpCount(q, a, m) + 1, Len(q))

StartedIn(S, qs, as, l) == IF l \in S THEN Started(qs[l], as[l], maxConcurrent'[l]) ELSE {}

(* Pump the lanes in S, from queues qs and slots as; the tasks in ended    *)
(* are those whose own promise settles in this step.                       *)
DrainLanes(S, qs, as, ended) ==
  /\ queue' = [l \in Lanes |-> IF l \in S THEN Left(qs[l], as[l], maxConcurrent'[l])
                                          ELSE qs[l]]
  /\ active' = [l \in Lanes |-> as[l] \cup StartedIn(S, qs, as, l)]
  /\ taskGeneration' = [t \in Tasks |-> IF t \in StartedIn(S, qs, as, LaneOf[t])
                                        THEN generation'[LaneOf[t]]
                                        ELSE taskGeneration[t]]
  /\ running' = (running \ ended) \cup UNION {StartedIn(S, qs, as, l) : l \in Lanes}

(* notifyActiveTaskWaiters: a waiter resolves once no lane holds any of    *)
(* the tasks it captured. Tasks the pump starts are never among them.      *)
ActiveAnywhere(as) == UNION {as[l] : l \in Lanes}

HasPendingActiveTasks(ids, as) == ids \cap ActiveAnywhere(as) # {}

NotifyForgotten == UNCHANGED waiter

NotifyActiveTaskWaiters ==
  waiter' = [w \in Waiters |->
              IF waiter[w].status = "waiting" /\ ~HasPendingActiveTasks(waiter[w].ids, active')
              THEN [waiter[w] EXCEPT !.status = "drained"]
              ELSE waiter[w]]

-----------------------------------------------------------------------------
(* enqueueCommandInLane. *)

EnqueueRejected(t) ==
  /\ outcome[t] = "uncalled"
  /\ gatewayDraining
  /\ outcome' = [outcome EXCEPT ![t] = "draining"]
  /\ UNCHANGED <<queue, active, maxConcurrent, generation, gatewayDraining,
                 taskGeneration, running, waiter, arrived>>

PushedInFront(q, t) == <<t>> \o q

Pushed(q, t) == Append(q, t)

Enqueue(t) ==
  LET l == LaneOf[t]
  IN  /\ outcome[t] = "uncalled"
      /\ ~gatewayDraining
      /\ outcome' = [outcome EXCEPT ![t] = "pending"]
      /\ arrived' = [arrived EXCEPT ![l] = Append(@, t)]
      /\ UNCHANGED <<maxConcurrent, generation, gatewayDraining, waiter>>
      /\ DrainLanes({l}, [queue EXCEPT ![l] = Pushed(@, t)], active, {})

(* A task is over for its lane: completeTask, then, for the current        *)
(* generation only, notifyActiveTaskWaiters and pump, then the caller is   *)
(* settled with result. ended is {t} when the task's own promise settled.  *)

CurrentGeneration(t) == taskGeneration[t] = generation[LaneOf[t]]

SlotsKept(t) == active

SlotsWithout(t) == [active EXCEPT ![LaneOf[t]] = @ \ {t}]

CompleteTask(t, result, ended) ==
  /\ outcome' = [outcome EXCEPT ![t] = result]
  /\ UNCHANGED <<maxConcurrent, generation, gatewayDraining, arrived>>
  /\ IF CurrentGeneration(t)
     THEN /\ DrainLanes({LaneOf[t]}, queue, SlotsWithout(t), ended)
          /\ NotifyActiveTaskWaiters
     ELSE /\ DrainLanes({}, queue, active, ended)
          /\ UNCHANGED waiter

(* The task's promise settles while its caller still waits for it. *)
Finish(t) ==
  /\ t \in running
  /\ outcome[t] = "pending"
  /\ CompleteTask(t, "settled", {t})

(* The lane timeout of the task wins Promise.race; the task goes on. *)
Timeout(t) ==
  /\ t \in Timed \cap running
  /\ outcome[t] = "pending"
  /\ CompleteTask(t, "timedOut", {})

(* The promise of a timed out task settles at last: nobody listens. *)
FinishLate(t) ==
  /\ t \in running
  /\ outcome[t] = "timedOut"
  /\ running' = running \ {t}
  /\ UNCHANGED <<queue, active, maxConcurrent, generation, gatewayDraining,
                 taskGeneration, outcome, waiter, arrived>>

-----------------------------------------------------------------------------
(* Control calls. *)

MarkGatewayDraining ==
  /\ gatewayDraining' = TRUE
  /\ UNCHANGED <<queue, active, maxConcurrent, generation, taskGeneration,
                 running, outcome, waiter, arrived>>

AnyNumber(n) == n

AtLeastOne(n) == IF n < 1 THEN 1 ELSE n

SetCommandLaneConcurrency(l, n) ==
  /\ maxConcurrent' = [maxConcurrent EXCEPT ![l] = AtLeastOne(n)]
  /\ UNCHANGED <<generation, gatewayDraining, outcome, waiter, arrived>>
  /\ DrainLanes({l}, queue, active, {})

InQueue(l) == {queue[l][i] : i \in 1..Len(queue[l])}

ClearWithoutReject(l) ==
  /\ queue' = [queue EXCEPT ![l] = <<>>]
  /\ UNCHANGED <<active, maxConcurrent, generation, gatewayDraining,
                 taskGeneration, running, outcome, waiter, arrived>>

ClearCommandLane(l) ==
  /\ queue' = [queue EXCEPT ![l] = <<>>]
  /\ outcome' = [t \in Tasks |-> IF t \in InQueue(l) THEN "cleared" ELSE outcome[t]]
  /\ UNCHANGED <<active, maxConcurrent, generation, gatewayDraining,
                 taskGeneration, running, waiter, arrived>>

(* resetCommandLane and resetAllLanes do the same to the lanes in S: a new *)
(* generation, all slots free, preserved entries pumped, waiters notified. *)

SlotsSurvive(S) == active

SlotsAfterReset(S) == [l \in Lanes |-> IF l \in S THEN {} ELSE active[l]]

NoLaneToDrain(S) == {}

LanesToDrain(S) == {l \in S : queue[l] # <<>>}

ResetLanes(S) ==
  /\ \A l \in S : generation[l] < MaxGeneration
  /\ generation' = [l \in Lanes |-> IF l \in S THEN generation[l] + 1 ELSE generation[l]]
  /\ UNCHANGED <<maxConcurrent, outcome, arrived>>
  /\ DrainLanes(LanesToDrain(S), queue, SlotsAfterReset(S), {})
  /\ NotifyActiveTaskWaiters

ResetCommandLane(l) ==
  /\ ResetLanes({l})
  /\ UNCHANGED gatewayDraining

ResetAllLanes ==
  /\ gatewayDraining' = FALSE
  /\ ResetLanes(Lanes)

(* waitForActiveTasks: without a timeout (timed = FALSE), with one, or, as *)
(* WaitNoTime, with a timeout that is not positive.                        *)

WaitForActiveTasks(w, timed) ==
  /\ waiter[w].status = "uncalled"
  /\ waiter' = [waiter EXCEPT ![w] =
                 [status |-> IF ActiveAnywhere(active) = {} THEN "drained" ELSE "waiting",
                  ids |-> ActiveAnywhere(active), timed |-> timed]]
  /\ UNCHANGED <<queue, active, maxConcurrent, generation, gatewayDraining,
                 taskGeneration, running, outcome, arrived>>

WaitNoTime(w) ==
  /\ waiter[w].status = "uncalled"
  /\ waiter' = [waiter EXCEPT ![w] =
                 [status |-> IF ActiveAnywhere(active) = {} THEN "drained" ELSE "undrained",
                  ids |-> ActiveAnywhere(active), timed |-> TRUE]]
  /\ UNCHANGED <<queue, active, maxConcurrent, generation, gatewayDraining,
                 taskGeneration, running, outcome, arrived>>

WaiterTimeout(w) ==
  /\ waiter[w].status = "waiting"
  /\ waiter[w].timed
  /\ waiter' = [waiter EXCEPT ![w] =
                 [status |-> "undrained", ids |-> waiter[w].ids, timed |-> TRUE]]
  /\ UNCHANGED <<queue, active, maxConcurrent, generation, gatewayDraining,
                 taskGeneration, running, outcome, arrived>>

-----------------------------------------------------------------------------
TaskStep(t) ==
  \/ EnqueueRejected(t)
  \/ Enqueue(t)
  \/ Finish(t)
  \/ Timeout(t)
  \/ FinishLate(t)

LaneStep(l) ==
  \/ \E n \in Requested : SetCommandLaneConcurrency(l, n)
  \/ ClearCommandLane(l)
  \/ ResetCommandLane(l)

WaiterStep(w) ==
  \/ \E timed \in BOOLEAN : WaitForActiveTasks(w, timed)
  \/ WaitNoTime(w)
  \/ WaiterTimeout(w)

Next ==
  \/ \E t \in Tasks : TaskStep(t)
  \/ \E l \in Lanes : LaneStep(l)
  \/ \E w \in Waiters : WaiterStep(w)
  \/ MarkGatewayDraining
  \/ ResetAllLanes

Spec == Init /\ [][Next]_vars

(* Only timers and the pump are the queue's own doing: a task's promise    *)
(* may never settle, so the fairness is that of the lane timeout and of    *)
(* the waiter's timer.                                                     *)
FairSpec ==
  /\ Spec
  /\ \A t \in Tasks : WF_vars(Timeout(t))
  /\ \A w \in Waiters : WF_vars(WaiterTimeout(w))

-----------------------------------------------------------------------------
(* Properties. *)

(* A lane never leaves an entry queued while it has a free slot: every     *)
(* path that frees a slot or raises the cap ends in a pump.                *)
NoIdleBacklog ==
  \A l \in Lanes : queue[l] # <<>> => Cardinality(active[l]) >= maxConcurrent[l]

(* The slots of a lane are exactly the tasks of its current generation     *)
(* that still run for a caller: a stale completion frees no slot of the    *)
(* new generation and no slot leaks.                                       *)
ActiveExact ==
  \A l \in Lanes :
    active[l] = {t \in running : /\ LaneOf[t] = l
                                 /\ CurrentGeneration(t)
                                 /\ outcome[t] = "pending"}

(* A caller is left waiting only for an entry that is queued in its lane   *)
(* or whose task runs; in the queue an entry appears once and only before  *)
(* it starts.                                                              *)
NoStrandedCaller ==
  /\ \A t \in Tasks : outcome[t] = "pending" <=> \/ t \in InQueue(LaneOf[t])
                                                 \/ t \in running /\ outcome[t] # "timedOut"
  /\ \A l \in Lanes : /\ InQueue(l) \cap running = {}
                      /\ \A i, j \in 1..Len(queue[l]) : queue[l][i] = queue[l][j] => i = j

(* Tasks of a lane start in the order their calls were accepted: one that  *)
(* started has no earlier call that neither started nor was cleared.       *)
StartOrder ==
  \A l \in Lanes : \A i, j \in 1..Len(arrived[l]) :
    (i < j /\ taskGeneration[arrived[l][j]] # -1) =>
      (taskGeneration[arrived[l][i]] # -1 \/ outcome[arrived[l][i]] = "cleared")

(* A waiter still waiting has a captured task in some lane: the completion *)
(* or reset that released the last one has resolved it.                    *)
WaiterSound ==
  \A w \in Waiters : waiter[w].status = "waiting" => HasPendingActiveTasks(waiter[w].ids, active)

(* A pump never starts a task beyond the cap then in force; after the cap  *)
(* is lowered a lane may hold more tasks, but it starts none.              *)
StartsWithinCap ==
  [][\A l \in Lanes : ~(active'[l] \subseteq active[l]) =>
                        Cardinality(active'[l]) <= maxConcurrent'[l]]_vars

(* Every accepted call is settled if the calls of its lane have a lane     *)
(* timeout, however many of their tasks hang: timeouts release the slots   *)
(* and the pump starts what waits.                                         *)
AcceptedSettles ==
  \A t \in Tasks : {u \in Tasks : LaneOf[u] = LaneOf[t]} \subseteq Timed =>
    (outcome[t] = "pending" ~> outcome[t] # "pending")

(* A wait for active tasks ends if it has a timer or if all the tasks it   *)
(* captured have a lane timeout.                                           *)
WaitEnds ==
  \A w \in Waiters :
    (waiter[w].status = "waiting" /\ (waiter[w].timed \/ waiter[w].ids \subseteq Timed))
      ~> waiter[w].status # "waiting"
=============================================================================

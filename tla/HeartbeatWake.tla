---------------------------- MODULE HeartbeatWake ----------------------------
(***************************************************************************)
(* The wake scheduler of the heartbeat (openclaw/src/infra/                *)
(* heartbeat-wake.ts): requests are merged per target, one timer hands     *)
(* what is pending to the registered handler, one wake after the other,    *)
(* and the wakes of a busy or failing handler are tried again.             *)
(*                                                                         *)
(* What happens between two awaits is one action. A wake is its priority   *)
(* (0 for none): source, reason and heartbeat override do not matter to    *)
(* the scheduler. Registrations are numbered, as are the closures they     *)
(* bring (startHeartbeatRunner makes a new one each time, and no code      *)
(* registers null). The order of a batch is left open.                     *)
(*                                                                         *)
(* Replaces, Collapses, KeepsFlag, BlindIdle and RestOnly are wrong        *)
(* variants of the definition that follows them; no action uses them.      *)
(***************************************************************************)
EXTENDS Naturals, FiniteSets

CONSTANTS
  Targets,     \* agentId::sessionKey of the wakes
  MaxPriority, \* REASON_PRIORITY, from 1
  Requests,    \* calls of requestHeartbeat: target, priority, coalesceMs
  Coalesce,    \* DEFAULT_COALESCE_MS
  Retry,       \* DEFAULT_RETRY_MS
  None,        \* no timer, no batch
  MaxSets,     \* bound on registrations
  MaxBatches,  \* bound on batches that are in flight at once
  MaxHangs     \* bound on calls of a handler that never settle

Timer == [kind : {"normal", "retry"}, left : Nat, delay : Nat]

Wakes == [Targets -> 0..MaxPriority]

Batch == [by : 1..MaxSets, delay : Nat, wakes : Wakes, todo : Wakes, at : Targets, hung : BOOLEAN]

ASSUME WakeAssumption ==
  /\ MaxPriority \in Nat \ {0}
  /\ Requests \subseteq [target : Targets, priority : 1..MaxPriority, coalesce : Nat]
  /\ Coalesce \in Nat /\ Retry \in Nat
  /\ MaxSets \in Nat /\ MaxBatches \in Nat /\ MaxHangs \in Nat
  /\ None \notin Timer /\ None \notin Batch

Slots == 1..MaxBatches

VARIABLES
  handler,   \* the registration whose handler is set, 0 for none
  sets,      \* registrations so far
  pending,   \* pendingWakes: the priority by target
  scheduled,
  running,
  timer,     \* timerKind, the time to timerDueAt, the delay it was made with
  batch,     \* calls of the timer's callback that await a handler
  hangs,     \* calls that never settle so far
  asked,     \* history: what was asked for and not handed to a handler since
  cool,      \* history: time left of a cooldown that nothing may shorten
  freed      \* history: a batch of an earlier handler ended beside one of this

vars == <<handler, sets, pending, scheduled, running, timer, batch, hangs, asked, cool, freed>>

NoWakes == [t \in Targets |-> 0]

Init ==
  /\ handler = 0 /\ sets = 0
  /\ pending = NoWakes
  /\ scheduled = FALSE /\ running = FALSE
  /\ timer = None
  /\ batch = [s \in Slots |-> None]
  /\ hangs = 0
  /\ asked = NoWakes
  /\ cool = 0
  /\ freed = FALSE

Higher(p, q) == IF p > q THEN p ELSE q

(* queuePendingWakeReason, for each target with a wake in w: what has a    *)
(* lower priority than the wake that is there is dropped.                  *)
Replaces(wakes, w) == [t \in Targets |-> IF w[t] > 0 THEN w[t] ELSE wakes[t]]

Merged(wakes, w) == [t \in Targets |-> Higher(w[t], wakes[t])]

(* schedule: a cooldown stays, as does a timer that is not later. *)
Collapses(tm, delay, kind) ==
  IF tm # None /\ tm.left <= delay THEN tm
  ELSE [kind |-> kind, left |-> delay, delay |-> delay]

Scheduled(tm, delay, kind) ==
  IF tm # None /\ (tm.kind = "retry" \/ tm.left <= delay) THEN tm
  ELSE [kind |-> kind, left |-> delay, delay |-> delay]

Only(t, p) == [NoWakes EXCEPT ![t] = p]

Request(r) ==
  /\ pending' = Merged(pending, Only(r.target, r.priority))
  /\ timer' = Scheduled(timer, r.coalesce, "normal")
  /\ asked' = [asked EXCEPT ![r.target] = Higher(@, r.priority)]
  /\ UNCHANGED <<handler, sets, scheduled, running, batch, hangs, cool, freed>>

-----------------------------------------------------------------------------
(* setHeartbeatWakeHandler and the disposer it returns.                    *)

(* What a new handler makes of running and scheduled. *)
KeepsFlag(flag) == flag

Reset(flag) == FALSE

SetHandler ==
  /\ sets < MaxSets
  /\ sets' = sets + 1
  /\ handler' = sets'
  /\ timer' = IF pending = NoWakes THEN None ELSE Scheduled(None, Coalesce, "normal")
  /\ running' = Reset(running)
  /\ scheduled' = Reset(scheduled)
  /\ cool' = 0
  /\ freed' = FALSE
  /\ UNCHANGED <<pending, batch, hangs, asked>>

(* A disposer other than the last one does nothing. *)
Dispose ==
  /\ handler # 0
  /\ handler' = 0
  /\ UNCHANGED <<sets, pending, scheduled, running, timer, batch, hangs, asked, cool, freed>>

-----------------------------------------------------------------------------
(* The timer.                                                              *)

Tick ==
  /\ timer # None /\ timer.left > 0
  /\ timer' = [timer EXCEPT !.left = @ - 1]
  /\ cool' = IF cool > 0 THEN cool - 1 ELSE 0
  /\ UNCHANGED <<handler, sets, pending, scheduled, running, batch, hangs, asked, freed>>

Due == timer # None /\ timer.left = 0

BlindIdle == TRUE

Idle == ~running

(* Nobody to wake, or nothing to wake for. *)
FireIdle ==
  /\ Due
  /\ handler = 0 \/ (Idle /\ pending = NoWakes)
  /\ timer' = None
  /\ scheduled' = FALSE
  /\ UNCHANGED <<handler, sets, pending, running, batch, hangs, asked, cool, freed>>

FireBusy ==
  /\ Due
  /\ handler # 0 /\ ~Idle
  /\ scheduled' = TRUE
  /\ timer' = Scheduled(None, timer.delay, timer.kind)
  /\ UNCHANGED <<handler, sets, pending, running, batch, hangs, asked, cool, freed>>

(* The batch is taken and the handler called with the first of its wakes.  *)
Fire(s, t) ==
  /\ Due
  /\ handler # 0 /\ Idle
  /\ batch[s] = None /\ \A r \in 1..(s - 1) : batch[r] # None
  /\ pending[t] > 0
  /\ batch' = [batch EXCEPT ![s] =
       [by |-> handler, delay |-> timer.delay, wakes |-> pending, todo |-> pending,
        at |-> t, hung |-> FALSE]]
  /\ pending' = NoWakes
  /\ running' = TRUE
  /\ scheduled' = FALSE
  /\ timer' = None
  /\ asked' = NoWakes
  /\ UNCHANGED <<handler, sets, hangs, cool, freed>>

-----------------------------------------------------------------------------
(* The handler settles.                                                    *)

InFlight(s) == batch[s] # None /\ ~batch[s].hung

(* A retry is asked for; nothing shortens its delay if no other timer runs.*)
Cooled(retried) == IF retried /\ timer = None THEN Retry ELSE cool

Again(retried) == IF retried THEN Scheduled(timer, Retry, "retry") ELSE timer

Left(s) == [batch[s].todo EXCEPT ![batch[s].at] = 0]

(* The loop goes on with the next wake. *)
NextWake(s, t, wakes, retried) ==
  /\ Left(s)[t] > 0
  /\ batch' = [batch EXCEPT ![s].todo = Left(s), ![s].at = t]
  /\ pending' = wakes
  /\ timer' = Again(retried)
  /\ UNCHANGED <<scheduled, running, freed>>

(* The loop has ended or was left; the block finally. *)
Finally(s, wakes, retried) ==
  /\ batch' = [batch EXCEPT ![s] = None]
  /\ running' = FALSE
  /\ pending' = wakes
  /\ timer' = IF wakes # NoWakes \/ scheduled
              THEN Scheduled(Again(retried), batch[s].delay, "normal")
              ELSE Again(retried)
  /\ freed' = (freed \/ (batch[s].by # handler
                          /\ \E r \in Slots \ {s} : batch[r] # None /\ batch[r].by = handler))
  /\ UNCHANGED scheduled

(* The handler ran, failed, or skipped the wake for good; or it was busy,  *)
(* and the wake becomes pending again.                                     *)
Answer(s, busy) ==
  LET b == batch[s]
      redo == IF busy THEN Only(b.at, b.todo[b.at]) ELSE NoWakes
  IN  /\ InFlight(s)
      /\ IF Left(s) = NoWakes
         THEN Finally(s, Merged(pending, redo), busy)
         ELSE \E t \in Targets : NextWake(s, t, Merged(pending, redo), busy)
      /\ asked' = [t \in Targets |-> Higher(redo[t], asked[t])]
      /\ cool' = Cooled(busy)
      /\ UNCHANGED <<handler, sets, hangs>>

(* What becomes pending again when the handler throws: the whole batch. *)
RestOnly(s) == Left(s)

Unfinished(s) == batch[s].wakes

Throw(s) ==
  /\ InFlight(s)
  /\ Finally(s, Merged(pending, Unfinished(s)), TRUE)
  /\ asked' = [t \in Targets |-> Higher(batch[s].todo[t], asked[t])]
  /\ cool' = Cooled(TRUE)
  /\ UNCHANGED <<handler, sets, hangs>>

(* A heartbeat that was interrupted never settles; its batch is lost. *)
Hang(s) ==
  /\ InFlight(s)
  /\ hangs < MaxHangs
  /\ hangs' = hangs + 1
  /\ batch' = [batch EXCEPT ![s].hung = TRUE, ![s].wakes = NoWakes, ![s].todo = NoWakes]
  /\ UNCHANGED <<handler, sets, pending, scheduled, running, timer, asked, cool, freed>>

Fires == FireIdle \/ FireBusy \/ \E s \in Slots, t \in Targets : Fire(s, t)

Settles(s) == Throw(s) \/ \E busy \in BOOLEAN : Answer(s, busy)

Next ==
  \/ \E r \in Requests : Request(r)
  \/ SetHandler \/ Dispose
  \/ Tick \/ Fires
  \/ \E s \in Slots : Settles(s) \/ Hang(s)

Spec == Init /\ [][Next]_vars

(* Timers fire, and calls of the handler settle unless they hang. *)
FairSpec ==
  Spec /\ WF_vars(Tick) /\ WF_vars(Fires) /\ \A s \in Slots : WF_vars(Settles(s))

-----------------------------------------------------------------------------
TypeOK ==
  /\ sets \in 0..MaxSets /\ handler \in {0, sets}
  /\ pending \in Wakes /\ asked \in Wakes
  /\ scheduled \in BOOLEAN /\ running \in BOOLEAN /\ freed \in BOOLEAN
  /\ timer = None \/ timer \in Timer
  /\ batch \in [Slots -> Batch \cup {None}]
  /\ hangs \in 0..MaxHangs
  /\ cool \in Nat
  /\ running => \E s \in Slots : batch[s] # None /\ batch[s].by = sets

(* Whatever was asked for a target and no handler has taken on since, by   *)
(* a request, a busy answer or a throw in the middle of a batch, is        *)
(* pending with at least its priority.                                     *)
NoWakeLost == \A t \in Targets : asked[t] <= pending[t]

Current == {s \in Slots : batch[s] # None /\ batch[s].by = handler}

(* A handler has one batch at a time, until a batch of an earlier handler  *)
(* ends beside it and clears running.                                      *)
OneBatch == handler # 0 /\ ~freed => Cardinality(Current) <= 1

(* A batch never starts before the cooldown of a busy or failed wake has   *)
(* gone by, however soon later requests want theirs; only a timer that     *)
(* was running before, or a new handler, ends it sooner.                   *)
CooldownKept ==
  [][\A s \in Slots : batch[s] = None /\ batch'[s] # None => cool = 0]_vars

(* A pending wake is handed to the handler, unless there is none or a call *)
(* of this very handler never settles: one that hangs in an earlier        *)
(* handler, or its cooldown, blocks nothing.                               *)
WakeServed ==
  \A t \in Targets :
    pending[t] > 0 ~>
      \/ pending[t] = 0
      \/ handler = 0
      \/ \E s \in Current : batch[s].hung
=============================================================================

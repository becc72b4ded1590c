------------------------- MODULE HeartbeatWakeProofs -------------------------
(***************************************************************************)
(* Theorems about the wake scheduler, for any targets, requests, delays,   *)
(* priorities, and any number of handlers, batches and hangs.  IInv adds   *)
(* to the properties what keeps them: a batch belongs to a registration    *)
(* of the past and owes no more than it took (Taken), the batch of the     *)
(* handler is alone and shows in running (Serial), and a cooldown is a     *)
(* retry timer that runs at least as long (Cooling).                       *)
(***************************************************************************)
EXTENDS HeartbeatWake, TLAPS, FiniteSetTheorems

Taken ==
  \A s \in Slots : batch[s] # None =>
    /\ batch[s].by <= sets
    /\ \A t \in Targets : batch[s].todo[t] <= batch[s].wakes[t]

Serial ==
  handler # 0 /\ ~freed =>
    /\ \A s, r \in Current : s = r
    /\ Current # {} => running

Cooling == cool > 0 => timer # None /\ timer.kind = "retry" /\ cool <= timer.left

IInv == TypeOK /\ Taken /\ NoWakeLost /\ Serial /\ Cooling

-----------------------------------------------------------------------------
(* Wakes are merged upwards. *)
LEMMA MergedUp ==
  ASSUME NEW w \in Wakes, NEW v \in Wakes
  PROVE  /\ Merged(w, v) \in Wakes
         /\ \A t \in Targets : Merged(w, v)[t] >= w[t] /\ Merged(w, v)[t] >= v[t]
  BY WakeAssumption DEF Merged, Higher, Wakes

LEMMA NoneAtAll == NoWakes \in Wakes
  BY WakeAssumption DEF NoWakes, Wakes

LEMMA OnlyOne ==
  ASSUME NEW t \in Targets, NEW p \in 0..MaxPriority
  PROVE  Only(t, p) \in Wakes
  BY NoneAtAll DEF Only, Wakes

(* What schedule makes of a timer; a retry timer stays as it is. *)
LEMMA ScheduledTimer ==
  ASSUME NEW tm, tm = None \/ tm \in Timer, NEW d \in Nat, NEW k \in {"normal", "retry"}
  PROVE  /\ Scheduled(tm, d, k) \in Timer
         /\ tm # None /\ tm.kind = "retry" => Scheduled(tm, d, k) = tm
         /\ tm = None => Scheduled(tm, d, k) = [kind |-> k, left |-> d, delay |-> d]
  BY WakeAssumption DEF Scheduled, Timer

(* A batch in flight, and what is left of it. *)
LEMMA FlightType ==
  ASSUME TypeOK, NEW s \in Slots, InFlight(s)
  PROVE  /\ batch[s] \in Batch
         /\ Left(s) \in Wakes
         /\ \A t \in Targets : Left(s)[t] <= batch[s].todo[t]
  <1>1. batch[s] \in Batch
    BY DEF TypeOK, InFlight
  <1>2. batch[s].todo \in Wakes /\ batch[s].at \in Targets
    BY <1>1 DEF Batch
  <1> QED
    BY <1>1, <1>2, WakeAssumption DEF Left, Wakes

(* The timer after a retry was asked for, or not. *)
LEMMA AgainTimer ==
  ASSUME TypeOK, NEW retried \in BOOLEAN
  PROVE  /\ Again(retried) = None \/ Again(retried) \in Timer
         /\ retried => Again(retried) \in Timer
  BY WakeAssumption, ScheduledTimer DEF TypeOK, Again

(* What becomes pending again after an answer. *)
LEMMA RedoType ==
  ASSUME TypeOK, NEW s \in Slots, InFlight(s), NEW busy \in BOOLEAN
  PROVE  (IF busy THEN Only(batch[s].at, batch[s].todo[batch[s].at]) ELSE NoWakes) \in Wakes
  <1>1. batch[s].at \in Targets /\ batch[s].todo[batch[s].at] \in 0..MaxPriority
    BY FlightType DEF Batch, Wakes
  <1> QED
    BY <1>1, OnlyOne, NoneAtAll

(* Types, when the handler settles. *)
LEMMA FinallyType ==
  ASSUME TypeOK, NEW s \in Slots, InFlight(s), NEW retried \in BOOLEAN, NEW wakes \in Wakes,
         Finally(s, wakes, retried)
  PROVE  /\ pending' \in Wakes /\ scheduled' \in BOOLEAN /\ freed' \in BOOLEAN
         /\ timer' = None \/ timer' \in Timer
         /\ batch' \in [Slots -> Batch \cup {None}]
         /\ running' = FALSE
  <1>1. batch[s].delay \in Nat
    BY FlightType DEF Batch
  <1>2. timer' = None \/ timer' \in Timer
    BY <1>1, AgainTimer, ScheduledTimer DEF Finally
  <1> QED
    BY <1>2 DEF Finally, TypeOK

LEMMA NextWakeType ==
  ASSUME TypeOK, NEW s \in Slots, InFlight(s), NEW retried \in BOOLEAN, NEW wakes \in Wakes,
         NEW t \in Targets, NextWake(s, t, wakes, retried)
  PROVE  /\ pending' \in Wakes /\ scheduled' \in BOOLEAN /\ freed' \in BOOLEAN
         /\ timer' = None \/ timer' \in Timer
         /\ batch' \in [Slots -> Batch \cup {None}]
         /\ running' \in BOOLEAN
         /\ running' => \E r \in Slots : batch'[r] # None /\ batch'[r].by = sets
  <1>1. [batch[s] EXCEPT !.todo = Left(s), !.at = t] \in Batch
    BY FlightType DEF Batch
  <1>2. batch' \in [Slots -> Batch \cup {None}]
    BY <1>1 DEF NextWake, TypeOK
  <1>3. \A r \in Slots : batch[r] # None => batch'[r] # None /\ batch'[r].by = batch[r].by
    BY <1>1, FlightType, WakeAssumption DEF NextWake, TypeOK, InFlight, Batch
  <1> QED
    BY <1>2, <1>3, AgainTimer DEF NextWake, TypeOK

-----------------------------------------------------------------------------
LEMMA TypeStep == TypeOK /\ [Next]_vars => TypeOK'
<1> SUFFICES ASSUME TypeOK, [Next]_vars PROVE TypeOK'
  OBVIOUS
<1> USE WakeAssumption
<1>1. ASSUME NEW r \in Requests, Request(r) PROVE TypeOK'
  <2>1. r.target \in Targets /\ r.priority \in 0..MaxPriority /\ r.coalesce \in Nat
    OBVIOUS
  <2>2. pending' \in Wakes
    BY <1>1, <2>1, OnlyOne, MergedUp DEF Request, TypeOK
  <2>3. asked' \in Wakes
    BY <1>1, <2>1 DEF Request, TypeOK, Wakes, Higher
  <2>4. timer' \in Timer
    BY <1>1, <2>1, ScheduledTimer DEF Request, TypeOK
  <2> QED
    BY <1>1, <2>2, <2>3, <2>4 DEF Request, TypeOK
<1>2. CASE SetHandler
  <2>1. timer' = None \/ timer' \in Timer
    BY <1>2, ScheduledTimer DEF SetHandler
  <2>2. sets' \in 0..MaxSets /\ handler' = sets' /\ cool' = 0
    BY <1>2 DEF SetHandler, TypeOK
  <2>3. running' = FALSE /\ scheduled' = FALSE /\ freed' = FALSE
    BY <1>2 DEF SetHandler, Reset, TypeOK
  <2>4. UNCHANGED <<pending, batch, hangs, asked>>
    BY <1>2 DEF SetHandler
  <2> QED
    BY <2>1, <2>2, <2>3, <2>4 DEF TypeOK
<1>3. CASE Dispose
  BY <1>3 DEF Dispose, TypeOK
<1>4. CASE Tick
  <2>1. timer' \in Timer /\ cool' \in Nat
    BY <1>4 DEF Tick, TypeOK, Timer
  <2> QED
    BY <1>4, <2>1 DEF Tick, TypeOK
<1>5. CASE FireIdle
  BY <1>5 DEF FireIdle, TypeOK
<1>6. CASE FireBusy
  <2>1. timer' \in Timer
    BY <1>6, ScheduledTimer DEF FireBusy, Due, TypeOK, Timer
  <2> QED
    BY <1>6, <2>1 DEF FireBusy, TypeOK
<1>7. ASSUME NEW s \in Slots, NEW t \in Targets, Fire(s, t) PROVE TypeOK'
  <2> DEFINE b == [by |-> handler, delay |-> timer.delay, wakes |-> pending, todo |-> pending,
                   at |-> t, hung |-> FALSE]
  <2>1. b \in Batch
    BY <1>7 DEF Fire, Due, TypeOK, Timer, Batch
  <2>2. batch' = [batch EXCEPT ![s] = b] /\ b.by = sets'
    BY <1>7 DEF Fire, TypeOK
  <2>3. batch' \in [Slots -> Batch \cup {None}] /\ batch'[s] # None /\ batch'[s].by = sets'
    BY <2>1, <2>2 DEF TypeOK
  <2> QED
    BY <1>7, <2>3, NoneAtAll DEF Fire, TypeOK
<1>8. ASSUME NEW s \in Slots, Throw(s) PROVE TypeOK'
  <2>1. InFlight(s) /\ batch[s].wakes \in Wakes /\ batch[s].todo \in Wakes
    BY <1>8, FlightType DEF Throw, Batch
  <2>2. Merged(pending, Unfinished(s)) \in Wakes
    BY <2>1, MergedUp DEF TypeOK, Unfinished
  <2>3. asked' \in Wakes
    BY <1>8, <2>1 DEF Throw, TypeOK, Wakes, Higher
  <2>4. cool' \in Nat
    BY <1>8 DEF Throw, Cooled, TypeOK
  <2>5. Finally(s, Merged(pending, Unfinished(s)), TRUE)
    BY <1>8 DEF Throw
  <2> QED
    BY <1>8, <2>1, <2>2, <2>3, <2>4, <2>5, FinallyType DEF Throw, TypeOK
<1>9. ASSUME NEW s \in Slots, NEW busy \in BOOLEAN, Answer(s, busy) PROVE TypeOK'
  <2> DEFINE redo == IF busy THEN Only(batch[s].at, batch[s].todo[batch[s].at]) ELSE NoWakes
  <2>1. InFlight(s) /\ redo \in Wakes
    BY <1>9, RedoType DEF Answer
  <2>2. Merged(pending, redo) \in Wakes
    BY <2>1, MergedUp DEF TypeOK
  <2>3. asked' = [t \in Targets |-> Higher(redo[t], asked[t])]
    BY <1>9 DEF Answer
  <2>4. asked' \in Wakes
    <3> HIDE DEF redo
    <3> QED
      BY <2>1, <2>3 DEF TypeOK, Wakes, Higher
  <2>5. cool' \in Nat /\ UNCHANGED <<handler, sets, hangs>>
    BY <1>9 DEF Answer, Cooled, TypeOK
  <2>6. \/ Finally(s, Merged(pending, redo), busy)
        \/ \E t \in Targets : NextWake(s, t, Merged(pending, redo), busy)
    BY <1>9 DEF Answer
  <2> HIDE DEF redo
  <2>7. CASE Finally(s, Merged(pending, redo), busy)
    BY <2>1, <2>2, <2>4, <2>5, <2>7, FinallyType DEF TypeOK
  <2>8. CASE \E t \in Targets : NextWake(s, t, Merged(pending, redo), busy)
    BY <2>1, <2>2, <2>4, <2>5, <2>8, NextWakeType DEF TypeOK
  <2> QED
    BY <2>6, <2>7, <2>8
<1>10. ASSUME NEW s \in Slots, Hang(s) PROVE TypeOK'
  <2>1. [batch[s] EXCEPT !.hung = TRUE, !.wakes = NoWakes, !.todo = NoWakes] \in Batch
    BY <1>10, FlightType, NoneAtAll DEF Hang, Batch
  <2>2. batch' = [batch EXCEPT ![s] = [batch[s] EXCEPT !.hung = TRUE, !.wakes = NoWakes, !.todo = NoWakes]]
    BY <1>10 DEF Hang, TypeOK
  <2>3. batch' \in [Slots -> Batch \cup {None}]
    BY <2>1, <2>2 DEF TypeOK
  <2>4. \A r \in Slots : batch[r] # None => batch'[r] # None /\ batch'[r].by = batch[r].by
    BY <1>10, <2>1, <2>2, FlightType DEF Hang, InFlight, TypeOK, Batch
  <2> QED
    BY <1>10, <2>3, <2>4 DEF Hang, TypeOK
<1>11. CASE UNCHANGED vars
  BY <1>11 DEF vars, TypeOK
<1> QED
  BY <1>1, <1>2, <1>3, <1>4, <1>5, <1>6, <1>7, <1>8, <1>9, <1>10, <1>11 DEF Next, Fires, Settles
(* A settling batch goes, or owes no more than before. *)
LEMMA SettledBatch ==
  ASSUME TypeOK, NEW s \in Slots, NEW busy \in BOOLEAN, Throw(s) \/ Answer(s, busy)
  PROVE  /\ InFlight(s) /\ UNCHANGED <<sets, handler>>
         /\ \A r \in Slots \ {s} : batch'[r] = batch[r]
         /\ \/ batch'[s] = None
            \/ \E t \in Targets : batch'[s] = [batch[s] EXCEPT !.todo = Left(s), !.at = t]
  BY DEF Throw, Answer, Finally, NextWake, TypeOK

LEMMA TakenStep == TypeOK /\ Taken /\ [Next]_vars => Taken'
<1> SUFFICES ASSUME TypeOK, Taken, [Next]_vars PROVE Taken'
  OBVIOUS
<1> USE WakeAssumption
<1>1. ASSUME NEW r \in Requests, Request(r) PROVE Taken'
  BY <1>1 DEF Request, Taken
<1>2. CASE SetHandler
  BY <1>2 DEF SetHandler, Taken, TypeOK, Batch
<1>3. CASE Dispose
  BY <1>3 DEF Dispose, Taken
<1>4. CASE Tick
  BY <1>4 DEF Tick, Taken
<1>5. CASE FireIdle
  BY <1>5 DEF FireIdle, Taken
<1>6. CASE FireBusy
  BY <1>6 DEF FireBusy, Taken
<1>7. ASSUME NEW s \in Slots, NEW t \in Targets, Fire(s, t) PROVE Taken'
  <2>1. batch'[s].by <= sets' /\ \A u \in Targets : batch'[s].todo[u] <= batch'[s].wakes[u]
    BY <1>7 DEF Fire, TypeOK, Wakes
  <2>2. \A r \in Slots \ {s} : batch'[r] = batch[r]
    BY <1>7 DEF Fire, TypeOK
  <2> QED
    BY <1>7, <2>1, <2>2 DEF Fire, Taken
<1>8. ASSUME NEW s \in Slots, NEW busy \in BOOLEAN, Throw(s) \/ Answer(s, busy) PROVE Taken'
  <2>0. InFlight(s)
    BY <1>8, SettledBatch
  <2>1. \A t \in Targets : Left(s)[t] <= batch[s].wakes[t]
    <3>1. /\ batch[s].todo \in Wakes /\ batch[s].wakes \in Wakes /\ Left(s) \in Wakes
          /\ \A t \in Targets : Left(s)[t] <= batch[s].todo[t]
      BY <2>0, FlightType DEF Batch
    <3>2. \A t \in Targets : batch[s].todo[t] <= batch[s].wakes[t]
      BY <2>0 DEF Taken, InFlight
    <3> QED
      BY <3>1, <3>2, WakeAssumption DEF Wakes
  <2>2. batch'[s] # None => /\ batch'[s].by = batch[s].by
                            /\ batch'[s].wakes = batch[s].wakes
                            /\ batch'[s].todo = Left(s)
    BY <1>8, SettledBatch, FlightType DEF Batch
  <2>3. batch[s].by <= sets /\ sets' = sets /\ \A r \in Slots \ {s} : batch'[r] = batch[r]
    BY <1>8, <2>0, SettledBatch DEF Taken, InFlight
  <2> QED
    BY <2>1, <2>2, <2>3 DEF Taken
<1>9. ASSUME NEW s \in Slots, Hang(s) PROVE Taken'
  <2>1. batch'[s].by = batch[s].by /\ batch'[s].wakes = NoWakes /\ batch'[s].todo = NoWakes
    BY <1>9, FlightType DEF Hang, TypeOK, Batch
  <2>2. \A r \in Slots \ {s} : batch'[r] = batch[r]
    BY <1>9 DEF Hang, TypeOK
  <2>3. batch[s] # None /\ UNCHANGED sets
    BY <1>9 DEF Hang, InFlight
  <2>4. \A t \in Targets : NoWakes[t] <= NoWakes[t]
    BY DEF NoWakes
  <2> QED
    BY <2>1, <2>2, <2>3, <2>4 DEF Taken
<1>10. CASE UNCHANGED vars
  BY <1>10 DEF vars, Taken
<1> QED
  BY <1>1, <1>2, <1>3, <1>4, <1>5, <1>6, <1>7, <1>8, <1>9, <1>10 DEF Next, Fires, Settles

-----------------------------------------------------------------------------
LEMMA WakeStep == TypeOK /\ Taken /\ NoWakeLost /\ [Next]_vars => NoWakeLost'
<1> SUFFICES ASSUME TypeOK, Taken, NoWakeLost, [Next]_vars PROVE NoWakeLost'
  OBVIOUS
<1> USE WakeAssumption
<1>0. pending \in Wakes /\ asked \in Wakes
  BY DEF TypeOK
<1>1. ASSUME NEW r \in Requests, Request(r) PROVE NoWakeLost'
  <2>1. r.target \in Targets /\ r.priority \in 0..MaxPriority
    OBVIOUS
  <2>2. \A t \in Targets : asked'[t] = IF t = r.target THEN Higher(asked[t], r.priority) ELSE asked[t]
    BY <1>0, <1>1 DEF Request, Wakes
  <2>3. \A t \in Targets : Only(r.target, r.priority)[t] = IF t = r.target THEN r.priority ELSE 0
    BY <2>1 DEF Only, NoWakes
  <2>4. \A t \in Targets : pending'[t] = Higher(Only(r.target, r.priority)[t], pending[t])
    BY <1>1 DEF Request, Merged
  <2> QED
    BY <1>0, <2>1, <2>2, <2>3, <2>4 DEF NoWakeLost, Higher, Wakes
<1>2. CASE SetHandler
  BY <1>2 DEF SetHandler, NoWakeLost
<1>3. CASE Dispose
  BY <1>3 DEF Dispose, NoWakeLost
<1>4. CASE Tick
  BY <1>4 DEF Tick, NoWakeLost
<1>5. CASE FireIdle
  BY <1>5 DEF FireIdle, NoWakeLost
<1>6. CASE FireBusy
  BY <1>6 DEF FireBusy, NoWakeLost
<1>7. ASSUME NEW s \in Slots, NEW t \in Targets, Fire(s, t) PROVE NoWakeLost'
  BY <1>7 DEF Fire, NoWakeLost, NoWakes
<1>8. ASSUME NEW s \in Slots, Throw(s) PROVE NoWakeLost'
  <2>1. /\ batch[s].todo \in Wakes /\ batch[s].wakes \in Wakes
        /\ \A t \in Targets : batch[s].todo[t] <= batch[s].wakes[t]
    BY <1>8, FlightType DEF Throw, InFlight, Taken, Batch
  <2>2. \A t \in Targets : asked'[t] = Higher(batch[s].todo[t], asked[t])
    BY <1>8 DEF Throw
  <2>3. \A t \in Targets : pending'[t] = Higher(batch[s].wakes[t], pending[t])
    BY <1>8 DEF Throw, Finally, Merged, Unfinished
  <2> QED
    BY <1>0, <2>1, <2>2, <2>3 DEF NoWakeLost, Higher, Wakes
<1>9. ASSUME NEW s \in Slots, NEW busy \in BOOLEAN, Answer(s, busy) PROVE NoWakeLost'
  <2> DEFINE redo == IF busy THEN Only(batch[s].at, batch[s].todo[batch[s].at]) ELSE NoWakes
  <2>1. redo \in Wakes
    BY <1>9, RedoType DEF Answer
  <2>2. \A t \in Targets : asked'[t] = Higher(redo[t], asked[t])
    BY <1>9 DEF Answer
  <2>3. pending' = Merged(pending, redo)
    BY <1>9 DEF Answer, Finally, NextWake
  <2>4. \A t \in Targets : pending'[t] = Higher(redo[t], pending[t])
    BY <2>3 DEF Merged
  <2> HIDE DEF redo
  <2> QED
    BY <1>0, <2>1, <2>2, <2>4 DEF NoWakeLost, Higher, Wakes
<1>10. ASSUME NEW s \in Slots, Hang(s) PROVE NoWakeLost'
  BY <1>10 DEF Hang, NoWakeLost
<1>11. CASE UNCHANGED vars
  BY <1>11 DEF vars, NoWakeLost
<1> QED
  BY <1>1, <1>2, <1>3, <1>4, <1>5, <1>6, <1>7, <1>8, <1>9, <1>10, <1>11 DEF Next, Fires, Settles

-----------------------------------------------------------------------------
LEMMA SerialStep == TypeOK /\ Taken /\ Serial /\ [Next]_vars => Serial'
<1> SUFFICES ASSUME TypeOK, Taken, Serial, [Next]_vars PROVE Serial'
  OBVIOUS
<1> USE WakeAssumption
<1>1. CASE UNCHANGED <<handler, freed, batch, running>>
  BY <1>1 DEF Serial, Current
<1>2. CASE SetHandler
  <2>1. handler' = sets + 1 /\ batch' = batch
    BY <1>2 DEF SetHandler
  <2>2. Current' = {}
    BY <2>1 DEF Taken, TypeOK, Batch, Current
  <2> QED
    BY <2>2 DEF Serial
<1>3. CASE Dispose
  BY <1>3 DEF Dispose, Serial
<1>4. ASSUME NEW s \in Slots, NEW t \in Targets, Fire(s, t) PROVE Serial'
  <2>1. handler # 0 /\ ~running /\ running' /\ UNCHANGED <<handler, freed>>
    BY <1>4 DEF Fire, Idle
  <2>2. \A r \in Slots \ {s} : batch'[r] = batch[r]
    BY <1>4 DEF Fire, TypeOK
  <2>3. ~freed => Current' \subseteq {s}
    BY <2>1, <2>2 DEF Serial, Current
  <2> QED
    BY <2>1, <2>3 DEF Serial
<1>5. ASSUME NEW s \in Slots, NEW wakes, NEW retried \in BOOLEAN, Finally(s, wakes, retried),
             InFlight(s), UNCHANGED <<sets, handler>>
      PROVE Serial'
  <2>1. batch'[s] = None /\ \A r \in Slots \ {s} : batch'[r] = batch[r]
    BY <1>5 DEF Finally, TypeOK
  <2>2. Current' = Current \ {s}
    BY <1>5, <2>1 DEF Current
  <2>3. handler # 0 /\ ~freed' => ~freed
    BY <1>5 DEF Finally, TypeOK
  <2>4. handler # 0 /\ ~freed' => Current \ {s} = {}
    <3>1. CASE batch[s].by = handler
      <4>1. s \in Current
        BY <1>5, <3>1 DEF Current, InFlight
      <4> QED
        BY <2>3, <4>1 DEF Serial
    <3>2. CASE batch[s].by # handler
      BY <1>5, <3>2 DEF Finally, Current
    <3> QED
      BY <3>1, <3>2
  <2> QED
    BY <1>5, <2>2, <2>3, <2>4 DEF Serial
<1>6. ASSUME NEW s \in Slots, InFlight(s), NEW b, b.by = batch[s].by,
             batch' = [batch EXCEPT ![s] = b], UNCHANGED <<handler, freed, running>>
      PROVE Serial'
  <2>1. Current' \subseteq Current
    BY <1>6 DEF Current, InFlight, TypeOK
  <2> QED
    BY <1>6, <2>1 DEF Serial
<1>7. ASSUME NEW s \in Slots, Throw(s) PROVE Serial'
  BY <1>5, <1>7 DEF Throw
<1>8. ASSUME NEW s \in Slots, NEW busy \in BOOLEAN, Answer(s, busy) PROVE Serial'
  <2>1. InFlight(s) /\ UNCHANGED <<sets, handler>>
    BY <1>8 DEF Answer
  <2>2. \/ \E wakes : Finally(s, wakes, busy)
        \/ \E t \in Targets : \E wakes : NextWake(s, t, wakes, busy)
    BY <1>8 DEF Answer
  <2>3. CASE \E wakes : Finally(s, wakes, busy)
    BY <1>5, <2>1, <2>3
  <2>4. ASSUME NEW t \in Targets, NEW wakes, NextWake(s, t, wakes, busy) PROVE Serial'
    <3> DEFINE b == [batch[s] EXCEPT !.todo = Left(s), !.at = t]
    <3>1. b.by = batch[s].by
      BY <2>1, FlightType DEF Batch
    <3>2. batch' = [batch EXCEPT ![s] = b] /\ UNCHANGED <<freed, running>>
      BY <2>4, <2>1, FlightType DEF NextWake, TypeOK, Batch
    <3> HIDE DEF b
    <3> QED
      BY <1>6, <2>1, <3>1, <3>2
  <2> QED
    BY <2>2, <2>3, <2>4
<1>9. ASSUME NEW s \in Slots, Hang(s) PROVE Serial'
  <2> DEFINE b == [batch[s] EXCEPT !.hung = TRUE, !.wakes = NoWakes, !.todo = NoWakes]
  <2>1. InFlight(s) /\ UNCHANGED <<handler, freed, running>>
    BY <1>9 DEF Hang
  <2>2. b.by = batch[s].by
    BY <2>1, FlightType DEF Batch
  <2>3. batch' = [batch EXCEPT ![s] = b]
    BY <1>9, <2>1, FlightType DEF Hang, TypeOK, Batch
  <2> HIDE DEF b
  <2> QED
    BY <1>6, <2>1, <2>2, <2>3
<1>10. ASSUME \/ \E r \in Requests : Request(r)
             \/ Tick \/ FireIdle \/ FireBusy \/ UNCHANGED vars
       PROVE UNCHANGED <<handler, freed, batch, running>>
  BY <1>10 DEF Request, Tick, FireIdle, FireBusy, vars
<1> QED
  BY <1>1, <1>2, <1>3, <1>4, <1>7, <1>8, <1>9, <1>10 DEF Next, Fires, Settles
-----------------------------------------------------------------------------
(* A cooldown survives a retry that is asked for, and what schedule does   *)
(* after it.                                                               *)
LEMMA CooledTimer ==
  ASSUME TypeOK, Cooling, NEW retried \in BOOLEAN
  PROVE  Cooled(retried) > 0 => /\ Again(retried) # None
                                /\ Again(retried).kind = "retry"
                                /\ Cooled(retried) <= Again(retried).left
<1> USE WakeAssumption DEF TypeOK
<1>1. CASE retried /\ timer = None
  BY <1>1, ScheduledTimer DEF Cooled, Again
<1>2. CASE retried /\ timer # None
  BY <1>2, ScheduledTimer DEF Cooled, Again, Cooling
<1>3. CASE ~retried
  BY <1>3 DEF Cooled, Again, Cooling
<1> QED
  BY <1>1, <1>2, <1>3

LEMMA FinallyCools ==
  ASSUME TypeOK, Cooling, NEW s \in Slots, InFlight(s), NEW retried \in BOOLEAN, NEW wakes,
         Finally(s, wakes, retried), cool' = Cooled(retried)
  PROVE  Cooling'
<1>1. batch[s].delay \in Nat
  BY FlightType DEF Batch
<1>2. CASE timer' = Again(retried)
  BY <1>2, CooledTimer DEF Cooling
<1>3. CASE timer' = Scheduled(Again(retried), batch[s].delay, "normal")
  <2> SUFFICES ASSUME cool' > 0 PROVE timer' = Again(retried)
    BY CooledTimer DEF Cooling
  <2>1. Again(retried) # None /\ Again(retried).kind = "retry"
    BY CooledTimer
  <2> QED
    BY <1>1, <1>3, <2>1, AgainTimer, ScheduledTimer
<1> QED
  BY <1>2, <1>3 DEF Finally

LEMMA CoolStep == TypeOK /\ Cooling /\ [Next]_vars => Cooling'
<1> SUFFICES ASSUME TypeOK, Cooling, [Next]_vars PROVE Cooling'
  OBVIOUS
<1> USE WakeAssumption
<1>0. Due => cool = 0
  BY DEF Due, Cooling, TypeOK
<1>1. ASSUME NEW r \in Requests, Request(r) PROVE Cooling'
  <2>1. r.coalesce \in Nat
    OBVIOUS
  <2>2. cool > 0 => timer' = timer
    BY <1>1, <2>1, ScheduledTimer DEF Request, Cooling, TypeOK
  <2> QED
    BY <1>1, <2>2 DEF Request, Cooling
<1>2. CASE SetHandler
  BY <1>2 DEF SetHandler, Cooling
<1>3. CASE Dispose
  BY <1>3 DEF Dispose, Cooling
<1>4. CASE Tick
  <2>1. timer \in Timer /\ timer' = [timer EXCEPT !.left = @ - 1] /\ timer.left > 0
    BY <1>4 DEF Tick, TypeOK
  <2>2. timer' \in Timer /\ timer'.kind = timer.kind /\ timer'.left = timer.left - 1
    BY <2>1 DEF Timer
  <2>3. timer' # None /\ timer.left \in Nat /\ cool \in Nat
    BY <2>1, <2>2 DEF Timer, TypeOK
  <2>4. cool' = IF cool > 0 THEN cool - 1 ELSE 0
    BY <1>4 DEF Tick
  <2> QED
    BY <2>2, <2>3, <2>4 DEF Cooling
<1>5. CASE FireIdle
  BY <1>0, <1>5 DEF FireIdle, Cooling
<1>6. CASE FireBusy
  BY <1>0, <1>6 DEF FireBusy, Cooling
<1>7. ASSUME NEW s \in Slots, NEW t \in Targets, Fire(s, t) PROVE Cooling'
  BY <1>0, <1>7 DEF Fire, Cooling
<1>8. ASSUME NEW s \in Slots, Throw(s) PROVE Cooling'
  BY <1>8, FinallyCools DEF Throw
<1>9. ASSUME NEW s \in Slots, NEW busy \in BOOLEAN, Answer(s, busy) PROVE Cooling'
  <2>1. InFlight(s) /\ cool' = Cooled(busy)
    BY <1>9 DEF Answer
  <2>2. \/ \E wakes : Finally(s, wakes, busy)
        \/ timer' = Again(busy)
    BY <1>9 DEF Answer, NextWake
  <2>3. CASE \E wakes : Finally(s, wakes, busy)
    BY <2>1, <2>3, FinallyCools
  <2>4. CASE timer' = Again(busy)
    BY <2>1, <2>4, CooledTimer DEF Cooling
  <2> QED
    BY <2>2, <2>3, <2>4
<1>10. ASSUME NEW s \in Slots, Hang(s) PROVE Cooling'
  BY <1>10 DEF Hang, Cooling
<1>11. CASE UNCHANGED vars
  BY <1>11 DEF vars, Cooling
<1> QED
  BY <1>1, <1>2, <1>3, <1>4, <1>5, <1>6, <1>7, <1>8, <1>9, <1>10, <1>11 DEF Next, Fires, Settles

-----------------------------------------------------------------------------
LEMMA InitIInv == Init => IInv
<1> SUFFICES ASSUME Init PROVE IInv
  OBVIOUS
<1>1. TypeOK
  <2>1. batch \in [Slots -> Batch \cup {None}]
    BY DEF Init
  <2>2. 0 \in 0..MaxSets /\ 0 \in 0..MaxHangs /\ handler \in {0, sets}
    BY WakeAssumption DEF Init
  <2>3. running = FALSE /\ scheduled = FALSE /\ freed = FALSE
    BY DEF Init
  <2> QED
    BY <2>1, <2>2, <2>3, NoneAtAll DEF Init, TypeOK
<1>2. NoWakeLost
  BY DEF Init, NoWakeLost, NoWakes
<1> QED
  BY <1>1, <1>2 DEF Init, IInv, Taken, Serial, Cooling

LEMMA Invariance == Spec => []IInv
<1>1. IInv /\ [Next]_vars => IInv'
  BY TypeStep, TakenStep, WakeStep, SerialStep, CoolStep DEF IInv
<1> QED
  BY <1>1, InitIInv, PTL DEF Spec

(* Every reachable state is well typed; in particular running is set only  *)
(* while a batch of the last registered handler has not settled, so that   *)
(* no batch of an earlier one blocks the scheduler.                        *)
THEOREM TypeCorrect == Spec => []TypeOK
  BY Invariance, PTL DEF IInv

(* Whatever was asked for and not handed to a handler since is pending, at *)
(* no lower priority, through merges, busy answers, throws and new         *)
(* handlers (queuePendingWakeReason and its callers).                      *)
THEOREM NoneLost == Spec => []NoWakeLost
  BY Invariance, PTL DEF IInv

(* Batches of one handler do not overlap, unless a batch of an earlier     *)
(* handler ended beside one and cleared running.                           *)
THEOREM Serialised == Spec => []OneBatch
<1>1. IInv => OneBatch
  <2> SUFFICES ASSUME IInv, handler # 0, ~freed PROVE Cardinality(Current) <= 1
    BY DEF OneBatch
  <2>1. \A s, r \in Current : s = r
    BY DEF IInv, Serial
  <2>2. Current = {} \/ \E s : Current = {s}
    BY <2>1
  <2>3. Cardinality(Current) = 0 \/ Cardinality(Current) = 1
    BY <2>2, FS_EmptySet, FS_Singleton, Zenon
  <2> QED
    BY <2>3
<1> QED
  BY <1>1, Invariance, PTL

(* No batch starts while the cooldown of a busy or failed wake lasts       *)
(* (the guards of schedule).                                               *)
THEOREM CooldownRespected == Spec => CooldownKept
<1>1. IInv /\ [Next]_vars =>
        [\A s \in Slots : batch[s] = None /\ batch'[s] # None => cool = 0]_vars
  <2> SUFFICES ASSUME IInv, Next, NEW r \in Slots, batch[r] = None, batch'[r] # None
               PROVE  cool = 0
    OBVIOUS
  <2> USE DEF IInv
  <2>1. ASSUME NEW s \in Slots, NEW t \in Targets, Fire(s, t) PROVE cool = 0
    BY <2>1 DEF Fire, Due, Cooling, TypeOK
  <2>2. ASSUME NEW s \in Slots, NEW busy \in BOOLEAN, Throw(s) \/ Answer(s, busy) PROVE FALSE
    BY <2>2, SettledBatch DEF InFlight
  <2>3. ASSUME NEW s \in Slots, Hang(s) PROVE FALSE
    BY <2>3 DEF Hang, InFlight, TypeOK
  <2>4. ASSUME \/ \E q \in Requests : Request(q)
              \/ SetHandler \/ Dispose \/ Tick \/ FireIdle \/ FireBusy
        PROVE FALSE
    BY <2>4 DEF Request, SetHandler, Dispose, Tick, FireIdle, FireBusy
  <2> QED
    BY <2>1, <2>2, <2>3, <2>4 DEF Next, Fires, Settles
<1> QED
  BY <1>1, Invariance, PTL DEF Spec, CooldownKept
=============================================================================

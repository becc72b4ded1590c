------------------------- MODULE CommandQueueProofs -------------------------
(***************************************************************************)
(* Proofs of the safety properties of CommandQueue for any lanes, calls,   *)
(* waiters and resets. Every action but a few ends in DrainLanes: it       *)
(* stages queues and slots, then pumps. Staged says what an action must    *)
(* hand to the pump, and DrainKeepsTasks and the lemmas after it say that  *)
(* the pump then re-establishes the invariant.                             *)
(***************************************************************************)
EXTENDS CommandQueue, FiniteSetTheorems, SequenceTheorems, TLAPS

Entries(q) == {q[i] : i \in 1..Len(q)}

Distinct(q) == \A i, j \in 1..Len(q) : q[i] = q[j] => i = j

-----------------------------------------------------------------------------
(* The pump loop on one queue. *)

(* The number of entries pumped lies within the queue. *)
LEMMA PumpCountType ==
  ASSUME NEW q \in Seq(Tasks), NEW a, IsFiniteSet(a), NEW m \in Nat
  PROVE  /\ PumpCount(q, a, m) \in 0..Len(q)
         /\ PumpCount(q, a, m) > 0 => Cardinality(a) + PumpCount(q, a, m) <= m
         /\ PumpCount(q, a, m) < Len(q) => Cardinality(a) + PumpCount(q, a, m) >= m
BY FS_CardinalityType DEF PumpCount, Free

(* What the pump leaves is a queue, and the entries are divided. *)
LEMMA PumpSplits ==
  ASSUME NEW q \in Seq(Tasks), NEW a, IsFiniteSet(a), NEW m \in Nat
  PROVE  /\ Left(q, a, m) \in Seq(Tasks)
         /\ Len(Left(q, a, m)) = Len(q) - PumpCount(q, a, m)
         /\ \A i \in 1..Len(Left(q, a, m)) : Left(q, a, m)[i] = q[PumpCount(q, a, m) + i]
         /\ Entries(q) = Started(q, a, m) \cup Entries(Left(q, a, m))
<1> DEFINE n == PumpCount(q, a, m)
           r == Left(q, a, m)
<1>1. n \in 0..Len(q) /\ Len(q) \in Nat
  BY PumpCountType
<1>2. /\ r \in Seq(Tasks)
      /\ Len(r) = Len(q) - n
      /\ \A i \in 1..Len(r) : r[i] = q[n + i]
  BY <1>1 DEF Left
<1>3. Entries(q) \subseteq Started(q, a, m) \cup Entries(r)
  <2> SUFFICES ASSUME NEW i \in 1..Len(q)
               PROVE  q[i] \in Started(q, a, m) \cup Entries(r)
    BY DEF Entries
  <2>1. CASE i <= n
    BY <2>1, <1>1 DEF Started
  <2>2. CASE i > n
    <3>1. i - n \in 1..Len(r) /\ n + (i - n) = i
      BY <2>2, <1>1, <1>2
    <3> QED
      BY <3>1, <1>2 DEF Entries
  <2> QED
    BY <2>1, <2>2, <1>1
<1>4. Started(q, a, m) \cup Entries(r) \subseteq Entries(q)
  <2>1. Started(q, a, m) \subseteq Entries(q)
    BY <1>1 DEF Started, Entries
  <2>2. Entries(r) \subseteq Entries(q)
    <3> SUFFICES ASSUME NEW i \in 1..Len(r) PROVE r[i] \in Entries(q)
      BY DEF Entries
    <3>1. n + i \in 1..Len(q)
      BY <1>1, <1>2
    <3> QED
      BY <3>1, <1>2 DEF Entries
  <2> QED
    BY <2>1, <2>2
<1> QED
  BY <1>2, <1>3, <1>4

(* With distinct entries, what starts does not stay, and is counted. *)
LEMMA PumpDistinct ==
  ASSUME NEW q \in Seq(Tasks), NEW a, IsFiniteSet(a), NEW m \in Nat, Distinct(q)
  PROVE  /\ Distinct(Left(q, a, m))
         /\ Started(q, a, m) \cap Entries(Left(q, a, m)) = {}
         /\ IsFiniteSet(Started(q, a, m))
         /\ Cardinality(Started(q, a, m)) = PumpCount(q, a, m)
<1> DEFINE n == PumpCount(q, a, m)
           r == Left(q, a, m)
<1>1. n \in 0..Len(q) /\ Len(q) \in Nat
  BY PumpCountType
<1>2. Len(r) = Len(q) - n /\ \A i \in 1..Len(r) : r[i] = q[n + i]
  BY PumpSplits
<1> HIDE DEF n, r
<1>3. Distinct(r)
  <2> SUFFICES ASSUME NEW i \in 1..Len(r), NEW j \in 1..Len(r), r[i] = r[j]
               PROVE  i = j
    BY DEF Distinct
  <2>1. n + i \in 1..Len(q) /\ n + j \in 1..Len(q) /\ q[n + i] = q[n + j]
    BY <1>1, <1>2
  <2>2. n + i = n + j
    BY <2>1 DEF Distinct
  <2> QED
    BY <2>2, <1>1, <1>2
<1>4. Started(q, a, m) \cap Entries(r) = {}
  <2> SUFFICES ASSUME NEW i \in 1..n, NEW j \in 1..Len(r), q[i] = r[j]
               PROVE  FALSE
    BY DEF Started, Entries, n
  <2>1. i \in 1..Len(q) /\ n + j \in 1..Len(q) /\ q[i] = q[n + j]
    BY <1>1, <1>2
  <2>2. i = n + j
    BY <2>1 DEF Distinct
  <2> QED
    BY <2>2, <1>1, <1>2
<1>5. ExistsBijection(1..n, Started(q, a, m))
  <2> DEFINE f == [i \in 1..n |-> q[i]]
  <2>1. f \in Bijection(1..n, Started(q, a, m))
    <3>1. \A i, j \in 1..n : q[i] = q[j] => i = j
      BY <1>1 DEF Distinct
    <3>2. Started(q, a, m) = {q[i] : i \in 1..n}
      BY DEF Started, n
    <3>3. f \in [1..n -> Started(q, a, m)]
      BY <3>2
    <3>4. \A t \in Started(q, a, m) : \E i \in 1..n : f[i] = t
      BY <3>2
    <3> QED
      BY <3>1, <3>3, <3>4 DEF Bijection, Injection, Surjection, IsInjective
  <2> QED
    BY <2>1 DEF ExistsBijection
<1>6. IsFiniteSet(Started(q, a, m)) /\ Cardinality(Started(q, a, m)) = n
  BY <1>5, <1>1, FS_NatBijection, FS_CountingElements
<1> QED
  BY <1>3, <1>4, <1>6 DEF n, r
(* A lane with slots a and distinct other entries q fills up to m slots    *)
(* unless q runs out, and no start takes it beyond m.                      *)
LEMMA PumpFills ==
  ASSUME NEW q \in Seq(Tasks), NEW a, IsFiniteSet(a), NEW m \in Nat, Distinct(q),
         a \cap Entries(q) = {}
  PROVE  /\ a \cap Started(q, a, m) = {}
         /\ IsFiniteSet(a \cup Started(q, a, m))
         /\ Left(q, a, m) # <<>> => Cardinality(a \cup Started(q, a, m)) >= m
         /\ Started(q, a, m) # {} => Cardinality(a \cup Started(q, a, m)) <= m
<1> DEFINE n == PumpCount(q, a, m)
           s == Started(q, a, m)
           r == Left(q, a, m)
<1>1. /\ n \in 0..Len(q) /\ Len(q) \in Nat
      /\ n > 0 => Cardinality(a) + n <= m
      /\ n < Len(q) => Cardinality(a) + n >= m
  BY PumpCountType
<1>2. r \in Seq(Tasks) /\ Len(r) = Len(q) - n /\ s \subseteq Entries(q)
  BY PumpSplits
<1>3. IsFiniteSet(s) /\ Cardinality(s) = n
  BY PumpDistinct
<1> HIDE DEF n, s, r
<1>4. a \cap s = {}
  BY <1>2
<1>5. /\ IsFiniteSet(a \cup s)
      /\ Cardinality(a \cup s) = Cardinality(a) + Cardinality(s) - Cardinality(a \cap s)
  BY <1>3, FS_Union
<1>6. Cardinality(a) \in Nat /\ Cardinality(a \cap s) = 0
  BY <1>4, FS_CardinalityType, FS_EmptySet
<1>7. Cardinality(a \cup s) = Cardinality(a) + n
  BY <1>1, <1>3, <1>5, <1>6
<1>8. ASSUME r # <<>> PROVE Cardinality(a \cup s) >= m
  <2>1. Len(r) > 0
    BY <1>2, <1>8, EmptySeq
  <2> QED
    BY <2>1, <1>1, <1>2, <1>6, <1>7
<1>9. ASSUME s # {} PROVE Cardinality(a \cup s) <= m
  <2>1. n # 0
    BY <1>3, <1>9, FS_EmptySet
  <2> QED
    BY <2>1, <1>1, <1>6, <1>7
<1> QED
  BY <1>4, <1>5, <1>8, <1>9 DEF n, s, r

-----------------------------------------------------------------------------
(* The inductive invariant. Beside what the runs check it says where a     *)
(* task may be: entries of a queue are distinct, belong to the lane, and   *)
(* have not started; a running task has started in a generation that is    *)
(* not in the future; a caller that waits has a queued or a running task.  *)

FiniteSlots == \A l \in Lanes : IsFiniteSet(active[l])

QueueInv ==
  \A l \in Lanes : /\ Distinct(queue[l])
                   /\ \A t \in Entries(queue[l]) : /\ LaneOf[t] = l
                                                   /\ outcome[t] = "pending"
                                                   /\ taskGeneration[t] = -1

RunInv ==
  \A t \in running : /\ outcome[t] \in {"pending", "timedOut"}
                     /\ taskGeneration[t] \in 0..generation[LaneOf[t]]

CallInv ==
  \A t \in Tasks :
    /\ outcome[t] = "pending" => t \in Entries(queue[LaneOf[t]]) \cup running
    /\ outcome[t] = "uncalled" => taskGeneration[t] = -1

Core == FiniteSlots /\ QueueInv /\ RunInv /\ CallInv /\ ActiveExact /\ NoIdleBacklog

IInv == TypeOK /\ Core /\ WaiterSound

(* What an action hands to the pump of the lanes in S: the conjuncts of    *)
(* the invariant for staged queues qs, staged slots as and the tasks that  *)
(* go on, and a backlog only in the lanes that are pumped.                 *)
StagedQueues(qs) ==
  /\ qs \in [Lanes -> Seq(Tasks)]
  /\ \A l \in Lanes : /\ Distinct(qs[l])
                      /\ \A t \in Entries(qs[l]) : /\ LaneOf[t] = l
                                                   /\ outcome'[t] = "pending"
                                                   /\ taskGeneration[t] = -1

StagedRun(ended) ==
  \A t \in running \ ended : /\ outcome'[t] \in {"pending", "timedOut"}
                             /\ taskGeneration[t] \in 0..generation'[LaneOf[t]]

StagedCalls(qs, ended) ==
  \A t \in Tasks :
    /\ outcome'[t] = "pending" => t \in Entries(qs[LaneOf[t]]) \cup (running \ ended)
    /\ outcome'[t] = "uncalled" => taskGeneration[t] = -1

StagedSlots(as, ended) ==
  \A l \in Lanes :
    /\ IsFiniteSet(as[l])
    /\ as[l] = {t \in running \ ended : /\ LaneOf[t] = l
                                        /\ taskGeneration[t] = generation'[l]
                                        /\ outcome'[t] = "pending"}

StagedBacklog(S, qs, as) ==
  \A l \in Lanes \ S : qs[l] # <<>> => Cardinality(as[l]) >= maxConcurrent'[l]

Staged(S, qs, as, ended) ==
  /\ S \subseteq Lanes
  /\ StagedQueues(qs)
  /\ StagedRun(ended)
  /\ StagedCalls(qs, ended)
  /\ StagedSlots(as, ended)
  /\ StagedBacklog(S, qs, as)

(* Types of what the action itself changes. *)
TypesAhead ==
  /\ maxConcurrent' \in [Lanes -> Nat \ {0}]
  /\ generation' \in [Lanes -> Nat]
  /\ outcome' \in [Tasks -> Outcomes]

(* The pump of one lane: it divides the entries, fills the lane unless     *)
(* the queue runs out, and does not overfill it.                           *)
LEMMA PumpLane ==
  ASSUME TypeOK, TypesAhead, NEW S, NEW qs, NEW as, NEW ended,
         Staged(S, qs, as, ended), DrainLanes(S, qs, as, ended), NEW l \in Lanes
  PROVE  /\ queue'[l] \in Seq(Tasks)
         /\ Distinct(queue'[l])
         /\ Entries(qs[l]) = StartedIn(S, qs, as, l) \cup Entries(queue'[l])
         /\ StartedIn(S, qs, as, l) \cap Entries(queue'[l]) = {}
         /\ active'[l] = as[l] \cup StartedIn(S, qs, as, l)
         /\ IsFiniteSet(active'[l])
         /\ queue'[l] # <<>> => Cardinality(active'[l]) >= maxConcurrent'[l]
         /\ StartedIn(S, qs, as, l) # {} => Cardinality(active'[l]) <= maxConcurrent'[l]
<1>1. /\ qs[l] \in Seq(Tasks)
      /\ IsFiniteSet(as[l])
      /\ maxConcurrent'[l] \in Nat
      /\ generation'[l] \in Nat
      /\ Distinct(qs[l])
      /\ active'[l] = as[l] \cup StartedIn(S, qs, as, l)
  BY DEF Staged, StagedQueues, StagedSlots, TypesAhead, DrainLanes
<1>2. as[l] \cap Entries(qs[l]) = {}
  <2> SUFFICES ASSUME NEW t \in as[l], t \in Entries(qs[l]) PROVE FALSE
    OBVIOUS
  <2>1. t \in running \ ended /\ LaneOf[t] = l
    BY DEF Staged, StagedSlots
  <2>2. taskGeneration[t] \in 0..generation'[l]
    BY <2>1 DEF Staged, StagedRun
  <2>3. taskGeneration[t] = -1
    BY DEF Staged, StagedQueues
  <2> QED
    BY <1>1, <2>2, <2>3
<1>3. CASE l \in S
  <2>1. /\ StartedIn(S, qs, as, l) = Started(qs[l], as[l], maxConcurrent'[l])
        /\ queue'[l] = Left(qs[l], as[l], maxConcurrent'[l])
    BY <1>3 DEF StartedIn, DrainLanes
  <2> DEFINE st == Started(qs[l], as[l], maxConcurrent'[l])
             rest == Left(qs[l], as[l], maxConcurrent'[l])
  <2>2. rest \in Seq(Tasks) /\ Entries(qs[l]) = st \cup Entries(rest)
    <3>1. \A m \in Nat : /\ Left(qs[l], as[l], m) \in Seq(Tasks)
                         /\ Entries(qs[l]) = Started(qs[l], as[l], m)
                                                \cup Entries(Left(qs[l], as[l], m))
      BY <1>1, PumpSplits
    <3> QED
      BY <1>1, <3>1
  <2>3. Distinct(rest) /\ st \cap Entries(rest) = {}
    BY <1>1, PumpDistinct
  <2>4. /\ IsFiniteSet(as[l] \cup st)
        /\ rest # <<>> => Cardinality(as[l] \cup st) >= maxConcurrent'[l]
        /\ st # {} => Cardinality(as[l] \cup st) <= maxConcurrent'[l]
    BY <1>1, <1>2, PumpFills
  <2> HIDE DEF st, rest
  <2>5. StartedIn(S, qs, as, l) = st /\ queue'[l] = rest
    BY <2>1 DEF st, rest
  <2> QED
    BY <1>1, <2>2, <2>3, <2>4, <2>5
<1>4. CASE l \notin S
  <2>1. StartedIn(S, qs, as, l) = {} /\ queue'[l] = qs[l]
    BY <1>4 DEF StartedIn, DrainLanes
  <2>2. qs[l] # <<>> => Cardinality(as[l]) >= maxConcurrent'[l]
    BY <1>4 DEF Staged, StagedBacklog
  <2> QED
    BY <1>1, <2>1, <2>2
<1> QED
  BY <1>3, <1>4

(* A pump started from a staged state re-establishes the invariant. *)
LEMMA DrainKeeps ==
  ASSUME TypeOK, TypesAhead, NEW S, NEW qs, NEW as, NEW ended,
         Staged(S, qs, as, ended), DrainLanes(S, qs, as, ended)
  PROVE  /\ Core'
         /\ queue' \in [Lanes -> Seq(Tasks)]
         /\ active' \in [Lanes -> SUBSET Tasks]
         /\ taskGeneration' \in [Tasks -> Nat \cup {-1}]
         /\ running' \subseteq Tasks
<1> DEFINE new == [l \in Lanes |-> StartedIn(S, qs, as, l)]
           keep == running \ ended
<1> USE LanesAssumption
<1>1. \A l \in Lanes : /\ queue'[l] \in Seq(Tasks)
                       /\ Distinct(queue'[l])
                       /\ Entries(qs[l]) = new[l] \cup Entries(queue'[l])
                       /\ new[l] \cap Entries(queue'[l]) = {}
                       /\ active'[l] = as[l] \cup new[l]
                       /\ IsFiniteSet(active'[l])
                       /\ queue'[l] # <<>> => Cardinality(active'[l]) >= maxConcurrent'[l]
  BY PumpLane
<1>2. \A l \in Lanes : Entries(qs[l]) \subseteq Tasks
  BY DEF Staged, StagedQueues, Entries
<1>3. \A l \in Lanes : \A t \in new[l] : /\ t \in Tasks
                                         /\ LaneOf[t] = l
                                         /\ outcome'[t] = "pending"
                                         /\ taskGeneration[t] = -1
                                         /\ t \notin Entries(queue'[l])
  BY <1>1, <1>2 DEF Staged, StagedQueues
<1>4. running' = keep \cup UNION {new[l] : l \in Lanes}
  BY DEF DrainLanes
<1>5. \A t \in Tasks : /\ t \in new[LaneOf[t]] => taskGeneration'[t] = generation'[LaneOf[t]]
                       /\ t \notin new[LaneOf[t]] => taskGeneration'[t] = taskGeneration[t]
  BY DEF DrainLanes
<1>7. \A t \in Tasks : LaneOf[t] \in Lanes /\ generation'[LaneOf[t]] \in Nat
  BY DEF TypesAhead
<1>6. \A t \in keep : /\ t \in Tasks
                      /\ t \notin new[LaneOf[t]]
                      /\ outcome'[t] \in {"pending", "timedOut"}
                      /\ taskGeneration[t] \in 0..generation'[LaneOf[t]]
                      /\ taskGeneration'[t] = taskGeneration[t]
  <2> SUFFICES ASSUME NEW t \in keep
               PROVE  /\ t \in Tasks
                      /\ t \notin new[LaneOf[t]]
                      /\ outcome'[t] \in {"pending", "timedOut"}
                      /\ taskGeneration[t] \in 0..generation'[LaneOf[t]]
                      /\ taskGeneration'[t] = taskGeneration[t]
    OBVIOUS
  <2>1. t \in Tasks /\ LaneOf[t] \in Lanes
    BY DEF TypeOK
  <2>2. /\ outcome'[t] \in {"pending", "timedOut"}
        /\ taskGeneration[t] \in 0..generation'[LaneOf[t]]
    BY DEF Staged, StagedRun
  <2>3. t \notin new[LaneOf[t]]
    <3> SUFFICES ASSUME t \in new[LaneOf[t]] PROVE FALSE
      OBVIOUS
    <3>1. taskGeneration[t] = -1
      BY <2>1, <1>3
    <3>2. generation'[LaneOf[t]] \in Nat
      BY <2>1, <1>7
    <3> HIDE DEF new, keep
    <3> QED
      BY <3>1, <3>2, <2>2
  <2> QED
    BY <2>1, <2>2, <2>3, <1>5
<1>8. \A l \in Lanes : \A t : t \in as[l] <=> /\ t \in keep
                                             /\ LaneOf[t] = l
                                             /\ taskGeneration[t] = generation'[l]
                                             /\ outcome'[t] = "pending"
  BY DEF Staged, StagedSlots
<1> HIDE DEF new, keep
<1>19. \A l \in Lanes : \A t : t \in active'[l] <=> t \in as[l] \/ t \in new[l]
  BY <1>1
<1>9. queue' \in [Lanes -> Seq(Tasks)]
  BY <1>1 DEF DrainLanes
<1>10. running' \subseteq Tasks
  BY <1>3, <1>4, <1>6
<1>11. active' \in [Lanes -> SUBSET Tasks]
  <2>1. \A l \in Lanes : active'[l] \subseteq Tasks
    BY <1>3, <1>6, <1>8, <1>19
  <2>2. active' = [l \in Lanes |-> active'[l]]
    BY DEF DrainLanes
  <2> QED
    BY <2>1, <2>2
<1>12. taskGeneration' \in [Tasks -> Nat \cup {-1}]
  <2>1. \A t \in Tasks : taskGeneration'[t] \in Nat \cup {-1}
    BY <1>5, <1>7 DEF TypeOK
  <2>2. taskGeneration' = [t \in Tasks |-> taskGeneration'[t]]
    BY DEF DrainLanes
  <2> QED
    BY <2>1, <2>2
<1>13. FiniteSlots'
  BY <1>1 DEF FiniteSlots
<1>14. QueueInv'
  <2> SUFFICES ASSUME NEW l \in Lanes, NEW t \in Entries(queue'[l])
               PROVE  LaneOf[t] = l /\ outcome'[t] = "pending" /\ taskGeneration'[t] = -1
    <3>1. \A k \in Lanes : Distinct(queue'[k])
      BY <1>1
    <3> QED
      BY <3>1 DEF QueueInv, Distinct, Entries
  <2>1. t \in Entries(qs[l]) /\ t \notin new[l]
    BY <1>1, <1>3
  <2>2. LaneOf[t] = l /\ outcome'[t] = "pending" /\ taskGeneration[t] = -1 /\ t \in Tasks
    BY <2>1, <1>2 DEF Staged, StagedQueues
  <2> QED
    BY <2>1, <2>2, <1>5
<1>15. RunInv'
  <2> SUFFICES ASSUME NEW t \in running'
               PROVE  /\ outcome'[t] \in {"pending", "timedOut"}
                      /\ taskGeneration'[t] \in 0..generation'[LaneOf[t]]
    BY DEF RunInv
  <2>1. CASE t \in keep
    BY <2>1, <1>6
  <2>2. CASE t \in UNION {new[l] : l \in Lanes}
    <3>1. t \in Tasks /\ t \in new[LaneOf[t]] /\ outcome'[t] = "pending"
      BY <2>2, <1>3
    <3> QED
      BY <3>1, <1>5, <1>7
  <2> QED
    BY <2>1, <2>2, <1>4
<1>16. CallInv'
  <2> SUFFICES ASSUME NEW t \in Tasks
               PROVE  /\ outcome'[t] = "pending" => t \in Entries(queue'[LaneOf[t]]) \cup running'
                      /\ outcome'[t] = "uncalled" => taskGeneration'[t] = -1
    BY DEF CallInv, Entries
  <2>1. outcome'[t] = "pending" => t \in Entries(qs[LaneOf[t]]) \cup keep
    BY DEF Staged, StagedCalls, keep
  <2>2. Entries(qs[LaneOf[t]]) = new[LaneOf[t]] \cup Entries(queue'[LaneOf[t]])
    BY <1>1, <1>7
  <2>3. outcome'[t] = "pending" => t \in Entries(queue'[LaneOf[t]]) \cup running'
    BY <2>1, <2>2, <1>4, <1>7
  <2>4. outcome'[t] = "uncalled" => taskGeneration[t] = -1 /\ t \notin new[LaneOf[t]]
    BY <1>3, <1>7 DEF Staged, StagedCalls
  <2> QED
    BY <2>3, <2>4, <1>5
<1>17. ActiveExact'
  <2> SUFFICES ASSUME NEW l \in Lanes
               PROVE  active'[l] = {t \in running' : /\ LaneOf[t] = l
                                                     /\ taskGeneration'[t] = generation'[LaneOf[t]]
                                                     /\ outcome'[t] = "pending"}
    BY DEF ActiveExact, CurrentGeneration
  <2>1. ASSUME NEW t \in active'[l]
        PROVE  /\ t \in running' /\ LaneOf[t] = l
               /\ taskGeneration'[t] = generation'[LaneOf[t]] /\ outcome'[t] = "pending"
    <3>1. CASE t \in as[l]
      <4>1. /\ t \in keep /\ LaneOf[t] = l /\ outcome'[t] = "pending"
            /\ taskGeneration[t] = generation'[l]
        BY <3>1, <1>8
      <4>2. t \in running'
        BY <4>1, <1>4
      <4>3. taskGeneration'[t] = taskGeneration[t]
        BY <4>1, <1>6
      <4> QED
        BY <4>1, <4>2, <4>3
    <3>2. CASE t \in new[l]
      BY <3>2, <1>3, <1>4, <1>5
    <3> QED
      BY <2>1, <3>1, <3>2, <1>19
  <2>2. ASSUME NEW t \in running', LaneOf[t] = l,
               taskGeneration'[t] = generation'[LaneOf[t]], outcome'[t] = "pending"
        PROVE  t \in active'[l]
    <3>1. CASE t \in keep
      BY <3>1, <2>2, <1>6, <1>8, <1>19
    <3>2. CASE t \in UNION {new[k] : k \in Lanes}
      <4>1. PICK k \in Lanes : t \in new[k]
        BY <3>2
      <4>2. k = l
        BY <4>1, <2>2, <1>3
      <4> QED
        BY <4>1, <4>2, <1>19
    <3> QED
      BY <3>1, <3>2, <1>4
  <2> QED
    BY <2>1, <2>2
<1>18. NoIdleBacklog'
  BY <1>1 DEF NoIdleBacklog
<1> QED
  BY <1>9, <1>10, <1>11, <1>12, <1>13, <1>14, <1>15, <1>16, <1>17, <1>18 DEF Core
-----------------------------------------------------------------------------
(* What a step of the queue has to keep, and the lemmas its actions share. *)

Caps == \A l \in Lanes : ~(active'[l] \subseteq active[l]) =>
                            Cardinality(active'[l]) <= maxConcurrent'[l]

LEMMA DrainCaps ==
  ASSUME TypeOK, TypesAhead, NEW S, NEW qs, NEW as, NEW ended,
         Staged(S, qs, as, ended), DrainLanes(S, qs, as, ended),
         \A l \in Lanes : as[l] \subseteq active[l]
  PROVE  Caps
<1> SUFFICES ASSUME NEW l \in Lanes, ~(active'[l] \subseteq active[l])
             PROVE  Cardinality(active'[l]) <= maxConcurrent'[l]
  BY DEF Caps
<1>1. active'[l] = as[l] \cup StartedIn(S, qs, as, l)
  BY PumpLane
<1>2. StartedIn(S, qs, as, l) # {} => Cardinality(active'[l]) <= maxConcurrent'[l]
  BY PumpLane
<1>3. as[l] \subseteq active[l]
  OBVIOUS
<1> QED
  BY <1>1, <1>2, <1>3

LEMMA DrainGrows ==
  ASSUME NEW S, NEW qs, NEW as, NEW ended, DrainLanes(S, qs, as, ended)
  PROVE  \A l \in Lanes : as[l] \subseteq active'[l]
BY DEF DrainLanes

(* After a notification no waiter waits for tasks no lane holds. *)
LEMMA NotifySound ==
  ASSUME TypeOK, NotifyActiveTaskWaiters
  PROVE  /\ waiter' \in [Waiters -> [status : WaitStatus, ids : SUBSET Tasks, timed : BOOLEAN]]
         /\ WaiterSound'
<1>1. \A w \in Waiters :
        /\ waiter'[w] \in [status : WaitStatus, ids : SUBSET Tasks, timed : BOOLEAN]
        /\ waiter'[w].status = "waiting" => HasPendingActiveTasks(waiter'[w].ids, active')
  BY DEF TypeOK, NotifyActiveTaskWaiters, WaitStatus
<1>2. waiter' = [w \in Waiters |-> waiter'[w]]
  BY DEF NotifyActiveTaskWaiters
<1>3. waiter' \in [Waiters -> [status : WaitStatus, ids : SUBSET Tasks, timed : BOOLEAN]]
  BY <1>1, <1>2
<1>4. WaiterSound'
  BY <1>1 DEF WaiterSound, HasPendingActiveTasks, ActiveAnywhere
<1> QED
  BY <1>3, <1>4

(* Waiters need no notification while slots are only taken. *)
LEMMA WaitersKeep ==
  ASSUME WaiterSound, waiter' = waiter, \A l \in Lanes : active[l] \subseteq active'[l]
  PROVE  WaiterSound'
<1>1. ActiveAnywhere(active) \subseteq ActiveAnywhere(active')
  BY DEF ActiveAnywhere
<1> QED
  BY <1>1 DEF WaiterSound, HasPendingActiveTasks, ActiveAnywhere

LEMMA EntriesType ==
  ASSUME NEW q \in Seq(Tasks)
  PROVE  Entries(q) \subseteq Tasks
BY DEF Entries

LEMMA PushedEntries ==
  ASSUME NEW q \in Seq(Tasks), NEW t \in Tasks
  PROVE  /\ Pushed(q, t) \in Seq(Tasks)
         /\ Entries(Pushed(q, t)) = Entries(q) \cup {t}
         /\ Distinct(q) /\ t \notin Entries(q) => Distinct(Pushed(q, t))
<1>1. /\ Append(q, t) \in Seq(Tasks)
      /\ Len(q) \in Nat
      /\ Len(Append(q, t)) = Len(q) + 1
      /\ \A i \in 1..Len(q) : Append(q, t)[i] = q[i]
      /\ Append(q, t)[Len(q) + 1] = t
  OBVIOUS
<1> DEFINE r == Append(q, t)
<1> HIDE DEF r
<1>2. Entries(r) = Entries(q) \cup {t}
  <2>1. \A i \in 1..Len(r) : r[i] \in Entries(q) \cup {t}
    BY <1>1 DEF Entries, r
  <2>2. \A i \in 1..Len(q) : q[i] \in Entries(r)
    BY <1>1 DEF Entries, r
  <2>3. t \in Entries(r)
    BY <1>1 DEF Entries, r
  <2> QED
    BY <2>1, <2>2, <2>3 DEF Entries
<1>3. ASSUME Distinct(q), t \notin Entries(q) PROVE Distinct(r)
  BY <1>1, <1>3 DEF Distinct, Entries, r
<1> QED
  BY <1>1, <1>2, <1>3 DEF Pushed, r
-----------------------------------------------------------------------------
(* One lemma per operation that pumps. *)

LEMMA EnqueueKeeps ==
  ASSUME IInv, NEW t \in Tasks, Enqueue(t)
  PROVE  IInv' /\ Caps
<1> DEFINE l == LaneOf[t]
           qs == [queue EXCEPT ![l] = Pushed(@, t)]
<1> USE LanesAssumption DEF IInv, Core
<1>1. /\ l \in Lanes
      /\ outcome[t] = "uncalled"
      /\ outcome' = [outcome EXCEPT ![t] = "pending"]
      /\ UNCHANGED <<maxConcurrent, generation, gatewayDraining, waiter>>
      /\ arrived' = [arrived EXCEPT ![l] = Append(@, t)]
      /\ DrainLanes({l}, qs, active, {})
  BY DEF Enqueue
<1>2. TypesAhead
  BY <1>1 DEF TypesAhead, TypeOK, Outcomes
<1>3. t \notin running /\ taskGeneration[t] = -1
  BY <1>1 DEF RunInv, CallInv
<1>4. \A k \in Lanes : t \notin Entries(queue[k])
  BY <1>1 DEF QueueInv
<1>5. \A k \in Lanes : /\ qs[k] \in Seq(Tasks)
                       /\ Distinct(qs[k])
                       /\ k # l => qs[k] = queue[k]
                       /\ Entries(qs[k]) = Entries(queue[k]) \cup (IF k = l THEN {t} ELSE {})
  <2> SUFFICES ASSUME NEW k \in Lanes
               PROVE  /\ qs[k] \in Seq(Tasks)
                      /\ Distinct(qs[k])
                      /\ k # l => qs[k] = queue[k]
                      /\ Entries(qs[k]) = Entries(queue[k]) \cup (IF k = l THEN {t} ELSE {})
    OBVIOUS
  <2>1. queue[k] \in Seq(Tasks) /\ Distinct(queue[k]) /\ t \notin Entries(queue[k])
    BY <1>4 DEF TypeOK, QueueInv
  <2>2. qs[k] = IF k = l THEN Pushed(queue[k], t) ELSE queue[k]
    BY DEF TypeOK
  <2> HIDE DEF qs
  <2> QED
    BY <2>1, <2>2, PushedEntries
<1>6. Staged({l}, qs, active, {})
  <2>1. StagedQueues(qs)
    <3>1. qs \in [Lanes -> Seq(Tasks)]
      BY <1>5 DEF TypeOK
    <3>2. \A k \in Lanes : \A u \in Entries(qs[k]) :
            LaneOf[u] = k /\ outcome'[u] = "pending" /\ taskGeneration[u] = -1
      <4> SUFFICES ASSUME NEW k \in Lanes, NEW u \in Entries(qs[k])
                   PROVE  LaneOf[u] = k /\ outcome'[u] = "pending" /\ taskGeneration[u] = -1
        OBVIOUS
      <4>1. CASE u = t
        <5>1. k = l
          BY <4>1, <1>4, <1>5
        <5> QED
          BY <5>1, <4>1, <1>1, <1>3 DEF TypeOK
      <4>2. CASE u # t
        <5>1. u \in Entries(queue[k])
          BY <4>2, <1>5
        <5>2. u \in Tasks
          BY <5>1, EntriesType DEF TypeOK
        <5> QED
          BY <5>1, <5>2, <4>2, <1>1 DEF QueueInv, TypeOK
      <4> QED
        BY <4>1, <4>2
    <3> QED
      BY <3>1, <3>2, <1>5 DEF StagedQueues
  <2>2. StagedRun({})
    BY <1>1, <1>3 DEF StagedRun, RunInv, TypeOK
  <2>3. StagedCalls(qs, {})
    <3> SUFFICES ASSUME NEW u \in Tasks
                 PROVE  /\ outcome'[u] = "pending" =>
                             u \in Entries(qs[LaneOf[u]]) \cup (running \ {})
                        /\ outcome'[u] = "uncalled" => taskGeneration[u] = -1
      BY DEF StagedCalls
    <3>1. LaneOf[u] \in Lanes
      OBVIOUS
    <3>2. CASE u = t
      <4>1. outcome'[u] = "pending"
        BY <3>2, <1>1 DEF TypeOK
      <4>2. t \in Entries(qs[l])
        <5> HIDE DEF qs
        <5> QED
          BY <1>1, <1>5
      <4> HIDE DEF qs
      <4> QED
        BY <3>2, <4>1, <4>2
    <3>3. CASE u # t
      <4>1. outcome'[u] = outcome[u]
        BY <3>3, <1>1 DEF TypeOK
      <4>2. Entries(queue[LaneOf[u]]) \subseteq Entries(qs[LaneOf[u]])
        BY <3>1, <1>5
      <4> HIDE DEF qs
      <4> QED
        BY <4>1, <4>2 DEF CallInv
    <3> QED
      BY <3>2, <3>3
  <2>4. StagedSlots(active, {})
    <3>1. \A u \in running : outcome'[u] = outcome[u]
      BY <1>1, <1>3 DEF TypeOK
    <3> QED
      BY <3>1, <1>1 DEF StagedSlots, FiniteSlots, ActiveExact, CurrentGeneration
  <2>5. StagedBacklog({l}, qs, active)
    BY <1>1, <1>5 DEF StagedBacklog, NoIdleBacklog
  <2> QED
    BY <1>1, <2>1, <2>2, <2>3, <2>4, <2>5 DEF Staged
<1> HIDE DEF qs, IInv, Core
<1>7. TypeOK
  BY DEF IInv
<1>8. /\ Core'
      /\ queue' \in [Lanes -> Seq(Tasks)]
      /\ active' \in [Lanes -> SUBSET Tasks]
      /\ taskGeneration' \in [Tasks -> Nat \cup {-1}]
      /\ running' \subseteq Tasks
  BY <1>1, <1>2, <1>6, <1>7, DrainKeeps
<1>9. Caps
  BY <1>1, <1>2, <1>6, <1>7, DrainCaps
<1>10. TypeOK'
  <2>1. arrived' \in [Lanes -> Seq(Tasks)]
    BY <1>1, <1>7 DEF TypeOK
  <2> QED
    BY <1>1, <1>2, <1>7, <1>8, <2>1 DEF TypeOK, TypesAhead
<1>11. WaiterSound'
  <2>1. WaiterSound /\ waiter' = waiter
    BY <1>1 DEF IInv
  <2>2. \A k \in Lanes : active[k] \subseteq active'[k]
    BY <1>1, DrainGrows
  <2> QED
    BY <2>1, <2>2, WaitersKeep
<1> QED
  BY <1>8, <1>9, <1>10, <1>11 DEF IInv

(* A task is over for its lane, whether its promise settled or timed out. *)
LEMMA CompleteKeeps ==
  ASSUME IInv, NEW t \in running, outcome[t] = "pending", NEW result, NEW ended,
         \/ result = "settled" /\ ended = {t}
         \/ result = "timedOut" /\ ended = {},
         CompleteTask(t, result, ended)
  PROVE  IInv' /\ Caps
<1> DEFINE l == LaneOf[t]
           S == IF CurrentGeneration(t) THEN {l} ELSE {}
           as == IF CurrentGeneration(t) THEN SlotsWithout(t) ELSE active
<1> USE LanesAssumption
<1>1. TypeOK /\ Core /\ WaiterSound
  BY DEF IInv
<1>2. t \in Tasks /\ l \in Lanes
  BY <1>1 DEF TypeOK
<1>3. /\ outcome' = [outcome EXCEPT ![t] = result]
      /\ UNCHANGED <<maxConcurrent, generation, gatewayDraining, arrived>>
      /\ DrainLanes(S, queue, as, ended)
  BY DEF CompleteTask
<1>4. TypesAhead
  BY <1>1, <1>2, <1>3 DEF TypesAhead, TypeOK, Outcomes
<1>5. /\ outcome'[t] = result
      /\ \A u \in Tasks : u # t => outcome'[u] = outcome[u]
  BY <1>1, <1>2, <1>3 DEF TypeOK
<1>6. taskGeneration[t] # -1 /\ \A k \in Lanes : t \notin Entries(queue[k])
  <2>1. taskGeneration[t] \in 0..generation[l] /\ generation[l] \in Nat
    BY <1>1, <1>2 DEF Core, RunInv, TypeOK
  <2>2. taskGeneration[t] # -1
    BY <2>1
  <2> QED
    BY <2>2, <1>1 DEF Core, QueueInv
<1>7. \A k \in Lanes : as[k] = active[k] \ {t}
  <2> SUFFICES ASSUME NEW k \in Lanes PROVE as[k] = active[k] \ {t}
    OBVIOUS
  <2>1. \A u : u \in active[k] <=> /\ u \in running /\ LaneOf[u] = k
                                   /\ CurrentGeneration(u) /\ outcome[u] = "pending"
    BY <1>1 DEF Core, ActiveExact
  <2>2. CASE ~CurrentGeneration(t)
    BY <2>1, <2>2
  <2>3. CASE CurrentGeneration(t)
    <3>1. as[k] = IF k = l THEN active[k] \ {t} ELSE active[k]
      BY <2>3, <1>1 DEF SlotsWithout, TypeOK
    <3> QED
      BY <3>1, <2>1
  <2> QED
    BY <2>2, <2>3
<1>8. S \subseteq Lanes /\ \A k \in Lanes \ S : t \notin active[k]
  BY <1>1, <1>2 DEF Core, ActiveExact
<1> HIDE DEF as, S, l
<1>9. Staged(S, queue, as, ended)
  <2>1. StagedQueues(queue)
    <3>1. \A k \in Lanes : Entries(queue[k]) \subseteq Tasks
      BY <1>1, EntriesType DEF TypeOK
    <3>2. \A k \in Lanes : \A u \in Entries(queue[k]) : outcome'[u] = outcome[u]
      BY <3>1, <1>5, <1>6
    <3> QED
      BY <1>1, <3>2 DEF StagedQueues, TypeOK, Core, QueueInv
  <2>2. StagedRun(ended)
    BY <1>1, <1>3, <1>5 DEF StagedRun, Core, RunInv, TypeOK
  <2>3. StagedCalls(queue, ended)
    BY <1>1, <1>5 DEF StagedCalls, Core, CallInv
  <2>4. StagedSlots(as, ended)
    <3> SUFFICES ASSUME NEW k \in Lanes
                 PROVE  /\ IsFiniteSet(as[k])
                        /\ as[k] = {u \in running \ ended : /\ LaneOf[u] = k
                                                            /\ taskGeneration[u] = generation'[k]
                                                            /\ outcome'[u] = "pending"}
      BY DEF StagedSlots
    <3>1. IsFiniteSet(as[k])
      <4>1. IsFiniteSet(active[k])
        BY <1>1 DEF Core, FiniteSlots
      <4>2. IsFiniteSet(active[k] \ {t})
        BY <4>1, FS_RemoveElement
      <4>3. as[k] = active[k] \ {t}
        BY <1>7
      <4> QED
        BY <4>2, <4>3
    <3>2. \A u : u \in active[k] <=> /\ u \in running /\ LaneOf[u] = k
                                     /\ taskGeneration[u] = generation[k]
                                     /\ outcome[u] = "pending"
      BY <1>1 DEF Core, ActiveExact, CurrentGeneration
    <3>3. running \subseteq Tasks
      BY <1>1 DEF TypeOK
    <3> QED
      BY <3>1, <3>2, <3>3, <1>3, <1>5, <1>7
  <2>5. StagedBacklog(S, queue, as)
    <3> SUFFICES ASSUME NEW k \in Lanes \ S, queue[k] # <<>>
                 PROVE  Cardinality(as[k]) >= maxConcurrent'[k]
      BY DEF StagedBacklog
    <3>1. as[k] = active[k]
      <4>1. as[k] = active[k] \ {t} /\ t \notin active[k]
        BY <1>7, <1>8
      <4> QED
        BY <4>1
    <3> QED
      BY <3>1, <1>1, <1>3 DEF Core, NoIdleBacklog
  <2> QED
    BY <1>8, <2>1, <2>2, <2>3, <2>4, <2>5 DEF Staged
<1>10. /\ Core'
       /\ queue' \in [Lanes -> Seq(Tasks)]
       /\ active' \in [Lanes -> SUBSET Tasks]
       /\ taskGeneration' \in [Tasks -> Nat \cup {-1}]
       /\ running' \subseteq Tasks
  BY <1>1, <1>3, <1>4, <1>9, DrainKeeps
<1>11. Caps
  <2>1. \A k \in Lanes : as[k] \subseteq active[k]
    BY <1>7
  <2> QED
    BY <1>1, <1>3, <1>4, <1>9, <2>1, DrainCaps
<1>12. /\ waiter' \in [Waiters -> [status : WaitStatus, ids : SUBSET Tasks, timed : BOOLEAN]]
       /\ WaiterSound'
  <2>1. CASE CurrentGeneration(t)
    <3>1. NotifyActiveTaskWaiters
      BY <2>1 DEF CompleteTask
    <3> QED
      BY <3>1, <1>1, NotifySound
  <2>2. CASE ~CurrentGeneration(t)
    <3>1. waiter' = waiter /\ DrainLanes({}, queue, active, ended)
      BY <2>2 DEF CompleteTask
    <3>2. \A k \in Lanes : active[k] \subseteq active'[k]
      BY <3>1, DrainGrows
    <3>3. WaiterSound'
      BY <3>1, <3>2, <1>1, WaitersKeep
    <3> QED
      BY <3>1, <3>3, <1>1 DEF TypeOK
  <2> QED
    BY <2>1, <2>2
<1>13. TypeOK'
  BY <1>1, <1>3, <1>4, <1>10, <1>12 DEF TypeOK, TypesAhead
<1> QED
  BY <1>10, <1>11, <1>12, <1>13 DEF IInv

(* A cap changes and the lane is pumped under the new one. *)
LEMMA SetConcurrencyKeeps ==
  ASSUME IInv, NEW l \in Lanes, NEW n \in Int, SetCommandLaneConcurrency(l, n)
  PROVE  IInv' /\ Caps
<1>1. TypeOK /\ Core /\ WaiterSound
  BY DEF IInv
<1>2. /\ maxConcurrent' = [maxConcurrent EXCEPT ![l] = AtLeastOne(n)]
      /\ UNCHANGED <<generation, gatewayDraining, outcome, waiter, arrived>>
      /\ DrainLanes({l}, queue, active, {})
  BY DEF SetCommandLaneConcurrency
<1>3. TypesAhead
  BY <1>1, <1>2 DEF TypesAhead, TypeOK, AtLeastOne
<1>4. Staged({l}, queue, active, {})
  <2>1. StagedQueues(queue)
    BY <1>1, <1>2 DEF StagedQueues, TypeOK, Core, QueueInv
  <2>2. StagedRun({})
    BY <1>1, <1>2 DEF StagedRun, Core, RunInv
  <2>3. StagedCalls(queue, {})
    BY <1>1, <1>2 DEF StagedCalls, Core, CallInv
  <2>4. StagedSlots(active, {})
    BY <1>1, <1>2 DEF StagedSlots, Core, FiniteSlots, ActiveExact, CurrentGeneration
  <2>5. StagedBacklog({l}, queue, active)
    BY <1>1, <1>2 DEF StagedBacklog, Core, NoIdleBacklog, TypeOK
  <2> QED
    BY <2>1, <2>2, <2>3, <2>4, <2>5 DEF Staged
<1>5. /\ Core'
      /\ queue' \in [Lanes -> Seq(Tasks)]
      /\ active' \in [Lanes -> SUBSET Tasks]
      /\ taskGeneration' \in [Tasks -> Nat \cup {-1}]
      /\ running' \subseteq Tasks
  BY <1>1, <1>2, <1>3, <1>4, DrainKeeps
<1>6. Caps
  BY <1>1, <1>2, <1>3, <1>4, DrainCaps
<1>7. WaiterSound'
  <2>1. \A k \in Lanes : active[k] \subseteq active'[k]
    BY <1>2, DrainGrows
  <2> QED
    BY <2>1, <1>1, <1>2, WaitersKeep
<1>8. TypeOK'
  BY <1>1, <1>2, <1>3, <1>5 DEF TypeOK, TypesAhead
<1> QED
  BY <1>5, <1>6, <1>7, <1>8 DEF IInv

(* A forced reset: a task of an older generation holds no slot. *)
LEMMA ResetKeeps ==
  ASSUME IInv, NEW R \in SUBSET Lanes, ResetLanes(R), gatewayDraining' \in BOOLEAN
  PROVE  IInv' /\ Caps
<1> DEFINE S == LanesToDrain(R)
           as == SlotsAfterReset(R)
<1> USE LanesAssumption
<1>1. TypeOK /\ Core /\ WaiterSound
  BY DEF IInv
<1>2. /\ generation' = [k \in Lanes |-> IF k \in R THEN generation[k] + 1 ELSE generation[k]]
      /\ UNCHANGED <<maxConcurrent, outcome, arrived>>
      /\ DrainLanes(S, queue, as, {})
      /\ NotifyActiveTaskWaiters
  BY DEF ResetLanes
<1>3. TypesAhead
  BY <1>1, <1>2 DEF TypesAhead, TypeOK
<1>4. /\ S \subseteq Lanes
      /\ \A k \in Lanes : as[k] = IF k \in R THEN {} ELSE active[k]
      /\ \A k \in Lanes \ S : k \in R => queue[k] = <<>>
  BY DEF LanesToDrain, SlotsAfterReset
<1>5. \A u \in running : /\ u \in Tasks
                         /\ LaneOf[u] \in Lanes
                         /\ generation[LaneOf[u]] \in Nat
                         /\ taskGeneration[u] \in 0..generation[LaneOf[u]]
  BY <1>1 DEF TypeOK, Core, RunInv
<1> HIDE DEF as, S
<1>6. Staged(S, queue, as, {})
  <2>1. StagedQueues(queue)
    BY <1>1, <1>2 DEF StagedQueues, TypeOK, Core, QueueInv
  <2>2. StagedRun({})
    <3> SUFFICES ASSUME NEW u \in running
                 PROVE  /\ outcome'[u] \in {"pending", "timedOut"}
                        /\ taskGeneration[u] \in 0..generation'[LaneOf[u]]
      BY DEF StagedRun
    <3>1. generation'[LaneOf[u]] \in {generation[LaneOf[u]], generation[LaneOf[u]] + 1}
      BY <1>2, <1>5
    <3> QED
      BY <3>1, <1>1, <1>2, <1>5 DEF Core, RunInv
  <2>3. StagedCalls(queue, {})
    BY <1>1, <1>2 DEF StagedCalls, Core, CallInv
  <2>4. StagedSlots(as, {})
    <3> SUFFICES ASSUME NEW k \in Lanes
                 PROVE  /\ IsFiniteSet(as[k])
                        /\ as[k] = {u \in running \ {} : /\ LaneOf[u] = k
                                                         /\ taskGeneration[u] = generation'[k]
                                                         /\ outcome'[u] = "pending"}
      BY DEF StagedSlots
    <3>1. CASE k \in R
      <4>1. generation'[k] = generation[k] + 1
        BY <3>1, <1>2
      <4>2. \A u \in running : LaneOf[u] = k => taskGeneration[u] # generation'[k]
        BY <4>1, <1>5
      <4>3. as[k] = {}
        BY <3>1, <1>4
      <4>4. IsFiniteSet(as[k])
        BY <4>3, FS_EmptySet
      <4>5. {u \in running \ {} : /\ LaneOf[u] = k
                                  /\ taskGeneration[u] = generation'[k]
                                  /\ outcome'[u] = "pending"} = {}
        BY <4>2
      <4> QED
        BY <4>3, <4>4, <4>5
    <3>2. CASE k \notin R
      <4>1. generation'[k] = generation[k]
        BY <3>2, <1>2
      <4> QED
        <5>1. as[k] = active[k] /\ outcome' = outcome
          BY <3>2, <1>2, <1>4
        <5>2. \A u : u \in active[k] <=> /\ u \in running /\ LaneOf[u] = k
                                         /\ taskGeneration[u] = generation[k]
                                         /\ outcome[u] = "pending"
          BY <1>1 DEF Core, ActiveExact, CurrentGeneration
        <5>3. IsFiniteSet(active[k])
          BY <1>1 DEF Core, FiniteSlots
        <5> QED
          BY <4>1, <5>1, <5>2, <5>3
    <3> QED
      BY <3>1, <3>2
  <2>5. StagedBacklog(S, queue, as)
    BY <1>1, <1>2, <1>4 DEF StagedBacklog, Core, NoIdleBacklog
  <2> QED
    BY <1>4, <2>1, <2>2, <2>3, <2>4, <2>5 DEF Staged
<1>7. /\ Core'
      /\ queue' \in [Lanes -> Seq(Tasks)]
      /\ active' \in [Lanes -> SUBSET Tasks]
      /\ taskGeneration' \in [Tasks -> Nat \cup {-1}]
      /\ running' \subseteq Tasks
  BY <1>1, <1>2, <1>3, <1>6, DrainKeeps
<1>8. Caps
  <2>1. \A k \in Lanes : as[k] \subseteq active[k]
    BY <1>4
  <2> QED
    BY <1>1, <1>2, <1>3, <1>6, <2>1, DrainCaps
<1>9. /\ waiter' \in [Waiters -> [status : WaitStatus, ids : SUBSET Tasks, timed : BOOLEAN]]
      /\ WaiterSound'
  BY <1>1, <1>2, NotifySound
<1>10. TypeOK'
  BY <1>1, <1>2, <1>3, <1>7, <1>9 DEF TypeOK, TypesAhead
<1> QED
  BY <1>7, <1>8, <1>9, <1>10 DEF IInv

-----------------------------------------------------------------------------
(* The operations that pump nothing. *)

(* They leave the lanes alone, and so the core of the invariant. *)
LEMMA CoreUntouched ==
  ASSUME Core, UNCHANGED <<queue, active, maxConcurrent, generation, taskGeneration,
                           running, outcome>>
  PROVE  Core' /\ Caps
<1>1. FiniteSlots'
  BY DEF Core, FiniteSlots
<1>2. QueueInv'
  BY DEF Core, QueueInv, Distinct, Entries
<1>3. RunInv'
  BY DEF Core, RunInv
<1>4. CallInv'
  BY DEF Core, CallInv, Entries
<1>5. ActiveExact'
  BY DEF Core, ActiveExact, CurrentGeneration
<1>6. NoIdleBacklog'
  BY DEF Core, NoIdleBacklog
<1> QED
  BY <1>1, <1>2, <1>3, <1>4, <1>5, <1>6 DEF Core, Caps

LEMMA EnqueueRejectedKeeps ==
  ASSUME IInv, NEW t \in Tasks, EnqueueRejected(t)
  PROVE  IInv' /\ Caps
<1>1. TypeOK /\ Core /\ WaiterSound
  BY DEF IInv
<1>2. /\ outcome[t] = "uncalled"
      /\ outcome'[t] = "draining"
      /\ \A u \in Tasks : u # t => outcome'[u] = outcome[u]
      /\ UNCHANGED <<queue, active, maxConcurrent, generation, gatewayDraining,
                     taskGeneration, running, waiter, arrived>>
  BY <1>1 DEF EnqueueRejected, TypeOK
<1>3. TypeOK'
  BY <1>1 DEF EnqueueRejected, TypeOK, Outcomes
<1>4. t \notin running /\ \A l \in Lanes : t \notin Entries(queue[l])
  BY <1>1, <1>2 DEF Core, RunInv, QueueInv
<1>5. running \subseteq Tasks /\ \A l \in Lanes : Entries(queue[l]) \subseteq Tasks
  BY <1>1, EntriesType DEF TypeOK
<1>6. \A u \in running : outcome'[u] = outcome[u]
  BY <1>2, <1>4, <1>5
<1>7. FiniteSlots' /\ NoIdleBacklog'
  BY <1>1, <1>2 DEF Core, FiniteSlots, NoIdleBacklog
<1>8. QueueInv'
  <2>1. \A l \in Lanes : \A u \in Entries(queue[l]) : outcome'[u] = outcome[u]
    BY <1>2, <1>4, <1>5
  <2>2. \A l \in Lanes : Distinct(queue[l])
    BY <1>1 DEF Core, QueueInv
  <2>3. \A l \in Lanes : \A u \in Entries(queue[l]) :
          LaneOf[u] = l /\ outcome'[u] = "pending" /\ taskGeneration[u] = -1
    BY <2>1, <1>1 DEF Core, QueueInv
  <2> QED
    BY <2>2, <2>3, <1>2 DEF QueueInv, Distinct, Entries
<1>9. RunInv'
  BY <1>1, <1>2, <1>6 DEF Core, RunInv
<1>10. CallInv'
  <2>1. \A u \in Tasks : outcome'[u] = "pending" => u \in Entries(queue[LaneOf[u]]) \cup running
    BY <1>1, <1>2 DEF Core, CallInv
  <2>2. \A u \in Tasks : outcome'[u] = "uncalled" => taskGeneration[u] = -1
    BY <1>1, <1>2 DEF Core, CallInv
  <2> QED
    BY <2>1, <2>2, <1>2 DEF CallInv, Entries
<1>11. ActiveExact'
  BY <1>1, <1>2, <1>6 DEF Core, ActiveExact, CurrentGeneration
<1>12. WaiterSound' /\ Caps
  BY <1>1, <1>2, WaitersKeep DEF Caps
<1> QED
  BY <1>3, <1>7, <1>8, <1>9, <1>10, <1>11, <1>12 DEF IInv, Core

(* A promise that lost the race settles: it held no slot any more. *)
LEMMA FinishLateKeeps ==
  ASSUME IInv, NEW t \in Tasks, FinishLate(t)
  PROVE  IInv' /\ Caps
<1>1. TypeOK /\ Core /\ WaiterSound
  BY DEF IInv
<1>2. /\ outcome[t] = "timedOut"
      /\ running' = running \ {t}
      /\ UNCHANGED <<queue, active, maxConcurrent, generation, gatewayDraining,
                     taskGeneration, outcome, waiter, arrived>>
  BY DEF FinishLate
<1>3. TypeOK'
  BY <1>1, <1>2 DEF TypeOK
<1>4. FiniteSlots' /\ NoIdleBacklog' /\ RunInv'
  BY <1>1, <1>2 DEF Core, FiniteSlots, NoIdleBacklog, RunInv
<1>5. QueueInv'
  BY <1>1, <1>2 DEF Core, QueueInv, Distinct, Entries
<1>6. CallInv'
  BY <1>1, <1>2 DEF Core, CallInv, Entries
<1>7. ActiveExact'
  BY <1>1, <1>2 DEF Core, ActiveExact, CurrentGeneration
<1>8. WaiterSound' /\ Caps
  BY <1>1, <1>2, WaitersKeep DEF Caps
<1> QED
  BY <1>3, <1>4, <1>5, <1>6, <1>7, <1>8 DEF IInv, Core

LEMMA ClearKeeps ==
  ASSUME IInv, NEW l \in Lanes, ClearCommandLane(l)
  PROVE  IInv' /\ Caps
<1>1. TypeOK /\ Core /\ WaiterSound
  BY DEF IInv
<1>2. /\ queue' = [queue EXCEPT ![l] = <<>>]
      /\ outcome' = [t \in Tasks |-> IF t \in Entries(queue[l]) THEN "cleared" ELSE outcome[t]]
      /\ UNCHANGED <<active, maxConcurrent, generation, gatewayDraining,
                     taskGeneration, running, waiter, arrived>>
  BY DEF ClearCommandLane, InQueue, Entries
<1>3. \A k \in Lanes : queue'[k] = IF k = l THEN <<>> ELSE queue[k]
  BY <1>1, <1>2 DEF TypeOK
<1>4. \A k \in Lanes : Entries(queue'[k]) = IF k = l THEN {} ELSE Entries(queue[k])
  BY <1>3 DEF Entries
<1>5. running \subseteq Tasks /\ \A k \in Lanes : Entries(queue[k]) \subseteq Tasks
  BY <1>1, EntriesType DEF TypeOK
<1>6. \A u \in running : outcome'[u] = outcome[u]
  <2>1. \A u \in running : u \notin Entries(queue[l])
    <3> SUFFICES ASSUME NEW u \in running, u \in Entries(queue[l]) PROVE FALSE
      OBVIOUS
    <3>1. taskGeneration[u] = -1 /\ LaneOf[u] = l
      BY <1>1 DEF Core, QueueInv
    <3>2. taskGeneration[u] \in 0..generation[l] /\ generation[l] \in Nat
      BY <3>1, <1>1 DEF Core, RunInv, TypeOK
    <3> QED
      BY <3>1, <3>2
  <2> QED
    BY <2>1, <1>2, <1>5
<1>7. TypeOK'
  <2>1. queue' \in [Lanes -> Seq(Tasks)]
    BY <1>1, <1>2 DEF TypeOK
  <2>2. outcome' \in [Tasks -> Outcomes]
    BY <1>1, <1>2 DEF TypeOK, Outcomes
  <2> QED
    BY <2>1, <2>2, <1>1, <1>2 DEF TypeOK
<1>8. FiniteSlots' /\ NoIdleBacklog'
  BY <1>1, <1>2, <1>3 DEF Core, FiniteSlots, NoIdleBacklog
<1>9. QueueInv'
  <2>1. \A k \in Lanes : Distinct(queue'[k])
    BY <1>1, <1>3 DEF Core, QueueInv, Distinct
  <2>2. ASSUME NEW k \in Lanes, NEW u \in Entries(queue'[k])
        PROVE  LaneOf[u] = k /\ outcome'[u] = "pending" /\ taskGeneration'[u] = -1
    <3>1. k # l /\ u \in Entries(queue[k])
      BY <2>2, <1>4
    <3>2. LaneOf[u] = k /\ outcome[u] = "pending" /\ taskGeneration[u] = -1 /\ u \in Tasks
      BY <3>1, <1>1, <1>5 DEF Core, QueueInv
    <3>3. u \notin Entries(queue[l])
      BY <3>1, <3>2, <1>1 DEF Core, QueueInv
    <3> QED
      BY <3>2, <3>3, <1>2
  <2> QED
    BY <2>1, <2>2 DEF QueueInv, Distinct, Entries
<1>10. RunInv'
  BY <1>1, <1>2, <1>6 DEF Core, RunInv
<1>11. CallInv'
  <2> SUFFICES ASSUME NEW u \in Tasks
               PROVE  /\ outcome'[u] = "pending" => u \in Entries(queue'[LaneOf[u]]) \cup running'
                      /\ outcome'[u] = "uncalled" => taskGeneration'[u] = -1
    BY DEF CallInv, Entries
  <2>1. outcome'[u] \in {"pending", "uncalled"} =>
          u \notin Entries(queue[l]) /\ outcome'[u] = outcome[u]
    BY <1>2
  <2>2. outcome[u] = "pending" => u \in Entries(queue[LaneOf[u]]) \cup running
    BY <1>1 DEF Core, CallInv
  <2>3. outcome[u] = "uncalled" => taskGeneration[u] = -1
    BY <1>1 DEF Core, CallInv
  <2>4. LaneOf[u] \in Lanes
    BY LanesAssumption
  <2> QED
    BY <2>1, <2>2, <2>3, <2>4, <1>2, <1>4
<1>12. ActiveExact'
  BY <1>1, <1>2, <1>6 DEF Core, ActiveExact, CurrentGeneration
<1>13. WaiterSound' /\ Caps
  BY <1>1, <1>2, WaitersKeep DEF Caps
<1> QED
  BY <1>7, <1>8, <1>9, <1>10, <1>11, <1>12, <1>13 DEF IInv, Core

LEMMA MarkDrainingKeeps ==
  ASSUME IInv, MarkGatewayDraining
  PROVE  IInv' /\ Caps
<1>1. Core' /\ Caps
  BY CoreUntouched DEF IInv, MarkGatewayDraining
<1>2. TypeOK'
  BY DEF IInv, MarkGatewayDraining, TypeOK
<1>3. WaiterSound'
  BY WaitersKeep DEF IInv, MarkGatewayDraining
<1> QED
  BY <1>1, <1>2, <1>3 DEF IInv

LEMMA WaiterKeeps ==
  ASSUME IInv, NEW w \in Waiters, WaiterStep(w)
  PROVE  IInv' /\ Caps
<1>1. /\ UNCHANGED <<queue, active, maxConcurrent, generation, gatewayDraining,
                     taskGeneration, running, outcome, arrived>>
      /\ \E s \in WaitStatus, ids \in {waiter[w].ids, ActiveAnywhere(active)}, timed \in BOOLEAN :
           /\ waiter' = [waiter EXCEPT ![w] = [status |-> s, ids |-> ids, timed |-> timed]]
           /\ s = "waiting" => ids = ActiveAnywhere(active) /\ ids # {}
  <2> USE DEF IInv, TypeOK, WaitStatus
  <2>1. CASE \E timed \in BOOLEAN : WaitForActiveTasks(w, timed)
    BY <2>1 DEF WaitForActiveTasks
  <2>2. CASE WaitNoTime(w)
    BY <2>2 DEF WaitNoTime
  <2>3. CASE WaiterTimeout(w)
    BY <2>3 DEF WaiterTimeout
  <2> QED
    BY <2>1, <2>2, <2>3 DEF WaiterStep
<1>2. Core' /\ Caps
  BY <1>1, CoreUntouched DEF IInv
<1>3. ActiveAnywhere(active) \subseteq Tasks /\ waiter[w].ids \subseteq Tasks
  BY DEF IInv, TypeOK, ActiveAnywhere
<1>4. TypeOK'
  BY <1>1, <1>3 DEF IInv, TypeOK
<1>5. WaiterSound'
  BY <1>1 DEF IInv, TypeOK, WaiterSound, HasPendingActiveTasks, ActiveAnywhere
<1> QED
  BY <1>2, <1>4, <1>5 DEF IInv

-----------------------------------------------------------------------------
(* The theorems. *)

LEMMA InitWithEstablishes ==
  ASSUME NEW caps \in [Lanes -> Nat \ {0}], InitWith(caps)
  PROVE  IInv
<1> USE LanesAssumption DEF InitWith
<1>1. TypeOK
  <2>1. NoWait \in [status : WaitStatus, ids : SUBSET Tasks, timed : BOOLEAN]
    BY DEF WaitStatus, NoWait
  <2>2. waiter \in [Waiters -> [status : WaitStatus, ids : SUBSET Tasks, timed : BOOLEAN]]
    BY <2>1
  <2>3. queue \in [Lanes -> Seq(Tasks)] /\ arrived \in [Lanes -> Seq(Tasks)]
    OBVIOUS
  <2>4. active \in [Lanes -> SUBSET Tasks] /\ running \subseteq Tasks
    OBVIOUS
  <2>5. maxConcurrent \in [Lanes -> Nat \ {0}] /\ generation \in [Lanes -> Nat]
    OBVIOUS
  <2>6. taskGeneration \in [Tasks -> Nat \cup {-1}]
    OBVIOUS
  <2>7. outcome \in [Tasks -> Outcomes] /\ gatewayDraining \in BOOLEAN
    BY DEF Outcomes
  <2> QED
    BY <2>2, <2>3, <2>4, <2>5, <2>6, <2>7 DEF TypeOK
<1>2. FiniteSlots /\ ActiveExact /\ NoIdleBacklog
  BY FS_EmptySet DEF FiniteSlots, ActiveExact, NoIdleBacklog
<1>3. QueueInv /\ RunInv /\ CallInv
  BY DEF QueueInv, Distinct, Entries, RunInv, CallInv
<1>4. WaiterSound
  BY DEF WaiterSound, NoWait
<1> QED
  BY <1>1, <1>2, <1>3, <1>4 DEF IInv, Core

LEMMA InitEstablishes == Init => IInv
BY InitWithEstablishes DEF Init

LEMMA StepKeeps == IInv /\ [Next]_vars => IInv' /\ (Caps \/ UNCHANGED vars)
<1> SUFFICES ASSUME IInv, [Next]_vars PROVE IInv' /\ (Caps \/ UNCHANGED vars)
  OBVIOUS
<1> USE LanesAssumption
<1>1. ASSUME NEW t \in Tasks, TaskStep(t) PROVE IInv' /\ Caps
  <2>1. CASE EnqueueRejected(t)
    BY <2>1, EnqueueRejectedKeeps
  <2>2. CASE Enqueue(t)
    BY <2>2, EnqueueKeeps
  <2>3. CASE Finish(t)
    BY <2>3, CompleteKeeps DEF Finish
  <2>4. CASE Timeout(t)
    BY <2>4, CompleteKeeps DEF Timeout
  <2>5. CASE FinishLate(t)
    BY <2>5, FinishLateKeeps
  <2> QED
    BY <1>1, <2>1, <2>2, <2>3, <2>4, <2>5 DEF TaskStep
<1>2. ASSUME NEW l \in Lanes, LaneStep(l) PROVE IInv' /\ Caps
  <2>1. ASSUME NEW n \in Requested, SetCommandLaneConcurrency(l, n) PROVE IInv' /\ Caps
    BY <2>1, SetConcurrencyKeeps
  <2>2. CASE ClearCommandLane(l)
    BY <2>2, ClearKeeps
  <2>3. CASE ResetCommandLane(l)
    <3>1. ResetLanes({l}) /\ gatewayDraining' \in BOOLEAN /\ {l} \in SUBSET Lanes
      BY <2>3 DEF ResetCommandLane, IInv, TypeOK
    <3> QED
      BY <3>1, ResetKeeps
  <2> QED
    BY <1>2, <2>1, <2>2, <2>3 DEF LaneStep
<1>3. CASE \E w \in Waiters : WaiterStep(w)
  BY <1>3, WaiterKeeps
<1>4. CASE MarkGatewayDraining
  BY <1>4, MarkDrainingKeeps
<1>5. CASE ResetAllLanes
  <2>1. ResetLanes(Lanes) /\ gatewayDraining' \in BOOLEAN
    BY <1>5 DEF ResetAllLanes
  <2> QED
    BY <2>1, ResetKeeps
<1>6. CASE UNCHANGED vars
  <2>1. Core'
    BY <1>6, CoreUntouched DEF IInv, vars
  <2>2. TypeOK' /\ WaiterSound'
    BY <1>6, WaitersKeep DEF IInv, vars, TypeOK
  <2> QED
    BY <1>6, <2>1, <2>2 DEF IInv
<1> QED
  BY <1>1, <1>2, <1>3, <1>4, <1>5, <1>6 DEF Next

LEMMA Invariance == Spec => []IInv
<1>1. IInv /\ [Next]_vars => IInv'
  BY StepKeeps
<1> QED
  BY InitEstablishes, <1>1, PTL DEF Spec

(* The types of the queue's state. *)
THEOREM TypeCorrect == Spec => []TypeOK
<1>1. IInv => TypeOK
  BY DEF IInv
<1> QED
  BY Invariance, <1>1, PTL

(* No lane idles while work is queued in it, whatever calls are made, and  *)
(* whatever times out or is reset.                                         *)
THEOREM WorkConserving == Spec => []NoIdleBacklog
<1>1. IInv => NoIdleBacklog
  BY DEF IInv, Core
<1> QED
  BY Invariance, <1>1, PTL

(* The slots of a lane are its current generation's live tasks. *)
THEOREM SlotsExact == Spec => []ActiveExact
<1>1. IInv => ActiveExact
  BY DEF IInv, Core
<1> QED
  BY Invariance, <1>1, PTL

(* Every caller left waiting has a queued entry or a running task. *)
THEOREM CallersServed == Spec => []NoStrandedCaller
<1>1. IInv => NoStrandedCaller
  <2> SUFFICES ASSUME IInv PROVE NoStrandedCaller
    OBVIOUS
  <2>1. TypeOK /\ QueueInv /\ RunInv /\ CallInv
    BY DEF IInv, Core
  <2>2. \A l \in Lanes : InQueue(l) = Entries(queue[l])
    BY DEF InQueue, Entries
  <2>3. \A l \in Lanes : \A i, j \in 1..Len(queue[l]) : queue[l][i] = queue[l][j] => i = j
    BY <2>1 DEF QueueInv, Distinct
  <2>4. \A l \in Lanes : InQueue(l) \cap running = {}
    <3> SUFFICES ASSUME NEW l \in Lanes, NEW t \in running, t \in Entries(queue[l])
                 PROVE  FALSE
      BY <2>2
    <3>1. taskGeneration[t] = -1 /\ LaneOf[t] = l
      BY <2>1 DEF QueueInv
    <3>2. taskGeneration[t] \in 0..generation[l] /\ generation[l] \in Nat
      BY <3>1, <2>1 DEF RunInv, TypeOK
    <3> QED
      BY <3>1, <3>2
  <2>5. ASSUME NEW t \in Tasks
        PROVE  outcome[t] = "pending" <=> \/ t \in InQueue(LaneOf[t])
                                          \/ t \in running /\ outcome[t] # "timedOut"
    <3>1. LaneOf[t] \in Lanes
      BY LanesAssumption
    <3> QED
      BY <3>1, <2>1, <2>2 DEF QueueInv, RunInv, CallInv
  <2> QED
    BY <2>3, <2>4, <2>5 DEF NoStrandedCaller
<1> QED
  BY Invariance, <1>1, PTL

(* A restart that waits for active work is never left behind by it. *)
THEOREM WaitersServed == Spec => []WaiterSound
<1>1. IInv => WaiterSound
  BY DEF IInv
<1> QED
  BY Invariance, <1>1, PTL

(* No step starts a task beyond the lane's concurrency cap. *)
THEOREM CapRespected == Spec => StartsWithinCap
<1>1. IInv /\ [Next]_vars => [Caps]_vars
  BY StepKeeps
<1>2. [Caps]_vars => [\A l \in Lanes : ~(active'[l] \subseteq active[l]) =>
                        Cardinality(active'[l]) <= maxConcurrent'[l]]_vars
  BY DEF Caps
<1> QED
  BY Invariance, <1>1, <1>2, PTL DEF Spec, StartsWithinCap

-----------------------------------------------------------------------------
(* The tasks of a lane start in the order of their calls. Ordered says of  *)
(* one lane how its queue, the calls it accepted, those that started and   *)
(* those that were cleared fit together; a call, a pump and a clear keep   *)
(* it, and every action is made of these.                                  *)

(* The queue q holds what is left of the calls r, in their order: begun    *)
(* are the tasks that started, gone the calls that were cleared.           *)
Ordered(q, r, begun, gone) ==
  /\ Distinct(r)
  /\ Entries(q) \subseteq Entries(r)
  /\ \A i \in 1..Len(r) : r[i] \in begun \cup gone \cup Entries(q)
  /\ \A i, j \in 1..Len(r), n, m \in 1..Len(q) : r[i] = q[n] /\ r[j] = q[m] /\ n < m => i < j
  /\ \A i, j \in 1..Len(r) : i < j /\ r[j] \in begun => r[i] \in begun \cup gone

Begun == {t \in Tasks : taskGeneration[t] # -1}

Gone == {t \in Tasks : outcome[t] = "cleared"}

OrderInv ==
  \A l \in Lanes :
    /\ Ordered(queue[l], arrived[l], Begun, Gone)
    /\ \A t \in Entries(arrived[l]) : LaneOf[t] = l /\ outcome[t] # "uncalled"

-----------------------------------------------------------------------------
(* Only the lane's own calls matter. *)
LEMMA OrderedSame ==
  ASSUME NEW q, NEW r, NEW b, NEW g, NEW b2, NEW g2, Ordered(q, r, b, g),
         \A t \in Entries(r) : (t \in b <=> t \in b2) /\ (t \in g <=> t \in g2)
  PROVE  Ordered(q, r, b2, g2)
<1>1. \A i \in 1..Len(r) : r[i] \in Entries(r)
  BY DEF Entries
<1> QED
  BY <1>1 DEF Ordered

(* A call that is accepted comes last in both. *)
LEMMA OrderedPush ==
  ASSUME NEW q \in Seq(Tasks), NEW r \in Seq(Tasks), NEW b, NEW g, Ordered(q, r, b, g),
         NEW t \in Tasks, t \notin Entries(r), t \notin b
  PROVE  Ordered(Append(q, t), Append(r, t), b, g)
<1> DEFINE q2 == Append(q, t)
           r2 == Append(r, t)
<1>1. /\ Len(q2) = Len(q) + 1 /\ q2[Len(q) + 1] = t /\ \A i \in 1..Len(q) : q2[i] = q[i]
      /\ Len(r2) = Len(r) + 1 /\ r2[Len(r) + 1] = t /\ \A i \in 1..Len(r) : r2[i] = r[i]
      /\ Len(q) \in Nat /\ Len(r) \in Nat
  OBVIOUS
<1> HIDE DEF q2, r2
<1>2. /\ \A i \in 1..Len(r2) : i \in 1..Len(r) \/ i = Len(r) + 1
      /\ \A i \in 1..Len(q2) : i \in 1..Len(q) \/ i = Len(q) + 1
  BY <1>1
<1>3. /\ \A i \in 1..Len(r) : r[i] # t
      /\ \A n \in 1..Len(q) : q[n] # t
  BY DEF Ordered, Entries
<1>4. Distinct(r2)
  BY <1>1, <1>2, <1>3 DEF Ordered, Distinct
<1>5. Entries(q2) = Entries(q) \cup {t} /\ Entries(r2) = Entries(r) \cup {t}
  <2>1. Len(q) + 1 \in 1..Len(q2) /\ Len(r) + 1 \in 1..Len(r2)
    BY <1>1
  <2>2. 1..Len(q) \subseteq 1..Len(q2) /\ 1..Len(r) \subseteq 1..Len(r2)
    BY <1>1
  <2> QED
    BY <1>1, <1>2, <2>1, <2>2 DEF Entries
<1>6. \A i \in 1..Len(r2) : r2[i] \in b \cup g \cup Entries(q2)
  BY <1>1, <1>2, <1>5 DEF Ordered
<1>7. ASSUME NEW i \in 1..Len(r2), NEW j \in 1..Len(r2), NEW n \in 1..Len(q2), NEW m \in 1..Len(q2),
             r2[i] = q2[n], r2[j] = q2[m], n < m
      PROVE  i < j
  <2>1. n \in 1..Len(q) /\ q2[n] = q[n]
    BY <1>1, <1>2, <1>7
  <2>2. i \in 1..Len(r) /\ r2[i] = r[i]
    BY <1>1, <1>2, <1>3, <1>7, <2>1
  <2>3. CASE m \in 1..Len(q)
    <3>1. j \in 1..Len(r) /\ r2[j] = r[j] /\ q2[m] = q[m]
      BY <1>1, <1>2, <1>3, <1>7, <2>3
    <3> QED
      BY <1>7, <2>1, <2>2, <2>3, <3>1 DEF Ordered
  <2>4. CASE m = Len(q) + 1
    <3>1. j = Len(r) + 1
      BY <1>1, <1>2, <1>3, <1>7, <2>4
    <3> QED
      BY <1>1, <2>2, <3>1
  <2> QED
    BY <1>2, <2>3, <2>4
<1>8. ASSUME NEW i \in 1..Len(r2), NEW j \in 1..Len(r2), i < j, r2[j] \in b
      PROVE  r2[i] \in b \cup g
  <2>1. j \in 1..Len(r) /\ i \in 1..Len(r)
    BY <1>1, <1>2, <1>8
  <2> QED
    BY <1>1, <1>8, <2>1 DEF Ordered
<1> QED
  BY <1>4, <1>5, <1>6, <1>7, <1>8 DEF Ordered, q2, r2

(* A pump starts from the front. *)
LEMMA OrderedPump ==
  ASSUME NEW q \in Seq(Tasks), NEW r \in Seq(Tasks), NEW b, NEW g, Ordered(q, r, b, g),
         NEW a, IsFiniteSet(a), NEW m \in Nat
  PROVE  Ordered(Left(q, a, m), r, b \cup Started(q, a, m), g)
<1> DEFINE k == PumpCount(q, a, m)
           s == Started(q, a, m)
           z == Left(q, a, m)
<1>1. k \in 0..Len(q) /\ Len(q) \in Nat
  <2>1. PumpCount(q, a, m) \in 0..Len(q)
    BY PumpCountType
  <2> QED
    BY <2>1
<1>2. /\ Len(z) = Len(q) - k /\ \A i \in 1..Len(z) : z[i] = q[k + i]
      /\ Entries(q) = s \cup Entries(z)
  BY PumpSplits
<1>3. s = {q[i] : i \in 1..k}
  BY DEF Started
<1> HIDE DEF k, s, z
<1>4. \A n \in 1..Len(z) : k + n \in 1..Len(q)
  BY <1>1, <1>2
<1>5. Distinct(r) /\ Entries(z) \subseteq Entries(r)
  BY <1>2 DEF Ordered
<1>6. \A i \in 1..Len(r) : r[i] \in (b \cup s) \cup g \cup Entries(z)
  BY <1>2 DEF Ordered
<1>7. ASSUME NEW i \in 1..Len(r), NEW j \in 1..Len(r), NEW n \in 1..Len(z), NEW h \in 1..Len(z),
             r[i] = z[n], r[j] = z[h], n < h
      PROVE  i < j
  <2>1. k + n < k + h
    BY <1>1, <1>2, <1>7
  <2>2. r[i] = q[k + n] /\ r[j] = q[k + h]
    BY <1>2, <1>7
  <2>3. k + n \in 1..Len(q) /\ k + h \in 1..Len(q)
    BY <1>4
  <2> QED
    BY <2>1, <2>2, <2>3 DEF Ordered
<1>8. ASSUME NEW i \in 1..Len(r), NEW j \in 1..Len(r), i < j, r[j] \in b \cup s
      PROVE  r[i] \in (b \cup s) \cup g
  <2>1. CASE r[j] \in b
    BY <1>8, <2>1 DEF Ordered
  <2>2. CASE r[j] \in s
    <3>1. PICK n \in 1..k : r[j] = q[n]
      BY <1>3, <2>2
    <3>2. SUFFICES ASSUME r[i] \in Entries(z) PROVE FALSE
      BY <1>6
    <3>3. PICK h \in 1..Len(z) : r[i] = z[h]
      BY <3>2 DEF Entries
    <3>4. n \in 1..Len(q) /\ k + h \in 1..Len(q) /\ n < k + h /\ r[i] = q[k + h]
      BY <1>1, <1>2, <1>4, <3>3
    <3>5. j < i
      BY <3>1, <3>4 DEF Ordered
    <3> QED
      BY <1>8, <3>5
  <2> QED
    BY <1>8, <2>1, <2>2
<1> QED
  BY <1>5, <1>6, <1>7, <1>8 DEF Ordered, s, z

(* A clear empties the queue. *)
LEMMA OrderedClear ==
  ASSUME NEW q, NEW r, NEW b, NEW g, Ordered(q, r, b, g)
  PROVE  Ordered(<<>>, r, b, g \cup Entries(q))
<1>1. Entries(<<>>) = {} /\ 1..Len(<<>>) = {}
  BY DEF Entries
<1> QED
  BY <1>1 DEF Ordered

-----------------------------------------------------------------------------
(* What an action hands to the pump is ordered, with what it cleared. *)
StagedOrder(qs) ==
  \A l \in Lanes :
    /\ qs[l] \in Seq(Tasks) /\ arrived'[l] \in Seq(Tasks)
    /\ Ordered(qs[l], arrived'[l], Begun, Gone')
    /\ \A t \in Entries(arrived'[l]) : LaneOf[t] = l /\ outcome'[t] # "uncalled"

LEMMA DrainOrders ==
  ASSUME TypeOK, maxConcurrent' \in [Lanes -> Nat \ {0}], generation' \in [Lanes -> Nat],
         NEW S, NEW qs, NEW as, NEW ended, StagedOrder(qs), DrainLanes(S, qs, as, ended),
         \A l \in Lanes : IsFiniteSet(as[l])
  PROVE  OrderInv'
<1> USE LanesAssumption
<1> SUFFICES ASSUME NEW l \in Lanes
             PROVE  /\ Ordered(queue'[l], arrived'[l], Begun', Gone')
                    /\ \A t \in Entries(arrived'[l]) : LaneOf[t] = l /\ outcome'[t] # "uncalled"
  BY DEF OrderInv, Ordered, Distinct, Entries
<1> DEFINE new == StartedIn(S, qs, as, l)
<1>1. /\ qs[l] \in Seq(Tasks) /\ arrived'[l] \in Seq(Tasks)
      /\ Ordered(qs[l], arrived'[l], Begun, Gone')
      /\ \A t \in Entries(arrived'[l]) : LaneOf[t] = l /\ outcome'[t] # "uncalled"
  BY DEF StagedOrder
<1>2. Ordered(queue'[l], arrived'[l], Begun \cup new, Gone')
  <2>1. CASE l \in S
    <3>1. /\ new = Started(qs[l], as[l], maxConcurrent'[l])
          /\ queue'[l] = Left(qs[l], as[l], maxConcurrent'[l])
      BY <2>1 DEF StartedIn, DrainLanes
    <3>2. maxConcurrent'[l] \in Nat /\ IsFiniteSet(as[l])
      OBVIOUS
    <3>3. Ordered(Left(qs[l], as[l], maxConcurrent'[l]), arrived'[l],
                  Begun \cup Started(qs[l], as[l], maxConcurrent'[l]), Gone')
      <4> DEFINE m == maxConcurrent'[l]
                 a == as[l]
                 r == arrived'[l]
                 g == Gone'
      <4>1. /\ qs[l] \in Seq(Tasks) /\ r \in Seq(Tasks) /\ Ordered(qs[l], r, Begun, g)
            /\ IsFiniteSet(a) /\ m \in Nat
        BY <1>1, <3>2
      <4> HIDE DEF m, a, r, g
      <4>2. Ordered(Left(qs[l], a, m), r, Begun \cup Started(qs[l], a, m), g)
        BY <4>1, OrderedPump
      <4> QED
        BY <4>2 DEF m, a, r, g
    <3> QED
      BY <3>1, <3>3
  <2>2. CASE l \notin S
    <3>1. new = {} /\ queue'[l] = qs[l]
      BY <2>2 DEF StartedIn, DrainLanes
    <3>2. Begun \cup new = Begun
      BY <3>1
    <3> QED
      BY <1>1, <3>1, <3>2
  <2> QED
    BY <2>1, <2>2
<1>3. \A t \in Entries(arrived'[l]) : t \in Begun \cup new <=> t \in Begun'
  <2> SUFFICES ASSUME NEW t \in Entries(arrived'[l]) PROVE t \in Begun \cup new <=> t \in Begun'
    OBVIOUS
  <2>1. t \in Tasks /\ LaneOf[t] = l
    BY <1>1, EntriesType
  <2>2. taskGeneration'[t] = IF t \in new THEN generation'[l] ELSE taskGeneration[t]
    BY <2>1 DEF DrainLanes
  <2>3. generation'[l] \in Nat
    OBVIOUS
  <2> HIDE DEF new
  <2> QED
    BY <2>1, <2>2, <2>3 DEF Begun
<1>4. Ordered(queue'[l], arrived'[l], Begun', Gone')
  <2> DEFINE q == queue'[l]
             r == arrived'[l]
             b == Begun \cup new
             b2 == Begun'
             g == Gone'
  <2>1. Ordered(q, r, b, g) /\ \A t \in Entries(r) : t \in b <=> t \in b2
    BY <1>2, <1>3
  <2> HIDE DEF q, r, b, b2, g
  <2>2. Ordered(q, r, b2, g)
    BY <2>1, OrderedSame
  <2> QED
    BY <2>2 DEF q, r, b2, g
<1> QED
  BY <1>1, <1>4

(* An action that accepts no call and clears none hands over its queue. *)
LEMMA OutcomesKeepOrder ==
  ASSUME TypeOK, OrderInv, arrived' = arrived, outcome' \in [Tasks -> Outcomes],
         \A t \in Tasks : outcome'[t] # outcome[t] =>
           /\ outcome[t] # "cleared" /\ outcome'[t] \notin {"cleared", "uncalled"}
  PROVE  StagedOrder(queue)
<1>1. Gone' = Gone
  BY DEF Gone
<1>2. \A l \in Lanes : Entries(arrived[l]) \subseteq Tasks
  BY EntriesType DEF TypeOK
<1> QED
  BY <1>1, <1>2 DEF StagedOrder, OrderInv, TypeOK

(* ... and if it starts nothing either, the order is as before. *)
LEMMA StillOrdered ==
  ASSUME TypeOK, OrderInv, UNCHANGED <<queue, arrived, taskGeneration>>,
         outcome' \in [Tasks -> Outcomes],
         \A t \in Tasks : outcome'[t] # outcome[t] =>
           /\ outcome[t] # "cleared" /\ outcome'[t] \notin {"cleared", "uncalled"}
  PROVE  OrderInv'
<1>1. Gone' = Gone /\ Begun' = Begun
  BY DEF Gone, Begun
<1>2. \A l \in Lanes : Entries(arrived[l]) \subseteq Tasks
  BY EntriesType DEF TypeOK
<1>3. \A l \in Lanes : \A t \in Entries(arrived'[l]) : LaneOf[t] = l /\ outcome'[t] # "uncalled"
  BY <1>2 DEF OrderInv
<1>4. \A l \in Lanes : Ordered(queue'[l], arrived'[l], Begun', Gone')
  BY <1>1 DEF OrderInv
<1> QED
  BY <1>3, <1>4 DEF OrderInv, Ordered, Distinct, Entries

LEMMA EnqueueOrders ==
  ASSUME IInv, OrderInv, NEW t \in Tasks, Enqueue(t)
  PROVE  OrderInv'
<1> DEFINE l == LaneOf[t]
           qs == [queue EXCEPT ![l] = Pushed(@, t)]
<1>1. TypeOK /\ Core /\ l \in Lanes
  BY LanesAssumption DEF IInv
<1>2. /\ outcome[t] = "uncalled" /\ outcome' = [outcome EXCEPT ![t] = "pending"]
      /\ arrived' = [arrived EXCEPT ![l] = Append(@, t)]
      /\ UNCHANGED <<maxConcurrent, generation>>
      /\ DrainLanes({l}, qs, active, {})
  BY DEF Enqueue
<1>3. Gone' = Gone /\ t \notin Begun
  BY <1>1, <1>2 DEF Gone, Begun, TypeOK, Core, CallInv
<1>4. \A k \in Lanes : t \notin Entries(arrived[k]) /\ Entries(arrived[k]) \subseteq Tasks
  BY <1>1, <1>2, EntriesType DEF OrderInv, TypeOK
<1>5. ASSUME NEW k \in Lanes
      PROVE  /\ qs[k] \in Seq(Tasks) /\ arrived'[k] \in Seq(Tasks)
             /\ Ordered(qs[k], arrived'[k], Begun, Gone')
             /\ \A u \in Entries(arrived'[k]) : LaneOf[u] = k /\ outcome'[u] # "uncalled"
  <2>1. queue[k] \in Seq(Tasks) /\ arrived[k] \in Seq(Tasks) /\ Ordered(queue[k], arrived[k], Begun, Gone)
    BY <1>1 DEF TypeOK, OrderInv
  <2>2. CASE k = l
    <3>1. qs[k] = Append(queue[k], t) /\ arrived'[k] = Append(arrived[k], t)
      BY <1>1, <1>2, <2>2 DEF Pushed, TypeOK
    <3>2. Ordered(Append(queue[k], t), Append(arrived[k], t), Begun, Gone)
      BY <1>3, <1>4, <2>1, OrderedPush
    <3>3. Entries(Append(arrived[k], t)) = Entries(arrived[k]) \cup {t}
      BY <2>1, PushedEntries DEF Pushed
    <3>4. \A u \in Entries(arrived'[k]) : LaneOf[u] = k /\ outcome'[u] # "uncalled"
      <4>1. \A u \in Entries(arrived[k]) : LaneOf[u] = k /\ outcome'[u] # "uncalled"
        BY <1>1, <1>2, <1>4 DEF OrderInv, TypeOK
      <4>2. LaneOf[t] = k /\ outcome'[t] # "uncalled"
        BY <1>1, <1>2, <2>2 DEF TypeOK
      <4>3. Entries(arrived'[k]) = Entries(arrived[k]) \cup {t}
        BY <3>1, <3>3
      <4> QED
        BY <4>1, <4>2, <4>3
    <3>5. qs[k] \in Seq(Tasks) /\ arrived'[k] \in Seq(Tasks)
      <4>1. Append(queue[k], t) \in Seq(Tasks) /\ Append(arrived[k], t) \in Seq(Tasks)
        BY <2>1
      <4> HIDE DEF qs
      <4> QED
        BY <3>1, <4>1
    <3> HIDE DEF qs
    <3> QED
      BY <1>3, <3>1, <3>2, <3>4, <3>5
  <2>3. CASE k # l
    <3>1. qs[k] = queue[k] /\ arrived'[k] = arrived[k]
      BY <1>1, <1>2, <2>3 DEF TypeOK
    <3>2. \A u \in Entries(arrived[k]) : LaneOf[u] = k /\ outcome'[u] # "uncalled"
      BY <1>1, <1>2, <1>4 DEF OrderInv, TypeOK
    <3> HIDE DEF qs
    <3> QED
      BY <1>3, <2>1, <3>1, <3>2
  <2> QED
    BY <2>2, <2>3
<1>6. StagedOrder(qs)
  BY <1>5 DEF StagedOrder
<1>7. /\ maxConcurrent' \in [Lanes -> Nat \ {0}] /\ generation' \in [Lanes -> Nat]
      /\ \A k \in Lanes : IsFiniteSet(active[k])
  BY <1>1, <1>2 DEF TypeOK, Core, FiniteSlots
<1> HIDE DEF qs
<1> QED
  BY <1>1, <1>2, <1>6, <1>7, DrainOrders

LEMMA CompleteOrders ==
  ASSUME IInv, OrderInv, NEW t \in running, outcome[t] = "pending",
         NEW result \in {"settled", "timedOut"}, NEW ended, CompleteTask(t, result, ended)
  PROVE  OrderInv'
<1>1. TypeOK /\ Core /\ t \in Tasks /\ LaneOf[t] \in Lanes
  BY LanesAssumption DEF IInv, TypeOK
<1>2. /\ outcome' = [outcome EXCEPT ![t] = result]
      /\ UNCHANGED <<maxConcurrent, generation, arrived>>
      /\ \/ DrainLanes({LaneOf[t]}, queue, SlotsWithout(t), ended)
         \/ DrainLanes({}, queue, active, ended)
  BY DEF CompleteTask
<1>3. /\ outcome' \in [Tasks -> Outcomes]
      /\ \A u \in Tasks : outcome'[u] # outcome[u] =>
           /\ outcome[u] # "cleared" /\ outcome'[u] \notin {"cleared", "uncalled"}
  BY <1>1, <1>2 DEF TypeOK, Outcomes
<1>4. StagedOrder(queue)
  BY <1>1, <1>2, <1>3, OutcomesKeepOrder
<1>5. maxConcurrent' \in [Lanes -> Nat \ {0}] /\ generation' \in [Lanes -> Nat]
  BY <1>1, <1>2 DEF TypeOK
<1>6. \A k \in Lanes : IsFiniteSet(active[k]) /\ IsFiniteSet(SlotsWithout(t)[k])
  <2>1. \A k \in Lanes : IsFiniteSet(active[k]) /\ SlotsWithout(t)[k] \subseteq active[k]
    BY <1>1 DEF SlotsWithout, TypeOK, Core, FiniteSlots
  <2> QED
    BY <2>1, FS_Subset
<1> QED
  BY <1>1, <1>2, <1>4, <1>5, <1>6, DrainOrders

LEMMA SetConcurrencyOrders ==
  ASSUME IInv, OrderInv, NEW l \in Lanes, NEW n \in Int, SetCommandLaneConcurrency(l, n)
  PROVE  OrderInv'
<1>1. TypeOK /\ Core
  BY DEF IInv
<1>2. /\ UNCHANGED <<generation, outcome, arrived>> /\ DrainLanes({l}, queue, active, {})
      /\ maxConcurrent' = [maxConcurrent EXCEPT ![l] = AtLeastOne(n)]
  BY DEF SetCommandLaneConcurrency
<1>3. AtLeastOne(n) \in Nat \ {0}
  BY DEF AtLeastOne
<1>4. maxConcurrent' \in [Lanes -> Nat \ {0}] /\ generation' \in [Lanes -> Nat]
  BY <1>1, <1>2, <1>3 DEF TypeOK
<1>5. StagedOrder(queue)
  BY <1>1, <1>2, OutcomesKeepOrder DEF TypeOK
<1>6. \A k \in Lanes : IsFiniteSet(active[k])
  BY <1>1 DEF Core, FiniteSlots
<1> QED
  BY <1>1, <1>2, <1>4, <1>5, <1>6, DrainOrders

LEMMA ResetOrders ==
  ASSUME IInv, OrderInv, NEW R \in SUBSET Lanes, ResetLanes(R)
  PROVE  OrderInv'
<1>1. TypeOK /\ Core
  BY DEF IInv
<1>2. /\ UNCHANGED <<maxConcurrent, outcome, arrived>>
      /\ generation' = [l \in Lanes |-> IF l \in R THEN generation[l] + 1 ELSE generation[l]]
      /\ DrainLanes(LanesToDrain(R), queue, SlotsAfterReset(R), {})
  BY DEF ResetLanes
<1>3. maxConcurrent' \in [Lanes -> Nat \ {0}] /\ generation' \in [Lanes -> Nat]
  BY <1>1, <1>2 DEF TypeOK
<1>4. StagedOrder(queue)
  BY <1>1, <1>2, OutcomesKeepOrder DEF TypeOK
<1>5. \A k \in Lanes : IsFiniteSet(SlotsAfterReset(R)[k])
  BY <1>1, FS_EmptySet DEF SlotsAfterReset, Core, FiniteSlots
<1> QED
  BY <1>1, <1>2, <1>3, <1>4, <1>5, DrainOrders

LEMMA ClearOrders ==
  ASSUME IInv, OrderInv, NEW l \in Lanes, ClearCommandLane(l)
  PROVE  OrderInv'
<1>1. TypeOK /\ Core
  BY DEF IInv
<1>2. /\ queue' = [queue EXCEPT ![l] = <<>>]
      /\ outcome' = [t \in Tasks |-> IF t \in Entries(queue[l]) THEN "cleared" ELSE outcome[t]]
      /\ UNCHANGED <<taskGeneration, arrived>>
  BY DEF ClearCommandLane, InQueue, Entries
<1>3. Begun' = Begun /\ Gone' = Gone \cup Entries(queue[l])
  <2>1. Entries(queue[l]) \subseteq Tasks
    BY <1>1, EntriesType DEF TypeOK
  <2> QED
    BY <1>2, <2>1 DEF Begun, Gone
<1>4. ASSUME NEW k \in Lanes
      PROVE  /\ Ordered(queue'[k], arrived[k], Begun', Gone')
             /\ \A t \in Entries(arrived[k]) : LaneOf[t] = k /\ outcome'[t] # "uncalled"
  <2>1. Ordered(queue[k], arrived[k], Begun, Gone) /\ Entries(arrived[k]) \subseteq Tasks
    BY <1>1, EntriesType DEF OrderInv, TypeOK
  <2>2. \A t \in Entries(arrived[k]) : LaneOf[t] = k /\ outcome'[t] # "uncalled"
    BY <1>2, <2>1 DEF OrderInv
  <2>3. CASE k = l
    <3>1. queue'[k] = <<>>
      BY <1>1, <1>2, <2>3 DEF TypeOK
    <3>2. Ordered(<<>>, arrived[k], Begun, Gone \cup Entries(queue[k]))
      BY <2>1, OrderedClear
    <3> QED
      BY <1>3, <2>2, <2>3, <3>1, <3>2
  <2>4. CASE k # l
    <3>1. queue'[k] = queue[k]
      BY <1>1, <1>2, <2>4 DEF TypeOK
    <3>2. \A t \in Entries(arrived[k]) : t \notin Entries(queue[l])
      BY <1>1, <2>2, <2>4 DEF Core, QueueInv
    <3>3. Ordered(queue[k], arrived[k], Begun, Gone \cup Entries(queue[l]))
      BY <2>1, <3>2, OrderedSame
    <3> QED
      BY <1>3, <2>2, <3>1, <3>3
  <2> QED
    BY <2>3, <2>4
<1>5. \A k \in Lanes : /\ Ordered(queue'[k], arrived'[k], Begun', Gone')
                      /\ \A t \in Entries(arrived'[k]) : LaneOf[t] = k /\ outcome'[t] # "uncalled"
  BY <1>2, <1>4
<1> QED
  BY <1>5 DEF OrderInv, Ordered, Distinct, Entries

-----------------------------------------------------------------------------
LEMMA StepOrders == IInv /\ OrderInv /\ [Next]_vars => OrderInv'
<1> SUFFICES ASSUME IInv, OrderInv, [Next]_vars PROVE OrderInv'
  OBVIOUS
<1>1. TypeOK
  BY DEF IInv
<1>2. ASSUME NEW t \in Tasks, TaskStep(t) PROVE OrderInv'
  <2>1. CASE EnqueueRejected(t)
    <3>1. /\ UNCHANGED <<queue, arrived, taskGeneration>> /\ outcome' \in [Tasks -> Outcomes]
          /\ \A u \in Tasks : outcome'[u] # outcome[u] =>
               /\ outcome[u] # "cleared" /\ outcome'[u] \notin {"cleared", "uncalled"}
      BY <1>1, <2>1 DEF EnqueueRejected, TypeOK, Outcomes
    <3> QED
      BY <1>1, <3>1, StillOrdered
  <2>2. CASE Enqueue(t)
    BY <2>2, EnqueueOrders
  <2>3. CASE Finish(t)
    BY <2>3, CompleteOrders DEF Finish
  <2>4. CASE Timeout(t)
    BY <2>4, CompleteOrders DEF Timeout
  <2>5. CASE FinishLate(t)
    <3>1. UNCHANGED <<queue, arrived, taskGeneration, outcome>>
      BY <2>5 DEF FinishLate
    <3> QED
      BY <1>1, <3>1, StillOrdered DEF TypeOK
  <2> QED
    BY <1>2, <2>1, <2>2, <2>3, <2>4, <2>5 DEF TaskStep
<1>3. ASSUME NEW l \in Lanes, LaneStep(l) PROVE OrderInv'
  <2>1. ASSUME NEW n \in Requested, SetCommandLaneConcurrency(l, n) PROVE OrderInv'
    BY <2>1, LanesAssumption, SetConcurrencyOrders
  <2>2. CASE ClearCommandLane(l)
    BY <2>2, ClearOrders
  <2>3. CASE ResetCommandLane(l)
    <3>1. ResetLanes({l}) /\ {l} \in SUBSET Lanes
      BY <2>3 DEF ResetCommandLane
    <3> QED
      BY <3>1, ResetOrders
  <2> QED
    BY <1>3, <2>1, <2>2, <2>3 DEF LaneStep
<1>4. CASE \E w \in Waiters : WaiterStep(w)
  <2>1. UNCHANGED <<queue, arrived, taskGeneration, outcome>>
    BY <1>4 DEF WaiterStep, WaitForActiveTasks, WaitNoTime, WaiterTimeout
  <2> QED
    BY <1>1, <2>1, StillOrdered DEF TypeOK
<1>5. CASE MarkGatewayDraining
  <2>1. UNCHANGED <<queue, arrived, taskGeneration, outcome>>
    BY <1>5 DEF MarkGatewayDraining
  <2> QED
    BY <1>1, <2>1, StillOrdered DEF TypeOK
<1>6. CASE ResetAllLanes
  <2>1. ResetLanes(Lanes)
    BY <1>6 DEF ResetAllLanes
  <2> QED
    BY <2>1, ResetOrders
<1>7. CASE UNCHANGED vars
  <2>1. UNCHANGED <<queue, arrived, taskGeneration, outcome>>
    BY <1>7 DEF vars
  <2> QED
    BY <1>1, <2>1, StillOrdered DEF TypeOK
<1> QED
  BY <1>2, <1>3, <1>4, <1>5, <1>6, <1>7 DEF Next

(* The tasks of a lane start in the order in which their calls were        *)
(* accepted, whatever pumps, clears, resets and time-outs come between.    *)
THEOREM StartsInOrder == Spec => []StartOrder
<1>1. Init => OrderInv
  <2> SUFFICES ASSUME Init, NEW l \in Lanes
               PROVE  /\ Ordered(queue[l], arrived[l], Begun, Gone)
                      /\ \A t \in Entries(arrived[l]) : LaneOf[t] = l /\ outcome[t] # "uncalled"
    BY DEF OrderInv
  <2>1. queue[l] = <<>> /\ arrived[l] = <<>>
    BY DEF Init, InitWith
  <2>2. 1..Len(<<>>) = {}
    OBVIOUS
  <2> QED
    BY <2>1, <2>2 DEF Ordered, Distinct, Entries
<1>2. OrderInv /\ TypeOK => StartOrder
  <2> SUFFICES ASSUME OrderInv, TypeOK, NEW l \in Lanes,
                      NEW i \in 1..Len(arrived[l]), NEW j \in 1..Len(arrived[l]),
                      i < j, taskGeneration[arrived[l][j]] # -1
               PROVE  \/ taskGeneration[arrived[l][i]] # -1
                      \/ outcome[arrived[l][i]] = "cleared"
    BY DEF StartOrder
  <2>1. arrived[l][i] \in Tasks /\ arrived[l][j] \in Tasks
    BY DEF TypeOK
  <2>2. arrived[l][j] \in Begun
    BY <2>1 DEF Begun
  <2>3. arrived[l][i] \in Begun \cup Gone
    BY <2>2 DEF OrderInv, Ordered
  <2> QED
    BY <2>3 DEF Begun, Gone
<1>3. Spec => []OrderInv
  BY <1>1, StepOrders, Invariance, PTL DEF Spec
<1>4. IInv => TypeOK
  BY DEF IInv
<1> QED
  BY <1>2, <1>3, <1>4, Invariance, PTL
=============================================================================

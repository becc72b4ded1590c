----------------------- MODULE ReplyRunRegistryProofs -----------------------
(***************************************************************************)
(* Theorems about the registry of reply operations, for any keys, session  *)
(* ids, operations and waiters.  What the owners and the aborts do to an   *)
(* operation by itself is OpsSound.  What the maps say of the operations   *)
(* that are active is Filed: every action leaves the maps alone (Same), or *)
(* it creates one, changes its session id, or clears some (Cleared), and   *)
(* there is one lemma for each of these.                                   *)
(***************************************************************************)
EXTENDS ReplyRunRegistry, TLAPS

OpsSound ==
  \A o \in Ops :
    /\ op[o].owner = "none" => ~op[o].cleared
    /\ op[o].owner = "working" /\ op[o].cleared => op[o].result # "none"
    /\ op[o].handle = "live" => op[o].attached /\ op[o].result # "aborted"

(* What is under a key is active. *)
Listed == \A k \in Keys : active[k] # None => active[k] \in Active /\ KeyOf[active[k]] = k

HasIds == \A o \in Ops : IF o \in Active THEN op[o].sid \in ids[o] ELSE ids[o] = {}

(* An id that is bound is the present id of an active operation. *)
Keyed == \A i \in Ids : keyOf[i] # None => active[keyOf[i]] # None /\ op[active[keyOf[i]]].sid = i

Marked == Sharing(Active, ids) \subseteq crossed

Waitable == \A o \in Active \ crossed : \A i \in ids[o] : waitKey[i] = KeyOf[o]

(* A wait is for an operation that was created, under the key it has. *)
ForOne ==
  \A w \in Waiters :
    /\ waiter[w].for # None => op[waiter[w].for].owner # "none"
    /\ waiter[w].status = "waiting" =>
         /\ waiter[w].key # None
         /\ waiter[w].for \in Active \ crossed => KeyOf[waiter[w].for] = waiter[w].key

Filed ==
  /\ Listed /\ HasIds /\ Keyed /\ Registered /\ Findable
  /\ Marked /\ Waitable /\ ForOne /\ WaitersSound

IInv == TypeOK /\ OpsSound /\ Filed

-----------------------------------------------------------------------------
(* What a step that leaves the maps alone does to the operations.          *)
SameOps ==
  /\ Active' = Active
  /\ \A o \in Active : op'[o].sid = op[o].sid
  /\ \A o \in Ops : op'[o].owner = "none" <=> op[o].owner = "none"

Same == SameOps /\ UNCHANGED <<registry, ids, crossed>>

(* The operations in S are cleared: no other one is touched. *)
Cleared(S) ==
  /\ S \subseteq Ops
  /\ \A o \in S : op[o].owner # "none"
  /\ ClearState(S)
  /\ Active' = Active \ S
  /\ \A o \in Active \ S : op'[o].sid = op[o].sid
  /\ \A o \in Ops : op'[o].owner = "none" <=> op[o].owner = "none"

LEMMA ActiveOps == Active \subseteq Ops /\ None \notin Active
  BY RegistryAssumption DEF Active

(* RegType is the part of TypeOK that is about the maps. *)
RegType ==
  /\ active \in [Keys -> Ops \cup {None}]
  /\ sessionOf \in [Keys -> Ids \cup {None}]
  /\ keyOf \in [Ids -> Keys \cup {None}]
  /\ waitKey \in [Ids -> Keys \cup {None}]
  /\ waiter \in [Waiters -> WaiterType]
  /\ ids \in [Ops -> SUBSET Ids]
  /\ crossed \subseteq Active
  /\ \A k \in Keys : sessionOf[k] = IF active[k] = None THEN None ELSE op[active[k]].sid

OpTyped == op \in [Ops -> OpType]

LEMMA SplitType == TypeOK <=> RegType /\ OpTyped
  BY DEF TypeOK, RegType, OpTyped

LEMMA SameFiles == RegType /\ OpTyped /\ Filed /\ Same => RegType' /\ Filed'
<1> SUFFICES ASSUME RegType, OpTyped, Filed, Same PROVE RegType' /\ Filed'
  OBVIOUS
<1>1. UNCHANGED <<active, sessionOf, keyOf, waitKey, waiter, ids, crossed>> /\ Active' = Active
  BY DEF Same, SameOps, registry
<1>2. \A o \in Active : op'[o].sid = op[o].sid
  BY DEF Same, SameOps
<1>3. \A k \in Keys : active[k] # None => op'[active[k]].sid = op[active[k]].sid
  BY <1>2 DEF Filed, Listed
<1>4. RegType'
  BY <1>1, <1>3 DEF RegType
<1>5. Listed' /\ Registered' /\ Marked' /\ Waitable' /\ WaitersSound'
  BY <1>1 DEF Filed, Listed, Registered, Marked, Waitable, WaitersSound, Sharing
<1>6. HasIds' /\ Findable'
  BY <1>1, <1>2 DEF Filed, HasIds, Findable
<1>7. Keyed'
  BY <1>1, <1>3 DEF Filed, Keyed, RegType
<1>8. ForOne'
  <2>1. \A w \in Waiters : waiter[w].for \in Ops \cup {None}
    BY DEF RegType, WaiterType
  <2> QED
    BY <1>1, <2>1 DEF Filed, ForOne, Same, SameOps
<1> QED
  BY <1>4, <1>5, <1>6, <1>7, <1>8 DEF Filed

(* A new operation.                                                        *)
LEMMA CreateFiles ==
  ASSUME RegType, OpTyped, OpsSound, Filed, NEW o \in Ops, NEW i \in Ids, Create(o, i)
  PROVE  RegType' /\ Filed'
<1> DEFINE k == KeyOf[o]
           had == [ids EXCEPT ![o] = {i}]
<1> USE RegistryAssumption
<1>1. k \in Keys /\ active[k] = None /\ op[o].owner = "none" /\ o \notin Active
  BY DEF Create, Active
<1>2. /\ op'[o].owner = "working" /\ ~op'[o].cleared /\ op'[o].sid = i
      /\ \A p \in Ops \ {o} : op'[p] = op[p]
  BY DEF Create, OpTyped, OpType, OpsSound
<1>3. Active' = Active \cup {o}
  BY <1>2 DEF Active
<1>4. /\ active' = [active EXCEPT ![k] = o]
      /\ sessionOf' = [sessionOf EXCEPT ![k] = i]
      /\ keyOf' = [keyOf EXCEPT ![i] = k]
      /\ waitKey' = [waitKey EXCEPT ![i] = k]
      /\ ids' = had /\ waiter' = waiter
      /\ crossed' = crossed \cup Sharing(Active', ids')
  BY <1>3 DEF Create
<1>5. \A p \in Active : KeyOf[p] # k /\ p # o /\ p \in Ops
  BY <1>1, ActiveOps DEF Filed, Registered
<1>6. \A p \in Active : p \notin crossed' => i \notin ids[p] /\ p \notin crossed
  <2> SUFFICES ASSUME NEW p \in Active, p \notin crossed' PROVE i \notin ids[p] /\ p \notin crossed
    OBVIOUS
  <2>1. ids'[o] = {i} /\ ids'[p] = ids[p]
    BY <1>4, <1>5 DEF RegType
  <2>2. p \notin Sharing(Active', ids')
    BY <1>4
  <2> QED
    BY <1>3, <1>4, <1>5, <2>1, <2>2 DEF Sharing
<1>7. ids' \in [Ops -> SUBSET Ids] /\ ids'[o] = {i} /\ \A p \in Ops \ {o} : ids'[p] = ids[p]
  BY <1>4 DEF RegType
<1>8. \A q \in Keys : active'[q] = IF q = k THEN o ELSE active[q]
  BY <1>1, <1>4 DEF RegType
<1>9. \A q \in Keys \ {k} : active[q] # None => active[q] \in Active /\ active[q] # o
  BY <1>5 DEF Filed, Listed
<1>10. RegType'
  <2>1. Sharing(Active', ids') \subseteq Active'
    BY DEF Sharing
  <2>2. \A q \in Keys : sessionOf'[q] = IF active'[q] = None THEN None ELSE op'[active'[q]].sid
    BY <1>1, <1>2, <1>4, <1>8, <1>9 DEF RegType
  <2> QED
    BY <1>1, <1>3, <1>4, <1>7, <2>1, <2>2 DEF RegType
<1>11. Listed'
  BY <1>3, <1>8, <1>9 DEF Filed, Listed
<1>12. HasIds'
  BY <1>1, <1>2, <1>3, <1>7 DEF Filed, HasIds
<1>13. Keyed'
  <2> SUFFICES ASSUME NEW j \in Ids, keyOf'[j] # None
               PROVE  active'[keyOf'[j]] # None /\ op'[active'[keyOf'[j]]].sid = j
    BY DEF Keyed
  <2>1. CASE j = i
    BY <1>1, <1>2, <1>4, <2>1 DEF RegType
  <2>2. CASE j # i
    <3>1. keyOf'[j] = keyOf[j] /\ keyOf[j] \in Keys
      BY <1>4, <2>2 DEF RegType
    <3>2. active[keyOf[j]] # None /\ op[active[keyOf[j]]].sid = j
      BY <3>1 DEF Filed, Keyed
    <3>3. keyOf[j] # k
      BY <1>1, <3>2
    <3> QED
      BY <1>2, <1>8, <1>9, <3>1, <3>2, <3>3 DEF RegType
  <2> QED
    BY <2>1, <2>2
<1>14. Registered'
  BY <1>3, <1>5, <1>8 DEF Filed, Registered
<1>15. Findable'
  <2> SUFFICES ASSUME NEW p \in Active', p \notin crossed'
               PROVE  keyOf'[op'[p].sid] = KeyOf[p]
    BY DEF Findable
  <2>1. CASE p = o
    BY <1>2, <1>4, <2>1 DEF RegType
  <2>2. CASE p # o
    <3>1. p \in Active /\ i \notin ids[p] /\ p \notin crossed
      BY <1>3, <1>6, <2>2
    <3>2. op[p].sid \in ids[p] /\ op'[p] = op[p] /\ keyOf[op[p].sid] = KeyOf[p]
      BY <1>2, <1>5, <3>1 DEF Filed, HasIds, Findable
    <3> QED
      BY <1>4, <3>1, <3>2 DEF RegType
  <2> QED
    BY <2>1, <2>2
<1>16. Marked'
  BY <1>4 DEF Marked
<1>17. Waitable'
  <2> SUFFICES ASSUME NEW p \in Active', p \notin crossed', NEW j \in ids'[p]
               PROVE  waitKey'[j] = KeyOf[p]
    BY DEF Waitable
  <2>1. CASE p = o
    BY <1>4, <1>7, <2>1 DEF RegType
  <2>2. CASE p # o
    <3>1. p \in Active /\ i \notin ids[p] /\ p \notin crossed
      BY <1>3, <1>6, <2>2
    <3>2. j \in ids[p] /\ j \in Ids /\ j # i
      BY <1>5, <1>7, <2>2, <3>1 DEF RegType
    <3> QED
      BY <1>4, <3>1, <3>2 DEF RegType, Filed, Waitable
  <2> QED
    BY <2>1, <2>2
<1>18. ForOne'
  <2> SUFFICES ASSUME NEW w \in Waiters
               PROVE  /\ waiter[w].for # None => op'[waiter[w].for].owner # "none"
                      /\ waiter[w].status = "waiting" =>
                           /\ waiter[w].key # None
                           /\ waiter[w].for \in Active' \ crossed' =>
                                KeyOf[waiter[w].for] = waiter[w].key
    BY <1>4 DEF ForOne
  <2>1. waiter[w].for \in Ops \cup {None}
    BY DEF RegType, WaiterType
  <2>2. waiter[w].for # None => waiter[w].for # o
    BY <1>1 DEF Filed, ForOne
  <2>3. o # None
    OBVIOUS
  <2> QED
    BY <1>2, <1>3, <1>4, <2>1, <2>2, <2>3 DEF Filed, ForOne
<1>19. WaitersSound'
  <2> SUFFICES ASSUME NEW w \in Waiters
               PROVE  /\ waiter[w].status = "waiting" => active'[waiter[w].key] # None
                      /\ waiter[w].status = "ended" => waiter[w].for \notin Active' \ crossed'
    BY <1>4 DEF WaitersSound
  <2>1. waiter[w].for # o
    BY <1>1 DEF Filed, ForOne
  <2>2. waiter[w].status = "waiting" => waiter[w].key \in Keys
    BY DEF RegType, WaiterType, Filed, ForOne
  <2>3. o # None
    OBVIOUS
  <2> QED
    BY <1>3, <1>4, <1>8, <2>1, <2>2, <2>3 DEF Filed, WaitersSound
<1> QED
  BY <1>10, <1>11, <1>12, <1>13, <1>14, <1>15, <1>16, <1>17, <1>18, <1>19 DEF Filed
(* Another session id of an operation that compacts or flushes.            *)
LEMMA UpdateFiles ==
  ASSUME RegType, OpTyped, OpsSound, Filed, NEW o \in Ops, NEW i \in Ids, UpdateSessionId(o, i)
  PROVE  RegType' /\ Filed'
<1> DEFINE k == KeyOf[o]
           old == op[o].sid
<1> USE RegistryAssumption
<1>1. o \in Active
  BY DEF UpdateSessionId, Works, OpsSound, Active
<1>2. /\ k \in Keys /\ active[k] = o /\ old \in ids[o] /\ old \in Ids /\ i # old
      /\ keyOf[i] \in {None, k}
  BY <1>1 DEF UpdateSessionId, BoundElsewhere, Filed, Registered, HasIds, RegType
<1>3. op'[o] = [op[o] EXCEPT !.sid = i] /\ \A p \in Ops \ {o} : op'[p] = op[p]
  BY DEF UpdateSessionId, OpTyped
<1>4. op'[o].sid = i /\ op'[o].owner = op[o].owner /\ op'[o].cleared = op[o].cleared
  BY <1>3 DEF OpTyped, OpType
<1>5. Active' = Active
  BY <1>3, <1>4 DEF Active
<1>6. /\ active' = active /\ waiter' = waiter
      /\ sessionOf' = [sessionOf EXCEPT ![k] = i]
      /\ keyOf' = [keyOf EXCEPT ![old] = None, ![i] = k]
      /\ waitKey' = [waitKey EXCEPT ![old] = k, ![i] = k]
      /\ ids' = [ids EXCEPT ![o] = @ \cup {i}]
      /\ crossed' = crossed \cup Sharing(Active', ids')
  BY <1>5 DEF UpdateSessionId, Rebound, StillWaitable
<1>7. /\ ids' \in [Ops -> SUBSET Ids]
      /\ ids'[o] = ids[o] \cup {i} /\ \A p \in Ops \ {o} : ids'[p] = ids[p]
  BY <1>6 DEF RegType
<1>8. \A p \in Active \ {o} : /\ p \in Ops /\ KeyOf[p] # k
                              /\ p \notin crossed' => /\ p \notin crossed
                                                      /\ old \notin ids[p] /\ i \notin ids[p]
  <2> SUFFICES ASSUME NEW p \in Active \ {o}
               PROVE  /\ p \in Ops /\ KeyOf[p] # k
                      /\ p \notin crossed' => /\ p \notin crossed
                                              /\ old \notin ids[p] /\ i \notin ids[p]
    OBVIOUS
  <2>1. p \in Ops /\ KeyOf[p] # k
    BY <1>2, ActiveOps DEF Filed, Registered
  <2>2. ASSUME p \notin crossed' PROVE ids'[p] \cap ids'[o] = {}
    <3>1. p \notin Sharing(Active', ids')
      BY <1>6, <2>2
    <3>2. p \in Active' /\ o \in Active' \ {p}
      BY <1>1, <1>5
    <3> QED
      BY <3>1, <3>2 DEF Sharing
  <2>3. ids'[p] = ids[p] /\ old \in ids'[o] /\ i \in ids'[o]
    BY <1>2, <1>7, <2>1
  <2> QED
    BY <1>6, <2>1, <2>2, <2>3
<1>9. \A j \in Ids : keyOf'[j] = IF j = i THEN k ELSE IF j = old THEN None ELSE keyOf[j]
  BY <1>2, <1>6 DEF RegType
<1>10. \A j \in Ids : waitKey'[j] = IF j = i \/ j = old THEN k ELSE waitKey[j]
  BY <1>2, <1>6 DEF RegType
<1>11. \A q \in Keys \ {k} : active[q] # None => active[q] \in Active \ {o}
  BY <1>2 DEF Filed, Listed
<1>12. RegType'
  <2>1. Sharing(Active', ids') \subseteq Active'
    BY DEF Sharing
  <2>2. \A q \in Keys : sessionOf'[q] = IF active'[q] = None THEN None ELSE op'[active'[q]].sid
    <3> SUFFICES ASSUME NEW q \in Keys
                 PROVE  sessionOf'[q] = IF active[q] = None THEN None ELSE op'[active[q]].sid
      BY <1>6
    <3>1. CASE q = k
      BY <1>2, <1>4, <1>6, <3>1 DEF RegType
    <3>2. CASE q # k
      <4>1. active[q] # None => op'[active[q]] = op[active[q]]
        BY <1>3, <1>8, <1>11, <3>2
      <4> QED
        BY <1>6, <3>2, <4>1 DEF RegType
    <3> QED
      BY <3>1, <3>2
  <2>3. keyOf' \in [Ids -> Keys \cup {None}] /\ waitKey' \in [Ids -> Keys \cup {None}]
    BY <1>2, <1>6 DEF RegType
  <2> QED
    BY <1>2, <1>5, <1>6, <1>7, <2>1, <2>2, <2>3 DEF RegType
<1>13. Listed' /\ Registered' /\ Marked'
  BY <1>5, <1>6 DEF Filed, Listed, Registered, Marked
<1>14. HasIds'
  BY <1>1, <1>3, <1>4, <1>5, <1>7 DEF Filed, HasIds
<1>15. Keyed'
  <2> SUFFICES ASSUME NEW j \in Ids, keyOf'[j] # None
               PROVE  active[keyOf'[j]] # None /\ op'[active[keyOf'[j]]].sid = j
    BY <1>6 DEF Keyed
  <2>1. CASE j = i
    BY <1>2, <1>4, <1>9, <2>1
  <2>2. CASE j # i
    <3>1. j # old /\ keyOf'[j] = keyOf[j] /\ keyOf[j] \in Keys
      BY <1>9, <2>2 DEF RegType
    <3>2. active[keyOf[j]] # None /\ op[active[keyOf[j]]].sid = j
      BY <3>1 DEF Filed, Keyed
    <3>3. keyOf[j] # k
      BY <1>2, <3>1, <3>2
    <3> QED
      BY <1>3, <1>8, <1>11, <3>1, <3>2, <3>3
  <2> QED
    BY <2>1, <2>2
<1>16. Findable'
  <2> SUFFICES ASSUME NEW p \in Active, p \notin crossed'
               PROVE  keyOf'[op'[p].sid] = KeyOf[p]
    BY <1>5 DEF Findable
  <2>1. CASE p = o
    BY <1>4, <1>9, <2>1
  <2>2. CASE p # o
    <3>1. p \in Ops /\ p \notin crossed /\ old \notin ids[p] /\ i \notin ids[p]
      BY <1>8, <2>2
    <3>2. /\ op[p].sid \in ids[p] /\ op[p].sid \in Ids
          /\ op'[p] = op[p] /\ keyOf[op[p].sid] = KeyOf[p]
      BY <1>3, <2>2, <3>1 DEF Filed, HasIds, Findable, RegType
    <3> QED
      BY <1>9, <3>1, <3>2
  <2> QED
    BY <2>1, <2>2
<1>17. Waitable'
  <2> SUFFICES ASSUME NEW p \in Active, p \notin crossed', NEW j \in ids'[p]
               PROVE  waitKey'[j] = KeyOf[p]
    BY <1>5 DEF Waitable
  <2>1. CASE p = o
    <3>1. o \notin crossed
      BY <1>6, <2>1
    <3>2. j = i \/ (j \in ids[o] /\ j \in Ids)
      BY <1>7, <2>1 DEF RegType
    <3> QED
      BY <1>1, <1>10, <2>1, <3>1, <3>2 DEF Filed, Waitable
  <2>2. CASE p # o
    <3>1. p \in Ops /\ p \notin crossed /\ old \notin ids[p] /\ i \notin ids[p]
      BY <1>8, <2>2
    <3>2. j \in ids[p] /\ j \in Ids /\ j # old /\ j # i
      BY <1>7, <2>2, <3>1 DEF RegType
    <3> QED
      BY <1>10, <3>1, <3>2 DEF Filed, Waitable
  <2> QED
    BY <2>1, <2>2
<1>18. \A w \in Waiters : waiter[w].for \in Ops \cup {None}
  BY DEF RegType, WaiterType
<1>19. Active' \ crossed' \subseteq Active \ crossed
  BY <1>5, <1>6
<1>20. ForOne'
  <2>1. \A p \in Ops : op'[p].owner = op[p].owner
    BY <1>3, <1>4
  <2> QED
    BY <1>6, <1>18, <1>19, <2>1 DEF Filed, ForOne
<1>21. WaitersSound'
  BY <1>6, <1>18, <1>19 DEF Filed, WaitersSound
<1> QED
  BY <1>12, <1>13, <1>14, <1>15, <1>16, <1>17, <1>20, <1>21 DEF Filed

(* Operations that are cleared, for the first time or again.               *)
LEMMA ClearFiles ==
  ASSUME RegType, OpTyped, OpsSound, Filed, NEW S, Cleared(S)
  PROVE  RegType' /\ Filed'
<1> DEFINE gone == {KeyOf[p] : p \in Unclear(S)}
<1> USE RegistryAssumption
<1>1. Unclear(S) = S \cap Active
  BY DEF Cleared, Unclear, Active
<1>2. /\ Active' = Active \ S /\ S \subseteq Ops
      /\ \A p \in Active \ S : op'[p].sid = op[p].sid
      /\ \A p \in Ops : op'[p].owner = "none" <=> op[p].owner = "none"
  BY DEF Cleared
<1>3. \A p \in Active : p \in Ops /\ active[KeyOf[p]] = p /\ KeyOf[p] \in Keys
  BY ActiveOps DEF Filed, Registered
<1>4. \A p \in Active : KeyOf[p] \in gone <=> p \in S
  <2> SUFFICES ASSUME NEW p \in Active PROVE KeyOf[p] \in gone <=> p \in S
    OBVIOUS
  <2>1. ASSUME NEW q \in Unclear(S), KeyOf[q] = KeyOf[p] PROVE p = q
    BY <1>1, <1>3, <2>1
  <2> QED
    BY <1>1, <2>1
<1>5. /\ active' = [q \in Keys |-> IF q \in gone THEN None ELSE active[q]]
      /\ sessionOf' = [q \in Keys |-> IF q \in gone THEN None ELSE sessionOf[q]]
      /\ keyOf' = [j \in Ids |-> IF \E p \in Unclear(S) : op[p].sid = j /\ keyOf[j] = KeyOf[p]
                                 THEN None ELSE keyOf[j]]
      /\ waitKey' = [j \in Ids |-> IF waitKey[j] \in gone THEN None ELSE waitKey[j]]
      /\ waiter' = [w \in Waiters |->
           IF waiter[w].status = "waiting" /\ waiter[w].key \in gone
           THEN Told(waiter[w].for) ELSE waiter[w]]
      /\ ids' = [p \in Ops |-> IF p \in S THEN {} ELSE ids[p]]
      /\ crossed' = crossed \ S
  BY DEF Cleared, ClearState
<1> HIDE DEF gone
<1>6. \A q \in Keys \ gone : active[q] # None => active[q] \in Active \ S
  BY <1>4 DEF Filed, Listed
<1>7. Active' \ crossed' = (Active \ crossed) \ S
  BY <1>2, <1>5
<1>8. RegType'
  <2>1. \A q \in Keys : sessionOf'[q] = IF active'[q] = None THEN None ELSE op'[active'[q]].sid
    BY <1>2, <1>5, <1>6 DEF RegType
  <2>2. waiter' \in [Waiters -> WaiterType]
    BY <1>5 DEF RegType, WaiterType, Told
  <2>3. /\ active' \in [Keys -> Ops \cup {None}]
        /\ sessionOf' \in [Keys -> Ids \cup {None}]
        /\ waitKey' \in [Ids -> Keys \cup {None}]
        /\ ids' \in [Ops -> SUBSET Ids]
    BY <1>5 DEF RegType
  <2>4. keyOf' \in [Ids -> Keys \cup {None}] /\ crossed' \subseteq Active'
    BY <1>2, <1>5 DEF RegType
  <2> QED
    BY <2>1, <2>2, <2>3, <2>4 DEF RegType
<1>9. Listed'
  BY <1>2, <1>5, <1>6 DEF Filed, Listed
<1>10. Registered'
  BY <1>2, <1>3, <1>4, <1>5 DEF Registered
<1>11. HasIds'
  BY <1>2, <1>5 DEF Filed, HasIds
<1>12. Keyed'
  <2> SUFFICES ASSUME NEW j \in Ids, keyOf'[j] # None
               PROVE  active'[keyOf'[j]] # None /\ op'[active'[keyOf'[j]]].sid = j
    BY DEF Keyed
  <2>1. /\ keyOf'[j] = keyOf[j] /\ keyOf[j] \in Keys
        /\ \A p \in Unclear(S) : ~(op[p].sid = j /\ keyOf[j] = KeyOf[p])
    BY <1>5 DEF RegType
  <2>2. active[keyOf[j]] # None /\ op[active[keyOf[j]]].sid = j
    BY <2>1 DEF Filed, Keyed
  <2>3. active[keyOf[j]] \in Active /\ KeyOf[active[keyOf[j]]] = keyOf[j]
    BY <2>1, <2>2 DEF Filed, Listed
  <2>4. active[keyOf[j]] \notin S
    BY <1>1, <2>1, <2>2, <2>3
  <2>5. keyOf[j] \notin gone
    BY <1>4, <2>3, <2>4
  <2> QED
    BY <1>2, <1>5, <2>1, <2>2, <2>3, <2>4, <2>5
<1>13. Findable'
  <2> SUFFICES ASSUME NEW p \in Active', p \notin crossed'
               PROVE  keyOf'[op'[p].sid] = KeyOf[p]
    BY DEF Findable
  <2>1. p \in Active /\ p \notin crossed /\ p \notin S /\ op'[p].sid = op[p].sid
    BY <1>2, <1>7
  <2>2. keyOf[op[p].sid] = KeyOf[p] /\ op[p].sid \in Ids
    BY <1>3, <2>1 DEF Filed, Findable, HasIds, RegType
  <2>3. \A q \in Unclear(S) : KeyOf[q] # KeyOf[p]
    BY <1>1, <1>3, <2>1
  <2> QED
    BY <1>5, <2>1, <2>2, <2>3
<1>14. Marked'
  <2>1. \A p \in Active' : p \in Active /\ p \notin S /\ ids'[p] = ids[p]
    BY <1>2, <1>3, <1>5
  <2>2. Sharing(Active', ids') \subseteq Sharing(Active, ids) \ S
    BY <2>1 DEF Sharing
  <2> QED
    BY <1>5, <2>2 DEF Filed, Marked
<1>15. Waitable'
  <2> SUFFICES ASSUME NEW p \in Active \ S, p \notin crossed, NEW j \in ids'[p]
               PROVE  waitKey'[j] = KeyOf[p]
    BY <1>7 DEF Waitable
  <2>1. j \in ids[p] /\ j \in Ids
    BY <1>3, <1>5 DEF RegType
  <2>2. waitKey[j] = KeyOf[p] /\ KeyOf[p] \notin gone
    BY <1>4, <2>1 DEF Filed, Waitable
  <2> QED
    BY <1>5, <2>1, <2>2
<1>16. \A w \in Waiters :
         /\ waiter[w].for \in Ops \cup {None}
         /\ waiter'[w].status = "waiting" => waiter'[w] = waiter[w]
         /\ waiter'[w].for = waiter[w].for
  BY <1>5 DEF RegType, WaiterType, Told
<1>17. ForOne'
  <2> SUFFICES ASSUME NEW w \in Waiters
               PROVE  /\ waiter'[w].for # None => op'[waiter'[w].for].owner # "none"
                      /\ waiter'[w].status = "waiting" =>
                           /\ waiter'[w].key # None
                           /\ waiter'[w].for \in Active' \ crossed' =>
                                KeyOf[waiter'[w].for] = waiter'[w].key
    BY DEF ForOne
  <2> QED
    BY <1>2, <1>7, <1>16 DEF Filed, ForOne
<1>18. WaitersSound'
  <2> SUFFICES ASSUME NEW w \in Waiters
               PROVE  /\ waiter'[w].status = "waiting" => active'[waiter'[w].key] # None
                      /\ waiter'[w].status = "ended" => waiter'[w].for \notin Active' \ crossed'
    BY DEF WaitersSound
  <2>1. waiter[w].status = "waiting" => waiter[w].key \in Keys /\ active[waiter[w].key] # None
    BY DEF RegType, WaiterType, Filed, ForOne, WaitersSound
  <2>2. CASE waiter[w].status = "waiting" /\ waiter[w].key \in gone
    <3>1. waiter'[w] = Told(waiter[w].for)
      BY <1>5, <2>2
    <3>2. ASSUME waiter[w].for \in Active \ crossed PROVE waiter[w].for \in S
      BY <1>4, <2>2, <3>2 DEF Filed, ForOne
    <3> QED
      BY <1>7, <3>1, <3>2 DEF Told
  <2>3. CASE ~(waiter[w].status = "waiting" /\ waiter[w].key \in gone)
    <3>1. waiter'[w] = waiter[w]
      BY <1>5, <2>3
    <3> QED
      BY <1>5, <1>7, <2>1, <2>3, <3>1 DEF Filed, WaitersSound
  <2> QED
    BY <2>2, <2>3
<1> QED
  BY <1>8, <1>9, <1>10, <1>11, <1>12, <1>13, <1>14, <1>15, <1>17, <1>18 DEF Filed
(* A wait that begins, or is over at once.                                 *)
LEMMA WaitFiles ==
  ASSUME RegType, OpTyped, Filed, NEW v \in Waiters, NEW k \in Keys \cup {None},
         NEW o \in Ops \cup {None}, WaitForIdle(v, k, o),
         o # None => op[o].owner # "none",
         o \in Active \ crossed => k # None /\ KeyOf[o] = k
  PROVE  RegType' /\ Filed'
<1> USE RegistryAssumption
<1>1. UNCHANGED <<active, sessionOf, keyOf, waitKey, op, ids, crossed, Active>>
  BY DEF WaitForIdle, Active
<1>2. \A w \in Waiters \ {v} : waiter'[w] = waiter[w]
  BY DEF WaitForIdle, RegType
<1>3. /\ waiter' \in [Waiters -> WaiterType]
      /\ waiter'[v].for = o
      /\ waiter'[v].status = "waiting" => /\ waiter'[v].key = k /\ k # None
                                         /\ active[k] # None
      /\ waiter'[v].status = "ended" => k = None \/ active[k] = None
  <2>1. CASE k = None \/ active[k] = None
    <3>1. Told(o) \in WaiterType /\ Told(o).for = o /\ Told(o).status = "ended"
      BY DEF Told, WaiterType
    <3>2. waiter' = [waiter EXCEPT ![v] = Told(o)]
      BY <2>1 DEF WaitForIdle
    <3> QED
      BY <2>1, <3>1, <3>2 DEF RegType
  <2>2. CASE ~(k = None \/ active[k] = None)
    BY <2>2 DEF WaitForIdle, RegType, WaiterType
  <2> QED
    BY <2>1, <2>2
<1>4. waiter'[v].status = "ended" => o \notin Active \ crossed
  BY <1>3, ActiveOps DEF Filed, Registered
<1>5. RegType'
  BY <1>1, <1>3 DEF RegType
<1>6. ForOne'
  BY <1>1, <1>2, <1>3 DEF Filed, ForOne
<1>7. WaitersSound'
  BY <1>1, <1>2, <1>3, <1>4 DEF Filed, WaitersSound
<1> QED
  BY <1>1, <1>5, <1>6, <1>7 DEF Filed, Listed, HasIds, Keyed, Registered, Findable, Marked, Waitable,
                                Sharing

LEMMA WaitsFile ==
  ASSUME RegType, OpTyped, Filed, NEW w \in Waiters, Waits(w)
  PROVE  RegType' /\ Filed'
<1> USE RegistryAssumption
<1>1. ASSUME NEW k \in Keys, WaitByKey(w, k) PROVE RegType' /\ Filed'
  <2>1. active[k] \in Ops \cup {None}
    BY DEF RegType
  <2>2. active[k] # None => op[active[k]].owner # "none" /\ KeyOf[active[k]] = k
    BY DEF Filed, Listed, Active
  <2>3. None \notin Active
    BY ActiveOps
  <2> QED
    BY <1>1, <2>1, <2>2, <2>3, WaitFiles DEF WaitByKey
<1>2. ASSUME NEW i \in Ids, WaitForReplyRunEndBySessionId(w, i) PROVE RegType' /\ Filed'
  <2> DEFINE k == IF keyOf[i] # None THEN keyOf[i] ELSE waitKey[i]
             o == Named(i)
  <2>1. k \in Keys \cup {None}
    BY DEF RegType
  <2>2. o = None \/ (o \in Active \ crossed /\ i \in ids[o])
    BY DEF Named
  <2>3. CASE o = None
    BY <1>2, <2>1, <2>3, WaitFiles, ActiveOps DEF WaitForReplyRunEndBySessionId
  <2>4. CASE o \in Active \ crossed /\ i \in ids[o]
    <3>1. o \in Ops /\ op[o].owner # "none" /\ KeyOf[o] \in Keys /\ waitKey[i] = KeyOf[o]
      BY <2>4, ActiveOps DEF Active, Filed, Waitable
    <3>2. ASSUME keyOf[i] # None PROVE keyOf[i] = KeyOf[o]
      <4> DEFINE p == active[keyOf[i]]
      <4>1. keyOf[i] \in Keys /\ p # None /\ op[p].sid = i
        BY <3>2 DEF RegType, Filed, Keyed
      <4>2. p \in Active /\ p \in Ops /\ KeyOf[p] = keyOf[i]
        BY <4>1, ActiveOps DEF Filed, Listed
      <4>3. i \in ids[p]
        BY <4>1, <4>2 DEF Filed, HasIds
      <4>4. o \notin Sharing(Active, ids)
        BY <2>4 DEF Filed, Marked
      <4> HIDE DEF p, o
      <4>5. p = o
        BY <2>4, <4>2, <4>3, <4>4 DEF Sharing
      <4> QED
        BY <4>2, <4>5
    <3>3. k = KeyOf[o] /\ k # None
      BY <3>1, <3>2
    <3>4. WaitForIdle(w, k, o)
      BY <1>2 DEF WaitForReplyRunEndBySessionId
    <3> HIDE DEF k, o
    <3> QED
      BY <2>1, <3>1, <3>3, <3>4, WaitFiles
  <2> QED
    BY <2>2, <2>3, <2>4
<1>3. CASE WaitTimeout(w)
  <2>1. /\ UNCHANGED <<active, sessionOf, keyOf, waitKey, op, ids, crossed, Active>>
        /\ waiter' = [waiter EXCEPT ![w] = NoWait]
    BY <1>3 DEF WaitTimeout, Active
  <2>2. NoWait \in WaiterType /\ NoWait.status = "idle" /\ NoWait.for = None
    BY DEF NoWait, WaiterType
  <2>3. /\ waiter' \in [Waiters -> WaiterType] /\ waiter'[w] = NoWait
        /\ \A v \in Waiters \ {w} : waiter'[v] = waiter[v]
    BY <2>1, <2>2 DEF RegType
  <2>4. RegType'
    BY <2>1, <2>3 DEF RegType
  <2>5. ForOne' /\ WaitersSound'
    BY <2>1, <2>2, <2>3 DEF Filed, ForOne, WaitersSound
  <2> QED
    BY <2>1, <2>4, <2>5 DEF Filed, Listed, HasIds, Keyed, Registered, Findable, Marked, Waitable,
                            Sharing
<1> QED
  BY <1>1, <1>2, <1>3 DEF Waits
-----------------------------------------------------------------------------
(* What a step does to one operation by itself.                            *)
OneSound(r) ==
  /\ r.owner = "none" => ~r.cleared
  /\ r.owner = "working" /\ r.cleared => r.result # "none"
  /\ r.handle = "live" => r.attached /\ r.result # "aborted"

LEMMA OneStep ==
  ASSUME OpTyped, OpsSound, NEW o \in Ops, NEW r \in OpType, OneSound(r),
         op' = [op EXCEPT ![o] = r]
  PROVE  OpTyped' /\ OpsSound'
  BY DEF OpTyped, OpsSound, OneSound

(* It stays what it is for the maps ...                                    *)
LEMMA OneSame ==
  ASSUME OpTyped, NEW o \in Ops, NEW r, op' = [op EXCEPT ![o] = r],
         r.owner = op[o].owner, r.sid = op[o].sid, r.cleared = op[o].cleared,
         UNCHANGED <<registry, ids, crossed>>
  PROVE  Same
<1>1. \A p \in Ops : /\ op'[p].owner = op[p].owner /\ op'[p].sid = op[p].sid
                     /\ op'[p].cleared = op[p].cleared
  BY DEF OpTyped
<1> QED
  BY <1>1, ActiveOps DEF Same, SameOps, Active

(* ... or it is cleared.                                                   *)
LEMMA OneCleared ==
  ASSUME OpTyped, NEW o \in Ops, NEW r, op' = [op EXCEPT ![o] = r],
         op[o].owner # "none", r.owner # "none", r.cleared, ClearState({o})
  PROVE  Cleared({o})
<1>1. op'[o] = r /\ \A p \in Ops \ {o} : op'[p] = op[p]
  BY DEF OpTyped
<1> QED
  BY <1>1 DEF Cleared, Active

LEMMA FailSteps ==
  ASSUME OpTyped, OpsSound, NEW o \in Ops, op[o].owner # "none", Fail(o)
  PROVE  Cleared({o}) /\ OpTyped' /\ OpsSound'
<1>1. op[o] \in OpType
  BY DEF OpTyped
<1>2. Failed(o) \in OpType /\ Failed(o).owner = op[o].owner /\ Failed(o).cleared
      /\ Failed(o).result # "none"
  BY <1>1 DEF Failed, OpType
<1>3. OneSound(Failed(o))
  BY <1>1, <1>2 DEF OneSound, Failed, OpsSound, OpType
<1> QED
  BY <1>2, <1>3, OneStep, OneCleared DEF Fail

LEMMA AbortSteps ==
  ASSUME OpTyped, OpsSound, NEW S, S \subseteq Active, Abort(S)
  PROVE  Cleared({o \in S : op[o].phase = "queued"}) /\ OpTyped' /\ OpsSound'
<1> DEFINE Q == {o \in S : op[o].phase = "queued"}
<1>1. \A o \in Ops : op'[o] = IF o \in S THEN Aborted(o) ELSE op[o]
  BY DEF Abort
<1>2. ASSUME NEW o \in S
      PROVE  /\ Aborted(o) \in OpType
             /\ Aborted(o).owner = op[o].owner /\ Aborted(o).sid = op[o].sid
             /\ Aborted(o).cleared = (o \in Q)
             /\ OneSound(Aborted(o))
  <2>1. o \in Ops /\ op[o] \in OpType /\ op[o].owner # "none" /\ op[o].cleared = FALSE
    BY ActiveOps DEF OpTyped, OpType, Active
  <2>2. /\ Aborted(o).owner = op[o].owner /\ Aborted(o).sid = op[o].sid
        /\ Aborted(o).cleared = (op[o].phase = "queued")
        /\ Aborted(o).result = IF op[o].result = "none" THEN "aborted" ELSE op[o].result
        /\ Aborted(o).handle = IF op[o].attached THEN "cancelled" ELSE op[o].handle
        /\ Aborted(o).attached = op[o].attached
        /\ Aborted(o) \in OpType
    BY <2>1 DEF Aborted, OpType
  <2>3. OneSound(Aborted(o))
    BY <2>1, <2>2 DEF OneSound, OpsSound
  <2> QED
    BY <2>2, <2>3
<1>3. OpTyped' /\ OpsSound'
  <2>1. op' \in [Ops -> OpType]
    BY <1>2 DEF Abort, OpTyped
  <2> QED
    BY <1>1, <1>2, <2>1 DEF OpTyped, OpsSound, OneSound
<1>4. \A o \in Ops : /\ op'[o].owner = op[o].owner /\ op'[o].sid = op[o].sid
                     /\ op'[o].cleared = (op[o].cleared \/ o \in Q)
  <2> SUFFICES ASSUME NEW o \in Ops
               PROVE  /\ op'[o].owner = op[o].owner /\ op'[o].sid = op[o].sid
                      /\ op'[o].cleared = (op[o].cleared \/ o \in Q)
    OBVIOUS
  <2>1. op[o].cleared \in BOOLEAN /\ (o \in S => op[o].cleared = FALSE)
    BY DEF OpTyped, OpType, Active
  <2>2. CASE o \in S
    <3> HIDE DEF Q
    <3> QED
      BY <1>1, <1>2, <2>1, <2>2
  <2>3. CASE o \notin S
    BY <1>1, <2>1, <2>3
  <2> QED
    BY <2>2, <2>3
<1>5. Q \subseteq Ops /\ (\A o \in Q : op[o].owner # "none") /\ ClearState(Q)
  BY ActiveOps DEF Abort, Active
<1> HIDE DEF Q
<1>6. Active' = Active \ Q
  BY <1>4 DEF Active
<1>7. Cleared(Q)
  BY <1>4, <1>5, <1>6, ActiveOps DEF Cleared
<1> QED
  BY <1>3, <1>7 DEF Q
(* The owner of an operation that is registered, and nobody else's maps.   *)
LEMMA OwnerStep ==
  ASSUME RegType, OpTyped, OpsSound, Filed, NEW o \in Ops, Owner(o)
  PROVE  RegType' /\ OpTyped' /\ OpsSound' /\ Filed'
<1>0. op[o] \in OpType /\ OneSound(op[o])
  BY DEF OpTyped, OpsSound, OneSound
<1>1. ASSUME NEW i \in Ids, Create(o, i) PROVE RegType' /\ OpTyped' /\ OpsSound' /\ Filed'
  <2> DEFINE r == [op[o] EXCEPT !.owner = "working", !.sid = i]
  <2>1. op' = [op EXCEPT ![o] = r] /\ op[o].owner = "none"
    BY <1>1 DEF Create
  <2>2. r \in OpType /\ OneSound(r)
    BY <1>0, <2>1 DEF OpType, OneSound
  <2> HIDE DEF r
  <2> QED
    BY <1>1, <2>1, <2>2, OneStep, CreateFiles
<1>2. ASSUME NEW i \in Ids, UpdateSessionId(o, i)
      PROVE RegType' /\ OpTyped' /\ OpsSound' /\ Filed'
  <2> DEFINE r == [op[o] EXCEPT !.sid = i]
  <2>1. op' = [op EXCEPT ![o] = r]
    BY <1>2 DEF UpdateSessionId
  <2>2. r \in OpType /\ OneSound(r)
    BY <1>0 DEF OpType, OneSound
  <2> HIDE DEF r
  <2> QED
    BY <1>2, <2>1, <2>2, OneStep, UpdateFiles
<1>3. ASSUME NEW next \in Phases, SetPhase(o, next)
      PROVE RegType' /\ OpTyped' /\ OpsSound' /\ Filed'
  <2> DEFINE r == [op[o] EXCEPT !.phase = next]
  <2>1. op' = [op EXCEPT ![o] = r] /\ UNCHANGED <<registry, ids, crossed>>
    BY <1>3 DEF SetPhase
  <2>2. /\ r \in OpType /\ OneSound(r)
        /\ r.owner = op[o].owner /\ r.sid = op[o].sid /\ r.cleared = op[o].cleared
    BY <1>0 DEF OpType, OneSound
  <2> HIDE DEF r
  <2> QED
    BY <2>1, <2>2, OneStep, OneSame, SameFiles
<1>4. CASE AttachBackend(o)
  <2> DEFINE r == Attached(o)
  <2>1. op' = [op EXCEPT ![o] = r] /\ UNCHANGED <<registry, ids, crossed>>
    BY <1>4 DEF AttachBackend
  <2>2. /\ r \in OpType /\ OneSound(r)
        /\ r.owner = op[o].owner /\ r.sid = op[o].sid /\ r.cleared = op[o].cleared
    BY <1>0 DEF OpType, OneSound, Attached
  <2> HIDE DEF r
  <2> QED
    BY <2>1, <2>2, OneStep, OneSame, SameFiles
<1>5. CASE DetachBackend(o)
  <2> DEFINE r == [op[o] EXCEPT !.attached = FALSE, !.handle = "none"]
  <2>1. op' = [op EXCEPT ![o] = r] /\ UNCHANGED <<registry, ids, crossed>>
    BY <1>5 DEF DetachBackend
  <2>2. /\ r \in OpType /\ OneSound(r)
        /\ r.owner = op[o].owner /\ r.sid = op[o].sid /\ r.cleared = op[o].cleared
    BY <1>0 DEF OpType, OneSound
  <2> HIDE DEF r
  <2> QED
    BY <2>1, <2>2, OneStep, OneSame, SameFiles
<1>6. CASE FailOwn(o)
  BY <1>6, FailSteps, ClearFiles DEF FailOwn, Works
<1>7. CASE Complete(o)
  <2>1. Gone \in OpType /\ OneSound(Gone) /\ Gone.owner # "none" /\ Gone.cleared
    BY DEF Gone, NewOp, OpType, OneSound
  <2>2. op' = [op EXCEPT ![o] = Gone] /\ op[o].owner # "none" /\ ClearState({o})
    BY <1>7 DEF Complete, Works
  <2> QED
    BY <2>1, <2>2, OneStep, OneCleared, ClearFiles
<1> QED
  BY <1>1, <1>2, <1>3, <1>4, <1>5, <1>6, <1>7 DEF Owner

(* Whom a session id leads to.                                             *)
LEMMA RunActive ==
  ASSUME RegType, Filed, NEW i \in Ids, RunOf(i) # None
  PROVE  RunOf(i) \in Active
  BY DEF RunOf, RegType, Filed, Listed

LEMMA OthersStep ==
  ASSUME RegType, OpTyped, OpsSound, Filed, Others
  PROVE  RegType' /\ OpTyped' /\ OpsSound' /\ Filed'
<1>1. ASSUME NEW o \in Ops, UpstreamAbort(o) PROVE RegType' /\ OpTyped' /\ OpsSound' /\ Filed'
  <2> DEFINE r == [op[o] EXCEPT !.aborted = TRUE]
  <2>1. op' = [op EXCEPT ![o] = r] /\ UNCHANGED <<registry, ids, crossed>>
    BY <1>1 DEF UpstreamAbort
  <2>2. /\ r \in OpType /\ OneSound(r)
        /\ r.owner = op[o].owner /\ r.sid = op[o].sid /\ r.cleared = op[o].cleared
    BY DEF OpTyped, OpsSound, OpType, OneSound
  <2> HIDE DEF r
  <2> QED
    BY <2>1, <2>2, OneStep, OneSame, SameFiles
<1>2. ASSUME NEW S, S \subseteq Active, Abort(S) PROVE RegType' /\ OpTyped' /\ OpsSound' /\ Filed'
  BY <1>2, AbortSteps, ClearFiles
<1>3. ASSUME NEW k \in Keys, AbortKey(k) PROVE RegType' /\ OpTyped' /\ OpsSound' /\ Filed'
  BY <1>2, <1>3 DEF AbortKey, Filed, Listed
<1>4. ASSUME NEW i \in Ids, AbortReplyRunBySessionId(i)
      PROVE  RegType' /\ OpTyped' /\ OpsSound' /\ Filed'
  BY <1>2, <1>4, RunActive DEF AbortReplyRunBySessionId
<1>5. ASSUME NEW i \in Ids, ForceClearReplyRunBySessionId(i)
      PROVE  RegType' /\ OpTyped' /\ OpsSound' /\ Filed'
  <2>1. RunOf(i) \in Ops /\ op[RunOf(i)].owner # "none" /\ Fail(RunOf(i))
    BY <1>5, RunActive DEF ForceClearReplyRunBySessionId, Active
  <2> QED
    BY <2>1, FailSteps, ClearFiles
<1>6. ASSUME NEW S \in SUBSET Ops, AbortActiveReplyRuns(S)
      PROVE  RegType' /\ OpTyped' /\ OpsSound' /\ Filed'
  <2>1. S \subseteq Active /\ Abort(S)
    BY <1>6 DEF AbortActiveReplyRuns, Filed, Listed
  <2> QED
    BY <1>2, <2>1
<1> QED
  BY <1>1, <1>3, <1>4, <1>5, <1>6 DEF Others

-----------------------------------------------------------------------------
LEMMA InitIInv == Init => IInv
<1> SUFFICES ASSUME Init PROVE IInv
  OBVIOUS
<1>1. Active = {} /\ crossed = {}
  BY DEF Init, NewOp, Active
<1>2. OpTyped /\ OpsSound
  BY DEF Init, NewOp, OpTyped, OpType, OpsSound
<1>3. waiter \in [Waiters -> WaiterType]
  BY DEF Init, NoWait, WaiterType
<1>4. RegType
  BY <1>1, <1>3 DEF Init, RegType
<1>5. ForOne /\ WaitersSound
  BY DEF Init, NoWait, ForOne, WaitersSound
<1>6. Listed /\ HasIds /\ Keyed /\ Registered /\ Findable /\ Marked /\ Waitable
  BY <1>1 DEF Init, Listed, HasIds, Keyed, Registered, Findable, Marked, Waitable, Sharing
<1> QED
  BY <1>2, <1>4, <1>5, <1>6, SplitType DEF IInv, Filed

LEMMA Invariance == Spec => []IInv
<1>1. IInv /\ [Next]_vars => IInv'
  <2> SUFFICES ASSUME IInv, [Next]_vars PROVE RegType' /\ OpTyped' /\ OpsSound' /\ Filed'
    BY DEF IInv, TypeOK, RegType, OpTyped
  <2>1. RegType /\ OpTyped /\ OpsSound /\ Filed
    BY SplitType DEF IInv
  <2>2. ASSUME NEW w \in Waiters, Waits(w) PROVE OpTyped' /\ OpsSound'
    <3>1. UNCHANGED op
      BY <2>2 DEF Waits, WaitByKey, WaitForReplyRunEndBySessionId, WaitForIdle, WaitTimeout
    <3> QED
      BY <2>1, <3>1 DEF OpTyped, OpsSound
  <2>3. CASE UNCHANGED vars
    <3>1. Same /\ UNCHANGED op
      BY <2>3 DEF vars, Same, SameOps, registry, Active
    <3> QED
      BY <2>1, <3>1, SameFiles DEF OpTyped, OpsSound
  <2> QED
    BY <2>1, <2>2, <2>3, OwnerStep, OthersStep, WaitsFile DEF Next
<1> QED
  BY <1>1, InitIInv, PTL DEF Spec

(* Every reachable state is well typed, and the session id under a key is  *)
(* the one of the operation that is active under it.                       *)
THEOREM TypeCorrect == Spec => []TypeOK
  BY Invariance, PTL DEF IInv

(* Lookups by key and by session id lead to the run they name, and no late *)
(* end of an operation takes its successor off (clearState).               *)
THEOREM LookupsConsistent == Spec => []Consistent
<1>1. IInv => Consistent
  BY DEF IInv, TypeOK, Filed, Keyed, Consistent, IdsSound, RunOf
<1> QED
  BY <1>1, Invariance, PTL

(* No wait ends before its operation, and none waits for a key under which *)
(* nothing is active (waitForIdle, notifyReplyRunEnded).                   *)
THEOREM WaitsSound == Spec => []WaitersSound
  BY Invariance, PTL DEF IInv, Filed

(* No backend of an operation that was aborted is left alone (attachBackend*)
(* and abortWithReason, in either order).                                  *)
THEOREM AbortsReach == Spec => []AbortReaches
<1>1. IInv => AbortReaches
  BY DEF IInv, OpsSound, AbortReaches
<1> QED
  BY <1>1, Invariance, PTL
=============================================================================

----------------------- MODULE SessionWriteLockProofs -----------------------
(***************************************************************************)
(* Theorems about the session write lock, for any calls, processes,        *)
(* nestings, crashes and ages of files.  Owners relates locks, processes   *)
(* and where calls are; CountIsHolders says that a lock's count is the     *)
(* number of calls that hold it; Entry and Held relate the table to the    *)
(* file and to the holders, which NoLeakedFile needs when a removal fails; *)
(* Undisturbed is what LockKept needs: as long as      *)
(* nothing excuses it, the file is that of the one lock that is held, and  *)
(* whoever is about to remove a file is its owner on the way out.          *)
(***************************************************************************)
EXTENDS SessionWriteLock, TLAPS, FiniteSetTheorems

Types ==
  /\ file = None \/ file \in [by : Acquirers, written : BOOLEAN, age : 0..2, left : BOOLEAN]
  /\ held \in [Procs -> Acquirers \cup {None}]
  /\ count \in [Acquirers -> Nat]
  /\ pc \in [Acquirers -> {"idle", "try", "exists", "stat", "remove", "writing", "holding",
                           "closing", "cleanup", "done", "failed", "dead"}]
  /\ lock \in [Acquirers -> Acquirers \cup {None}]
  /\ saw \in [Acquirers -> Acquirers \cup {None}]
  /\ alive \subseteq Procs
  /\ watchdog \subseteq alive
  /\ cleaner \in [Cleaners -> {"idle", "remove", "done"}]
  /\ troubles \in 0..MaxTroubles
  /\ excused \in BOOLEAN

Holders(h) == {a \in Acquirers : lock[a] = h}

CountIsHolders ==
  \A p \in Procs : held[p] # None => count[held[p]] = Cardinality(Holders(held[p]))

Has(a) == pc[a] \in {"writing", "holding"}

Leaves(a) == pc[a] \in {"closing", "cleanup"}

(* The call has opened its lock's file, or taken another lock. *)
Past(a) == pc[a] \notin {"idle", "try", "exists", "stat", "remove"}

Owners ==
  /\ \A p \in Procs : held[p] # None => ProcOf[held[p]] = p /\ p \in alive /\ Past(held[p])
  /\ \A a \in Acquirers :
       /\ lock[a] # None <=> Has(a)
       /\ lock[a] # None => ProcOf[lock[a]] = ProcOf[a] /\ Past(lock[a])
       /\ pc[a] = "writing" => lock[a] = a
       /\ pc[a] # "dead" => ProcOf[a] \in alive

Undisturbed ==
  ~excused =>
    /\ alive = Procs /\ watchdog = {}
    /\ \A p \in Cleaners : cleaner[p] # "remove"
    /\ \A a \in Acquirers : saw[a] = None /\ pc[a] # "remove"
    /\ file # None => file.age < 2 /\ (file.written \/ file.age = 0)
    /\ \A a \in Acquirers : Has(a) => file # None /\ file.by = lock[a] /\ held[ProcOf[a]] = lock[a]
    /\ \A p \in Procs : held[p] # None => file # None /\ file.by = held[p]
    /\ \A a \in Acquirers : Leaves(a) =>
         /\ file # None /\ held[ProcOf[file.by]] = None
         /\ \A b \in Acquirers : ~Has(b) /\ (Leaves(b) => a = b)

(* A process that has a lock in its table has no other lock's file there. *)
Entry == file # None => held[ProcOf[file.by]] \in {None, file.by}

(* A lock in the table has a holder: the last one takes it out. *)
Held == \A p \in Procs : held[p] # None => \E a \in Acquirers : lock[a] = held[p]

IInv == Types /\ Owners /\ CountIsHolders /\ Entry /\ Held /\ NoLeakedFile /\ Undisturbed

(* The count of a lock that is held is at least one, for whoever holds it. *)
LEMMA HoldersFinite == ASSUME NEW h PROVE IsFiniteSet(Holders(h)) /\ Cardinality(Holders(h)) \in Nat
<1>1. Holders(h) \in SUBSET Acquirers
  BY DEF Holders
<1> QED
  BY <1>1, LockAssumption, FS_Subset, FS_CardinalityType

LEMMA HolderCounted ==
  ASSUME Types, Owners, CountIsHolders, NEW a \in Acquirers, Has(a), held[ProcOf[a]] = lock[a]
  PROVE  /\ lock[a] \in Acquirers /\ count[lock[a]] \in Nat \ {0}
         /\ count[lock[a]] = 1 => Holders(lock[a]) = {a}
         /\ count[lock[a]] # 1 => \E b \in Holders(lock[a]) : b # a
<1> USE LockAssumption DEF Types
<1>1. lock[a] \in Acquirers /\ ProcOf[a] \in Procs /\ held[ProcOf[a]] # None
  BY DEF Owners
<1>2. count[lock[a]] = Cardinality(Holders(lock[a]))
  BY <1>1 DEF CountIsHolders
<1>3. a \in Holders(lock[a])
  BY DEF Holders
<1>4. Cardinality(Holders(lock[a])) # 0
  BY <1>3, HoldersFinite, FS_EmptySet
<1>5. Cardinality(Holders(lock[a])) = 1 => \E x : Holders(lock[a]) = {x}
  BY HoldersFinite, FS_Singleton
<1>6. Cardinality({a}) = 1
  BY FS_Singleton
<1>7. ASSUME \A b \in Holders(lock[a]) : b = a PROVE Holders(lock[a]) = {a}
  BY <1>3, <1>7
<1> QED
  BY <1>1, <1>2, <1>3, <1>4, <1>5, <1>6, <1>7

(* A removal takes the file away, or leaves it as one that was left behind, *)
(* or as that of the lock its process has.                                 *)
LEMMA AfterRemoval ==
  ASSUME Types, RemovesOrNot
  PROVE  /\ file' = None \/ file' \in [by : Acquirers, written : BOOLEAN, age : 0..2, left : BOOLEAN]
         /\ troubles' \in 0..MaxTroubles
         /\ file' # None => /\ file # None
                            /\ file'.by = file.by /\ file'.written = file.written /\ file'.age = file.age
                            /\ file'.left \/ (held[ProcOf[file.by]] = file.by /\ file' = file)
<1> USE LockAssumption DEF Types
<1>1. troubles' \in 0..MaxTroubles
  BY DEF RemovesOrNot, Trouble
<1>2. CASE file' = Removed(file)
  BY <1>1, <1>2 DEF Removed
<1>3. CASE file # None /\ held[ProcOf[file.by]] = file.by /\ file' = file
  BY <1>1, <1>3
<1>4. CASE file # None /\ file' = [file EXCEPT !.left = TRUE]
  BY <1>1, <1>4
<1> QED
  BY <1>2, <1>3, <1>4 DEF RemovesOrNot

(* A signal takes the file away, leaves it, or leaves it behind. *)
LEMMA AfterSignal ==
  ASSUME Types, NEW p \in Procs, NEW dies \in BOOLEAN, Signal(p, dies)
  PROVE  /\ file' = None \/ file' \in [by : Acquirers, written : BOOLEAN, age : 0..2, left : BOOLEAN]
         /\ file' # None => /\ file # None /\ file'.by = file.by
                            /\ file'.left \/ (held[p] # file.by /\ file' = file)
<1> USE LockAssumption DEF Types
<1>1. CASE file' = None
  BY <1>1
<1>2. CASE file' = file /\ (file = None \/ held[p] # file.by)
  BY <1>2
<1>3. CASE file # None /\ file' = [file EXCEPT !.left = TRUE]
  BY <1>3
<1> QED
  BY <1>1, <1>2, <1>3 DEF Signal

LEMMA TypeStep == Types /\ Owners /\ CountIsHolders /\ [Next]_vars => Types'
<1> SUFFICES ASSUME Types, Owners, CountIsHolders, [Next]_vars PROVE Types'
  OBVIOUS
<1> USE LockAssumption DEF Types, Goes, Trouble, Excuse
<1>1. ASSUME NEW a \in Acquirers, Begin(a) PROVE Types'
  BY <1>1 DEF Begin, Counted
<1>2. ASSUME NEW a \in Acquirers, Open(a) PROVE Types'
  <2>1. NewFile(a) \in [by : Acquirers, written : BOOLEAN, age : 0..2, left : BOOLEAN]
    BY DEF NewFile
  <2>2. CASE file = None
    <3>1. held' \in [Procs -> Acquirers \cup {None}] /\ lock' \in [Acquirers -> Acquirers \cup {None}]
      BY <1>2, <2>2 DEF Open
    <3>2. count' \in [Acquirers -> Nat]
      BY <1>2, <2>2 DEF Open
    <3> QED
      BY <1>2, <2>1, <2>2, <3>1, <3>2 DEF Open
  <2>3. CASE file # None
    BY <1>2, <2>3 DEF Open
  <2> QED
    BY <2>2, <2>3
<1>3. ASSUME NEW a \in Acquirers, Write(a) PROVE Types'
  BY <1>3 DEF Write
<1>4. ASSUME NEW a \in Acquirers, WriteFails(a) PROVE Types'
  BY <1>4 DEF WriteFails
<1>5. ASSUME NEW a \in Acquirers, Inspect(a) PROVE Types'
  <2>1. saw' \in [Acquirers -> Acquirers \cup {None}]
    BY <1>5 DEF Inspect, PastGrace
  <2>2. /\ pc' \in [Acquirers -> {"idle", "try", "exists", "stat", "remove", "writing", "holding",
                                  "closing", "cleanup", "done", "failed", "dead"}]
        /\ excused' \in BOOLEAN
    BY <1>5 DEF Inspect
  <2> QED
    BY <1>5, <2>1, <2>2 DEF Inspect
<1>6. ASSUME NEW a \in Acquirers, Stat(a) PROVE Types'
  BY <1>6 DEF Stat
<1>7. ASSUME NEW a \in Acquirers, Reclaim(a) PROVE Types'
  BY <1>7 DEF Reclaim
<1>8. ASSUME NEW a \in Acquirers, GiveUp(a) PROVE Types'
  BY <1>8 DEF GiveUp
<1>9. ASSUME NEW a \in Acquirers, Release(a) PROVE Types'
  <2>0. Has(a)
    BY <1>9 DEF Release, Has
  <2>1. held[ProcOf[a]] = lock[a] => lock[a] \in Acquirers /\ count[lock[a]] - 1 \in Nat
    <3>1. ASSUME held[ProcOf[a]] = lock[a] PROVE lock[a] \in Acquirers /\ count[lock[a]] \in Nat \ {0}
      BY <2>0, <3>1, HolderCounted
    <3> QED
      BY <3>1
  <2>2. count' \in [Acquirers -> Nat]
    BY <1>9, <2>1 DEF Release
  <2>3. held' \in [Procs -> Acquirers \cup {None}] /\ lock' \in [Acquirers -> Acquirers \cup {None}]
    BY <1>9 DEF Release
  <2>4. pc' \in [Acquirers -> {"idle", "try", "exists", "stat", "remove", "writing", "holding",
                              "closing", "cleanup", "done", "failed", "dead"}]
    BY <1>9 DEF Release
  <2> QED
    BY <1>9, <2>2, <2>3, <2>4 DEF Release
<1>10. ASSUME NEW a \in Acquirers, RemoveOwn(a) PROVE Types'
  <2>1. RemovesOrNot
    BY <1>10 DEF RemoveOwn
  <2> QED
    BY <1>10, <2>1, AfterRemoval DEF RemoveOwn
<1>11. ASSUME NEW p \in Procs, WatchdogFires(p) PROVE Types'
  BY <1>11 DEF WatchdogFires
<1>12. ASSUME NEW p \in Procs, WatchdogRemoves(p) PROVE Types'
  <2>1. RemovesOrNot
    BY <1>12 DEF WatchdogRemoves
  <2> QED
    BY <1>12, <2>1, AfterRemoval DEF WatchdogRemoves
<1>13. ASSUME NEW p \in Procs, NEW dies \in BOOLEAN, Signal(p, dies) PROVE Types'
  <2>1. file' = None \/ file' \in [by : Acquirers, written : BOOLEAN, age : 0..2, left : BOOLEAN]
    BY <1>13, AfterSignal
  <2> QED
    BY <1>13, <2>1 DEF Signal, Dies
<1>14. ASSUME NEW p \in Procs, Crash(p) PROVE Types'
  BY <1>14 DEF Crash, Dies
<1>15. ASSUME NEW p \in Cleaners, CleanInspect(p) PROVE Types'
  BY <1>15 DEF CleanInspect
<1>16. ASSUME NEW p \in Cleaners, CleanRemove(p) PROVE Types'
  BY <1>16 DEF CleanRemove
<1>17. CASE Age
  BY <1>17 DEF Age
<1>18. CASE UNCHANGED vars
  BY <1>18 DEF vars
<1> QED
  BY <1>1, <1>2, <1>3, <1>4, <1>5, <1>6, <1>7, <1>8, <1>9, <1>10, <1>11, <1>12, <1>13, <1>14, <1>15, <1>16, <1>17, <1>18 DEF Next, Acquire, Process, Clean

LEMMA OwnersStep == Types /\ Owners /\ [Next]_vars => Owners'
<1> SUFFICES ASSUME Types, Owners, [Next]_vars PROVE Owners'
  OBVIOUS
<1> USE LockAssumption DEF Types, Owners, Has, Past, Goes
<1>1. ASSUME NEW a \in Acquirers, Begin(a) PROVE Owners'
  BY <1>1 DEF Begin
<1>2. ASSUME NEW a \in Acquirers, Open(a) PROVE Owners'
  BY <1>2 DEF Open
<1>3. ASSUME NEW a \in Acquirers, Write(a) PROVE Owners'
  BY <1>3 DEF Write
<1>4. ASSUME NEW a \in Acquirers, WriteFails(a) PROVE Owners'
  BY <1>4 DEF WriteFails
<1>5. ASSUME NEW a \in Acquirers, Inspect(a) PROVE Owners'
  BY <1>5 DEF Inspect
<1>6. ASSUME NEW a \in Acquirers, Stat(a) PROVE Owners'
  BY <1>6 DEF Stat
<1>7. ASSUME NEW a \in Acquirers, Reclaim(a) PROVE Owners'
  BY <1>7 DEF Reclaim
<1>8. ASSUME NEW a \in Acquirers, GiveUp(a) PROVE Owners'
  BY <1>8 DEF GiveUp
<1>9. ASSUME NEW a \in Acquirers, Release(a) PROVE Owners'
  BY <1>9 DEF Release
<1>10. ASSUME NEW a \in Acquirers, RemoveOwn(a) PROVE Owners'
  BY <1>10 DEF RemoveOwn
<1>11. ASSUME NEW p \in Procs, WatchdogFires(p) PROVE Owners'
  BY <1>11 DEF WatchdogFires
<1>12. ASSUME NEW p \in Procs, WatchdogRemoves(p) PROVE Owners'
  BY <1>12 DEF WatchdogRemoves
<1>13. ASSUME NEW p \in Procs, NEW dies \in BOOLEAN, Signal(p, dies) PROVE Owners'
  BY <1>13 DEF Signal, Dies
<1>14. ASSUME NEW p \in Procs, Crash(p) PROVE Owners'
  BY <1>14 DEF Crash, Dies
<1>15. ASSUME NEW p \in Cleaners, CleanInspect(p) PROVE Owners'
  BY <1>15 DEF CleanInspect
<1>16. ASSUME NEW p \in Cleaners, CleanRemove(p) PROVE Owners'
  BY <1>16 DEF CleanRemove
<1>17. CASE Age
  BY <1>17 DEF Age
<1>18. CASE UNCHANGED vars
  BY <1>18 DEF vars
<1> QED
  BY <1>1, <1>2, <1>3, <1>4, <1>5, <1>6, <1>7, <1>8, <1>9, <1>10, <1>11, <1>12, <1>13, <1>14, <1>15, <1>16, <1>17, <1>18 DEF Next, Acquire, Process, Clean

LEMMA CountStep == Types /\ Owners /\ CountIsHolders /\ [Next]_vars => CountIsHolders'
<1> SUFFICES ASSUME Types, Owners, CountIsHolders, [Next]_vars PROVE CountIsHolders'
  OBVIOUS
<1> USE LockAssumption DEF Types, Goes
<1>same. ASSUME UNCHANGED <<held, count, lock>> PROVE CountIsHolders'
  BY <1>same DEF CountIsHolders, Holders
<1>gone. ASSUME NEW p \in Procs, held' = [held EXCEPT ![p] = None], count' = count,
              lock' = lock \/ lock' = [b \in Acquirers |-> IF ProcOf[b] = p THEN None ELSE lock[b]]
       PROVE  CountIsHolders'
  <2>1. \A q \in Procs : held'[q] # None => held'[q] = held[q] /\ ProcOf[held[q]] # p
    BY <1>gone DEF Owners
  <2>2. \A q \in Procs : held'[q] # None =>
          {b \in Acquirers : lock'[b] = held'[q]} = Holders(held[q])
    BY <1>gone, <2>1 DEF Owners, Holders
  <2> QED
    BY <1>gone, <2>1, <2>2 DEF CountIsHolders, Holders
<1>1. ASSUME NEW a \in Acquirers, Begin(a) PROVE CountIsHolders'
  <2> DEFINE h == held[ProcOf[a]]
  <2>1. CASE a \in Reentrant /\ h # None
    <3>1. /\ lock[a] = None /\ lock' = [lock EXCEPT ![a] = h] /\ held' = held
          /\ count' = [count EXCEPT ![h] = @ + 1] /\ h \in Acquirers
      BY <1>1, <2>1 DEF Begin, Counted, Owners, Has
    <3>2. {b \in Acquirers : lock'[b] = h} = Holders(h) \cup {a} /\ a \notin Holders(h)
      BY <2>1, <3>1 DEF Holders
    <3>3. Cardinality(Holders(h) \cup {a}) = Cardinality(Holders(h)) + 1
      BY <3>2, HoldersFinite, FS_AddElement
    <3>4. count[h] = Cardinality(Holders(h)) /\ count'[h] = count[h] + 1
      BY <2>1, <3>1 DEF CountIsHolders
    <3>5. ASSUME NEW p \in Procs, held[p] # None
          PROVE  count'[held[p]] = Cardinality({b \in Acquirers : lock'[b] = held[p]})
      <4>1. CASE held[p] = h
        <5>1. {b \in Acquirers : lock'[b] = held[p]} = Holders(h) \cup {a}
          BY <3>2, <4>1
        <5>2. count'[held[p]] = Cardinality(Holders(h)) + 1
          BY <3>4, <4>1
        <5> QED
          BY <3>3, <5>1, <5>2
      <4>2. CASE held[p] # h
        <5>1. {b \in Acquirers : lock'[b] = held[p]} = Holders(held[p])
          BY <3>1, <3>5, <4>2 DEF Holders
        <5>2. held[p] \in Acquirers /\ count'[held[p]] = count[held[p]]
          BY <3>1, <3>5, <4>2
        <5>3. count[held[p]] = Cardinality(Holders(held[p]))
          BY <3>5 DEF CountIsHolders
        <5> QED
          BY <5>1, <5>2, <5>3
      <4> QED
        BY <4>1, <4>2
    <3> QED
      BY <3>1, <3>5 DEF CountIsHolders, Holders
  <2>2. CASE ~(a \in Reentrant /\ h # None)
    BY <1>1, <1>same, <2>2 DEF Begin
  <2> QED
    BY <2>1, <2>2
<1>2. ASSUME NEW a \in Acquirers, Open(a) PROVE CountIsHolders'
  <2>1. CASE file = None
    <3>1. /\ held' = [held EXCEPT ![ProcOf[a]] = a] /\ lock' = [lock EXCEPT ![a] = a]
          /\ count' = [count EXCEPT ![a] = 1] /\ ~Past(a) /\ lock[a] = None
      BY <1>2, <2>1 DEF Open, Past, Owners, Has
    <3>2. \A b \in Acquirers : lock[b] # a
      BY <3>1 DEF Owners
    <3>3. {b \in Acquirers : lock'[b] = a} = {a}
      BY <3>1, <3>2
    <3>4. Cardinality({a}) = 1
      BY FS_Singleton
    <3>5. ASSUME NEW p \in Procs, held'[p] # None
          PROVE  count'[held'[p]] = Cardinality({b \in Acquirers : lock'[b] = held'[p]})
      <4>1. CASE held'[p] = a
        <5>1. count'[a] = 1
          BY <3>1
        <5> QED
          BY <3>3, <3>4, <4>1, <5>1
      <4>2. CASE held'[p] # a
        <5>1. held'[p] = held[p] /\ held[p] # None
          BY <3>1, <3>5, <4>2
        <5>2. {b \in Acquirers : lock'[b] = held'[p]} = Holders(held[p])
          BY <3>1, <4>2, <5>1 DEF Holders
        <5>3. held[p] \in Acquirers /\ count'[held[p]] = count[held[p]]
          BY <3>1, <4>2, <5>1
        <5>4. count[held[p]] = Cardinality(Holders(held[p]))
          BY <5>1 DEF CountIsHolders
        <5> QED
          BY <5>1, <5>2, <5>3, <5>4
      <4> QED
        BY <4>1, <4>2
    <3> QED
      BY <3>5 DEF CountIsHolders, Holders
  <2>2. CASE file # None
    BY <1>2, <1>same, <2>2 DEF Open
  <2> QED
    BY <2>1, <2>2
<1>3. ASSUME NEW a \in Acquirers, Write(a) PROVE CountIsHolders'
  BY <1>3, <1>same DEF Write
<1>4. ASSUME NEW a \in Acquirers, WriteFails(a) PROVE CountIsHolders'
  <2>1. /\ lock[a] = a /\ lock' = [lock EXCEPT ![a] = None] /\ count' = count
        /\ held' = [held EXCEPT ![ProcOf[a]] = IF @ = a THEN None ELSE @]
    BY <1>4 DEF WriteFails, Owners
  <2>2. \A p \in Procs : held'[p] # None => held'[p] = held[p] /\ held[p] # a
    BY <2>1 DEF Owners
  <2>3. \A p \in Procs : held'[p] # None =>
          {b \in Acquirers : lock'[b] = held'[p]} = Holders(held[p])
    BY <2>1, <2>2 DEF Holders
  <2> QED
    BY <2>1, <2>2, <2>3 DEF CountIsHolders, Holders
<1>5. ASSUME NEW a \in Acquirers, Inspect(a) PROVE CountIsHolders'
  BY <1>5, <1>same DEF Inspect
<1>6. ASSUME NEW a \in Acquirers, Stat(a) PROVE CountIsHolders'
  BY <1>6, <1>same DEF Stat
<1>7. ASSUME NEW a \in Acquirers, Reclaim(a) PROVE CountIsHolders'
  BY <1>7, <1>same DEF Reclaim
<1>8. ASSUME NEW a \in Acquirers, GiveUp(a) PROVE CountIsHolders'
  BY <1>8, <1>same DEF GiveUp
<1>9. ASSUME NEW a \in Acquirers, Release(a) PROVE CountIsHolders'
  <2> DEFINE h == lock[a]
  <2>1. h # None /\ lock' = [lock EXCEPT ![a] = None] /\ ProcOf[h] = ProcOf[a] /\ Has(a)
    BY <1>9 DEF Release, Owners, Has
  <2>2. CASE held[ProcOf[a]] # h
    <3>1. UNCHANGED <<held, count>>
      BY <1>9, <2>2 DEF Release
    <3>2. \A p \in Procs : held[p] # None => held[p] # h
      BY <2>2 DEF Owners
    <3>3. \A p \in Procs : held[p] # None =>
            {b \in Acquirers : lock'[b] = held[p]} = Holders(held[p])
      BY <2>1, <3>2 DEF Holders
    <3> QED
      BY <3>1, <3>3 DEF CountIsHolders, Holders
  <2>3. CASE held[ProcOf[a]] = h
    <3>1. h \in Acquirers /\ count[h] \in Nat \ {0} /\ count' = [count EXCEPT ![h] = @ - 1]
      BY <1>9, <2>1, <2>3, HolderCounted DEF Release
    <3>2. held' = held \/ held' = [held EXCEPT ![ProcOf[a]] = None]
      BY <1>9, <2>3 DEF Release
    <3>3. {b \in Acquirers : lock'[b] = h} = Holders(h) \ {a} /\ a \in Holders(h)
      BY <2>1 DEF Holders
    <3>4. Cardinality(Holders(h) \ {a}) = Cardinality(Holders(h)) - 1
      BY <3>3, HoldersFinite, FS_RemoveElement
    <3>5. ASSUME NEW p \in Procs, held'[p] # None
          PROVE  count'[held'[p]] = Cardinality({b \in Acquirers : lock'[b] = held'[p]})
      <4>1. held'[p] = held[p] /\ held[p] \in Acquirers
        BY <3>2, <3>5
      <4>2. CASE held[p] = h
        <5>1. count'[h] = count[h] - 1
          BY <3>1
        <5>2. count[h] = Cardinality(Holders(h))
          BY <3>5, <4>1, <4>2 DEF CountIsHolders
        <5>3. {b \in Acquirers : lock'[b] = held'[p]} = Holders(h) \ {a}
          BY <3>3, <4>1, <4>2
        <5>4. held'[p] = h
          BY <4>1, <4>2
        <5>5. count'[held'[p]] = Cardinality(Holders(h)) - 1
          BY <5>1, <5>2, <5>4
        <5> QED
          BY <3>4, <5>3, <5>5
      <4>3. CASE held[p] # h
        <5>1. {b \in Acquirers : lock'[b] = held'[p]} = Holders(held[p])
          BY <2>1, <3>5, <4>1, <4>3 DEF Holders
        <5>2. count'[held[p]] = count[held[p]]
          BY <3>1, <4>1, <4>3
        <5>3. count[held[p]] = Cardinality(Holders(held[p]))
          BY <3>5, <4>1 DEF CountIsHolders
        <5> QED
          BY <4>1, <5>1, <5>2, <5>3
      <4> QED
        BY <4>2, <4>3
    <3> QED
      BY <3>5 DEF CountIsHolders, Holders
  <2> QED
    BY <2>2, <2>3
<1>10. ASSUME NEW a \in Acquirers, RemoveOwn(a) PROVE CountIsHolders'
  BY <1>10, <1>same DEF RemoveOwn
<1>11. ASSUME NEW p \in Procs, WatchdogFires(p) PROVE CountIsHolders'
  <2>1. /\ held' = [held EXCEPT ![p] = None] /\ lock' = lock
        /\ count' = [count EXCEPT ![held[p]] = 0]
    BY <1>11 DEF WatchdogFires
  <2>2. \A q \in Procs : held'[q] # None => held'[q] = held[q] /\ held[q] # held[p]
    BY <1>11, <2>1 DEF WatchdogFires, Owners
  <2> QED
    BY <2>1, <2>2 DEF CountIsHolders, Holders
<1>12. ASSUME NEW p \in Procs, WatchdogRemoves(p) PROVE CountIsHolders'
  BY <1>12, <1>same DEF WatchdogRemoves
<1>13. ASSUME NEW p \in Procs, NEW dies \in BOOLEAN, Signal(p, dies) PROVE CountIsHolders'
  <2>1. held' = [held EXCEPT ![p] = None] /\ count' = count
    BY <1>13 DEF Signal
  <2>2. lock' = lock \/ lock' = [b \in Acquirers |-> IF ProcOf[b] = p THEN None ELSE lock[b]]
    BY <1>13 DEF Signal, Dies
  <2> QED
    BY <1>gone, <2>1, <2>2
<1>14. ASSUME NEW p \in Procs, Crash(p) PROVE CountIsHolders'
  <2>1. held' = [held EXCEPT ![p] = None] /\ count' = count
    BY <1>14 DEF Crash
  <2>2. lock' = [b \in Acquirers |-> IF ProcOf[b] = p THEN None ELSE lock[b]]
    BY <1>14 DEF Crash, Dies
  <2> QED
    BY <1>gone, <2>1, <2>2
<1>15. ASSUME NEW p \in Cleaners, CleanInspect(p) PROVE CountIsHolders'
  BY <1>15, <1>same DEF CleanInspect
<1>16. ASSUME NEW p \in Cleaners, CleanRemove(p) PROVE CountIsHolders'
  BY <1>16, <1>same DEF CleanRemove
<1>17. CASE Age
  BY <1>17, <1>same DEF Age
<1>18. CASE UNCHANGED vars
  BY <1>18, <1>same DEF vars
<1> QED
  BY <1>1, <1>2, <1>3, <1>4, <1>5, <1>6, <1>7, <1>8, <1>9, <1>10, <1>11, <1>12, <1>13, <1>14, <1>15, <1>16, <1>17, <1>18 DEF Next, Acquire, Process, Clean

LEMMA EntryStep == Types /\ Owners /\ Entry /\ [Next]_vars => Entry'
<1> SUFFICES ASSUME Types, Owners, Entry, [Next]_vars PROVE Entry'
  OBVIOUS
<1> USE LockAssumption DEF Types, Entry
<1>keeps. ASSUME file' # None => file # None /\ file'.by = file.by,
                 \A p \in Procs : held'[p] \in {None, held[p]}
          PROVE  Entry'
  BY <1>keeps
<1>same. ASSUME UNCHANGED <<file, held>> PROVE Entry'
  BY <1>same
<1>1. ASSUME NEW a \in Acquirers, Begin(a) PROVE Entry'
  BY <1>1, <1>same DEF Begin
<1>2. ASSUME NEW a \in Acquirers, Open(a) PROVE Entry'
  <2>1. CASE file = None
    <3>1. file'.by = a /\ held'[ProcOf[a]] = a
      BY <1>2, <2>1 DEF Open, NewFile
    <3> QED
      BY <3>1
  <2>2. CASE file # None
    BY <1>2, <1>same, <2>2 DEF Open
  <2> QED
    BY <2>1, <2>2
<1>3. ASSUME NEW a \in Acquirers, Write(a) PROVE Entry'
  <2>1. file' # None => file # None /\ file'.by = file.by
    BY <1>3 DEF Write
  <2> QED
    BY <1>3, <1>keeps, <2>1 DEF Write
<1>4. ASSUME NEW a \in Acquirers, WriteFails(a) PROVE Entry'
  BY <1>4, <1>keeps DEF WriteFails
<1>5. ASSUME NEW a \in Acquirers, Inspect(a) PROVE Entry'
  BY <1>5, <1>same DEF Inspect
<1>6. ASSUME NEW a \in Acquirers, Stat(a) PROVE Entry'
  BY <1>6, <1>same DEF Stat
<1>7. ASSUME NEW a \in Acquirers, Reclaim(a) PROVE Entry'
  BY <1>7, <1>keeps DEF Reclaim
<1>8. ASSUME NEW a \in Acquirers, GiveUp(a) PROVE Entry'
  BY <1>8, <1>same DEF GiveUp
<1>9. ASSUME NEW a \in Acquirers, Release(a) PROVE Entry'
  BY <1>9, <1>keeps DEF Release
<1>10. ASSUME NEW a \in Acquirers, RemoveOwn(a) PROVE Entry'
  BY <1>10, <1>keeps, AfterRemoval DEF RemoveOwn
<1>11. ASSUME NEW p \in Procs, WatchdogFires(p) PROVE Entry'
  BY <1>11, <1>keeps DEF WatchdogFires
<1>12. ASSUME NEW p \in Procs, WatchdogRemoves(p) PROVE Entry'
  BY <1>12, <1>keeps, AfterRemoval DEF WatchdogRemoves
<1>13. ASSUME NEW p \in Procs, NEW dies \in BOOLEAN, Signal(p, dies) PROVE Entry'
  <2>1. file' # None => file # None /\ file'.by = file.by
    BY <1>13, AfterSignal
  <2> QED
    BY <1>13, <1>keeps, <2>1 DEF Signal
<1>14. ASSUME NEW p \in Procs, Crash(p) PROVE Entry'
  BY <1>14, <1>keeps DEF Crash
<1>15. ASSUME NEW p \in Cleaners, CleanInspect(p) PROVE Entry'
  BY <1>15, <1>same DEF CleanInspect
<1>16. ASSUME NEW p \in Cleaners, CleanRemove(p) PROVE Entry'
  BY <1>16, <1>keeps DEF CleanRemove
<1>17. CASE Age
  <2>1. file' # None => file # None /\ file'.by = file.by
    BY <1>17 DEF Age
  <2> QED
    BY <1>17, <1>keeps, <2>1 DEF Age
<1>18. CASE UNCHANGED vars
  BY <1>18, <1>same DEF vars
<1> QED
  BY <1>1, <1>2, <1>3, <1>4, <1>5, <1>6, <1>7, <1>8, <1>9, <1>10, <1>11, <1>12, <1>13, <1>14, <1>15, <1>16, <1>17, <1>18 DEF Next, Acquire, Process, Clean

LEMMA HeldStep == Types /\ Owners /\ CountIsHolders /\ Held /\ [Next]_vars => Held'
<1> SUFFICES ASSUME Types, Owners, CountIsHolders, Held, [Next]_vars PROVE Held'
  OBVIOUS
<1> USE LockAssumption DEF Types, Held
<1>same. ASSUME UNCHANGED <<held, lock>> PROVE Held'
  BY <1>same
<1>gone. ASSUME NEW p \in Procs, held' = [held EXCEPT ![p] = None],
                lock' = lock \/ lock' = [b \in Acquirers |-> IF ProcOf[b] = p THEN None ELSE lock[b]]
         PROVE  Held'
  <2>1. \A q \in Procs : held'[q] # None => q # p /\ held'[q] = held[q]
    BY <1>gone
  <2>2. \A q \in Procs, b \in Acquirers : q # p /\ held[q] # None /\ lock[b] = held[q] => lock'[b] = lock[b]
    BY <1>gone DEF Owners
  <2> QED
    BY <2>1, <2>2
<1>1. ASSUME NEW a \in Acquirers, Begin(a) PROVE Held'
  <2>1. lock[a] = None /\ held' = held /\ (lock' = lock \/ lock' = [lock EXCEPT ![a] = held[ProcOf[a]]])
    BY <1>1 DEF Begin, Owners, Has
  <2> QED
    BY <2>1
<1>2. ASSUME NEW a \in Acquirers, Open(a) PROVE Held'
  <2>1. CASE file = None
    <3>1. lock[a] = None /\ held' = [held EXCEPT ![ProcOf[a]] = a] /\ lock' = [lock EXCEPT ![a] = a]
      BY <1>2, <2>1 DEF Open, Owners, Has
    <3>2. lock'[a] = a /\ \A b \in Acquirers : lock[b] # None => lock'[b] = lock[b]
      BY <3>1
    <3> QED
      BY <3>1, <3>2
  <2>2. CASE file # None
    BY <1>2, <1>same, <2>2 DEF Open
  <2> QED
    BY <2>1, <2>2
<1>3. ASSUME NEW a \in Acquirers, Write(a) PROVE Held'
  BY <1>3, <1>same DEF Write
<1>4. ASSUME NEW a \in Acquirers, WriteFails(a) PROVE Held'
  <2>1. /\ lock[a] = a /\ lock' = [lock EXCEPT ![a] = None]
        /\ held' = [held EXCEPT ![ProcOf[a]] = IF @ = a THEN None ELSE @]
    BY <1>4 DEF WriteFails, Owners
  <2>2. \A q \in Procs : held'[q] # None => held'[q] = held[q] /\ held[q] # a
    BY <2>1 DEF Owners
  <2>3. \A b \in Acquirers : lock[b] # a => lock'[b] = lock[b]
    BY <2>1
  <2> QED
    BY <2>2, <2>3
<1>5. ASSUME NEW a \in Acquirers, Inspect(a) PROVE Held'
  BY <1>5, <1>same DEF Inspect
<1>6. ASSUME NEW a \in Acquirers, Stat(a) PROVE Held'
  BY <1>6, <1>same DEF Stat
<1>7. ASSUME NEW a \in Acquirers, Reclaim(a) PROVE Held'
  BY <1>7, <1>same DEF Reclaim
<1>8. ASSUME NEW a \in Acquirers, GiveUp(a) PROVE Held'
  BY <1>8, <1>same DEF GiveUp
<1>9. ASSUME NEW a \in Acquirers, Release(a) PROVE Held'
  <2> DEFINE h == lock[a]
  <2>1. lock' = [lock EXCEPT ![a] = None] /\ Has(a) /\ h # None
    BY <1>9 DEF Release, Owners, Has
  <2>2. CASE held[ProcOf[a]] # h
    <3>1. held' = held /\ \A q \in Procs : held[q] # h
      BY <1>9, <2>1, <2>2 DEF Release, Owners
    <3> QED
      BY <2>1, <3>1
  <2>3. CASE held[ProcOf[a]] = h /\ count[h] > 1
    <3>1. held' = held
      BY <1>9, <2>3 DEF Release
    <3>2. count[h] # 1
      BY <2>3
    <3>3. PICK b \in Holders(h) : b # a
      BY <2>1, <2>3, <3>2, HolderCounted
    <3>4. b \in Acquirers /\ lock'[b] = h
      BY <2>1, <3>3 DEF Holders
    <3> QED
      BY <2>1, <3>1, <3>4
  <2>4. CASE held[ProcOf[a]] = h /\ ~(count[h] > 1)
    <3>1. held' = [held EXCEPT ![ProcOf[a]] = None]
      BY <1>9, <2>4 DEF Release
    <3>2. \A q \in Procs : held'[q] # None => held'[q] = held[q] /\ held[q] # h
      BY <2>1, <2>4, <3>1 DEF Owners
    <3> QED
      BY <2>1, <3>2
  <2> QED
    BY <2>2, <2>3, <2>4
<1>10. ASSUME NEW a \in Acquirers, RemoveOwn(a) PROVE Held'
  BY <1>10, <1>same DEF RemoveOwn
<1>11. ASSUME NEW p \in Procs, WatchdogFires(p) PROVE Held'
  BY <1>11, <1>gone DEF WatchdogFires
<1>12. ASSUME NEW p \in Procs, WatchdogRemoves(p) PROVE Held'
  BY <1>12, <1>same DEF WatchdogRemoves
<1>13. ASSUME NEW p \in Procs, NEW dies \in BOOLEAN, Signal(p, dies) PROVE Held'
  <2>1. lock' = lock \/ lock' = [b \in Acquirers |-> IF ProcOf[b] = p THEN None ELSE lock[b]]
    BY <1>13 DEF Signal, Dies
  <2> QED
    BY <1>13, <1>gone, <2>1 DEF Signal
<1>14. ASSUME NEW p \in Procs, Crash(p) PROVE Held'
  BY <1>14, <1>gone DEF Crash, Dies
<1>15. ASSUME NEW p \in Cleaners, CleanInspect(p) PROVE Held'
  BY <1>15, <1>same DEF CleanInspect
<1>16. ASSUME NEW p \in Cleaners, CleanRemove(p) PROVE Held'
  BY <1>16, <1>same DEF CleanRemove
<1>17. CASE Age
  BY <1>17, <1>same DEF Age
<1>18. CASE UNCHANGED vars
  BY <1>18, <1>same DEF vars
<1> QED
  BY <1>1, <1>2, <1>3, <1>4, <1>5, <1>6, <1>7, <1>8, <1>9, <1>10, <1>11, <1>12, <1>13, <1>14, <1>15, <1>16, <1>17, <1>18 DEF Next, Acquire, Process, Clean

LEMMA LeakStep == Types /\ Owners /\ CountIsHolders /\ Entry /\ Held /\ NoLeakedFile /\ [Next]_vars => NoLeakedFile'
<1> SUFFICES ASSUME Types, Owners, CountIsHolders, Entry, Held, NoLeakedFile, [Next]_vars PROVE NoLeakedFile'
  OBVIOUS
<1> USE LockAssumption DEF Types, Goes, NoLeakedFile
<1>left. ASSUME RemovesOrNot, UNCHANGED <<held, lock, alive>>,
                \A b \in Acquirers : pc[b] \in {"writing", "holding"} => pc'[b] = pc[b]
         PROVE  NoLeakedFile'
  <2>1. SUFFICES ASSUME file' # None, ProcOf[file'.by] \in alive PROVE NoLeakedFile'
    BY <1>left
  <2> DEFINE p == ProcOf[file.by]
  <2>2. /\ file # None /\ file'.by = file.by /\ p \in Procs /\ file.by \in Acquirers
        /\ file'.left \/ held[p] = file.by
    BY <1>left, <2>1, AfterRemoval
  <2>3. CASE held[p] = file.by
    <3>1. PICK b \in Acquirers : lock[b] = file.by
      BY <2>2, <2>3 DEF Held
    <3>2. pc[b] \in {"writing", "holding"}
      BY <2>2, <3>1 DEF Owners, Has
    <3> QED
      BY <1>left, <2>2, <2>3, <3>1, <3>2
  <2>4. CASE held[p] # file.by
    <3>1. held[p] = None
      BY <2>2, <2>4 DEF Entry
    <3> QED
      BY <1>left, <2>2, <2>4, <3>1
  <2> QED
    BY <2>3, <2>4
<1>1. ASSUME NEW a \in Acquirers, Begin(a) PROVE NoLeakedFile'
  BY <1>1 DEF Begin, Owners, Has
<1>2. ASSUME NEW a \in Acquirers, Open(a) PROVE NoLeakedFile'
  <2>1. CASE file = None
    <3>1. /\ file'.by = a /\ held'[ProcOf[a]] = a /\ lock'[a] = a /\ pc'[a] = "writing"
      BY <1>2, <2>1 DEF Open, NewFile
    <3> QED
      BY <3>1
  <2>2. CASE file # None
    BY <1>2, <2>2 DEF Open
  <2> QED
    BY <2>1, <2>2
<1>3. ASSUME NEW a \in Acquirers, Write(a) PROVE NoLeakedFile'
  <2>1. file # None => file'.by = file.by /\ file'.left = file.left
    BY <1>3 DEF Write
  <2>2. file' # None => file # None
    BY <1>3 DEF Write
  <2>3. pc' = [pc EXCEPT ![a] = "holding"] /\ pc[a] = "writing" /\ UNCHANGED <<held, lock, alive, watchdog>>
    BY <1>3 DEF Write
  <2> QED
    BY <2>1, <2>2, <2>3
<1>4. ASSUME NEW a \in Acquirers, WriteFails(a) PROVE NoLeakedFile'
  <2>1. /\ lock[a] = a /\ lock' = [lock EXCEPT ![a] = None] /\ pc[a] = "writing"
        /\ held' = [held EXCEPT ![ProcOf[a]] = IF @ = a THEN None ELSE @]
        /\ pc' = [pc EXCEPT ![a] = "cleanup"] /\ UNCHANGED <<file, alive, watchdog>>
    BY <1>4 DEF WriteFails, Owners
  <2>2. pc'[a] = "cleanup"
    BY <2>1
  <2>3. SUFFICES ASSUME file # None, ProcOf[file.by] \in alive, ProcOf[file.by] # ProcOf[a]
                 PROVE  NoLeakedFile'
    BY <2>1, <2>2
  <2>4. file.by # a /\ held'[ProcOf[file.by]] = held[ProcOf[file.by]]
    BY <2>1, <2>3
  <2> QED
    BY <2>1, <2>3, <2>4
<1>5. ASSUME NEW a \in Acquirers, Inspect(a) PROVE NoLeakedFile'
  BY <1>5 DEF Inspect
<1>6. ASSUME NEW a \in Acquirers, Stat(a) PROVE NoLeakedFile'
  BY <1>6 DEF Stat
<1>7. ASSUME NEW a \in Acquirers, Reclaim(a) PROVE NoLeakedFile'
  BY <1>7 DEF Reclaim
<1>8. ASSUME NEW a \in Acquirers, GiveUp(a) PROVE NoLeakedFile'
  BY <1>8 DEF GiveUp
<1>9. ASSUME NEW a \in Acquirers, Release(a) PROVE NoLeakedFile'
  <2> DEFINE h == lock[a]
  <2>1. /\ h # None /\ lock' = [lock EXCEPT ![a] = None] /\ ProcOf[h] = ProcOf[a] /\ Has(a)
        /\ h \in Acquirers /\ pc[a] = "holding" /\ UNCHANGED <<file, alive, watchdog>>
    BY <1>9 DEF Release, Owners, Has
  <2>2. \A b \in Acquirers : lock[b] # None => pc[b] \in {"writing", "holding"} /\ ProcOf[lock[b]] = ProcOf[b]
    BY DEF Owners, Has
  <2>3. CASE held[ProcOf[a]] # h
    <3>1. pc' = [pc EXCEPT ![a] = "done"] /\ held' = held
      BY <1>9, <2>3 DEF Release
    <3> QED
      BY <2>1, <2>3, <3>1
  <2>4. CASE held[ProcOf[a]] = h /\ count[h] > 1
    <3>1. pc' = [pc EXCEPT ![a] = "done"] /\ held' = held
      BY <1>9, <2>4 DEF Release
    <3>2. count[h] # 1
      BY <2>4
    <3>3. PICK b \in Holders(h) : b # a
      BY <2>1, <2>4, <3>2, HolderCounted
    <3>4. b \in Acquirers /\ lock[b] = h /\ pc[b] \in {"writing", "holding"}
      BY <2>1, <2>2, <3>3 DEF Holders
    <3>5. pc'[b] \in {"writing", "holding"} /\ lock'[b] = h
      BY <2>1, <3>1, <3>3, <3>4
    <3> QED
      BY <2>1, <2>2, <3>1, <3>4, <3>5
  <2>5. CASE held[ProcOf[a]] = h /\ ~(count[h] > 1)
    <3>1. pc' = [pc EXCEPT ![a] = "closing"] /\ held' = [held EXCEPT ![ProcOf[a]] = None]
      BY <1>9, <2>5 DEF Release
    <3>2. pc'[a] = "closing"
      BY <3>1
    <3>3. SUFFICES ASSUME file # None, ProcOf[file.by] \in alive, ProcOf[file.by] # ProcOf[a]
                   PROVE  NoLeakedFile'
      BY <2>1, <3>2
    <3>4. held'[ProcOf[file.by]] = held[ProcOf[file.by]]
      BY <3>1, <3>3
    <3> QED
      BY <2>1, <2>2, <3>1, <3>3, <3>4
  <2> QED
    BY <2>3, <2>4, <2>5
<1>10. ASSUME NEW a \in Acquirers, RemoveOwn(a) PROVE NoLeakedFile'
  <2>1. /\ RemovesOrNot /\ UNCHANGED <<held, lock, alive, watchdog>>
        /\ \E to \in {"done", "failed"} : pc' = [pc EXCEPT ![a] = to]
        /\ pc[a] \in {"closing", "cleanup"}
    BY <1>10 DEF RemoveOwn
  <2> QED
    BY <2>1, <1>left
<1>11. ASSUME NEW p \in Procs, WatchdogFires(p) PROVE NoLeakedFile'
  BY <1>11 DEF WatchdogFires
<1>12. ASSUME NEW p \in Procs, WatchdogRemoves(p) PROVE NoLeakedFile'
  BY <1>12, <1>left DEF WatchdogRemoves
<1>13. ASSUME NEW p \in Procs, NEW dies \in BOOLEAN, Signal(p, dies) PROVE NoLeakedFile'
  <2>1. SUFFICES ASSUME file' # None, ProcOf[file'.by] \in alive' PROVE NoLeakedFile'
    OBVIOUS
  <2>2. /\ file # None /\ file'.by = file.by /\ file.by \in Acquirers /\ ProcOf[file.by] \in Procs
        /\ file'.left \/ (held[p] # file.by /\ file' = file)
    BY <1>13, <2>1, AfterSignal
  <2>3. held' = [held EXCEPT ![p] = None] /\ alive' \subseteq alive
    BY <1>13 DEF Signal, Dies
  <2>4. CASE ProcOf[file.by] = p
    <3>1. ~dies
      BY <1>13, <2>1, <2>2, <2>4 DEF Signal, Dies
    <3>2. UNCHANGED <<pc, lock, watchdog>> /\ held'[p] = None
      BY <1>13, <2>3, <3>1 DEF Signal
    <3> QED
      BY <2>2, <2>3, <2>4, <3>2
  <2>5. CASE ProcOf[file.by] # p
    <3>1. held'[ProcOf[file.by]] = held[ProcOf[file.by]]
      BY <2>2, <2>3, <2>5
    <3>2. \A b \in Acquirers : ProcOf[b] # p => pc'[b] = pc[b] /\ lock'[b] = lock[b]
      BY <1>13 DEF Signal, Dies
    <3>3. ProcOf[file.by] \in watchdog => ProcOf[file.by] \in watchdog'
      BY <1>13, <2>5 DEF Signal, Dies
    <3>4. \A b \in Acquirers : lock[b] = file.by => ProcOf[b] = ProcOf[file.by]
      BY <2>2 DEF Owners
    <3>5. file.left => file'.left
      BY <2>2
    <3> QED
      BY <2>2, <2>3, <2>5, <3>1, <3>2, <3>3, <3>4, <3>5
  <2> QED
    BY <2>4, <2>5
<1>14. ASSUME NEW p \in Procs, Crash(p) PROVE NoLeakedFile'
  <2>1. SUFFICES ASSUME file # None, ProcOf[file.by] \in alive, ProcOf[file.by] # p
                 PROVE  NoLeakedFile'
    BY <1>14 DEF Crash, Dies
  <2>2. held'[ProcOf[file.by]] = held[ProcOf[file.by]] /\ file' = file
    BY <1>14, <2>1 DEF Crash
  <2>3. \A b \in Acquirers : ProcOf[b] = ProcOf[file.by] => pc'[b] = pc[b] /\ lock'[b] = lock[b]
    BY <1>14, <2>1 DEF Crash, Dies
  <2>4. ProcOf[file.by] \in watchdog => ProcOf[file.by] \in watchdog'
    BY <1>14, <2>1 DEF Crash, Dies
  <2>5. \A b \in Acquirers : lock[b] = file.by => ProcOf[b] = ProcOf[file.by]
    BY <2>1 DEF Owners
  <2> QED
    BY <2>1, <2>2, <2>3, <2>4, <2>5
<1>15. ASSUME NEW p \in Cleaners, CleanInspect(p) PROVE NoLeakedFile'
  BY <1>15 DEF CleanInspect
<1>16. ASSUME NEW p \in Cleaners, CleanRemove(p) PROVE NoLeakedFile'
  BY <1>16 DEF CleanRemove
<1>17. CASE Age
  <2>1. file' # None => file # None /\ file'.by = file.by /\ file'.left = file.left
    BY <1>17 DEF Age
  <2> QED
    BY <1>17, <2>1 DEF Age
<1>18. CASE UNCHANGED vars
  BY <1>18 DEF vars
<1> QED
  BY <1>1, <1>2, <1>3, <1>4, <1>5, <1>6, <1>7, <1>8, <1>9, <1>10, <1>11, <1>12, <1>13, <1>14, <1>15, <1>16, <1>17, <1>18 DEF Next, Acquire, Process, Clean

(* While nothing excuses it no file is judged stale: an orphaned one has no *)
(* owner left, so that by NoLeakedFile it is on its way out or was left.   *)
LEMMA NeverStale ==
  ASSUME Types, NoLeakedFile, Undisturbed, ~excused, file # None, NEW p \in Procs
  PROVE  /\ ~Stale(file) /\ ~PastGrace(file)
         /\ OrphanSelf(file, p) => Window(file, p)
<1> USE LockAssumption DEF Types
<1>1. file.by \in Acquirers /\ ProcOf[file.by] \in Procs /\ file.by # None
  OBVIOUS
<1>2. ~Stale(file) /\ ~PastGrace(file)
  BY <1>1 DEF Undisturbed, Stale, PastGrace
<1>3. ASSUME OrphanSelf(file, p) PROVE Window(file, p)
  BY <1>1, <1>3 DEF Undisturbed, NoLeakedFile, OrphanSelf, Window, Leaving
<1> QED
  BY <1>2, <1>3

(* The last holder that goes takes the only lock with it. *)
LEMMA LastLeaves ==
  ASSUME Types, Owners, CountIsHolders, Undisturbed, ~excused, NEW a \in Acquirers, Has(a),
         ~(count[lock[a]] > 1)
  PROVE  /\ file # None /\ file.by = lock[a] /\ ProcOf[file.by] = ProcOf[a]
         /\ \A b \in Acquirers : b # a => ~Has(b) /\ ~Leaves(b)
         /\ \A q \in Procs : held[q] # None => q = ProcOf[a]
<1> USE LockAssumption DEF Types
<1>1. file # None /\ file.by = lock[a] /\ held[ProcOf[a]] = lock[a]
  BY DEF Undisturbed
<1>2. ProcOf[file.by] = ProcOf[a]
  BY <1>1 DEF Owners
<1>3. lock[a] \in Acquirers /\ count[lock[a]] \in Nat \ {0}
  BY <1>1, HolderCounted
<1>4. count[lock[a]] = 1
  BY <1>3
<1>5. Holders(lock[a]) = {a}
  BY <1>1, <1>4, HolderCounted
<1>6. \A b \in Acquirers : Has(b) => b \in Holders(lock[a])
  BY <1>1 DEF Undisturbed, Holders
<1>7. \A b \in Acquirers : ~Leaves(b)
  BY DEF Undisturbed
<1>8. \A q \in Procs : held[q] # None => q = ProcOf[a]
  BY <1>1, <1>2 DEF Undisturbed, Owners
<1> QED
  BY <1>1, <1>2, <1>5, <1>6, <1>7, <1>8

LEMMA UndisturbedStep == Types /\ Owners /\ CountIsHolders /\ NoLeakedFile /\ Undisturbed /\ [Next]_vars => Undisturbed'
<1> SUFFICES ASSUME Types, Owners, CountIsHolders, NoLeakedFile, Undisturbed, [Next]_vars PROVE Undisturbed'
  OBVIOUS
<1> USE LockAssumption DEF Types, Goes, Excuse, Has, Leaves
<1>1. ASSUME NEW a \in Acquirers, Begin(a) PROVE Undisturbed'
  <2> SUFFICES ASSUME ~excused' PROVE Undisturbed'
    BY DEF Undisturbed
  <2> DEFINE h == held[ProcOf[a]]
  <2>1. ~excused /\ pc[a] = "idle" /\ UNCHANGED <<file, held, saw, alive, watchdog, cleaner>>
    BY <1>1 DEF Begin
  <2>2. CASE a \in Reentrant /\ h # None
    <3>1. lock' = [lock EXCEPT ![a] = h] /\ pc' = [pc EXCEPT ![a] = "holding"]
      BY <1>1, <2>2 DEF Begin
    <3>2. file # None /\ file.by = h /\ ProcOf[file.by] = ProcOf[a]
      BY <2>1, <2>2 DEF Undisturbed, Owners
    <3>3. \A b \in Acquirers : ~Leaves(b)
      BY <2>1, <2>2, <3>2 DEF Undisturbed
    <3> QED
      BY <2>1, <3>1, <3>2, <3>3 DEF Undisturbed
  <2>3. CASE ~(a \in Reentrant /\ h # None)
    <3>1. lock' = lock /\ pc' = [pc EXCEPT ![a] = "try"]
      BY <1>1, <2>3 DEF Begin
    <3> QED
      BY <2>1, <3>1 DEF Undisturbed
  <2> QED
    BY <2>2, <2>3
<1>2. ASSUME NEW a \in Acquirers, Open(a) PROVE Undisturbed'
  <2> SUFFICES ASSUME ~excused' PROVE Undisturbed'
    BY DEF Undisturbed
  <2>1. ~excused /\ pc[a] = "try" /\ UNCHANGED <<saw, alive, watchdog, cleaner>>
    BY <1>2 DEF Open
  <2>2. CASE file = None
    <3>1. /\ held' = [held EXCEPT ![ProcOf[a]] = a] /\ lock' = [lock EXCEPT ![a] = a]
          /\ pc' = [pc EXCEPT ![a] = "writing"]
          /\ file' = [by |-> a, written |-> FALSE, age |-> 0, left |-> FALSE]
      BY <1>2, <2>2 DEF Open, NewFile
    <3>2. file'.by = a /\ file'.age = 0 /\ file' # None
      <4>1. file' \in [by : Acquirers, written : BOOLEAN, age : 0..2, left : BOOLEAN]
        BY <3>1
      <4> QED
        BY <3>1, <4>1
    <3>3. /\ \A b \in Acquirers : ~Has(b) /\ ~Leaves(b)
          /\ \A q \in Procs : held[q] = None
      BY <2>1, <2>2 DEF Undisturbed
    <3> QED
      BY <2>1, <3>1, <3>2, <3>3 DEF Undisturbed
  <2>3. CASE file # None
    <3>1. UNCHANGED <<file, held, lock>> /\ pc' = [pc EXCEPT ![a] = "exists"]
      BY <1>2, <2>3 DEF Open
    <3> QED
      BY <2>1, <3>1 DEF Undisturbed
  <2> QED
    BY <2>2, <2>3
<1>3. ASSUME NEW a \in Acquirers, Write(a) PROVE Undisturbed'
  <2> SUFFICES ASSUME ~excused' PROVE Undisturbed'
    BY DEF Undisturbed
  <2>1. /\ ~excused /\ pc[a] = "writing" /\ pc' = [pc EXCEPT ![a] = "holding"]
        /\ UNCHANGED <<held, lock, saw, alive, watchdog, cleaner>>
    BY <1>3 DEF Write
  <2>2. file # None /\ file.by = a
    BY <2>1 DEF Undisturbed, Owners
  <2>3. file' = [file EXCEPT !.written = TRUE]
    BY <1>3, <2>2 DEF Write
  <2>4. file'.by = file.by /\ file'.written /\ file'.age = file.age
    BY <2>2, <2>3
  <2>5. file' \in [by : Acquirers, written : BOOLEAN, age : 0..2, left : BOOLEAN]
    BY <2>2, <2>3
  <2> QED
    BY <2>1, <2>2, <2>4, <2>5 DEF Undisturbed
<1>4. ASSUME NEW a \in Acquirers, WriteFails(a) PROVE Undisturbed'
  <2> SUFFICES ASSUME ~excused' PROVE Undisturbed'
    BY DEF Undisturbed
  <2>1. /\ ~excused /\ lock[a] = a /\ ~(count[lock[a]] > 1) /\ lock' = [lock EXCEPT ![a] = None]
        /\ pc' = [pc EXCEPT ![a] = "cleanup"] /\ UNCHANGED <<file, saw, alive, watchdog, cleaner>>
        /\ held' = [held EXCEPT ![ProcOf[a]] = IF @ = a THEN None ELSE @]
    BY <1>4 DEF WriteFails, Owners
  <2>2. /\ file # None /\ file.by = lock[a] /\ ProcOf[file.by] = ProcOf[a]
        /\ \A b \in Acquirers : b # a => ~Has(b) /\ ~Leaves(b)
        /\ \A q \in Procs : held[q] # None => q = ProcOf[a]
    <3>1. Has(a)
      BY <1>4 DEF WriteFails
    <3> HIDE DEF Types, Has, Leaves
    <3> QED
      BY <2>1, <3>1, LastLeaves
  <2>3. held[ProcOf[a]] = a
    BY <1>4, <2>1 DEF WriteFails, Undisturbed
  <2>4. \A q \in Procs : held'[q] = None
    BY <2>1, <2>2, <2>3
  <2> QED
    BY <2>1, <2>2, <2>4 DEF Undisturbed
<1>5. ASSUME NEW a \in Acquirers, Inspect(a) PROVE Undisturbed'
  <2> SUFFICES ASSUME ~excused' PROVE Undisturbed'
    BY DEF Undisturbed
  <2>1. ~excused /\ ProcOf[a] \in Procs
    BY <1>5 DEF Inspect
  <2>2. file # None =>
          ~Stale(file) /\ ~PastGrace(file) /\ (OrphanSelf(file, ProcOf[a]) => Window(file, ProcOf[a]))
    BY <2>1, NeverStale
  <2>3. ~PastGrace(file)
    BY <2>2 DEF PastGrace
  <2>4. saw' = [saw EXCEPT ![a] = None]
    BY <1>5, <2>3 DEF Inspect
  <2>5. pc[a] = "exists" /\ UNCHANGED <<file, held, lock, alive, watchdog, cleaner>>
    BY <1>5 DEF Inspect
  <2>6. \E to \in {"stat", "try"} : pc' = [pc EXCEPT ![a] = to]
    BY <1>5, <2>1, <2>2 DEF Inspect
  <2> QED
    BY <2>1, <2>4, <2>5, <2>6 DEF Undisturbed
<1>6. ASSUME NEW a \in Acquirers, Stat(a) PROVE Undisturbed'
  <2> SUFFICES ASSUME ~excused' PROVE Undisturbed'
    BY DEF Undisturbed
  <2>1. /\ ~excused /\ pc[a] = "stat" /\ UNCHANGED <<file, held, lock, alive, watchdog, cleaner>>
        /\ saw' = [saw EXCEPT ![a] = None]
    BY <1>6 DEF Stat
  <2>2. saw[a] = None /\ (file # None => file.by # None)
    BY <2>1 DEF Undisturbed
  <2>3. pc' = [pc EXCEPT ![a] = "try"]
    BY <1>6, <2>2 DEF Stat
  <2> QED
    BY <2>1, <2>3 DEF Undisturbed
<1>7. ASSUME NEW a \in Acquirers, Reclaim(a) PROVE Undisturbed'
  BY <1>7 DEF Reclaim, Undisturbed
<1>8. ASSUME NEW a \in Acquirers, GiveUp(a) PROVE Undisturbed'
  BY <1>8 DEF GiveUp, Undisturbed
<1>9. ASSUME NEW a \in Acquirers, Release(a) PROVE Undisturbed'
  <2> SUFFICES ASSUME ~excused' PROVE Undisturbed'
    BY DEF Undisturbed
  <2>1. /\ ~excused /\ pc[a] = "holding" /\ lock' = [lock EXCEPT ![a] = None]
        /\ UNCHANGED <<file, saw, alive, watchdog, cleaner>>
    BY <1>9 DEF Release
  <2>2. held[ProcOf[a]] = lock[a]
    BY <2>1 DEF Undisturbed
  <2>3. CASE count[lock[a]] > 1
    <3>1. pc' = [pc EXCEPT ![a] = "done"] /\ held' = held
      BY <1>9, <2>2, <2>3 DEF Release
    <3> QED
      BY <2>1, <3>1 DEF Undisturbed
  <2>4. CASE ~(count[lock[a]] > 1)
    <3>1. pc' = [pc EXCEPT ![a] = "closing"] /\ held' = [held EXCEPT ![ProcOf[a]] = None]
      BY <1>9, <2>2, <2>4 DEF Release
    <3>2. /\ file # None /\ file.by = lock[a] /\ ProcOf[file.by] = ProcOf[a]
          /\ \A b \in Acquirers : b # a => ~Has(b) /\ ~Leaves(b)
          /\ \A q \in Procs : held[q] # None => q = ProcOf[a]
      <4>1. Has(a)
        BY <2>1
      <4> HIDE DEF Types, Has, Leaves
      <4> QED
        BY <2>1, <2>4, <4>1, LastLeaves
    <3>3. \A q \in Procs : held'[q] = None
      BY <3>1, <3>2
    <3> QED
      BY <2>1, <3>1, <3>2, <3>3 DEF Undisturbed
  <2> QED
    BY <2>3, <2>4
<1>10. ASSUME NEW a \in Acquirers, RemoveOwn(a) PROVE Undisturbed'
  <2> SUFFICES ASSUME ~excused' PROVE Undisturbed'
    BY DEF Undisturbed
  <2>1. /\ ~excused /\ Leaves(a) /\ RemovesOrNot
        /\ UNCHANGED <<held, lock, saw, alive, watchdog, cleaner>>
        /\ \E to \in {"done", "failed"} : pc' = [pc EXCEPT ![a] = to]
    BY <1>10 DEF RemoveOwn
  <2>2. \A b \in Acquirers : ~Has(b) /\ (Leaves(b) => a = b)
    BY <2>1 DEF Undisturbed
  <2>3. \A q \in Procs : held[q] = None
    BY <2>1 DEF Undisturbed, Owners
  <2>4. file' # None => file # None /\ file'.written = file.written /\ file'.age = file.age
    BY <2>1, AfterRemoval
  <2>5. \A b \in Acquirers : ~Has(b)' /\ ~Leaves(b)'
    BY <2>1, <2>2
  <2> QED
    BY <2>1, <2>3, <2>4, <2>5 DEF Undisturbed
<1>11. ASSUME NEW p \in Procs, WatchdogFires(p) PROVE Undisturbed'
  BY <1>11 DEF WatchdogFires, Undisturbed
<1>12. ASSUME NEW p \in Procs, WatchdogRemoves(p) PROVE Undisturbed'
  BY <1>12 DEF WatchdogRemoves, Undisturbed
<1>13. ASSUME NEW p \in Procs, NEW dies \in BOOLEAN, Signal(p, dies) PROVE Undisturbed'
  BY <1>13 DEF Signal, Undisturbed
<1>14. ASSUME NEW p \in Procs, Crash(p) PROVE Undisturbed'
  BY <1>14 DEF Crash, Undisturbed
<1>15. ASSUME NEW p \in Cleaners, CleanInspect(p) PROVE Undisturbed'
  <2> SUFFICES ASSUME ~excused' PROVE Undisturbed'
    BY DEF Undisturbed
  <2>1. ~excused /\ file # None /\ UNCHANGED <<file, held, pc, lock, saw, alive, watchdog>> /\ p \in Procs
    BY <1>15 DEF CleanInspect
  <2>2. ~Stale(file) /\ (OrphanSelf(file, p) => Window(file, p))
    BY <2>1, NeverStale
  <2>3. cleaner' = [cleaner EXCEPT ![p] = "done"]
    BY <1>15, <2>1, <2>2 DEF CleanInspect
  <2> QED
    BY <2>1, <2>3 DEF Undisturbed
<1>16. ASSUME NEW p \in Cleaners, CleanRemove(p) PROVE Undisturbed'
  BY <1>16 DEF CleanRemove, Undisturbed
<1>17. CASE Age
  <2> SUFFICES ASSUME ~excused' PROVE Undisturbed'
    BY DEF Undisturbed
  <2>1. /\ ~excused /\ file # None /\ file.age # 1 /\ file.written
        /\ file' = [file EXCEPT !.age = @ + 1]
        /\ UNCHANGED <<held, pc, lock, saw, alive, watchdog, cleaner>>
    BY <1>17 DEF Age
  <2>2. file.age = 0
    BY <2>1 DEF Undisturbed
  <2>3. file'.by = file.by /\ file'.written /\ file'.age = 1
    BY <2>1, <2>2
  <2>4. file' \in [by : Acquirers, written : BOOLEAN, age : 0..2, left : BOOLEAN]
    BY <2>1, <2>2
  <2> QED
    BY <2>1, <2>3, <2>4 DEF Undisturbed
<1>18. CASE UNCHANGED vars
  BY <1>18 DEF vars, Undisturbed
<1> QED
  BY <1>1, <1>2, <1>3, <1>4, <1>5, <1>6, <1>7, <1>8, <1>9, <1>10, <1>11, <1>12, <1>13, <1>14, <1>15, <1>16, <1>17, <1>18 DEF Next, Acquire, Process, Clean

-----------------------------------------------------------------------------
LEMMA Initial == Init => IInv
<1> SUFFICES ASSUME Init PROVE IInv
  OBVIOUS
<1> USE LockAssumption DEF Init
<1>1. Types
  <2>1. troubles \in 0..MaxTroubles
    OBVIOUS
  <2>2. /\ watchdog \subseteq alive /\ alive \subseteq Procs /\ excused \in BOOLEAN
        /\ count \in [Acquirers -> Nat]
    OBVIOUS
  <2> QED
    BY <2>1, <2>2 DEF Types
<1>2. Owners
  BY DEF Owners, Has, Past
<1>3. CountIsHolders /\ Entry /\ Held /\ NoLeakedFile
  BY DEF CountIsHolders, Entry, Held, NoLeakedFile
<1>4. Undisturbed
  BY DEF Undisturbed, Has, Leaves
<1> QED
  BY <1>1, <1>2, <1>3, <1>4 DEF IInv

LEMMA Invariance == Spec => []IInv
<1>1. IInv /\ [Next]_vars => IInv'
  BY TypeStep, OwnersStep, CountStep, EntryStep, HeldStep, LeakStep, UndisturbedStep DEF IInv
<1> QED
  BY Initial, <1>1, PTL DEF Spec

(* Types, and the count of a lock in HELD_LOCKS is the number of its        *)
(* holders, through nested acquires and releases, failed writes, watchdogs, *)
(* signals and deaths.                                                     *)
THEOREM TypeCorrect == Spec => []TypeOK
<1>1. IInv => TypeOK
  BY DEF IInv, Types, CountIsHolders, Holders, TypeOK
<1> QED
  BY <1>1, Invariance, PTL

(* A call that holds the session has its lock's file, unless something gave *)
(* the lock away: any number of waiters, nested holders and sweeps keep it. *)
THEOREM LockNotLost == Spec => []LockKept
<1>1. IInv => LockKept
  BY DEF IInv, Undisturbed, LockKept, Holding, Has
<1> QED
  BY <1>1, Invariance, PTL

(* A file of a live process has a holder, or a call or watchdog on the way *)
(* to remove it, or such a removal failed and its process has no lock in   *)
(* its table, so that its next call reclaims the file. This holds whatever *)
(* failed, was stolen or was released before, for any number of failures.  *)
THEOREM NoLeak == Spec => []NoLeakedFile
<1>1. IInv => NoLeakedFile
  BY DEF IInv
<1> QED
  BY <1>1, Invariance, PTL
=============================================================================

-------------------------- MODULE SessionWriteLock --------------------------
(***************************************************************************)
(* The write lock of one session file (openclaw/src/agents/                *)
(* session-write-lock.ts): a file beside it that is created exclusively,   *)
(* and, in each process, the entry of HELD_LOCKS that counts its holders.  *)
(*                                                                         *)
(* What happens between two awaits is one action. Every call of            *)
(* acquireSessionWriteLock creates at most one lock, which is named after  *)
(* it. A dead process stands for one whose pid is gone or was given to     *)
(* another one. A file has the ages that verdicts tell apart: new, past    *)
(* ORPHAN_LOCK_PAYLOAD_GRACE_MS, past staleMs.                             *)
(*                                                                         *)
(* ForgetsCount, NoGrace, EmptyIsBusy and LeavesFile are wrong variants of *)
(* the definition that follows them; no action uses them.                  *)
(***************************************************************************)
EXTENDS Naturals, FiniteSets

CONSTANTS
  Acquirers,   \* calls of acquireSessionWriteLock
  Procs,       \* processes
  ProcOf,      \* the process of a call
  Reentrant,   \* calls with allowReentrant
  Cleaners,    \* processes that call cleanStaleLockFiles
  None,        \* no file, no lock
  MaxAge,      \* bound on the age of a file
  MaxTroubles  \* bound on crashes, signals, watchdog releases, failed writes and removals

ASSUME LockAssumption ==
  /\ ProcOf \in [Acquirers -> Procs]
  /\ Reentrant \subseteq Acquirers
  /\ Cleaners \subseteq Procs
  /\ IsFiniteSet(Acquirers) /\ None \notin Acquirers
  /\ None \notin [by : Acquirers, written : BOOLEAN, age : 0..2, left : BOOLEAN]
  /\ MaxAge \in 0..2
  /\ MaxTroubles \in Nat

VARIABLES
  file,      \* the lock file: its creator, whether the payload is in it, its age;
             \* history: left behind, given up by its process that failed to remove it
  held,      \* HELD_LOCKS of each process
  count,     \* count of each lock
  pc,        \* where each call is
  lock,      \* the lock each call holds
  saw,       \* the creator of an old file without payload that each call read
  alive,     \* processes that live
  watchdog,  \* processes whose watchdog has yet to remove the file
  cleaner,   \* where cleanStaleLockFiles of each cleaner is
  troubles,  \* crashes, signals, watchdog releases, failed writes and removals so far
  excused    \* history: something may have cost a holder its lock

vars == <<file, held, count, pc, lock, saw, alive, watchdog, cleaner, troubles, excused>>

NewFile(a) == [by |-> a, written |-> FALSE, age |-> 0, left |-> FALSE]

Init ==
  /\ file = None
  /\ held = [p \in Procs |-> None]
  /\ count = [a \in Acquirers |-> 0]
  /\ pc = [a \in Acquirers |-> "idle"]
  /\ lock = [a \in Acquirers |-> None]
  /\ saw = [a \in Acquirers |-> None]
  /\ alive = Procs
  /\ watchdog = {}
  /\ cleaner = [p \in Cleaners |-> "idle"]
  /\ troubles = 0
  /\ excused = FALSE

Goes(a, to) == pc' = [pc EXCEPT ![a] = to]

Trouble == troubles < MaxTroubles /\ troubles' = troubles + 1

Excuse(reason) == excused' = (excused \/ reason)

-----------------------------------------------------------------------------
(* acquireSessionWriteLock.                                                *)

(* A nested call takes the lock its process holds. *)
ForgetsCount(h) == count

Counted(h) == [count EXCEPT ![h] = @ + 1]

Begin(a) ==
  LET h == held[ProcOf[a]]
  IN  /\ pc[a] = "idle"
      /\ IF a \in Reentrant /\ h # None
         THEN /\ count' = Counted(h)
              /\ lock' = [lock EXCEPT ![a] = h]
              /\ Goes(a, "holding")
         ELSE /\ Goes(a, "try")
              /\ UNCHANGED <<count, lock>>
      /\ UNCHANGED <<file, held, saw, alive, watchdog, cleaner, troubles, excused>>

(* open with the flag wx. A file between its creation and the entry in     *)
(* HELD_LOCKS is empty, so that nobody can tell the two steps apart.       *)
Open(a) ==
  /\ pc[a] = "try"
  /\ IF file = None
     THEN /\ file' = NewFile(a)
          /\ held' = [held EXCEPT ![ProcOf[a]] = a]
          /\ count' = [count EXCEPT ![a] = 1]
          /\ lock' = [lock EXCEPT ![a] = a]
          /\ Goes(a, "writing")
     ELSE /\ Goes(a, "exists")
          /\ UNCHANGED <<file, held, count, lock>>
  /\ UNCHANGED <<saw, alive, watchdog, cleaner, troubles, excused>>

(* The payload goes to the file that was opened, if that is not gone.      *)
Write(a) ==
  /\ pc[a] = "writing"
  /\ file' = IF file # None /\ file.by = a THEN [file EXCEPT !.written = TRUE] ELSE file
  /\ Goes(a, "holding")
  /\ UNCHANGED <<held, count, lock, saw, alive, watchdog, cleaner, troubles, excused>>

WriteFails(a) ==
  /\ pc[a] = "writing"
  /\ Trouble
  /\ held' = [held EXCEPT ![ProcOf[a]] = IF @ = a THEN None ELSE @]
  /\ lock' = [lock EXCEPT ![a] = None]
  /\ Goes(a, "cleanup")
  /\ Excuse(count[a] > 1)
  /\ UNCHANGED <<file, count, saw, alive, watchdog, cleaner>>

(* inspectLockPayload of a payload that was read. *)
Stale(f) == ProcOf[f.by] \notin alive \/ f.age = 2

(* shouldTreatAsOrphanSelfLock, for the process p. *)
OrphanSelf(f, p) == ProcOf[f.by] = p /\ held[p] = None

(* A call of the process that made f, or its watchdog, is about to remove it. *)
Leaving(f) ==
  \/ \E a \in Acquirers : ProcOf[a] = ProcOf[f.by] /\ pc[a] \in {"closing", "cleanup"}
  \/ ProcOf[f.by] \in watchdog

(* It is one on its way out, or one that was left behind. *)
Window(f, p) == OrphanSelf(f, p) /\ (Leaving(f) \/ f.left)

(* readLockPayload and the verdict; without a payload the file is looked   *)
(* at once more, for its age at this time.                                 *)
NoGrace(f) == f # None /\ ~f.written

EmptyIsBusy(f) == FALSE

PastGrace(f) == f # None /\ ~f.written /\ f.age > 0

Inspect(a) ==
  LET p == ProcOf[a]
      read == file # None /\ file.written
  IN  /\ pc[a] = "exists"
      /\ saw' = [saw EXCEPT ![a] = IF PastGrace(file) THEN file.by ELSE None]
      /\ IF ~read THEN Goes(a, "stat") /\ UNCHANGED excused
         ELSE IF Stale(file) \/ OrphanSelf(file, p)
              THEN Goes(a, "remove") /\ Excuse(Window(file, p))
              ELSE Goes(a, "try") /\ UNCHANGED excused
      /\ UNCHANGED <<file, held, count, lock, alive, watchdog, cleaner, troubles>>

(* shouldReclaimContendedLockFile: a file that was created or written      *)
(* since is new.                                                           *)
Stat(a) ==
  /\ pc[a] = "stat"
  /\ Goes(a, IF file # None /\ ~file.written /\ file.by = saw[a] THEN "remove" ELSE "try")
  /\ saw' = [saw EXCEPT ![a] = None]
  /\ UNCHANGED <<file, held, count, lock, alive, watchdog, cleaner, troubles, excused>>

(* The error of this rm is thrown, out of the loop. *)
Reclaim(a) ==
  /\ pc[a] = "remove"
  /\ \/ file' = None /\ Goes(a, "try") /\ UNCHANGED troubles
     \/ Trouble /\ Goes(a, "failed") /\ UNCHANGED file
  /\ UNCHANGED <<held, count, lock, saw, alive, watchdog, cleaner, excused>>

GiveUp(a) ==
  /\ pc[a] = "try"
  /\ Goes(a, "failed")
  /\ UNCHANGED <<file, held, count, lock, saw, alive, watchdog, cleaner, troubles, excused>>

-----------------------------------------------------------------------------
(* releaseHeldLock.                                                        *)

(* A lock that is not the process's any more is not touched; the last      *)
(* holder takes the entry out before the file is closed and removed.       *)
Release(a) ==
  LET p == ProcOf[a]
      h == lock[a]
  IN  /\ pc[a] = "holding"
      /\ lock' = [lock EXCEPT ![a] = None]
      /\ IF held[p] # h THEN Goes(a, "done") /\ UNCHANGED <<held, count>>
         ELSE /\ count' = [count EXCEPT ![h] = @ - 1]
              /\ IF count[h] > 1 THEN Goes(a, "done") /\ UNCHANGED held
                 ELSE Goes(a, "closing") /\ held' = [held EXCEPT ![p] = None]
      /\ UNCHANGED <<file, saw, alive, watchdog, cleaner, troubles, excused>>

LeavesFile(f) == f

Removed(f) == None

(* rm of the path, whatever file is there by now, of which nobody learns   *)
(* that it failed. What stays is left behind, unless its process has the   *)
(* lock in HELD_LOCKS.                                                     *)
RemovesOrNot ==
  \/ file' = Removed(file) /\ UNCHANGED troubles
  \/ /\ file # None /\ Trouble
     /\ file' = IF held[ProcOf[file.by]] = file.by THEN file ELSE [file EXCEPT !.left = TRUE]

(* The end of a release, and of a call whose write failed.                 *)
RemoveOwn(a) ==
  /\ pc[a] \in {"closing", "cleanup"}
  /\ RemovesOrNot
  /\ Goes(a, IF pc[a] = "closing" THEN "done" ELSE "failed")
  /\ UNCHANGED <<held, count, lock, saw, alive, watchdog, cleaner, excused>>

(* runLockWatchdogCheck, for a lock held longer than maxHoldMs. *)
WatchdogFires(p) ==
  /\ p \in alive /\ held[p] # None /\ p \notin watchdog
  /\ Trouble
  /\ held' = [held EXCEPT ![p] = None]
  /\ count' = [count EXCEPT ![held[p]] = 0]
  /\ watchdog' = watchdog \cup {p}
  /\ Excuse(TRUE)
  /\ UNCHANGED <<file, pc, lock, saw, alive, cleaner>>

WatchdogRemoves(p) ==
  /\ p \in alive /\ p \in watchdog
  /\ RemovesOrNot
  /\ watchdog' = watchdog \ {p}
  /\ UNCHANGED <<held, count, pc, lock, saw, alive, cleaner, excused>>

-----------------------------------------------------------------------------
(* Processes.                                                              *)

(* What a process was in the middle of ends with it. *)
Dies(p) ==
  /\ alive' = alive \ {p}
  /\ pc' = [a \in Acquirers |-> IF ProcOf[a] = p THEN "dead" ELSE pc[a]]
  /\ lock' = [a \in Acquirers |-> IF ProcOf[a] = p THEN None ELSE lock[a]]
  /\ saw' = [a \in Acquirers |-> IF ProcOf[a] = p THEN None ELSE saw[a]]
  /\ watchdog' = watchdog \ {p}

(* releaseAllLocksSync, on a signal or at exit; a process with handlers of *)
(* its own goes on after the signal. A failing rmSync is ignored.          *)
Signal(p, dies) ==
  /\ p \in alive
  /\ Trouble
  /\ \/ held[p] = None /\ UNCHANGED file
     \/ held[p] # None /\ file' = None
     \/ /\ held[p] # None
        /\ file' = IF file # None /\ file.by = held[p] THEN [file EXCEPT !.left = TRUE] ELSE file
  /\ held' = [held EXCEPT ![p] = None]
  /\ IF dies THEN Dies(p) ELSE UNCHANGED <<pc, lock, saw, alive, watchdog>>
  /\ Excuse(TRUE)
  /\ UNCHANGED <<count, cleaner>>

Crash(p) ==
  /\ p \in alive
  /\ Trouble
  /\ Dies(p)
  /\ held' = [held EXCEPT ![p] = None]
  /\ Excuse(TRUE)
  /\ UNCHANGED <<file, count, cleaner>>

(* cleanStaleLockFiles, at a start or from the doctor: a file without a    *)
(* payload is stale whatever its age. The sweep ends with a failing rm.    *)
CleanInspect(p) ==
  LET read == file # None /\ file.written
  IN  /\ p \in alive /\ cleaner[p] = "idle"
      /\ file # None
      /\ IF ~read \/ Stale(file) \/ OrphanSelf(file, p)
         THEN /\ cleaner' = [cleaner EXCEPT ![p] = "remove"]
              /\ Excuse(~read \/ Window(file, p))
         ELSE cleaner' = [cleaner EXCEPT ![p] = "done"] /\ UNCHANGED excused
      /\ UNCHANGED <<file, held, count, pc, lock, saw, alive, watchdog, troubles>>

CleanRemove(p) ==
  /\ p \in alive /\ cleaner[p] = "remove"
  /\ \/ file' = None /\ UNCHANGED troubles
     \/ Trouble /\ UNCHANGED file
  /\ cleaner' = [cleaner EXCEPT ![p] = "done"]
  /\ UNCHANGED <<held, count, pc, lock, saw, alive, watchdog, excused>>

(* Time goes by. *)
Age ==
  /\ file # None /\ file.age < MaxAge
  /\ file' = [file EXCEPT !.age = @ + 1]
  /\ Excuse(file.age = 1 \/ ~file.written)
  /\ UNCHANGED <<held, count, pc, lock, saw, alive, watchdog, cleaner, troubles>>

Acquire(a) == Begin(a) \/ Open(a) \/ Write(a) \/ Inspect(a) \/ Stat(a) \/ Reclaim(a)

Process(p) ==
  \/ WatchdogFires(p) \/ WatchdogRemoves(p) \/ Crash(p)
  \/ \E dies \in BOOLEAN : Signal(p, dies)

Clean(p) == CleanInspect(p) \/ CleanRemove(p)

Next ==
  \/ \E a \in Acquirers : Acquire(a) \/ WriteFails(a) \/ GiveUp(a) \/ Release(a) \/ RemoveOwn(a)
  \/ \E p \in Procs : Process(p)
  \/ \E p \in Cleaners : Clean(p)
  \/ Age

Spec == Init /\ [][Next]_vars

(* Calls go on and holders release; time passes. Nobody has to give up.    *)
FairSpec ==
  /\ Spec
  /\ \A a \in Acquirers : WF_vars(Acquire(a)) /\ WF_vars(Release(a)) /\ WF_vars(RemoveOwn(a))
  /\ \A p \in Procs : WF_vars(WatchdogRemoves(p))
  /\ WF_vars(Age)

-----------------------------------------------------------------------------
TypeOK ==
  /\ file = None \/ file \in [by : Acquirers, written : BOOLEAN, age : 0..2, left : BOOLEAN]
  /\ held \in [Procs -> Acquirers \cup {None}]
  /\ count \in [Acquirers -> Nat]
  /\ \A p \in Procs : held[p] # None =>
       count[held[p]] = Cardinality({a \in Acquirers : lock[a] = held[p]})
  /\ pc \in [Acquirers -> {"idle", "try", "exists", "stat", "remove", "writing", "holding",
                           "closing", "cleanup", "done", "failed", "dead"}]
  /\ lock \in [Acquirers -> Acquirers \cup {None}]
  /\ saw \in [Acquirers -> Acquirers \cup {None}]
  /\ alive \subseteq Procs
  /\ watchdog \subseteq alive
  /\ cleaner \in [Cleaners -> {"idle", "remove", "done"}]
  /\ troubles \in 0..MaxTroubles
  /\ excused \in BOOLEAN

Holding(a) == pc[a] = "holding"

(* Two calls of different locks never hold the session at a time.          *)
SingleWriter == \A a, b \in Acquirers : Holding(a) /\ Holding(b) => lock[a] = lock[b]

(* A call holds the session only while its lock's file is there, so that   *)
(* another lock cannot be taken beside it, unless something gave the lock  *)
(* away: a watchdog or a signal, the death of a process, a file past its   *)
(* age or without payload past the grace, a sweep that met a file without  *)
(* payload, a waiter of the same process that met the file of a lock on    *)
(* its way out or one left by a removal that failed, or a failed write of  *)
(* the payload under a nested holder. Contention, nested releases, other   *)
(* failed writes and a failed removal alone are not among these.           *)
LockKept ==
  ~excused => \A a \in Acquirers : Holding(a) => file # None /\ file.by = lock[a]

(* A file whose creator lives has a call that holds its lock, or is going  *)
(* to be removed by a call or the watchdog of its process. The one other   *)
(* file is the one that such a removal, or that of a signal, failed on: no *)
(* lock of the session is then in HELD_LOCKS of its process, so that the   *)
(* next call takes it for an orphan (or, without a payload, for abandoned  *)
(* after the grace) and no other call of the process holds the session     *)
(* through an entry of HELD_LOCKS meanwhile.                               *)
NoLeakedFile ==
  file # None /\ ProcOf[file.by] \in alive =>
    \/ held[ProcOf[file.by]] = file.by
         /\ \E a \in Acquirers : pc[a] \in {"writing", "holding"} /\ lock[a] = file.by
    \/ \E a \in Acquirers : ProcOf[a] = ProcOf[file.by] /\ pc[a] \in {"closing", "cleanup"}
    \/ ProcOf[file.by] \in watchdog
    \/ file.left /\ held[ProcOf[file.by]] = None

Waiting(a) == pc[a] \in {"try", "exists", "stat", "remove"}

(* A call that does not give up gets the lock, whatever the holders, the   *)
(* crashed owners and the other waiters do.                                *)
WaiterServed == \A a \in Acquirers : Waiting(a) ~> ~Waiting(a)
=============================================================================

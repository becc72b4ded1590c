-------------------------- MODULE ReplyRunRegistry --------------------------
(***************************************************************************)
(* The registry of reply operations (openclaw/src/auto-reply/reply/        *)
(* reply-run-registry.ts): one operation per session key, found by its key *)
(* or by the session id it has at the moment, with waiters for its end.    *)
(*                                                                         *)
(* Every call is synchronous and is one action. The owner of an operation  *)
(* (runReplyAgent, the followup runner) creates it, sets phases, changes   *)
(* the session id before it runs, attaches and detaches backends, may fail *)
(* it, and completes it last; aborts, forced clears and waits come from    *)
(* anywhere. Which code an abort or a failure has does not matter here.    *)
(*                                                                         *)
(* ClearsTwice, StaysBound, ForgetsOldId and AttachesDead are wrong        *)
(* variants of the definition that follows them; no action uses them.      *)
(***************************************************************************)
EXTENDS Naturals, FiniteSets

CONSTANTS
  Keys,      \* session keys
  Ids,       \* session ids
  Ops,       \* calls of createReplyOperation that succeed
  KeyOf,     \* the key of an operation
  Waiters,   \* callers that wait, one wait at a time each
  None       \* no key, no id, no operation

ASSUME RegistryAssumption ==
  /\ KeyOf \in [Ops -> Keys]
  /\ None \notin Keys \cup Ids \cup Ops

VARIABLES
  active,     \* activeRunsByKey
  sessionOf,  \* activeSessionIdsByKey
  keyOf,      \* activeKeysBySessionId
  waitKey,    \* waitKeysBySessionId
  waiter,     \* waitersByKey, and how each wait ended
  op,         \* the closure of each operation, and its owner
  ids,        \* history: the session ids an active operation has had
  crossed     \* history: operations that shared an id with another active one

vars == <<active, sessionOf, keyOf, waitKey, waiter, op, ids, crossed>>

registry == <<active, sessionOf, keyOf, waitKey, waiter>>

NewOp == [owner |-> "none", phase |-> "queued", result |-> "none", sid |-> None,
          cleared |-> FALSE, aborted |-> FALSE, attached |-> FALSE, handle |-> "none"]

Gone == [NewOp EXCEPT !.owner = "gone", !.phase = "completed", !.cleared = TRUE]

NoWait == [status |-> "idle", key |-> None, for |-> None]

Init ==
  /\ active = [k \in Keys |-> None]
  /\ sessionOf = [k \in Keys |-> None]
  /\ keyOf = [i \in Ids |-> None]
  /\ waitKey = [i \in Ids |-> None]
  /\ waiter = [w \in Waiters |-> NoWait]
  /\ op = [o \in Ops |-> NewOp]
  /\ ids = [o \in Ops |-> {}]
  /\ crossed = {}

Active == {o \in Ops : op[o].owner # "none" /\ ~op[o].cleared}

(* The operations in S that share a session id, past or present. *)
Sharing(S, had) == {o \in S : \E p \in S \ {o} : had[o] \cap had[p] # {}}

-----------------------------------------------------------------------------
(* createReplyOperation. It refuses a key that has an operation.           *)
Create(o, i) ==
  LET k == KeyOf[o]
      had == [ids EXCEPT ![o] = {i}]
  IN  /\ op[o].owner = "none"
      /\ active[k] = None
      /\ active' = [active EXCEPT ![k] = o]
      /\ sessionOf' = [sessionOf EXCEPT ![k] = i]
      /\ keyOf' = [keyOf EXCEPT ![i] = k]
      /\ waitKey' = [waitKey EXCEPT ![i] = k]
      /\ op' = [op EXCEPT ![o].owner = "working", ![o].sid = i]
      /\ ids' = had
      /\ crossed' = crossed \cup Sharing(Active \cup {o}, had)
      /\ UNCHANGED waiter

(* clearState of the operations in S: once for each, whoever comes first.  *)
ClearsTwice(S) == S

Unclear(S) == {o \in S : ~op[o].cleared}

Told(o) == [status |-> "ended", key |-> None, for |-> o]

(* clearReplyRunState and notifyReplyRunEnded. *)
ClearState(S) ==
  LET gone == {KeyOf[o] : o \in Unclear(S)}
  IN  /\ active' = [k \in Keys |-> IF k \in gone THEN None ELSE active[k]]
      /\ sessionOf' = [k \in Keys |-> IF k \in gone THEN None ELSE sessionOf[k]]
      /\ keyOf' = [i \in Ids |->
           IF \E o \in Unclear(S) : op[o].sid = i /\ keyOf[i] = KeyOf[o] THEN None ELSE keyOf[i]]
      /\ waitKey' = [i \in Ids |-> IF waitKey[i] \in gone THEN None ELSE waitKey[i]]
      /\ waiter' = [w \in Waiters |->
           IF waiter[w].status = "waiting" /\ waiter[w].key \in gone
           THEN Told(waiter[w].for) ELSE waiter[w]]
      /\ ids' = [o \in Ops |-> IF o \in S THEN {} ELSE ids[o]]
      /\ crossed' = crossed \ S

-----------------------------------------------------------------------------
(* What the owner calls.                                                   *)

Works(o) == op[o].owner = "working"

Phases == {"preflight_compacting", "memory_flushing", "running"}

After(phase) ==
  CASE phase = "queued" -> Phases
    [] phase = "preflight_compacting" -> Phases \ {"preflight_compacting"}
    [] phase = "memory_flushing" -> {"running"}
    [] OTHER -> {}

SetPhase(o, next) ==
  /\ Works(o)
  /\ op[o].result = "none"
  /\ next \in After(op[o].phase)
  /\ op' = [op EXCEPT ![o].phase = next]
  /\ UNCHANGED <<registry, ids, crossed>>

(* The id is bound to another key: updateSessionId throws. *)
BoundElsewhere(o, i) == keyOf[i] \notin {None, KeyOf[o]}

StaysBound(o, i) == sessionOf

Rebound(o, i) == [sessionOf EXCEPT ![KeyOf[o]] = i]

ForgetsOldId(o, i) == [waitKey EXCEPT ![op[o].sid] = None, ![i] = KeyOf[o]]

StillWaitable(o, i) == [waitKey EXCEPT ![op[o].sid] = KeyOf[o], ![i] = KeyOf[o]]

(* While it compacts or flushes. *)
UpdateSessionId(o, i) ==
  LET had == [ids EXCEPT ![o] = @ \cup {i}]
  IN  /\ Works(o)
      /\ op[o].phase \in {"preflight_compacting", "memory_flushing"}
      /\ op[o].result = "none"
      /\ i # op[o].sid
      /\ ~BoundElsewhere(o, i)
      /\ keyOf' = [keyOf EXCEPT ![op[o].sid] = None, ![i] = KeyOf[o]]
      /\ sessionOf' = Rebound(o, i)
      /\ waitKey' = StillWaitable(o, i)
      /\ op' = [op EXCEPT ![o].sid = i]
      /\ ids' = had
      /\ crossed' = crossed \cup Sharing(Active, had)
      /\ UNCHANGED <<active, waiter>>

(* A memory flush has a backend of its own. A handle that comes too late   *)
(* is cancelled at once.                                                   *)
AttachesDead(o) == [op[o] EXCEPT !.attached = TRUE, !.handle = "live"]

Attached(o) ==
  IF op[o].result # "none" THEN [op[o] EXCEPT !.handle = "cancelled"]
  ELSE [op[o] EXCEPT !.attached = TRUE,
                     !.handle = IF op[o].aborted THEN "cancelled" ELSE "live"]

AttachBackend(o) ==
  /\ Works(o)
  /\ op[o].phase \notin {"queued", "preflight_compacting"}
  /\ op[o].handle = "none"
  /\ op' = [op EXCEPT ![o] = Attached(o)]
  /\ UNCHANGED <<registry, ids, crossed>>

DetachBackend(o) ==
  /\ Works(o)
  /\ op[o].handle # "none"
  /\ op' = [op EXCEPT ![o].attached = FALSE, ![o].handle = "none"]
  /\ UNCHANGED <<registry, ids, crossed>>

(* The result an operation gets if it has none, and its clear. *)
Failed(o) ==
  IF op[o].result # "none" THEN [op[o] EXCEPT !.cleared = TRUE]
  ELSE [op[o] EXCEPT !.cleared = TRUE, !.result = "failed", !.phase = "failed"]

Fail(o) ==
  /\ ClearState({o})
  /\ op' = [op EXCEPT ![o] = Failed(o)]

FailOwn(o) == Works(o) /\ Fail(o)

(* In the block finally of the owner, after its backends are gone; what    *)
(* the closure holds is not used any more.                                 *)
Complete(o) ==
  /\ Works(o)
  /\ op[o].handle = "none"
  /\ ClearState({o})
  /\ op' = [op EXCEPT ![o] = Gone]

-----------------------------------------------------------------------------
(* What others call.                                                       *)

(* The signal of the caller; its listeners are not told apart from it. *)
UpstreamAbort(o) ==
  /\ Works(o)
  /\ ~op[o].aborted
  /\ op' = [op EXCEPT ![o].aborted = TRUE]
  /\ UNCHANGED <<registry, ids, crossed>>

(* abortByUser and abortForRestart, of the operations in S: one that is    *)
(* queued is cleared at once, any other stays until its owner completes.   *)
Aborted(o) ==
  [op[o] EXCEPT !.phase = "aborted",
                !.aborted = TRUE,
                !.result = IF @ = "none" THEN "aborted" ELSE @,
                !.handle = IF op[o].attached THEN "cancelled" ELSE @,
                !.cleared = (@ \/ op[o].phase = "queued")]

Abort(S) ==
  /\ ClearState({o \in S : op[o].phase = "queued"})
  /\ op' = [o \in Ops |-> IF o \in S THEN Aborted(o) ELSE op[o]]

AbortKey(k) == active[k] # None /\ Abort({active[k]})

(* resolveReplyRunForCurrentSessionId. *)
RunOf(i) == IF keyOf[i] = None THEN None ELSE active[keyOf[i]]

AbortReplyRunBySessionId(i) == RunOf(i) # None /\ Abort({RunOf(i)})

ForceClearReplyRunBySessionId(i) == RunOf(i) # None /\ Fail(RunOf(i))

(* isReplyRunCompacting; a backend that runs says for itself. *)
MustCompact(o) == op[o].phase \in {"preflight_compacting", "memory_flushing"}

MayCompact(o) == MustCompact(o) \/ (op[o].phase = "running" /\ op[o].attached)

AbortActiveReplyRuns(S) ==
  LET registered == {active[k] : k \in Keys} \ {None}
  IN  /\ S # {} /\ S \subseteq registered
      /\ \/ S = registered
         \/ {o \in registered : MustCompact(o)} \subseteq S /\ \A o \in S : MayCompact(o)
      /\ Abort(S)

-----------------------------------------------------------------------------
(* waitForIdle, for the operation o if it is one that can be told.         *)
WaitForIdle(w, k, o) ==
  /\ waiter[w].status # "waiting"
  /\ waiter' = [waiter EXCEPT ![w] =
       IF k = None \/ active[k] = None THEN Told(o)
       ELSE [status |-> "waiting", key |-> k, for |-> o]]
  /\ UNCHANGED <<active, sessionOf, keyOf, waitKey, op, ids, crossed>>

WaitByKey(w, k) == WaitForIdle(w, k, active[k])

(* resolveReplyRunWaitKey: also by an id that the operation has had. *)
Named(i) ==
  LET named == {o \in Active \ crossed : i \in ids[o]}
  IN  IF named = {} THEN None ELSE CHOOSE o \in named : TRUE

WaitForReplyRunEndBySessionId(w, i) ==
  WaitForIdle(w, IF keyOf[i] # None THEN keyOf[i] ELSE waitKey[i], Named(i))

(* The caller is told that the run has not ended. *)
WaitTimeout(w) ==
  /\ waiter[w].status = "waiting"
  /\ waiter' = [waiter EXCEPT ![w] = NoWait]
  /\ UNCHANGED <<active, sessionOf, keyOf, waitKey, op, ids, crossed>>

Owner(o) ==
  \/ \E i \in Ids : Create(o, i) \/ UpdateSessionId(o, i)
  \/ \E next \in Phases : SetPhase(o, next)
  \/ AttachBackend(o) \/ DetachBackend(o)
  \/ FailOwn(o) \/ Complete(o)

Others ==
  \/ \E o \in Ops : UpstreamAbort(o)
  \/ \E k \in Keys : AbortKey(k)
  \/ \E i \in Ids : AbortReplyRunBySessionId(i) \/ ForceClearReplyRunBySessionId(i)
  \/ \E S \in SUBSET Ops : AbortActiveReplyRuns(S)

Waits(w) ==
  \/ \E k \in Keys : WaitByKey(w, k)
  \/ \E i \in Ids : WaitForReplyRunEndBySessionId(w, i)
  \/ WaitTimeout(w)

Next ==
  \/ \E o \in Ops : Owner(o)
  \/ Others
  \/ \E w \in Waiters : Waits(w)

Spec == Init /\ [][Next]_vars

-----------------------------------------------------------------------------
OpType ==
  [owner : {"none", "working", "gone"},
   phase : Phases \cup {"queued", "completed", "failed", "aborted"},
   result : {"none", "failed", "aborted"},
   sid : Ids \cup {None},
   cleared : BOOLEAN, aborted : BOOLEAN, attached : BOOLEAN,
   handle : {"none", "live", "cancelled"}]

WaiterType ==
  [status : {"idle", "waiting", "ended"},
   key : Keys \cup {None}, for : Ops \cup {None}]

TypeOK ==
  /\ active \in [Keys -> Ops \cup {None}]
  /\ sessionOf \in [Keys -> Ids \cup {None}]
  /\ keyOf \in [Ids -> Keys \cup {None}]
  /\ waitKey \in [Ids -> Keys \cup {None}]
  /\ waiter \in [Waiters -> WaiterType]
  /\ op \in [Ops -> OpType]
  /\ ids \in [Ops -> SUBSET Ids]
  /\ crossed \subseteq Active
  /\ \A k \in Keys : sessionOf[k] = IF active[k] = None THEN None ELSE op[active[k]].sid

(* An operation stays registered under its key until it is itself cleared: *)
(* a late end of one whose state is gone, after an abort or a forced       *)
(* clear, does not take its successor off.                                 *)
Registered == \A o \in Active : active[KeyOf[o]] = o

(* An id leads to the operation that has it, so that an abort or a forced  *)
(* clear by id never meets another run...                                  *)
IdsSound == \A i \in Ids : RunOf(i) # None => op[RunOf(i)].sid = i

(* ... nor misses its own, unless two operations have shared an id.        *)
Findable == \A o \in Active \ crossed : keyOf[op[o].sid] = KeyOf[o]

Consistent == Registered /\ IdsSound /\ Findable

(* A wait by key, or by any id the run has had, is not told that the run   *)
(* has ended while it is active, and one that still waits is registered    *)
(* under a key that some later clear will notify.                          *)
WaitersSound ==
  \A w \in Waiters :
    /\ waiter[w].status = "waiting" => active[waiter[w].key] # None
    /\ waiter[w].status = "ended" => waiter[w].for \notin Active \ crossed

(* An abort reaches the backend, whether it comes before, while or after   *)
(* the backend attaches.                                                   *)
AbortReaches == \A o \in Ops : op[o].result = "aborted" => op[o].handle # "live"
=============================================================================

---------------------------- MODULE FollowupQueue ----------------------------
(***************************************************************************)
(* The followup queue of one session key (openclaw/src/auto-reply/reply/   *)
(* queue/ and src/utils/queue-helpers.ts): messages that arrive while a    *)
(* run of the session is active wait here, under a cap and a drop policy,  *)
(* until a drain loop hands them to followup runs.                         *)
(*                                                                         *)
(* The map FOLLOWUP_QUEUES holds at most one queue object for the key, but *)
(* a drain keeps the object it started with: after a clear, the drain of   *)
(* the old object and the new object live side by side. An object and its  *)
(* drain are one record; draining is pc # "idle". The drain yields at two  *)
(* places, the debounce and the run, so these are its control states; what *)
(* it does between them is one action. Every caller passes a callback, so  *)
(* a drain that is scheduled has one and the callback map is left out, as  *)
(* is lastRun, which is set whenever a message is queued or counted as     *)
(* dropped. summaryLines is left out: droppedCount decides the control.    *)
(*                                                                         *)
(* WholeBatch, QueueOnly, InFront, KeepsBatch and NotRestarted are wrong   *)
(* variants of the definition that follows them; no action uses them.      *)
(***************************************************************************)
EXTENDS Integers, Sequences, FiniteSets

CONSTANTS
  Messages,     \* inbound messages, by message id
  RouteOf,      \* resolveCrossChannelKey: a route, "cross" or "none"
  AuthOf,       \* resolveFollowupAuthorizationKey
  Settings,     \* the settings messages arrive with: [mode, cap, drop]
  Objects,      \* queue objects alive at a time
  None,         \* the key is not in FOLLOWUP_QUEUES
  RunKinds,     \* kinds of run, beside followups, the session may have
  Forgettable,  \* messages whose recent id may expire
  MaxAccepted,  \* bound on accepted messages after which no id expires
  MaxClears     \* bound on calls of clearSessionQueues

ASSUME FollowupAssumption ==
  /\ None \notin Objects
  /\ RunKinds \subseteq {"reply", "other"}
  /\ \A s \in Settings : s.cap \in Nat \ {0} /\ s.drop \in {"summarize", "old", "new"}

VARIABLES
  queue,       \* the queue objects, each with its drain
  current,     \* the object FOLLOWUP_QUEUES has for the key
  recent,      \* RECENT_QUEUE_MESSAGE_IDS
  active,      \* the run of the session that is not a followup, or "none"
  clears,      \* calls of clearSessionQueues so far
  arrived,     \* history: accepted messages in order
  log,         \* history: messages whose own prompt a successful run had
  summarised,  \* history: messages a successful run told of as dropped
  evicted,     \* history: messages dropped under the policy "old"
  cleared      \* history: messages removed by clearSessionQueues

vars == <<queue, current, recent, active, clears, arrived, log, summarised, evicted, cleared>>

NewQueue == [items |-> <<>>, mode |-> "followup", cap |-> 1, drop |-> "new", dropped |-> {},
             pc |-> "idle", force |-> FALSE, batch |-> <<>>, told |-> {}]

Init ==
  /\ queue = [q \in Objects |-> NewQueue]
  /\ current = None
  /\ recent = {}
  /\ active = "none"
  /\ clears = 0
  /\ arrived = <<>>
  /\ log = <<>>
  /\ summarised = {}
  /\ evicted = {}
  /\ cleared = {}

Elems(s) == {s[i] : i \in 1..Len(s)}

Without(s, n) == SubSeq(s, n + 1, Len(s))

Draining(r) == r.pc # "idle"

Running(r) == r.pc \in {"own", "collect", "overflow", "summary"}

HasWork(r) == r.items # <<>> \/ r.dropped # {}

-----------------------------------------------------------------------------
(* scheduleFollowupDrain on the object c the key maps to, with objects qs: *)
(* nothing without one or while it drains; without work the drain ends at  *)
(* once and deletes the key; otherwise it waits for the quiet window.      *)
Begin(qs, c) ==
  \/ /\ c = None \/ (c # None /\ Draining(qs[c]))
     /\ queue' = qs
     /\ current' = c
  \/ /\ c # None
     /\ ~Draining(qs[c])
     /\ HasWork(qs[c])
     /\ queue' = [qs EXCEPT ![c].pc = "debounce", ![c].force = FALSE]
     /\ current' = c
  \/ /\ c # None
     /\ ~Draining(qs[c])
     /\ ~HasWork(qs[c])
     /\ queue' = qs
     /\ current' = None

KeepsBatch(r) == [r EXCEPT !.pc = "idle"]

Idle(r) == [r EXCEPT !.pc = "idle", !.batch = <<>>, !.told = {}]

(* The finally block of object q's drain, whose record is now r. It works  *)
(* on the key, whatever object that maps to by now.                        *)
NotRestarted(q, r) ==
  /\ queue' = [queue EXCEPT ![q] = Idle(r)]
  /\ current' = IF HasWork(r) THEN current ELSE None

EndDrain(q, r) ==
  \/ /\ ~HasWork(r)
     /\ queue' = [queue EXCEPT ![q] = Idle(r)]
     /\ current' = None
  \/ /\ HasWork(r)
     /\ Begin([queue EXCEPT ![q] = Idle(r)], current)

(* The head of the drain's while loop. *)
LoopHead(q, r) ==
  \/ /\ HasWork(r)
     /\ queue' = [queue EXCEPT ![q] = [r EXCEPT !.pc = "debounce", !.batch = <<>>, !.told = {}]]
     /\ UNCHANGED current
  \/ /\ ~HasWork(r)
     /\ EndDrain(q, r)

-----------------------------------------------------------------------------
(* enqueueFollowupRun, then the re-check of agent-runner.ts: unless a run  *)
(* of the session is active a drain is scheduled. A followup run counts as *)
(* active only from some point of its preparation on, hence the choice.    *)

SeenActive(b) ==
  /\ active # "none" => b
  /\ b => active # "none" \/ \E q \in Objects : Running(queue[q])

(* getFollowupQueue: the key's object, or a new one, with the settings.    *)
Target(q) ==
  \/ q = current
  \/ current = None /\ ~Draining(queue[q]) /\ queue[q].items = <<>>

Applied(q, s) ==
  [(IF current = None THEN NewQueue ELSE queue[q])
     EXCEPT !.mode = s.mode, !.cap = s.cap, !.drop = s.drop]

QueueOnly(m, r) == m \in Elems(r.items)

IsDuplicate(m, r) == m \in recent \/ m \in Elems(r.items)

(* applyQueueDropPolicy removes the oldest entries beyond the cap. *)
Full(r) == Len(r.items) >= r.cap

DropCount(r) == IF Full(r) THEN Len(r.items) - r.cap + 1 ELSE 0

Oldest(r) == Elems(SubSeq(r.items, 1, DropCount(r)))

InFront(s, m) == <<m>> \o s

Pushed(s, m) == Append(s, m)

ScheduleUnless(b, qs, q) ==
  \/ b /\ queue' = qs /\ current' = q
  \/ ~b /\ Begin(qs, q)

(* A duplicate, or a message refused by the policy "new". *)
EnqueueSkipped(m, s, q, b) ==
  LET r == Applied(q, s)
  IN  /\ Target(q) /\ SeenActive(b)
      /\ IsDuplicate(m, r) \/ (Full(r) /\ r.drop = "new")
      /\ ScheduleUnless(b, [queue EXCEPT ![q] = r], q)
      /\ UNCHANGED <<recent, active, clears, arrived, log, summarised, evicted, cleared>>

EnqueueAccepted(m, s, q, b) ==
  LET r == Applied(q, s)
      kept == [r EXCEPT !.items = Pushed(Without(r.items, DropCount(r)), m),
                        !.dropped = IF r.drop = "summarize" THEN @ \cup Oldest(r) ELSE @]
  IN  /\ Target(q) /\ SeenActive(b)
      /\ ~IsDuplicate(m, r)
      /\ ~(Full(r) /\ r.drop = "new")
      /\ ScheduleUnless(b, [queue EXCEPT ![q] = kept], q)
      /\ recent' = recent \cup {m}
      /\ arrived' = Append(arrived, m)
      /\ evicted' = IF r.drop = "old" THEN evicted \cup Oldest(r) ELSE evicted
      /\ UNCHANGED <<active, clears, log, summarised, cleared>>

Expire(m) ==
  /\ m \in recent \cap Forgettable
  /\ Len(arrived) < MaxAccepted
  /\ recent' = recent \ {m}
  /\ UNCHANGED <<queue, current, active, clears, arrived, log, summarised, evicted, cleared>>

-----------------------------------------------------------------------------
(* The drain, after the quiet window: what it runs next. *)

(* hasCrossChannelItems. *)
CrossChannel(s) ==
  LET routes == {RouteOf[m] : m \in Elems(s)}
  IN  "cross" \in routes \/ Cardinality(routes) > 1

(* previewQueueSummaryPrompt: the dropped messages the prompt tells of. *)
Summary(r) == IF r.drop = "summarize" THEN r.dropped ELSE {}

Run(q, kind, batch, told, force) ==
  /\ queue' = [queue EXCEPT ![q].pc = kind, ![q].batch = batch, ![q].told = told, ![q].force = force]
  /\ UNCHANGED current

Individually(r) == r.force \/ CrossChannel(r.items)

DispatchCollect(q) ==
  LET r == queue[q]
  IN  /\ r.mode = "collect"
      /\ \/ /\ r.items # <<>> /\ Individually(r)
            /\ Run(q, "own", <<r.items[1]>>, {}, TRUE)
         \/ /\ r.items # <<>> /\ ~Individually(r)
            /\ Run(q, "collect", r.items, Summary(r), FALSE)
         \/ /\ r.items = <<>> /\ Summary(r) # {}
            /\ Run(q, "summary", <<>>, Summary(r), r.force)
         \/ /\ r.items = <<>> /\ Summary(r) = {}
            /\ EndDrain(q, r)

DispatchNext(q) ==
  LET r == queue[q]
  IN  /\ r.mode # "collect"
      /\ \/ /\ r.items # <<>> /\ Summary(r) # {}
            /\ Run(q, "overflow", <<r.items[1]>>, Summary(r), r.force)
         \/ /\ r.items # <<>> /\ Summary(r) = {}
            /\ Run(q, "own", <<r.items[1]>>, {}, r.force)
         \/ /\ r.items = <<>>
            /\ EndDrain(q, r)

Dispatch(q) ==
  /\ queue[q].pc = "debounce"
  /\ DispatchCollect(q) \/ DispatchNext(q)
  /\ UNCHANGED <<recent, active, clears, arrived, log, summarised, evicted, cleared>>

(* splitCollectItemsByAuthorization: the length of the group a batch       *)
(* starts with.                                                            *)
GroupLen(s) ==
  CHOOSE n \in 1..Len(s) : /\ \A i \in 1..n : AuthOf[s[i]] = AuthOf[s[1]]
                           /\ n < Len(s) => AuthOf[s[n + 1]] # AuthOf[s[1]]

(* The messages whose own prompt the run in progress has. *)
InHand(r) ==
  CASE r.pc = "own"     -> r.batch
    [] r.pc = "collect" -> SubSeq(r.batch, 1, GroupLen(r.batch))
    [] OTHER            -> <<>>

(* How many items the drain takes off the queue when the run succeeds. *)
WholeBatch(r) == Len(r.batch)

Consumed(r) == IF r.pc = "overflow" THEN 1 ELSE Len(InHand(r))

(* A followup run cannot finish while another run owns the session. *)
RunSucceeds(q) ==
  LET r == queue[q]
      rest == Without(r.batch, Len(InHand(r)))
      after == [r EXCEPT !.items = Without(@, Consumed(r)),
                         !.dropped = IF r.told # {} THEN {} ELSE @,
                         !.batch = rest, !.told = {}]
  IN  /\ Running(r)
      /\ active = "none"
      /\ log' = log \o InHand(r)
      /\ summarised' = summarised \cup r.told
      /\ \/ /\ r.pc = "collect" /\ rest # <<>>
            /\ queue' = [queue EXCEPT ![q] = after]
            /\ UNCHANGED current
         \/ /\ ~(r.pc = "collect" /\ rest # <<>>)
            /\ LoopHead(q, after)
      /\ UNCHANGED <<recent, active, clears, arrived, evicted, cleared>>

RunFails(q) ==
  /\ Running(queue[q])
  /\ EndDrain(q, queue[q])
  /\ UNCHANGED <<recent, active, clears, arrived, log, summarised, evicted, cleared>>

-----------------------------------------------------------------------------
(* Other runs of the session. A reply run schedules a drain when it ends;  *)
(* a run that bypasses the reply pipeline (agentCommand) does not.         *)
StartRun(kind) ==
  /\ active = "none"
  /\ \A q \in Objects : ~Running(queue[q])
  /\ active' = kind
  /\ UNCHANGED <<queue, current, recent, clears, arrived, log, summarised, evicted, cleared>>

EndReply ==
  /\ active = "reply"
  /\ active' = "none"
  /\ Begin(queue, current)
  /\ UNCHANGED <<recent, clears, arrived, log, summarised, evicted, cleared>>

EndOther ==
  /\ active = "other"
  /\ active' = "none"
  /\ UNCHANGED <<queue, current, recent, clears, arrived, log, summarised, evicted, cleared>>

(* clearSessionQueues empties the object and deletes the key. *)
ClearSessionQueues ==
  /\ current # None
  /\ clears < MaxClears
  /\ clears' = clears + 1
  /\ cleared' = cleared \cup Elems(queue[current].items) \cup queue[current].dropped
  /\ queue' = [queue EXCEPT ![current].items = <<>>, ![current].dropped = {}]
  /\ current' = None
  /\ UNCHANGED <<recent, active, arrived, log, summarised, evicted>>

-----------------------------------------------------------------------------
Arrive(m) ==
  \E s \in Settings, q \in Objects, b \in BOOLEAN :
    EnqueueSkipped(m, s, q, b) \/ EnqueueAccepted(m, s, q, b)

Drain(q) == Dispatch(q) \/ RunSucceeds(q) \/ RunFails(q)

Next ==
  \/ \E m \in Messages : Arrive(m) \/ Expire(m)
  \/ \E q \in Objects : Drain(q)
  \/ \E kind \in RunKinds : StartRun(kind)
  \/ EndReply
  \/ EndOther
  \/ ClearSessionQueues

Spec == Init /\ [][Next]_vars

(* The quiet window ends, and if it does so for ever, sometimes while no   *)
(* other run owns the session (each needs a message that arrives when none *)
(* is active); runs end (they have timeouts), and a followup run, which    *)
(* fails only while it is being set up, succeeds if it is retried for ever.*)
FairSpec ==
  /\ Spec
  /\ \A q \in Objects : /\ WF_vars(Dispatch(q))
                        /\ SF_vars(active = "none" /\ Dispatch(q))
                        /\ SF_vars(RunSucceeds(q))
  /\ WF_vars(EndReply)
  /\ WF_vars(EndOther)

-----------------------------------------------------------------------------
(* Properties. *)

QueueType ==
  [items : Seq(Messages), mode : {s.mode : s \in Settings} \cup {"followup"},
   cap : Nat \ {0}, drop : {"summarize", "old", "new"}, dropped : SUBSET Messages,
   pc : {"idle", "debounce", "own", "collect", "overflow", "summary"},
   force : BOOLEAN, batch : Seq(Messages), told : SUBSET Messages]

(* The type invariant: in particular a run has a batch exactly when it is  *)
(* to have messages' prompts or routes.                                    *)
TypeOK ==
  /\ queue \in [Objects -> QueueType]
  /\ \A q \in Objects : queue[q].batch # <<>> <=> queue[q].pc \in {"own", "collect", "overflow"}
  /\ current \in Objects \cup {None}
  /\ recent \subseteq Messages
  /\ active \in {"none", "reply", "other"}
  /\ clears \in Nat
  /\ arrived \in Seq(Messages)
  /\ log \in Seq(Messages)
  /\ summarised \cup evicted \cup cleared \subseteq Messages

(* No accepted message vanishes: it is queued, its own prompt was run, it  *)
(* was counted as dropped and is or will be told of, or it was dropped     *)
(* without summary, or cleared, on request.                                *)
EveryMessageAccounted ==
  \A m \in Elems(arrived) :
    \/ \E q \in Objects : m \in Elems(queue[q].items) \cup queue[q].dropped
    \/ m \in Elems(log) \cup summarised \cup evicted \cup cleared

(* A queue with messages has a drain or the run that will start one.       *)
NoStrandedFollowup ==
  \A q \in Objects : queue[q].items # <<>> => \/ Draining(queue[q])
                                              \/ q = current /\ active = "reply"

(* A message's prompt is run to success at most once, whatever the         *)
(* redeliveries, retries and clears, until its recent id has expired.      *)
RunOnce ==
  \A i, j \in 1..Len(log) : (i # j /\ log[i] = log[j]) => log[i] \in Forgettable

(* A queue never holds a message twice, even once its id has expired.      *)
QueuedOnce ==
  \A q \in Objects : \A i, j \in 1..Len(queue[q].items) :
    queue[q].items[i] = queue[q].items[j] => i = j

(* A redelivery neither queues nor runs a prompt a second time.            *)
AtMostOnce == RunOnce /\ QueuedOnce

(* Prompts are run in the order the messages were accepted, across drains, *)
(* retries, batches and authorization groups.                              *)
RunOrder ==
  \A i, j \in 1..Len(log) : \A k, l \in 1..Len(arrived) :
    (i < j /\ log[i] = arrived[k] /\ log[j] = arrived[l]) => k < l

(* "enqueue each message for a later agent turn after the current run      *)
(* ends": every accepted message is run, unless dropped or cleared.        *)
EveryMessageRuns ==
  \A m \in Messages :
    m \in Elems(arrived) ~> m \in Elems(log) \cup summarised \cup evicted \cup cleared
=============================================================================

# A verification of the gateway core of KukiClaw

KukiClaw packages the OpenClaw gateway (`src/openclaw`) with an installer
(`src/install.sh`, `src/setup`). The gateway is one Node process: it takes
messages from chat channels, runs agents on them in sessions, and sends what
the agents answer. Its core is not in its adapters but in a handful of
in-memory schedulers and on-disk queues whose callers interleave at every
`await`. This directory holds TLA+ models of those, the TLC configurations that
check them, and TLAPS proofs of what must hold for every number of lanes,
tasks, messages and crashes.

All source paths below are relative to `src/openclaw/src`.

## Running

    tlc -workers 2 -config CommandQueue.cfg MCCommandQueue
    tlapm DeliveryQueueProofs.tla

`PROJECT.json` lists every run, what each definition translates (`map`), the
hazards and the wrong variants (`mutants`) that show each property can fail.

## 1. The system

### Parts and their state

| part | source | state | operations | module |
|---|---|---|---|---|
| Command queue | `process/command-queue.ts` | per lane: FIFO, active task ids, cap, generation; the draining flag; active-task waiters | enqueue, completion, lane timeout, set cap, clear, reset one or all lanes, mark draining, wait for active tasks | `CommandQueue` |
| Lanes of agent runs | `agents/pi-embedded-runner/{run,lanes,compact.queued}.ts`, `gateway/server-lanes.ts`, `cron/service/ops.ts` | nested tasks in the session, cron and global lanes | start, nest, abort, time out, end, stuck-session recovery, restart | `AgentRunLanes` |
| Followup queue | `auto-reply/reply/queue/*`, `utils/queue-helpers.ts`, `auto-reply/reply/agent-runner.ts` | per session key: items, settings, dropped count, draining; recent message ids | enqueue with dedupe and drop policy, drain loop in two modes, clear | `FollowupQueue` |
| Outbound delivery queue | `infra/outbound/delivery-queue-{storage,recovery}.ts`, `infra/outbound/deliver.ts`, `gateway/server-restart-sentinel.ts` | `{id}.json` with a retry count, `.delivered` markers, `failed/`; in-process claims; running drains | enqueue, send, acknowledge, fail, park, recover, drain, defer | `DeliveryQueue`, `AtLeastOnce` |
| Cron service | `cron/service/{timer,ops,jobs,store,locked,state}.ts`, `cron/schedule.ts` | the jobs in a file and in memory, with next slot, running marker, last status; one timer; the lock chain | tick and its workers, manual run, add, enable, disable, remove, list, start-up marking and catch-up | `CronService` |
| Session write lock | `agents/session-write-lock.ts` | lock file with its payload and age; `HELD_LOCKS` of each process with counts; the watchdog | acquire (reentrant), release, reclaim, watchdog, signals, sweep of stale files | `SessionWriteLock` |
| Heartbeat wake | `infra/heartbeat-wake.ts` | pending wakes by target, one timer, the handler and its generation, `running` | request, fire, answer, throw, hang, set and dispose the handler | `HeartbeatWake` |
| Reply run registry | `auto-reply/reply/reply-run-registry.ts` | the operation and session id of each key, keys of ids, waiters, backends | create, phase, rebind, attach, abort, complete, fail, force, wait | `ReplyRunRegistry` |
| Exec approvals | `gateway/exec-approval-manager.ts` | pending and recently resolved approvals | register, resolve, expire, consume, await | - |
| Others | subagents, tasks, restarts, diagnostics, ACP, config, pairing, auth, adapters, setup | see `components` in `PROJECT.json` | | - |

### How they interact

- An inbound message either starts a reply run or is put into the **followup
  queue** of its session. A run that ends schedules the drain, whose callback
  starts the next run.
- Every run goes through the **command queue** twice: an outer task in the lane
  of its session, and inside it an inner task in a global lane (main, subagent,
  cron-nested). A manual cron job holds a slot of the cron lane around both.
- A restart marks the gateway draining, waits for active tasks, resets all
  lanes and starts again; stuck-session diagnostics reset one session's lane.
- What a run says is handed to `deliverOutboundPayloads`, which writes it to the
  **delivery queue** before it sends it. Recovery after a start and a drain after
  an account reconnects replay what is still on disk. A claim per entry, in
  memory, keeps a live send and the scans apart.
- A reply run is an operation of the **reply run registry**: aborts, steering and
  "is this session busy?" go through it, and a restart or a stuck-session
  recovery clears operations by force.
- Runs append to a session's transcript under the **session write lock**, which
  other processes (the doctor, a second CLI) take too.
- The **cron service** runs jobs on its own timer and through manual runs, whose
  tasks are in the command queue; jobs, channels and execs ask for a
  **heartbeat wake**, which is served by one handler that a reload replaces.

### What is hard

One thread, so no data races; but between two awaits anything may happen.

- *State used after an await*: the drain runs its first item and shifts the
  array afterwards; a scan replays a snapshot; a waiter holds task ids of a
  lane that a reset has emptied.
- *Late answers*: a task settles after its lane timeout or after a reset gave
  its slot away; a drain ends after its queue was cleared and replaced.
- *Crashes* between write, send, rename and unlink, between a lock file and its
  payload, between a running marker and the result; writes that fail.
- *Two processes* that judge each other's lock file; *two generations* of a
  handler with one flag between them.
- *Everyone waiting*: tasks awaiting tasks in other lanes; a queue nobody drains.
- *Limits*: caps lowered below what is active, queues at their cap, retries,
  time budgets.

### What makes each part correct

- Command queue: no idle backlog, slots exactly those of live tasks, FIFO, cap,
  no caller or waiter left behind, timeouts free the lane.
- Lanes of runs: no nesting deadlocks; two runs of a session overlap only when a
  lane was taken by force.
- Followup queue: no message vanishes, is stranded, run twice or out of order;
  what is accepted is run.
- Delivery queue: one owner, no message lost, sent only while owed, pruned in
  the end.
- Cron service: runs of one job do not overlap, no due slot is skipped, no marker
  is left behind, a finished one-shot job stays finished, the timer never dies.
- Session lock: a holder keeps its file unless a named event gives it away, a
  file of a live process has an owner or is one that it failed to remove, a waiter
  gets the lock.
- Heartbeat: no wake is lost or downgraded, one batch at a time, cooldowns last,
  what is pending is served.
- Registry: lookups lead to the run they name, late ends clear nothing of a
  successor, waits are neither early nor forgotten, aborts reach the backend.
- Approvals: one decision, consumed once.

## 2. The plan

1. `CommandQueue`, with `CommandQueueProofs` (done).
2. `AgentRunLanes`, which composes `CommandQueue` by `INSTANCE`, with
   `AgentRunLanesProofs`, which composes their proofs in the same way (done).
3. `FollowupQueue`, with `FollowupQueueProofs` (done).
4. `AtLeastOnce` and `DeliveryQueue`, which implements it, with
   `DeliveryQueueProofs` (done).
5. `CronService`, with `CronServiceProofs` (done).
6. `SessionWriteLock`, with `SessionWriteLockProofs` (done): the lock file and
   its payload as separate steps, several processes, one run for its guarantees
   and one for the window between the table and the file.
7. `HeartbeatWake` with `HeartbeatWakeProofs` and `ReplyRunRegistry` with
   `ReplyRunRegistryProofs` (done).
8. Not begun: `ExecApprovals`, a decision against a timer; the session delivery
   queue as a second instance of the write-ahead pattern; `ReplyRunRegistry`
   composed with `FollowupQueue`, whose runs are its operations; two cron
   services on one file after a configuration reload.

The runs are few: each puts one question, and instances that put the question of
another on a smaller scale were merged into it.

Proofs wanted after these: of `FollowupQueue`, the order and the absence of loss
up to the first clear or drop, whatever the policy.

## 3. The modules

### CommandQueue (`process/command-queue.ts`)

Each exported function and each continuation of a task is one action: JavaScript
runs it without interruption. A task is one call of `enqueueCommandInLane`;
`queue`, `active`, `maxConcurrent`, `generation` and `gatewayDraining` are the
fields of the code. `DrainLanes` is the synchronous pump, part of every action
that ends in `drainLane`: the numbers of entries it starts are a function of the
queue, the slots and the cap. `taskGeneration` is captured when a task starts,
and a completion of another generation frees nothing. A task may hang for ever;
a lane timeout rejects its caller, frees the slot and leaves the task `running`,
to settle late. `arrived` is history for the order.

### AgentRunLanes

The tasks of a run (`outer`, `inner`, and `hold` for a manual cron job) are tasks
of one `CommandQueue` instance whose lanes are the session and the global lanes.
An `await` of a nested call is a guard on its outcome. Which lane is nested in
which is `resolveGlobalLane`'s choice. `EndJob` may fire while the agent run goes
on, because the job has a timeout of its own.

### FollowupQueue (`auto-reply/reply/queue/*`)

The queue of one session key. A queue object with its drain is one record; a
cleared queue's drain lives on beside the object that replaced it, hence two
`Objects`. The drain yields in the debounce and in a run; all it does between
them (choosing what to run, shifting, clearing the dropped count, the `finally`
block) is one action. An enqueue is one action with its dedupe, policy and the
decision whether to schedule a drain, made on what it saw of the active run
(`SeenActive`, which may be stale).

### DeliveryQueue (`infra/outbound/*`) and AtLeastOnce

A sender is a message's live send (or the restart sentinel's notice), a
recovery, or the drain of a key. `pc` says at which await it is: each action
goes up to the next one. `ackDelivery` is two (`AckRename`, `AckUnlink`),
`failDelivery` two (`FailRead`, `FailWrite`, joined by `rewrites`, the counts
that have been read and not yet written). `claimed` is `entriesInProgress`;
`retries` the files; `cooling` the entries whose backoff has not elapsed.
`received` is what the outside world got: a send may throw after the payload
arrived. `Crash` keeps the disk and nothing else.

`AtLeastOnce` says what the queue is for: a message on disk is owed until all of
it arrived, its caller aborted it, or it was parked; it is being sent by one
owner; settled messages are not sent. The refinement maps the files and sets to
a message's standing and the senders at `sending` to the abstract `sending`.

### CronService (`cron/service/*`)

`mem` and `disk` are the store's two copies, each job a record of what decides
(stored, enabled, next slot, running marker, last run, status, error count).
`locked()` is a chain of promises: a locked section is one action, taken by the
head of `chain`. A tick is off, collecting, running its batch in workers or
applying the results; a manual run has two locked sections (preflight and
reserve, then finish) around its execution, and its end reloads the store and
merges what memory held; a start marks what a dead process left, plans the
catch-up, runs it and arms the timer. A write that fails leaves memory changed,
and a call whose write fails does not come to arm the timer (`ArmIf`); `threw`
is history of that, `released` of markers that were given up, `succeeded` of
one-shot jobs that ended well. A slot is the arithmetic of `every`, `at` and
`cron` on small numbers.

### SessionWriteLock (`agents/session-write-lock.ts`)

One session file. `file` is the lock file (its creator, whether the payload has
been written, its age), `held` and `count` are `HELD_LOCKS` of each process,
`pc` is where each call of `acquireSessionWriteLock` is. Reading, judging,
looking again for the age (`Stat`) and removing are separate steps, as they are
separate awaits; the release takes the entry out of the table one step before
it removes the file. Every removal may fail: a release, the watchdog, a signal
and the cleanup after a failed write drop the error and go on as if the file were
gone (`RemovesOrNot`, `Signal`), a waiter's call ends with it (`Reclaim`), and so
does the sweep (`CleanRemove`). Two things are history: `left` in the file, set
when its process has no entry for it and a removal failed, and `excused`, set by
every event after which a holder may have lost its lock, each named in
`LockKept`. No guard reads them.

### HeartbeatWake (`infra/heartbeat-wake.ts`)

A wake is a priority per target (0: none). `timer` has a kind, what is left and
its delay, as `schedule` compares them; a firing takes all pending wakes into a
batch of the present handler and awaits one call after the other. `sets` counts
registrations, `handler` is the present one or 0: `running` is shared by the
batches of all of them. `asked`, `cool` and `freed` are history.

### ReplyRunRegistry (`auto-reply/reply/reply-run-registry.ts`)

`active`, `sessionOf`, `keyOf`, `waitKey` are the maps of the code. All of the
module is synchronous, so that an exported function, or a method of the
operation, is one action; an owner may end an operation late, when its state was
cleared by an abort or by force. `ids` (every id a run has had) and `crossed`
(operations that have shared an id) are history.

Wrong variants of a definition (`PushedInFront`, `NotChecked`, `BlindDue`,
`NoGrace` and so on) stand before it; no action uses them.

## 4. The runs

| run | question | bounds |
|---|---|---|
| `command_queue` | safety of a lane whose cap moves while it is cleared and reset; do accepted calls settle and waits end when tasks may hang? | 1 lane, 3 calls with timeouts, caps 1 and 2 (0 is raised to 1), 1 reset, 1 waiter |
| `agent_run_lanes_live` | does the nesting of lanes deadlock, may runs of a session overlap? | a run and a manual cron job of one session, caps 1, 1 reset |
| `followup_queue_new` | is every accepted message run, in order, and none lost or stranded? | 3 messages, 2 senders, 2 routes, cap 2, both modes, failing runs |
| `followup_queue_drops` | redelivery, overflow and clear: is anything queued or run twice? | 3 messages, caps 1 and 2, a clear, one expiring id |
| `followup_queue_summary` | *violation*: no message vanishes, under the default policy | one route and sender, no clear |
| `delivery_queue_promise` | owners, claims, loss, and refinement of `AtLeastOnce` | 2 messages of 2 payloads, a recovery, a drain of one of them, 2 retries, a crash, an I/O failure |
| `delivery_queue_deferred` | does everything leave the queue, with deferrals and an unclaimed notice? | 2 messages, a recovery out of time, 1 retry |
| `cron_service` | overlapping runs, orphaned markers, skipped slots, repeated one-shots, a dead timer | a job of each kind (one added later), a manual run, 1 edit, a crash or a failed write, time 0..2 |
| `session_write_lock` | kept locks, leaked files, served waiters | 3 calls in 2 processes, one nested, a sweep, 2 crashes, signals, watchdog releases, failed writes or failed removals, ages 0..2 |
| `session_write_lock_window` | *violation*: one writer per session, as the docs say | the same calls, no fault, no age |
| `heartbeat_wake` | lost wakes, overlapping batches, cut cooldowns, unserved wakes | 2 targets, 2 priorities, a replaced handler, 2 batches at a time, 1 hang |
| `reply_run_registry` | lookups, late ends, waits, aborts | 3 operations under 2 keys, 2 ids, 1 wait |

Why these are enough: a lane needs two tasks to be full and a third to wait; a
stale completion needs one reset. Lanes do not touch each other but in the wait
and in `resetAllLanes`; `agent_run_lanes_live` runs several lanes at once, and
the theorems are about any number. Followups need three messages for a snapshot,
an overflow and an arrival during the run, two senders for a batch of more than
one group, two objects for a replaced queue. A delivery needs two payloads for a
partial failure, two messages for a deferral (the first spends the time), one
crash between any two steps, and two retries for a count below, at and above the
limit. A lock needs two waiters beside a holder for a file that is judged by one
and replaced by another; a holder, a nested holder and a stranger are that. Two
faults are a failed write whose cleanup fails too, or a file that was left behind
and then meets a crash, a signal or a second removal that fails. A
wake needs two handlers and two batches for a batch of the old one beside one of
the new; a registry two operations under one key, one after the other, and a
third that takes their ids. Cron jobs need time for a slot, the one after it and
a run that outlives `STUCK_RUN_MS`.

`reply_run_registry` is checked up to the symmetry of ids and of the two
operations of one key, and with a `VIEW` that forgets only what no later step
and no property reads: the session id of a cleared operation, the abort signal
of an operation that has a result, and a wait that ended when it should have.

`CHECK_DEADLOCK FALSE` in all of them: calls, messages, faults and time are
bounded, and when they are used up the system rests.

### Fairness

- `CommandQueue`: only the lane timeouts and the waiter's timer. That tasks
  settle is not assumed.
- `AgentRunLanes`: the continuation after an awaited promise, and the inner
  task's timer. Runs may hang.
- `FollowupQueue`: the quiet window ends, and, since each active run needs a
  message that found none active, sometimes with no other run active (strong);
  runs end, and a followup run that is tried for ever succeeds (strong: it fails
  only while it is set up).
- `DeliveryQueue`: sends and file operations end, backoffs elapse, and recovery
  is run again and again. The last is the operator's: recovery runs once per
  start. What follows is what a gateway that is restarted now and then can rely
  on, which is what the code's comment on pruning claims.
- `SessionWriteLock`: acquiring calls, releases and removals go on and time
  passes; a removal may go on by failing. Giving up, sweeps and faults are never
  assumed.
- `HeartbeatWake`: the clock, the timer's callback, and calls of the handler that
  do not hang. Calls that hang never settle.

`CronService` and `ReplyRunRegistry` are checked for safety only:
`SchedulerAlive` says, as an invariant, that a timer is armed or a tick is under
way, and `WaitersSound` that a wait is registered where a clear will notify it.

## 5. The proofs

Each proof module holds for every value of the constants; the assumptions are
the modules' `ASSUME`s on constants, nothing else.

`CommandQueueProofs` proves, for all lanes, calls, waiters, caps and resets,
`TypeOK`, `NoIdleBacklog`, `ActiveExact`, `NoStrandedCaller`, `WaiterSound` and
`StartsWithinCap` (the last two are in no run). The invariant is
`TypeOK /\ Core /\ WaiterSound`; `Core` adds to the properties that queues have
distinct entries of their own lane whose callers wait (`QueueInv`), that tasks
run in a generation up to the lane's (`RunInv`), that a waiting caller has an
entry or a task (`CallInv`), and that slots are finite. None of the properties is
inductive alone: `NoIdleBacklog` needs that slots and queue are disjoint, so that
a pump that starts an entry adds a slot. Nearly every action ends in the pump, so
the proof goes once through the pump (`Staged`: what an action must hand it;
`DrainKeeps`) and then through the actions.

Its second part builds `StartOrder` on that invariant. `StartOrder`
speaks only of what has started; what makes it inductive is `Ordered`, which says
of a lane how its queue, the calls it accepted, those begun and those cleared fit
together: the queue holds what is left, in the order of the calls. A call
(`OrderedPush`), a pump (`OrderedPump`) and a clear (`OrderedClear`) each keep it,
and the actions are made of these.

`AgentRunLanesProofs` proves `OverlapOnlyWhenForced` for any runs, sessions, cron
jobs, caps and resets. It instantiates `CommandQueueProofs` with the lanes and
tasks of the runs, shows that the instance meets the queue's assumptions
(`QueueAssumption`) and that every step of a run is one of the queue
(`StepHasShape`), and so has the queue's invariant without proving it again
(`LanesSound`). It adds four facts: a session lane has cap 1 (`SessionCaps`) and
at most one slot taken (`OneSlot`, from the queue's `Caps`), an outer task runs
while a caller waits for its inner one (`Nested`), and it has no lane timeout
(`OuterUntimed`). Two runs that overlap without force would then both hold the one
slot of their session.

`DeliveryQueueProofs` proves, for all messages, senders, payload counts, retry
limits, crashes and faults, with notices and deferrals:

- `TypeOK`; `OneOwner` from `Owned` (every holder's claim is in the set, every
  claim has a holder); `ClaimsExact` from the same;
- `NotLost`, which needs `Progress`: a sender goes on to acknowledge only when
  all payloads arrived, although the message may have been sent in part before;
- `KeepsPromise`, under `Unhurried`: no notice, no deferral, and live sends that
  resume before a scan has read their file twice. `Tidy` is what these give: the
  owner of the claim is alone with the file. TLC refutes the refinement without
  any one of the three.

`SessionWriteLockProofs` proves `TypeOK`, `LockKept` and `NoLeakedFile` for any
calls, processes and nestings. `Owners` relates the table, the locks of the
calls and where they are; `CountIsHolders` says that a count is the number of
holders, and with it that a release which is not the last one leaves another
holder to remove the file (`HolderCounted`). `LockKept` needs both, and
`NoLeakedFile`: a call that sees the file of its own process without an entry
would remove it, and what rules that out is that a file without an entry has an
owner on the way out or was left behind, and `excused` records a verdict on either
(`NeverStale`). `NoLeakedFile` itself, when a removal fails, needs that an entry of
the table is the lock of its process's file if there is one (`Entry`) and has a
holder (`Held`): then the file that stays has that holder, or its process has no
entry at all and the file is marked `left`. `Undisturbed`
is what all this keeps while nothing excuses: the file is the one of the lock that
is held, and whoever is about to remove it is its last holder (`LastLeaves`).

`HeartbeatWakeProofs` proves `TypeOK`, `NoWakeLost`, `OneBatch` and
`CooldownKept`. `OneBatch` needs `Serial` (the batch of the present handler is
alone and shows in `running`) and `Taken` (a batch belongs to an earlier or the
present registration), since a new handler clears `running` under a batch of the
old one; `CooldownKept` needs that a cooldown is a retry timer that runs at least
as long (`Cooling`).

`ReplyRunRegistryProofs` proves `TypeOK`, `Consistent`, `WaitersSound` and
`AbortReaches`. The maps are related to the operations by `Filed`: what is under
a key is active (`Listed`), an id that is bound is the present id of the
operation active under its key (`Keyed`), and every id a run has had leads its
waits to its key (`Waitable`). Every action leaves the maps alone, creates an
operation, changes an id or clears a set of operations; there is one lemma for
each of these and the actions are instances.

`FollowupQueueProofs` proves `TypeOK` and `AtMostOnce` for every policy and any
number of clears. Their invariant is `OneCopy`: of a message whose id does not
expire there is one copy in all queues, batches and the log, but for an item that
is also in the batch of its own drain. What a successful run shifts off the queue
are then items it ran only if the two agree: an item that is also in the batch is
at most as far from the front of the queue as of the batch (`Aligned`), also when
a drop policy took items from the front meanwhile. `NoStrandedFollowup` is proved
for sessions without clears whose other runs are reply runs (`OnlyReplies`): the
object that drains or has messages is the key's (`Sole`), and each way for a drain
or a run to end either finds it empty or starts it again (`Attended`). `RunOrder`
and `EveryMessageAccounted` are proved where, besides, the policy is "new" and ids
do not expire (`NothingDropped`): the accepted messages are at every moment those
run so far followed by those that wait, each once (`InOrder`). These are the
conditions of the run `followup_queue_new`; section 6 says what clears, drops and
other runs do to a queue.

`CronServiceProofs` proves all that the run `cron_service` checks: `TypeOK`,
`OverlapOnlyAfterRelease`, `NoOrphanMarker`, `SchedulerAlive`, `OneShotOnce` and
`SlotKept`, for any jobs, schedules, manual runs, edits, crashes and failed
writes. `Inv` relates, for each job, the actors that hold it (have reserved a run
and not written down its end) to both copies of the store. The copy in memory and
the file may differ whenever a write failed, so that each clause says something of
both, and the clauses lean on each other: that one actor holds an unreleased job,
and that then both copies are marked (`Marked`), needs that a job somebody holds is
still in the store or was deleted by a run or an edit (`Remembered`), since an
absent record carries no marker and must not be added anew under the run;
`OneShotOnce` needs that what has ended well is disabled in both copies
(`Finished`) and waits in no batch that was collected earlier (`NoneWaits`, which
in turn needs `Marked`); `NoOrphanMarker` needs that each marker is somebody's in
memory as well (`Owned`), because a later section writes memory to the file; and
`SlotKept` needs that, while no write fails, memory agrees with the file about a
slot (`Synced`). What repairs a store (`Maintained`, `AllRecomputed`) changes only
slots and markers that are given up (`Repairs`), and maintenance moves a slot that
is there only after a run has begun since (`MaintainedFields`). The sections are
then of six kinds for a job (`FrameStep`, `WriteStep`, `RepairStep`, `EndStep`,
`ReserveStep`, `FailedStep`), with one lemma for each. The first sections of a new
process run alone (`Alone`), and the lock chain holds those that wait, each once
(`ChainOK`). `SchedulerAlive` is inductive beside `Inv`: each section arms the
timer for what it leaves in memory, lets a tick or start go on, or enables nothing.
`SlotIsNext` says of the arithmetic of `schedule.ts` that the slot it computes is
the first one of the schedule from then on, for every period and time.

Only model-checked: all liveness (`AcceptedSettles`, `WaitEnds`,
`EveryCallSettles`, `EveryMessageRuns`, `Pruned`, `WaiterServed`, `WakeServed`),
which is beyond the prover. Every safety property of a passing run is a theorem,
some under conditions that the theorem and its run both state.

## 6. Where the code differs from what it says

Two runs end in a counterexample; `findings` in `PROJECT.json` quote both sides.

1. `followup_queue_summary`: the summary prompt of dropped messages is run in
   place of the first queued message, which is then shifted off.
2. `session_write_lock_window`: the release takes the entry out of `HELD_LOCKS`
   and then awaits; a call of the same process takes the file for an orphan and
   removes the path when another process may have made its own lock there.

The models also have these behaviours. The properties are stated so that they
hold beside them (each names the exception), and no run is devoted to them.

Runs and lanes:
- A lane timeout frees a session while its run goes on, so that two runs of a
  session overlap (`agents/pi-embedded-runner/run.ts:348`; `docs/concepts/queue.md:111`
  says that only one run touches a session). `OverlapOnlyWhenForced` excuses it.

Followup queue:
- The drain of a cleared queue deletes the key of the queue that replaced it
  (`auto-reply/reply/queue/drain.ts:276`), which strands that queue.
- An overflow during a run splices off the item being run, and the shift after
  it removes the next (`utils/queue-helpers.ts:156`).
- With cap 1 the same leaves the drain with dropped messages and no item, and it
  restarts itself for ever (`drain.ts:279`).
- A clear between two authorization groups of a collected batch does not stop
  the later groups (`drain.ts:211`).
- A message queued behind a run that `agentCommand` started waits for a later
  message (`auto-reply/reply/agent-runner.ts:1069`); `NoStrandedFollowup` and
  `EveryMessageRuns` are checked with reply runs only.

Because of the overflows, `EveryMessageAccounted`, `RunOrder` and the liveness
of followups are checked under the policy "new", where nothing is dropped.

Delivery queue:
- A crash between the send and the rename replays a delivered message
  (`infra/outbound/delivery-queue-storage.ts:165`): the two phases protect only
  the window after the rename.
- A deferral rewrites, without a claim, an entry that was acknowledged since it
  was read (`delivery-queue-recovery.ts:153`).
- The restart sentinel's notice is sent without a claim and may be sent by
  recovery at the same time (`gateway/server-restart-sentinel.ts:107`).

Cron service:
- Adding a job computes all slots anew, and so skips one that is due
  (`cron/service/ops.ts:333`); `SlotKept` excuses it.
- An add, an update or the end of a manual run whose write fails leaves memory
  changed and does not arm the timer (`cron/service/ops.ts:343`), so that a job it
  enabled may find no timer until another call arms it; `SchedulerAlive` excuses
  it (`threw`). Ticks arm it also when their write fails.
- After a failed write, a later section may bring to the file a slot of memory
  that is not the file's; `SlotKept` excuses it.

Session lock:
- The nested call of a process that is still writing its payload loses the lock
  when that write fails (`agents/session-write-lock.ts:631`).
- `cleanStaleLockFiles` removes a fresh file without payload whose creator lives
  (`:509`); a file past `staleMs` is reclaimed from a live holder (`:394`); the
  signal handler gives the locks up though the process may live on (`:207`).
- A release, the watchdog, a signal and the cleanup after a failed write ignore
  that their `rm` fails (`:186`, `:211`, `:648`): the call ends as if the lock were
  free, while the file of a live process stays without an owner. The next call of
  that process judges it an orphan and reclaims it; every other process waits
  until the file is past `staleMs` (or, if it has no payload, past the grace).
  `NoLeakedFile` names this file, the one exception. Two waiters of the process
  that both judge it an orphan may take the lock from each other, as in the window
  of the second finding; `LockKept` excuses their verdict, not the failure.
- Not in the model: a read of the payload that fails though the file is there
  counts as a file without payload (`:366`), and a `stat` that fails for another
  reason than absence as one past the grace (`:455`), so that an I/O error of a
  waiter can cost a holder its lock. `LockKept` and its theorem are about waiters
  that can read the file.

Heartbeat:
- A batch of an old handler that ends clears `running` under a batch of the new
  one, so that a second batch may start (`infra/heartbeat-wake.ts:256`); the wakes
  of a batch that hangs are not asked for again; a batch that throws runs again
  what was answered before the throw (`:243`).
- A normal timer armed during a batch may cut the cooldown short, and a wake that
  is put back overwrites a newer reason of the same priority.

Registry:
- `createReplyOperation` does not check that the session id belongs to another
  active key; from then on the two are `crossed`. A clear by force neither aborts
  the operation nor cancels its backend.

## 7. What is not modelled, and why

The repository has 1.6 million lines; most of them are channel adapters, model
providers, user interfaces, generated schemas, tests of those, and request
handling, whose states are one request long. The models cover the schedulers,
queues, registries and locks that these share, which is a small share of the
lines. A TLA+ translation of the rest would restate code that has no
interleaving to check, so the map stays far below what a small program allows.

- Messages delivered with `bestEffort` (a failure is noticed only when the caller
  gave `onError`, `infra/outbound/deliver.ts:1287`), a second process on the same
  state directory, and the shared name of the temporary file of two rewrites
  (`delivery-queue-storage.ts:86`).
- The summary's text, formatting, logs, hooks and metrics: no property needs
  them.
- `refreshQueuedFollowupSession`, steering of a streaming run, and what happens
  inside a run (models, tools, compaction).
- Reading malformed files, and legacy entries.
- In the cron service: edits of a schedule or payload, schedules that cannot be
  computed, failure alerts, the session reaper, and the second service that a
  configuration reload starts (`gateway/server-reload-handlers.ts:314`).
- Exec approvals: a record is resolved once, by a decision or its timer, and is
  kept for a grace period (`gateway/exec-approval-manager.ts:117`). The inbound
  debounce: an item that is not debounced runs beside what its key has buffered.
- The parts `PROJECT.json` lists as not modelled: subagents, tasks, ACP,
  configuration, pairing, auth profiles, adapters, user interfaces and the
  installer, which are I/O, large with their decisions elsewhere, or have little
  interleaving of their own.

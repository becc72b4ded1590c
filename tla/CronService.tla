----------------------------- MODULE CronService -----------------------------
(***************************************************************************)
(* The cron service (openclaw/src/cron/service/): jobs in a store that is  *)
(* a file and a copy in memory, a timer that runs the jobs that are due,   *)
(* manual runs, edits, and the catch-up of a start after a crash.          *)
(*                                                                         *)
(* All that touches the store runs under locked(), a chain of promises:    *)
(* a locked section is one action, taken when it is the head of chain. A   *)
(* run executes outside the lock; what keeps a second run of its job away  *)
(* is the marker runningAtMs it wrote in a locked section before. A crash  *)
(* inside a section is a crash before or after it, since the section ends  *)
(* in its only write; a write that fails is the FALSE case of Persist.     *)
(* Calls from outside (add, update, remove, list) queue behind sections    *)
(* that wait, but may have been made at any earlier time, so that they are *)
(* taken at any time. Times are small numbers; a field that is undefined   *)
(* is Unset.                                                               *)
(*                                                                         *)
(* Advancing, BlindDue, KeepsMarker, RunsAgain, ForgetsTimer and           *)
(* NeverBusy are wrong variants of the definition that follows each; no    *)
(* action uses them.                                                       *)
(***************************************************************************)
EXTENDS Integers, Sequences, FiniteSets

CONSTANTS
  Jobs,          \* job ids
  Addable,       \* jobs that are not in the store at first
  KindOf,        \* "every", "at" or "cron"
  Period,        \* everyMs, the distance of a cron job's slots, or the time of "at"
  AgentJobs,     \* jobs whose payload is an agent turn
  DeleteAfterRun, \* one-shot jobs with deleteAfterRun
  ManualRuns,    \* calls of run()
  Outcomes,      \* ways a run ends
  MaxConcurrent, \* maxConcurrentRuns
  MaxImmediate,  \* maxMissedJobsPerRestart
  MaxAttempts,   \* retries of a one-shot job after transient errors
  Backoff,       \* errorBackoffMs
  Stuck,         \* STUCK_RUN_MS
  MaxTime,       \* bound on the clock
  MaxEdits,      \* bound on calls of add, update and remove
  MaxTroubles    \* bound on crashes and failed writes of the store

ASSUME CronAssumption ==
  /\ KindOf \in [Jobs -> {"every", "at", "cron"}]
  /\ Period \in [Jobs -> Nat \ {0}]
  /\ Outcomes \subseteq {"ok", "skipped", "transient", "permanent"}
  /\ {"tick", "boot"} \cap ManualRuns = {}
  /\ MaxConcurrent \in Nat \ {0} /\ MaxImmediate \in Nat /\ MaxAttempts \in Nat
  /\ Backoff \in Nat \ {0} /\ Stuck \in Nat /\ MaxTime \in Nat
  /\ MaxEdits \in Nat /\ MaxTroubles \in Nat

VARIABLES
  now,       \* the clock
  mem,       \* state.store, the copy in memory
  disk,      \* the file
  timer,     \* state.timer is armed
  runner,    \* the timer tick and the catch-up of a start, with their batches
  manual,    \* the calls of run()
  chain,     \* locked sections that wait, by caller
  edits,     \* the jobs of the calls of add, update and remove so far
  crashes,   \* crashes so far
  faults,    \* failed writes so far
  threw,     \* history: a call failed to write since the timer was last armed
  released,  \* history: jobs whose marker was cleared by an edit, or as stuck
  succeeded  \* history: one-shot jobs that ended well since they were enabled

vars == <<now, mem, disk, timer, runner, manual, chain, edits, crashes, faults, threw, released, succeeded>>

Unset == -1

NewJob == [stored |-> TRUE, enabled |-> TRUE, next |-> Unset, running |-> Unset,
           last |-> Unset, status |-> "none", errors |-> 0]

Absent == [NewJob EXCEPT !.stored = FALSE, !.enabled = FALSE]

(* An entry of a batch; same: its job is still the object in state.store. *)
Waiting == [st |-> "waiting", same |-> TRUE, from |-> Unset, to |-> Unset, outcome |-> "none"]

NoBatch == [j \in Jobs |-> [Waiting EXCEPT !.st = "none"]]

Quiet == [pc |-> "off", batch |-> NoBatch, skip |-> {}, deferred |-> {}]

NoCall == [pc |-> "idle", job |-> CHOOSE j \in Jobs : TRUE, force |-> FALSE,
           from |-> Unset, to |-> Unset, outcome |-> "none"]

Over == [NoCall EXCEPT !.pc = "done"]

Greater(a, b) == IF a > b THEN a ELSE b

-----------------------------------------------------------------------------
(* The schedule.                                                           *)

(* computeNextRunAtMs: the slots are the multiples of the period.          *)
Slot(j, t) ==
  LET p == Period[j]
  IN  IF KindOf[j] = "cron" THEN p * (t \div p + 1)
      ELSE Greater(p, p * ((t + p - 1) \div p))

(* computeJobNextRunAtMs. *)
NextRun(r, j, t) ==
  CASE ~r.enabled -> Unset
    [] r.enabled /\ KindOf[j] = "every" ->
         IF r.last # Unset /\ r.last + Period[j] > t THEN r.last + Period[j] ELSE Slot(j, t)
    [] r.enabled /\ KindOf[j] = "cron" -> Slot(j, t)
    [] r.enabled /\ KindOf[j] = "at" ->
         IF r.status = "ok" /\ r.last # Unset /\ Period[j] <= r.last THEN Unset ELSE Period[j]

(* recomputeJobNextRunAtMs: not before the error backoff has passed. *)
Recomputed(r, j, t) ==
  LET next == NextRun(r, j, t)
      held == KindOf[j] # "at" /\ r.status = "error" /\ r.last # Unset /\ next # Unset
  IN  [r EXCEPT !.next = IF held THEN Greater(next, r.last + Backoff) ELSE next]

(* normalizeJobTickState: what the marker and the slot of a job become. *)
Normalized(r, t) ==
  [r EXCEPT !.next = IF r.enabled THEN @ ELSE Unset,
            !.running = IF ~r.enabled \/ (@ # Unset /\ t - @ > Stuck) THEN Unset ELSE @]

(* Jobs whose marker normalizeJobTickState takes away. *)
Cleared(s, t) == {j \in Jobs : s[j].stored /\ s[j].running # Unset /\ Normalized(s[j], t).running = Unset}

(* recomputeNextRunsForMaintenance: slots that are missing, and, with      *)
(* expired, past ones a run has used, are computed; past ones nobody has   *)
(* run are kept.                                                           *)
Advancing(s, t, expired) ==
  [j \in Jobs |->
     LET r == Normalized(s[j], t)
     IN  IF s[j].stored /\ r.enabled /\ (r.next = Unset \/ (r.next <= t /\ r.running = Unset))
         THEN Recomputed(r, j, t) ELSE IF s[j].stored THEN r ELSE s[j]]

Maintained(s, t, expired) ==
  [j \in Jobs |->
     LET r == Normalized(s[j], t)
         used == /\ expired /\ r.next # Unset /\ r.next <= t /\ r.running = Unset
                 /\ r.last # Unset /\ r.last >= r.next
     IN  IF ~s[j].stored THEN s[j]
         ELSE IF r.enabled /\ (r.next = Unset \/ used) THEN Recomputed(r, j, t)
         ELSE r]

(* recomputeNextRuns: every slot that is missing or past. *)
AllRecomputed(s, t) ==
  [j \in Jobs |->
     LET r == Normalized(s[j], t)
     IN  IF ~s[j].stored THEN s[j]
         ELSE IF r.enabled /\ (r.next = Unset \/ r.next <= t) THEN Recomputed(r, j, t)
         ELSE r]

(* isRunnableJob, as a tick asks it. *)
BlindDue(r, t) == r.stored /\ r.enabled /\ r.next # Unset /\ r.next <= t

Due(r, t) == r.stored /\ r.enabled /\ r.running = Unset /\ r.next # Unset /\ r.next <= t

(* isRunnableJob, as a start asks it: a one-shot job that has run only     *)
(* for its retry; a cron job also for a slot it missed since it last ran.  *)
Missed(r, j, t) ==
  LET backoff == KindOf[j] # "at" /\ r.status = "error" /\ r.last # Unset /\ t < r.last + Backoff
      previous == Period[j] * ((t - 1) \div Period[j])
  IN  /\ r.stored /\ r.enabled /\ r.running = Unset
      /\ \/ /\ KindOf[j] = "at" /\ r.status # "none"
            /\ r.status = "error" /\ r.next # Unset /\ r.last # Unset
            /\ r.next > r.last /\ t >= r.next
         \/ /\ KindOf[j] # "at" \/ r.status = "none"
            /\ \/ r.next # Unset /\ t >= r.next
               \/ /\ KindOf[j] = "cron"
                  /\ ~(r.next # Unset /\ backoff)
                  /\ r.last # Unset
                  /\ t > 0 /\ previous > 0 /\ previous > r.last

(* applyJobResult: the record of a job after a run of it. *)
KeepsMarker(r, outcome, from) ==
  [r EXCEPT !.last = from,
            !.status = IF outcome \in {"ok", "skipped"} THEN outcome ELSE "error",
            !.errors = IF outcome \in {"ok", "skipped"} THEN 0
                       ELSE IF @ <= MaxAttempts THEN @ + 1 ELSE @]

Ended(r, outcome, from) ==
  [r EXCEPT !.running = Unset,
            !.last = from,
            !.status = IF outcome \in {"ok", "skipped"} THEN outcome ELSE "error",
            !.errors = IF outcome \in {"ok", "skipped"} THEN 0
                       ELSE IF @ <= MaxAttempts THEN @ + 1 ELSE @]

RunsAgain(r) == r

Off(r) == [r EXCEPT !.enabled = FALSE, !.next = Unset]

Applied(r, j, outcome, from, to, preserve) ==
  LET e == Ended(r, outcome, from)
      natural == NextRun(IF preserve /\ KindOf[j] = "every" THEN [e EXCEPT !.last = r.last] ELSE e, j, to)
      lower == IF outcome \in {"ok", "skipped"} THEN to + 1 ELSE to + Backoff
  IN  CASE KindOf[j] = "at" /\ outcome = "ok" /\ j \in DeleteAfterRun -> [Absent EXCEPT !.status = "ok"]
        [] KindOf[j] = "at" /\ outcome = "transient" /\ e.errors <= MaxAttempts ->
             [e EXCEPT !.next = to + Backoff]
        [] KindOf[j] = "at" /\ ~(outcome = "ok" /\ j \in DeleteAfterRun)
             /\ ~(outcome = "transient" /\ e.errors <= MaxAttempts) -> Off(e)
        [] KindOf[j] # "at" /\ ~r.enabled -> [e EXCEPT !.next = Unset]
        [] KindOf[j] # "at" /\ r.enabled /\ outcome \in {"transient", "permanent"} ->
             [e EXCEPT !.next = Greater(natural, lower)]
        [] KindOf[j] # "at" /\ r.enabled /\ outcome \in {"ok", "skipped"} ->
             [e EXCEPT !.next = IF KindOf[j] = "cron" THEN Greater(natural, lower) ELSE natural]

-----------------------------------------------------------------------------
(* Locked sections.                                                        *)

Queued(a) == chain' = Append(chain, a)

(* The section of a is the one that holds the lock. *)
Holds(a) == chain # <<>> /\ Head(chain) = a

Frees == chain' = Tail(chain)

(* saveCronStore; ok is FALSE when the write fails and the section throws. *)
Persist(s, ok) ==
  /\ mem' = s
  /\ disk' = IF ok THEN s ELSE disk
  /\ ok \/ crashes + faults < MaxTroubles
  /\ faults' = IF ok THEN faults ELSE faults + 1

(* armTimer: for the next slot, or to look again while a job is enabled. *)
ForgetsTimer(s) ==
  /\ timer' = (\E j \in Jobs : s[j].enabled /\ s[j].next > now)
  /\ threw' = FALSE

ArmTimer(s) ==
  /\ timer' = (\E j \in Jobs : s[j].enabled)
  /\ threw' = FALSE

(* A call whose write fails does not get to armTimer. *)
Throws == UNCHANGED timer /\ threw' = TRUE

ArmIf(ok, s) == IF ok THEN ArmTimer(s) ELSE Throws

Set(a, field) == [runner EXCEPT ![a] = field]

(* Who has reserved j and not yet written down its end; who executes it. *)
Claims(j) ==
  {a \in DOMAIN runner : runner[a].batch[j].st # "none"}
    \cup {m \in ManualRuns : manual[m].pc \in {"run", "finish"} /\ manual[m].job = j}

Alive(j) ==
  {a \in DOMAIN runner : runner[a].batch[j].st = "executing"}
    \cup {m \in ManualRuns : manual[m].pc = "run" /\ manual[m].job = j}

Entries(a, st) == {j \in Jobs : runner[a].batch[j].st = st}

(* The history of a section that marks the jobs of set: a job nobody has   *)
(* reserved starts anew.                                                   *)
Reserves(set) == released' = released \ {j \in set : Claims(j) = {}}

(* state.running, which only onTimer's finally resets. *)
NeverBusy(a) == TRUE

NotBusy(a) == runner[a].pc = "off"

(* start() has made its first locked section. *)
Started == runner["boot"].pc # "mark"

Init ==
  /\ now = 0
  /\ disk = [j \in Jobs |-> IF j \in Addable THEN Absent ELSE [NewJob EXCEPT !.next = NextRun(NewJob, j, 0)]]
  /\ mem = [j \in Jobs |-> Absent]
  /\ timer = FALSE
  /\ runner = [a \in {"tick", "boot"} |-> IF a = "boot" THEN [Quiet EXCEPT !.pc = "mark"] ELSE Quiet]
  /\ manual = [m \in ManualRuns |-> NoCall]
  /\ chain = <<"boot">>
  /\ edits = <<>>
  /\ crashes = 0
  /\ faults = 0
  /\ threw = FALSE
  /\ released = {}
  /\ succeeded = {}

-----------------------------------------------------------------------------
(* The timer.                                                              *)

Advance ==
  /\ now < MaxTime
  /\ now' = now + 1
  /\ UNCHANGED <<mem, disk, timer, threw, runner, manual, chain, edits, crashes, faults, released, succeeded>>

(* onTimer; a tick that finds another one running arms the timer again and *)
(* changes nothing else.                                                   *)
TickFire ==
  /\ timer /\ NotBusy("tick")
  /\ timer' = TRUE
  /\ runner' = [runner EXCEPT !["tick"].pc = "collect"]
  /\ Queued("tick")
  /\ UNCHANGED <<now, mem, disk, manual, edits, crashes, faults, threw, released, succeeded>>

(* The first section of onTimer. A write that fails ends the tick.         *)
TickCollect(ok) ==
  LET due == {j \in Jobs : Due(disk[j], now)}
      kept == Maintained(disk, now, TRUE)
      marked == [j \in Jobs |-> IF j \in due THEN [disk[j] EXCEPT !.running = now] ELSE disk[j]]
      s == IF due = {} THEN kept ELSE marked
  IN  /\ Holds("tick") /\ runner["tick"].pc = "collect"
      /\ ok \/ s # disk
      /\ Persist(s, ok)
      /\ IF due # {} /\ ok
         THEN /\ runner' = Set("tick", [Quiet EXCEPT !.pc = "run",
                             !.batch = [j \in Jobs |-> IF j \in due THEN Waiting ELSE NoBatch[j]]])
              /\ Reserves(due)
              /\ UNCHANGED <<timer, threw>>
         ELSE /\ runner' = Set("tick", Quiet)
              /\ released' = IF due = {} THEN released \cup Cleared(disk, now) ELSE released
              /\ ArmTimer(s)
      /\ Frees
      /\ UNCHANGED <<now, manual, edits, crashes, succeeded>>

(* runDueJob, by one of the workers; runStartupCatchupCandidate.           *)
StartRun(a, j) ==
  /\ runner[a].pc = "run" /\ runner[a].batch[j].st = "waiting"
  /\ Cardinality(Entries(a, "executing")) < (IF a = "tick" THEN MaxConcurrent ELSE 1)
  /\ runner' = [runner EXCEPT ![a].batch[j] = [@ EXCEPT !.st = "executing", !.same = TRUE, !.from = now]]
  /\ mem' = IF a = "tick" /\ runner[a].batch[j].same THEN [mem EXCEPT ![j].running = now] ELSE mem
  /\ UNCHANGED <<now, disk, timer, threw, manual, chain, edits, crashes, faults, released, succeeded>>

(* executeJobCoreWithTimeout returns; the last one asks for the lock.      *)
EndRun(a, j, outcome) ==
  /\ runner[a].pc = "run" /\ runner[a].batch[j].st = "executing"
  /\ LET b == [runner[a].batch EXCEPT ![j] = [@ EXCEPT !.st = "ended", !.to = now, !.outcome = outcome]]
         last == \A k \in Jobs : b[k].st \in {"none", "ended"}
     IN  /\ runner' = [runner EXCEPT ![a].batch = b, ![a].pc = IF last THEN "apply" ELSE @]
         /\ IF last THEN Queued(a) ELSE UNCHANGED chain
  /\ UNCHANGED <<now, mem, disk, timer, threw, manual, edits, crashes, faults, released, succeeded>>

(* applyOutcomeToStoredJob for a batch; a job that is gone is passed over. *)
Outcome(s, batch) ==
  [j \in Jobs |-> IF batch[j].st = "ended" /\ s[j].stored
                  THEN Applied(s[j], j, batch[j].outcome, batch[j].from, batch[j].to, FALSE)
                  ELSE s[j]]

(* One-shot jobs whose successful run a batch brings to the store. *)
Succeeds(s, batch) ==
  {j \in Jobs : KindOf[j] = "at" /\ batch[j].st = "ended" /\ batch[j].outcome = "ok" /\ s[j].stored}

TickApply(ok) ==
  LET b == runner["tick"].batch
      s == Outcome(disk, b)
      kept == Maintained(s, now, FALSE)
  IN  /\ Holds("tick") /\ runner["tick"].pc = "apply"
      /\ Persist(kept, ok)
      /\ released' = released \cup Cleared(s, now)
      /\ succeeded' = IF ok THEN succeeded \cup Succeeds(disk, b) ELSE succeeded
      /\ runner' = Set("tick", Quiet)
      /\ ArmTimer(kept)
      /\ Frees
      /\ UNCHANGED <<now, manual, edits, crashes>>

-----------------------------------------------------------------------------
(* start().                                                                *)

(* markInterruptedStartupRun. *)
Interrupted(r, j) ==
  LET e == [Ended(r, "permanent", r.running) EXCEPT !.next = Unset]
  IN  IF KindOf[j] = "at" THEN Off(e) ELSE e

BootMark ==
  LET hit == {j \in Jobs : disk[j].stored /\ disk[j].running # Unset}
  IN  /\ Holds("boot") /\ runner["boot"].pc = "mark"
      /\ Persist([j \in Jobs |-> IF j \in hit THEN Interrupted(disk[j], j) ELSE disk[j]], TRUE)
      /\ runner' = Set("boot", [Quiet EXCEPT !.pc = "plan", !.skip = hit])
      /\ chain' = Append(Tail(chain), "boot")
      /\ UNCHANGED <<now, timer, threw, manual, edits, crashes, released, succeeded>>

(* planStartupCatchup: the earliest missed jobs run now, the others and    *)
(* the agents' later.                                                      *)
BootPlan ==
  LET missed == {j \in Jobs \ runner["boot"].skip : Missed(mem[j], j, now)}
      eligible == missed \ AgentJobs
  IN  /\ Holds("boot") /\ runner["boot"].pc = "plan"
      /\ \E chosen \in SUBSET eligible :
           LET s == [j \in Jobs |-> IF j \in chosen THEN [mem[j] EXCEPT !.running = now] ELSE mem[j]]
               next == IF missed = {} THEN "arm" ELSE IF chosen = {} THEN "apply" ELSE "run"
           IN  /\ \/ Cardinality(chosen) = MaxImmediate
                  \/ chosen = eligible /\ Cardinality(chosen) < MaxImmediate
               /\ \A j \in chosen, k \in eligible \ chosen : mem[j].next <= mem[k].next
               /\ IF missed = {} THEN UNCHANGED <<mem, disk, faults>> ELSE Persist(s, TRUE)
               /\ Reserves(chosen)
               /\ runner' = Set("boot", [pc |-> next, skip |-> {}, deferred |-> missed \ chosen,
                              batch |-> [j \in Jobs |-> IF j \in chosen THEN Waiting ELSE NoBatch[j]]])
               /\ chain' = IF next = "run" THEN Tail(chain) ELSE Append(Tail(chain), "boot")
  /\ UNCHANGED <<now, timer, threw, manual, edits, crashes, succeeded>>

(* applyStartupCatchupOutcomes; the stagger between deferred jobs is 1.    *)
BootApply ==
  LET b == runner["boot"].batch
      s == Outcome(mem, b)
      later == [j \in Jobs |-> IF j \in runner["boot"].deferred /\ s[j].stored /\ s[j].enabled
                               THEN [s[j] EXCEPT !.next = now + IF j \in AgentJobs THEN 2 ELSE 1]
                               ELSE s[j]]
  IN  /\ Holds("boot") /\ runner["boot"].pc = "apply"
      /\ Persist(Maintained(later, now, FALSE), TRUE)
      /\ released' = released \cup Cleared(later, now)
      /\ succeeded' = succeeded \cup Succeeds(mem, b)
      /\ runner' = Set("boot", [Quiet EXCEPT !.pc = "arm"])
      /\ chain' = Append(Tail(chain), "boot")
      /\ UNCHANGED <<now, timer, threw, manual, edits, crashes>>

BootArm ==
  LET kept == Maintained(mem, now, TRUE)
  IN  /\ Holds("boot") /\ runner["boot"].pc = "arm"
      /\ IF kept # mem THEN Persist(kept, TRUE) ELSE UNCHANGED <<mem, disk, faults>>
      /\ released' = released \cup Cleared(mem, now)
      /\ runner' = Set("boot", Quiet)
      /\ ArmTimer(kept)
      /\ Frees
      /\ UNCHANGED <<now, manual, edits, crashes, succeeded>>

-----------------------------------------------------------------------------
(* run().                                                                  *)

Call(m, j, force) ==
  /\ Started /\ manual[m].pc = "idle"
  /\ manual' = [manual EXCEPT ![m] = [NoCall EXCEPT !.pc = "preflight", !.job = j, !.force = force]]
  /\ Queued(m)
  /\ UNCHANGED <<now, mem, disk, timer, threw, runner, edits, crashes, faults, released, succeeded>>

(* inspectManualRunPreflight: what it repairs stays in memory.             *)
Preflight(m) ==
  LET c == manual[m]
      kept == Maintained(mem, now, FALSE)
      r == kept[c.job]
      go == r.stored /\ r.running = Unset /\ (c.force \/ Due(r, now))
  IN  /\ Holds(m) /\ c.pc = "preflight"
      /\ mem' = kept
      /\ released' = released \cup Cleared(mem, now)
      /\ manual' = [manual EXCEPT ![m] = IF go THEN [c EXCEPT !.pc = "reserve", !.from = now] ELSE Over]
      /\ chain' = IF go THEN Append(Tail(chain), m) ELSE Tail(chain)
      /\ UNCHANGED <<now, disk, timer, threw, runner, edits, crashes, faults, succeeded>>

(* The second section of prepareManualRun. *)
Reserve(m, ok) ==
  LET c == manual[m]
      r == mem[c.job]
      go == r.stored /\ r.running = Unset
  IN  /\ Holds(m) /\ c.pc = "reserve"
      /\ ok \/ go
      /\ IF go THEN Persist([mem EXCEPT ![c.job].running = c.from], ok) ELSE UNCHANGED <<mem, disk, faults>>
      /\ manual' = [manual EXCEPT ![m] = IF go /\ ok THEN [c EXCEPT !.pc = "run"] ELSE Over]
      /\ IF go /\ ok THEN Reserves({c.job}) ELSE UNCHANGED released
      /\ Frees
      /\ UNCHANGED <<now, timer, threw, runner, edits, crashes, succeeded>>

EndManual(m, outcome) ==
  /\ manual[m].pc = "run"
  /\ manual' = [manual EXCEPT ![m] = [@ EXCEPT !.pc = "finish", !.to = now, !.outcome = outcome]]
  /\ Queued(m)
  /\ UNCHANGED <<now, mem, disk, timer, threw, runner, edits, crashes, faults, released, succeeded>>

(* Every job in memory is another object after a reload. *)
Reloaded(js) ==
  runner' = [a \in DOMAIN runner |->
               [runner[a] EXCEPT !.batch = [j \in Jobs |->
                  IF j \in js /\ @[j].st = "waiting" THEN [@[j] EXCEPT !.same = FALSE] ELSE @[j]]]]

(* The last section of finishPreparedManualRun: the record of the job is   *)
(* put into what the file holds.                                           *)
Finish(m, ok) ==
  LET c == manual[m]
      r == Applied(mem[c.job], c.job, c.outcome, c.from, c.to, c.force)
      merged == IF disk[c.job].stored THEN [disk EXCEPT ![c.job] = r] ELSE disk
      kept == Maintained(merged, now, TRUE)
  IN  /\ Holds(m) /\ c.pc = "finish"
      /\ manual' = [manual EXCEPT ![m] = Over]
      /\ Frees
      /\ IF mem[c.job].stored
         THEN /\ Persist(kept, ok)
              /\ released' = released \cup Cleared(merged, now)
              /\ succeeded' = IF ok /\ KindOf[c.job] = "at" /\ c.outcome = "ok"
                              THEN succeeded \cup {c.job} ELSE succeeded
              /\ ArmIf(ok, kept)
              /\ Reloaded(Jobs)
         ELSE ok /\ UNCHANGED <<mem, disk, timer, threw, runner, faults, released, succeeded>>
      /\ UNCHANGED <<now, edits, crashes>>

-----------------------------------------------------------------------------
(* Calls from outside. One that fails to write arms no timer.              *)

Edited(j) ==
  /\ Started
  /\ Len(edits) < MaxEdits
  /\ edits' = Append(edits, j)

Add(j, ok) ==
  LET s == [mem EXCEPT ![j] = [NewJob EXCEPT !.next = NextRun(NewJob, j, now)]]
      all == AllRecomputed(s, now)
  IN  /\ mem[j] = Absent
      /\ Edited(j)
      /\ Persist(all, ok)
      /\ released' = released \cup Cleared(s, now)
      /\ ArmIf(ok, all)
      /\ UNCHANGED <<now, runner, manual, chain, crashes, succeeded>>

(* update() with a patch of enabled. *)
SetEnabled(j, enabled, ok) ==
  LET r == [mem[j] EXCEPT !.enabled = enabled]
      s == [mem EXCEPT ![j] = [r EXCEPT !.next = NextRun(r, j, now),
                                        !.running = IF enabled THEN @ ELSE Unset]]
  IN  /\ mem[j].stored
      /\ Edited(j)
      /\ Persist(s, ok)
      /\ released' = IF enabled THEN released ELSE released \cup {j}
      /\ succeeded' = IF enabled THEN succeeded \ {j} ELSE succeeded
      /\ ArmIf(ok, s)
      /\ Reloaded({j})
      /\ UNCHANGED <<now, manual, chain, crashes>>

Remove(j, ok) ==
  LET s == [mem EXCEPT ![j] = [Absent EXCEPT !.status = "ok"]]
  IN  /\ mem[j].stored
      /\ Edited(j)
      /\ Persist(s, ok)
      /\ ArmIf(ok, s)
      /\ UNCHANGED <<now, runner, manual, chain, crashes, released, succeeded>>

(* status, list and listPage: ensureLoadedForRead. *)
Read(ok) ==
  LET kept == Maintained(mem, now, FALSE)
  IN  /\ Started
      /\ kept # mem
      /\ Persist(kept, ok)
      /\ released' = released \cup Cleared(mem, now)
      /\ UNCHANGED <<now, timer, threw, runner, manual, chain, edits, crashes, succeeded>>

(* The process dies and start() is called in a new one.                    *)
Crash ==
  /\ crashes + faults < MaxTroubles
  /\ crashes' = crashes + 1
  /\ mem' = [j \in Jobs |-> Absent]
  /\ timer' = FALSE
  /\ threw' = FALSE
  /\ runner' = [a \in {"tick", "boot"} |-> IF a = "boot" THEN [Quiet EXCEPT !.pc = "mark"] ELSE Quiet]
  /\ manual' = [m \in ManualRuns |-> IF manual[m].pc = "idle" THEN NoCall ELSE Over]
  /\ chain' = <<"boot">>
  /\ released' = {}
  /\ UNCHANGED <<now, disk, edits, faults, succeeded>>

Section ==
  \/ \E ok \in BOOLEAN : TickCollect(ok) \/ TickApply(ok)
  \/ BootMark \/ BootPlan \/ BootApply \/ BootArm
  \/ \E m \in ManualRuns : Preflight(m) \/ \E ok \in BOOLEAN : Reserve(m, ok) \/ Finish(m, ok)

Execution ==
  \/ \E a \in {"tick", "boot"}, j \in Jobs :
       StartRun(a, j) \/ \E outcome \in Outcomes : EndRun(a, j, outcome)
  \/ \E m \in ManualRuns, outcome \in Outcomes : EndManual(m, outcome)

Outside ==
  \/ \E m \in ManualRuns, j \in Jobs, force \in BOOLEAN : Call(m, j, force)
  \/ \E j \in Jobs, ok \in BOOLEAN : Add(j, ok) \/ Remove(j, ok) \/ \E b \in BOOLEAN : SetEnabled(j, b, ok)
  \/ \E ok \in BOOLEAN : Read(ok)
  \/ Crash

Next == Advance \/ TickFire \/ Section \/ Execution \/ Outside

Spec == Init /\ [][Next]_vars

-----------------------------------------------------------------------------
TypeOK ==
  /\ now \in 0..MaxTime
  /\ \A j \in Jobs : \A r \in {mem[j], disk[j]} :
       /\ r.stored \in BOOLEAN /\ r.enabled \in BOOLEAN
       /\ r.next \in Nat \cup {Unset}
       /\ {r.running, r.last} \subseteq Unset..now
       /\ r.status \in {"none", "ok", "skipped", "error"}
       /\ r.errors \in 0..(MaxAttempts + 1)
       /\ r.enabled => r.stored
  /\ timer \in BOOLEAN /\ threw \in BOOLEAN
  /\ runner["tick"].pc \in {"off", "collect", "run", "apply"}
  /\ runner["boot"].pc \in {"mark", "plan", "run", "apply", "arm", "off"}
  /\ \A m \in ManualRuns : manual[m].pc \in {"idle", "preflight", "reserve", "run", "finish", "done"}
  /\ \A a \in {"tick", "boot"}, j \in Jobs :
       runner[a].batch[j].st \in {"none", "waiting", "executing", "ended"}
  /\ \A a \in {"tick", "boot"} \cup ManualRuns :
       Cardinality({i \in 1..Len(chain) : chain[i] = a}) =
         IF a \in ManualRuns THEN (IF manual[a].pc \in {"preflight", "reserve", "finish"} THEN 1 ELSE 0)
         ELSE IF runner[a].pc \in {"off", "run"} THEN 0 ELSE 1

(* Two runs of one job are alive at a time only after the marker of the    *)
(* first was given up: its job was disabled meanwhile, or it ran for       *)
(* longer than STUCK_RUN_MS. Ticks, manual runs and the catch-up of a      *)
(* start share nothing but that marker.                                    *)
OverlapOnlyAfterRelease == \A j \in Jobs : Cardinality(Alive(j)) > 1 => j \in released

(* A marker in the file belongs to a run that is reserved, executes or     *)
(* waits to be written down, or to a process that died: while no write     *)
(* fails, no job is held up until STUCK_RUN_MS for nothing.                *)
NoOrphanMarker ==
  \A j \in Jobs :
    disk[j].stored /\ disk[j].running # Unset /\ faults = 0 /\ Started => Claims(j) # {}

(* A one-shot job whose successful run is in the file is not started by    *)
(* the timer or a catch-up again, unless it is enabled anew, or its marker *)
(* was given up during another run of it.                                  *)
OneShotOnce ==
  [][\A j \in succeeded \ released, a \in {"tick", "boot"} :
       runner'[a].batch[j].st = "executing" => runner[a].batch[j].st = "executing"]_vars

Ran(j) ==
  \/ \E a \in {"tick", "boot"} : runner[a].batch[j].st = "ended" /\ runner'[a].batch[j].st = "none"
  \/ \E m \in ManualRuns : manual[m].pc = "finish" /\ manual'[m].pc = "done" /\ manual[m].job = j

(* No step moves the due slot of a job to the future unless a run has      *)
(* served it: the run ends in that step or has begun since the slot. A     *)
(* start puts off what it does not run itself; an edit of the job computes *)
(* its slot anew, and adding a job does so for all. Where a failed write   *)
(* left memory and file at odds about the job, a later write may bring     *)
(* what memory holds to the file.                                          *)
SlotKept ==
  [][\A j \in Jobs :
       /\ disk[j].enabled /\ disk[j].running = Unset /\ disk[j].next # Unset /\ disk[j].next <= now
       /\ disk'[j].enabled /\ (disk'[j].next = Unset \/ disk'[j].next > now)
       => \/ Ran(j)
          \/ disk[j].last >= disk[j].next
          \/ j \in runner["boot"].deferred
          \/ edits' = Append(edits, j)
          \/ faults > 0 /\ (mem[j].next # disk[j].next \/ mem[j].last # disk[j].last)
          \/ \E k \in Jobs : mem[k] = Absent /\ mem'[k].stored]_vars

(* The scheduler does not die: once a start is over, a job that is enabled *)
(* in memory finds the timer armed or a tick under way, however ticks,     *)
(* long runs, edits and manual runs fall together and whatever writes of   *)
(* ticks fail; only a call that fails to write may leave a job without a   *)
(* timer, until the timer is next armed.                                   *)
SchedulerAlive ==
  runner["boot"].pc = "off" /\ ~threw /\ (\E j \in Jobs : mem[j].enabled) =>
    timer \/ runner["tick"].pc # "off"
=============================================================================

--------------------------- MODULE DeliveryQueue ---------------------------
(***************************************************************************)
(* The write-ahead queue of outbound messages: one file per message, with  *)
(* its count of failed attempts, written before the first send and renamed *)
(* away after the last (infra/outbound/delivery-queue-storage.ts); live    *)
(* sends (deliver.ts); the restart-sentinel's notice, which sends on its   *)
(* own; and the two scans that replay what is left on disk: recovery when  *)
(* the gateway starts, and a drain per account when it reconnects          *)
(* (delivery-queue-recovery.ts).  Every await of a file operation or of a  *)
(* send is a point where the other senders, or a crash, may come between.  *)
(*                                                                         *)
(* Messages are of the default kind, not bestEffort.                       *)
(***************************************************************************)
EXTENDS Integers, FiniteSets

CONSTANTS
  Entries,     \* messages, each given once to deliverOutboundPayloads
  Notices,     \* those that the restart sentinel enqueues and sends itself
  Recoveries,  \* recoverPendingDeliveries, as started by the gateway
  Reconnects,  \* drain keys of drainPendingDeliveries
  Selects,     \* [Reconnects -> SUBSET Entries], selectEntry of each key
  Parts,       \* payloads of a message
  MaxRetries,
  None,        \* no entry
  Budgeted,    \* whether recovery can run out of its time
  Prompt,      \* whether a live send resumes before a scan has read its file twice
  MaxCrashes,  \* bounds
  MaxFaults

Drainers == Recoveries \cup Reconnects

Senders == Entries \cup Drainers

Gone == -1

ASSUME DeliveryAssumption ==
  /\ Notices \subseteq Entries
  /\ Selects \in [Reconnects -> SUBSET Entries]
  /\ Entries \cap Drainers = {}
  /\ None \notin Entries
  /\ Recoveries \cap Reconnects = {}
  /\ Parts \in Nat \ {0}
  /\ MaxRetries \in Nat \ {0}
  /\ Budgeted \in BOOLEAN
  /\ Prompt \in BOOLEAN
  /\ MaxCrashes \in Nat
  /\ MaxFaults \in Nat

VARIABLES
  retries,   \* [Entries -> Nat \cup {Gone}], the retryCount in {id}.json
  age,       \* [Entries -> Nat], enqueuedAt, 0 before the message is enqueued
  markers,   \* {id}.delivered
  failed,    \* failed/{id}.json
  cooling,   \* entries whose backoff since lastAttemptAt has not elapsed
  claimed,   \* entriesInProgress
  pc,        \* [Senders -> STRING]
  at,        \* [Senders -> Entries \cup {None}], the entry in hand
  part,      \* [Senders -> 0..Parts], payloads already sent by this attempt
  todo,      \* [Drainers -> SUBSET Entries], the rest of a scan's snapshot
  rewrites,  \* failDelivery calls that have read: <<sender, entry, count>>
  received,  \* [Entries -> SUBSET 1..Parts], what reached the recipient
  aborted,   \* entries that were dropped because their caller aborted
  clock, crashes, faults

disk == <<retries, age, markers, failed, cooling, clock>>
outside == <<received, aborted, crashes, faults>>
vars == <<disk, claimed, pc, at, part, todo, rewrites, outside>>

Init ==
  /\ retries = [e \in Entries |-> Gone]
  /\ age = [e \in Entries |-> 0]
  /\ markers = {} /\ failed = {} /\ cooling = {} /\ claimed = {}
  /\ pc = [s \in Senders |-> "idle"]
  /\ at = [s \in Senders |-> IF s \in Entries THEN s ELSE None]
  /\ part = [s \in Senders |-> 0]
  /\ todo = [d \in Drainers |-> {}]
  /\ rewrites = {}
  /\ received = [e \in Entries |-> {}]
  /\ aborted = {}
  /\ clock = 0 /\ crashes = 0 /\ faults = 0

-----------------------------------------------------------------------------
Queued(e) == retries[e] # Gone

(* A wrong variant of Free. *)
NotChecked(e) == TRUE

Free(e) == e \notin claimed

(* A wrong variant of Released: only a successful attempt releases. *)
ReleasedOnAck(s) == IF pc[s] = "unlinking" THEN claimed \ {at[s]} ELSE claimed

(* The claim is released in a finally; a notice has none. *)
Released(s) == IF s \in Notices THEN claimed ELSE claimed \ {at[s]}

EndAttempt(s) ==
  /\ pc' = [pc EXCEPT ![s] = IF s \in Entries THEN "done" ELSE "next"]
  /\ claimed' = Released(s)

Goto(s, label) ==
  /\ pc' = [pc EXCEPT ![s] = label]
  /\ UNCHANGED claimed

-----------------------------------------------------------------------------
(* deliverOutboundPayloads and deliverRestartSentinelNotice.               *)

Enqueue(e) ==
  /\ pc[e] = "idle"
  /\ retries' = [retries EXCEPT ![e] = 0]
  /\ age' = [age EXCEPT ![e] = clock + 1]
  /\ clock' = clock + 1
  /\ Goto(e, "enqueued")
  /\ UNCHANGED <<markers, failed, cooling, at, part, todo, rewrites, outside>>

(* The queue could not be written: the message is sent without it. *)
EnqueueFails(e) ==
  /\ pc[e] = "idle"
  /\ Goto(e, "done")
  /\ UNCHANGED <<disk, at, part, todo, rewrites, outside>>

(* withActiveDeliveryClaim; the notice goes straight to sending. *)
StartLive(e) ==
  /\ pc[e] = "enqueued"
  /\ IF e \in Notices
       THEN Goto(e, "sending")
       ELSE IF Free(e)
       THEN /\ pc' = [pc EXCEPT ![e] = "sending"]
            /\ claimed' = claimed \cup {e}
       ELSE Goto(e, "done")
  /\ UNCHANGED <<disk, at, part, todo, rewrites, outside>>

(* A wrong variant of NextPart: the next attempt goes on behind the last.  *)
NotReset(n) == n + 1

(* The payload to send after this one; an attempt begins with the first. *)
NextPart(n) == IF n + 1 = Parts THEN 0 ELSE n + 1

(* The next payload reaches the recipient and the sender learns of it. *)
PartArrives(s) ==
  /\ pc[s] = "sending"
  /\ received' = [received EXCEPT ![at[s]] = @ \cup {part[s] + 1}]
  /\ part' = [part EXCEPT ![s] = NextPart(part[s])]
  /\ Goto(s, IF part[s] + 1 = Parts THEN "acking" ELSE "sending")
  /\ UNCHANGED <<disk, at, todo, rewrites, aborted, crashes, faults>>

(* A wrong variant of SendThrows: the acknowledgement is in a finally. *)
AckedAnyway(s) ==
  /\ pc[s] = "sending"
  /\ part' = [part EXCEPT ![s] = 0]
  /\ Goto(s, "acking")
  /\ UNCHANGED <<disk, at, todo, rewrites, outside>>

(* The send throws, whether or not the payload reached the recipient.  A   *)
(* replay parks what cannot ever succeed; a notice tries again or gives up.*)
SendThrows(s) ==
  /\ pc[s] = "sending"
  /\ \/ received' = received
     \/ received' = [received EXCEPT ![at[s]] = @ \cup {part[s] + 1}]
  /\ part' = [part EXCEPT ![s] = 0]
  /\ \/ Goto(s, "failing")
     \/ s \in Drainers /\ Goto(s, "moving")
     \/ s \in Notices /\ Goto(s, "sending")
  /\ UNCHANGED <<disk, at, todo, rewrites, aborted, crashes, faults>>

(* throwIfAborted: the caller of a live send no longer wants the message.  *)
Abort(e) ==
  /\ e \notin Notices
  /\ pc[e] = "sending"
  /\ part' = [part EXCEPT ![e] = 0]
  /\ Goto(e, "aborting")
  /\ UNCHANGED <<disk, at, todo, rewrites, outside>>

-----------------------------------------------------------------------------
(* The file operations, each step up to its next await.                    *)

(* ackDelivery, first the rename, then the unlink of the marker.  When the *)
(* file is not there, only the second.                                     *)
AckRename(s) ==
  /\ pc[s] \in {"acking", "aborting"}
  /\ retries' = [retries EXCEPT ![at[s]] = Gone]
  /\ markers' = IF Queued(at[s]) THEN markers \cup {at[s]} ELSE markers
  /\ aborted' = IF pc[s] = "aborting" /\ Queued(at[s]) THEN aborted \cup {at[s]} ELSE aborted
  /\ Goto(s, "unlinking")
  /\ UNCHANGED <<age, failed, cooling, clock, at, part, todo, rewrites,
                 received, crashes, faults>>

AckUnlink(s) ==
  /\ pc[s] = "unlinking"
  /\ markers' = markers \ {at[s]}
  /\ EndAttempt(s)
  /\ UNCHANGED <<retries, age, failed, cooling, clock, at, part, todo, rewrites, outside>>

(* The rename fails.  Live sends ignore it; a replay takes it for a failed *)
(* attempt.                                                                *)
AckFails(s) ==
  /\ pc[s] \in {"acking", "aborting"}
  /\ Queued(at[s])
  /\ faults < MaxFaults
  /\ faults' = faults + 1
  /\ IF s \in Drainers THEN Goto(s, "failing") ELSE EndAttempt(s)
  /\ UNCHANGED <<disk, at, part, todo, rewrites, received, aborted, crashes>>

(* failDelivery reads the entry, then writes it with one more retry.  Only *)
(* the comparison with MaxRetries looks at the count, so it saturates.     *)
FailRead(s) ==
  /\ pc[s] = "failing"
  /\ IF Queued(at[s])
       THEN /\ rewrites' = rewrites \cup {<<s, at[s], retries[at[s]]>>}
            /\ Goto(s, "rewriting")
       ELSE EndAttempt(s) /\ UNCHANGED rewrites
  /\ UNCHANGED <<disk, at, part, todo, outside>>

(* A wrong variant of Bumped: failures and deferrals are not counted. *)
NotBumped(count) == count

Bumped(count) == IF count > MaxRetries THEN count ELSE count + 1

Rewrite(w) ==
  /\ retries' = [retries EXCEPT ![w[2]] = Bumped(w[3])]
  /\ cooling' = cooling \cup {w[2]}
  /\ rewrites' = rewrites \ {w}
  /\ UNCHANGED <<age, markers, failed, clock, at, part, todo, outside>>

FailWrite(s) ==
  /\ pc[s] = "rewriting"
  /\ \E w \in rewrites : w[1] = s /\ Rewrite(w)
  /\ EndAttempt(s)

(* moveToFailed; when the file is not there, it is already gone. *)
MoveToFailed(s) ==
  /\ pc[s] = "moving"
  /\ retries' = [retries EXCEPT ![at[s]] = Gone]
  /\ failed' = IF Queued(at[s]) THEN failed \cup {at[s]} ELSE failed
  /\ EndAttempt(s)
  /\ UNCHANGED <<age, markers, cooling, clock, at, part, todo, rewrites, outside>>

-----------------------------------------------------------------------------
(* recoverPendingDeliveries and drainPendingDeliveries.                    *)

(* loadPendingDeliveries: markers are cleaned up, the entries on disk (and *)
(* selected) make the snapshot.  A key has one drain at a time.            *)
Scan(d) ==
  /\ pc[d] = "idle"
  /\ markers' = {}
  /\ LET found == {e \in IF d \in Reconnects THEN Selects[d] ELSE Entries : Queued(e)}
     IN  /\ todo' = [todo EXCEPT ![d] = found]
         /\ Goto(d, IF found = {} THEN "idle" ELSE "next")
  /\ at' = [at EXCEPT ![d] = None]
  /\ UNCHANGED <<retries, age, failed, cooling, clock, part, rewrites, outside>>

Oldest(e, S) == e \in S /\ \A f \in S : age[e] <= age[f]

ScanEnds(d) ==
  /\ pc[d] = "next"
  /\ todo[d] = {}
  /\ Goto(d, "idle")
  /\ UNCHANGED <<disk, at, part, todo, rewrites, outside>>

Claim(d) ==
  /\ pc[d] = "next"
  /\ \E e \in todo[d] :
       /\ Oldest(e, todo[d])
       /\ todo' = [todo EXCEPT ![d] = @ \ {e}]
       /\ IF Free(e)
            THEN /\ at' = [at EXCEPT ![d] = e]
                 /\ pc' = [pc EXCEPT ![d] = "claimed"]
                 /\ claimed' = claimed \cup {e}
            ELSE UNCHANGED <<at, pc, claimed>>
  /\ UNCHANGED <<disk, part, rewrites, outside>>

(* The entry is read again once it is claimed.  The file operations this   *)
(* takes leave a live send, runnable since the file was written, the time  *)
(* to find the claim taken and withdraw, unless the process is stalled.    *)
Reread(d) ==
  /\ pc[d] = "claimed"
  /\ Prompt => pc[at[d]] # "enqueued"

(* It is left alone when it is gone or rests. *)
Pass(d) ==
  /\ Reread(d)
  /\ \/ ~Queued(at[d])
     \/ Queued(at[d]) /\ retries[at[d]] < MaxRetries /\ at[d] \in cooling
  /\ EndAttempt(d)
  /\ UNCHANGED <<disk, at, part, todo, rewrites, outside>>

GiveUp(d) ==
  /\ Reread(d)
  /\ Queued(at[d])
  /\ retries[at[d]] >= MaxRetries
  /\ Goto(d, "moving")
  /\ UNCHANGED <<disk, at, part, todo, rewrites, outside>>

(* A wrong variant of Replay: what the scan found is sent, still on disk or not. *)
ReplaysSnapshot(d) ==
  /\ Reread(d)
  /\ retries[at[d]] < MaxRetries
  /\ Goto(d, "sending")
  /\ UNCHANGED <<disk, at, part, todo, rewrites, outside>>

(* A drain may be told to bypass the backoff. *)
Replay(d) ==
  /\ Reread(d)
  /\ Queued(at[d])
  /\ retries[at[d]] < MaxRetries
  /\ at[d] \notin cooling \/ d \in Reconnects
  /\ Goto(d, "sending")
  /\ UNCHANGED <<disk, at, part, todo, rewrites, outside>>

(* deferRemainingEntriesForBudget calls failDelivery for the rest of the   *)
(* snapshot, all at once and without claims.  The budget is not spent when *)
(* the first entry is looked at.                                           *)
Defer(d) ==
  /\ Budgeted
  /\ d \in Recoveries
  /\ pc[d] = "next"
  /\ at[d] # None
  /\ todo[d] # {}
  /\ Goto(d, "deferring")
  /\ UNCHANGED <<disk, at, part, todo, rewrites, outside>>

DeferRead(d) ==
  /\ pc[d] = "deferring"
  /\ \E e \in todo[d] :
       /\ todo' = [todo EXCEPT ![d] = @ \ {e}]
       /\ rewrites' = IF Queued(e) THEN rewrites \cup {<<d, e, retries[e]>>} ELSE rewrites
  /\ UNCHANGED <<disk, claimed, pc, at, part, outside>>

DeferWrite(d) ==
  /\ pc[d] = "deferring"
  /\ \E w \in rewrites : w[1] = d /\ Rewrite(w)
  /\ UNCHANGED <<claimed, pc>>

DeferEnds(d) ==
  /\ pc[d] = "deferring"
  /\ todo[d] = {}
  /\ \A w \in rewrites : w[1] # d
  /\ Goto(d, "idle")
  /\ UNCHANGED <<disk, at, part, todo, rewrites, outside>>

-----------------------------------------------------------------------------
(* The backoff of an entry has elapsed. *)
Elapse(e) ==
  /\ e \in cooling
  /\ cooling' = cooling \ {e}
  /\ UNCHANGED <<retries, age, markers, failed, clock, claimed, pc, at, part, todo, rewrites,
                 outside>>

(* The gateway dies and is started again: only what is on disk remains.    *)
Crash ==
  /\ crashes < MaxCrashes
  /\ crashes' = crashes + 1
  /\ claimed' = {}
  /\ pc' = [s \in Senders |-> IF s \in Entries /\ pc[s] # "idle" THEN "done" ELSE "idle"]
  /\ at' = [s \in Senders |-> IF s \in Entries THEN s ELSE None]
  /\ part' = [s \in Senders |-> 0]
  /\ todo' = [d \in Drainers |-> {}]
  /\ rewrites' = {}
  /\ UNCHANGED <<disk, received, aborted, faults>>

-----------------------------------------------------------------------------
Attempt(s) ==
  \/ PartArrives(s) \/ SendThrows(s)
  \/ AckRename(s) \/ AckUnlink(s) \/ AckFails(s)
  \/ FailRead(s) \/ FailWrite(s) \/ MoveToFailed(s)

Live(e) == StartLive(e) \/ Attempt(e)

Drain(d) ==
  \/ ScanEnds(d) \/ Claim(d) \/ Pass(d) \/ GiveUp(d) \/ Replay(d) \/ Attempt(d)
  \/ DeferRead(d) \/ DeferWrite(d) \/ DeferEnds(d)

Next ==
  \/ \E e \in Entries : Enqueue(e) \/ EnqueueFails(e) \/ Live(e) \/ Abort(e) \/ Elapse(e)
  \/ \E d \in Drainers : Scan(d) \/ Drain(d) \/ Defer(d)
  \/ Crash

Spec == Init /\ [][Next]_vars

(* Sends and file operations end and time passes.  That recovery is run    *)
(* again and again (the gateway restarts) is not the code's doing: what    *)
(* follows from it is what a restarted gateway can rely on.                *)
FairSpec ==
  /\ Spec
  /\ \A e \in Entries : WF_vars(Live(e)) /\ WF_vars(Elapse(e))
  /\ \A d \in Drainers : WF_vars(Drain(d))
  /\ \A d \in Recoveries : WF_vars(Scan(d))

-----------------------------------------------------------------------------
(* Properties. *)

Holding == {"sending", "acking", "aborting", "unlinking", "failing", "rewriting", "moving"}

TypeOK ==
  /\ retries \in [Entries -> Nat \cup {Gone}]
  /\ age \in [Entries -> Nat]
  /\ markers \subseteq Entries
  /\ failed \subseteq Entries
  /\ cooling \subseteq Entries
  /\ claimed \subseteq Entries
  /\ pc \in [Senders -> Holding \cup {"idle", "enqueued", "done", "next", "claimed", "deferring"}]
  /\ at \in [Senders -> Entries \cup {None}]
  /\ part \in [Senders -> 0..(Parts - 1)]
  /\ todo \in [Drainers -> SUBSET Entries]
  /\ rewrites \subseteq Senders \X Entries \X Nat
  /\ received \in [Entries -> SUBSET (1..Parts)]
  /\ aborted \subseteq Entries
  /\ clock \in Nat /\ crashes \in Nat /\ faults \in Nat

(* The sender works on its entry under the claim. *)
Holds(s) == pc[s] \in Holding \cup {"claimed"} /\ s \notin Notices

(* "Hold the same in-process claim used by recovery/drain while the live   *)
(* send owns this queue entry": no entry is in the hands of two senders.   *)
OneOwner ==
  \A s, t \in Senders : (Holds(s) /\ Holds(t) /\ at[s] = at[t]) => s = t

(* A claim is held as long as its owner works and not longer: one left     *)
(* behind would hide its entry from every scan until the process ends.     *)
ClaimsExact == claimed = {at[s] : s \in {t \in Senders : Holds(t)}}

(* No crash, error, abort or race of senders loses a message that was put  *)
(* on disk: it is queued, parked in failed/, aborted, or all of it arrived.*)
NotLost ==
  \A e \in Entries :
    age[e] # 0 => Queued(e) \/ e \in failed \/ e \in aborted \/ received[e] = 1..Parts

(* The queue implements its promise. *)
Standing(e) ==
  IF age[e] = 0 THEN "new" ELSE IF Queued(e) THEN "owed"
  ELSE IF e \in failed THEN "parked" ELSE IF e \in aborted THEN "aborted"
  ELSE "delivered"

InFlight == {at[s] : s \in {t \in Senders : pc[t] = "sending"}}

Promise ==
  INSTANCE AtLeastOnce WITH
    Parts <- 1..Parts,
    state <- [e \in Entries |-> Standing(e)],
    sending <- InFlight

KeepsPromise == Promise!Spec

(* "entries that are repeatedly deferred by the recovery budget eventually *)
(* hit MAX_RETRIES and get pruned", and so do those that fail or are cut   *)
(* short by a crash: if recovery runs often enough, every entry leaves.    *)
Pruned == \A e \in Entries : Queued(e) ~> ~Queued(e)
=============================================================================

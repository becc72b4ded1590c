-------------------------- MODULE CronServiceProofs --------------------------
(***************************************************************************)
(* Theorems about the cron service: the types, that the marker keeps the   *)
(* runs of a job apart, that no marker is left behind, that a finished     *)
(* one-shot job is not run again, that no due slot is lost and that the    *)
(* scheduler keeps its timer.                                              *)
(*                                                                         *)
(* All but the last rest on Inv. For each job it relates the runs that     *)
(* hold it to both copies of the store: a job somebody holds is known to   *)
(* both (Remembered); unless its marker was given up one actor holds it    *)
(* and both copies are marked, or say that it was deleted meanwhile        *)
(* (Marked); what has ended well is disabled in both (Finished) and in no  *)
(* batch that is still to start (NoneWaits); and while no write fails each *)
(* marker is somebody's (Owned) and the copies agree but for markers and   *)
(* slots that are missing (Synced). A section is one of a few kinds of     *)
(* step for a job that it does not, or does, hold: FrameStep to            *)
(* FailedStep say once for each kind why the invariant of the job stays.   *)
(***************************************************************************)
EXTENDS CronService, FiniteSetTheorems, SequenceTheorems, TLAPS

Runners == {"tick", "boot"}

Actors == Runners \cup ManualRuns

(* What a job of the store holds at time t. *)
JobType(t) ==
  {r \in [stored : BOOLEAN, enabled : BOOLEAN, next : Nat \cup {Unset}, running : Unset..t, last : Unset..t,
          status : {"none", "ok", "skipped", "error"}, errors : 0..(MaxAttempts + 1)] :
     r.enabled => r.stored}

-----------------------------------------------------------------------------
(* The schedule. *)

LEMMA SlotType ==
  ASSUME NEW j \in Jobs, NEW t \in Nat
  PROVE  Slot(j, t) \in Nat
<1> DEFINE p == Period[j]
<1>1. p \in Nat /\ p > 0
  BY CronAssumption
<1> HIDE DEF p
<1>2. \A x \in Nat : x \div p \in Nat
  BY <1>1
<1>3. \A x \in Nat : p * x \in Nat
  BY <1>1
<1>4. p * (t \div p + 1) \in Nat
  BY <1>1, <1>2, <1>3
<1>5. t + p - 1 \in Nat
  BY <1>1
<1>6. p * ((t + p - 1) \div p) \in Nat
  BY <1>2, <1>3, <1>5
<1> QED
  BY <1>1, <1>4, <1>6 DEF Slot, Greater, p

LEMMA Quotient ==
  ASSUME NEW p \in Nat, p > 0, NEW t \in Nat
  PROVE  /\ t \div p \in Nat
         /\ p * (t \div p) <= t /\ t < p * (t \div p + 1)
<1>1. t \div p \in Nat /\ t = p * (t \div p) + (t % p) /\ t % p \in 0..(p - 1)
  OBVIOUS
<1> DEFINE q == t \div p
<1>2. q \in Int
  BY <1>1
<1> HIDE DEF q
<1>3. p * (q + 1) = p * q + p
  BY <1>2
<1> QED
  BY <1>1, <1>3 DEF q

LEMMA Monotonic ==
  ASSUME NEW p \in Nat, NEW a \in Nat, NEW b \in Nat, a <= b
  PROVE  p * a <= p * b
<1>1. PICK d \in Nat : b = a + d
  <2>1. b - a \in Nat /\ b = a + (b - a)
    OBVIOUS
  <2> QED
    BY <2>1
<1>2. p * b = p * a + p * d /\ p * d \in Nat /\ p * a \in Nat
  BY <1>1
<1> QED
  BY <1>2

(* computeNextRunAtMs skips no slot and gives none that is past: a cron    *)
(* job gets the first multiple of its period after t, and a job that runs  *)
(* every so often the first one, of its anchor's positive multiples, that  *)
(* is not before t.                                                        *)
THEOREM SlotIsNext ==
  \A j \in Jobs, t \in Nat :
    /\ KindOf[j] = "cron" =>
         /\ Slot(j, t) > t /\ \E n \in Nat : Slot(j, t) = Period[j] * n
         /\ \A n \in Nat : Period[j] * n > t => Slot(j, t) <= Period[j] * n
    /\ KindOf[j] = "every" =>
         /\ Slot(j, t) >= t /\ \E n \in Nat \ {0} : Slot(j, t) = Period[j] * n
         /\ \A n \in Nat \ {0} : Period[j] * n >= t => Slot(j, t) <= Period[j] * n
<1> SUFFICES ASSUME NEW j \in Jobs, NEW t \in Nat
             PROVE  /\ KindOf[j] = "cron" =>
                         /\ Slot(j, t) > t /\ \E n \in Nat : Slot(j, t) = Period[j] * n
                         /\ \A n \in Nat : Period[j] * n > t => Slot(j, t) <= Period[j] * n
                    /\ KindOf[j] = "every" =>
                         /\ Slot(j, t) >= t /\ \E n \in Nat \ {0} : Slot(j, t) = Period[j] * n
                         /\ \A n \in Nat \ {0} : Period[j] * n >= t => Slot(j, t) <= Period[j] * n
  OBVIOUS
<1> DEFINE p == Period[j]
<1>1. p \in Nat /\ p > 0
  BY CronAssumption
<1>2. \A n \in Nat : p * n \in Nat
  BY <1>1
<1>3. CASE KindOf[j] = "cron"
  <2> DEFINE q == t \div p
  <2>1. q \in Nat /\ p * q <= t /\ t < p * (q + 1)
    <3> HIDE DEF p
    <3> QED
      BY <1>1, Quotient
  <2>2. Slot(j, t) = p * (q + 1)
    BY <1>3 DEF Slot
  <2> HIDE DEF p, q
  <2>3. ASSUME NEW n \in Nat, p * n > t
        PROVE  p * (q + 1) <= p * n
    <3>1. ~(n <= q)
      <4>1. n <= q => p * n <= p * q
        BY <1>1, <2>1, Monotonic
      <4>2. p * n \in Nat /\ p * q \in Nat
        BY <1>2, <2>1
      <4> QED
        BY <2>1, <2>3, <4>1, <4>2
    <3>2. q + 1 <= n /\ q + 1 \in Nat
      BY <2>1, <3>1
    <3> QED
      BY <1>1, <3>2, Monotonic
  <2>4. q + 1 \in Nat
    BY <2>1
  <2> QED
    BY <1>3, <2>1, <2>2, <2>3, <2>4 DEF p
<1>4. CASE KindOf[j] = "every"
  <2> DEFINE q == (t + p - 1) \div p
             u == Greater(p, p * q)
  <2>0. t + p - 1 \in Nat
    BY <1>1
  <2>1. q \in Nat /\ p * q <= t + p - 1 /\ t + p - 1 < p * (q + 1)
    <3> HIDE DEF p
    <3> QED
      BY <1>1, <2>0, Quotient
  <2>2. Slot(j, t) = u
    BY <1>4 DEF Slot
  <2> HIDE DEF p, q
  <2>3. p * q \in Nat /\ p * (q + 1) = p * q + p
    BY <1>1, <1>2, <2>1
  <2>4. t <= p * q
    BY <1>1, <2>1, <2>3
  <2>5. u >= t /\ u \in {p, p * q} /\ u >= p
    BY <1>1, <2>3, <2>4 DEF Greater
  <2>6. \E n \in Nat \ {0} : u = p * n
    <3>1. CASE q = 0
      <4>1. p * q = 0
        BY <1>1, <3>1
      <4>2. u = p * 1
        BY <1>1, <2>5, <4>1
      <4> QED
        BY <4>2
    <3>2. CASE q # 0
      <4>1. u = p * 1 \/ u = p * q
        BY <1>1, <2>5
      <4> QED
        BY <2>1, <3>2, <4>1
    <3> QED
      BY <3>1, <3>2
  <2>7. ASSUME NEW n \in Nat \ {0}, p * n >= t
        PROVE  u <= p * n
    <3>1. q <= n
      <4>1. SUFFICES ASSUME n + 1 <= q
                     PROVE  FALSE
        BY <2>1
      <4>2. p * (n + 1) <= p * q /\ p * (n + 1) = p * n + p /\ p * n \in Nat
        BY <1>1, <1>2, <2>1, <4>1, Monotonic
      <4> QED
        BY <1>1, <2>1, <2>3, <2>7, <4>2
    <3>2. p * q <= p * n
      BY <1>1, <2>1, <3>1, Monotonic
    <3>3. p * 1 <= p * n
      BY <1>1, Monotonic
    <3> QED
      BY <1>1, <2>5, <3>2, <3>3
  <2> HIDE DEF u
  <2> QED
    BY <1>4, <2>2, <2>5, <2>6, <2>7 DEF p
<1> QED
  BY <1>3, <1>4

LEMMA NextRunType ==
  ASSUME NEW j \in Jobs, NEW t \in Nat, NEW r, r.enabled \in BOOLEAN, r.last \in Int, r.last >= Unset
  PROVE  NextRun(r, j, t) \in Nat \cup {Unset}
<1>1. Period[j] \in Nat /\ KindOf[j] \in {"every", "at", "cron"}
  BY CronAssumption
<1>2. Slot(j, t) \in Nat
  BY SlotType
<1> QED
  BY <1>1, <1>2 DEF NextRun, Unset

(* Only the slot of the job changes. *)
LEMMA RecomputedFields ==
  ASSUME NEW j \in Jobs, NEW t \in Nat, NEW T \in Nat, NEW r \in JobType(T)
  PROVE  LET d == Recomputed(r, j, t)
         IN  /\ d \in JobType(T)
             /\ d.stored = r.stored /\ d.enabled = r.enabled /\ d.running = r.running
             /\ d.last = r.last /\ d.status = r.status
<1> DEFINE n == NextRun(r, j, t)
           e == IF KindOf[j] # "at" /\ r.status = "error" /\ r.last # Unset /\ n # Unset
                THEN Greater(n, r.last + Backoff) ELSE n
<1>1. n \in Nat \cup {Unset}
  BY NextRunType DEF JobType, Unset
<1> HIDE DEF n
<1>2. e \in Nat \cup {Unset}
  BY <1>1, CronAssumption DEF Greater, JobType, Unset
<1>3. Recomputed(r, j, t) = [r EXCEPT !.next = e]
  BY DEF Recomputed, n
<1> HIDE DEF e
<1> QED
  BY <1>2, <1>3 DEF JobType

LEMMA NormalizedFields ==
  ASSUME NEW t \in Nat, NEW T \in Nat, NEW r \in JobType(T)
  PROVE  LET d == Normalized(r, t)
         IN  /\ d \in JobType(T)
             /\ d.stored = r.stored /\ d.enabled = r.enabled /\ d.last = r.last /\ d.status = r.status
             /\ d.running \in {r.running, Unset}
             /\ d.next = IF r.enabled THEN r.next ELSE Unset
<1> DEFINE n == IF r.enabled THEN r.next ELSE Unset
           g == IF ~r.enabled \/ (r.running # Unset /\ t - r.running > Stuck) THEN Unset ELSE r.running
<1>1. Normalized(r, t) = [[r EXCEPT !.next = n] EXCEPT !.running = g]
  BY DEF Normalized, JobType
<1>2. n \in Nat \cup {Unset} /\ g \in Unset..T /\ g \in {r.running, Unset}
  BY DEF JobType, Unset
<1> HIDE DEF g
<1>3. n = IF r.enabled THEN r.next ELSE Unset
  OBVIOUS
<1> HIDE DEF n
<1> QED
  BY <1>1, <1>2, <1>3 DEF JobType

(* What repairs a store keeps all of a job but its slot, and its marker    *)
(* unless it takes it away for good.                                       *)
Repairs(s, d, cleared) ==
  \A j \in Jobs :
    /\ d[j].stored = s[j].stored /\ d[j].enabled = s[j].enabled
    /\ d[j].last = s[j].last /\ d[j].status = s[j].status
    /\ d[j].running = s[j].running \/ (d[j].running = Unset /\ j \in cleared)

LEMMA MaintainedType ==
  ASSUME NEW t \in Nat, NEW T \in Nat, NEW s \in [Jobs -> JobType(T)], NEW expired \in BOOLEAN
  PROVE  Maintained(s, t, expired) \in [Jobs -> JobType(T)]
<1> SUFFICES ASSUME NEW j \in Jobs
             PROVE  Maintained(s, t, expired)[j] \in JobType(T)
  BY DEF Maintained
<1> DEFINE r == Normalized(s[j], t)
<1>1. r \in JobType(T)
  BY NormalizedFields
<1>2. Recomputed(r, j, t) \in JobType(T)
  BY <1>1, RecomputedFields
<1>3. Maintained(s, t, expired)[j] \in {s[j], r, Recomputed(r, j, t)}
  BY DEF Maintained
<1> QED
  BY <1>1, <1>2, <1>3

(* A slot that is there is moved only when it is past and a run has begun  *)
(* since.                                                                  *)
LEMMA MaintainedFields ==
  ASSUME NEW t \in Nat, NEW T \in Nat, NEW s \in [Jobs -> JobType(T)], NEW expired \in BOOLEAN
  PROVE  /\ Repairs(s, Maintained(s, t, expired), Cleared(s, t))
         /\ \A j \in Jobs :
              s[j].enabled /\ s[j].next # Unset /\ Maintained(s, t, expired)[j].next # s[j].next =>
                expired /\ s[j].last >= s[j].next
<1> SUFFICES ASSUME NEW j \in Jobs
             PROVE  LET d == Maintained(s, t, expired)[j]
                    IN  /\ d.stored = s[j].stored /\ d.enabled = s[j].enabled
                        /\ d.last = s[j].last /\ d.status = s[j].status
                        /\ d.running = s[j].running \/ (d.running = Unset /\ j \in Cleared(s, t))
                        /\ s[j].enabled /\ s[j].next # Unset /\ d.next # s[j].next =>
                             expired /\ s[j].last >= s[j].next
  BY DEF Repairs
<1> DEFINE r == Normalized(s[j], t)
           d == Maintained(s, t, expired)[j]
           used == /\ expired /\ r.next # Unset /\ r.next <= t /\ r.running = Unset
                   /\ r.last # Unset /\ r.last >= r.next
           again == r.enabled /\ (r.next = Unset \/ used)
<1>1. /\ r \in JobType(T)
      /\ r.stored = s[j].stored /\ r.enabled = s[j].enabled /\ r.last = s[j].last /\ r.status = s[j].status
      /\ r.running \in {s[j].running, Unset}
      /\ r.next = IF s[j].enabled THEN s[j].next ELSE Unset
  BY NormalizedFields
<1>2. /\ Recomputed(r, j, t).stored = r.stored /\ Recomputed(r, j, t).enabled = r.enabled
      /\ Recomputed(r, j, t).running = r.running
      /\ Recomputed(r, j, t).last = r.last /\ Recomputed(r, j, t).status = r.status
  BY <1>1, RecomputedFields
<1>3. d = IF ~s[j].stored THEN s[j] ELSE IF again THEN Recomputed(r, j, t) ELSE r
  BY DEF Maintained
<1>4. s[j].stored /\ s[j].running # Unset /\ r.running = Unset => j \in Cleared(s, t)
  BY DEF Cleared
<1>5. s[j] \in JobType(T) /\ (s[j].enabled => s[j].stored)
  BY DEF JobType
<1>6. again => r.enabled /\ (r.next = Unset \/ (expired /\ r.last >= r.next))
  OBVIOUS
<1> HIDE DEF r, d, again
<1>7. d.stored = s[j].stored /\ d.enabled = s[j].enabled /\ d.last = s[j].last /\ d.status = s[j].status
  BY <1>1, <1>2, <1>3
<1>8. d.running = s[j].running \/ (d.running = Unset /\ j \in Cleared(s, t))
  BY <1>1, <1>2, <1>3, <1>4
<1>9. s[j].enabled /\ s[j].next # Unset /\ d.next # s[j].next => expired /\ s[j].last >= s[j].next
  BY <1>1, <1>3, <1>5, <1>6
<1> QED
  BY <1>7, <1>8, <1>9 DEF d

LEMMA AllRecomputedFields ==
  ASSUME NEW t \in Nat, NEW T \in Nat, NEW s \in [Jobs -> JobType(T)]
  PROVE  /\ AllRecomputed(s, t) \in [Jobs -> JobType(T)]
         /\ Repairs(s, AllRecomputed(s, t), Cleared(s, t))
<1> SUFFICES ASSUME NEW j \in Jobs
             PROVE  LET d == AllRecomputed(s, t)[j]
                    IN  /\ d \in JobType(T)
                        /\ d.stored = s[j].stored /\ d.enabled = s[j].enabled
                        /\ d.last = s[j].last /\ d.status = s[j].status
                        /\ d.running = s[j].running \/ (d.running = Unset /\ j \in Cleared(s, t))
  BY DEF Repairs, AllRecomputed
<1> DEFINE r == Normalized(s[j], t)
           d == AllRecomputed(s, t)[j]
<1>1. /\ r \in JobType(T)
      /\ r.stored = s[j].stored /\ r.enabled = s[j].enabled /\ r.last = s[j].last /\ r.status = s[j].status
      /\ r.running \in {s[j].running, Unset}
  BY NormalizedFields
<1>2. /\ Recomputed(r, j, t) \in JobType(T)
      /\ Recomputed(r, j, t).stored = r.stored /\ Recomputed(r, j, t).enabled = r.enabled
      /\ Recomputed(r, j, t).running = r.running
      /\ Recomputed(r, j, t).last = r.last /\ Recomputed(r, j, t).status = r.status
  BY <1>1, RecomputedFields
<1>3. d = s[j] \/ (s[j].stored /\ d \in {r, Recomputed(r, j, t)})
  BY DEF AllRecomputed
<1>4. s[j].stored /\ s[j].running # Unset /\ r.running = Unset => j \in Cleared(s, t)
  BY DEF Cleared
<1> HIDE DEF r, d
<1> QED
  BY <1>1, <1>2, <1>3, <1>4 DEF d

-----------------------------------------------------------------------------
(* The end of a run. *)

LEMMA EndedFields ==
  ASSUME NEW T \in Nat, NEW r \in JobType(T), NEW outcome, NEW from \in Unset..T
  PROVE  /\ Ended(r, outcome, from) \in JobType(T)
         /\ Ended(r, outcome, from).stored = r.stored /\ Ended(r, outcome, from).enabled = r.enabled
         /\ Ended(r, outcome, from).running = Unset
<1> DEFINE st == IF outcome \in {"ok", "skipped"} THEN outcome ELSE "error"
           er == IF outcome \in {"ok", "skipped"} THEN 0
                 ELSE IF r.errors <= MaxAttempts THEN r.errors + 1 ELSE r.errors
<1>0. r = [stored |-> r.stored, enabled |-> r.enabled, next |-> r.next, running |-> r.running,
           last |-> r.last, status |-> r.status, errors |-> r.errors]
  BY DEF JobType
<1>1. Ended(r, outcome, from) = [r EXCEPT !.running = Unset, !.last = from, !.status = st, !.errors = er]
  BY Zenon DEF Ended
<1>2. st \in {"none", "ok", "skipped", "error"} /\ er \in 0..(MaxAttempts + 1)
  BY CronAssumption DEF JobType
<1> HIDE DEF st, er
<1>3. Ended(r, outcome, from) =
        [stored |-> r.stored, enabled |-> r.enabled, next |-> r.next, running |-> Unset,
         last |-> from, status |-> st, errors |-> er]
  BY <1>0, <1>1
<1> QED
  BY <1>2, <1>3 DEF JobType, Unset

(* A record that is in the store, or of a job that was deleted by its run  *)
(* or an edit; and one that says a run holds the job.                      *)
Known(r) == r.stored \/ r.status = "ok"

Held(r) == IF r.stored THEN r.running # Unset ELSE r.status = "ok"

LEMMA AppliedFields ==
  ASSUME NEW T \in Nat, NEW j \in Jobs, NEW r \in JobType(T), NEW outcome \in Outcomes,
         NEW from \in Unset..T, NEW to \in 0..T, NEW preserve \in BOOLEAN, r.stored
  PROVE  LET d == Applied(r, j, outcome, from, to, preserve)
         IN  /\ d \in JobType(T)
             /\ Known(d) /\ d.running = Unset
             /\ d.enabled => r.enabled
             /\ KindOf[j] = "at" /\ outcome = "ok" => ~d.enabled
<1>0. /\ Ended(r, outcome, from) \in JobType(T)
      /\ Ended(r, outcome, from).stored = r.stored /\ Ended(r, outcome, from).enabled = r.enabled
      /\ Ended(r, outcome, from).running = Unset
  BY EndedFields
<1> DEFINE e == Ended(r, outcome, from)
           x == IF preserve /\ KindOf[j] = "every" THEN [e EXCEPT !.last = r.last] ELSE e
           natural == NextRun(x, j, to)
           lower == IF outcome \in {"ok", "skipped"} THEN to + 1 ELSE to + Backoff
           n == IF outcome \in {"transient", "permanent"} \/ KindOf[j] = "cron"
                THEN Greater(natural, lower) ELSE natural
           d == Applied(r, j, outcome, from, to, preserve)
<1>1. e \in JobType(T) /\ e.stored = r.stored /\ e.enabled = r.enabled /\ e.running = Unset
  BY <1>0
<1>2. KindOf[j] \in {"every", "at", "cron"} /\ outcome \in {"ok", "skipped", "transient", "permanent"}
  BY CronAssumption
<1>3. natural \in Nat \cup {Unset}
  <2> HIDE DEF e
  <2>1. x.enabled \in BOOLEAN /\ x.last \in Int /\ x.last >= Unset
    BY <1>1 DEF JobType, Unset
  <2> HIDE DEF x
  <2> QED
    BY <2>1, NextRunType
<1>4. lower \in Nat /\ to + Backoff \in Nat
  BY CronAssumption
<1>5. n \in Nat \cup {Unset}
  <2> HIDE DEF natural, lower
  <2> QED
    BY <1>3, <1>4 DEF Greater, Unset
<1>6. \/ d = [Absent EXCEPT !.status = "ok"] /\ KindOf[j] = "at"
      \/ d = [e EXCEPT !.next = to + Backoff] /\ ~(KindOf[j] = "at" /\ outcome = "ok")
      \/ d = [e EXCEPT !.enabled = FALSE, !.next = Unset]
      \/ d = [e EXCEPT !.next = Unset] /\ ~r.enabled
      \/ d = [e EXCEPT !.next = n] /\ KindOf[j] # "at"
  <2> HIDE DEF e
  <2>1. d = CASE KindOf[j] = "at" /\ outcome = "ok" /\ j \in DeleteAfterRun -> [Absent EXCEPT !.status = "ok"]
              [] KindOf[j] = "at" /\ outcome = "transient" /\ e.errors <= MaxAttempts ->
                   [e EXCEPT !.next = to + Backoff]
              [] KindOf[j] = "at" /\ ~(outcome = "ok" /\ j \in DeleteAfterRun)
                   /\ ~(outcome = "transient" /\ e.errors <= MaxAttempts) ->
                   [e EXCEPT !.enabled = FALSE, !.next = Unset]
              [] KindOf[j] # "at" /\ ~r.enabled -> [e EXCEPT !.next = Unset]
              [] KindOf[j] # "at" /\ r.enabled /\ outcome \in {"transient", "permanent"} ->
                   [e EXCEPT !.next = Greater(natural, lower)]
              [] KindOf[j] # "at" /\ r.enabled /\ outcome \in {"ok", "skipped"} ->
                   [e EXCEPT !.next = IF KindOf[j] = "cron" THEN Greater(natural, lower) ELSE natural]
    BY DEF Applied, Off, e
  <2> DEFINE a1 == [Absent EXCEPT !.status = "ok"]
             a2 == [e EXCEPT !.next = to + Backoff]
             a3 == [e EXCEPT !.enabled = FALSE, !.next = Unset]
             a4 == [e EXCEPT !.next = Unset]
             a5 == [e EXCEPT !.next = Greater(natural, lower)]
             a6 == [e EXCEPT !.next = IF KindOf[j] = "cron" THEN Greater(natural, lower) ELSE natural]
             a7 == [e EXCEPT !.next = n]
             soft == outcome = "transient" /\ e.errors <= MaxAttempts
  <2>2. (outcome \in {"transient", "permanent"} => a5 = a7) /\ (outcome \in {"ok", "skipped"} => a6 = a7)
    BY <1>2
  <2> HIDE DEF a1, a2, a3, a4, a5, a6, a7, d, n, natural, lower
  <2>3. d = CASE KindOf[j] = "at" /\ outcome = "ok" /\ j \in DeleteAfterRun -> a1
              [] KindOf[j] = "at" /\ outcome = "transient" /\ e.errors <= MaxAttempts -> a2
              [] KindOf[j] = "at" /\ ~(outcome = "ok" /\ j \in DeleteAfterRun)
                   /\ ~(outcome = "transient" /\ e.errors <= MaxAttempts) -> a3
              [] KindOf[j] # "at" /\ ~r.enabled -> a4
              [] KindOf[j] # "at" /\ r.enabled /\ outcome \in {"transient", "permanent"} -> a5
              [] KindOf[j] # "at" /\ r.enabled /\ outcome \in {"ok", "skipped"} -> a6
    BY <2>1 DEF a1, a2, a3, a4, a5, a6
  <2>4. r.enabled \in BOOLEAN
    BY DEF JobType
  <2>5. \/ d = a1 /\ KindOf[j] = "at"
        \/ d = a2 /\ ~(KindOf[j] = "at" /\ outcome = "ok")
        \/ d = a3
        \/ d = a4 /\ ~r.enabled
        \/ d = a7 /\ KindOf[j] # "at"
    BY <1>2, <2>2, <2>3, <2>4
  <2> QED
    BY <2>5 DEF a1, a2, a3, a4, a7
<1> HIDE DEF e, d, n
<1>7. CASE d = [Absent EXCEPT !.status = "ok"] /\ KindOf[j] = "at"
  <2>1. d = [stored |-> FALSE, enabled |-> FALSE, next |-> Unset, running |-> Unset, last |-> Unset,
             status |-> "ok", errors |-> 0]
    BY <1>7 DEF Absent, NewJob
  <2> QED
    BY <2>1, CronAssumption DEF JobType, Known, Unset, d
<1>8. CASE d = [e EXCEPT !.next = to + Backoff] /\ ~(KindOf[j] = "at" /\ outcome = "ok")
  BY <1>1, <1>4, <1>8 DEF JobType, Known, d
<1>9. CASE d = [e EXCEPT !.enabled = FALSE, !.next = Unset]
  BY <1>1, <1>9 DEF JobType, Known, d
<1>10. CASE d = [e EXCEPT !.next = Unset] /\ ~r.enabled
  BY <1>1, <1>10 DEF JobType, Known, d
<1>11. CASE d = [e EXCEPT !.next = n] /\ KindOf[j] # "at"
  BY <1>1, <1>5, <1>11 DEF JobType, Known, d
<1> QED
  BY <1>6, <1>7, <1>8, <1>9, <1>10, <1>11 DEF d

(* An entry of a batch that has ended. *)
EndedEntry(e, t) == e.from \in Unset..t /\ e.to \in 0..t /\ e.outcome \in Outcomes

LEMMA OutcomeType ==
  ASSUME NEW T \in Nat, NEW s \in [Jobs -> JobType(T)], NEW batch,
         \A j \in Jobs : batch[j].st = "ended" => EndedEntry(batch[j], T)
  PROVE  Outcome(s, batch) \in [Jobs -> JobType(T)]
<1> SUFFICES ASSUME NEW j \in Jobs
             PROVE  Outcome(s, batch)[j] \in JobType(T)
  BY DEF Outcome
<1>1. CASE batch[j].st = "ended" /\ s[j].stored
  <2>1. Applied(s[j], j, batch[j].outcome, batch[j].from, batch[j].to, FALSE) \in JobType(T)
    BY <1>1, AppliedFields DEF EndedEntry
  <2> QED
    BY <1>1, <2>1 DEF Outcome
<1>2. CASE ~(batch[j].st = "ended" /\ s[j].stored)
  BY <1>2 DEF Outcome
<1> QED
  BY <1>1, <1>2

LEMMA OutcomeFields ==
  ASSUME NEW T \in Nat, NEW s \in [Jobs -> JobType(T)], NEW batch,
         \A j \in Jobs : batch[j].st = "ended" => EndedEntry(batch[j], T),
         NEW j \in Jobs
  PROVE  LET d == Outcome(s, batch)[j]
         IN  /\ batch[j].st # "ended" \/ ~s[j].stored => d = s[j]
             /\ batch[j].st = "ended" /\ s[j].stored =>
                  /\ Known(d) /\ d.running = Unset
                  /\ d.enabled => s[j].enabled
                  /\ KindOf[j] = "at" /\ batch[j].outcome = "ok" => ~d.enabled
<1>1. CASE batch[j].st = "ended" /\ s[j].stored
  <2> DEFINE d == Applied(s[j], j, batch[j].outcome, batch[j].from, batch[j].to, FALSE)
  <2>1. /\ Known(d) /\ d.running = Unset
        /\ d.enabled => s[j].enabled
        /\ KindOf[j] = "at" /\ batch[j].outcome = "ok" => ~d.enabled
    <3>1. s[j] \in JobType(T) /\ s[j].stored
      BY <1>1
    <3>2. EndedEntry(batch[j], T)
      BY <1>1
    <3> QED
      BY <3>1, <3>2, AppliedFields DEF EndedEntry
  <2>2. Outcome(s, batch)[j] = d
    BY <1>1 DEF Outcome
  <2> HIDE DEF d
  <2> QED
    BY <1>1, <2>1, <2>2
<1>2. CASE ~(batch[j].st = "ended" /\ s[j].stored)
  BY <1>2 DEF Outcome
<1> QED
  BY <1>1, <1>2

LEMMA InterruptedFields ==
  ASSUME NEW T \in Nat, NEW j \in Jobs, NEW r \in JobType(T)
  PROVE  LET d == Interrupted(r, j)
         IN  /\ d \in JobType(T)
             /\ d.stored = r.stored /\ d.running = Unset
             /\ d.enabled => r.enabled
<1> DEFINE e == Ended(r, "permanent", r.running)
           d == Interrupted(r, j)
<1>1. e \in JobType(T) /\ e.stored = r.stored /\ e.enabled = r.enabled /\ e.running = Unset
  <2>1. r.running \in Unset..T
    BY DEF JobType
  <2> QED
    BY <2>1, EndedFields
<1> HIDE DEF e
<1>2. d \in {[e EXCEPT !.next = Unset], [e EXCEPT !.next = Unset, !.enabled = FALSE]}
  <2>1. d = IF KindOf[j] = "at" THEN Off([e EXCEPT !.next = Unset]) ELSE [e EXCEPT !.next = Unset]
    BY DEF Interrupted, e
  <2>2. e = [stored |-> e.stored, enabled |-> e.enabled, next |-> e.next, running |-> e.running,
             last |-> e.last, status |-> e.status, errors |-> e.errors]
    BY <1>1 DEF JobType
  <2>3. Off([e EXCEPT !.next = Unset]) = [e EXCEPT !.next = Unset, !.enabled = FALSE]
    BY <2>2 DEF Off
  <2> QED
    BY <2>1, <2>3
<1> HIDE DEF d
<1> QED
  BY <1>1, <1>2 DEF JobType, d

-----------------------------------------------------------------------------
(* The invariant. First its shape: the types, and who waits for the lock.  *)

EntryType ==
  [st : {"none", "waiting", "executing", "ended"}, same : BOOLEAN, from : Int, to : Int,
   outcome : Outcomes \cup {"none"}]

RunnerType ==
  [pc : {"off", "collect", "mark", "plan", "run", "apply", "arm"}, batch : [Jobs -> EntryType],
   skip : SUBSET Jobs, deferred : SUBSET Jobs]

CallType ==
  [pc : {"idle", "preflight", "reserve", "run", "finish", "done"}, job : Jobs \cup {NoCall.job},
   force : BOOLEAN, from : Int, to : Int, outcome : Outcomes \cup {"none"}]

StoresTyped ==
  /\ now \in 0..MaxTime
  /\ mem \in [Jobs -> JobType(now)] /\ disk \in [Jobs -> JobType(now)]
  /\ timer \in BOOLEAN /\ threw \in BOOLEAN
  /\ faults \in Nat

(* A batch is empty unless its runs go on, and over when it is applied.    *)
RunnersTyped ==
  /\ runner \in [Runners -> RunnerType]
  /\ runner["tick"].pc \in {"off", "collect", "run", "apply"}
  /\ runner["boot"].pc \in {"mark", "plan", "run", "apply", "arm", "off"}
  /\ \A a \in Runners, j \in Jobs :
       LET e == runner[a].batch[j]
       IN  /\ e.st \in {"executing", "ended"} => e.from \in 0..now
           /\ e.st = "ended" => e.to \in 0..now /\ e.outcome \in Outcomes
           /\ runner[a].pc \notin {"run", "apply"} => e.st = "none"
           /\ runner[a].pc = "apply" => e.st \in {"none", "ended"}

CallsTyped ==
  /\ manual \in [ManualRuns -> CallType]
  /\ \A m \in ManualRuns :
       LET c == manual[m]
       IN  /\ c.pc \notin {"idle", "done"} => c.job \in Jobs
           /\ c.pc \in {"reserve", "run", "finish"} => c.from \in 0..now
           /\ c.pc = "finish" => c.to \in 0..now /\ c.outcome \in Outcomes

(* Before its first section a start is alone. *)
Alone ==
  ~Started => /\ ~timer /\ runner["tick"].pc = "off"
              /\ \A m \in ManualRuns : manual[m].pc \in {"idle", "done"}

Members(c) == {c[i] : i \in 1..Len(c)}

Distinct(c) == \A i, k \in 1..Len(c) : c[i] = c[k] => i = k

Waits(a) ==
  \/ a \in ManualRuns /\ manual[a].pc \in {"preflight", "reserve", "finish"}
  \/ a \in Runners /\ runner[a].pc \notin {"off", "run"}

ChainOK ==
  /\ chain \in Seq(Actors) /\ Distinct(chain)
  /\ \A a \in Actors : a \in Members(chain) <=> Waits(a)

-----------------------------------------------------------------------------
(* The chain of locked sections. *)

LEMMA Apart == "tick" \notin ManualRuns /\ "boot" \notin ManualRuns
  BY CronAssumption

LEMMA Joined ==
  ASSUME NEW S, NEW c \in Seq(S), NEW a \in S, Distinct(c), a \notin Members(c)
  PROVE  /\ Append(c, a) \in Seq(S) /\ Distinct(Append(c, a))
         /\ Members(Append(c, a)) = Members(c) \cup {a}
<1> DEFINE d == Append(c, a)
<1>1. d \in Seq(S) /\ Len(d) = Len(c) + 1 /\ Len(c) \in Nat
  OBVIOUS
<1>2. \A i \in 1..Len(d) : d[i] = IF i <= Len(c) THEN c[i] ELSE a
  OBVIOUS
<1> HIDE DEF d
<1>3. \A i \in 1..Len(c) : d[i] = c[i] /\ c[i] # a
  BY <1>1, <1>2 DEF Members
<1>4. d[Len(d)] = a
  BY <1>1, <1>2
<1>5. Distinct(d)
  BY <1>1, <1>2, <1>3 DEF Distinct
<1>6. Members(d) = Members(c) \cup {a}
  BY <1>1, <1>2, <1>3, <1>4 DEF Members
<1> QED
  BY <1>1, <1>5, <1>6 DEF d

LEMMA Left ==
  ASSUME NEW S, NEW c \in Seq(S), c # <<>>, Distinct(c)
  PROVE  /\ Tail(c) \in Seq(S) /\ Distinct(Tail(c))
         /\ Members(Tail(c)) = Members(c) \ {Head(c)}
         /\ Head(c) \in Members(c)
<1> DEFINE d == Tail(c)
<1>1. d \in Seq(S) /\ Len(d) = Len(c) - 1 /\ Len(c) \in Nat \ {0}
  OBVIOUS
<1>2. \A i \in 1..Len(d) : d[i] = c[i + 1]
  OBVIOUS
<1>3. Head(c) = c[1]
  OBVIOUS
<1> HIDE DEF d
<1>4. Distinct(d)
  BY <1>1, <1>2 DEF Distinct
<1>5. \A i \in 2..Len(c) : c[i] = d[i - 1] /\ i - 1 \in 1..Len(d)
  BY <1>1, <1>2
<1>6. Members(d) \subseteq Members(c) \ {Head(c)}
  BY <1>1, <1>2, <1>3 DEF Members, Distinct
<1>7. Members(c) \ {Head(c)} \subseteq Members(d)
  BY <1>1, <1>3, <1>5 DEF Members
<1>8. Head(c) \in Members(c)
  BY <1>1, <1>3 DEF Members
<1> QED
  BY <1>1, <1>4, <1>6, <1>7, <1>8 DEF d

(* An actor waits for the lock once. *)
LEMMA Counted ==
  ASSUME NEW S, NEW c \in Seq(S), Distinct(c), NEW a
  PROVE  Cardinality({i \in 1..Len(c) : c[i] = a}) = IF a \in Members(c) THEN 1 ELSE 0
<1> DEFINE is == {i \in 1..Len(c) : c[i] = a}
<1>1. CASE a \in Members(c)
  <2>1. PICK i \in 1..Len(c) : c[i] = a
    BY <1>1 DEF Members
  <2>2. is = {i}
    BY <2>1 DEF Distinct
  <2> HIDE DEF is
  <2>3. Cardinality({i}) = 1
    BY FS_Singleton
  <2> QED
    BY <1>1, <2>2, <2>3 DEF is
<1>2. CASE a \notin Members(c)
  <2>1. is = {}
    BY <1>2 DEF Members
  <2> QED
    BY <1>2, <2>1, FS_EmptySet
<1> QED
  BY <1>1, <1>2

LEMMA ChainJoin ==
  ASSUME ChainOK, NEW a \in Actors, ~Waits(a), Queued(a), Waits(a)',
         \A b \in Actors \ {a} : Waits(b)' <=> Waits(b)
  PROVE  ChainOK'
<1>1. a \notin Members(chain)
  BY DEF ChainOK
<1>2. /\ chain' \in Seq(Actors) /\ Distinct(chain')
      /\ Members(chain') = Members(chain) \cup {a}
  BY <1>1, Joined DEF ChainOK, Queued
<1> QED
  BY <1>2 DEF ChainOK

LEMMA ChainLeave ==
  ASSUME ChainOK, NEW a \in Actors, Holds(a), Frees, ~Waits(a)',
         \A b \in Actors \ {a} : Waits(b)' <=> Waits(b)
  PROVE  ChainOK'
<1>1. /\ chain' \in Seq(Actors) /\ Distinct(chain')
      /\ Members(chain') = Members(chain) \ {a}
  BY Left DEF ChainOK, Holds, Frees
<1> QED
  BY <1>1 DEF ChainOK

LEMMA ChainAgain ==
  ASSUME ChainOK, NEW a \in Actors, Holds(a), chain' = Append(Tail(chain), a), Waits(a)',
         \A b \in Actors \ {a} : Waits(b)' <=> Waits(b)
  PROVE  ChainOK'
<1>1. /\ Tail(chain) \in Seq(Actors) /\ Distinct(Tail(chain))
      /\ Members(Tail(chain)) = Members(chain) \ {a}
  BY Left DEF ChainOK, Holds
<1>2. a \notin Members(Tail(chain))
  BY <1>1 DEF Holds
<1>3. /\ chain' \in Seq(Actors) /\ Distinct(chain')
      /\ Members(chain') = Members(Tail(chain)) \cup {a}
  <2> DEFINE c == Tail(chain)
  <2>1. c \in Seq(Actors) /\ Distinct(c) /\ a \notin Members(c)
    BY <1>1, <1>2
  <2> HIDE DEF c
  <2>2. /\ Append(c, a) \in Seq(Actors) /\ Distinct(Append(c, a))
        /\ Members(Append(c, a)) = Members(c) \cup {a}
    BY <2>1, Joined, SMT
  <2> QED
    BY <2>2, Zenon DEF c
<1> QED
  BY <1>1, <1>3 DEF ChainOK

LEMMA ChainStays ==
  ASSUME ChainOK, UNCHANGED chain, \A b \in Actors : Waits(b)' <=> Waits(b)
  PROVE  ChainOK'
  BY DEF ChainOK

-----------------------------------------------------------------------------
(* The invariant of a job. *)

(* a has reserved j and not yet written down its end. *)
Holder(a, j) ==
  \/ a \in Runners /\ runner[a].batch[j].st # "none"
  \/ a \in ManualRuns /\ manual[a].pc \in {"run", "finish"} /\ manual[a].job = j

Claimed(j) == \E a \in Actors : Holder(a, j)

Remembered(j) ==
  Claimed(j) \/ j \in succeeded => Known(disk[j]) /\ (Started => Known(mem[j]))

(* Unless its marker was given up, a job has one run, and both copies of   *)
(* the store say so.                                                       *)
Marked(j) ==
  j \notin released =>
    /\ \A a, b \in Actors : Holder(a, j) /\ Holder(b, j) => a = b
    /\ Claimed(j) => Held(mem[j]) /\ Held(disk[j])

Finished(j) == j \in succeeded => ~mem[j].enabled /\ ~disk[j].enabled

NoneWaits(j) ==
  j \in succeeded \ released => \A a \in Runners : runner[a].batch[j].st # "waiting"

Owned(j) ==
  faults = 0 /\ Started =>
    /\ mem[j].stored /\ mem[j].running # Unset => Claimed(j)
    /\ disk[j].stored /\ disk[j].running # Unset => Claimed(j)

(* While no write fails, the copies differ in markers and missing slots.   *)
Synced(j) ==
  faults = 0 /\ Started =>
    /\ mem[j].stored = disk[j].stored /\ mem[j].enabled = disk[j].enabled /\ mem[j].last = disk[j].last
    /\ disk[j].enabled /\ disk[j].next # Unset => mem[j].next = disk[j].next

JobInv(j) == Remembered(j) /\ Marked(j) /\ Finished(j) /\ NoneWaits(j) /\ Owned(j) /\ Synced(j)

Inv == StoresTyped /\ RunnersTyped /\ CallsTyped /\ Alone /\ ChainOK /\ \A j \in Jobs : JobInv(j)

(* The runs of j stay as they are, but a waiting one may begin or end.     *)
SameRuns(j) ==
  /\ \A a \in Actors : Holder(a, j)' <=> Holder(a, j)
  /\ \A a \in Runners : runner'[a].batch[j].st = "waiting" => runner[a].batch[j].st = "waiting"
  /\ (j \in succeeded' <=> j \in succeeded) /\ (j \in released' <=> j \in released)

(* A step that writes nothing, but may mark a job that has a run.          *)
LEMMA FrameStep ==
  ASSUME NEW j \in Jobs, JobInv(j), SameRuns(j), Started' <=> Started, faults' = faults,
         disk'[j] = disk[j],
         mem'[j].stored = mem[j].stored, mem'[j].enabled = mem[j].enabled, mem'[j].next = mem[j].next,
         mem'[j].last = mem[j].last, mem'[j].status = mem[j].status,
         mem'[j].running = mem[j].running \/ (mem'[j].running # Unset /\ Claimed(j))
  PROVE  JobInv(j)'
<1>1. Claimed(j)' <=> Claimed(j)
  BY DEF SameRuns, Claimed
<1>2. Remembered(j)'
  BY <1>1 DEF JobInv, Remembered, SameRuns, Known
<1>3. Marked(j)'
  BY <1>1 DEF JobInv, Marked, SameRuns, Held
<1>4. Finished(j)' /\ NoneWaits(j)'
  BY DEF JobInv, Finished, NoneWaits, SameRuns
<1>5. Owned(j)'
  BY <1>1 DEF JobInv, Owned
<1>6. Synced(j)'
  BY DEF JobInv, Synced
<1> QED
  BY <1>2, <1>3, <1>4, <1>5, <1>6 DEF JobInv

(* A section that makes base, of one of the copies, to d and writes it,    *)
(* and reserves no run of j.                                               *)
LEMMA WriteStep ==
  ASSUME NEW j \in Jobs, JobInv(j), Started, Started', faults \in Nat,
         NEW base, base = disk[j] \/ base = mem[j],
         (mem'[j] = disk'[j] /\ faults' = faults) \/ (disk'[j] = disk[j] /\ faults' = faults + 1),
         \A a \in Actors : Holder(a, j)' => Holder(a, j),
         \A a \in Runners : runner'[a].batch[j].st = "waiting" => runner[a].batch[j].st = "waiting",
         j \in succeeded' => j \in succeeded,
         j \notin released' => j \notin released,
         Known(base) => Known(mem'[j]),
         mem'[j].enabled => base.enabled,
         mem'[j].stored /\ mem'[j].running # Unset =>
           base.stored /\ base.running # Unset /\ (Claimed(j) => Claimed(j)'),
         Claimed(j)' /\ j \notin released' /\ Held(base) => Held(mem'[j])
  PROVE  JobInv(j)'
<1>1. Claimed(j)' => Claimed(j)
  BY DEF Claimed
<1>2. Remembered(j)'
  BY <1>1 DEF JobInv, Remembered
<1>3. Marked(j)'
  BY <1>1 DEF JobInv, Marked
<1>4. Finished(j)' /\ NoneWaits(j)'
  BY DEF JobInv, Finished, NoneWaits
<1>5. Owned(j)'
  BY <1>1 DEF JobInv, Owned
<1>6. Synced(j)'
  BY DEF JobInv, Synced
<1> QED
  BY <1>2, <1>3, <1>4, <1>5, <1>6 DEF JobInv

(* A repair of memory alone. *)
LEMMA RepairStep ==
  ASSUME NEW j \in Jobs, JobInv(j), Started' <=> Started, faults' = faults, disk'[j] = disk[j],
         \A a \in Actors : Holder(a, j)' <=> Holder(a, j),
         \A a \in Runners : runner'[a].batch[j].st = "waiting" => runner[a].batch[j].st = "waiting",
         succeeded' = succeeded, j \notin released' => j \notin released,
         mem'[j].stored = mem[j].stored, mem'[j].enabled = mem[j].enabled,
         mem'[j].last = mem[j].last, mem'[j].status = mem[j].status,
         mem'[j].running = mem[j].running \/ (mem'[j].running = Unset /\ j \in released'),
         mem[j].enabled /\ mem[j].next # Unset => mem'[j].next = mem[j].next
  PROVE  JobInv(j)'
<1>1. Claimed(j)' <=> Claimed(j)
  BY DEF Claimed
<1>2. Remembered(j)' /\ Finished(j)'
  BY <1>1 DEF JobInv, Remembered, Finished, Known
<1>3. Marked(j)'
  BY <1>1 DEF JobInv, Marked, Held
<1>4. NoneWaits(j)'
  BY DEF JobInv, NoneWaits
<1>5. Owned(j)' /\ Synced(j)'
  BY <1>1 DEF JobInv, Owned, Synced
<1> QED
  BY <1>2, <1>3, <1>4, <1>5 DEF JobInv

(* A section that writes down the end of a run of j.                       *)
LEMMA EndStep ==
  ASSUME NEW j \in Jobs, JobInv(j), Started, Started', faults \in Nat,
         NEW base, base = disk[j] \/ base = mem[j],
         (mem'[j] = disk'[j] /\ faults' = faults) \/ (disk'[j] = disk[j] /\ faults' = faults + 1),
         NEW x \in Actors, Holder(x, j),
         \A a \in Actors : Holder(a, j)' => Holder(a, j) /\ a # x,
         Known(mem'[j]), mem'[j].running = Unset, mem'[j].enabled => base.enabled,
         j \notin released' => j \notin released,
         j \in succeeded' => j \in succeeded \/ (~mem'[j].enabled /\ mem'[j] = disk'[j])
  PROVE  JobInv(j)'
<1>1. Claimed(j)
  BY DEF Claimed
<1>2. j \notin released' => ~Claimed(j)'
  BY DEF JobInv, Marked, Claimed
<1>3. Remembered(j)'
  BY <1>1 DEF JobInv, Remembered
<1>4. Marked(j)'
  BY <1>2 DEF Marked, Claimed
<1>5. Finished(j)'
  BY DEF JobInv, Finished
<1>6. NoneWaits(j)'
  <2> SUFFICES ASSUME j \notin released', NEW a \in Runners, runner'[a].batch[j].st = "waiting"
               PROVE  FALSE
    BY DEF NoneWaits
  <2>1. Holder(a, j)' /\ a \in Actors
    BY DEF Holder, Actors
  <2> QED
    BY <1>2, <2>1 DEF Claimed
<1>7. Owned(j)' /\ Synced(j)'
  BY DEF Owned, Synced
<1> QED
  BY <1>3, <1>4, <1>5, <1>6, <1>7 DEF JobInv

LEMMA ClaimsAreHeld ==
  ASSUME RunnersTyped, NEW j \in Jobs
  PROVE  \A a : a \in Claims(j) <=> a \in Actors /\ Holder(a, j)
<1>1. DOMAIN runner = Runners
  BY DEF RunnersTyped
<1> QED
  BY <1>1 DEF Claims, Holder, Actors

-----------------------------------------------------------------------------
(* The clock, and the runs. *)

LEMMA TypeGrows ==
  ASSUME NEW t \in Nat, NEW u \in Nat, t <= u
  PROVE  JobType(t) \subseteq JobType(u)
  BY DEF JobType, Unset

LEMMA Advances ==
  ASSUME Inv, Advance
  PROVE  Inv'
<1>1. StoresTyped'
  <2>1. now \in Nat /\ now' \in Nat /\ now <= now' /\ now' \in 0..MaxTime
    BY CronAssumption DEF Inv, StoresTyped, Advance
  <2>2. JobType(now) \subseteq JobType(now')
    BY <2>1, TypeGrows
  <2> QED
    BY <2>1, <2>2 DEF Inv, StoresTyped, Advance
<1>2. RunnersTyped'
  BY CronAssumption DEF Inv, StoresTyped, RunnersTyped, Advance
<1>3. CallsTyped'
  BY CronAssumption DEF Inv, StoresTyped, CallsTyped, Advance
<1>4. Alone'
  BY DEF Inv, Alone, Advance, Started
<1>5. ChainOK'
  BY ChainStays DEF Inv, Waits, Advance
<1>6. ASSUME NEW j \in Jobs
      PROVE  JobInv(j)'
  <2>1. SameRuns(j)
    BY DEF SameRuns, Holder, Advance
  <2> QED
    BY <2>1, FrameStep DEF Inv, Advance, Started
<1> QED
  BY <1>1, <1>2, <1>3, <1>4, <1>5, <1>6 DEF Inv

LEMMA Stutters ==
  ASSUME Inv, UNCHANGED vars
  PROVE  Inv'
<1>1. StoresTyped' /\ RunnersTyped' /\ CallsTyped'
  BY DEF Inv, StoresTyped, RunnersTyped, CallsTyped, vars
<1>2. Alone' /\ ChainOK'
  BY ChainStays DEF Inv, Alone, Started, Waits, vars
<1>3. ASSUME NEW j \in Jobs
      PROVE  JobInv(j)'
  <2>1. SameRuns(j)
    BY DEF SameRuns, Holder, vars
  <2> QED
    BY <2>1, FrameStep DEF Inv, Started, vars
<1> QED
  BY <1>1, <1>2, <1>3 DEF Inv

LEMMA TickFires ==
  ASSUME Inv, TickFire
  PROVE  Inv'
<1> DEFINE d == [runner["tick"] EXCEPT !.pc = "collect"]
<1>1. /\ runner["tick"] \in RunnerType /\ runner["tick"].pc = "off" /\ runner["boot"].pc # "mark"
      /\ runner \in [Runners -> RunnerType]
  BY DEF Inv, RunnersTyped, TickFire, NotBusy, Alone, Started, Runners
<1>2. d \in RunnerType /\ d.pc = "collect" /\ d.batch = runner["tick"].batch
  BY <1>1 DEF RunnerType
<1>3. runner' = [runner EXCEPT !["tick"] = d]
  BY DEF TickFire
<1> HIDE DEF d
<1>4. /\ runner' \in [Runners -> RunnerType]
      /\ runner'["tick"].pc = "collect" /\ runner'["boot"] = runner["boot"]
      /\ \A a \in Runners : runner'[a].batch = runner[a].batch
  BY <1>1, <1>2, <1>3 DEF Runners
<1>5. StoresTyped'
  BY DEF Inv, StoresTyped, TickFire
<1>6. RunnersTyped'
  BY <1>1, <1>4 DEF Inv, RunnersTyped, Runners, TickFire
<1>7. CallsTyped'
  BY DEF Inv, CallsTyped, TickFire
<1>8. Alone'
  BY <1>1, <1>4 DEF Alone, Started
<1>9. ChainOK'
  <2>1. ~Waits("tick") /\ Waits("tick")' /\ "tick" \in Actors
    BY <1>1, <1>4, Apart DEF Waits, Runners, Actors
  <2>2. \A b \in Actors \ {"tick"} : Waits(b)' <=> Waits(b)
    BY <1>4 DEF Waits, Runners, Actors, TickFire
  <2> QED
    BY <2>1, <2>2, ChainJoin DEF Inv, TickFire
<1>10. ASSUME NEW j \in Jobs
       PROVE  JobInv(j)'
  <2>1. SameRuns(j)
    BY <1>4 DEF SameRuns, Holder, TickFire
  <2> QED
    BY <1>4, <2>1, FrameStep DEF Inv, TickFire, Started
<1> QED
  BY <1>5, <1>6, <1>7, <1>8, <1>9, <1>10 DEF Inv

LEMMA StartsRun ==
  ASSUME Inv, NEW a \in Runners, NEW k \in Jobs, StartRun(a, k)
  PROVE  Inv'
<1> DEFINE e == [runner[a].batch[k] EXCEPT !.st = "executing", !.same = TRUE, !.from = now]
           b == [runner[a].batch EXCEPT ![k] = e]
           d == [runner[a] EXCEPT !.batch = b]
<1>1. /\ runner \in [Runners -> RunnerType] /\ runner[a] \in RunnerType
      /\ runner[a].batch \in [Jobs -> EntryType] /\ runner[a].batch[k] \in EntryType
      /\ runner[a].pc = "run" /\ runner[a].batch[k].st = "waiting"
      /\ now \in 0..MaxTime /\ now \in Nat
  BY CronAssumption DEF Inv, StoresTyped, RunnersTyped, StartRun, RunnerType
<1>2. e \in EntryType /\ e.st = "executing" /\ e.from = now
  <2> DEFINE x == runner[a].batch[k]
  <2>1. x \in EntryType
    BY <1>1
  <2>2. now \in Int
    BY <1>1
  <2>3. e = [x EXCEPT !.st = "executing", !.same = TRUE, !.from = now]
    OBVIOUS
  <2> HIDE DEF x, e
  <2> QED
    BY <2>1, <2>2, <2>3 DEF EntryType
<1>3. runner' = [runner EXCEPT ![a] = d]
  BY <1>1 DEF StartRun
<1> HIDE DEF e
<1>4. b \in [Jobs -> EntryType] /\ b[k] = e /\ \A j \in Jobs \ {k} : b[j] = runner[a].batch[j]
  BY <1>1, <1>2
<1> HIDE DEF b
<1>5. d \in RunnerType /\ d.batch = b /\ d.pc = "run"
  BY <1>1, <1>4 DEF RunnerType
<1> HIDE DEF d
<1>6. /\ runner' \in [Runners -> RunnerType]
      /\ \A x \in Runners : runner'[x].pc = runner[x].pc
      /\ runner'[a].batch[k] = e
      /\ \A x \in Runners, j \in Jobs : x # a \/ j # k => runner'[x].batch[j] = runner[x].batch[j]
  BY <1>1, <1>3, <1>4, <1>5
<1>7. StoresTyped'
  <2>1. mem' \in [Jobs -> JobType(now)]
    <3> DEFINE r == [mem[k] EXCEPT !.running = now]
    <3>1. mem[k] \in JobType(now) /\ mem \in [Jobs -> JobType(now)]
      BY DEF Inv, StoresTyped
    <3>2. r \in JobType(now)
      BY <1>1, <3>1 DEF JobType, Unset
    <3>3. mem' = mem \/ mem' = [mem EXCEPT ![k] = r]
      BY DEF StartRun
    <3> HIDE DEF r
    <3> QED
      BY <3>1, <3>2, <3>3
  <2> QED
    BY <2>1 DEF Inv, StoresTyped, StartRun
<1>8. RunnersTyped'
  <2>1. now' = now
    BY DEF StartRun
  <2>2. ASSUME NEW x \in Runners, NEW j \in Jobs
        PROVE  LET f == runner'[x].batch[j]
               IN  /\ f.st \in {"executing", "ended"} => f.from \in 0..now
                   /\ f.st = "ended" => f.to \in 0..now /\ f.outcome \in Outcomes
                   /\ runner'[x].pc \notin {"run", "apply"} => f.st = "none"
                   /\ runner'[x].pc = "apply" => f.st \in {"none", "ended"}
    <3>1. CASE x = a /\ j = k
      BY <1>1, <1>2, <1>6, <3>1
    <3>2. CASE x # a \/ j # k
      BY <1>6, <3>2 DEF Inv, RunnersTyped
    <3> QED
      BY <3>1, <3>2
  <2>3. /\ runner'["tick"].pc \in {"off", "collect", "run", "apply"}
        /\ runner'["boot"].pc \in {"mark", "plan", "run", "apply", "arm", "off"}
    BY <1>6 DEF Inv, RunnersTyped, Runners
  <2> QED
    BY <1>6, <2>1, <2>2, <2>3 DEF RunnersTyped
<1>9. CallsTyped'
  BY DEF Inv, CallsTyped, StartRun
<1>10. Alone'
  BY <1>6 DEF Inv, Alone, Started, StartRun, Runners
<1>11. ChainOK'
  <2>1. \A x \in Actors : Waits(x)' <=> Waits(x)
    BY <1>6 DEF Waits, StartRun
  <2> QED
    BY <2>1, ChainStays DEF Inv, StartRun
<1>12. ASSUME NEW j \in Jobs
       PROVE  JobInv(j)'
  <2>1. SameRuns(j)
    BY <1>1, <1>2, <1>6 DEF SameRuns, Holder, StartRun
  <2>2. a \in Actors /\ Holder(a, k)
    BY <1>1 DEF Actors, Holder
  <2>3. /\ mem'[j].stored = mem[j].stored /\ mem'[j].enabled = mem[j].enabled /\ mem'[j].next = mem[j].next
        /\ mem'[j].last = mem[j].last /\ mem'[j].status = mem[j].status
        /\ mem'[j].running = mem[j].running \/ (mem'[j].running # Unset /\ j = k)
    <3> DEFINE r == [mem[k] EXCEPT !.running = now]
    <3>1. mem[k] \in JobType(now) /\ mem \in [Jobs -> JobType(now)]
      BY DEF Inv, StoresTyped
    <3>2. /\ r.stored = mem[k].stored /\ r.enabled = mem[k].enabled /\ r.next = mem[k].next
          /\ r.last = mem[k].last /\ r.status = mem[k].status /\ r.running # Unset
      BY <1>1, <3>1 DEF JobType, Unset
    <3>3. mem' = mem \/ mem' = [mem EXCEPT ![k] = r]
      BY DEF StartRun
    <3> HIDE DEF r
    <3> QED
      BY <3>1, <3>2, <3>3
  <2>4. Started' <=> Started
    BY <1>6 DEF Started, Runners
  <2> QED
    BY <2>1, <2>2, <2>3, <2>4, FrameStep DEF Inv, StartRun, Claimed
<1> QED
  BY <1>7, <1>8, <1>9, <1>10, <1>11, <1>12 DEF Inv

LEMMA EndsRun ==
  ASSUME Inv, NEW a \in Runners, NEW k \in Jobs, NEW outcome \in Outcomes, EndRun(a, k, outcome)
  PROVE  Inv'
<1> DEFINE x == runner[a].batch[k]
           e == [x EXCEPT !.st = "ended", !.to = now, !.outcome = outcome]
           b == [runner[a].batch EXCEPT ![k] = e]
           last == \A j \in Jobs : b[j].st \in {"none", "ended"}
           d == [runner[a] EXCEPT !.batch = b, !.pc = IF last THEN "apply" ELSE runner[a].pc]
<1>1. /\ runner \in [Runners -> RunnerType] /\ runner[a] \in RunnerType
      /\ runner[a].batch \in [Jobs -> EntryType] /\ x \in EntryType
      /\ runner[a].pc = "run" /\ x.st = "executing" /\ x.from \in 0..now
      /\ now \in 0..MaxTime /\ now \in Nat
  BY CronAssumption DEF Inv, StoresTyped, RunnersTyped, EndRun, RunnerType
<1>2. runner' = [runner EXCEPT ![a] = d] /\ IF last THEN Queued(a) ELSE UNCHANGED chain
  BY <1>1 DEF EndRun
<1>3. x = runner[a].batch[k]
  OBVIOUS
<1> HIDE DEF x
<1>4. e \in EntryType /\ e.st = "ended" /\ e.from = x.from /\ e.to = now /\ e.outcome = outcome
  <2>1. x \in EntryType /\ now \in Int
    BY <1>1
  <2> QED
    BY <2>1 DEF EntryType
<1> HIDE DEF e
<1>5. b \in [Jobs -> EntryType] /\ b[k] = e /\ \A j \in Jobs \ {k} : b[j] = runner[a].batch[j]
  BY <1>1, <1>4
<1>6. last <=> \A j \in Jobs : b[j].st \in {"none", "ended"}
  OBVIOUS
<1> HIDE DEF b, last
<1>7. d \in RunnerType /\ d.batch = b /\ d.pc = IF last THEN "apply" ELSE "run"
  BY <1>1, <1>5 DEF RunnerType
<1> HIDE DEF d
<1>8. /\ runner' \in [Runners -> RunnerType]
      /\ \A y \in Runners \ {a} : runner'[y] = runner[y]
      /\ runner'[a].pc = IF last THEN "apply" ELSE "run"
      /\ runner'[a].batch[k] = e
      /\ \A y \in Runners, j \in Jobs : y # a \/ j # k => runner'[y].batch[j] = runner[y].batch[j]
      /\ last => \A j \in Jobs : runner'[a].batch[j].st \in {"none", "ended"}
  BY <1>1, <1>2, <1>5, <1>6, <1>7
<1>9. StoresTyped'
  BY DEF Inv, StoresTyped, EndRun
<1>10. RunnersTyped'
  <2>1. /\ runner'["tick"].pc \in {"off", "collect", "run", "apply"}
        /\ runner'["boot"].pc \in {"mark", "plan", "run", "apply", "arm", "off"}
    BY <1>8 DEF Inv, RunnersTyped, Runners
  <2>2. now' = now
    BY DEF EndRun
  <2>3. ASSUME NEW y \in Runners, NEW j \in Jobs
        PROVE  LET w == runner'[y].batch[j]
               IN  /\ w.st \in {"executing", "ended"} => w.from \in 0..now
                   /\ w.st = "ended" => w.to \in 0..now /\ w.outcome \in Outcomes
                   /\ runner'[y].pc \notin {"run", "apply"} => w.st = "none"
                   /\ runner'[y].pc = "apply" => w.st \in {"none", "ended"}
    <3>1. CASE y = a /\ j = k
      BY <1>1, <1>4, <1>8, <3>1
    <3>2. CASE y # a
      BY <1>8, <3>2 DEF Inv, RunnersTyped
    <3>3. CASE y = a /\ j # k
      BY <1>1, <1>8, <3>3 DEF Inv, RunnersTyped
    <3> QED
      BY <3>1, <3>2, <3>3
  <2> QED
    BY <1>8, <2>1, <2>2, <2>3 DEF RunnersTyped
<1>11. CallsTyped'
  BY DEF Inv, CallsTyped, EndRun
<1>12. Started' <=> Started
  BY <1>1, <1>8 DEF Started, Runners
<1>13. Alone'
  BY <1>1, <1>8, <1>12 DEF Inv, Alone, EndRun, Runners
<1>14. ChainOK'
  <2>1. \A y \in Actors \ {a} : Waits(y)' <=> Waits(y)
    BY <1>8, Apart DEF Waits, EndRun, Runners
  <2>2. a \in Actors /\ ~Waits(a) /\ (Waits(a)' <=> last)
    BY <1>1, <1>8, Apart DEF Waits, Runners, Actors
  <2>3. CASE last
    BY <1>2, <2>1, <2>2, <2>3, ChainJoin DEF Inv
  <2>4. CASE ~last
    BY <1>2, <2>1, <2>2, <2>4, ChainStays DEF Inv
  <2> QED
    BY <2>3, <2>4
<1>15. ASSUME NEW j \in Jobs
       PROVE  JobInv(j)'
  <2>1. SameRuns(j)
    <3>1. manual' = manual /\ released' = released /\ succeeded' = succeeded
      BY DEF EndRun
    <3>2. runner[a].batch[k].st = "executing" /\ runner'[a].batch[k].st = "ended"
      BY <1>1, <1>3, <1>4, <1>8
    <3>3. \A y \in Runners : /\ runner'[y].batch[j].st # "none" <=> runner[y].batch[j].st # "none"
                             /\ runner'[y].batch[j].st = "waiting" => runner[y].batch[j].st = "waiting"
      BY <1>8, <3>2
    <3> QED
      BY <3>1, <3>3 DEF SameRuns, Holder
  <2> QED
    BY <1>12, <2>1, FrameStep DEF Inv, EndRun
<1> QED
  BY <1>9, <1>10, <1>11, <1>13, <1>14, <1>15 DEF Inv

-----------------------------------------------------------------------------
(* Manual runs. *)

LEMMA CallTypes ==
  /\ NoCall \in CallType /\ NoCall.pc = "idle"
  /\ Over \in CallType /\ Over.pc = "done"
<1>1. Unset \in Int
  BY DEF Unset
<1>2. NoCall \in CallType /\ NoCall.pc = "idle"
  BY <1>1 DEF NoCall, CallType
<1>3. Over \in CallType /\ Over.pc = "done"
  BY <1>2 DEF Over, CallType
<1> QED
  BY <1>2, <1>3

(* A call that moves on: its runs aside, nothing of the shape changes.     *)
LEMMA CallMoves ==
  ASSUME Inv, NEW m \in ManualRuns, NEW c \in CallType, manual' = [manual EXCEPT ![m] = c],
         now' = now, Started,
         c.pc \notin {"idle", "done"} => c.job \in Jobs,
         c.pc \in {"reserve", "run", "finish"} => c.from \in 0..now,
         c.pc = "finish" => c.to \in 0..now /\ c.outcome \in Outcomes
  PROVE  /\ CallsTyped'
         /\ \A x \in ManualRuns \ {m} : manual'[x] = manual[x]
         /\ manual'[m] = c
<1>1. /\ manual \in [ManualRuns -> CallType]
      /\ manual' \in [ManualRuns -> CallType] /\ manual'[m] = c
      /\ \A x \in ManualRuns \ {m} : manual'[x] = manual[x]
  BY DEF Inv, CallsTyped
<1> QED
  BY <1>1 DEF Inv, CallsTyped

LEMMA Calls ==
  ASSUME Inv, NEW m \in ManualRuns, NEW k \in Jobs, NEW force \in BOOLEAN, Call(m, k, force)
  PROVE  Inv'
<1> DEFINE c == [NoCall EXCEPT !.pc = "preflight", !.job = k, !.force = force]
<1>1. c \in CallType /\ c.pc = "preflight" /\ c.job = k
  BY CallTypes DEF CallType
<1>2. manual' = [manual EXCEPT ![m] = c] /\ manual[m].pc = "idle" /\ Started
  BY DEF Call
<1> HIDE DEF c
<1>3. /\ CallsTyped'
      /\ \A x \in ManualRuns \ {m} : manual'[x] = manual[x]
      /\ manual'[m] = c
  BY <1>1, <1>2, CallMoves DEF Call
<1>4. StoresTyped' /\ RunnersTyped' /\ (Started' <=> Started)
  BY DEF Inv, StoresTyped, RunnersTyped, Started, Call
<1>5. Alone'
  BY <1>2, <1>4 DEF Alone
<1>6. ChainOK'
  <2>1. \A x \in Actors \ {m} : Waits(x)' <=> Waits(x)
    BY <1>3 DEF Waits, Call
  <2>2. m \in Actors /\ ~Waits(m) /\ Waits(m)'
    BY <1>1, <1>2, <1>3, Apart DEF Waits, Actors, Runners
  <2> QED
    BY <2>1, <2>2, ChainJoin DEF Inv, Call
<1>7. ASSUME NEW j \in Jobs
      PROVE  JobInv(j)'
  <2>1. SameRuns(j)
    BY <1>1, <1>2, <1>3 DEF SameRuns, Holder, Call
  <2> QED
    BY <1>4, <2>1, FrameStep DEF Inv, Call
<1> QED
  BY <1>3, <1>4, <1>5, <1>6, <1>7 DEF Inv

LEMMA EndsManual ==
  ASSUME Inv, NEW m \in ManualRuns, NEW outcome \in Outcomes, EndManual(m, outcome)
  PROVE  Inv'
<1> DEFINE w == manual[m]
           c == [w EXCEPT !.pc = "finish", !.to = now, !.outcome = outcome]
<1>1. /\ w \in CallType /\ w.pc = "run" /\ w.job \in Jobs /\ w.from \in 0..now
      /\ now \in 0..MaxTime /\ now \in Nat
  BY CronAssumption DEF Inv, StoresTyped, CallsTyped, EndManual
<1>2. manual' = [manual EXCEPT ![m] = c] /\ w = manual[m]
  BY DEF EndManual
<1> HIDE DEF w
<1>3. /\ c \in CallType /\ c.pc = "finish" /\ c.job = w.job /\ c.from = w.from
      /\ c.to = now /\ c.outcome = outcome
  <2>1. w \in CallType /\ now \in Int
    BY <1>1
  <2> QED
    BY <2>1 DEF CallType
<1> HIDE DEF c
<1>4. Started
  BY <1>1, <1>2 DEF Inv, Alone
<1>5. /\ CallsTyped'
      /\ \A x \in ManualRuns \ {m} : manual'[x] = manual[x]
      /\ manual'[m] = c
  <2>1. c.from \in 0..now /\ c.to \in 0..now /\ c.job \in Jobs /\ c.outcome \in Outcomes
    BY <1>1, <1>3
  <2>2. now' = now /\ c \in CallType
    BY <1>3 DEF EndManual
  <2> QED
    BY <1>2, <1>4, <2>1, <2>2, CallMoves
<1>6. StoresTyped' /\ RunnersTyped' /\ (Started' <=> Started)
  BY DEF Inv, StoresTyped, RunnersTyped, Started, EndManual
<1>7. Alone'
  BY <1>4, <1>6 DEF Alone
<1>8. ChainOK'
  <2>1. \A x \in Actors \ {m} : Waits(x)' <=> Waits(x)
    BY <1>5 DEF Waits, EndManual
  <2>2. m \in Actors /\ ~Waits(m) /\ Waits(m)'
    BY <1>1, <1>2, <1>3, <1>5, Apart DEF Waits, Actors, Runners
  <2> QED
    BY <2>1, <2>2, ChainJoin DEF Inv, EndManual
<1>9. ASSUME NEW j \in Jobs
      PROVE  JobInv(j)'
  <2>1. SameRuns(j)
    BY <1>1, <1>2, <1>3, <1>5 DEF SameRuns, Holder, EndManual
  <2> QED
    BY <1>6, <2>1, FrameStep DEF Inv, EndManual
<1> QED
  BY <1>5, <1>6, <1>7, <1>8, <1>9 DEF Inv

LEMMA Preflights ==
  ASSUME Inv, NEW m \in ManualRuns, Preflight(m)
  PROVE  Inv'
<1> DEFINE w == manual[m]
           kept == Maintained(mem, now, FALSE)
           go == kept[w.job].stored /\ kept[w.job].running = Unset /\ (w.force \/ Due(kept[w.job], now))
           d == [w EXCEPT !.pc = "reserve", !.from = now]
           c == IF go THEN d ELSE Over
<1>1. /\ w \in CallType /\ w.pc = "preflight" /\ w.job \in Jobs
      /\ now \in 0..MaxTime /\ now \in Nat
      /\ mem \in [Jobs -> JobType(now)]
  BY CronAssumption DEF Inv, StoresTyped, CallsTyped, Preflight
<1>2. /\ manual' = [manual EXCEPT ![m] = c] /\ w = manual[m] /\ mem' = kept
      /\ chain' = (IF go THEN Append(Tail(chain), m) ELSE Tail(chain))
      /\ released' = released \cup Cleared(mem, now) /\ Holds(m)
  BY DEF Preflight
<1> HIDE DEF w
<1>3. /\ kept \in [Jobs -> JobType(now)] /\ Repairs(mem, kept, Cleared(mem, now))
      /\ \A j \in Jobs : mem[j].enabled /\ mem[j].next # Unset => kept[j].next = mem[j].next
  BY <1>1, MaintainedType, MaintainedFields
<1> HIDE DEF kept, go
<1>4. d \in CallType /\ d.pc = "reserve" /\ d.job = w.job /\ d.from = now
  <2>1. w \in CallType /\ now \in Int
    BY <1>1
  <2> QED
    BY <2>1 DEF CallType
<1> HIDE DEF d
<1>5. c \in CallType /\ c.pc = (IF go THEN "reserve" ELSE "done") /\ (go => c = d)
  BY <1>4, CallTypes
<1> HIDE DEF c
<1>6. Started
  BY <1>1, <1>2 DEF Inv, Alone
<1>7. /\ CallsTyped'
      /\ \A x \in ManualRuns \ {m} : manual'[x] = manual[x]
      /\ manual'[m] = c
  <2>1. c.pc \in {"reserve", "done"} /\ (c.pc = "reserve" => c.from \in 0..now /\ c.job \in Jobs)
    BY <1>1, <1>4, <1>5
  <2>2. now' = now
    BY DEF Preflight
  <2> QED
    BY <1>2, <1>5, <1>6, <2>1, <2>2, CallMoves
<1>8. StoresTyped'
  BY <1>2, <1>3 DEF Inv, StoresTyped, Preflight
<1>9. RunnersTyped' /\ (Started' <=> Started) /\ Alone'
  BY <1>6 DEF Inv, RunnersTyped, Started, Preflight, Alone
<1>10. ChainOK'
  <2>1. \A x \in Actors \ {m} : Waits(x)' <=> Waits(x)
    BY <1>7 DEF Waits, Preflight
  <2>2. m \in Actors /\ (Waits(m)' <=> go)
    BY <1>5, <1>7, Apart DEF Waits, Actors, Runners
  <2>3. CASE go
    BY <1>2, <2>1, <2>2, <2>3, ChainAgain DEF Inv
  <2>4. CASE ~go
    BY <1>2, <2>1, <2>2, <2>4, ChainLeave DEF Inv, Frees
  <2> QED
    BY <2>3, <2>4
<1>11. ASSUME NEW j \in Jobs
       PROVE  JobInv(j)'
  <2>1. /\ \A a \in Actors : Holder(a, j)' <=> Holder(a, j)
        /\ disk' = disk /\ runner' = runner /\ succeeded' = succeeded /\ faults' = faults
    BY <1>1, <1>2, <1>5, <1>7 DEF Holder, Preflight
  <2>2. j \notin released' => j \notin released
    BY <1>2
  <2>3. /\ mem'[j].stored = mem[j].stored /\ mem'[j].enabled = mem[j].enabled
        /\ mem'[j].last = mem[j].last /\ mem'[j].status = mem[j].status
        /\ mem'[j].running = mem[j].running \/ (mem'[j].running = Unset /\ j \in released')
        /\ mem[j].enabled /\ mem[j].next # Unset => mem'[j].next = mem[j].next
    BY <1>2, <1>3 DEF Repairs
  <2> QED
    BY <1>9, <2>1, <2>2, <2>3, RepairStep DEF Inv
<1> QED
  BY <1>7, <1>8, <1>9, <1>10, <1>11 DEF Inv

-----------------------------------------------------------------------------
(* Sections that write. *)

LEMMA Persisted ==
  ASSUME Inv, NEW s \in [Jobs -> JobType(now)], NEW ok \in BOOLEAN, Persist(s, ok), now' = now,
         timer' \in BOOLEAN, threw' \in BOOLEAN
  PROVE  /\ StoresTyped'
         /\ mem' = s
         /\ ok => disk' = s /\ faults' = faults
         /\ ~ok => disk' = disk /\ faults' = faults + 1
<1>1. /\ mem' = s
      /\ ok => disk' = s /\ faults' = faults
      /\ ~ok => disk' = disk /\ faults' = faults + 1
  BY DEF Persist
<1>2. disk' \in [Jobs -> JobType(now)] /\ faults' \in Nat
  BY <1>1 DEF Inv, StoresTyped
<1> QED
  BY <1>1, <1>2 DEF Inv, StoresTyped

LEMMA Reloads ==
  ASSUME Inv, NEW js, Reloaded(js), now' = now
  PROVE  /\ RunnersTyped'
         /\ \A a \in Runners :
              /\ runner'[a].pc = runner[a].pc
              /\ \A j \in Jobs : runner'[a].batch[j].st = runner[a].batch[j].st
         /\ Started' <=> Started
<1>1. runner \in [Runners -> RunnerType]
  BY DEF Inv, RunnersTyped
<1>2. ASSUME NEW a \in Runners
      PROVE  /\ runner'[a] \in RunnerType /\ runner'[a].pc = runner[a].pc
             /\ \A j \in Jobs : LET e == runner'[a].batch[j]
                                    x == runner[a].batch[j]
                                IN  e.st = x.st /\ e.from = x.from /\ e.to = x.to /\ e.outcome = x.outcome
  <2> DEFINE e(j) == IF j \in js /\ runner[a].batch[j].st = "waiting"
                     THEN [runner[a].batch[j] EXCEPT !.same = FALSE] ELSE runner[a].batch[j]
             b == [j \in Jobs |-> e(j)]
  <2>1. runner[a] \in RunnerType /\ runner[a].batch \in [Jobs -> EntryType]
    BY <1>1 DEF RunnerType
  <2>2. runner'[a] = [runner[a] EXCEPT !.batch = b]
    BY <1>1 DEF Reloaded
  <2>3. \A j \in Jobs : LET x == runner[a].batch[j]
                        IN  /\ e(j) \in EntryType
                            /\ e(j).st = x.st /\ e(j).from = x.from /\ e(j).to = x.to /\ e(j).outcome = x.outcome
    <3> SUFFICES ASSUME NEW j \in Jobs
                 PROVE  LET x == runner[a].batch[j]
                        IN  /\ e(j) \in EntryType
                            /\ e(j).st = x.st /\ e(j).from = x.from /\ e(j).to = x.to /\ e(j).outcome = x.outcome
      OBVIOUS
    <3> DEFINE x == runner[a].batch[j]
               y == [x EXCEPT !.same = FALSE]
    <3>1. x \in EntryType
      BY <2>1
    <3>2. e(j) \in {x, y}
      OBVIOUS
    <3> HIDE DEF x, e
    <3>3. y \in EntryType /\ y.st = x.st /\ y.from = x.from /\ y.to = x.to /\ y.outcome = x.outcome
      BY <3>1 DEF EntryType
    <3> HIDE DEF y
    <3>4. e(j) \in EntryType /\ e(j).st = x.st /\ e(j).from = x.from /\ e(j).to = x.to /\ e(j).outcome = x.outcome
      BY <3>1, <3>2, <3>3
    <3> QED
      BY <3>4 DEF x
  <2> HIDE DEF e
  <2>4. b \in [Jobs -> EntryType] /\ \A j \in Jobs : b[j] = e(j)
    BY <2>3
  <2> HIDE DEF b
  <2>5. runner'[a] \in RunnerType /\ runner'[a].pc = runner[a].pc /\ runner'[a].batch = b
    BY <2>1, <2>2, <2>4 DEF RunnerType
  <2> QED
    BY <2>3, <2>4, <2>5
<1>3. runner' \in [Runners -> RunnerType]
  BY <1>1, <1>2 DEF Reloaded
<1>4. \A a \in Runners, j \in Jobs :
       LET e == runner'[a].batch[j]
       IN  /\ e.st \in {"executing", "ended"} => e.from \in 0..now
           /\ e.st = "ended" => e.to \in 0..now /\ e.outcome \in Outcomes
           /\ runner'[a].pc \notin {"run", "apply"} => e.st = "none"
           /\ runner'[a].pc = "apply" => e.st \in {"none", "ended"}
  BY <1>2 DEF Inv, RunnersTyped
<1>5. RunnersTyped'
  BY <1>2, <1>3, <1>4 DEF Inv, RunnersTyped, Runners
<1> QED
  BY <1>2, <1>5 DEF Started, Runners

(* A repaired store keeps what a job is known by and held by.              *)
LEMMA RepairsKeep ==
  ASSUME NEW s, NEW d, NEW cleared, Repairs(s, d, cleared), NEW j \in Jobs
  PROVE  /\ Known(s[j]) <=> Known(d[j])
         /\ Held(s[j]) /\ j \notin cleared => Held(d[j])
         /\ d[j].running # Unset => d[j].running = s[j].running
         /\ d[j].stored = s[j].stored /\ d[j].enabled = s[j].enabled
  BY DEF Repairs, Known, Held

LEMMA Reads ==
  ASSUME Inv, NEW ok \in BOOLEAN, Read(ok)
  PROVE  Inv'
<1> DEFINE kept == Maintained(mem, now, FALSE)
<1>1. mem \in [Jobs -> JobType(now)] /\ now \in Nat /\ faults \in Nat
  BY CronAssumption DEF Inv, StoresTyped
<1>2. kept \in [Jobs -> JobType(now)] /\ Repairs(mem, kept, Cleared(mem, now))
  BY <1>1, MaintainedType, MaintainedFields
<1>3. /\ Persist(kept, ok) /\ Started /\ released' = released \cup Cleared(mem, now)
      /\ now' = now /\ runner' = runner /\ manual' = manual /\ chain' = chain /\ succeeded' = succeeded
      /\ timer' = timer /\ threw' = threw
  BY DEF Read
<1> HIDE DEF kept
<1>4. /\ StoresTyped' /\ mem' = kept
      /\ ok => disk' = kept /\ faults' = faults
      /\ ~ok => disk' = disk /\ faults' = faults + 1
  <2>1. timer' \in BOOLEAN /\ threw' \in BOOLEAN
    BY <1>3 DEF Inv, StoresTyped
  <2> QED
    BY <1>2, <1>3, <2>1, Persisted
<1>5. RunnersTyped' /\ CallsTyped' /\ (Started' <=> Started) /\ Alone'
  BY <1>3 DEF Inv, RunnersTyped, CallsTyped, Started, Alone
<1>6. ChainOK'
  BY <1>3, ChainStays DEF Inv, Waits
<1>7. ASSUME NEW j \in Jobs
      PROVE  JobInv(j)'
  <2>1. \A a \in Actors : Holder(a, j)' <=> Holder(a, j)
    BY <1>3 DEF Holder
  <2>2. Claimed(j)' <=> Claimed(j)
    BY <2>1 DEF Claimed
  <2> QED
    BY <1>1, <1>2, <1>3, <1>4, <1>5, <2>1, <2>2, RepairsKeep, WriteStep DEF Inv
<1> QED
  BY <1>4, <1>5, <1>6, <1>7 DEF Inv

LEMMA NewJobType ==
  ASSUME NEW j \in Jobs, NEW t \in Nat
  PROVE  LET d == [NewJob EXCEPT !.next = NextRun(NewJob, j, t)]
         IN  /\ d \in JobType(t)
             /\ d.stored /\ d.enabled /\ d.running = Unset
<1> DEFINE n == NextRun(NewJob, j, t)
           d == [NewJob EXCEPT !.next = n]
<1>1. NewJob \in JobType(t) /\ NewJob.stored /\ NewJob.enabled /\ NewJob.running = Unset
  BY CronAssumption DEF NewJob, JobType, Unset
<1>2. n \in Nat \cup {Unset}
  BY <1>1, NextRunType DEF JobType, Unset
<1> HIDE DEF n
<1>3. d \in JobType(t) /\ d.stored /\ d.enabled /\ d.running = Unset
  BY <1>1, <1>2 DEF JobType
<1> QED
  BY <1>3 DEF n

LEMMA AbsentType ==
  ASSUME NEW t \in Nat
  PROVE  Absent \in JobType(t) /\ ~Absent.stored /\ ~Absent.enabled /\ Absent.running = Unset /\ ~Known(Absent)
<1>1. NewJob \in JobType(t) /\ NewJob.status = "none" /\ NewJob.running = Unset
  BY CronAssumption DEF NewJob, JobType, Unset
<1> QED
  BY <1>1 DEF Absent, JobType, Known

LEMMA ArmsIf ==
  ASSUME Inv, NEW s, NEW ok \in BOOLEAN, ArmIf(ok, s)
  PROVE  timer' \in BOOLEAN /\ threw' \in BOOLEAN
  BY DEF Inv, StoresTyped, ArmIf, ArmTimer, Throws

LEMMA Adds ==
  ASSUME Inv, NEW k \in Jobs, NEW ok \in BOOLEAN, Add(k, ok)
  PROVE  Inv'
<1> DEFINE d == [NewJob EXCEPT !.next = NextRun(NewJob, k, now)]
           s == [mem EXCEPT ![k] = d]
           all == AllRecomputed(s, now)
<1>1. mem \in [Jobs -> JobType(now)] /\ now \in Nat /\ faults \in Nat
  BY CronAssumption DEF Inv, StoresTyped
<1>2. /\ mem[k] = Absent /\ Started /\ Persist(all, ok) /\ released' = released \cup Cleared(s, now)
      /\ ArmIf(ok, all)
      /\ now' = now /\ runner' = runner /\ manual' = manual /\ chain' = chain /\ succeeded' = succeeded
  BY DEF Add, Edited
<1>3. d \in JobType(now) /\ d.stored /\ d.enabled /\ d.running = Unset
  BY <1>1, NewJobType
<1> HIDE DEF d
<1>4. s \in [Jobs -> JobType(now)] /\ s[k] = d /\ \A j \in Jobs \ {k} : s[j] = mem[j]
  BY <1>1, <1>3
<1> HIDE DEF s
<1>5. all \in [Jobs -> JobType(now)] /\ Repairs(s, all, Cleared(s, now))
  BY <1>1, <1>4, AllRecomputedFields
<1> HIDE DEF all
<1>6. /\ StoresTyped' /\ mem' = all
      /\ ok => disk' = all /\ faults' = faults
      /\ ~ok => disk' = disk /\ faults' = faults + 1
  BY <1>2, <1>5, ArmsIf, Persisted
<1>7. RunnersTyped' /\ CallsTyped' /\ (Started' <=> Started) /\ Alone'
  BY <1>2 DEF Inv, RunnersTyped, CallsTyped, Started, Alone
<1>8. ChainOK'
  BY <1>2, ChainStays DEF Inv, Waits
<1>9. ASSUME NEW j \in Jobs
      PROVE  JobInv(j)'
  <2>1. \A a \in Actors : Holder(a, j)' <=> Holder(a, j)
    BY <1>2 DEF Holder
  <2>2. Claimed(j)' <=> Claimed(j)
    BY <2>1 DEF Claimed
  <2>3. JobInv(j)
    BY DEF Inv
  <2>4. CASE j # k
    BY <1>1, <1>2, <1>4, <1>5, <1>6, <1>7, <2>1, <2>2, <2>3, <2>4, RepairsKeep, WriteStep
  <2>5. CASE j = k
    <3>1. ~Known(mem[j])
      BY <1>1, <1>2, <2>5, AbsentType
    <3>2. ~Claimed(j) /\ j \notin succeeded
      BY <1>2, <2>3, <3>1 DEF JobInv, Remembered
    <3>3. mem'[j].running = Unset
      BY <1>3, <1>4, <1>5, <1>6, <2>5, RepairsKeep
    <3>4. Remembered(j)' /\ Finished(j)' /\ NoneWaits(j)'
      BY <1>2, <2>2, <3>2 DEF Remembered, Finished, NoneWaits
    <3>5. Marked(j)'
      BY <2>2, <3>2 DEF Marked, Claimed
    <3>6. Owned(j)' /\ Synced(j)'
      BY <1>1, <1>6, <3>3 DEF Owned, Synced
    <3> QED
      BY <3>4, <3>5, <3>6 DEF JobInv
  <2> QED
    BY <2>4, <2>5
<1> QED
  BY <1>6, <1>7, <1>8, <1>9 DEF Inv

LEMMA Removes ==
  ASSUME Inv, NEW k \in Jobs, NEW ok \in BOOLEAN, Remove(k, ok)
  PROVE  Inv'
<1> DEFINE d == [Absent EXCEPT !.status = "ok"]
           s == [mem EXCEPT ![k] = d]
<1>1. mem \in [Jobs -> JobType(now)] /\ now \in Nat /\ faults \in Nat
  BY CronAssumption DEF Inv, StoresTyped
<1>2. /\ Started /\ Persist(s, ok) /\ ArmIf(ok, s)
      /\ now' = now /\ runner' = runner /\ manual' = manual /\ chain' = chain /\ succeeded' = succeeded
      /\ released' = released
  BY DEF Remove, Edited
<1>3. d \in JobType(now) /\ ~d.stored /\ ~d.enabled /\ d.status = "ok"
  BY <1>1, AbsentType DEF JobType
<1> HIDE DEF d
<1>4. s \in [Jobs -> JobType(now)] /\ s[k] = d /\ \A j \in Jobs \ {k} : s[j] = mem[j]
  BY <1>1, <1>3
<1> HIDE DEF s
<1>5. /\ StoresTyped' /\ mem' = s
      /\ ok => disk' = s /\ faults' = faults
      /\ ~ok => disk' = disk /\ faults' = faults + 1
  BY <1>2, <1>4, ArmsIf, Persisted
<1>6. RunnersTyped' /\ CallsTyped' /\ (Started' <=> Started) /\ Alone'
  BY <1>2 DEF Inv, RunnersTyped, CallsTyped, Started, Alone
<1>7. ChainOK'
  BY <1>2, ChainStays DEF Inv, Waits
<1>8. ASSUME NEW j \in Jobs
      PROVE  JobInv(j)'
  <2>1. \A a \in Actors : Holder(a, j)' <=> Holder(a, j)
    BY <1>2 DEF Holder
  <2>2. Claimed(j)' <=> Claimed(j)
    BY <2>1 DEF Claimed
  <2>3. JobInv(j)
    BY DEF Inv
  <2>4. mem'[j] = IF j = k THEN d ELSE mem[j]
    BY <1>4, <1>5
  <2>5. Known(d) /\ Held(d)
    BY <1>3 DEF Known, Held
  <2> QED
    BY <1>1, <1>2, <1>3, <1>5, <1>6, <2>1, <2>2, <2>3, <2>4, <2>5, WriteStep
<1> QED
  BY <1>5, <1>6, <1>7, <1>8 DEF Inv

LEMMA SetsEnabled ==
  ASSUME Inv, NEW k \in Jobs, NEW enabled \in BOOLEAN, NEW ok \in BOOLEAN, SetEnabled(k, enabled, ok)
  PROVE  Inv'
<1> DEFINE r == [mem[k] EXCEPT !.enabled = enabled]
           n == NextRun(r, k, now)
           g == IF enabled THEN r.running ELSE Unset
           d == [r EXCEPT !.next = n, !.running = g]
           s == [mem EXCEPT ![k] = d]
<1>1. /\ mem \in [Jobs -> JobType(now)] /\ now \in Nat /\ faults \in Nat
      /\ mem[k] \in JobType(now) /\ mem[k].stored
  BY CronAssumption DEF Inv, StoresTyped, SetEnabled
<1>2. /\ Started /\ Persist(s, ok) /\ ArmIf(ok, s) /\ Reloaded({k})
      /\ released' = (IF enabled THEN released ELSE released \cup {k})
      /\ succeeded' = (IF enabled THEN succeeded \ {k} ELSE succeeded)
      /\ now' = now /\ manual' = manual /\ chain' = chain
  <2>1. s = [mem EXCEPT ![k] = [r EXCEPT !.next = NextRun(r, k, now), !.running = IF enabled THEN @ ELSE Unset]]
    BY Zenon
  <2> HIDE DEF s
  <2> QED
    BY <2>1 DEF SetEnabled, Edited
<1>3. /\ r \in JobType(now) /\ r.stored /\ r.enabled = enabled
      /\ r.running = mem[k].running /\ r.last = mem[k].last /\ r.status = mem[k].status
  BY <1>1 DEF JobType
<1> HIDE DEF r
<1>4. n \in Nat \cup {Unset}
  <2>1. r.enabled \in BOOLEAN /\ r.last \in Int /\ r.last >= Unset
    BY <1>1, <1>3 DEF JobType, Unset
  <2> QED
    BY <1>1, <2>1, NextRunType
<1>5. g \in Unset..now /\ g = IF enabled THEN mem[k].running ELSE Unset
  BY <1>1, <1>3 DEF JobType, Unset
<1> HIDE DEF n, g
<1>6. /\ d \in JobType(now) /\ d.stored /\ d.enabled = enabled /\ d.running = g
  BY <1>3, <1>4, <1>5 DEF JobType
<1> HIDE DEF d
<1>7. s \in [Jobs -> JobType(now)] /\ s[k] = d /\ \A j \in Jobs \ {k} : s[j] = mem[j]
  BY <1>1, <1>6
<1> HIDE DEF s
<1>8. /\ StoresTyped' /\ mem' = s
      /\ ok => disk' = s /\ faults' = faults
      /\ ~ok => disk' = disk /\ faults' = faults + 1
  BY <1>2, <1>7, ArmsIf, Persisted
<1>9. /\ RunnersTyped' /\ (Started' <=> Started)
      /\ \A a \in Runners : /\ runner'[a].pc = runner[a].pc
                            /\ \A j \in Jobs : runner'[a].batch[j].st = runner[a].batch[j].st
  BY <1>2, Reloads
<1>10. CallsTyped' /\ Alone'
  BY <1>2, <1>9 DEF Inv, CallsTyped, Alone
<1>11. ChainOK'
  <2>1. \A a \in Actors : Waits(a)' <=> Waits(a)
    BY <1>2, <1>9 DEF Waits
  <2> QED
    BY <1>2, <2>1, ChainStays DEF Inv
<1>12. ASSUME NEW j \in Jobs
       PROVE  JobInv(j)'
  <2>1. \A a \in Actors : Holder(a, j)' <=> Holder(a, j)
    BY <1>2, <1>9 DEF Holder
  <2>2. Claimed(j)' <=> Claimed(j)
    BY <2>1 DEF Claimed
  <2>3. JobInv(j)
    BY DEF Inv
  <2>4. mem'[j] = IF j = k THEN d ELSE mem[j]
    BY <1>7, <1>8
  <2>5. Started' /\ (j \notin released' => j \notin released) /\ (j \in succeeded' => j \in succeeded)
    BY <1>2, <1>9
  <2>6. CASE j # k
    BY <1>1, <1>2, <1>8, <1>9, <2>1, <2>2, <2>3, <2>4, <2>5, <2>6, WriteStep
  <2>7. CASE j = k /\ ~enabled
    <3>1. Known(d) /\ d.running = Unset /\ j \in released'
      BY <1>2, <1>5, <1>6, <2>7 DEF Known
    <3> QED
      BY <1>1, <1>2, <1>6, <1>8, <1>9, <2>1, <2>2, <2>3, <2>4, <2>5, <2>7, <3>1, WriteStep
  <2>8. CASE j = k /\ enabled
    <3>1. Known(d) /\ d.stored = mem[j].stored /\ d.running = mem[j].running /\ j \notin succeeded'
      BY <1>1, <1>2, <1>5, <1>6, <2>8 DEF Known
    <3>2. Held(mem[j]) => Held(d)
      BY <3>1, <1>1, <2>8 DEF Held
    <3>3. mem'[j] = d
      BY <2>4, <2>8
    <3>4. Remembered(j)'
      BY <1>2, <1>8, <2>2, <2>3, <3>1, <3>3 DEF JobInv, Remembered
    <3>5. Marked(j)'
      BY <1>8, <2>1, <2>2, <2>3, <2>5, <3>2, <3>3 DEF JobInv, Marked
    <3>6. Finished(j)' /\ NoneWaits(j)'
      BY <3>1 DEF Finished, NoneWaits
    <3>7. Owned(j)' /\ Synced(j)'
      BY <1>1, <1>2, <1>8, <2>2, <2>3, <3>1, <3>3 DEF JobInv, Owned, Synced
    <3> QED
      BY <3>4, <3>5, <3>6, <3>7 DEF JobInv
  <2> QED
    BY <2>6, <2>7, <2>8
<1> QED
  BY <1>8, <1>9, <1>10, <1>11, <1>12 DEF Inv

(* A job that nobody has reserved or whose marker is gone gets a run.      *)
LEMMA ReserveStep ==
  ASSUME NEW j \in Jobs, RunnersTyped, JobInv(j), Started, Started', faults \in Nat,
         NEW base, base = disk[j] \/ base = mem[j], ~Held(base), Known(base),
         mem'[j].stored, mem'[j].running # Unset, mem'[j].enabled = base.enabled,
         disk'[j] = mem'[j], faults' = faults,
         NEW x \in Actors, \A a \in Actors : Holder(a, j)' => Holder(a, j) \/ a = x, Holder(x, j)',
         \A a \in Runners : runner'[a].batch[j].st = "waiting" =>
                             runner[a].batch[j].st = "waiting" \/ base.enabled,
         succeeded' = succeeded,
         j \notin released' => j \notin released \/ Claims(j) = {}
  PROVE  JobInv(j)'
<1>1. Claims(j) = {} => ~Claimed(j)
  BY ClaimsAreHeld DEF Claimed
<1>2. j \notin released => ~Claimed(j)
  BY DEF JobInv, Marked
<1>3. j \notin released' => ~Claimed(j)
  BY <1>1, <1>2
<1>4. Claimed(j)'
  BY DEF Claimed
<1>5. Remembered(j)'
  BY DEF Remembered, Known
<1>6. Marked(j)'
  BY <1>3 DEF Marked, Claimed, Held
<1>7. Finished(j)'
  BY DEF JobInv, Finished
<1>8. NoneWaits(j)'
  <2> SUFFICES ASSUME j \in succeeded, j \notin released', NEW a \in Runners, runner'[a].batch[j].st = "waiting"
               PROVE  FALSE
    BY DEF NoneWaits
  <2>1. ~base.enabled
    BY DEF JobInv, Finished
  <2>2. Holder(a, j) /\ a \in Actors
    BY <2>1 DEF Holder, Actors
  <2> QED
    BY <1>3, <2>2 DEF Claimed
<1>9. Owned(j)' /\ Synced(j)'
  BY <1>4 DEF Owned, Synced
<1> QED
  BY <1>5, <1>6, <1>7, <1>8, <1>9 DEF JobInv

(* A write that fails leaves a marker without a run in memory.             *)
LEMMA FailedStep ==
  ASSUME NEW j \in Jobs, JobInv(j), Started, faults' # 0,
         NEW base, base = disk[j] \/ base = mem[j], ~Held(base),
         Known(mem'[j]), mem'[j].enabled => base.enabled, disk'[j] = disk[j],
         \A a \in Actors : Holder(a, j)' => Holder(a, j),
         \A a \in Runners : runner'[a].batch[j].st = "waiting" => runner[a].batch[j].st = "waiting",
         succeeded' = succeeded, released' = released
  PROVE  JobInv(j)'
<1>1. Claimed(j)' => Claimed(j)
  BY DEF Claimed
<1>2. Remembered(j)'
  BY <1>1 DEF JobInv, Remembered
<1>3. Marked(j)'
  BY <1>1 DEF JobInv, Marked
<1>4. Finished(j)' /\ NoneWaits(j)'
  BY DEF JobInv, Finished, NoneWaits
<1>5. Owned(j)' /\ Synced(j)'
  BY DEF Owned, Synced
<1> QED
  BY <1>2, <1>3, <1>4, <1>5 DEF JobInv

LEMMA ReservesManual ==
  ASSUME Inv, NEW m \in ManualRuns, NEW ok \in BOOLEAN, Reserve(m, ok)
  PROVE  Inv'
<1> DEFINE w == manual[m]
           k == w.job
           d == [mem[k] EXCEPT !.running = w.from]
           s == [mem EXCEPT ![k] = d]
           go == mem[k].stored /\ mem[k].running = Unset
           c == IF go /\ ok THEN [w EXCEPT !.pc = "run"] ELSE Over
<1>1. /\ w \in CallType /\ w.pc = "reserve" /\ k \in Jobs /\ w.from \in 0..now
      /\ now \in 0..MaxTime /\ now \in Nat /\ faults \in Nat
      /\ mem \in [Jobs -> JobType(now)] /\ mem[k] \in JobType(now)
  BY CronAssumption DEF Inv, StoresTyped, CallsTyped, Reserve
<1>2. /\ manual' = [manual EXCEPT ![m] = c] /\ w = manual[m] /\ (ok \/ go) /\ Holds(m) /\ Frees
      /\ go => Persist(s, ok)
      /\ ~go => mem' = mem /\ disk' = disk /\ faults' = faults
      /\ go /\ ok => Reserves({k})
      /\ ~(go /\ ok) => released' = released
      /\ now' = now /\ timer' = timer /\ threw' = threw /\ runner' = runner /\ succeeded' = succeeded
  <2>1. s = [mem EXCEPT ![w.job].running = w.from]
    BY Zenon
  <2> HIDE DEF s
  <2> QED
    BY <2>1 DEF Reserve
<1> HIDE DEF w
<1>3. /\ d \in JobType(now) /\ d.stored = mem[k].stored /\ d.enabled = mem[k].enabled
      /\ d.status = mem[k].status /\ d.running = w.from /\ w.from # Unset
  BY <1>1 DEF JobType, Unset
<1> HIDE DEF d
<1>4. s \in [Jobs -> JobType(now)] /\ s[k] = d /\ \A j \in Jobs \ {k} : s[j] = mem[j]
  BY <1>1, <1>3
<1>5. go => mem[k].stored /\ mem[k].running = Unset
  OBVIOUS
<1> HIDE DEF s, go
<1>6. c \in CallType /\ c.pc = (IF go /\ ok THEN "run" ELSE "done")
      /\ (go /\ ok => c.job = k /\ c.from = w.from)
  BY <1>1, CallTypes DEF CallType
<1> HIDE DEF c
<1>7. Started
  BY <1>1, <1>2 DEF Inv, Alone
<1>8. /\ CallsTyped'
      /\ \A x \in ManualRuns \ {m} : manual'[x] = manual[x]
      /\ manual'[m] = c
  <2>1. c.pc \in {"run", "done"} /\ (c.pc = "run" => c.from \in 0..now /\ c.job \in Jobs)
    BY <1>1, <1>6
  <2> QED
    BY <1>2, <1>6, <1>7, <2>1, CallMoves
<1>9. /\ StoresTyped'
      /\ go => /\ mem' = s
               /\ ok => disk' = s /\ faults' = faults
               /\ ~ok => disk' = disk /\ faults' = faults + 1
  <2>1. timer' \in BOOLEAN /\ threw' \in BOOLEAN
    BY <1>2 DEF Inv, StoresTyped
  <2>2. CASE go
    BY <1>2, <1>4, <2>1, <2>2, Persisted
  <2>3. CASE ~go
    BY <1>2, <2>3 DEF Inv, StoresTyped
  <2> QED
    BY <2>2, <2>3
<1>10. RunnersTyped' /\ (Started' <=> Started) /\ Alone'
  BY <1>2, <1>7 DEF Inv, RunnersTyped, Started, Alone
<1>11. ChainOK'
  <2>1. \A x \in Actors \ {m} : Waits(x)' <=> Waits(x)
    BY <1>2, <1>8 DEF Waits
  <2>2. m \in Actors /\ ~Waits(m)'
    BY <1>6, <1>8, Apart DEF Waits, Actors, Runners
  <2> QED
    BY <1>2, <2>1, <2>2, ChainLeave DEF Inv
<1>12. ASSUME NEW j \in Jobs
       PROVE  JobInv(j)'
  <2>1. JobInv(j)
    BY DEF Inv
  <2>2. ~Holder(m, j) /\ (Holder(m, j)' <=> go /\ ok /\ j = k)
    BY <1>1, <1>2, <1>6, <1>8, Apart DEF Holder, Runners
  <2>3. \A a \in Actors \ {m} : Holder(a, j)' <=> Holder(a, j)
    BY <1>2, <1>8 DEF Holder
  <2>4. ~(go /\ ok /\ j = k) => (Claimed(j)' <=> Claimed(j))
    BY <2>2, <2>3 DEF Claimed
  <2>5. CASE ~go
    <3>1. SameRuns(j)
      BY <1>2, <2>2, <2>3, <2>5 DEF SameRuns
    <3> QED
      BY <1>2, <1>10, <2>1, <2>5, <3>1, FrameStep
  <2>6. CASE go /\ j # k
    <3>1. j \notin released' => j \notin released
      BY <1>2, <2>6 DEF Reserves
    <3>2. mem'[j] = mem[j]
      BY <1>4, <1>9, <2>6
    <3> QED
      BY <1>1, <1>2, <1>7, <1>9, <1>10, <2>1, <2>2, <2>3, <2>4, <2>6, <3>1, <3>2, WriteStep
  <2>7. CASE go /\ j = k /\ ok
    <3>1. ~Held(mem[j]) /\ Known(mem[j])
      BY <1>5, <2>7 DEF Held, Known
    <3>2. mem'[j] = d /\ disk'[j] = d /\ faults' = faults
      BY <1>4, <1>9, <2>7
    <3>3. j \notin released' => j \notin released \/ Claims(j) = {}
      BY <1>2, <2>7 DEF Reserves
    <3>4. m \in Actors /\ RunnersTyped
      BY DEF Actors, Inv
    <3>5. d.stored /\ d.running # Unset /\ d.enabled = mem[j].enabled
      BY <1>3, <1>5, <2>7
    <3> QED
      BY <1>1, <1>2, <1>7, <1>10, <2>1, <2>2, <2>3, <2>7, <3>1, <3>2, <3>3, <3>4, <3>5, ReserveStep
  <2>8. CASE go /\ j = k /\ ~ok
    <3>1. mem'[j] = d /\ disk'[j] = disk[j] /\ faults' # 0 /\ released' = released
      BY <1>1, <1>2, <1>4, <1>9, <2>8
    <3>2. ~Held(mem[j]) /\ Known(d) /\ (d.enabled => mem[j].enabled)
      BY <1>3, <1>5, <2>8 DEF Held, Known
    <3> QED
      BY <1>2, <1>7, <2>1, <2>2, <2>3, <2>8, <3>1, <3>2, FailedStep
  <2> QED
    BY <2>5, <2>6, <2>7, <2>8
<1> QED
  BY <1>8, <1>9, <1>10, <1>11, <1>12 DEF Inv

LEMMA Finishes ==
  ASSUME Inv, NEW m \in ManualRuns, NEW ok \in BOOLEAN, Finish(m, ok)
  PROVE  Inv'
<1> DEFINE w == manual[m]
           k == w.job
           r == Applied(mem[k], k, w.outcome, w.from, w.to, w.force)
           merged == IF disk[k].stored THEN [disk EXCEPT ![k] = r] ELSE disk
           kept == Maintained(merged, now, TRUE)
<1>1. /\ w \in CallType /\ w.pc = "finish" /\ k \in Jobs /\ w.from \in 0..now /\ w.to \in 0..now
      /\ w.outcome \in Outcomes /\ w.force \in BOOLEAN
      /\ now \in 0..MaxTime /\ now \in Nat /\ faults \in Nat
      /\ mem \in [Jobs -> JobType(now)] /\ mem[k] \in JobType(now)
      /\ disk \in [Jobs -> JobType(now)]
  BY CronAssumption DEF Inv, StoresTyped, CallsTyped, CallType, Finish
<1>2. /\ manual' = [manual EXCEPT ![m] = Over] /\ w = manual[m] /\ Holds(m) /\ Frees /\ now' = now
      /\ mem[k].stored =>
           /\ Persist(kept, ok) /\ ArmIf(ok, kept) /\ Reloaded(Jobs)
           /\ released' = released \cup Cleared(merged, now)
           /\ succeeded' = IF ok /\ KindOf[k] = "at" /\ w.outcome = "ok" THEN succeeded \cup {k} ELSE succeeded
      /\ ~mem[k].stored =>
           /\ mem' = mem /\ disk' = disk /\ timer' = timer /\ threw' = threw /\ runner' = runner
           /\ faults' = faults /\ released' = released /\ succeeded' = succeeded
  BY DEF Finish
<1>3. mem[k].stored =>
        /\ r \in JobType(now) /\ Known(r) /\ r.running = Unset
        /\ r.enabled => mem[k].enabled
        /\ KindOf[k] = "at" /\ w.outcome = "ok" => ~r.enabled
  <2>1. w.from \in Unset..now
    BY <1>1 DEF Unset
  <2> HIDE DEF w
  <2> QED
    BY <1>1, <2>1, AppliedFields
<1> HIDE DEF w, r
<1>4. mem[k].stored =>
        /\ merged \in [Jobs -> JobType(now)]
        /\ \A j \in Jobs : merged[j] = IF j = k /\ disk[k].stored THEN r ELSE disk[j]
  BY <1>1, <1>3
<1> HIDE DEF merged
<1>5. mem[k].stored => kept \in [Jobs -> JobType(now)] /\ Repairs(merged, kept, Cleared(merged, now))
  BY <1>1, <1>4, MaintainedType, MaintainedFields
<1> HIDE DEF kept
<1>6. Started
  BY <1>1, <1>2 DEF Inv, Alone
<1>7. /\ CallsTyped'
      /\ \A x \in ManualRuns \ {m} : manual'[x] = manual[x]
      /\ manual'[m] = Over
  BY <1>2, <1>6, CallTypes, CallMoves
<1>8. /\ StoresTyped'
      /\ mem[k].stored => /\ mem' = kept
                          /\ ok => disk' = kept /\ faults' = faults
                          /\ ~ok => disk' = disk /\ faults' = faults + 1
  <2>1. CASE mem[k].stored
    BY <1>2, <1>5, <2>1, ArmsIf, Persisted
  <2>2. CASE ~mem[k].stored
    BY <1>2, <2>2 DEF Inv, StoresTyped
  <2> QED
    BY <2>1, <2>2
<1>9. /\ RunnersTyped' /\ (Started' <=> Started)
      /\ \A a \in Runners : /\ runner'[a].pc = runner[a].pc
                            /\ \A j \in Jobs : runner'[a].batch[j].st = runner[a].batch[j].st
  <2>1. CASE mem[k].stored
    BY <1>2, <2>1, Reloads
  <2>2. CASE ~mem[k].stored
    BY <1>2, <2>2 DEF Inv, RunnersTyped, Started
  <2> QED
    BY <2>1, <2>2
<1>10. Alone'
  BY <1>6, <1>9 DEF Alone
<1>11. ChainOK'
  <2>1. \A x \in Actors \ {m} : Waits(x)' <=> Waits(x)
    BY <1>7, <1>9 DEF Waits
  <2>2. m \in Actors /\ ~Waits(m)'
    BY <1>7, Apart, CallTypes DEF Waits, Actors, Runners
  <2> QED
    BY <1>2, <2>1, <2>2, ChainLeave DEF Inv
<1>12. ASSUME NEW j \in Jobs
       PROVE  JobInv(j)'
  <2>1. JobInv(j) /\ m \in Actors
    BY DEF Inv, Actors
  <2>2. (Holder(m, j) <=> j = k) /\ ~Holder(m, j)'
    BY <1>1, <1>2, <1>7, Apart, CallTypes DEF Holder, Runners
  <2>3. \A a \in Actors \ {m} : Holder(a, j)' <=> Holder(a, j)
    BY <1>7, <1>9 DEF Holder
  <2>4. (Claimed(j)' => Claimed(j)) /\ (j # k => (Claimed(j)' <=> Claimed(j)))
    BY <2>2, <2>3 DEF Claimed
  <2>5. CASE ~mem[k].stored /\ j # k
    <3>1. SameRuns(j)
      BY <1>2, <1>9, <2>2, <2>3, <2>5 DEF SameRuns
    <3> QED
      BY <1>2, <1>9, <2>1, <2>5, <3>1, FrameStep
  <2>6. CASE ~mem[k].stored /\ j = k
    <3>1. mem' = mem /\ disk' = disk /\ faults' = faults /\ released' = released /\ succeeded' = succeeded
      BY <1>2, <2>6
    <3>2. Remembered(j)' /\ Finished(j)' /\ Synced(j)'
      BY <1>9, <2>1, <2>4, <3>1 DEF JobInv, Remembered, Finished, Synced
    <3>3. Marked(j)'
      BY <2>1, <2>2, <2>3, <2>4, <3>1 DEF JobInv, Marked
    <3>4. NoneWaits(j)'
      BY <1>9, <2>1, <3>1 DEF JobInv, NoneWaits
    <3>5. Owned(j)'
      BY <1>9, <2>1, <2>6, <3>1 DEF JobInv, Owned, Synced
    <3> QED
      BY <3>2, <3>3, <3>4, <3>5 DEF JobInv
  <2>7. CASE mem[k].stored /\ j # k
    <3>1. Repairs(merged, kept, Cleared(merged, now)) /\ merged[j] = disk[j] /\ mem'[j] = kept[j]
      BY <1>4, <1>5, <1>8, <2>7
    <3>2. (j \in succeeded' => j \in succeeded) /\ released' = released \cup Cleared(merged, now)
      BY <1>2, <2>7
    <3>3. /\ Known(disk[j]) <=> Known(mem'[j])
          /\ Held(disk[j]) /\ j \notin released' => Held(mem'[j])
          /\ mem'[j].running # Unset => disk[j].running # Unset
          /\ mem'[j].stored = disk[j].stored /\ mem'[j].enabled = disk[j].enabled
      BY <3>1, <3>2, RepairsKeep
    <3>4. (mem'[j] = disk'[j] /\ faults' = faults) \/ (disk'[j] = disk[j] /\ faults' = faults + 1)
      BY <1>8, <2>7
    <3>5. \A a \in Actors : Holder(a, j)' => Holder(a, j)
      BY <2>2, <2>3
    <3> QED
      BY <1>1, <1>6, <1>9, <2>1, <2>4, <2>7, <3>2, <3>3, <3>4, <3>5, WriteStep
  <2>8. CASE mem[k].stored /\ j = k
    <3>1. /\ Repairs(merged, kept, Cleared(merged, now)) /\ mem'[j] = kept[j]
          /\ merged[j] = IF disk[j].stored THEN r ELSE disk[j]
      BY <1>4, <1>5, <1>8, <2>8
    <3>2. released' = released \cup Cleared(merged, now)
      BY <1>2, <2>8
    <3>3. /\ Known(merged[j]) <=> Known(mem'[j])
          /\ mem'[j].running # Unset => merged[j].running # Unset
          /\ mem'[j].stored = merged[j].stored /\ mem'[j].enabled = merged[j].enabled
      BY <3>1, RepairsKeep
    <3>4. (mem'[j] = disk'[j] /\ faults' = faults) \/ (disk'[j] = disk[j] /\ faults' = faults + 1)
      BY <1>8, <2>8
    <3>5. Claimed(j) /\ Known(disk[j])
      BY <2>1, <2>2, <2>8 DEF Claimed, JobInv, Remembered
    <3>6. Remembered(j)'
      BY <1>3, <2>8, <3>1, <3>3, <3>4, <3>5 DEF Remembered
    <3>7. j \notin released' => \A a \in Actors : Holder(a, j) => a = m
      BY <2>1, <2>2, <2>8, <3>2 DEF JobInv, Marked
    <3>8. Marked(j)'
      BY <2>2, <2>3, <3>7 DEF Marked, Claimed
    <3>9. disk[j] \in JobType(now)
      BY <1>1
    <3>10. disk[j].enabled => disk[j].stored
      BY <3>9 DEF JobType
    <3>11. Finished(j)'
      <4>1. CASE j \in succeeded
        <5>1. ~mem[j].enabled /\ ~disk[j].enabled
          BY <2>1, <4>1 DEF JobInv, Finished
        <5>2. ~mem'[j].enabled
          BY <1>3, <2>8, <3>1, <3>3, <5>1
        <5> QED
          BY <3>4, <5>1, <5>2 DEF Finished
      <4>2. CASE j \notin succeeded
        <5>1. SUFFICES ASSUME j \in succeeded'
                       PROVE  ~mem'[j].enabled /\ ~disk'[j].enabled
          BY DEF Finished
        <5>2. ok /\ KindOf[k] = "at" /\ w.outcome = "ok"
          BY <1>2, <2>8, <4>2, <5>1
        <5>3. ~mem'[j].enabled
          BY <1>3, <2>8, <3>1, <3>3, <3>10, <5>2
        <5>4. disk'[j] = mem'[j]
          BY <1>8, <2>8, <5>2
        <5> QED
          BY <5>3, <5>4
      <4> QED
        BY <4>1, <4>2
    <3>12. NoneWaits(j)'
      <4> SUFFICES ASSUME j \notin released', NEW a \in Runners
                   PROVE  runner'[a].batch[j].st # "waiting"
        BY DEF NoneWaits
      <4>1. ~Holder(a, j)
        BY <3>7, Apart DEF Actors, Runners
      <4> QED
        BY <1>9, <4>1 DEF Holder
    <3>13. mem'[j].stored => mem'[j].running = Unset
      BY <1>3, <2>8, <3>1, <3>3
    <3>14. Owned(j)' /\ Synced(j)'
      BY <1>1, <3>4, <3>13 DEF Owned, Synced
    <3> QED
      BY <3>6, <3>8, <3>11, <3>12, <3>14 DEF JobInv
  <2> QED
    BY <2>5, <2>6, <2>7, <2>8
<1> QED
  BY <1>7, <1>8, <1>9, <1>10, <1>11, <1>12 DEF Inv

-----------------------------------------------------------------------------
(* The sections of the timer and of a start. *)

Fresh(set) == [j \in Jobs |-> IF j \in set THEN Waiting ELSE NoBatch[j]]

LEMMA BatchTypes ==
  /\ \A set : Fresh(set) \in [Jobs -> EntryType]
  /\ \A set, j : j \in Jobs => Fresh(set)[j].st = IF j \in set THEN "waiting" ELSE "none"
  /\ Quiet \in RunnerType /\ Quiet.pc = "off" /\ \A j \in Jobs : Quiet.batch[j].st = "none"
<1>1. Unset \in Int
  BY DEF Unset
<1>2. Waiting \in EntryType /\ Waiting.st = "waiting"
  BY <1>1 DEF Waiting, EntryType
<1>3. \A j \in Jobs : NoBatch[j] \in EntryType /\ NoBatch[j].st = "none"
  BY <1>2 DEF NoBatch, EntryType
<1>4. NoBatch \in [Jobs -> EntryType]
  BY <1>3 DEF NoBatch
<1>5. Quiet \in RunnerType /\ Quiet.pc = "off" /\ Quiet.batch = NoBatch
  BY <1>4 DEF Quiet, RunnerType
<1>6. \A set : Fresh(set) \in [Jobs -> EntryType]
  BY <1>2, <1>3 DEF Fresh
<1>7. \A set, j : j \in Jobs => Fresh(set)[j].st = IF j \in set THEN "waiting" ELSE "none"
  BY <1>2, <1>3 DEF Fresh
<1> QED
  BY <1>3, <1>5, <1>6, <1>7

LEMMA RunnerMoves ==
  ASSUME Inv, NEW a \in Runners, NEW d \in RunnerType, runner' = Set(a, d), now' = now,
         d.pc \in IF a = "tick" THEN {"off", "collect", "run", "apply"}
                  ELSE {"mark", "plan", "run", "apply", "arm", "off"},
         \A j \in Jobs : d.batch[j].st \in {"none", "waiting"},
         d.pc # "run" => \A j \in Jobs : d.batch[j].st = "none"
  PROVE  /\ RunnersTyped'
         /\ \A x \in Runners \ {a} : runner'[x] = runner[x]
         /\ runner'[a] = d
<1>1. /\ runner' \in [Runners -> RunnerType] /\ runner'[a] = d
      /\ \A x \in Runners \ {a} : runner'[x] = runner[x]
  BY DEF Inv, RunnersTyped, Set
<1>2. ASSUME NEW x \in Runners, NEW j \in Jobs
      PROVE  LET e == runner'[x].batch[j]
             IN  /\ e.st \in {"executing", "ended"} => e.from \in 0..now
                 /\ e.st = "ended" => e.to \in 0..now /\ e.outcome \in Outcomes
                 /\ runner'[x].pc \notin {"run", "apply"} => e.st = "none"
                 /\ runner'[x].pc = "apply" => e.st \in {"none", "ended"}
  <2>1. CASE x = a
    BY <1>1, <2>1
  <2>2. CASE x # a
    BY <1>1, <2>2 DEF Inv, RunnersTyped
  <2> QED
    BY <2>1, <2>2
<1>3. /\ runner'["tick"].pc \in {"off", "collect", "run", "apply"}
      /\ runner'["boot"].pc \in {"mark", "plan", "run", "apply", "arm", "off"}
  BY <1>1 DEF Inv, RunnersTyped, Runners
<1> QED
  BY <1>1, <1>2, <1>3 DEF RunnersTyped

LEMMA TickCollects ==
  ASSUME Inv, NEW ok \in BOOLEAN, TickCollect(ok)
  PROVE  Inv'
<1> DEFINE due == {j \in Jobs : Due(disk[j], now)}
           kept == Maintained(disk, now, TRUE)
           marked == [j \in Jobs |-> IF j \in due THEN [disk[j] EXCEPT !.running = now] ELSE disk[j]]
           s == IF due = {} THEN kept ELSE marked
           on == due # {} /\ ok
           d == IF on THEN [Quiet EXCEPT !.pc = "run", !.batch = Fresh(due)] ELSE Quiet
<1>1. /\ now \in 0..MaxTime /\ now \in Nat /\ faults \in Nat
      /\ disk \in [Jobs -> JobType(now)]
      /\ runner["tick"].pc = "collect" /\ Holds("tick") /\ Frees /\ now' = now
      /\ \A j \in Jobs : runner["tick"].batch[j].st = "none"
  BY CronAssumption DEF Inv, StoresTyped, RunnersTyped, Runners, TickCollect
<1>2. /\ Persist(s, ok) /\ runner' = Set("tick", d)
      /\ manual' = manual /\ succeeded' = succeeded
      /\ on => Reserves(due) /\ timer' = timer /\ threw' = threw
      /\ ~on => /\ released' = IF due = {} THEN released \cup Cleared(disk, now) ELSE released
                /\ ArmTimer(s)
  BY DEF TickCollect, Fresh
<1>3. kept \in [Jobs -> JobType(now)] /\ Repairs(disk, kept, Cleared(disk, now))
  BY <1>1, MaintainedType, MaintainedFields
<1>4. \A j \in due : disk[j].stored /\ disk[j].enabled /\ disk[j].running = Unset
  BY DEF Due
<1> HIDE DEF kept
<1>5. /\ marked \in [Jobs -> JobType(now)]
      /\ \A j \in due : /\ marked[j].stored /\ marked[j].running # Unset
                        /\ marked[j].enabled = disk[j].enabled
      /\ \A j \in Jobs \ due : marked[j] = disk[j]
  <2>1. ASSUME NEW j \in Jobs
        PROVE  LET e == [disk[j] EXCEPT !.running = now]
               IN  e \in JobType(now) /\ e.running = now /\ e.stored = disk[j].stored /\ e.enabled = disk[j].enabled
    <3>1. disk[j] \in JobType(now) /\ now \in Unset..now
      BY <1>1 DEF Unset
    <3> QED
      BY <3>1 DEF JobType
  <2>2. now # Unset /\ due \subseteq Jobs
    BY <1>1 DEF Unset
  <2> HIDE DEF due
  <2> QED
    BY <1>1, <1>4, <2>1, <2>2
<1> HIDE DEF marked
<1>6. s \in [Jobs -> JobType(now)] /\ (due = {} => s = kept) /\ (due # {} => s = marked)
  BY <1>3, <1>5
<1>7. due \subseteq Jobs
  OBVIOUS
<1> HIDE DEF due, s
<1>8. d \in RunnerType /\ d.pc = (IF on THEN "run" ELSE "off")
      /\ \A j \in Jobs : d.batch[j].st = IF on /\ j \in due THEN "waiting" ELSE "none"
  <2>1. CASE on
    <3> DEFINE q == [Quiet EXCEPT !.pc = "run", !.batch = Fresh(due)]
    <3>1. q \in RunnerType /\ q.pc = "run" /\ q.batch = Fresh(due)
      BY BatchTypes DEF RunnerType
    <3>2. d = q
      BY <2>1
    <3> HIDE DEF q, d
    <3> QED
      BY <2>1, <3>1, <3>2, BatchTypes
  <2>2. CASE ~on
    BY <2>2, BatchTypes
  <2> QED
    BY <2>1, <2>2
<1>9. on <=> due # {} /\ ok
  OBVIOUS
<1> HIDE DEF d, on
<1>10. Started
  BY <1>1 DEF Inv, Alone
<1>11. /\ RunnersTyped' /\ runner'["boot"] = runner["boot"] /\ runner'["tick"] = d
  BY <1>1, <1>2, <1>8, RunnerMoves DEF Runners
<1>12. /\ StoresTyped' /\ mem' = s
       /\ ok => disk' = s /\ faults' = faults
       /\ ~ok => disk' = disk /\ faults' = faults + 1
  <2>1. timer' \in BOOLEAN /\ threw' \in BOOLEAN
    BY <1>2 DEF Inv, StoresTyped, ArmTimer
  <2> QED
    BY <1>1, <1>2, <1>6, <2>1, Persisted
<1>13. CallsTyped' /\ (Started' <=> Started) /\ Alone'
  BY <1>1, <1>2, <1>10, <1>11 DEF Inv, CallsTyped, Started, Alone
<1>14. ChainOK'
  <2>1. \A x \in Actors \ {"tick"} : Waits(x)' <=> Waits(x)
    BY <1>2, <1>11, Apart DEF Waits, Runners
  <2>2. "tick" \in Actors /\ ~Waits("tick")'
    BY <1>8, <1>11, Apart DEF Waits, Actors, Runners
  <2> QED
    BY <1>1, <2>1, <2>2, ChainLeave DEF Inv
<1>15. ASSUME NEW j \in Jobs
       PROVE  JobInv(j)'
  <2>1. JobInv(j) /\ "tick" \in Actors /\ RunnersTyped
    BY DEF Inv, Actors, Runners
  <2>2. ~Holder("tick", j) /\ (Holder("tick", j)' <=> on /\ j \in due)
    BY <1>1, <1>8, <1>11, Apart DEF Holder, Runners
  <2>3. \A a \in Actors \ {"tick"} : Holder(a, j)' <=> Holder(a, j)
    BY <1>2, <1>11, Apart DEF Holder, Runners
  <2>4. \A a \in Runners : runner'[a].batch[j].st = "waiting" =>
                            runner[a].batch[j].st = "waiting" \/ (on /\ j \in due)
    BY <1>8, <1>11 DEF Runners
  <2>5. ~(on /\ j \in due) => (Claimed(j)' <=> Claimed(j))
    BY <2>2, <2>3 DEF Claimed
  <2>6. (mem'[j] = disk'[j] /\ faults' = faults) \/ (disk'[j] = disk[j] /\ faults' = faults + 1)
    BY <1>12
  <2>7. CASE due = {}
    <3>1. /\ Repairs(disk, mem', Cleared(disk, now)) /\ released' = released \cup Cleared(disk, now) /\ ~on
      BY <1>2, <1>3, <1>6, <1>9, <1>12, <2>7
    <3> QED
      BY <1>1, <1>2, <1>10, <1>13, <2>1, <2>2, <2>3, <2>4, <2>5, <2>6, <3>1, RepairsKeep, WriteStep
  <2>8. CASE due # {} /\ j \notin due
    <3>1. mem'[j] = disk[j] /\ (j \notin released' => j \notin released)
      BY <1>2, <1>5, <1>6, <1>12, <2>8 DEF Reserves
    <3> QED
      BY <1>1, <1>2, <1>10, <1>13, <2>1, <2>2, <2>3, <2>4, <2>5, <2>6, <2>8, <3>1, WriteStep
  <2>9. CASE j \in due /\ ok
    <3>1. on /\ mem'[j] = marked[j] /\ disk'[j] = marked[j] /\ faults' = faults
      BY <1>6, <1>9, <1>12, <2>9
    <3>2. ~Held(disk[j]) /\ Known(disk[j]) /\ disk[j].enabled
      BY <1>4, <2>9 DEF Held, Known
    <3>3. j \notin released' => j \notin released \/ Claims(j) = {}
      BY <1>2, <2>9, <3>1 DEF Reserves
    <3>4. marked[j].stored /\ marked[j].running # Unset /\ marked[j].enabled = disk[j].enabled
      BY <1>5, <2>9
    <3> QED
      BY <1>1, <1>2, <1>10, <1>13, <2>1, <2>2, <2>3, <2>4, <2>9, <3>1, <3>2, <3>3, <3>4, ReserveStep
  <2>10. CASE j \in due /\ ~ok
    <3>1. ~on /\ mem'[j] = marked[j] /\ disk'[j] = disk[j] /\ faults' # 0 /\ released' = released
      BY <1>1, <1>2, <1>6, <1>9, <1>12, <2>10
    <3>2. ~Held(disk[j]) /\ Known(marked[j]) /\ (marked[j].enabled => disk[j].enabled)
      BY <1>4, <1>5, <2>10 DEF Held, Known
    <3> QED
      BY <1>2, <1>10, <2>1, <2>2, <2>3, <2>4, <3>1, <3>2, FailedStep
  <2> QED
    BY <2>7, <2>8, <2>9, <2>10
<1> QED
  BY <1>11, <1>12, <1>13, <1>14, <1>15 DEF Inv

LEMMA TickApplies ==
  ASSUME Inv, NEW ok \in BOOLEAN, TickApply(ok)
  PROVE  Inv'
<1> DEFINE b == runner["tick"].batch
           s == Outcome(disk, b)
           kept == Maintained(s, now, FALSE)
<1>1. /\ now \in 0..MaxTime /\ now \in Nat /\ faults \in Nat
      /\ disk \in [Jobs -> JobType(now)]
      /\ runner["tick"].pc = "apply" /\ Holds("tick") /\ Frees /\ now' = now
      /\ \A j \in Jobs : b[j].st \in {"none", "ended"}
  BY CronAssumption DEF Inv, StoresTyped, RunnersTyped, Runners, TickApply
<1>2. /\ Persist(kept, ok) /\ runner' = Set("tick", Quiet) /\ ArmTimer(kept)
      /\ released' = released \cup Cleared(s, now)
      /\ succeeded' = (IF ok THEN succeeded \cup Succeeds(disk, b) ELSE succeeded)
      /\ manual' = manual
  BY DEF TickApply
<1>3. \A j \in Jobs : b[j].st = "ended" => EndedEntry(b[j], now)
  BY DEF Inv, RunnersTyped, Runners, EndedEntry, Unset
<1>4. b = runner["tick"].batch
  OBVIOUS
<1> HIDE DEF b
<1>5. /\ s \in [Jobs -> JobType(now)]
      /\ \A j \in Jobs :
           /\ b[j].st # "ended" \/ ~disk[j].stored => s[j] = disk[j]
           /\ b[j].st = "ended" /\ disk[j].stored =>
                /\ Known(s[j]) /\ s[j].running = Unset
                /\ s[j].enabled => disk[j].enabled
                /\ KindOf[j] = "at" /\ b[j].outcome = "ok" => ~s[j].enabled
  BY <1>1, <1>3, OutcomeType, OutcomeFields
<1> HIDE DEF s
<1>6. kept \in [Jobs -> JobType(now)] /\ Repairs(s, kept, Cleared(s, now))
  BY <1>1, <1>5, MaintainedType, MaintainedFields
<1> HIDE DEF kept
<1>7. Started
  BY <1>1 DEF Inv, Alone
<1>8. RunnersTyped' /\ runner'["boot"] = runner["boot"] /\ runner'["tick"] = Quiet
  BY <1>1, <1>2, BatchTypes, RunnerMoves DEF Runners
<1>9. /\ StoresTyped' /\ mem' = kept
      /\ ok => disk' = kept /\ faults' = faults
      /\ ~ok => disk' = disk /\ faults' = faults + 1
  <2>1. timer' \in BOOLEAN /\ threw' \in BOOLEAN
    BY <1>2 DEF ArmTimer
  <2> QED
    BY <1>1, <1>2, <1>6, <2>1, Persisted
<1>10. CallsTyped' /\ (Started' <=> Started) /\ Alone'
  BY <1>1, <1>2, <1>7, <1>8 DEF Inv, CallsTyped, Started, Alone
<1>11. ChainOK'
  <2>1. \A x \in Actors \ {"tick"} : Waits(x)' <=> Waits(x)
    BY <1>2, <1>8, Apart DEF Waits, Runners
  <2>2. "tick" \in Actors /\ ~Waits("tick")'
    BY <1>8, Apart, BatchTypes DEF Waits, Actors, Runners
  <2> QED
    BY <1>1, <2>1, <2>2, ChainLeave DEF Inv
<1>12. ASSUME NEW j \in Jobs
       PROVE  JobInv(j)'
  <2>1. JobInv(j) /\ "tick" \in Actors
    BY DEF Inv, Actors, Runners
  <2>2. (Holder("tick", j) <=> b[j].st = "ended") /\ ~Holder("tick", j)'
    BY <1>1, <1>4, <1>8, Apart, BatchTypes DEF Holder, Runners
  <2>3. \A a \in Actors \ {"tick"} : Holder(a, j)' <=> Holder(a, j)
    BY <1>2, <1>8, Apart DEF Holder, Runners
  <2>4. \A a \in Runners : runner'[a].batch[j].st = "waiting" => runner[a].batch[j].st = "waiting"
    BY <1>8, BatchTypes DEF Runners
  <2>5. (mem'[j] = disk'[j] /\ faults' = faults) \/ (disk'[j] = disk[j] /\ faults' = faults + 1)
    BY <1>9
  <2>6. /\ Known(s[j]) <=> Known(mem'[j])
        /\ Held(s[j]) /\ j \notin released' => Held(mem'[j])
        /\ mem'[j].running # Unset => mem'[j].running = s[j].running
        /\ mem'[j].stored = s[j].stored /\ mem'[j].enabled = s[j].enabled
    BY <1>2, <1>6, <1>9, RepairsKeep
  <2>7. j \notin released' => j \notin released
    BY <1>2
  <2>8. j \in succeeded' =>
          \/ j \in succeeded
          \/ ok /\ KindOf[j] = "at" /\ b[j].st = "ended" /\ b[j].outcome = "ok" /\ disk[j].stored
    BY <1>2 DEF Succeeds
  <2>9. CASE b[j].st = "ended" /\ disk[j].stored
    <3>1. /\ Known(mem'[j]) /\ mem'[j].running = Unset /\ (mem'[j].enabled => disk[j].enabled)
          /\ j \in succeeded' => j \in succeeded \/ (~mem'[j].enabled /\ mem'[j] = disk'[j])
      BY <1>5, <1>9, <2>6, <2>8, <2>9
    <3> QED
      BY <1>1, <1>7, <1>10, <2>1, <2>2, <2>3, <2>5, <2>7, <2>9, <3>1, EndStep
  <2>10. CASE ~(b[j].st = "ended" /\ disk[j].stored)
    <3>1. s[j] = disk[j]
      BY <1>5, <2>10
    <3>2. b[j].st # "ended" => (Claimed(j)' <=> Claimed(j))
      BY <2>2, <2>3 DEF Claimed
    <3>3. \A a \in Actors : Holder(a, j)' => Holder(a, j)
      BY <2>2, <2>3
    <3>4. mem'[j].stored /\ mem'[j].running # Unset =>
            disk[j].stored /\ disk[j].running # Unset /\ (Claimed(j) => Claimed(j)')
      BY <2>6, <2>10, <3>1, <3>2
    <3> QED
      BY <1>1, <1>7, <1>10, <2>1, <2>4, <2>5, <2>6, <2>7, <2>8, <2>10, <3>1, <3>3, <3>4, WriteStep
  <2> QED
    BY <2>9, <2>10
<1> QED
  BY <1>8, <1>9, <1>10, <1>11, <1>12 DEF Inv

LEMMA BootApplies ==
  ASSUME Inv, BootApply
  PROVE  Inv'
<1> DEFINE b == runner["boot"].batch
           s == Outcome(mem, b)
           n(j) == now + IF j \in AgentJobs THEN 2 ELSE 1
           later == [j \in Jobs |-> IF j \in runner["boot"].deferred /\ s[j].stored /\ s[j].enabled
                                    THEN [s[j] EXCEPT !.next = n(j)] ELSE s[j]]
           kept == Maintained(later, now, FALSE)
           d == [Quiet EXCEPT !.pc = "arm"]
<1>1. /\ now \in 0..MaxTime /\ now \in Nat /\ faults \in Nat
      /\ mem \in [Jobs -> JobType(now)]
      /\ runner["boot"].pc = "apply" /\ Holds("boot") /\ now' = now
      /\ \A j \in Jobs : b[j].st \in {"none", "ended"}
  BY CronAssumption DEF Inv, StoresTyped, RunnersTyped, Runners, BootApply
<1>2. /\ Persist(kept, TRUE) /\ runner' = Set("boot", d)
      /\ chain' = Append(Tail(chain), "boot")
      /\ released' = released \cup Cleared(later, now)
      /\ succeeded' = succeeded \cup Succeeds(mem, b)
      /\ manual' = manual /\ timer' = timer /\ threw' = threw
  BY DEF BootApply
<1>3. \A j \in Jobs : b[j].st = "ended" => EndedEntry(b[j], now)
  BY DEF Inv, RunnersTyped, Runners, EndedEntry, Unset
<1>4. b = runner["boot"].batch
  OBVIOUS
<1> HIDE DEF b
<1>5. /\ s \in [Jobs -> JobType(now)]
      /\ \A j \in Jobs :
           /\ b[j].st # "ended" \/ ~mem[j].stored => s[j] = mem[j]
           /\ b[j].st = "ended" /\ mem[j].stored =>
                /\ Known(s[j]) /\ s[j].running = Unset
                /\ s[j].enabled => mem[j].enabled
                /\ KindOf[j] = "at" /\ b[j].outcome = "ok" => ~s[j].enabled
  BY <1>1, <1>3, OutcomeType, OutcomeFields
<1> HIDE DEF s
<1>6. /\ later \in [Jobs -> JobType(now)]
      /\ \A j \in Jobs : /\ later[j].stored = s[j].stored /\ later[j].enabled = s[j].enabled
                         /\ later[j].running = s[j].running /\ later[j].status = s[j].status
  <2>1. ASSUME NEW j \in Jobs
        PROVE  LET e == [s[j] EXCEPT !.next = n(j)]
               IN  /\ e \in JobType(now)
                   /\ e.stored = s[j].stored /\ e.enabled = s[j].enabled
                   /\ e.running = s[j].running /\ e.status = s[j].status
    <3>1. s[j] \in JobType(now) /\ n(j) \in Nat \cup {Unset}
      BY <1>1, <1>5
    <3> HIDE DEF n
    <3> QED
      BY <3>1 DEF JobType
  <2> HIDE DEF n
  <2> QED
    BY <1>5, <2>1
<1> HIDE DEF later
<1>7. kept \in [Jobs -> JobType(now)] /\ Repairs(later, kept, Cleared(later, now))
  BY <1>1, <1>6, MaintainedType, MaintainedFields
<1> HIDE DEF kept
<1>8. Started
  BY <1>1 DEF Started
<1>9. d \in RunnerType /\ d.pc = "arm" /\ \A j \in Jobs : d.batch[j].st = "none"
  BY BatchTypes DEF RunnerType
<1> HIDE DEF d
<1>10. RunnersTyped' /\ runner'["tick"] = runner["tick"] /\ runner'["boot"] = d
  BY <1>1, <1>2, <1>9, RunnerMoves DEF Runners
<1>11. StoresTyped' /\ mem' = kept /\ disk' = kept /\ faults' = faults
  <2>1. timer' \in BOOLEAN /\ threw' \in BOOLEAN
    BY <1>2 DEF Inv, StoresTyped
  <2> QED
    BY <1>1, <1>2, <1>7, <2>1, Persisted
<1>12. CallsTyped' /\ Started' /\ Alone'
  BY <1>1, <1>2, <1>8, <1>9, <1>10 DEF Inv, CallsTyped, Started, Alone
<1>13. ChainOK'
  <2>1. \A x \in Actors \ {"boot"} : Waits(x)' <=> Waits(x)
    BY <1>2, <1>10, Apart DEF Waits, Runners
  <2>2. "boot" \in Actors /\ Waits("boot")'
    BY <1>9, <1>10, Apart DEF Waits, Actors, Runners
  <2> QED
    BY <1>1, <1>2, <2>1, <2>2, ChainAgain DEF Inv
<1>14. ASSUME NEW j \in Jobs
       PROVE  JobInv(j)'
  <2>1. JobInv(j) /\ "boot" \in Actors
    BY DEF Inv, Actors, Runners
  <2>2. (Holder("boot", j) <=> b[j].st = "ended") /\ ~Holder("boot", j)'
    BY <1>1, <1>4, <1>9, <1>10, Apart DEF Holder, Runners
  <2>3. \A a \in Actors \ {"boot"} : Holder(a, j)' <=> Holder(a, j)
    BY <1>2, <1>10, Apart DEF Holder, Runners
  <2>4. \A a \in Runners : runner'[a].batch[j].st = "waiting" => runner[a].batch[j].st = "waiting"
    BY <1>9, <1>10 DEF Runners
  <2>5. mem'[j] = disk'[j] /\ faults' = faults
    BY <1>11
  <2>6. /\ Known(s[j]) <=> Known(mem'[j])
        /\ Held(s[j]) /\ j \notin released' => Held(mem'[j])
        /\ mem'[j].running # Unset => mem'[j].running = s[j].running
        /\ mem'[j].stored = s[j].stored /\ mem'[j].enabled = s[j].enabled
    <3>1. /\ Known(later[j]) <=> Known(mem'[j])
          /\ Held(later[j]) /\ j \notin released' => Held(mem'[j])
          /\ mem'[j].running # Unset => mem'[j].running = later[j].running
          /\ mem'[j].stored = later[j].stored /\ mem'[j].enabled = later[j].enabled
      BY <1>2, <1>7, <1>11, RepairsKeep
    <3>2. (Known(later[j]) <=> Known(s[j])) /\ (Held(later[j]) <=> Held(s[j]))
      BY <1>6 DEF Known, Held
    <3> QED
      BY <1>6, <3>1, <3>2
  <2>7. j \notin released' => j \notin released
    BY <1>2
  <2>8. j \in succeeded' =>
          \/ j \in succeeded
          \/ KindOf[j] = "at" /\ b[j].st = "ended" /\ b[j].outcome = "ok" /\ mem[j].stored
    BY <1>2 DEF Succeeds
  <2>9. CASE b[j].st = "ended" /\ mem[j].stored
    <3>1. /\ Known(mem'[j]) /\ mem'[j].running = Unset /\ (mem'[j].enabled => mem[j].enabled)
          /\ j \in succeeded' => j \in succeeded \/ (~mem'[j].enabled /\ mem'[j] = disk'[j])
      BY <1>5, <2>5, <2>6, <2>8, <2>9
    <3> QED
      BY <1>1, <1>8, <1>12, <2>1, <2>2, <2>3, <2>5, <2>7, <2>9, <3>1, EndStep
  <2>10. CASE ~(b[j].st = "ended" /\ mem[j].stored)
    <3>1. s[j] = mem[j]
      BY <1>5, <2>10
    <3>2. b[j].st # "ended" => (Claimed(j)' <=> Claimed(j))
      BY <2>2, <2>3 DEF Claimed
    <3>3. \A a \in Actors : Holder(a, j)' => Holder(a, j)
      BY <2>2, <2>3
    <3>4. mem'[j].stored /\ mem'[j].running # Unset =>
            mem[j].stored /\ mem[j].running # Unset /\ (Claimed(j) => Claimed(j)')
      BY <2>6, <2>10, <3>1, <3>2
    <3> QED
      BY <1>1, <1>8, <1>12, <2>1, <2>4, <2>5, <2>6, <2>7, <2>8, <2>10, <3>1, <3>3, <3>4, WriteStep
  <2> QED
    BY <2>9, <2>10
<1> QED
  BY <1>10, <1>11, <1>12, <1>13, <1>14 DEF Inv

LEMMA BootMarks ==
  ASSUME Inv, BootMark
  PROVE  Inv'
<1> DEFINE hit == {j \in Jobs : disk[j].stored /\ disk[j].running # Unset}
           s == [j \in Jobs |-> IF j \in hit THEN Interrupted(disk[j], j) ELSE disk[j]]
           d == [Quiet EXCEPT !.pc = "plan", !.skip = hit]
<1>1. /\ now \in 0..MaxTime /\ now \in Nat
      /\ disk \in [Jobs -> JobType(now)]
      /\ runner["boot"].pc = "mark" /\ Holds("boot") /\ now' = now
  BY CronAssumption DEF Inv, StoresTyped, BootMark
<1>2. /\ Persist(s, TRUE) /\ runner' = Set("boot", d)
      /\ chain' = Append(Tail(chain), "boot")
      /\ released' = released /\ succeeded' = succeeded
      /\ manual' = manual /\ timer' = timer /\ threw' = threw
  BY DEF BootMark
<1>3. ASSUME NEW j \in Jobs
      PROVE  /\ s[j] \in JobType(now)
             /\ s[j].stored = disk[j].stored
             /\ s[j].stored => s[j].running = Unset
             /\ s[j].enabled => disk[j].enabled
             /\ Known(disk[j]) => Known(s[j])
  <2>1. CASE j \in hit
    <3>1. s[j] = Interrupted(disk[j], j) /\ disk[j].stored
      BY <2>1
    <3>2. /\ Interrupted(disk[j], j) \in JobType(now)
          /\ Interrupted(disk[j], j).stored = disk[j].stored /\ Interrupted(disk[j], j).running = Unset
          /\ Interrupted(disk[j], j).enabled => disk[j].enabled
      BY <1>1, InterruptedFields
    <3> HIDE DEF s
    <3> QED
      BY <3>1, <3>2 DEF Known
  <2>2. CASE j \notin hit
    BY <1>1, <2>2
  <2> QED
    BY <2>1, <2>2
<1>4. s \in [Jobs -> JobType(now)]
  BY <1>3
<1>5. d \in RunnerType /\ d.pc = "plan" /\ \A j \in Jobs : d.batch[j].st = "none"
  <2>1. hit \subseteq Jobs
    OBVIOUS
  <2> HIDE DEF hit
  <2> QED
    BY <2>1, BatchTypes DEF RunnerType
<1> HIDE DEF hit, s, d
<1>6. RunnersTyped' /\ runner'["tick"] = runner["tick"] /\ runner'["boot"] = d
  BY <1>1, <1>2, <1>5, RunnerMoves DEF Runners
<1>7. StoresTyped' /\ mem' = s /\ disk' = s /\ faults' = faults
  <2>1. timer' \in BOOLEAN /\ threw' \in BOOLEAN
    BY <1>2 DEF Inv, StoresTyped
  <2> QED
    BY <1>1, <1>2, <1>4, <2>1, Persisted
<1>8. CallsTyped' /\ Alone'
  BY <1>1, <1>2, <1>5, <1>6 DEF Inv, CallsTyped, Started, Alone
<1>9. ChainOK'
  <2>1. \A x \in Actors \ {"boot"} : Waits(x)' <=> Waits(x)
    BY <1>2, <1>6, Apart DEF Waits, Runners
  <2>2. "boot" \in Actors /\ Waits("boot")'
    BY <1>5, <1>6, Apart DEF Waits, Actors, Runners
  <2> QED
    BY <1>1, <1>2, <2>1, <2>2, ChainAgain DEF Inv
<1>10. ASSUME NEW j \in Jobs
       PROVE  JobInv(j)'
  <2>1. JobInv(j)
    BY DEF Inv
  <2>2. \A a \in Runners : runner'[a].batch[j].st = "none"
    BY <1>1, <1>5, <1>6 DEF Inv, RunnersTyped, Alone, Started, Runners
  <2>3. \A m \in ManualRuns : manual'[m].pc \notin {"run", "finish"}
    BY <1>1, <1>2 DEF Inv, Alone, Started
  <2>4. ~Claimed(j)' /\ \A a \in Actors : ~Holder(a, j)'
    BY <2>2, <2>3 DEF Claimed, Holder, Actors
  <2>5. mem'[j] = disk'[j] /\ mem'[j] = s[j]
    BY <1>7
  <2>6. Remembered(j)' /\ Finished(j)'
    BY <1>2, <1>3, <2>1, <2>4, <2>5 DEF JobInv, Remembered, Finished
  <2>7. Marked(j)' /\ NoneWaits(j)'
    BY <2>2, <2>4 DEF Marked, NoneWaits
  <2>8. Owned(j)' /\ Synced(j)'
    BY <1>3, <2>5 DEF Owned, Synced
  <2> QED
    BY <2>6, <2>7, <2>8 DEF JobInv
<1> QED
  BY <1>6, <1>7, <1>8, <1>9, <1>10 DEF Inv

LEMMA BootArms ==
  ASSUME Inv, BootArm
  PROVE  Inv'
<1> DEFINE kept == Maintained(mem, now, TRUE)
<1>1. /\ now \in 0..MaxTime /\ now \in Nat /\ faults \in Nat
      /\ mem \in [Jobs -> JobType(now)] /\ disk \in [Jobs -> JobType(now)]
      /\ runner["boot"].pc = "arm" /\ Holds("boot") /\ now' = now
      /\ \A j \in Jobs : runner["boot"].batch[j].st = "none"
  BY CronAssumption DEF Inv, StoresTyped, RunnersTyped, Runners, BootArm
<1>2. /\ kept # mem => Persist(kept, TRUE)
      /\ kept = mem => mem' = mem /\ disk' = disk /\ faults' = faults
      /\ runner' = Set("boot", Quiet) /\ Frees
      /\ released' = released \cup Cleared(mem, now)
      /\ ArmTimer(kept)
      /\ manual' = manual /\ succeeded' = succeeded
  BY DEF BootArm
<1>3. kept \in [Jobs -> JobType(now)] /\ Repairs(mem, kept, Cleared(mem, now))
  BY <1>1, MaintainedType, MaintainedFields
<1> HIDE DEF kept
<1>4. Started
  BY <1>1 DEF Started
<1>5. RunnersTyped' /\ runner'["tick"] = runner["tick"] /\ runner'["boot"] = Quiet
  BY <1>1, <1>2, BatchTypes, RunnerMoves DEF Runners
<1>6. /\ StoresTyped' /\ mem' = kept /\ faults' = faults
      /\ kept # mem => disk' = kept
      /\ kept = mem => disk' = disk
  <2>1. timer' \in BOOLEAN /\ threw' \in BOOLEAN
    BY <1>2 DEF ArmTimer
  <2>2. CASE kept # mem
    BY <1>1, <1>2, <1>3, <2>1, <2>2, Persisted
  <2>3. CASE kept = mem
    BY <1>1, <1>2, <2>1, <2>3 DEF Inv, StoresTyped
  <2> QED
    BY <2>2, <2>3
<1>7. CallsTyped' /\ Started' /\ Alone'
  BY <1>1, <1>2, <1>4, <1>5, BatchTypes DEF Inv, CallsTyped, Started, Alone
<1>8. ChainOK'
  <2>1. \A x \in Actors \ {"boot"} : Waits(x)' <=> Waits(x)
    BY <1>2, <1>5, Apart DEF Waits, Runners
  <2>2. "boot" \in Actors /\ ~Waits("boot")'
    BY <1>5, Apart, BatchTypes DEF Waits, Actors, Runners
  <2> QED
    BY <1>1, <1>2, <2>1, <2>2, ChainLeave DEF Inv
<1>9. ASSUME NEW j \in Jobs
      PROVE  JobInv(j)'
  <2>1. JobInv(j) /\ "boot" \in Actors
    BY DEF Inv, Actors, Runners
  <2>2. ~Holder("boot", j) /\ ~Holder("boot", j)'
    BY <1>1, <1>5, Apart, BatchTypes DEF Holder, Runners
  <2>3. \A a \in Actors : Holder(a, j)' <=> Holder(a, j)
    <3>1. \A a \in Actors \ {"boot"} : Holder(a, j)' <=> Holder(a, j)
      BY <1>2, <1>5, Apart DEF Holder, Runners
    <3> QED
      BY <2>2, <3>1
  <2>4. \A a \in Runners : runner'[a].batch[j].st = "waiting" => runner[a].batch[j].st = "waiting"
    BY <1>5, BatchTypes DEF Runners
  <2>5. Claimed(j)' <=> Claimed(j)
    BY <2>3 DEF Claimed
  <2>6. j \notin released' => j \notin released
    BY <1>2
  <2>7. CASE kept # mem
    <3>1. mem'[j] = disk'[j] /\ faults' = faults
      BY <1>6, <2>7
    <3>2. /\ Known(mem[j]) <=> Known(mem'[j])
          /\ Held(mem[j]) /\ j \notin released' => Held(mem'[j])
          /\ mem'[j].running # Unset => mem'[j].running = mem[j].running
          /\ mem'[j].stored = mem[j].stored /\ mem'[j].enabled = mem[j].enabled
      BY <1>2, <1>3, <1>6, RepairsKeep
    <3> QED
      BY <1>1, <1>2, <1>4, <1>7, <2>1, <2>3, <2>4, <2>5, <2>6, <3>1, <3>2, WriteStep
  <2>8. CASE kept = mem
    BY <1>2, <1>4, <1>6, <1>7, <2>1, <2>3, <2>4, <2>6, <2>8, RepairStep
  <2> QED
    BY <2>7, <2>8
<1> QED
  BY <1>5, <1>6, <1>7, <1>8, <1>9 DEF Inv

LEMMA BootPlans ==
  ASSUME Inv, BootPlan
  PROVE  Inv'
<1> DEFINE missed == {j \in Jobs \ runner["boot"].skip : Missed(mem[j], j, now)}
           eligible == missed \ AgentJobs
           marked(c) == [j \in Jobs |-> IF j \in c THEN [mem[j] EXCEPT !.running = now] ELSE mem[j]]
           next(c) == IF missed = {} THEN "arm" ELSE IF c = {} THEN "apply" ELSE "run"
           entry(c) == [pc |-> next(c), skip |-> {}, deferred |-> missed \ c, batch |-> Fresh(c)]
<1>1. /\ now \in 0..MaxTime /\ now \in Nat /\ faults \in Nat
      /\ mem \in [Jobs -> JobType(now)] /\ disk \in [Jobs -> JobType(now)]
      /\ runner["boot"].pc = "plan" /\ Holds("boot") /\ now' = now
      /\ manual' = manual /\ timer' = timer /\ threw' = threw /\ succeeded' = succeeded
      /\ \A j \in Jobs : runner["boot"].batch[j].st = "none"
  <2>1. /\ runner["boot"].pc = "plan" /\ Holds("boot") /\ now' = now
        /\ manual' = manual /\ timer' = timer /\ threw' = threw /\ succeeded' = succeeded
    <3> HIDE DEF missed, eligible, marked, next, entry
    <3> QED
      BY Zenon DEF BootPlan
  <2>2. \A j \in Jobs : runner["boot"].batch[j].st = "none"
    BY <2>1 DEF Inv, RunnersTyped, Runners
  <2> QED
    BY <2>1, <2>2, CronAssumption DEF Inv, StoresTyped
<1>2. PICK chosen \in SUBSET eligible :
        /\ IF missed = {} THEN UNCHANGED <<mem, disk, faults>> ELSE Persist(marked(chosen), TRUE)
        /\ Reserves(chosen)
        /\ runner' = Set("boot", entry(chosen))
        /\ chain' = IF next(chosen) = "run" THEN Tail(chain) ELSE Append(Tail(chain), "boot")
  BY DEF BootPlan, Fresh
<1> DEFINE s == marked(chosen)
           n == next(chosen)
           d == entry(chosen)
<1>3. /\ chosen \subseteq Jobs /\ missed \subseteq Jobs
      /\ missed = {} => chosen = {}
      /\ n = IF missed = {} THEN "arm" ELSE IF chosen = {} THEN "apply" ELSE "run"
  OBVIOUS
<1>4. \A j \in chosen : mem[j].stored /\ mem[j].enabled /\ mem[j].running = Unset
  BY DEF Missed
<1>5. /\ s \in [Jobs -> JobType(now)]
      /\ \A j \in chosen : /\ s[j].stored /\ s[j].running # Unset
                           /\ s[j].enabled = mem[j].enabled
      /\ \A j \in Jobs \ chosen : s[j] = mem[j]
  <2>1. ASSUME NEW j \in Jobs
        PROVE  LET e == [mem[j] EXCEPT !.running = now]
               IN  e \in JobType(now) /\ e.running = now /\ e.stored = mem[j].stored /\ e.enabled = mem[j].enabled
    <3>1. mem[j] \in JobType(now) /\ now \in Unset..now
      BY <1>1 DEF Unset
    <3> QED
      BY <3>1 DEF JobType
  <2>2. now # Unset
    BY <1>1 DEF Unset
  <2> HIDE DEF missed
  <2> QED
    BY <1>1, <1>3, <1>4, <2>1, <2>2
<1>6. (missed = {} => mem' = mem /\ disk' = disk /\ faults' = faults) /\ (missed # {} => Persist(s, TRUE))
  BY <1>2
<1>7. d = [pc |-> n, skip |-> {}, deferred |-> missed \ chosen, batch |-> Fresh(chosen)]
  OBVIOUS
<1>8. runner' = Set("boot", d) /\ chain' = IF n = "run" THEN Tail(chain) ELSE Append(Tail(chain), "boot")
  BY <1>2
<1> HIDE DEF missed, s, d, n
<1>9. /\ d \in RunnerType /\ d.pc = n /\ n \in {"arm", "apply", "run"}
      /\ \A j \in Jobs : d.batch[j].st = IF j \in chosen THEN "waiting" ELSE "none"
      /\ n # "run" => chosen = {}
  BY <1>3, <1>7, BatchTypes DEF RunnerType
<1>10. Started
  BY <1>1 DEF Started
<1>11. RunnersTyped' /\ runner'["tick"] = runner["tick"] /\ runner'["boot"] = d
  <2>1. \A j \in Jobs : d.batch[j].st \in {"none", "waiting"}
    BY <1>9
  <2>2. d.pc # "run" => \A j \in Jobs : d.batch[j].st = "none"
    BY <1>9
  <2> QED
    BY <1>1, <1>8, <1>9, <2>1, <2>2, RunnerMoves DEF Runners
<1>12. /\ StoresTyped' /\ faults' = faults
       /\ missed = {} => mem' = mem /\ disk' = disk
       /\ missed # {} => mem' = s /\ disk' = s
  <2>1. CASE missed = {}
    BY <1>1, <1>6, <2>1 DEF Inv, StoresTyped
  <2>2. CASE missed # {}
    <3>1. timer' \in BOOLEAN /\ threw' \in BOOLEAN
      BY <1>1 DEF Inv, StoresTyped
    <3> QED
      BY <1>1, <1>5, <1>6, <2>2, <3>1, Persisted
  <2> QED
    BY <2>1, <2>2
<1>13. CallsTyped' /\ Started' /\ Alone'
  BY <1>1, <1>9, <1>10, <1>11 DEF Inv, CallsTyped, Started, Alone
<1>14. ChainOK'
  <2>1. \A x \in Actors \ {"boot"} : Waits(x)' <=> Waits(x)
    BY <1>1, <1>11, Apart DEF Waits, Runners
  <2>2. "boot" \in Actors /\ (Waits("boot")' <=> n # "run")
    BY <1>9, <1>11, Apart DEF Waits, Actors, Runners
  <2>3. CASE n = "run"
    BY <1>1, <1>8, <2>1, <2>2, <2>3, ChainLeave DEF Inv, Frees
  <2>4. CASE n # "run"
    BY <1>1, <1>8, <2>1, <2>2, <2>4, ChainAgain DEF Inv
  <2> QED
    BY <2>3, <2>4
<1>15. ASSUME NEW j \in Jobs
       PROVE  JobInv(j)'
  <2>1. JobInv(j) /\ "boot" \in Actors /\ RunnersTyped
    BY DEF Inv, Actors, Runners
  <2>2. ~Holder("boot", j) /\ (Holder("boot", j)' <=> j \in chosen)
    BY <1>1, <1>9, <1>11, Apart DEF Holder, Runners
  <2>3. \A a \in Actors \ {"boot"} : Holder(a, j)' <=> Holder(a, j)
    BY <1>1, <1>11, Apart DEF Holder, Runners
  <2>4. \A a \in Runners : runner'[a].batch[j].st = "waiting" =>
                            runner[a].batch[j].st = "waiting" \/ j \in chosen
    BY <1>9, <1>11 DEF Runners
  <2>5. j \notin chosen => (Claimed(j)' <=> Claimed(j)) /\ (j \in released' <=> j \in released)
    BY <1>2, <2>2, <2>3 DEF Claimed, Reserves
  <2>6. CASE missed = {}
    <3>1. SameRuns(j)
      BY <1>1, <1>3, <2>2, <2>3, <2>4, <2>5, <2>6 DEF SameRuns
    <3> QED
      BY <1>10, <1>12, <1>13, <2>1, <2>6, <3>1, FrameStep
  <2>7. CASE missed # {} /\ j \notin chosen
    <3>1. mem'[j] = mem[j] /\ disk'[j] = mem[j]
      BY <1>5, <1>12, <2>7
    <3> QED
      BY <1>1, <1>10, <1>12, <1>13, <2>1, <2>2, <2>3, <2>4, <2>5, <2>7, <3>1, WriteStep
  <2>8. CASE j \in chosen
    <3>1. missed # {} /\ mem'[j] = s[j] /\ disk'[j] = s[j]
      BY <1>3, <1>12, <2>8
    <3>2. ~Held(mem[j]) /\ Known(mem[j]) /\ mem[j].enabled
      BY <1>4, <2>8 DEF Held, Known
    <3>3. j \notin released' => j \notin released \/ Claims(j) = {}
      BY <1>2, <2>8 DEF Reserves
    <3>4. s[j].stored /\ s[j].running # Unset /\ s[j].enabled = mem[j].enabled
      BY <1>5, <2>8
    <3> QED
      BY <1>1, <1>10, <1>12, <1>13, <2>1, <2>2, <2>3, <2>4, <2>8, <3>1, <3>2, <3>3, <3>4, ReserveStep
  <2> QED
    BY <2>6, <2>7, <2>8
<1> QED
  BY <1>11, <1>12, <1>13, <1>14, <1>15 DEF Inv

-----------------------------------------------------------------------------
(* A process that starts. *)

(* Memory is empty, nobody runs, and the start waits for the lock. *)
Starting ==
  /\ mem = [j \in Jobs |-> Absent] /\ timer = FALSE /\ threw = FALSE
  /\ runner = [a \in Runners |-> IF a = "boot" THEN [Quiet EXCEPT !.pc = "mark"] ELSE Quiet]
  /\ \A m \in ManualRuns : manual[m] \in {NoCall, Over}
  /\ manual = [m \in ManualRuns |-> manual[m]]
  /\ chain = <<"boot">>
  /\ released = {}

Startable ==
  /\ Starting
  /\ now \in 0..MaxTime /\ faults \in Nat /\ disk \in [Jobs -> JobType(now)]
  /\ \A j \in Jobs : j \in succeeded => Known(disk[j]) /\ ~disk[j].enabled

LEMMA StartInv == Startable => Inv
<1> SUFFICES ASSUME Starting, now \in 0..MaxTime, faults \in Nat, disk \in [Jobs -> JobType(now)],
                    \A j \in Jobs : j \in succeeded => Known(disk[j]) /\ ~disk[j].enabled
             PROVE  Inv
  BY DEF Startable
<1> DEFINE d == [Quiet EXCEPT !.pc = "mark"]
<1>1. d \in RunnerType /\ d.pc = "mark" /\ \A j \in Jobs : d.batch[j].st = "none"
  BY BatchTypes DEF RunnerType
<1>2. runner = [a \in Runners |-> IF a = "boot" THEN d ELSE Quiet]
  BY DEF Starting
<1> HIDE DEF d
<1>3. /\ runner \in [Runners -> RunnerType] /\ runner["boot"].pc = "mark" /\ runner["tick"].pc = "off"
      /\ \A a \in Runners, j \in Jobs : runner[a].batch[j].st = "none"
  BY <1>1, <1>2, BatchTypes DEF Runners
<1>4. manual \in [ManualRuns -> CallType] /\ \A m \in ManualRuns : manual[m].pc \in {"idle", "done"}
  BY CallTypes DEF Starting
<1>5. StoresTyped
  <2>1. now \in Nat
    BY CronAssumption
  <2> QED
    BY <2>1, AbsentType DEF StoresTyped, Starting
<1>6. RunnersTyped /\ CallsTyped
  BY <1>3, <1>4 DEF RunnersTyped, CallsTyped, Runners
<1>7. Alone
  BY <1>3, <1>4 DEF Alone, Starting
<1>8. ChainOK
  <2>1. chain \in Seq(Actors) /\ Distinct(chain) /\ Members(chain) = {"boot"}
    BY DEF Starting, Actors, Runners, Distinct, Members
  <2>2. \A a \in Actors : Waits(a) <=> a = "boot"
    BY <1>3, <1>4, Apart DEF Waits, Actors, Runners
  <2> QED
    BY <2>1, <2>2 DEF ChainOK
<1>9. ASSUME NEW j \in Jobs
      PROVE  JobInv(j)
  <2>1. \A a \in Actors : ~Holder(a, j)
    BY <1>3, <1>4 DEF Holder
  <2>2. ~Claimed(j) /\ ~Started
    BY <1>3, <2>1 DEF Claimed, Started
  <2>3. ~mem[j].enabled
    BY <1>5, AbsentType DEF Starting, Absent, NewJob
  <2> QED
    BY <1>3, <2>1, <2>2, <2>3
    DEF JobInv, Remembered, Marked, Finished, NoneWaits, Owned, Synced
<1> QED
  BY <1>5, <1>6, <1>7, <1>8, <1>9 DEF Inv

LEMMA Starts ==
  ASSUME Init
  PROVE  Inv
<1>1. Starting
  BY DEF Init, Starting, Runners
<1>2. now \in 0..MaxTime /\ faults \in Nat /\ succeeded = {} /\ now = 0
  BY CronAssumption DEF Init
<1>3. disk \in [Jobs -> JobType(0)]
  BY AbsentType, NewJobType DEF Init
<1> QED
  BY <1>1, <1>2, <1>3, StartInv DEF Startable

LEMMA Crashes == Inv /\ Crash => Inv'
<1>1. Inv /\ Crash => Startable'
  <2> SUFFICES ASSUME Inv, Crash
               PROVE  Startable'
    OBVIOUS
  <2>1. Starting'
    BY DEF Crash, Starting, Runners
  <2>2. /\ now' \in 0..MaxTime /\ faults' \in Nat /\ disk' \in [Jobs -> JobType(now')]
        /\ succeeded' = succeeded /\ disk' = disk
    BY DEF Inv, StoresTyped, Crash
  <2>3. \A j \in Jobs : j \in succeeded => Known(disk[j]) /\ ~disk[j].enabled
    BY DEF Inv, JobInv, Remembered, Finished
  <2> QED
    BY <2>1, <2>2, <2>3 DEF Startable
<1> QED
  BY <1>1, StartInv, PTL

-----------------------------------------------------------------------------
(* The theorems. *)

LEMMA InvStep == Inv /\ [Next]_vars => Inv'
<1> SUFFICES ASSUME Inv, [Next]_vars
             PROVE  Inv'
  OBVIOUS
<1>1. CASE Advance
  BY <1>1, Advances
<1>2. CASE TickFire
  BY <1>2, TickFires
<1>3. CASE Section
  BY <1>3, TickCollects, TickApplies, BootMarks, BootPlans, BootApplies, BootArms,
     Preflights, ReservesManual, Finishes DEF Section
<1>4. CASE Execution
  BY <1>4, StartsRun, EndsRun, EndsManual DEF Execution, Runners
<1>5. CASE Outside
  BY <1>5, Calls, Adds, Removes, SetsEnabled, Reads, Crashes DEF Outside
<1>6. CASE UNCHANGED vars
  BY <1>6, Stutters
<1> QED
  BY <1>1, <1>2, <1>3, <1>4, <1>5, <1>6 DEF Next

LEMMA Invariant == Spec => []Inv
<1> QED
  BY Starts, InvStep, PTL DEF Spec

(* The types of the store, the runs and the calls; and a section waits for *)
(* the lock exactly while its caller is in a state that waits, once.       *)
THEOREM TypeCorrect == Spec => []TypeOK
<1>1. Inv => TypeOK
  <2> SUFFICES ASSUME Inv
               PROVE  TypeOK
    OBVIOUS
  <2>1. ASSUME NEW j \in Jobs, NEW r \in {mem[j], disk[j]}
        PROVE  /\ r.stored \in BOOLEAN /\ r.enabled \in BOOLEAN
               /\ r.next \in Nat \cup {Unset}
               /\ {r.running, r.last} \subseteq Unset..now
               /\ r.status \in {"none", "ok", "skipped", "error"}
               /\ r.errors \in 0..(MaxAttempts + 1)
               /\ r.enabled => r.stored
    <3>1. r \in JobType(now)
      BY DEF Inv, StoresTyped
    <3> QED
      BY <3>1 DEF JobType
  <2>2. now \in 0..MaxTime /\ timer \in BOOLEAN /\ threw \in BOOLEAN
    BY DEF Inv, StoresTyped
  <2>3. /\ runner["tick"].pc \in {"off", "collect", "run", "apply"}
        /\ runner["boot"].pc \in {"mark", "plan", "run", "apply", "arm", "off"}
    BY DEF Inv, RunnersTyped
  <2>4. \A m \in ManualRuns : manual[m].pc \in {"idle", "preflight", "reserve", "run", "finish", "done"}
    BY DEF Inv, CallsTyped, CallType
  <2>5. ASSUME NEW a \in {"tick", "boot"}, NEW j \in Jobs
        PROVE  runner[a].batch[j].st \in {"none", "waiting", "executing", "ended"}
    <3>1. runner[a].batch[j] \in EntryType
      BY DEF Inv, RunnersTyped, RunnerType, Runners
    <3> QED
      BY <3>1 DEF EntryType
  <2>6. ASSUME NEW a \in {"tick", "boot"} \cup ManualRuns
        PROVE  Cardinality({i \in 1..Len(chain) : chain[i] = a}) =
                 IF a \in ManualRuns
                 THEN (IF manual[a].pc \in {"preflight", "reserve", "finish"} THEN 1 ELSE 0)
                 ELSE IF runner[a].pc \in {"off", "run"} THEN 0 ELSE 1
    <3>1. Cardinality({i \in 1..Len(chain) : chain[i] = a}) = IF a \in Members(chain) THEN 1 ELSE 0
      BY Counted DEF Inv, ChainOK
    <3>2. a \in Members(chain) <=> Waits(a)
      BY DEF Inv, ChainOK, Actors, Runners
    <3>3. CASE a \in ManualRuns
      BY <3>1, <3>2, <3>3, Apart DEF Waits, Runners
    <3>4. CASE a \notin ManualRuns
      BY <3>1, <3>2, <3>4 DEF Waits, Runners
    <3> QED
      BY <3>3, <3>4
  <2> QED
    BY <2>1, <2>2, <2>3, <2>4, <2>5, <2>6 DEF TypeOK
<1> QED
  BY <1>1, Invariant, PTL

(* The marker is what keeps the runs of one job apart: while it was not    *)
(* given up, one actor at most executes the job, be it a tick, the         *)
(* catch-up of a start or a manual run.                                    *)
THEOREM NoOverlap == Spec => []OverlapOnlyAfterRelease
<1>1. Inv => OverlapOnlyAfterRelease
  <2> SUFFICES ASSUME Inv, NEW j \in Jobs, j \notin released
               PROVE  ~(Cardinality(Alive(j)) > 1)
    BY DEF OverlapOnlyAfterRelease
  <2>1. DOMAIN runner = Runners
    BY DEF Inv, RunnersTyped
  <2>2. \A a \in Alive(j) : a \in Actors /\ Holder(a, j)
    BY <2>1 DEF Alive, Actors, Holder
  <2>3. \A a, b \in Alive(j) : a = b
    BY <2>2 DEF Inv, JobInv, Marked
  <2>4. CASE Alive(j) = {}
    <3>1. Cardinality(Alive(j)) = 0
      BY <2>4, FS_EmptySet
    <3> QED
      BY <3>1
  <2>5. CASE Alive(j) # {}
    <3>1. PICK a : a \in Alive(j)
      BY <2>5
    <3>2. Alive(j) = {a}
      BY <2>3, <3>1
    <3>3. Cardinality(Alive(j)) = 1
      BY <3>2, FS_Singleton
    <3> QED
      BY <3>3
  <2> QED
    BY <2>4, <2>5
<1> QED
  BY <1>1, Invariant, PTL

(* While no write has failed, a marker in the file belongs to a run that   *)
(* somebody reserved and has not written down: whoever marks a job clears  *)
(* it again, also when the job is removed, added anew or disabled under a  *)
(* run.                                                                    *)
THEOREM MarkersOwned == Spec => []NoOrphanMarker
<1>1. Inv => NoOrphanMarker
  <2> SUFFICES ASSUME Inv, NEW j \in Jobs, disk[j].stored, disk[j].running # Unset, faults = 0, Started
               PROVE  Claims(j) # {}
    BY DEF NoOrphanMarker
  <2>1. Claimed(j)
    BY DEF Inv, JobInv, Owned
  <2> QED
    BY <2>1, ClaimsAreHeld DEF Inv, Claimed
<1> QED
  BY <1>1, Invariant, PTL

(* A step makes a run execute only where it waited. *)
LEMMA RunsStart ==
  ASSUME Inv, Next, NEW a \in Runners, NEW j \in Jobs, runner'[a].batch[j].st = "executing"
  PROVE  runner[a].batch[j].st \in {"waiting", "executing"}
<1>1. runner \in [Runners -> RunnerType] /\ \A x \in Runners : runner[x].batch \in [Jobs -> EntryType]
  BY DEF Inv, RunnersTyped, RunnerType
<1>2. CASE Advance \/ \E m \in ManualRuns, ok \in BOOLEAN : Preflight(m) \/ Reserve(m, ok)
  BY <1>2 DEF Advance, Preflight, Reserve
<1>3. CASE \/ \E m \in ManualRuns, k \in Jobs, f \in BOOLEAN : Call(m, k, f)
           \/ \E m \in ManualRuns, outcome \in Outcomes : EndManual(m, outcome)
  BY <1>3 DEF Call, EndManual
<1>4. CASE \/ \E k \in Jobs, ok \in BOOLEAN : Add(k, ok) \/ Remove(k, ok)
           \/ \E ok \in BOOLEAN : Read(ok)
  BY <1>4 DEF Add, Remove, Read
<1>5. CASE TickFire
  BY <1>1, <1>5 DEF TickFire, Runners, RunnerType
<1>6. ASSUME NEW k \in Jobs, NEW x \in Runners, StartRun(x, k)
      PROVE  runner[a].batch[j].st \in {"waiting", "executing"}
  <2> DEFINE b == [runner[x].batch EXCEPT ![k] =
                     [@ EXCEPT !.st = "executing", !.same = TRUE, !.from = now]]
  <2>1. runner' = [runner EXCEPT ![x] = [runner[x] EXCEPT !.batch = b]]
    BY <1>1, <1>6 DEF StartRun
  <2>2. j # k => b[j] = runner[x].batch[j]
    BY <1>1
  <2>3. runner[x].batch[k].st = "waiting"
    BY <1>6 DEF StartRun
  <2> HIDE DEF b
  <2> QED
    BY <1>1, <2>1, <2>2, <2>3 DEF RunnerType
<1>7. ASSUME NEW k \in Jobs, NEW x \in Runners, NEW outcome \in Outcomes, EndRun(x, k, outcome)
      PROVE  runner[a].batch[j].st \in {"waiting", "executing"}
  <2> DEFINE b == [runner[x].batch EXCEPT ![k] =
                     [@ EXCEPT !.st = "ended", !.to = now, !.outcome = outcome]]
             last == \A i \in Jobs : b[i].st \in {"none", "ended"}
  <2>1. runner' = [runner EXCEPT ![x] = [runner[x] EXCEPT !.batch = b, !.pc = IF last THEN "apply" ELSE @]]
    BY <1>1, <1>7 DEF EndRun
  <2>2. j # k => b[j] = runner[x].batch[j]
    BY <1>1
  <2>3. runner[x].batch[k].st = "executing"
    BY <1>7 DEF EndRun
  <2> HIDE DEF b, last
  <2> QED
    BY <1>1, <2>1, <2>2, <2>3 DEF RunnerType
<1>8. ASSUME NEW m \in ManualRuns, NEW ok \in BOOLEAN, Finish(m, ok)
      PROVE  runner[a].batch[j].st \in {"waiting", "executing"}
  <2>1. CASE runner' = runner
    BY <2>1
  <2>2. CASE Reloaded(Jobs)
    <3>1. now' = now
      BY <1>8 DEF Finish
    <3> QED
      BY <2>2, <3>1, Reloads
  <2> QED
    BY <1>8, <2>1, <2>2 DEF Finish
<1>9. ASSUME NEW k \in Jobs, NEW e \in BOOLEAN, NEW ok \in BOOLEAN, SetEnabled(k, e, ok)
      PROVE  runner[a].batch[j].st \in {"waiting", "executing"}
  BY <1>9, Reloads DEF SetEnabled
<1>10. ASSUME NEW x \in Runners, NEW d, runner' = Set(x, d), d.batch[j].st # "executing"
       PROVE  runner[a].batch[j].st \in {"waiting", "executing"}
  BY <1>1, <1>10 DEF Set
<1>11. Quiet.batch[j].st = "none" /\ \A set : Fresh(set)[j].st # "executing"
  BY BatchTypes
<1>12. ASSUME NEW ok \in BOOLEAN, TickCollect(ok) \/ TickApply(ok)
       PROVE  runner[a].batch[j].st \in {"waiting", "executing"}
  <2>1. CASE \E set : runner' = Set("tick", [Quiet EXCEPT !.pc = "run", !.batch = Fresh(set)])
    <3>1. PICK set : runner' = Set("tick", [Quiet EXCEPT !.pc = "run", !.batch = Fresh(set)])
      BY <2>1
    <3>2. [Quiet EXCEPT !.pc = "run", !.batch = Fresh(set)].batch = Fresh(set)
      BY DEF Quiet
    <3> QED
      BY <1>10, <1>11, <3>1, <3>2 DEF Runners
  <2>2. CASE runner' = Set("tick", Quiet)
    BY <1>10, <1>11, <2>2 DEF Runners
  <2> QED
    BY <1>12, <2>1, <2>2 DEF TickCollect, TickApply, Fresh
<1>13. CASE BootMark \/ BootApply
  <2> DEFINE d1(hit) == [Quiet EXCEPT !.pc = "plan", !.skip = hit]
             d2 == [Quiet EXCEPT !.pc = "arm"]
  <2>1. (\A hit : d1(hit).batch = Quiet.batch) /\ d2.batch = Quiet.batch
    BY DEF Quiet
  <2>2. (\E hit : runner' = Set("boot", d1(hit))) \/ runner' = Set("boot", d2)
    BY <1>13, Zenon DEF BootMark, BootApply
  <2> HIDE DEF d1, d2
  <2> QED
    BY <1>10, <1>11, <2>1, <2>2 DEF Runners
<1>14. CASE BootPlan
  <2> DEFINE d(pc, deferred, set) ==
               [pc |-> pc, skip |-> {}, deferred |-> deferred, batch |-> Fresh(set)]
  <2>1. \E pc, deferred, set : runner' = Set("boot", d(pc, deferred, set))
    BY <1>14, Zenon DEF BootPlan, Fresh
  <2>2. \A pc, deferred, set : d(pc, deferred, set).batch = Fresh(set)
    OBVIOUS
  <2> HIDE DEF d
  <2> QED
    BY <1>10, <1>11, <2>1, <2>2 DEF Runners
<1>15. CASE BootArm
  BY <1>10, <1>11, <1>15 DEF BootArm, Runners
<1>16. CASE Crash
  <2>1. runner'[a].batch = Quiet.batch
    BY <1>16 DEF Crash, Runners, Quiet
  <2> QED
    BY <1>11, <2>1
<1> QED
  BY <1>2, <1>3, <1>4, <1>5, <1>6, <1>7, <1>8, <1>9, <1>12, <1>13, <1>14, <1>15, <1>16
  DEF Next, Section, Execution, Outside, Runners

(* A run writes nothing down itself. *)
LEMMA RunsOnly == Execution => disk' = disk /\ succeeded' = succeeded
<1>1. \A a \in {"tick", "boot"}, j \in Jobs : StartRun(a, j) => disk' = disk /\ succeeded' = succeeded
  BY Zenon DEF StartRun
<1>2. \A a \in {"tick", "boot"}, j \in Jobs, outcome \in Outcomes :
        EndRun(a, j, outcome) => disk' = disk /\ succeeded' = succeeded
  BY Zenon DEF EndRun
<1>3. \A m \in ManualRuns, outcome \in Outcomes : EndManual(m, outcome) => disk' = disk /\ succeeded' = succeeded
  BY Zenon DEF EndManual
<1> QED
  BY <1>1, <1>2, <1>3, Zenon DEF Execution

(* Only runs of jobs succeed. *)
LEMMA OnlyJobs == Spec => [](succeeded \subseteq Jobs)
<1>1. Init => succeeded \subseteq Jobs
  BY DEF Init
<1>2. Inv /\ succeeded \subseteq Jobs /\ [Next]_vars => (succeeded \subseteq Jobs)'
  <2> SUFFICES ASSUME Inv, succeeded \subseteq Jobs, [Next]_vars
               PROVE  succeeded' \subseteq Jobs
    OBVIOUS
  <2>1. \/ succeeded' \subseteq succeeded
        \/ \E s, b : succeeded' = succeeded \cup Succeeds(s, b)
        \/ \E m \in ManualRuns : manual[m].pc = "finish" /\ succeeded' = succeeded \cup {manual[m].job}
    <3>1. CASE Advance \/ TickFire
      BY <3>1 DEF Advance, TickFire
    <3>2. ASSUME NEW ok \in BOOLEAN, TickCollect(ok) \/ TickApply(ok)
          PROVE  succeeded' = succeeded \/ succeeded' = succeeded \cup Succeeds(disk, runner["tick"].batch)
      BY <3>2, Zenon DEF TickCollect, TickApply
    <3>3. CASE BootMark \/ BootPlan \/ BootArm
      BY <3>3, Zenon DEF BootMark, BootPlan, BootArm
    <3>4. CASE BootApply
      BY <3>4, Zenon DEF BootApply
    <3>5. ASSUME NEW m \in ManualRuns, NEW ok \in BOOLEAN, Preflight(m) \/ Reserve(m, ok)
          PROVE  succeeded' = succeeded
      BY <3>5, Zenon DEF Preflight, Reserve
    <3>6. ASSUME NEW m \in ManualRuns, NEW ok \in BOOLEAN, Finish(m, ok)
          PROVE  /\ manual[m].pc = "finish"
                 /\ succeeded' = succeeded \/ succeeded' = succeeded \cup {manual[m].job}
      BY <3>6, Zenon DEF Finish
    <3>7. CASE Execution
      BY <3>7, RunsOnly
    <3>8. CASE Outside
      BY <3>8 DEF Outside, Call, Add, Remove, SetEnabled, Read, Crash
    <3>9. CASE UNCHANGED vars
      BY <3>9 DEF vars
    <3> QED
      BY <3>1, <3>2, <3>3, <3>4, <3>5, <3>6, <3>7, <3>8, <3>9 DEF Next, Section
  <2>2. \A s, b : Succeeds(s, b) \subseteq Jobs
    BY DEF Succeeds
  <2>3. \A m \in ManualRuns : manual[m].pc = "finish" => manual[m].job \in Jobs
    BY DEF Inv, CallsTyped
  <2> QED
    BY <2>1, <2>2, <2>3
<1> QED
  BY <1>1, <1>2, Invariant, PTL DEF Spec

(* A one-shot job whose success is in the file is not executed again by    *)
(* the timer or a catch-up: what has ended well is disabled in both copies *)
(* of the store, so that no batch takes it up, and no entry of an older    *)
(* batch waits for it, unless its marker was given up meanwhile.           *)
THEOREM FinishedStays == Spec => OneShotOnce
<1>1. Inv /\ succeeded \subseteq Jobs /\ [Next]_vars =>
        [\A j \in succeeded \ released, a \in {"tick", "boot"} :
           runner'[a].batch[j].st = "executing" => runner[a].batch[j].st = "executing"]_vars
  <2> SUFFICES ASSUME Inv, succeeded \subseteq Jobs, Next, NEW j \in succeeded \ released,
                      NEW a \in {"tick", "boot"}, runner'[a].batch[j].st = "executing"
               PROVE  runner[a].batch[j].st = "executing"
    OBVIOUS
  <2>1. j \in Jobs /\ a \in Runners
    BY DEF Runners
  <2>2. runner[a].batch[j].st \in {"waiting", "executing"}
    BY <2>1, RunsStart
  <2>3. runner[a].batch[j].st # "waiting"
    BY <2>1 DEF Inv, JobInv, NoneWaits
  <2> QED
    BY <2>2, <2>3
<1> QED
  BY <1>1, Invariant, OnlyJobs, PTL DEF Spec, OneShotOnce

(* Each step arms the timer, lets a tick or a start go on, or enables no  *)
(* job and leaves timer and runners as they are.                           *)
LEMMA SchedulerStep == Inv /\ SchedulerAlive /\ [Next]_vars => SchedulerAlive'
<1> DEFINE Enabled == \E j \in Jobs : mem[j].enabled
<1> SUFFICES ASSUME Inv, SchedulerAlive, [Next]_vars
             PROVE  SchedulerAlive'
  OBVIOUS
<1>1. ASSUME runner'["boot"].pc = "off" => runner["boot"].pc = "off",
             timer' = timer, threw' = threw, Enabled' => Enabled,
             runner["tick"].pc # "off" => runner'["tick"].pc # "off"
      PROVE  SchedulerAlive'
  BY <1>1 DEF SchedulerAlive
<1>2. ASSUME ArmTimer(mem')
      PROVE  SchedulerAlive'
  BY <1>2 DEF ArmTimer, SchedulerAlive
<1>3. ASSUME NEW ok \in BOOLEAN, ArmIf(ok, mem')
      PROVE  SchedulerAlive'
  <2>1. CASE ok
    BY <1>2, <1>3, <2>1 DEF ArmIf
  <2>2. CASE ~ok
    BY <1>3, <2>2 DEF ArmIf, Throws, SchedulerAlive
  <2> QED
    BY <2>1, <2>2
<1>4. /\ runner \in [Runners -> RunnerType]
      /\ now \in Nat /\ mem \in [Jobs -> JobType(now)]
  BY CronAssumption DEF Inv, RunnersTyped, StoresTyped
<1>5. ASSUME NEW expired \in BOOLEAN, mem' = Maintained(mem, now, expired)
      PROVE  Enabled' => Enabled
  <2>1. Repairs(mem, mem', Cleared(mem, now))
    BY <1>4, <1>5, MaintainedFields
  <2> QED
    BY <2>1 DEF Repairs
<1>6. CASE Advance \/ UNCHANGED vars
  BY <1>1, <1>6 DEF Advance, vars
<1>7. CASE TickFire
  BY <1>7 DEF TickFire, SchedulerAlive
<1>8. ASSUME NEW ok \in BOOLEAN, TickCollect(ok)
      PROVE  SchedulerAlive'
  <2>1. CASE \E d : runner' = Set("tick", d) /\ d.pc = "run"
    BY <1>4, <2>1 DEF Set, Runners, SchedulerAlive
  <2>2. CASE ArmTimer(mem')
    BY <1>2, <2>2
  <2>3. \/ \E due : runner' = Set("tick", [Quiet EXCEPT !.pc = "run", !.batch = Fresh(due)])
        \/ ArmTimer(mem')
    BY <1>8, Zenon DEF TickCollect, Persist, Fresh
  <2>4. \A due : [Quiet EXCEPT !.pc = "run", !.batch = Fresh(due)].pc = "run"
    BY DEF Quiet
  <2> QED
    BY <2>1, <2>2, <2>3, <2>4
<1>9. ASSUME NEW ok \in BOOLEAN, TickApply(ok)
      PROVE  SchedulerAlive'
  <2>1. ArmTimer(mem')
    BY <1>9, Zenon DEF TickApply, Persist
  <2> QED
    BY <1>2, <2>1
<1>10. CASE BootMark \/ BootPlan \/ BootApply
  <2>1. \E d : runner' = Set("boot", d) /\ d.pc # "off"
    <3> DEFINE d1(hit) == [Quiet EXCEPT !.pc = "plan", !.skip = hit]
               d2 == [Quiet EXCEPT !.pc = "arm"]
               d3(pc, deferred, set) == [pc |-> pc, skip |-> {}, deferred |-> deferred, batch |-> Fresh(set)]
    <3>1. CASE BootMark
      <4>1. \E hit : runner' = Set("boot", d1(hit))
        BY <3>1, Zenon DEF BootMark
      <4>2. \A hit : d1(hit).pc = "plan"
        BY DEF Quiet
      <4> HIDE DEF d1
      <4> QED
        BY <4>1, <4>2
    <3>2. CASE BootPlan
      <4>1. \E pc, deferred, set : runner' = Set("boot", d3(pc, deferred, set)) /\ pc # "off"
        <5>1. \E missed, set : \E pc \in {"arm", "apply", "run"} :
                runner' = Set("boot", d3(pc, missed \ set, set))
          <6> DEFINE next(missed, set) == IF missed = {} THEN "arm" ELSE IF set = {} THEN "apply" ELSE "run"
          <6>1. \E missed, set : runner' = Set("boot", d3(next(missed, set), missed \ set, set))
            BY <3>2, Zenon DEF BootPlan, Fresh
          <6>2. \A missed, set : next(missed, set) \in {"arm", "apply", "run"}
            OBVIOUS
          <6> HIDE DEF next, d3
          <6> QED
            BY <6>1, <6>2
        <5> HIDE DEF d3
        <5> QED
          BY <5>1
      <4>2. \A pc, deferred, set : d3(pc, deferred, set).pc = pc
        OBVIOUS
      <4> HIDE DEF d3
      <4> QED
        BY <4>1, <4>2
    <3>3. CASE BootApply
      <4>1. runner' = Set("boot", d2)
        BY <3>3, Zenon DEF BootApply
      <4>2. d2.pc = "arm"
        BY DEF Quiet
      <4> HIDE DEF d2
      <4> QED
        BY <4>1, <4>2
    <3> QED
      BY <1>10, <3>1, <3>2, <3>3
  <2> QED
    BY <1>4, <2>1 DEF Set, Runners, SchedulerAlive
<1>11. CASE BootArm
  <2>1. ArmTimer(mem')
    BY <1>11, Zenon DEF BootArm, Persist
  <2> QED
    BY <1>2, <2>1
<1>12. ASSUME NEW m \in ManualRuns, Preflight(m)
       PROVE  SchedulerAlive'
  <2>1. mem' = Maintained(mem, now, FALSE) /\ timer' = timer /\ threw' = threw /\ runner' = runner
    BY <1>12, Zenon DEF Preflight
  <2> QED
    BY <1>1, <1>5, <2>1
<1>13. ASSUME NEW m \in ManualRuns, NEW ok \in BOOLEAN, Reserve(m, ok)
       PROVE  SchedulerAlive'
  <2> DEFINE k == manual[m].job
  <2>1. timer' = timer /\ threw' = threw /\ runner' = runner
    BY <1>13, Zenon DEF Reserve
  <2>2. \/ mem' = mem
        \/ mem' = [mem EXCEPT ![k].running = manual[m].from]
    BY <1>13, Zenon DEF Reserve, Persist
  <2>3. \A j \in Jobs : mem'[j].enabled = mem[j].enabled
    <3> HIDE DEF k
    <3> QED
      BY <1>4, <2>2 DEF JobType
  <2> QED
    BY <1>1, <2>1, <2>3
<1>14. ASSUME NEW m \in ManualRuns, NEW ok \in BOOLEAN, Finish(m, ok)
       PROVE  SchedulerAlive'
  <2>1. \/ ArmIf(ok, mem')
        \/ mem' = mem /\ timer' = timer /\ threw' = threw /\ runner' = runner
    BY <1>14, Zenon DEF Finish, Persist
  <2> QED
    BY <1>1, <1>3, <2>1
<1>15. ASSUME NEW x \in Runners, NEW j \in Jobs, StartRun(x, j)
       PROVE  SchedulerAlive'
  <2> DEFINE b == [runner[x].batch EXCEPT ![j] = [@ EXCEPT !.st = "executing", !.same = TRUE, !.from = now]]
  <2>1. runner' = [runner EXCEPT ![x] = [runner[x] EXCEPT !.batch = b]]
    BY <1>4, <1>15 DEF StartRun
  <2>2. \A y \in Runners : runner'[y].pc = runner[y].pc
    <3> HIDE DEF b
    <3> QED
      BY <1>4, <2>1 DEF RunnerType
  <2>3. timer' = timer /\ threw' = threw
    BY <1>15 DEF StartRun
  <2>4. mem' = mem \/ mem' = [mem EXCEPT ![j].running = now]
    BY <1>15 DEF StartRun
  <2>5. \A k \in Jobs : mem'[k].enabled = mem[k].enabled
    BY <1>4, <2>4 DEF JobType
  <2> QED
    BY <1>1, <2>2, <2>3, <2>5 DEF Runners
<1>16. ASSUME NEW x \in Runners, NEW j \in Jobs, NEW outcome \in Outcomes, EndRun(x, j, outcome)
       PROVE  SchedulerAlive'
  <2> DEFINE b == [runner[x].batch EXCEPT ![j] = [@ EXCEPT !.st = "ended", !.to = now, !.outcome = outcome]]
             last == \A i \in Jobs : b[i].st \in {"none", "ended"}
  <2>1. runner' = [runner EXCEPT ![x] = [runner[x] EXCEPT !.batch = b, !.pc = IF last THEN "apply" ELSE @]]
    BY <1>4, <1>16 DEF EndRun
  <2>2. runner[x].pc = "run" /\ timer' = timer /\ threw' = threw /\ mem' = mem
    BY <1>16 DEF EndRun
  <2>3. \A y \in Runners : runner'[y].pc = runner[y].pc \/ (y = x /\ runner'[y].pc = "apply")
    <3> HIDE DEF b, last
    <3> QED
      BY <1>4, <2>1 DEF RunnerType
  <2> QED
    BY <1>1, <2>2, <2>3 DEF Runners
<1>17. CASE \/ \E m \in ManualRuns, outcome \in Outcomes : EndManual(m, outcome)
            \/ \E m \in ManualRuns, j \in Jobs, force \in BOOLEAN : Call(m, j, force)
  BY <1>1, <1>17 DEF EndManual, Call
<1>18. ASSUME NEW j \in Jobs, NEW ok \in BOOLEAN,
              Add(j, ok) \/ Remove(j, ok) \/ \E b \in BOOLEAN : SetEnabled(j, b, ok)
       PROVE  SchedulerAlive'
  <2>1. ArmIf(ok, mem')
    BY <1>18, Zenon DEF Add, Remove, SetEnabled, Persist
  <2> QED
    BY <1>3, <2>1
<1>19. ASSUME NEW ok \in BOOLEAN, Read(ok)
       PROVE  SchedulerAlive'
  <2>1. mem' = Maintained(mem, now, FALSE) /\ timer' = timer /\ threw' = threw /\ runner' = runner
    BY <1>19, Zenon DEF Read, Persist
  <2> QED
    BY <1>1, <1>5, <2>1
<1>20. CASE Crash
  <2>1. runner'["boot"].pc = "mark"
    BY <1>20 DEF Crash, Quiet
  <2> QED
    BY <2>1 DEF SchedulerAlive
<1> QED
  BY <1>6, <1>7, <1>8, <1>9, <1>10, <1>11, <1>12, <1>13, <1>14, <1>15, <1>16, <1>17, <1>18, <1>19, <1>20
  DEF Next, Section, Execution, Outside, Runners

(* Once a start is over, the timer is armed or a tick is under way as long *)
(* as a job is enabled: every section that can enable a job, or ends a     *)
(* tick, arms the timer for what it leaves in memory, unless it throws.    *)
THEOREM SchedulerLives == Spec => []SchedulerAlive
<1>1. Init => SchedulerAlive
  BY DEF Init, SchedulerAlive, Quiet
<1> QED
  BY <1>1, SchedulerStep, Invariant, PTL DEF Spec

-----------------------------------------------------------------------------
(* The slots. *)

(* The step takes a due slot of j out of the file, or to the future; and   *)
(* why it may.                                                             *)
PutsOff(j) ==
  /\ disk[j].enabled /\ disk[j].running = Unset /\ disk[j].next # Unset /\ disk[j].next <= now
  /\ disk'[j].enabled /\ (disk'[j].next = Unset \/ disk'[j].next > now)

Excused(j) ==
  \/ Ran(j)
  \/ disk[j].last >= disk[j].next
  \/ j \in runner["boot"].deferred
  \/ edits' = Append(edits, j)
  \/ faults > 0 /\ (mem[j].next # disk[j].next \/ mem[j].last # disk[j].last)
  \/ \E k \in Jobs : mem[k] = Absent /\ mem'[k].stored

(* What a section that starts from memory finds of the slot.               *)
LEMMA SlotInMemory ==
  ASSUME Inv, NEW j \in Jobs, Started, PutsOff(j)
  PROVE  Excused(j) \/ (mem[j].next = disk[j].next /\ mem[j].last = disk[j].last)
<1>1. faults \in Nat
  BY DEF Inv, StoresTyped
<1>2. CASE faults = 0
  BY <1>2 DEF Inv, JobInv, Synced, PutsOff
<1>3. CASE faults # 0
  BY <1>1, <1>3 DEF Excused
<1> QED
  BY <1>2, <1>3

(* A slot that stays is not put off; nor is one that only maintenance has  *)
(* moved.                                                                  *)
LEMMA SlotStays ==
  ASSUME Inv, NEW j \in Jobs, PutsOff(j)
  PROVE  disk'[j].next # disk[j].next
<1>1. disk[j] \in JobType(now) /\ now \in Nat
  BY CronAssumption DEF Inv, StoresTyped
<1> QED
  BY <1>1 DEF PutsOff, JobType, Unset

LEMMA SlotMaintained ==
  ASSUME Inv, NEW j \in Jobs, PutsOff(j), NEW s \in [Jobs -> JobType(now)], NEW expired \in BOOLEAN,
         s[j].next = disk[j].next,
         disk'[j] = disk[j] \/ disk'[j] = Maintained(s, now, expired)[j]
  PROVE  expired /\ s[j].last >= disk[j].next
<1>1. now \in Nat
  BY CronAssumption DEF Inv, StoresTyped
<1>2. disk'[j].next # disk[j].next
  BY SlotStays
<1>3. disk'[j] = Maintained(s, now, expired)[j]
  BY <1>2
<1>4. Repairs(s, Maintained(s, now, expired), Cleared(s, now))
  BY <1>1, MaintainedFields
<1>5. s[j].enabled /\ s[j].next # Unset
  BY <1>3, <1>4 DEF Repairs, PutsOff
<1> QED
  BY <1>1, <1>2, <1>3, <1>5, MaintainedFields

(* A section of the timer. *)
LEMMA TickKeepsSlot ==
  ASSUME Inv, NEW ok \in BOOLEAN, TickCollect(ok) \/ TickApply(ok), NEW j \in Jobs, PutsOff(j)
  PROVE  Excused(j)
<1>1. now \in Nat /\ disk \in [Jobs -> JobType(now)] /\ runner \in [Runners -> RunnerType]
  BY CronAssumption DEF Inv, StoresTyped, RunnersTyped
<1>2. disk'[j].next # disk[j].next
  BY SlotStays
<1>3. CASE TickCollect(ok)
  <2> DEFINE due == {k \in Jobs : Due(disk[k], now)}
             kept == Maintained(disk, now, TRUE)
             marked == [k \in Jobs |-> IF k \in due THEN [disk[k] EXCEPT !.running = now] ELSE disk[k]]
             s == IF due = {} THEN kept ELSE marked
  <2>1. disk' = IF ok THEN s ELSE disk
    BY <1>3, Zenon DEF TickCollect, Persist
  <2>2. CASE due = {}
    <3>1. disk'[j] = disk[j] \/ disk'[j] = kept[j]
      BY <2>1, <2>2
    <3>2. disk[j].last >= disk[j].next
      BY <1>1, <3>1, SlotMaintained
    <3> QED
      BY <3>2 DEF Excused
  <2>3. CASE due # {}
    <3>1. disk' = IF ok THEN marked ELSE disk
      BY <2>1, <2>3
    <3> HIDE DEF due
    <3>2. marked[j].next = disk[j].next
      BY <1>1 DEF JobType
    <3> HIDE DEF marked
    <3> QED
      BY <1>2, <3>1, <3>2
  <2> QED
    BY <2>2, <2>3
<1>4. CASE TickApply(ok)
  <2> DEFINE b == runner["tick"].batch
             s == Outcome(disk, b)
  <2>1. /\ disk' = IF ok THEN Maintained(s, now, FALSE) ELSE disk
        /\ runner' = Set("tick", Quiet)
    BY <1>4, Zenon DEF TickApply, Persist
  <2>2. \A k \in Jobs : b[k].st = "ended" => EndedEntry(b[k], now)
    BY DEF Inv, RunnersTyped, Runners, EndedEntry, Unset
  <2>3. CASE b[j].st = "ended"
    <3>1. runner'["tick"].batch[j].st = "none"
      BY <1>1, <2>1, BatchTypes DEF Set, Runners
    <3> QED
      BY <2>3, <3>1 DEF Excused, Ran
  <2>4. CASE b[j].st # "ended"
    <3>1. s \in [Jobs -> JobType(now)] /\ s[j] = disk[j]
      BY <1>1, <2>2, <2>4, OutcomeType, OutcomeFields
    <3> HIDE DEF s
    <3>2. disk'[j] = disk[j] \/ disk'[j] = Maintained(s, now, FALSE)[j]
      BY <2>1
    <3> QED
      BY <3>1, <3>2, SlotMaintained
  <2> QED
    BY <2>3, <2>4
<1> QED
  BY <1>3, <1>4

(* A section of a start. *)
LEMMA BootKeepsSlot ==
  ASSUME Inv, BootMark \/ BootPlan \/ BootApply \/ BootArm, NEW j \in Jobs, PutsOff(j)
  PROVE  Excused(j)
<1>1. /\ now \in Nat /\ disk \in [Jobs -> JobType(now)] /\ mem \in [Jobs -> JobType(now)]
      /\ runner \in [Runners -> RunnerType]
  BY CronAssumption DEF Inv, StoresTyped, RunnersTyped
<1>2. disk'[j].next # disk[j].next
  BY SlotStays
<1>3. CASE BootMark
  <2>1. disk' = [k \in Jobs |-> IF k \in {i \in Jobs : disk[i].stored /\ disk[i].running # Unset}
                                THEN Interrupted(disk[k], k) ELSE disk[k]]
    BY <1>3, Zenon DEF BootMark, Persist
  <2>2. disk[j].running = Unset
    BY DEF PutsOff
  <2> QED
    BY <1>2, <2>1, <2>2
<1>4. CASE BootPlan
  <2> DEFINE marked(set) == [k \in Jobs |-> IF k \in set THEN [mem[k] EXCEPT !.running = now] ELSE mem[k]]
  <2>1. disk' = disk \/ \E set : disk' = marked(set)
    BY <1>4, Zenon DEF BootPlan, Persist
  <2>2. PICK set : disk' = marked(set)
    BY <1>2, <2>1
  <2>3. marked(set)[j].next = mem[j].next
    BY <1>1 DEF JobType
  <2> HIDE DEF marked
  <2>4. mem[j].next # disk[j].next
    BY <1>2, <2>2, <2>3
  <2>5. Started
    BY <1>4, Zenon DEF BootPlan, Started
  <2> QED
    BY <2>4, <2>5, SlotInMemory
<1>5. CASE BootApply
  <2> DEFINE b == runner["boot"].batch
             s == Outcome(mem, b)
             n(k) == now + IF k \in AgentJobs THEN 2 ELSE 1
             later == [k \in Jobs |-> IF k \in runner["boot"].deferred /\ s[k].stored /\ s[k].enabled
                                      THEN [s[k] EXCEPT !.next = n(k)] ELSE s[k]]
  <2>1. /\ disk' = Maintained(later, now, FALSE)
        /\ \E d : runner' = Set("boot", d) /\ d.batch = Quiet.batch
        /\ runner["boot"].pc = "apply"
    <3> DEFINE d == [Quiet EXCEPT !.pc = "arm"]
    <3>1. d.batch = Quiet.batch
      BY DEF Quiet
    <3>2. runner' = Set("boot", d) /\ runner["boot"].pc = "apply"
      BY <1>5, Zenon DEF BootApply
    <3>3. disk' = Maintained(later, now, FALSE)
      BY <1>5 DEF BootApply, Persist
    <3> HIDE DEF d, later
    <3> QED
      BY <3>1, <3>2, <3>3
  <2>2. \A k \in Jobs : b[k].st = "ended" => EndedEntry(b[k], now)
    BY DEF Inv, RunnersTyped, Runners, EndedEntry, Unset
  <2>3. CASE b[j].st = "ended"
    <3>1. runner'["boot"].batch[j].st = "none"
      BY <1>1, <2>1, BatchTypes DEF Set, Runners
    <3> QED
      BY <2>3, <3>1 DEF Excused, Ran
  <2>4. CASE j \in runner["boot"].deferred
    BY <2>4 DEF Excused
  <2>5. CASE b[j].st # "ended" /\ j \notin runner["boot"].deferred
    <3>1. s \in [Jobs -> JobType(now)] /\ s[j] = mem[j]
      BY <1>1, <2>2, <2>5, OutcomeType, OutcomeFields
    <3> HIDE DEF s
    <3>2. \A k \in Jobs : [s[k] EXCEPT !.next = n(k)] \in JobType(now)
      <4> SUFFICES ASSUME NEW k \in Jobs
                   PROVE  [s[k] EXCEPT !.next = n(k)] \in JobType(now)
        OBVIOUS
      <4>1. s[k] \in JobType(now) /\ n(k) \in Nat \cup {Unset}
        BY <1>1, <3>1
      <4> HIDE DEF n
      <4> QED
        BY <4>1 DEF JobType
    <3> HIDE DEF n
    <3>3. later \in [Jobs -> JobType(now)] /\ later[j] = mem[j]
      BY <2>5, <3>1, <3>2
    <3> HIDE DEF later
    <3>4. Started
      BY <2>1 DEF Started
    <3>5. CASE later[j].next = disk[j].next
      BY <2>1, <3>3, <3>5, SlotMaintained
    <3>6. CASE later[j].next # disk[j].next
      BY <3>3, <3>4, <3>6, SlotInMemory
    <3> QED
      BY <3>5, <3>6
  <2> QED
    BY <2>3, <2>4, <2>5
<1>6. CASE BootArm
  <2>1. /\ disk' = disk \/ disk' = Maintained(mem, now, TRUE)
        /\ Started
    BY <1>6, Zenon DEF BootArm, Persist, Started
  <2>2. CASE mem[j].next = disk[j].next /\ mem[j].last = disk[j].last
    <3>1. mem[j].last >= disk[j].next
      BY <1>1, <2>1, <2>2, SlotMaintained
    <3> QED
      BY <2>2, <3>1 DEF Excused
  <2> QED
    BY <2>1, <2>2, SlotInMemory
<1> QED
  BY <1>3, <1>4, <1>5, <1>6

(* A section of a manual run. *)
LEMMA ManualKeepsSlot ==
  ASSUME Inv, NEW m \in ManualRuns, NEW ok \in BOOLEAN, Preflight(m) \/ Reserve(m, ok) \/ Finish(m, ok),
         NEW j \in Jobs, PutsOff(j)
  PROVE  Excused(j)
<1>1. /\ now \in Nat /\ disk \in [Jobs -> JobType(now)] /\ mem \in [Jobs -> JobType(now)]
      /\ manual \in [ManualRuns -> CallType]
  BY CronAssumption DEF Inv, StoresTyped, CallsTyped
<1>2. disk'[j].next # disk[j].next
  BY SlotStays
<1> DEFINE k == manual[m].job
<1>3. CASE Preflight(m)
  BY <1>2, <1>3, Zenon DEF Preflight
<1>4. CASE Reserve(m, ok)
  <2>1. disk' = disk \/ disk' = [mem EXCEPT ![k].running = manual[m].from]
    BY <1>4, Zenon DEF Reserve, Persist
  <2> HIDE DEF k
  <2>2. disk'[j].next = mem[j].next
    BY <1>1, <1>2, <2>1 DEF JobType
  <2>3. manual[m].pc = "reserve"
    BY <1>4, Zenon DEF Reserve
  <2>4. Started
    BY <2>3 DEF Inv, Alone
  <2> QED
    BY <1>2, <2>2, <2>4, SlotInMemory
<1>5. CASE Finish(m, ok)
  <2> DEFINE r == Applied(mem[k], k, manual[m].outcome, manual[m].from, manual[m].to, manual[m].force)
             merged == IF disk[k].stored THEN [disk EXCEPT ![k] = r] ELSE disk
  <2>1. /\ manual[m].pc = "finish" /\ manual' = [manual EXCEPT ![m] = Over]
        /\ disk' = disk \/ (mem[k].stored /\ disk' = Maintained(merged, now, TRUE))
    BY <1>5, Zenon DEF Finish, Persist
  <2>2. CASE j = k
    <3>1. manual'[m].pc = "done"
      BY <1>1, <2>1, CallTypes
    <3> QED
      BY <2>1, <2>2, <3>1 DEF Excused, Ran
  <2>3. CASE j # k
    <3>1. mem[k].stored /\ disk' = Maintained(merged, now, TRUE)
      BY <1>2, <2>1
    <3>2. r \in JobType(now)
      <4>1. /\ manual[m].from \in Unset..now /\ manual[m].to \in 0..now
            /\ manual[m].outcome \in Outcomes /\ k \in Jobs /\ manual[m].force \in BOOLEAN
        BY <1>1, <2>1 DEF Inv, CallsTyped, CallType, Unset
      <4> HIDE DEF k
      <4> QED
        BY <1>1, <3>1, <4>1, AppliedFields
    <3> HIDE DEF r
    <3>3. merged \in [Jobs -> JobType(now)] /\ merged[j] = disk[j]
      BY <1>1, <2>3, <3>2
    <3> HIDE DEF merged
    <3>4. merged[j].last >= disk[j].next
      BY <3>1, <3>3, SlotMaintained
    <3> QED
      BY <3>3, <3>4 DEF Excused
  <2> QED
    BY <2>2, <2>3
<1> QED
  BY <1>3, <1>4, <1>5

(* A call from outside. *)
LEMMA OutsideKeepsSlot ==
  ASSUME Inv, Outside, NEW j \in Jobs, PutsOff(j)
  PROVE  Excused(j)
<1>1. now \in Nat /\ disk \in [Jobs -> JobType(now)] /\ mem \in [Jobs -> JobType(now)]
  BY CronAssumption DEF Inv, StoresTyped
<1>2. disk'[j].next # disk[j].next
  BY SlotStays
<1>3. CASE Crash \/ \E m \in ManualRuns, i \in Jobs, force \in BOOLEAN : Call(m, i, force)
  BY <1>2, <1>3, Zenon DEF Crash, Call
<1>4. ASSUME NEW k \in Jobs, NEW ok \in BOOLEAN, Add(k, ok)
      PROVE  Excused(j)
  <2> DEFINE e == [NewJob EXCEPT !.next = NextRun(NewJob, k, now)]
             s == [mem EXCEPT ![k] = e]
  <2>1. mem[k] = Absent /\ mem' = AllRecomputed(s, now)
    BY <1>4 DEF Add, Persist
  <2>2. e \in JobType(now) /\ e.stored
    BY <1>1, NewJobType
  <2> HIDE DEF e
  <2>3. s \in [Jobs -> JobType(now)] /\ s[k].stored
    BY <1>1, <2>2
  <2> HIDE DEF s
  <2>4. Repairs(s, mem', Cleared(s, now))
    BY <1>1, <2>1, <2>3, AllRecomputedFields
  <2>5. mem'[k].stored
    BY <2>3, <2>4 DEF Repairs
  <2> QED
    BY <2>1, <2>5 DEF Excused
<1>5. ASSUME NEW k \in Jobs, NEW ok \in BOOLEAN,
             Remove(k, ok) \/ \E b \in BOOLEAN : SetEnabled(k, b, ok)
      PROVE  Excused(j)
  <2>1. /\ edits' = Append(edits, k) /\ Started
        /\ disk' = disk \/ \E d : disk' = [mem EXCEPT ![k] = d]
    BY <1>5, Zenon DEF Remove, SetEnabled, Edited, Persist
  <2>2. CASE j = k
    BY <2>1, <2>2 DEF Excused
  <2>3. CASE j # k
    <3>1. disk'[j] = mem[j]
      BY <1>1, <1>2, <2>1, <2>3
    <3> QED
      BY <1>2, <2>1, <3>1, SlotInMemory
  <2> QED
    BY <2>2, <2>3
<1>6. ASSUME NEW ok \in BOOLEAN, Read(ok)
      PROVE  Excused(j)
  <2>1. Started /\ (disk' = disk \/ disk' = Maintained(mem, now, FALSE))
    BY <1>6, Zenon DEF Read, Persist
  <2>2. CASE mem[j].next = disk[j].next
    BY <1>1, <2>1, <2>2, SlotMaintained
  <2> QED
    BY <2>1, <2>2, SlotInMemory
<1> QED
  BY <1>3, <1>4, <1>5, <1>6 DEF Outside

(* A due slot is not lost: only a run of the job, a start that puts it     *)
(* off, an edit, or memory and file at odds after a failed write take it   *)
(* to the future; a slot that maintenance recomputes has had its run.      *)
THEOREM SlotsKept == Spec => SlotKept
<1>1. Inv /\ [Next]_vars =>
        [\A j \in Jobs :
           /\ disk[j].enabled /\ disk[j].running = Unset /\ disk[j].next # Unset /\ disk[j].next <= now
           /\ disk'[j].enabled /\ (disk'[j].next = Unset \/ disk'[j].next > now)
           => \/ Ran(j)
              \/ disk[j].last >= disk[j].next
              \/ j \in runner["boot"].deferred
              \/ edits' = Append(edits, j)
              \/ faults > 0 /\ (mem[j].next # disk[j].next \/ mem[j].last # disk[j].last)
              \/ \E k \in Jobs : mem[k] = Absent /\ mem'[k].stored]_vars
  <2> SUFFICES ASSUME Inv, Next, NEW j \in Jobs, PutsOff(j)
               PROVE  Excused(j)
    BY DEF PutsOff, Excused
  <2>1. disk' # disk
    BY SlotStays
  <2>2. CASE Advance \/ TickFire \/ Execution
    <3>1. Advance \/ TickFire => disk' = disk
      BY DEF Advance, TickFire
    <3>2. Execution => disk' = disk
      BY RunsOnly
    <3> QED
      BY <2>1, <2>2, <3>1, <3>2
  <2>3. CASE Section
    BY <2>3, TickKeepsSlot, BootKeepsSlot, ManualKeepsSlot DEF Section
  <2>4. CASE Outside
    BY <2>4, OutsideKeepsSlot
  <2> QED
    BY <2>2, <2>3, <2>4 DEF Next
<1> QED
  BY <1>1, Invariant, PTL DEF Spec, SlotKept
=============================================================================

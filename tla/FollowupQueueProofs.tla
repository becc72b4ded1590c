------------------------ MODULE FollowupQueueProofs ------------------------
(***************************************************************************)
(* The proof that a message's prompt is neither queued nor run twice, for  *)
(* any messages, settings, drop policies, clears and numbers of queue      *)
(* objects. The hard case is a drain that works through a batch it took    *)
(* as a snapshot while messages are dropped from the front of the queue    *)
(* and others arrive: Aligned says what is left of the queue then.         *)
(*                                                                         *)
(* Without clears and runs that bypass the reply pipeline, also that no    *)
(* message waits unattended (Watched); where moreover nothing is dropped   *)
(* and no id expires, that the accepted messages are at every moment those *)
(* already run followed by those that wait (InOrder).                      *)
(***************************************************************************)
EXTENDS FollowupQueue, SequenceTheorems, WellFoundedInduction, TLAPS

Once(s) == \A i, j \in 1..Len(s) : s[i] = s[j] => i = j

(* An item of the queue s that is also in the batch b of its drain is at   *)
(* most as far from the front of s as of b.                                *)
Aligned(s, b) ==
  \A i \in 1..Len(b), j \in 1..Len(s) : (s[j] = b[i] /\ s[j] \notin Forgettable) => j <= i

-----------------------------------------------------------------------------
(* Sequences. *)

LEMMA WithoutIs ==
  ASSUME NEW s \in Seq(Messages), NEW n \in Nat
  PROVE  /\ Without(s, n) \in Seq(Messages)
         /\ \A i \in 1..Len(Without(s, n)) : n + i \in 1..Len(s) /\ Without(s, n)[i] = s[n + i]
         /\ Elems(Without(s, n)) \subseteq Elems(s)
<1>1. Without(s, n) \in Seq(Messages)
  BY DEF Without
<1>2. \A i \in 1..Len(Without(s, n)) : n + i \in 1..Len(s) /\ Without(s, n)[i] = s[n + i]
  <2>1. CASE n <= Len(s)
    BY <2>1 DEF Without
  <2>2. CASE n > Len(s)
    <3>1. Len(Without(s, n)) = 0
      BY <2>2 DEF Without
    <3> QED
      BY <3>1
  <2> QED
    BY <2>1, <2>2
<1> QED
  BY <1>1, <1>2 DEF Elems

LEMMA ElemsAppend ==
  ASSUME NEW s \in Seq(Messages), NEW m \in Messages
  PROVE  /\ Elems(Append(s, m)) = Elems(s) \cup {m}
         /\ Append(s, m) \in Seq(Messages)
BY DEF Elems

LEMMA ElemsEmpty == Elems(<<>>) = {}
BY DEF Elems

LEMMA Least ==
  ASSUME NEW T \in SUBSET Nat, T # {}
  PROVE  \E n \in T : \A m \in T : n <= m
<1>1. \E n \in T : \A m \in T : ~(<<m, n>> \in OpToRel(<, Nat))
  BY WFMin, NatLessThanWellFounded, Zenon
<1>2. PICK n \in T : \A m \in T : ~(<<m, n>> \in OpToRel(<, Nat))
  BY <1>1
<1>3. \A m \in T : ~(m < n)
  <2>1. \A m \in T : m \in Nat /\ n \in Nat
    OBVIOUS
  <2> QED
    BY <1>2, <2>1, Zenon DEF OpToRel
<1> QED
  BY <1>3

(* splitCollectItemsByAuthorization starts with a group of a batch. *)
LEMMA GroupLenType ==
  ASSUME NEW s \in Seq(Messages), s # <<>>
  PROVE  GroupLen(s) \in 1..Len(s)
<1> DEFINE Ends == {n \in 1..Len(s) : n = Len(s) \/ AuthOf[s[n + 1]] # AuthOf[s[1]]}
<1>1. Len(s) \in Ends /\ Ends \in SUBSET Nat
  OBVIOUS
<1>2. PICK n \in Ends : \A m \in Ends : n <= m
  BY <1>1, Least
<1>3. \A i \in 1..n : AuthOf[s[i]] = AuthOf[s[1]]
  <2> SUFFICES ASSUME NEW i \in 2..n PROVE AuthOf[s[i]] = AuthOf[s[1]]
    OBVIOUS
  <2>1. i - 1 \in 1..Len(s) /\ i - 1 < n /\ (i - 1) + 1 = i /\ i - 1 # Len(s)
    OBVIOUS
  <2>2. i - 1 \notin Ends
    <3>1. n \in Nat
      OBVIOUS
    <3> HIDE DEF Ends
    <3> QED
      BY <1>2, <2>1, <3>1
  <2> QED
    BY <2>1, <2>2
<1>4. /\ n \in 1..Len(s)
      /\ \A i \in 1..n : AuthOf[s[i]] = AuthOf[s[1]]
      /\ n < Len(s) => AuthOf[s[n + 1]] # AuthOf[s[1]]
  BY <1>2, <1>3
<1> QED
  BY <1>4 DEF GroupLen

(* Accepting a message, with n dropped from the front. *)
LEMMA AlignedPush ==
  ASSUME NEW s \in Seq(Messages), NEW b \in Seq(Messages), NEW n \in Nat, NEW m \in Messages,
         Once(s), Aligned(s, b), m \notin Elems(s), m \in Elems(b) => m \in Forgettable
  PROVE  Once(Append(Without(s, n), m)) /\ Aligned(Append(Without(s, n), m), b)
<1> DEFINE w == Without(s, n)
           a == Append(w, m)
<1>1. /\ w \in Seq(Messages)
      /\ \A i \in 1..Len(w) : n + i \in 1..Len(s) /\ w[i] = s[n + i]
      /\ Elems(w) \subseteq Elems(s)
  BY WithoutIs
<1> HIDE DEF w
<1>2. /\ Len(w) \in Nat
      /\ Len(a) = Len(w) + 1
      /\ a[Len(w) + 1] = m
      /\ \A i \in 1..Len(w) : a[i] = w[i] /\ w[i] # m
  <2>1. \A i \in 1..Len(w) : w[i] # m
    <3>1. \A i \in 1..Len(w) : w[i] \in Elems(w)
      BY DEF Elems
    <3> QED
      BY <3>1, <1>1
  <2> QED
    BY <1>1, <2>1
<1>3. \A i \in 1..Len(a) : i \in 1..Len(w) \/ i = Len(w) + 1
  BY <1>2
<1> HIDE DEF a
<1>4. Once(a)
  <2>1. \A i, j \in 1..Len(w) : w[i] = w[j] => i = j
    <3> SUFFICES ASSUME NEW i \in 1..Len(w), NEW j \in 1..Len(w), w[i] = w[j] PROVE i = j
      OBVIOUS
    <3>1. n + i = n + j
      BY <1>1 DEF Once
    <3> QED
      BY <3>1
  <2> QED
    BY <2>1, <1>2, <1>3 DEF Once
<1>5. Aligned(a, b)
  <2> SUFFICES ASSUME NEW i \in 1..Len(b), NEW j \in 1..Len(a), a[j] = b[i], a[j] \notin Forgettable
               PROVE  j <= i
    BY DEF Aligned
  <2>1. CASE j = Len(w) + 1
    BY <2>1, <1>2 DEF Elems
  <2>2. CASE j \in 1..Len(w)
    <3>1. n + j \in 1..Len(s) /\ s[n + j] = b[i] /\ s[n + j] \notin Forgettable
      BY <2>2, <1>1, <1>2
    <3>2. n + j <= i
      BY <3>1 DEF Aligned
    <3> QED
      BY <3>2
  <2> QED
    BY <2>1, <2>2, <1>3
<1> QED
  BY <1>4, <1>5 DEF a, w

(* A run that had the first g messages of the batch succeeds, and c items  *)
(* leave the queue.                                                        *)
LEMMA AlignedRun ==
  ASSUME NEW s \in Seq(Messages), NEW b \in Seq(Messages), NEW g \in 0..Len(b), NEW c \in Nat,
         g <= c, Once(s), Once(b), Aligned(s, b)
  PROVE  /\ Once(Without(s, c))
         /\ Once(Without(b, g))
         /\ c = g => Aligned(Without(s, c), Without(b, g))
         /\ SubSeq(b, 1, g) \in Seq(Messages)
         /\ Once(SubSeq(b, 1, g))
         /\ Elems(SubSeq(b, 1, g)) \subseteq Elems(b)
         /\ Elems(SubSeq(b, 1, g)) \cap Elems(Without(b, g)) = {}
         /\ Elems(SubSeq(b, 1, g)) \cap Elems(Without(s, c)) \subseteq Forgettable
<1> DEFINE w == Without(s, c)
           r == Without(b, g)
           h == SubSeq(b, 1, g)
<1>1. /\ w \in Seq(Messages)
      /\ \A i \in 1..Len(w) : c + i \in 1..Len(s) /\ w[i] = s[c + i]
  BY WithoutIs
<1>2. /\ r \in Seq(Messages)
      /\ \A i \in 1..Len(r) : g + i \in 1..Len(b) /\ r[i] = b[g + i]
  BY WithoutIs
<1>3. /\ h \in Seq(Messages)
      /\ Len(h) = g
      /\ \A i \in 1..Len(h) : i \in 1..Len(b) /\ h[i] = b[i]
  OBVIOUS
<1> HIDE DEF w, r, h
<1>4. Once(w)
  <2> SUFFICES ASSUME NEW i \in 1..Len(w), NEW j \in 1..Len(w), w[i] = w[j] PROVE i = j
    BY DEF Once
  <2>1. c + i = c + j
    BY <1>1 DEF Once
  <2> QED
    BY <2>1
<1>5. Once(r)
  <2> SUFFICES ASSUME NEW i \in 1..Len(r), NEW j \in 1..Len(r), r[i] = r[j] PROVE i = j
    BY DEF Once
  <2>1. g + i = g + j
    BY <1>2 DEF Once
  <2> QED
    BY <2>1
<1>6. ASSUME c = g PROVE Aligned(w, r)
  <2> SUFFICES ASSUME NEW i \in 1..Len(r), NEW j \in 1..Len(w), w[j] = r[i], w[j] \notin Forgettable
               PROVE  j <= i
    BY DEF Aligned
  <2>1. c + j <= g + i
    BY <1>1, <1>2 DEF Aligned
  <2> QED
    BY <2>1, <1>6
<1>7. Once(h) /\ Elems(h) \subseteq Elems(b)
  BY <1>3 DEF Once, Elems
<1>8. Elems(h) \cap Elems(r) = {}
  <2> SUFFICES ASSUME NEW i \in 1..Len(h), NEW j \in 1..Len(r), h[i] = r[j] PROVE FALSE
    BY DEF Elems
  <2>1. i \in 1..Len(b) /\ g + j \in 1..Len(b) /\ b[i] = b[g + j]
    BY <1>2, <1>3
  <2>2. i = g + j
    BY <2>1 DEF Once
  <2> QED
    BY <2>2, <1>3
<1>9. Elems(h) \cap Elems(w) \subseteq Forgettable
  <2> SUFFICES ASSUME NEW i \in 1..Len(h), NEW j \in 1..Len(w), h[i] = w[j], w[j] \notin Forgettable
               PROVE  FALSE
    BY DEF Elems
  <2>1. c + j <= i
    BY <1>1, <1>3 DEF Aligned
  <2> QED
    BY <2>1, <1>3
<1> QED
  BY <1>3, <1>4, <1>5, <1>6, <1>7, <1>8, <1>9 DEF w, r, h

(* A drain takes its queue, the head of it, or nothing, as its batch. *)
LEMMA AlignedBatch ==
  ASSUME NEW s \in Seq(Messages), NEW b, Once(s), b \in {s, <<>>} \/ (s # <<>> /\ b = <<s[1]>>)
  PROVE  Once(b) /\ Aligned(s, b) /\ Elems(b) \subseteq Elems(s) /\ b \in Seq(Messages)
<1>1. CASE b = s
  BY <1>1 DEF Once, Aligned
<1>2. CASE b = <<>>
  BY <1>2 DEF Once, Aligned, Elems
<1>3. CASE s # <<>> /\ b = <<s[1]>>
  <2>1. Len(b) = 1 /\ b[1] = s[1] /\ 1 \in 1..Len(s) /\ b \in Seq(Messages)
    BY <1>3
  <2>2. Once(b) /\ Elems(b) \subseteq Elems(s)
    BY <2>1 DEF Once, Elems
  <2>3. Aligned(s, b)
    BY <2>1 DEF Once, Aligned
  <2> QED
    BY <2>1, <2>2, <2>3
<1> QED
  BY <1>1, <1>2, <1>3

-----------------------------------------------------------------------------
(* The invariant: of a message whose id does not expire there is one copy  *)
(* in all queues, batches and the log, but for an item that is also in the *)
(* batch of its own drain.                                                 *)

Live(q) == Elems(queue[q].items) \cup Elems(queue[q].batch)

Local ==
  \A q \in Objects : /\ Once(queue[q].items)
                     /\ Once(queue[q].batch)
                     /\ Aligned(queue[q].items, queue[q].batch)

Apart == \A p, q \in Objects : p # q => Live(p) \cap Live(q) \subseteq Forgettable

Known ==
  /\ Elems(log) \subseteq recent \cup Forgettable
  /\ \A q \in Objects : Live(q) \subseteq recent \cup Forgettable

Fresh == \A q \in Objects : Live(q) \cap Elems(log) \subseteq Forgettable

OneCopy == Local /\ Apart /\ Known /\ Fresh /\ RunOnce

Inv == TypeOK /\ OneCopy

(* Nothing is accepted and no run succeeds. *)
LEMMA CalmKeeps ==
  ASSUME OneCopy, Local', \A q \in Objects : Live(q)' \subseteq Live(q),
         log' = log, recent \subseteq recent' \cup Forgettable
  PROVE  OneCopy'
<1>1. Apart'
  BY DEF OneCopy, Apart
<1>2. Known'
  BY DEF OneCopy, Known, Elems
<1>3. Fresh'
  BY DEF OneCopy, Fresh, Elems
<1>4. RunOnce'
  BY DEF OneCopy, RunOnce
<1> QED
  BY <1>1, <1>2, <1>3, <1>4 DEF OneCopy

(* A message is accepted into the queue object o. *)
LEMMA AcceptKeeps ==
  ASSUME OneCopy, Local', NEW o \in Objects, NEW m \in Messages, m \notin recent,
         \A q \in Objects : Live(q)' \subseteq Live(q) \cup (IF q = o THEN {m} ELSE {}),
         log' = log, recent' = recent \cup {m}
  PROVE  OneCopy'
<1>1. Apart'
  <2> SUFFICES ASSUME NEW p \in Objects, NEW q \in Objects, p # q
               PROVE  Live(p)' \cap Live(q)' \subseteq Forgettable
    BY DEF Apart
  <2>1. Live(p) \cap Live(q) \subseteq Forgettable
    BY DEF OneCopy, Apart
  <2>2. Live(p) \cap {m} \subseteq Forgettable /\ Live(q) \cap {m} \subseteq Forgettable
    BY DEF OneCopy, Known
  <2> QED
    BY <2>1, <2>2
<1>2. Known'
  BY DEF OneCopy, Known, Elems
<1>3. Fresh'
  <2>1. Elems(log) \cap {m} \subseteq Forgettable
    BY DEF OneCopy, Known
  <2>2. Elems(log') = Elems(log)
    BY DEF Elems
  <2> QED
    BY <2>1, <2>2 DEF OneCopy, Fresh
<1>4. RunOnce'
  BY DEF OneCopy, RunOnce
<1> QED
  BY <1>1, <1>2, <1>3, <1>4 DEF OneCopy

(* A run of the queue object o succeeds with the messages h. *)
LEMMA LogKeeps ==
  ASSUME OneCopy, Local', NEW o \in Objects, NEW h \in Seq(Messages), Once(h), log \in Seq(Messages),
         Elems(h) \subseteq Live(o), Live(o)' \cap Elems(h) \subseteq Forgettable,
         \A q \in Objects : Live(q)' \subseteq Live(q),
         log' = log \o h, recent' = recent
  PROVE  OneCopy'
<1>1. Apart'
  BY DEF OneCopy, Apart
<1>2. /\ Len(log') = Len(log) + Len(h) /\ Len(log) \in Nat /\ Len(h) \in Nat
      /\ \A i \in 1..Len(log) : log'[i] = log[i]
      /\ \A i \in 1..Len(h) : log'[Len(log) + i] = h[i]
  OBVIOUS
<1>3. \A i \in 1..Len(log') : i \in 1..Len(log) \/ i - Len(log) \in 1..Len(h)
  BY <1>2
<1>4. \A i \in 1..Len(log') : \/ i \in 1..Len(log) /\ log'[i] = log[i]
                              \/ i - Len(log) \in 1..Len(h) /\ log'[i] = h[i - Len(log)]
  <2> SUFFICES ASSUME NEW i \in 1..Len(log'), i \notin 1..Len(log)
               PROVE  i - Len(log) \in 1..Len(h) /\ log'[i] = h[i - Len(log)]
    BY <1>2
  <2>1. i - Len(log) \in 1..Len(h) /\ Len(log) + (i - Len(log)) = i
    BY <1>2, <1>3
  <2> QED
    BY <2>1, <1>2
<1>5. Elems(log') \subseteq Elems(log) \cup Elems(h)
  BY <1>4 DEF Elems
<1>6. Known'
  BY <1>5 DEF OneCopy, Known
<1>7. Fresh'
  <2> SUFFICES ASSUME NEW q \in Objects PROVE Live(q)' \cap Elems(log') \subseteq Forgettable
    BY DEF Fresh, Elems
  <2>1. Live(q) \cap Elems(log) \subseteq Forgettable
    BY DEF OneCopy, Fresh
  <2>2. Live(q)' \cap Elems(h) \subseteq Forgettable
    <3>1. CASE q = o
      BY <3>1
    <3>2. CASE q # o
      BY <3>2 DEF OneCopy, Apart
    <3> QED
      BY <3>1, <3>2
  <2> QED
    BY <2>1, <2>2, <1>5
<1>8. RunOnce'
  <2> SUFFICES ASSUME NEW i \in 1..Len(log'), NEW j \in 1..Len(log'), i # j, log'[i] = log'[j],
                      log'[i] \notin Forgettable
               PROVE  FALSE
    BY DEF RunOnce
  <2>1. Elems(log) \cap Elems(h) \subseteq Forgettable
    BY DEF OneCopy, Fresh
  <2>2. CASE i \in 1..Len(log) /\ j \in 1..Len(log)
    BY <2>2, <1>2 DEF OneCopy, RunOnce
  <2>3. CASE i \notin 1..Len(log) /\ j \notin 1..Len(log)
    <3>1. i - Len(log) = j - Len(log)
      BY <2>3, <1>4 DEF Once
    <3> QED
      BY <3>1, <1>2
  <2>4. CASE i \in 1..Len(log) /\ j \notin 1..Len(log)
    <3>1. log'[i] \in Elems(log) /\ log'[j] \in Elems(h)
      BY <2>4, <1>4 DEF Elems
    <3> QED
      BY <2>1, <3>1
  <2>5. CASE i \notin 1..Len(log) /\ j \in 1..Len(log)
    <3>1. log'[j] \in Elems(log) /\ log'[i] \in Elems(h)
      BY <2>5, <1>4 DEF Elems
    <3> QED
      BY <2>1, <3>1
  <2> QED
    BY <2>2, <2>3, <2>4, <2>5
<1> QED
  BY <1>1, <1>6, <1>7, <1>8 DEF OneCopy

-----------------------------------------------------------------------------
(* What the pieces the actions are made of do to items and batches. *)

Typed(qs) ==
  /\ qs \in [Objects -> QueueType]
  /\ \A q \in Objects : qs[q].batch # <<>> <=> qs[q].pc \in {"own", "collect", "overflow"}

LEMMA BeginKeeps ==
  ASSUME NEW qs, Typed(qs), NEW c \in Objects \cup {None}, Begin(qs, c)
  PROVE  /\ Typed(queue')
         /\ current' \in Objects \cup {None}
         /\ \A q \in Objects : queue'[q].items = qs[q].items /\ queue'[q].batch = qs[q].batch
<1>1. CASE queue' = qs /\ current' \in {c, None}
  BY <1>1
<1>2. CASE /\ c # None /\ ~Draining(qs[c])
           /\ queue' = [qs EXCEPT ![c].pc = "debounce", ![c].force = FALSE]
           /\ current' = c
  <2>1. c \in Objects /\ qs[c] \in QueueType /\ qs[c].pc = "idle" /\ qs[c].batch = <<>>
    BY <1>2 DEF Typed, Draining
  <2> DEFINE d == [qs[c] EXCEPT !.pc = "debounce", !.force = FALSE]
  <2>2. d \in QueueType /\ d.items = qs[c].items /\ d.batch = <<>> /\ d.pc = "debounce"
    BY <2>1 DEF QueueType
  <2>3. queue' = [qs EXCEPT ![c] = d]
    BY <1>2, <2>1 DEF Typed
  <2> HIDE DEF d
  <2> QED
    BY <1>2, <2>1, <2>2, <2>3 DEF Typed
<1> QED
  BY <1>1, <1>2 DEF Begin

LEMMA IdleIs ==
  ASSUME NEW r \in QueueType
  PROVE  /\ Idle(r) \in QueueType
         /\ Idle(r).items = r.items /\ Idle(r).batch = <<>> /\ Idle(r).pc = "idle"
<1>1. <<>> \in Seq(Messages) /\ {} \in SUBSET Messages
  OBVIOUS
<1> QED
  BY <1>1 DEF Idle, QueueType

LEMMA EndDrainKeeps ==
  ASSUME Typed(queue), current \in Objects \cup {None}, NEW q \in Objects, NEW r \in QueueType,
         EndDrain(q, r)
  PROVE  /\ Typed(queue')
         /\ current' \in Objects \cup {None}
         /\ queue'[q].items = r.items /\ queue'[q].batch = <<>>
         /\ \A p \in Objects \ {q} : /\ queue'[p].items = queue[p].items
                                     /\ queue'[p].batch = queue[p].batch
<1> DEFINE qs == [queue EXCEPT ![q] = Idle(r)]
<1>1. /\ Idle(r) \in QueueType
      /\ Idle(r).items = r.items /\ Idle(r).batch = <<>> /\ Idle(r).pc = "idle"
  BY IdleIs
<1>2. /\ Typed(qs)
      /\ qs[q] = Idle(r)
      /\ \A p \in Objects \ {q} : qs[p] = queue[p]
  BY <1>1 DEF Typed
<1>3. (queue' = qs /\ current' = None) \/ Begin(qs, current)
  BY DEF EndDrain
<1> HIDE DEF qs
<1>4. CASE queue' = qs /\ current' = None
  BY <1>1, <1>2, <1>4
<1>5. CASE Begin(qs, current)
  BY <1>1, <1>2, <1>5, BeginKeeps
<1> QED
  BY <1>3, <1>4, <1>5

LEMMA LoopHeadKeeps ==
  ASSUME Typed(queue), current \in Objects \cup {None}, NEW q \in Objects, NEW r \in QueueType,
         LoopHead(q, r)
  PROVE  /\ Typed(queue')
         /\ current' \in Objects \cup {None}
         /\ queue'[q].items = r.items /\ queue'[q].batch = <<>>
         /\ \A p \in Objects \ {q} : /\ queue'[p].items = queue[p].items
                                     /\ queue'[p].batch = queue[p].batch
<1>1. CASE EndDrain(q, r)
  BY <1>1, EndDrainKeeps
<1>2. CASE /\ queue' = [queue EXCEPT ![q] = [r EXCEPT !.pc = "debounce", !.batch = <<>>, !.told = {}]]
           /\ UNCHANGED current
  <2> DEFINE d == [r EXCEPT !.pc = "debounce", !.batch = <<>>, !.told = {}]
  <2>1. d \in QueueType /\ d.items = r.items /\ d.batch = <<>> /\ d.pc = "debounce"
    <3>1. <<>> \in Seq(Messages) /\ {} \in SUBSET Messages
      OBVIOUS
    <3> QED
      BY <3>1 DEF QueueType
  <2> HIDE DEF d
  <2>2. queue' = [queue EXCEPT ![q] = d] /\ current' = current
    BY <1>2 DEF d
  <2> QED
    BY <2>1, <2>2 DEF Typed
<1> QED
  BY <1>1, <1>2 DEF LoopHead

(* What the drain runs next is a batch of its queue. *)
BatchOf(b, s) == b \in {s, <<>>} \/ (s # <<>> /\ b = <<s[1]>>)

KindFits(kind, batch) ==
  \/ kind \in {"own", "collect", "overflow"} /\ batch # <<>>
  \/ kind = "summary" /\ batch = <<>>

LEMMA RunKeeps ==
  ASSUME Typed(queue), current \in Objects \cup {None}, NEW q \in Objects, NEW kind, NEW batch \in Seq(Messages),
         NEW told \in SUBSET Messages, \E force \in BOOLEAN : Run(q, kind, batch, told, force),
         KindFits(kind, batch)
  PROVE  /\ Typed(queue')
         /\ current' \in Objects \cup {None}
         /\ queue'[q].items = queue[q].items /\ queue'[q].batch = batch
         /\ \A p \in Objects \ {q} : /\ queue'[p].items = queue[p].items
                                     /\ queue'[p].batch = queue[p].batch
<1> PICK force \in BOOLEAN : Run(q, kind, batch, told, force)
  OBVIOUS
<1> USE DEF KindFits
<1> DEFINE d == [queue[q] EXCEPT !.pc = kind, !.batch = batch, !.told = told, !.force = force]
<1>1. queue' = [queue EXCEPT ![q] = d] /\ current' = current
  BY DEF Run, Typed
<1>2. queue[q] \in QueueType
  BY DEF Typed
<1>3. d \in QueueType /\ d.items = queue[q].items /\ d.batch = batch /\ d.pc = kind
  BY <1>2 DEF QueueType
<1> HIDE DEF d
<1> QED
  BY <1>1, <1>3 DEF Typed

LEMMA DispatchKeeps ==
  ASSUME Typed(queue), current \in Objects \cup {None}, NEW q \in Objects, Dispatch(q)
  PROVE  /\ Typed(queue')
         /\ current' \in Objects \cup {None}
         /\ queue'[q].items = queue[q].items
         /\ BatchOf(queue'[q].batch, queue[q].items)
         /\ \A p \in Objects \ {q} : /\ queue'[p].items = queue[p].items
                                     /\ queue'[p].batch = queue[p].batch
<1> DEFINE items == queue[q].items
           told == Summary(queue[q])
           one == <<items[1]>>
<1>1. /\ queue[q] \in QueueType /\ items \in Seq(Messages)
      /\ told \in SUBSET Messages /\ {} \in SUBSET Messages
      /\ queue[q].force \in BOOLEAN
      /\ items # <<>> => one \in Seq(Messages) /\ one # <<>>
      /\ <<>> \in Seq(Messages)
  BY DEF Typed, QueueType, Summary
<1>2. \/ items # <<>> /\ \E force \in BOOLEAN : Run(q, "own", one, {}, force)
      \/ items # <<>> /\ \E force \in BOOLEAN : Run(q, "collect", items, told, force)
      \/ \E force \in BOOLEAN : Run(q, "summary", <<>>, told, force)
      \/ items # <<>> /\ \E force \in BOOLEAN : Run(q, "overflow", one, told, force)
      \/ EndDrain(q, queue[q])
  BY <1>1, Zenon DEF Dispatch, DispatchCollect, DispatchNext
<1>3. KindFits("summary", <<>>)
  BY DEF KindFits
<1>4. ASSUME items # <<>>
      PROVE  KindFits("own", one) /\ KindFits("overflow", one) /\ KindFits("collect", items)
  BY <1>1, <1>4 DEF KindFits
<1>5. /\ BatchOf(items, items) /\ BatchOf(<<>>, items)
      /\ items # <<>> => BatchOf(one, items)
  BY DEF BatchOf
<1> HIDE DEF items, told, one
<1>6. CASE items # <<>> /\ \E force \in BOOLEAN : Run(q, "own", one, {}, force)
  BY <1>1, <1>4, <1>5, <1>6, RunKeeps DEF items
<1>7. CASE items # <<>> /\ \E force \in BOOLEAN : Run(q, "collect", items, told, force)
  BY <1>1, <1>4, <1>5, <1>7, RunKeeps DEF items
<1>8. CASE \E force \in BOOLEAN : Run(q, "summary", <<>>, told, force)
  BY <1>1, <1>3, <1>5, <1>8, RunKeeps DEF items
<1>9. CASE items # <<>> /\ \E force \in BOOLEAN : Run(q, "overflow", one, told, force)
  BY <1>1, <1>4, <1>5, <1>9, RunKeeps DEF items
<1>10. CASE EndDrain(q, queue[q])
  BY <1>1, <1>5, <1>10, EndDrainKeeps DEF items
<1> QED
  BY <1>2, <1>6, <1>7, <1>8, <1>9, <1>10

-----------------------------------------------------------------------------
(* The actions. *)

LEMMA TypedIs ==
  TypeOK <=> /\ Typed(queue)
             /\ current \in Objects \cup {None}
             /\ recent \subseteq Messages
             /\ active \in {"none", "reply", "other"}
             /\ clears \in Nat
             /\ arrived \in Seq(Messages)
             /\ log \in Seq(Messages)
             /\ summarised \cup evicted \cup cleared \subseteq Messages
BY DEF TypeOK, Typed

LEMMA TypedNext ==
  TypeOK' <=> /\ Typed(queue')
              /\ current' \in Objects \cup {None}
              /\ recent' \subseteq Messages
              /\ active' \in {"none", "reply", "other"}
              /\ clears' \in Nat
              /\ arrived' \in Seq(Messages)
              /\ log' \in Seq(Messages)
              /\ summarised' \cup evicted' \cup cleared' \subseteq Messages
BY DEF TypeOK, Typed

(* Items and batches are as they were. *)
SameWork == \A p \in Objects : /\ queue'[p].items = queue[p].items
                               /\ queue'[p].batch = queue[p].batch

LEMMA SameWorkKeeps ==
  ASSUME OneCopy, SameWork, log' = log, recent \subseteq recent' \cup Forgettable
  PROVE  OneCopy'
<1>1. Local'
  BY DEF OneCopy, Local, SameWork
<1>2. \A q \in Objects : Live(q)' \subseteq Live(q)
  BY DEF Live, SameWork
<1> QED
  BY <1>1, <1>2, CalmKeeps

(* The object a message goes to has the items and the batch it had. *)
LEMMA AppliedIs ==
  ASSUME Typed(queue), NEW q \in Objects, NEW s \in Settings, Target(q)
  PROVE  /\ Applied(q, s) \in QueueType
         /\ Applied(q, s).items = queue[q].items
         /\ Applied(q, s).batch = queue[q].batch
         /\ Applied(q, s).pc = queue[q].pc
<1> DEFINE base == IF current = None THEN NewQueue ELSE queue[q]
<1>1. base \in QueueType
  <2>1. <<>> \in Seq(Messages) /\ {} \in SUBSET Messages /\ 1 \in Nat \ {0}
    OBVIOUS
  <2>2. NewQueue \in QueueType
    BY <2>1 DEF NewQueue, QueueType
  <2> QED
    BY <2>2 DEF Typed
<1>2. base.items = queue[q].items /\ base.batch = queue[q].batch /\ base.pc = queue[q].pc
  <2>1. CASE current # None
    BY <2>1
  <2>2. CASE current = None
    <3>1. queue[q].pc = "idle" /\ queue[q].items = <<>>
      BY <2>2, FollowupAssumption DEF Target, Draining
    <3>2. queue[q].batch = <<>>
      BY <3>1 DEF Typed
    <3> QED
      BY <2>2, <3>1, <3>2 DEF NewQueue
  <2> QED
    BY <2>1, <2>2
<1>3. /\ s.mode \in {t.mode : t \in Settings} \cup {"followup"}
      /\ s.cap \in Nat \ {0}
      /\ s.drop \in {"summarize", "old", "new"}
  BY FollowupAssumption
<1>4. Applied(q, s) = [base EXCEPT !.mode = s.mode, !.cap = s.cap, !.drop = s.drop]
  BY DEF Applied
<1> HIDE DEF base
<1> QED
  BY <1>1, <1>2, <1>3, <1>4 DEF QueueType

(* An object gets the record r, and a drain is scheduled or not. *)
LEMMA ScheduleKeeps ==
  ASSUME Typed(queue), NEW q \in Objects, NEW r \in QueueType, NEW b,
         r.batch # <<>> <=> r.pc \in {"own", "collect", "overflow"},
         ScheduleUnless(b, [queue EXCEPT ![q] = r], q)
  PROVE  /\ Typed(queue')
         /\ current' \in Objects \cup {None}
         /\ queue'[q].items = r.items /\ queue'[q].batch = r.batch
         /\ \A p \in Objects \ {q} : /\ queue'[p].items = queue[p].items
                                     /\ queue'[p].batch = queue[p].batch
<1> DEFINE qs == [queue EXCEPT ![q] = r]
<1>1. Typed(qs) /\ qs[q] = r /\ \A p \in Objects \ {q} : qs[p] = queue[p]
  BY DEF Typed
<1>2. (queue' = qs /\ current' = q) \/ Begin(qs, q)
  BY DEF ScheduleUnless
<1> HIDE DEF qs
<1>3. CASE queue' = qs /\ current' = q
  BY <1>1, <1>3
<1>4. CASE Begin(qs, q)
  BY <1>1, <1>4, BeginKeeps
<1> QED
  BY <1>2, <1>3, <1>4

LEMMA SkippedKeeps ==
  ASSUME Inv, NEW m \in Messages, NEW s \in Settings, NEW q \in Objects, NEW b \in BOOLEAN,
         EnqueueSkipped(m, s, q, b)
  PROVE  Inv'
<1> USE TypedIs, TypedNext
<1> DEFINE r == Applied(q, s)
<1>1. /\ Target(q)
      /\ ScheduleUnless(b, [queue EXCEPT ![q] = r], q)
      /\ UNCHANGED <<recent, active, clears, arrived, log, summarised, evicted, cleared>>
  BY DEF EnqueueSkipped
<1>2. /\ r \in QueueType
      /\ r.items = queue[q].items /\ r.batch = queue[q].batch /\ r.pc = queue[q].pc
  BY <1>1, AppliedIs DEF Inv
<1>3. r.batch # <<>> <=> r.pc \in {"own", "collect", "overflow"}
  BY <1>2 DEF Inv, Typed
<1> HIDE DEF r
<1>4. Typed(queue') /\ current' \in Objects \cup {None} /\ SameWork
  BY <1>1, <1>2, <1>3, ScheduleKeeps DEF Inv, SameWork
<1>5. TypeOK'
  BY <1>1, <1>4 DEF Inv
<1>6. OneCopy'
  BY <1>1, <1>4, SameWorkKeeps DEF Inv
<1> QED
  BY <1>5, <1>6 DEF Inv

LEMMA DropCountType ==
  ASSUME NEW r \in QueueType
  PROVE  DropCount(r) \in 0..Len(r.items) /\ Oldest(r) \subseteq Messages
<1>1. r.items \in Seq(Messages) /\ r.cap \in Nat \ {0} /\ Len(r.items) \in Nat
  BY DEF QueueType
<1>2. DropCount(r) \in 0..Len(r.items)
  BY <1>1 DEF DropCount, Full
<1>3. Oldest(r) \subseteq Messages
  BY <1>1, <1>2 DEF Oldest, Elems
<1> QED
  BY <1>2, <1>3

LEMMA AcceptedKeeps ==
  ASSUME Inv, NEW m \in Messages, NEW s \in Settings, NEW q \in Objects, NEW b \in BOOLEAN,
         EnqueueAccepted(m, s, q, b)
  PROVE  Inv'
<1> USE TypedIs, TypedNext
<1> DEFINE r == Applied(q, s)
           n == DropCount(r)
           items == Append(Without(queue[q].items, n), m)
           dropped == IF r.drop = "summarize" THEN r.dropped \cup Oldest(r) ELSE r.dropped
           kept == [r EXCEPT !.items = items, !.dropped = dropped]
<1>1. /\ r \in QueueType
      /\ r.items = queue[q].items /\ r.batch = queue[q].batch /\ r.pc = queue[q].pc
  BY AppliedIs DEF Inv, EnqueueAccepted
<1>2. /\ ~IsDuplicate(m, r)
      /\ ScheduleUnless(b, [queue EXCEPT ![q] = kept], q)
      /\ recent' = recent \cup {m}
      /\ arrived' = Append(arrived, m)
      /\ evicted' = IF r.drop = "old" THEN evicted \cup Oldest(r) ELSE evicted
      /\ UNCHANGED <<active, clears, log, summarised, cleared>>
  BY <1>1 DEF EnqueueAccepted, Pushed
<1>3. queue[q].items \in Seq(Messages) /\ queue[q].batch \in Seq(Messages)
  BY DEF Inv, Typed, QueueType
<1>4. n \in Nat /\ Oldest(r) \subseteq Messages /\ r.dropped \subseteq Messages
  BY <1>1, DropCountType DEF QueueType
<1> HIDE DEF r, n
<1>5. items \in Seq(Messages) /\ Elems(items) \subseteq Elems(queue[q].items) \cup {m}
  BY <1>3, <1>4, WithoutIs, ElemsAppend
<1>6. /\ kept \in QueueType
      /\ kept.items = items /\ kept.batch = queue[q].batch /\ kept.pc = queue[q].pc
  <2>1. dropped \in SUBSET Messages
    BY <1>4
  <2> HIDE DEF items, dropped
  <2> QED
    BY <1>1, <1>5, <2>1 DEF QueueType
<1>7. kept.batch # <<>> <=> kept.pc \in {"own", "collect", "overflow"}
  BY <1>6 DEF Inv, Typed
<1>8. m \notin recent /\ m \notin Elems(queue[q].items)
  BY <1>1, <1>2 DEF IsDuplicate
<1>9. Once(items) /\ Aligned(items, queue[q].batch)
  <2>1. m \in Elems(queue[q].batch) => m \in Forgettable
    BY <1>8 DEF Inv, OneCopy, Known, Live
  <2>2. Once(queue[q].items) /\ Aligned(queue[q].items, queue[q].batch)
    BY DEF Inv, OneCopy, Local
  <2> QED
    BY <1>3, <1>4, <1>8, <2>1, <2>2, AlignedPush
<1> HIDE DEF items, kept
<1>10. /\ Typed(queue') /\ current' \in Objects \cup {None}
       /\ queue'[q].items = items /\ queue'[q].batch = queue[q].batch
       /\ \A p \in Objects \ {q} : /\ queue'[p].items = queue[p].items
                                   /\ queue'[p].batch = queue[p].batch
  BY <1>2, <1>6, <1>7, ScheduleKeeps DEF Inv
<1>11. TypeOK'
  BY <1>2, <1>4, <1>10 DEF Inv
<1>12. Local'
  BY <1>9, <1>10 DEF Inv, OneCopy, Local
<1>13. \A p \in Objects : Live(p)' \subseteq Live(p) \cup (IF p = q THEN {m} ELSE {})
  BY <1>5, <1>10 DEF Live
<1>14. OneCopy'
  BY <1>2, <1>8, <1>12, <1>13, AcceptKeeps DEF Inv
<1> QED
  BY <1>11, <1>14 DEF Inv

(* The drain dispatches a run or ends, or a run fails: the batch is taken  *)
(* from the items, or given up.                                            *)
LEMMA TakesKeeps ==
  ASSUME Inv, NEW q \in Objects, Typed(queue'), current' \in Objects \cup {None},
         queue'[q].items = queue[q].items,
         BatchOf(queue'[q].batch, queue[q].items),
         \A p \in Objects \ {q} : /\ queue'[p].items = queue[p].items
                                  /\ queue'[p].batch = queue[p].batch,
         UNCHANGED <<recent, active, clears, arrived, log, summarised, evicted, cleared>>
  PROVE  Inv'
<1> USE TypedIs, TypedNext
<1>1. TypeOK'
  BY DEF Inv
<1>2. queue[q].items \in Seq(Messages) /\ Once(queue[q].items)
  BY DEF Inv, Typed, QueueType, OneCopy, Local
<1>3. /\ Once(queue'[q].batch)
      /\ Aligned(queue[q].items, queue'[q].batch)
      /\ Elems(queue'[q].batch) \subseteq Elems(queue[q].items)
  BY <1>2, AlignedBatch DEF BatchOf
<1>4. Local'
  BY <1>3 DEF Inv, OneCopy, Local
<1>5. \A p \in Objects : Live(p)' \subseteq Live(p)
  BY <1>3 DEF Live
<1>6. OneCopy'
  BY <1>4, <1>5, CalmKeeps DEF Inv
<1> QED
  BY <1>1, <1>6 DEF Inv

LEMMA ClearKeeps ==
  ASSUME Inv, ClearSessionQueues
  PROVE  Inv'
<1> USE TypedIs, TypedNext
<1> DEFINE c == current
           d == [queue[c] EXCEPT !.items = <<>>, !.dropped = {}]
<1>1. /\ c \in Objects
      /\ queue' = [queue EXCEPT ![c] = d]
      /\ current' = None
      /\ clears' = clears + 1
      /\ cleared' = cleared \cup Elems(queue[c].items) \cup queue[c].dropped
      /\ UNCHANGED <<recent, active, arrived, log, summarised, evicted>>
  BY DEF ClearSessionQueues, Inv, Typed
<1>2. queue[c] \in QueueType
  BY <1>1 DEF Inv, Typed
<1>3. /\ d \in QueueType
      /\ d.items = <<>> /\ d.batch = queue[c].batch /\ d.pc = queue[c].pc
  <2>1. <<>> \in Seq(Messages) /\ {} \in SUBSET Messages
    OBVIOUS
  <2> QED
    BY <1>2, <2>1 DEF QueueType
<1> HIDE DEF d, c
<1>4. /\ Typed(queue')
      /\ queue'[c].items = <<>> /\ queue'[c].batch = queue[c].batch
      /\ \A p \in Objects \ {c} : queue'[p] = queue[p]
  BY <1>1, <1>3 DEF Inv, Typed
<1>5. TypeOK'
  <2>1. Elems(queue[c].items) \subseteq Messages /\ queue[c].dropped \subseteq Messages
    BY <1>2 DEF QueueType, Elems
  <2>2. clears' \in Nat
    BY <1>1 DEF Inv
  <2> QED
    BY <1>1, <1>4, <2>1, <2>2 DEF Inv
<1>6. Local'
  <2>1. \A b : Once(<<>>) /\ Aligned(<<>>, b)
    BY DEF Once, Aligned
  <2>2. \A p \in Objects : queue'[p].batch = queue[p].batch
    BY <1>4
  <2>3. \A p \in Objects : queue'[p].items \in {queue[p].items, <<>>}
    BY <1>4
  <2> QED
    BY <2>1, <2>2, <2>3 DEF Inv, OneCopy, Local
<1>7. \A p \in Objects : Live(p)' \subseteq Live(p)
  BY <1>4, ElemsEmpty DEF Live
<1>8. OneCopy'
  BY <1>1, <1>6, <1>7, CalmKeeps DEF Inv
<1> QED
  BY <1>5, <1>8 DEF Inv

(* The prompts in hand are the first of the batch, and no more than leave  *)
(* the queue when the run succeeds.                                        *)
LEMMA InHandIs ==
  ASSUME NEW r \in QueueType, Running(r),
         r.batch # <<>> <=> r.pc \in {"own", "collect", "overflow"}
  PROVE  \E g \in 0..Len(r.batch) :
           /\ InHand(r) = SubSeq(r.batch, 1, g)
           /\ Len(InHand(r)) = g
           /\ Consumed(r) \in Nat /\ g <= Consumed(r)
           /\ r.pc # "overflow" => Consumed(r) = g
<1>1. r.batch \in Seq(Messages) /\ Len(r.batch) \in Nat
  BY DEF QueueType
<1>2. CASE r.pc = "own"
  <2>1. InHand(r) = SubSeq(r.batch, 1, Len(r.batch))
    BY <1>1, <1>2 DEF InHand
  <2> QED
    BY <1>1, <1>2, <2>1 DEF Consumed
<1>3. CASE r.pc = "collect"
  <2>1. GroupLen(r.batch) \in 1..Len(r.batch)
    BY <1>1, <1>3, GroupLenType
  <2>2. InHand(r) = SubSeq(r.batch, 1, GroupLen(r.batch))
    BY <1>3 DEF InHand
  <2> DEFINE g == GroupLen(r.batch)
  <2> HIDE DEF g
  <2>3. g \in 0..Len(r.batch) /\ InHand(r) = SubSeq(r.batch, 1, g)
    BY <2>1, <2>2, <1>1 DEF g
  <2>4. Len(InHand(r)) = g
    BY <2>3, <1>1
  <2> QED
    BY <1>3, <2>3, <2>4 DEF Consumed
<1>4. CASE r.pc \in {"overflow", "summary"}
  <2>1. InHand(r) = <<>> /\ SubSeq(r.batch, 1, 0) = <<>>
    BY <1>1, <1>4 DEF InHand
  <2>2. Consumed(r) \in {0, 1} /\ (r.pc # "overflow" => Consumed(r) = 0)
    BY <2>1 DEF Consumed
  <2> QED
    BY <1>1, <1>4, <2>1, <2>2
<1> QED
  BY <1>2, <1>3, <1>4 DEF Running

LEMMA SucceedsKeeps ==
  ASSUME Inv, NEW q \in Objects, RunSucceeds(q)
  PROVE  Inv'
<1> USE TypedIs, TypedNext
<1> DEFINE r == queue[q]
<1>1. /\ r \in QueueType /\ Running(r)
      /\ r.items \in Seq(Messages) /\ r.batch \in Seq(Messages) /\ r.told \subseteq Messages
      /\ r.batch # <<>> <=> r.pc \in {"own", "collect", "overflow"}
  BY DEF Inv, Typed, QueueType, RunSucceeds
<1>2. PICK g \in 0..Len(r.batch) :
        /\ InHand(r) = SubSeq(r.batch, 1, g)
        /\ Len(InHand(r)) = g
        /\ Consumed(r) \in Nat /\ g <= Consumed(r)
        /\ r.pc # "overflow" => Consumed(r) = g
  BY <1>1, InHandIs
<1> DEFINE c == Consumed(r)
           h == SubSeq(r.batch, 1, g)
           rest == Without(r.batch, g)
           items == Without(r.items, c)
           dropped == IF r.told # {} THEN {} ELSE r.dropped
           after == [r EXCEPT !.items = items, !.dropped = dropped, !.batch = rest, !.told = {}]
<1>3. /\ log' = log \o h
      /\ summarised' = summarised \cup r.told
      /\ \/ r.pc = "collect" /\ rest # <<>> /\ queue' = [queue EXCEPT ![q] = after] /\ current' = current
         \/ LoopHead(q, after)
      /\ UNCHANGED <<recent, active, clears, arrived, evicted, cleared>>
  BY <1>2 DEF RunSucceeds
<1>4. /\ Once(items) /\ Once(rest) /\ Once(h) /\ h \in Seq(Messages)
      /\ c = g => Aligned(items, rest)
      /\ Elems(h) \subseteq Elems(r.batch)
      /\ Elems(h) \cap Elems(rest) = {}
      /\ Elems(h) \cap Elems(items) \subseteq Forgettable
  <2>1. Once(r.items) /\ Once(r.batch) /\ Aligned(r.items, r.batch)
    BY DEF Inv, OneCopy, Local
  <2> QED
    BY <1>1, <1>2, <2>1, AlignedRun
<1>5. /\ items \in Seq(Messages) /\ Elems(items) \subseteq Elems(r.items)
      /\ rest \in Seq(Messages) /\ Elems(rest) \subseteq Elems(r.batch)
  <2>1. g \in Nat /\ c \in Nat
    BY <1>2
  <2> QED
    BY <1>1, <2>1, WithoutIs
<1>6. /\ after \in QueueType /\ after.items = items /\ after.batch = rest /\ after.pc = r.pc
  <2>1. dropped \in SUBSET Messages /\ {} \in SUBSET Messages
    BY <1>1 DEF QueueType
  <2> HIDE DEF items, rest, dropped, r
  <2> QED
    BY <1>1, <1>5, <2>1 DEF QueueType
<1> HIDE DEF items, rest, h, after, c
<1>7. /\ Typed(queue') /\ current' \in Objects \cup {None}
      /\ queue'[q].items = items
      /\ queue'[q].batch = <<>> \/ (queue'[q].batch = rest /\ c = g)
      /\ \A p \in Objects \ {q} : /\ queue'[p].items = queue[p].items
                                  /\ queue'[p].batch = queue[p].batch
  <2>1. CASE r.pc = "collect" /\ rest # <<>> /\ queue' = [queue EXCEPT ![q] = after] /\ current' = current
    BY <1>2, <1>6, <2>1 DEF Inv, Typed, c
  <2>2. CASE LoopHead(q, after)
    BY <1>6, <2>2, LoopHeadKeeps DEF Inv
  <2> QED
    BY <1>3, <2>1, <2>2
<1>8. TypeOK'
  <2>1. log' \in Seq(Messages)
    BY <1>3, <1>4 DEF Inv
  <2> QED
    BY <1>1, <1>3, <1>7, <2>1 DEF Inv
<1>9. Local'
  <2>1. \A s : Once(<<>>) /\ Aligned(s, <<>>)
    BY DEF Once, Aligned
  <2>2. Once(queue'[q].items) /\ Once(queue'[q].batch) /\ Aligned(queue'[q].items, queue'[q].batch)
    BY <1>4, <1>7, <2>1
  <2> QED
    BY <1>7, <2>2 DEF Inv, OneCopy, Local
<1>10. \A p \in Objects : Live(p)' \subseteq Live(p)
  BY <1>5, <1>7, ElemsEmpty DEF Live
<1>11. Live(q)' \cap Elems(h) \subseteq Forgettable /\ Elems(h) \subseteq Live(q)
  BY <1>4, <1>7, ElemsEmpty DEF Live
<1>12. OneCopy'
  <2>1. recent' = recent /\ log \in Seq(Messages)
    BY <1>3 DEF Inv
  <2> QED
    BY <1>3, <1>4, <1>9, <1>10, <1>11, <2>1, LogKeeps DEF Inv
<1> QED
  BY <1>8, <1>12 DEF Inv

LEMMA InvInit == Init => Inv
<1> SUFFICES ASSUME Init PROVE Inv
  OBVIOUS
<1> USE TypedIs DEF Init
<1>1. <<>> \in Seq(Messages) /\ {} \in SUBSET Messages /\ 1 \in Nat \ {0}
  OBVIOUS
<1>2. NewQueue \in QueueType /\ NewQueue.items = <<>> /\ NewQueue.batch = <<>> /\ NewQueue.pc = "idle"
  BY <1>1 DEF NewQueue, QueueType
<1>3. TypeOK
  BY <1>1, <1>2 DEF Typed
<1>4. \A q \in Objects : queue[q].items = <<>> /\ queue[q].batch = <<>>
  BY <1>2
<1>5. Local
  BY <1>4 DEF Local, Once, Aligned
<1>6. \A q \in Objects : Live(q) = {}
  BY <1>4, ElemsEmpty DEF Live
<1>7. Apart /\ Known /\ Fresh /\ RunOnce
  BY <1>6, ElemsEmpty DEF Apart, Known, Fresh, RunOnce
<1> QED
  BY <1>3, <1>5, <1>7 DEF Inv, OneCopy

LEMMA InvStep == Inv /\ [Next]_vars => Inv'
<1> SUFFICES ASSUME Inv, [Next]_vars PROVE Inv'
  OBVIOUS
<1> USE TypedIs, TypedNext
<1>1. ASSUME NEW m \in Messages, Arrive(m) PROVE Inv'
  BY <1>1, SkippedKeeps, AcceptedKeeps DEF Arrive
<1>2. ASSUME NEW m \in Messages, Expire(m) PROVE Inv'
  <2>1. /\ recent' = recent \ {m} /\ m \in Forgettable
        /\ UNCHANGED <<queue, current, active, clears, arrived, log, summarised, evicted, cleared>>
    BY <1>2 DEF Expire
  <2>2. TypeOK'
    BY <2>1 DEF Inv
  <2>3. SameWork /\ recent \subseteq recent' \cup Forgettable
    BY <2>1 DEF SameWork
  <2> QED
    BY <2>1, <2>2, <2>3, SameWorkKeeps DEF Inv
<1>3. ASSUME NEW q \in Objects, Dispatch(q) PROVE Inv'
  <2>1. UNCHANGED <<recent, active, clears, arrived, log, summarised, evicted, cleared>>
    BY <1>3 DEF Dispatch
  <2> QED
    BY <1>3, <2>1, DispatchKeeps, TakesKeeps DEF Inv
<1>4. ASSUME NEW q \in Objects, RunSucceeds(q) PROVE Inv'
  BY <1>4, SucceedsKeeps
<1>5. ASSUME NEW q \in Objects, RunFails(q) PROVE Inv'
  <2>1. /\ EndDrain(q, queue[q]) /\ queue[q] \in QueueType
        /\ UNCHANGED <<recent, active, clears, arrived, log, summarised, evicted, cleared>>
    BY <1>5 DEF RunFails, Inv, Typed
  <2>2. BatchOf(<<>>, queue[q].items)
    BY DEF BatchOf
  <2> QED
    BY <2>1, <2>2, EndDrainKeeps, TakesKeeps DEF Inv
<1>6. ASSUME NEW kind \in RunKinds, StartRun(kind) PROVE Inv'
  <2>1. /\ active' = kind /\ kind \in {"reply", "other"}
        /\ UNCHANGED <<queue, current, recent, clears, arrived, log, summarised, evicted, cleared>>
    BY <1>6, FollowupAssumption DEF StartRun
  <2>2. SameWork /\ TypeOK'
    BY <2>1 DEF SameWork, Inv
  <2> QED
    BY <2>1, <2>2, SameWorkKeeps DEF Inv
<1>7. CASE EndReply
  <2>1. /\ active' = "none" /\ Begin(queue, current)
        /\ UNCHANGED <<recent, clears, arrived, log, summarised, evicted, cleared>>
    BY <1>7 DEF EndReply
  <2>2. Typed(queue') /\ current' \in Objects \cup {None} /\ SameWork
    BY <2>1, BeginKeeps DEF Inv, SameWork
  <2>3. TypeOK'
    BY <2>1, <2>2 DEF Inv
  <2> QED
    BY <2>1, <2>2, <2>3, SameWorkKeeps DEF Inv
<1>8. CASE EndOther
  <2>1. /\ active' = "none"
        /\ UNCHANGED <<queue, current, recent, clears, arrived, log, summarised, evicted, cleared>>
    BY <1>8 DEF EndOther
  <2>2. SameWork /\ TypeOK'
    BY <2>1 DEF SameWork, Inv
  <2> QED
    BY <2>1, <2>2, SameWorkKeeps DEF Inv
<1>9. CASE ClearSessionQueues
  BY <1>9, ClearKeeps
<1>10. CASE UNCHANGED vars
  <2>1. SameWork /\ TypeOK'
    BY <1>10 DEF vars, SameWork, Inv
  <2> QED
    BY <1>10, <2>1, SameWorkKeeps DEF Inv, vars
<1> QED
  BY <1>1, <1>2, <1>3, <1>4, <1>5, <1>6, <1>7, <1>8, <1>9, <1>10 DEF Next, Drain

LEMMA Invariance == Spec => []Inv
BY InvInit, InvStep, PTL DEF Spec

(* The types of the queue's state; a run has a batch exactly when it is to *)
(* have messages' prompts.                                                 *)
THEOREM TypeCorrect == Spec => []TypeOK
<1>1. Inv => TypeOK
  BY DEF Inv
<1> QED
  BY Invariance, <1>1, PTL

(* A redelivered message is neither queued nor run a second time, whatever *)
(* is dropped, cleared, retried or collected.                              *)
THEOREM NeverTwice == Spec => []AtMostOnce
<1>1. Inv => AtMostOnce
  BY DEF Inv, OneCopy, Local, Once, AtMostOnce, QueuedOnce
<1> QED
  BY Invariance, <1>1, PTL

-----------------------------------------------------------------------------
(* Without clears the object that has messages or drains is the one of the *)
(* key; where the drain ends with messages left it starts again.           *)

Sole(qs, c) == \A q \in Objects : (Draining(qs[q]) \/ qs[q].items # <<>>) => q = c

Attended(qs) == \A q \in Objects : qs[q].items # <<>> => Draining(qs[q])

(* What waits, and objects that only ever refused the newest message.      *)
Pending(qs, c) == IF c = None THEN <<>> ELSE qs[c].items

Refusing(qs) == \A q \in Objects : qs[q].drop = "new" /\ qs[q].pc \notin {"overflow", "summary"}

LEMMA BeginAttends ==
  ASSUME NEW qs, Typed(qs), NEW c \in Objects \cup {None}, Sole(qs, c), Begin(qs, c)
  PROVE  /\ Sole(queue', current')
         /\ Attended(queue')
         /\ Pending(queue', current') = Pending(qs, c)
         /\ Refusing(qs) => Refusing(queue')
<1> USE FollowupAssumption
<1>1. CASE (c = None \/ (c # None /\ Draining(qs[c]))) /\ queue' = qs /\ current' = c
  BY <1>1 DEF Sole, Attended, Begin, Draining
<1>2. CASE /\ c # None /\ ~Draining(qs[c]) /\ HasWork(qs[c])
           /\ queue' = [qs EXCEPT ![c].pc = "debounce", ![c].force = FALSE]
           /\ current' = c
  <2>1. c \in Objects /\ qs \in [Objects -> QueueType]
    BY <1>2 DEF Typed
  <2> DEFINE d == [qs[c] EXCEPT !.pc = "debounce", !.force = FALSE]
  <2>2. d.items = qs[c].items /\ d.pc = "debounce" /\ d.drop = qs[c].drop
    BY <2>1 DEF QueueType
  <2>3. queue' = [qs EXCEPT ![c] = d]
    BY <1>2, <2>1
  <2> HIDE DEF d
  <2>4. queue'[c] = d /\ \A p \in Objects \ {c} : queue'[p] = qs[p]
    BY <2>1, <2>3
  <2> QED
    BY <1>2, <2>1, <2>2, <2>4 DEF Sole, Attended, Pending, Refusing, Draining
<1>3. CASE c # None /\ ~Draining(qs[c]) /\ ~HasWork(qs[c]) /\ queue' = qs /\ current' = None
  BY <1>3 DEF Sole, Attended, Pending, HasWork
<1> QED
  BY <1>1, <1>2, <1>3 DEF Begin

LEMMA EndDrainAttends ==
  ASSUME Typed(queue), current \in Objects, Sole(queue, current), NEW r \in QueueType,
         EndDrain(current, r)
  PROVE  /\ Sole(queue', current')
         /\ Attended(queue')
         /\ Pending(queue', current') = r.items
         /\ Refusing(queue) /\ r.drop = "new" => Refusing(queue')
<1> USE FollowupAssumption
<1> DEFINE qs == [queue EXCEPT ![current] = Idle(r)]
<1>1. /\ Idle(r) \in QueueType
      /\ Idle(r).items = r.items /\ Idle(r).batch = <<>> /\ Idle(r).pc = "idle"
  BY IdleIs
<1>2. Idle(r).drop = r.drop
  BY DEF Idle, QueueType
<1>3. /\ Typed(qs)
      /\ qs[current] = Idle(r)
      /\ \A p \in Objects \ {current} : qs[p] = queue[p]
  BY <1>1 DEF Typed
<1>4. Sole(qs, current) /\ (Refusing(queue) /\ r.drop = "new" => Refusing(qs))
  BY <1>1, <1>2, <1>3 DEF Sole, Refusing
<1>5. \/ ~HasWork(r) /\ queue' = qs /\ current' = None
      \/ Begin(qs, current)
  BY DEF EndDrain
<1> HIDE DEF qs
<1>6. CASE ~HasWork(r) /\ queue' = qs /\ current' = None
  <2>1. r.items = <<>> /\ \A p \in Objects : qs[p].items = <<>> /\ ~Draining(qs[p])
    BY <1>1, <1>3, <1>4, <1>6 DEF HasWork, Sole, Draining
  <2> QED
    BY <1>4, <1>6, <2>1 DEF Sole, Attended, Pending
<1>7. CASE Begin(qs, current)
  <2>1. Pending(qs, current) = r.items
    BY <1>1, <1>3 DEF Pending
  <2> QED
    BY <1>3, <1>4, <1>7, <2>1, BeginAttends
<1> QED
  BY <1>5, <1>6, <1>7

LEMMA RecordAttends ==
  ASSUME Typed(queue), current \in Objects, Sole(queue, current), NEW r \in QueueType,
         queue' = [queue EXCEPT ![current] = r], current' = current, Draining(r)
  PROVE  /\ Sole(queue', current')
         /\ Attended(queue')
         /\ Pending(queue', current') = r.items
         /\ Refusing(queue) /\ r.drop = "new" /\ r.pc \notin {"overflow", "summary"} => Refusing(queue')
<1>1. queue'[current] = r /\ \A p \in Objects \ {current} : queue'[p] = queue[p]
  BY DEF Typed
<1> QED
  BY <1>1, FollowupAssumption DEF Sole, Attended, Pending, Refusing

LEMMA LoopHeadAttends ==
  ASSUME Typed(queue), current \in Objects, Sole(queue, current), NEW r \in QueueType,
         LoopHead(current, r)
  PROVE  /\ Sole(queue', current')
         /\ Attended(queue')
         /\ Pending(queue', current') = r.items
         /\ Refusing(queue) /\ r.drop = "new" => Refusing(queue')
<1> DEFINE d == [r EXCEPT !.pc = "debounce", !.batch = <<>>, !.told = {}]
<1>1. d \in QueueType /\ d.items = r.items /\ d.pc = "debounce" /\ d.drop = r.drop /\ Draining(d)
  <2>1. <<>> \in Seq(Messages) /\ {} \in SUBSET Messages
    OBVIOUS
  <2> QED
    BY <2>1 DEF QueueType, Draining
<1>2. EndDrain(current, r) \/ (queue' = [queue EXCEPT ![current] = d] /\ current' = current)
  BY DEF LoopHead
<1> HIDE DEF d
<1> QED
  BY <1>1, <1>2, EndDrainAttends, RecordAttends

(* Where the drain, if there is one, is that of the key's object, and the  *)
(* only other runs are reply runs, who start one when they end.            *)
Watched == Sole(queue, current) /\ active # "other" /\ NoStrandedFollowup

LEMMA AttendedIsWatched ==
  ASSUME Sole(queue', current'), Attended(queue'), active' # "other"
  PROVE  Watched'
BY DEF Watched, Attended, NoStrandedFollowup

LEMMA ScheduleAttends ==
  ASSUME TypeOK, Watched, NEW q \in Objects, NEW r \in QueueType, NEW b \in BOOLEAN,
         Target(q), SeenActive(b), r.batch = queue[q].batch, r.pc = queue[q].pc,
         ScheduleUnless(b, [queue EXCEPT ![q] = r], q), active' = active
  PROVE  /\ Watched'
         /\ Pending(queue', current') = r.items
         /\ Refusing(queue) /\ r.drop = "new" => Refusing(queue')
<1> USE FollowupAssumption, TypedIs
<1> DEFINE qs == [queue EXCEPT ![q] = r]
<1>1. Typed(qs) /\ qs[q] = r /\ \A p \in Objects \ {q} : qs[p] = queue[p]
  BY DEF Typed
<1>2. Sole(qs, q) /\ (Refusing(queue) /\ r.drop = "new" => Refusing(qs))
  BY <1>1 DEF Watched, Sole, Target, Refusing
<1>3. (b /\ queue' = qs /\ current' = q) \/ (~b /\ Begin(qs, q))
  BY DEF ScheduleUnless
<1> HIDE DEF qs
<1>4. CASE b /\ queue' = qs /\ current' = q
  <2>1. active = "none" => q = current /\ Draining(queue[q])
    <3> SUFFICES ASSUME active = "none" PROVE q = current /\ Draining(queue[q])
      OBVIOUS
    <3>1. PICK p \in Objects : Running(queue[p])
      BY <1>4 DEF SeenActive
    <3>2. Draining(queue[p])
      BY <3>1 DEF Running, Draining
    <3>3. p = current
      BY <3>2 DEF Watched, Sole
    <3> QED
      BY <3>2, <3>3 DEF Target
  <2>2. active \in {"none", "reply"}
    BY DEF Watched
  <2>3. NoStrandedFollowup'
    <3> SUFFICES ASSUME NEW p \in Objects, qs[p].items # <<>>
                 PROVE  Draining(qs[p]) \/ (p = q /\ active = "reply")
      BY <1>4 DEF NoStrandedFollowup
    <3>1. p = q
      BY <1>2 DEF Sole
    <3> QED
      BY <1>1, <2>1, <2>2, <3>1 DEF Draining
  <2> QED
    BY <1>1, <1>2, <1>4, <2>3 DEF Watched, Pending
<1>5. CASE ~b /\ Begin(qs, q)
  <2>1. Pending(qs, q) = r.items
    BY <1>1 DEF Pending
  <2> QED
    BY <1>1, <1>2, <1>5, <2>1, BeginAttends, AttendedIsWatched DEF Watched
<1> QED
  BY <1>3, <1>4, <1>5

LEMMA SkippedSame ==
  ASSUME TypeOK, NEW m \in Messages, NEW s \in Settings, NEW q \in Objects, NEW b \in BOOLEAN,
         EnqueueSkipped(m, s, q, b)
  PROVE  SameWork
<1> USE TypedIs
<1> DEFINE r == Applied(q, s)
<1>1. /\ r \in QueueType
      /\ r.items = queue[q].items /\ r.batch = queue[q].batch /\ r.pc = queue[q].pc
  BY AppliedIs DEF EnqueueSkipped
<1>2. r.batch # <<>> <=> r.pc \in {"own", "collect", "overflow"}
  BY <1>1 DEF Typed
<1>3. ScheduleUnless(b, [queue EXCEPT ![q] = r], q)
  BY DEF EnqueueSkipped
<1> HIDE DEF r
<1> QED
  BY <1>1, <1>2, <1>3, ScheduleKeeps DEF SameWork

LEMMA AppliedDrop ==
  ASSUME NEW q \in Objects, NEW s \in Settings, Typed(queue)
  PROVE  Applied(q, s).drop = s.drop
BY DEF Applied, NewQueue, Typed, QueueType

LEMMA TargetPending ==
  ASSUME NEW q \in Objects, Target(q)
  PROVE  queue[q].items = Pending(queue, current)
BY FollowupAssumption DEF Target, Pending

LEMMA SkippedAttends ==
  ASSUME TypeOK, Watched, NEW m \in Messages, NEW s \in Settings, NEW q \in Objects, NEW b \in BOOLEAN,
         EnqueueSkipped(m, s, q, b)
  PROVE  /\ Watched'
         /\ Pending(queue', current') = Pending(queue, current)
         /\ Refusing(queue) /\ s.drop = "new" => Refusing(queue')
<1> USE FollowupAssumption, TypedIs
<1> DEFINE r == Applied(q, s)
<1>1. /\ Target(q) /\ SeenActive(b)
      /\ ScheduleUnless(b, [queue EXCEPT ![q] = r], q)
      /\ active' = active
  BY DEF EnqueueSkipped
<1>2. /\ r \in QueueType /\ r.drop = s.drop
      /\ r.items = queue[q].items /\ r.batch = queue[q].batch /\ r.pc = queue[q].pc
  BY <1>1, AppliedIs, AppliedDrop
<1>3. queue[q].items = Pending(queue, current)
  BY <1>1, TargetPending
<1> HIDE DEF r
<1> QED
  BY <1>1, <1>2, <1>3, ScheduleAttends

LEMMA AcceptedAttends ==
  ASSUME TypeOK, Watched, NEW m \in Messages, NEW s \in Settings, NEW q \in Objects, NEW b \in BOOLEAN,
         EnqueueAccepted(m, s, q, b)
  PROVE  /\ Watched'
         /\ s.drop = "new" => /\ Pending(queue', current') = Append(Pending(queue, current), m)
                              /\ queue'[q].items = Append(queue[q].items, m)
                              /\ Refusing(queue) => Refusing(queue')
         /\ queue'[q].batch = queue[q].batch
         /\ \A p \in Objects \ {q} : /\ queue'[p].items = queue[p].items
                                     /\ queue'[p].batch = queue[p].batch
<1> USE FollowupAssumption, TypedIs
<1> DEFINE r == Applied(q, s)
           n == DropCount(r)
           items == Append(Without(queue[q].items, n), m)
           dropped == IF r.drop = "summarize" THEN r.dropped \cup Oldest(r) ELSE r.dropped
           kept == [r EXCEPT !.items = items, !.dropped = dropped]
<1>1. /\ r \in QueueType /\ r.drop = s.drop
      /\ r.items = queue[q].items /\ r.batch = queue[q].batch /\ r.pc = queue[q].pc
  BY AppliedIs, AppliedDrop DEF EnqueueAccepted
<1>2. /\ Target(q) /\ SeenActive(b)
      /\ ~(Full(r) /\ r.drop = "new")
      /\ ScheduleUnless(b, [queue EXCEPT ![q] = kept], q)
      /\ active' = active
  BY <1>1 DEF EnqueueAccepted, Pushed
<1>3. queue[q].items \in Seq(Messages)
  BY DEF Typed, QueueType
<1>4. n \in Nat /\ Oldest(r) \subseteq Messages /\ r.dropped \subseteq Messages
  BY <1>1, DropCountType DEF QueueType
<1>5. r.drop = "new" => n = 0
  BY <1>2 DEF DropCount
<1> HIDE DEF r, n
<1>6. items \in Seq(Messages)
  BY <1>3, <1>4, WithoutIs, ElemsAppend
<1>7. r.drop = "new" => items = Append(queue[q].items, m)
  BY <1>3, <1>5 DEF Without
<1>8. /\ kept \in QueueType /\ kept.drop = r.drop
      /\ kept.items = items /\ kept.batch = queue[q].batch /\ kept.pc = queue[q].pc
  <2>1. dropped \in SUBSET Messages
    BY <1>4
  <2> HIDE DEF items, dropped
  <2> QED
    BY <1>1, <1>6, <2>1 DEF QueueType
<1> HIDE DEF items, kept
<1>9. queue[q].items = Pending(queue, current)
  BY <1>2, TargetPending
<1>10. kept.batch # <<>> <=> kept.pc \in {"own", "collect", "overflow"}
  BY <1>8 DEF Typed
<1>11. /\ queue'[q].items = items /\ queue'[q].batch = queue[q].batch
       /\ \A p \in Objects \ {q} : /\ queue'[p].items = queue[p].items
                                   /\ queue'[p].batch = queue[p].batch
  BY <1>2, <1>8, <1>10, ScheduleKeeps
<1> QED
  BY <1>1, <1>2, <1>7, <1>8, <1>9, <1>11, ScheduleAttends

(* The object that drains is the key's. *)
LEMMA DrainIsCurrent ==
  ASSUME TypeOK, Watched, NEW q \in Objects, Draining(queue[q])
  PROVE  /\ q = current /\ Typed(queue) /\ queue[q] \in QueueType
         /\ Sole(queue, current)
         /\ Pending(queue, current) = queue[q].items
BY TypedIs, FollowupAssumption DEF Watched, Sole, Pending, Typed

LEMMA RunAttends ==
  ASSUME TypeOK, Watched, NEW q \in Objects, Draining(queue[q]), active' = active,
         NEW kind \in {"own", "collect", "overflow", "summary"}, NEW batch \in Seq(Messages),
         NEW told \in SUBSET Messages, \E force \in BOOLEAN : Run(q, kind, batch, told, force)
  PROVE  /\ Watched'
         /\ Pending(queue', current') = Pending(queue, current)
         /\ Refusing(queue) /\ kind \in {"own", "collect"} => Refusing(queue')
<1> PICK force \in BOOLEAN : Run(q, kind, batch, told, force)
  OBVIOUS
<1> DEFINE d == [queue[q] EXCEPT !.pc = kind, !.batch = batch, !.told = told, !.force = force]
<1>1. /\ q = current /\ Typed(queue) /\ queue[q] \in QueueType
      /\ Sole(queue, current)
      /\ Pending(queue, current) = queue[q].items
  BY DrainIsCurrent
<1>2. queue' = [queue EXCEPT ![q] = d] /\ current' = current
  BY <1>1 DEF Run, Typed
<1>3. /\ d \in QueueType /\ d.items = queue[q].items /\ d.drop = queue[q].drop /\ d.pc = kind
      /\ Draining(d)
  BY <1>1 DEF QueueType, Draining
<1> HIDE DEF d
<1>4. Refusing(queue) => d.drop = "new"
  BY <1>3 DEF Refusing
<1> QED
  BY <1>1, <1>2, <1>3, <1>4, RecordAttends, AttendedIsWatched DEF Watched

LEMMA EndsAttends ==
  ASSUME TypeOK, Watched, NEW q \in Objects, Draining(queue[q]), active' = active,
         EndDrain(q, queue[q])
  PROVE  /\ Watched'
         /\ Pending(queue', current') = Pending(queue, current)
         /\ Refusing(queue) => Refusing(queue')
<1>1. /\ q = current /\ Typed(queue) /\ queue[q] \in QueueType
      /\ Sole(queue, current)
      /\ Pending(queue, current) = queue[q].items
  BY DrainIsCurrent
<1>2. Refusing(queue) => queue[q].drop = "new"
  BY DEF Refusing
<1> QED
  BY <1>1, <1>2, EndDrainAttends, AttendedIsWatched DEF Watched

LEMMA DispatchAttends ==
  ASSUME TypeOK, Watched, NEW q \in Objects, Dispatch(q)
  PROVE  /\ Watched'
         /\ Pending(queue', current') = Pending(queue, current)
         /\ Refusing(queue) => Refusing(queue')
<1> DEFINE items == queue[q].items
           told == Summary(queue[q])
           one == <<items[1]>>
<1>1. /\ items \in Seq(Messages)
      /\ told \in SUBSET Messages /\ {} \in SUBSET Messages
      /\ queue[q].force \in BOOLEAN
      /\ items # <<>> => one \in Seq(Messages)
      /\ <<>> \in Seq(Messages)
  BY TypedIs DEF Typed, QueueType, Summary
<1>2. Draining(queue[q]) /\ active' = active
  BY DEF Dispatch, Draining
<1>3. Refusing(queue) => told = {}
  BY DEF Refusing, Summary
<1>4. \/ items # <<>> /\ \E force \in BOOLEAN : Run(q, "own", one, {}, force)
      \/ items # <<>> /\ \E force \in BOOLEAN : Run(q, "collect", items, told, force)
      \/ told # {} /\ \E force \in BOOLEAN : Run(q, "summary", <<>>, told, force)
      \/ items # <<>> /\ told # {} /\ \E force \in BOOLEAN : Run(q, "overflow", one, told, force)
      \/ EndDrain(q, queue[q])
  BY <1>1, Zenon DEF Dispatch, DispatchCollect, DispatchNext
<1> HIDE DEF items, told, one
<1> QED
  BY <1>1, <1>2, <1>3, <1>4, RunAttends, EndsAttends

(* What the success of a run does to the queue, its batch and the log. *)
LEMMA SucceedsAttends ==
  ASSUME TypeOK, Watched, NEW q \in Objects, RunSucceeds(q)
  PROVE  /\ Watched'
         /\ q = current
         /\ Refusing(queue) => Refusing(queue')
         /\ \A p \in Objects \ {q} : /\ queue'[p].items = queue[p].items
                                     /\ queue'[p].batch = queue[p].batch
         /\ \E g \in 0..Len(queue[q].batch) :
              /\ log' = log \o SubSeq(queue[q].batch, 1, g)
              /\ queue[q].pc # "overflow" =>
                   /\ Pending(queue', current') = Without(queue[q].items, g)
                   /\ queue'[q].items = Without(queue[q].items, g)
              /\ queue'[q].batch \in {<<>>, Without(queue[q].batch, g)}
<1> USE TypedIs
<1> DEFINE r == queue[q]
<1>1. /\ r \in QueueType /\ Running(r) /\ Draining(r)
      /\ r.items \in Seq(Messages) /\ r.batch \in Seq(Messages) /\ r.told \subseteq Messages
      /\ r.batch # <<>> <=> r.pc \in {"own", "collect", "overflow"}
  BY DEF Typed, QueueType, RunSucceeds, Running, Draining
<1>2. PICK g \in 0..Len(r.batch) :
        /\ InHand(r) = SubSeq(r.batch, 1, g)
        /\ Len(InHand(r)) = g
        /\ Consumed(r) \in Nat /\ g <= Consumed(r)
        /\ r.pc # "overflow" => Consumed(r) = g
  BY <1>1, InHandIs
<1> DEFINE c == Consumed(r)
           rest == Without(r.batch, g)
           items == Without(r.items, c)
           dropped == IF r.told # {} THEN {} ELSE r.dropped
           after == [r EXCEPT !.items = items, !.dropped = dropped, !.batch = rest, !.told = {}]
<1>3. /\ log' = log \o SubSeq(r.batch, 1, g)
      /\ \/ r.pc = "collect" /\ rest # <<>> /\ queue' = [queue EXCEPT ![q] = after] /\ current' = current
         \/ LoopHead(q, after)
      /\ active' = active
  BY <1>2 DEF RunSucceeds
<1>4. items \in Seq(Messages) /\ rest \in Seq(Messages)
  <2>1. g \in Nat /\ c \in Nat
    BY <1>2
  <2> QED
    BY <1>1, <2>1, WithoutIs
<1>5. /\ after \in QueueType /\ after.items = items /\ after.batch = rest /\ after.pc = r.pc
      /\ after.drop = r.drop /\ Draining(after)
  <2>1. dropped \in SUBSET Messages /\ {} \in SUBSET Messages
    BY <1>1 DEF QueueType
  <2> HIDE DEF items, rest, dropped, r
  <2> QED
    BY <1>1, <1>4, <2>1 DEF QueueType, Draining
<1>6. q = current /\ Typed(queue) /\ Sole(queue, current)
  BY <1>1, DrainIsCurrent
<1>7. Refusing(queue) => after.drop = "new" /\ after.pc \notin {"overflow", "summary"}
  BY <1>5 DEF Refusing
<1>8. r.pc # "overflow" => items = Without(r.items, g)
  BY <1>2
<1> HIDE DEF items, rest, after, c, r
<1>9. /\ Sole(queue', current') /\ Attended(queue')
      /\ Pending(queue', current') = items
      /\ queue'[q].items = items
      /\ queue'[q].batch \in {<<>>, rest}
      /\ \A p \in Objects \ {q} : /\ queue'[p].items = queue[p].items
                                  /\ queue'[p].batch = queue[p].batch
      /\ Refusing(queue) => Refusing(queue')
  <2>1. CASE r.pc = "collect" /\ rest # <<>> /\ queue' = [queue EXCEPT ![q] = after] /\ current' = current
    <3>1. queue'[q] = after /\ \A p \in Objects \ {q} : queue'[p] = queue[p]
      BY <1>6, <2>1 DEF Typed
    <3> QED
      BY <1>5, <1>6, <1>7, <2>1, <3>1, RecordAttends
  <2>2. CASE LoopHead(q, after)
    <3>1. /\ queue'[q].items = items /\ queue'[q].batch = <<>>
          /\ \A p \in Objects \ {q} : /\ queue'[p].items = queue[p].items
                                      /\ queue'[p].batch = queue[p].batch
      BY <1>5, <1>6, <2>2, LoopHeadKeeps
    <3> QED
      BY <1>5, <1>6, <1>7, <2>2, <3>1, LoopHeadAttends
  <2> QED
    BY <1>3, <2>1, <2>2
<1>10. Watched'
  BY <1>3, <1>9, AttendedIsWatched DEF Watched
<1> QED
  BY <1>3, <1>6, <1>8, <1>9, <1>10 DEF r, rest

-----------------------------------------------------------------------------
(* Sessions without clears whose other runs are reply runs. *)
OnlyReplies == MaxClears = 0 /\ RunKinds \subseteq {"reply"}

LEMMA NoClear ==
  ASSUME OnlyReplies, TypeOK
  PROVE  ~ClearSessionQueues
BY TypedIs DEF OnlyReplies, ClearSessionQueues

LEMMA WatchedStep ==
  ASSUME OnlyReplies, TypeOK, Watched, [Next]_vars
  PROVE  Watched'
<1> USE TypedIs
<1>1. ASSUME NEW m \in Messages, Arrive(m) PROVE Watched'
  BY <1>1, SkippedAttends, AcceptedAttends DEF Arrive
<1>2. ASSUME NEW q \in Objects, Dispatch(q) PROVE Watched'
  BY <1>2, DispatchAttends
<1>3. ASSUME NEW q \in Objects, RunSucceeds(q) PROVE Watched'
  BY <1>3, SucceedsAttends
<1>4. ASSUME NEW q \in Objects, RunFails(q) PROVE Watched'
  <2>1. Draining(queue[q])
    BY <1>4 DEF RunFails, Running, Draining
  <2> QED
    BY <1>4, <2>1, EndsAttends DEF RunFails
<1>5. ASSUME NEW kind \in RunKinds, StartRun(kind) PROVE Watched'
  BY <1>5 DEF OnlyReplies, StartRun, Watched, NoStrandedFollowup
<1>6. CASE EndReply
  <2>1. Sole(queue', current') /\ Attended(queue')
    BY <1>6, BeginAttends DEF EndReply, Watched
  <2> QED
    BY <1>6, <2>1, AttendedIsWatched DEF EndReply
<1>7. ~EndOther
  BY DEF EndOther, Watched
<1>8. ASSUME NEW m \in Messages, Expire(m) PROVE Watched'
  BY <1>8 DEF Expire, Watched, NoStrandedFollowup
<1>9. CASE UNCHANGED vars
  BY <1>9 DEF vars, Watched, NoStrandedFollowup
<1> QED
  BY <1>1, <1>2, <1>3, <1>4, <1>5, <1>6, <1>7, <1>8, <1>9, NoClear DEF Next, Drain

LEMMA WatchedInit == Init => Watched
BY DEF Init, NewQueue, Watched, Sole, Draining, NoStrandedFollowup

(* In a session without clears, whose other runs are reply runs, messages  *)
(* never wait with neither a drain nor a run that will start one.          *)
THEOREM NoneStranded ==
  ASSUME OnlyReplies
  PROVE  Spec => []NoStrandedFollowup
<1>1. Init => Watched
  BY WatchedInit
<1>2. TypeOK /\ Watched /\ [Next]_vars => Watched'
  BY WatchedStep
<1>3. Watched => NoStrandedFollowup
  BY DEF Watched
<1> QED
  BY TypeCorrect, <1>1, <1>2, <1>3, PTL DEF Spec

-----------------------------------------------------------------------------
(* Where, besides, a full queue refuses the newest message and ids do not  *)
(* expire, the accepted messages are those that were run, then those that  *)
(* wait, each once; and a batch is the head of its queue.                  *)

NothingDropped == OnlyReplies /\ Forgettable = {} /\ \A s \in Settings : s.drop = "new"

HeadOf(b, s) == Len(b) <= Len(s) /\ \A i \in 1..Len(b) : b[i] = s[i]

InOrder ==
  /\ Refusing(queue)
  /\ \A q \in Objects : HeadOf(queue[q].batch, queue[q].items)
  /\ arrived = log \o Pending(queue, current)
  /\ Once(arrived)
  /\ Elems(arrived) \subseteq recent

LEMMA BatchIsHead ==
  ASSUME NEW s \in Seq(Messages), NEW b, BatchOf(b, s)
  PROVE  HeadOf(b, s)
<1>1. CASE b = <<>>
  BY <1>1 DEF HeadOf
<1>2. CASE b = s
  BY <1>2 DEF HeadOf
<1>3. CASE s # <<>> /\ b = <<s[1]>>
  BY <1>3 DEF HeadOf
<1> QED
  BY <1>1, <1>2, <1>3 DEF BatchOf

LEMMA PendingType ==
  ASSUME TypeOK
  PROVE  Pending(queue, current) \in Seq(Messages)
BY TypedIs DEF Pending, Typed, QueueType

(* The first g messages of a batch move from the queue s to the log l.     *)
LEMMA HeadMoves ==
  ASSUME NEW l \in Seq(Messages), NEW s \in Seq(Messages), NEW b \in Seq(Messages),
         NEW g \in 0..Len(b), HeadOf(b, s)
  PROVE  /\ l \o s = (l \o SubSeq(b, 1, g)) \o Without(s, g)
         /\ HeadOf(Without(b, g), Without(s, g))
         /\ HeadOf(<<>>, Without(s, g))
<1> DEFINE h == SubSeq(b, 1, g)
           w == Without(s, g)
           r == Without(b, g)
           a == l \o s
           c == (l \o h) \o w
<1>1. /\ g \in Nat /\ Len(l) \in Nat /\ Len(s) \in Nat /\ Len(b) \in Nat
      /\ g <= Len(b) /\ Len(b) <= Len(s)
  BY DEF HeadOf
<1>2. /\ h \in Seq(Messages) /\ Len(h) = g
      /\ \A i \in 1..g : h[i] = s[i]
  BY <1>1 DEF HeadOf
<1>3. /\ w \in Seq(Messages) /\ Len(w) = Len(s) - g
      /\ \A i \in 1..Len(w) : w[i] = s[g + i]
  BY <1>1 DEF Without
<1>4. /\ r \in Seq(Messages) /\ Len(r) = Len(b) - g
      /\ \A i \in 1..Len(r) : r[i] = b[g + i]
  BY <1>1 DEF Without
<1> HIDE DEF h, w, r
<1>5. a \in Seq(Messages) /\ c \in Seq(Messages) /\ Len(a) = Len(c)
  <2>1. a \in Seq(Messages) /\ Len(a) = Len(l) + Len(s)
    OBVIOUS
  <2>2. l \o h \in Seq(Messages) /\ Len(l \o h) = Len(l) + g
    BY <1>1, <1>2
  <2>3. c \in Seq(Messages) /\ Len(c) = Len(l \o h) + Len(w)
    BY <1>3, <2>2, ConcatProperties
  <2> HIDE DEF a, c
  <2> QED
    BY <1>1, <1>3, <2>1, <2>2, <2>3
<1>6. ASSUME NEW i \in 1..Len(a) PROVE a[i] = c[i]
  <2>1. CASE i <= Len(l)
    BY <2>1, <1>1, <1>2, <1>3
  <2>2. CASE Len(l) < i /\ i <= Len(l) + g
    BY <2>2, <1>1, <1>2, <1>3
  <2>3. CASE Len(l) + g < i
    <3> DEFINE k == i - (Len(l) + g)
    <3>1. k \in 1..Len(w) /\ i - Len(l) = g + k
      BY <2>3, <1>1, <1>3
    <3>2. c[i] = w[k]
      BY <2>3, <1>1, <1>2, <1>3, <3>1
    <3>3. a[i] = s[g + k]
      BY <2>3, <1>1, <1>3, <3>1
    <3> QED
      BY <1>3, <3>1, <3>2, <3>3
  <2>4. i \in Nat
    BY <1>5
  <2> HIDE DEF a, c
  <2> QED
    BY <1>1, <2>1, <2>2, <2>3, <2>4
<1>7. a = c
  <2> HIDE DEF a, c
  <2> QED
    BY <1>5, <1>6, SeqEqual
<1>8. HeadOf(r, w) /\ HeadOf(<<>>, w)
  <2>1. Len(r) <= Len(w)
    BY <1>1, <1>3, <1>4
  <2>2. \A i \in 1..Len(r) : g + i \in 1..Len(b) /\ i \in 1..Len(w)
    BY <1>1, <1>3, <1>4
  <2>3. \A i \in 1..Len(r) : r[i] = w[i]
    BY <1>3, <1>4, <2>2 DEF HeadOf
  <2> QED
    BY <1>3, <2>1, <2>3 DEF HeadOf
<1> QED
  BY <1>7, <1>8 DEF h, w, r

LEMMA OnceAppend ==
  ASSUME NEW s \in Seq(Messages), Once(s), NEW m \in Messages, m \notin Elems(s)
  PROVE  Once(Append(s, m))
<1> DEFINE a == Append(s, m)
<1>1. /\ Len(s) \in Nat /\ Len(a) = Len(s) + 1
      /\ a[Len(s) + 1] = m
      /\ \A i \in 1..Len(s) : a[i] = s[i]
  OBVIOUS
<1>2. \A i \in 1..Len(a) : i \in 1..Len(s) \/ i = Len(s) + 1
  BY <1>1
<1>3. \A i \in 1..Len(s) : s[i] # m
  BY DEF Elems
<1> HIDE DEF a
<1>4. Once(a)
  BY <1>1, <1>2, <1>3 DEF Once
<1> QED
  BY <1>4 DEF a

(* A message is accepted at the end of the queue. *)
LEMMA AcceptedInOrder ==
  ASSUME NothingDropped, Inv, Watched, InOrder,
         NEW m \in Messages, NEW s \in Settings, NEW q \in Objects, NEW b \in BOOLEAN,
         EnqueueAccepted(m, s, q, b)
  PROVE  InOrder'
<1> USE TypedIs
<1> DEFINE r == Applied(q, s)
           waiting == Pending(queue, current)
<1>1. /\ s.drop = "new" /\ Target(q)
      /\ m \notin recent
      /\ ~(Full(r) /\ r.drop = "new")
      /\ arrived' = Append(arrived, m) /\ log' = log /\ recent' = recent \cup {m}
  BY DEF NothingDropped, EnqueueAccepted, IsDuplicate
<1>2. Refusing(queue') /\ Pending(queue', current') = Append(waiting, m)
  BY <1>1, AcceptedAttends DEF InOrder, Inv
<1>3. waiting \in Seq(Messages) /\ log \in Seq(Messages) /\ arrived \in Seq(Messages)
  BY PendingType DEF Inv
<1>4. arrived' = log' \o Pending(queue', current')
  <2> HIDE DEF waiting
  <2>1. Append(log \o waiting, m) = (log \o waiting) \o <<m>>
    BY <1>3, AppendIsConcat
  <2>2. Append(waiting, m) = waiting \o <<m>>
    BY <1>3, AppendIsConcat
  <2>3. (log \o waiting) \o <<m>> = log \o (waiting \o <<m>>)
    BY <1>3, ConcatAssociative
  <2> QED
    BY <1>1, <1>2, <2>1, <2>2, <2>3 DEF InOrder, waiting
<1>5. Once(arrived') /\ Elems(arrived') \subseteq recent'
  <2>1. m \notin Elems(arrived)
    BY <1>1 DEF InOrder
  <2>2. Once(Append(arrived, m))
    BY <1>3, <2>1, OnceAppend DEF InOrder
  <2>3. Elems(Append(arrived, m)) = Elems(arrived) \cup {m}
    BY <1>3, ElemsAppend
  <2> QED
    BY <1>1, <2>2, <2>3 DEF InOrder
<1>6. /\ queue'[q].items = Append(queue[q].items, m) /\ queue'[q].batch = queue[q].batch
      /\ \A p \in Objects \ {q} : /\ queue'[p].items = queue[p].items
                                  /\ queue'[p].batch = queue[p].batch
  BY <1>1, AcceptedAttends DEF Inv
<1>7. \A p \in Objects : HeadOf(queue'[p].batch, queue'[p].items)
  <2>1. queue[q].items \in Seq(Messages) /\ queue[q].batch \in Seq(Messages)
    BY DEF Inv, Typed, QueueType
  <2>2. HeadOf(queue[q].batch, Append(queue[q].items, m))
    BY <2>1 DEF InOrder, HeadOf
  <2> QED
    BY <1>6, <2>2 DEF InOrder
<1> QED
  BY <1>2, <1>4, <1>5, <1>7 DEF InOrder

(* Nothing is accepted and no run succeeds. *)
LEMMA CalmInOrder ==
  ASSUME InOrder, Refusing(queue'), Pending(queue', current') = Pending(queue, current),
         \A q \in Objects : HeadOf(queue'[q].batch, queue'[q].items),
         UNCHANGED <<arrived, log, recent>>
  PROVE  InOrder'
BY DEF InOrder, Once, Elems

(* The batch is taken from the head of its queue, or given up. *)
LEMMA TakesInOrder ==
  ASSUME InOrder, TypeOK, NEW q \in Objects, Refusing(queue'),
         Pending(queue', current') = Pending(queue, current),
         queue'[q].items = queue[q].items,
         BatchOf(queue'[q].batch, queue[q].items),
         \A p \in Objects \ {q} : /\ queue'[p].items = queue[p].items
                                  /\ queue'[p].batch = queue[p].batch,
         UNCHANGED <<arrived, log, recent>>
  PROVE  InOrder'
<1>1. HeadOf(queue'[q].batch, queue[q].items)
  BY TypedIs, BatchIsHead DEF Typed, QueueType
<1> QED
  BY <1>1, CalmInOrder DEF InOrder

LEMMA SucceedsInOrder ==
  ASSUME TypeOK, Watched, InOrder, NEW q \in Objects, RunSucceeds(q)
  PROVE  InOrder'
<1> USE TypedIs
<1>1. queue[q].pc # "overflow" /\ Refusing(queue') /\ q = current
  BY SucceedsAttends DEF InOrder, Refusing
<1>2. PICK g \in 0..Len(queue[q].batch) :
        /\ log' = log \o SubSeq(queue[q].batch, 1, g)
        /\ Pending(queue', current') = Without(queue[q].items, g)
        /\ queue'[q].items = Without(queue[q].items, g)
        /\ queue'[q].batch \in {<<>>, Without(queue[q].batch, g)}
  BY <1>1, SucceedsAttends
<1>3. queue[q].items \in Seq(Messages) /\ queue[q].batch \in Seq(Messages) /\ log \in Seq(Messages)
  BY DEF Typed, QueueType
<1>4. /\ log \o queue[q].items = (log \o SubSeq(queue[q].batch, 1, g)) \o Without(queue[q].items, g)
      /\ HeadOf(Without(queue[q].batch, g), Without(queue[q].items, g))
      /\ HeadOf(<<>>, Without(queue[q].items, g))
  <2>1. HeadOf(queue[q].batch, queue[q].items)
    BY DEF InOrder
  <2> QED
    BY <1>3, <2>1, HeadMoves
<1>5. Pending(queue, current) = queue[q].items
  BY <1>1, FollowupAssumption DEF Pending
<1>6. \A p \in Objects \ {q} : /\ queue'[p].items = queue[p].items
                               /\ queue'[p].batch = queue[p].batch
  BY SucceedsAttends
<1>7. arrived' = arrived /\ recent' = recent
  BY DEF RunSucceeds
<1>8. \A p \in Objects : HeadOf(queue'[p].batch, queue'[p].items)
  BY <1>2, <1>4, <1>6 DEF InOrder
<1>9. arrived' = log' \o Pending(queue', current')
  BY <1>2, <1>4, <1>5, <1>7 DEF InOrder
<1>10. Once(arrived') /\ Elems(arrived') \subseteq recent'
  BY <1>7 DEF InOrder
<1> QED
  BY <1>1, <1>8, <1>9, <1>10 DEF InOrder

LEMMA InOrderStep ==
  ASSUME NothingDropped, Inv, Watched, InOrder, [Next]_vars
  PROVE  InOrder'
<1> USE TypedIs DEF Inv
<1>1. ASSUME NEW m \in Messages, Arrive(m) PROVE InOrder'
  <2> PICK s \in Settings, q \in Objects, b \in BOOLEAN :
             EnqueueSkipped(m, s, q, b) \/ EnqueueAccepted(m, s, q, b)
    BY <1>1 DEF Arrive
  <2>1. CASE EnqueueAccepted(m, s, q, b)
    BY <2>1, AcceptedInOrder
  <2>2. CASE EnqueueSkipped(m, s, q, b)
    <3>1. SameWork
      BY <2>2, SkippedSame
    <3>2. Refusing(queue') /\ Pending(queue', current') = Pending(queue, current)
      BY <2>2, SkippedAttends DEF NothingDropped, InOrder
    <3>3. UNCHANGED <<arrived, log, recent>>
      BY <2>2 DEF EnqueueSkipped
    <3> QED
      BY <3>1, <3>2, <3>3, CalmInOrder DEF SameWork, InOrder
  <2> QED
    BY <2>1, <2>2
<1>2. ASSUME NEW q \in Objects, Dispatch(q) PROVE InOrder'
  <2>1. UNCHANGED <<arrived, log, recent>>
    BY <1>2 DEF Dispatch
  <2>2. Refusing(queue') /\ Pending(queue', current') = Pending(queue, current)
    BY <1>2, DispatchAttends DEF InOrder
  <2> QED
    BY <1>2, <2>1, <2>2, DispatchKeeps, TakesInOrder
<1>3. ASSUME NEW q \in Objects, RunSucceeds(q) PROVE InOrder'
  BY <1>3, SucceedsInOrder
<1>4. ASSUME NEW q \in Objects, RunFails(q) PROVE InOrder'
  <2>1. /\ Draining(queue[q]) /\ EndDrain(q, queue[q]) /\ queue[q] \in QueueType
        /\ UNCHANGED <<arrived, log, recent>> /\ active' = active
    BY <1>4 DEF RunFails, Running, Draining, Typed
  <2>2. Refusing(queue') /\ Pending(queue', current') = Pending(queue, current)
    BY <2>1, EndsAttends DEF InOrder
  <2>3. BatchOf(<<>>, queue[q].items)
    BY DEF BatchOf
  <2> QED
    BY <2>1, <2>2, <2>3, EndDrainKeeps, TakesInOrder
<1>5. ASSUME NEW kind \in RunKinds, StartRun(kind) PROVE InOrder'
  BY <1>5, CalmInOrder DEF StartRun, InOrder
<1>6. CASE EndReply
  <2>1. SameWork
    BY <1>6, BeginKeeps DEF EndReply, SameWork
  <2>2. Refusing(queue') /\ Pending(queue', current') = Pending(queue, current)
    BY <1>6, BeginAttends DEF EndReply, Watched, InOrder
  <2> QED
    BY <1>6, <2>1, <2>2, CalmInOrder DEF EndReply, SameWork, InOrder
<1>7. ~EndOther
  BY DEF EndOther, Watched
<1>8. ASSUME NEW m \in Messages PROVE ~Expire(m)
  BY DEF Expire, NothingDropped
<1>9. CASE UNCHANGED vars
  BY <1>9, CalmInOrder DEF vars, InOrder
<1> QED
  BY <1>1, <1>2, <1>3, <1>4, <1>5, <1>6, <1>7, <1>8, <1>9, NoClear DEF Next, Drain, NothingDropped

LEMMA InOrderInit ==
  ASSUME Init
  PROVE  InOrder
<1>1. /\ \A q \in Objects : /\ queue[q].items = <<>> /\ queue[q].batch = <<>>
                            /\ queue[q].drop = "new" /\ queue[q].pc = "idle"
      /\ log = <<>> /\ arrived = <<>> /\ current = None
  BY DEF Init, NewQueue
<1>2. <<>> = <<>> \o <<>>
  OBVIOUS
<1> QED
  BY <1>1, <1>2, ElemsEmpty DEF InOrder, Refusing, HeadOf, Pending, Once

LEMMA InOrderMeans ==
  ASSUME TypeOK, InOrder
  PROVE  RunOrder /\ EveryMessageAccounted
<1> DEFINE waiting == Pending(queue, current)
<1>1. log \in Seq(Messages) /\ waiting \in Seq(Messages) /\ arrived = log \o waiting
  BY PendingType, TypedIs DEF InOrder
<1> HIDE DEF waiting
<1>2. \A i \in 1..Len(log) : i \in 1..Len(arrived) /\ arrived[i] = log[i]
  BY <1>1
<1>3. RunOrder
  <2> SUFFICES ASSUME NEW i \in 1..Len(log), NEW j \in 1..Len(log),
                      NEW k \in 1..Len(arrived), NEW l \in 1..Len(arrived),
                      i < j, log[i] = arrived[k], log[j] = arrived[l]
               PROVE  k < l
    BY DEF RunOrder
  <2>1. i = k /\ j = l
    BY <1>2 DEF InOrder, Once
  <2> QED
    BY <2>1
<1>4. EveryMessageAccounted
  <2> SUFFICES ASSUME NEW k \in 1..Len(arrived)
               PROVE  \/ \E q \in Objects : arrived[k] \in Elems(queue[q].items)
                      \/ arrived[k] \in Elems(log)
    BY DEF EveryMessageAccounted, Elems
  <2>1. CASE k \in 1..Len(log)
    BY <1>2, <2>1 DEF Elems
  <2>2. CASE k \notin 1..Len(log)
    <3> DEFINE i == k - Len(log)
    <3>1. i \in 1..Len(waiting) /\ arrived[k] = waiting[i]
      BY <1>1, <2>2
    <3>2. waiting # <<>>
      BY <3>1
    <3>3. current \in Objects /\ waiting = queue[current].items
      BY <3>2, TypedIs DEF waiting, Pending
    <3> QED
      BY <3>1, <3>3 DEF Elems
  <2> QED
    BY <2>1, <2>2
<1> QED
  BY <1>3, <1>4

LEMMA OrderInvariance ==
  ASSUME NothingDropped
  PROVE  Spec => [](RunOrder /\ EveryMessageAccounted)
<1>1. Init => Watched /\ InOrder
  BY WatchedInit, InOrderInit
<1>2. Inv /\ Watched /\ InOrder /\ [Next]_vars => (Watched /\ InOrder)'
  BY InOrderStep, WatchedStep DEF Inv, NothingDropped
<1>3. Inv /\ InOrder => RunOrder /\ EveryMessageAccounted
  BY InOrderMeans DEF Inv
<1> QED
  BY Invariance, <1>1, <1>2, <1>3, PTL DEF Spec

(* In a session without clears, runs other than replies, expired ids or a  *)
(* policy that drops what was accepted, prompts are run in the order the   *)
(* messages were accepted, whatever the batches, groups and retries.       *)
THEOREM RunsInOrder ==
  ASSUME NothingDropped
  PROVE  Spec => []RunOrder
BY OrderInvariance, PTL

(* In the same sessions no accepted message vanishes: it waits in a queue  *)
(* or its prompt has been run.                                             *)
THEOREM AllAccounted ==
  ASSUME NothingDropped
  PROVE  Spec => []EveryMessageAccounted
BY OrderInvariance, PTL
=============================================================================

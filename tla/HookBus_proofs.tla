---------------------------- MODULE HookBus_proofs ----------------------------
(***************************************************************************)
(* Proofs about the QoS queues and the HookBus, for any channels, classes,  *)
(* sizes and subscribers.                                                  *)
(***************************************************************************)
EXTENDS HookBus, Subsequences_proofs,
        TLAPS, FiniteSetTheorems, SequenceTheorems, FunctionTheorems

-----------------------------------------------------------------------------
(* The queues (QosQueue). *)

QosMessage == [topic : Topics, n : Nat]

(* What the queues hold. *)
RetryEntry == [msg : QosMessage, wait : 0 .. 4, attempts : 1 .. MaxRetries]
QueueContents == [items : Seq(QosMessage), retry : Seq(RetryEntry), dropped : Nat, coalesced : Nat]

Retried(q) == {q.retry[i].msg : i \in DOMAIN q.retry}

(* A queue holds events of C, each in one place. *)
Sound(q, C) ==
  /\ q \in QueueContents
  /\ \A i, j \in DOMAIN q.items : q.items[i] = q.items[j] => i = j
  /\ \A i, j \in DOMAIN q.retry : q.retry[i].msg = q.retry[j].msg => i = j
  /\ ToSet(q.items) \subseteq C /\ Retried(q) \subseteq C
  /\ ToSet(q.items) \cap Retried(q) = {}

(* A retry buffer with fewer entries, or older ones. *)
AgedFrom(e, r, s) ==
  /\ e \in [DOMAIN r -> DOMAIN s]
  /\ \A i, j \in DOMAIN r : e[i] = e[j] => i = j
  /\ \A i \in DOMAIN r : r[i].msg = s[e[i]].msg

LEMMA FreshIsSound == ASSUME NEW C PROVE Sound(FreshQueue, C)
<1>1. FreshQueue.items = <<>> /\ FreshQueue.retry = <<>> /\ FreshQueue \in QueueContents
  BY DEF FreshQueue, QueueContents
<1>2. DOMAIN <<>> = {}
  OBVIOUS
<1> QED
  BY <1>1, <1>2 DEF Sound, Retried, ToSet

(* A queue without its first item. *)
LEMMA TailIsSound ==
  ASSUME NEW C, NEW q, Sound(q, C), q.items # <<>>
  PROVE  /\ Head(q.items) \in C
         /\ Sound([q EXCEPT !.items = Tail(@)], C \ {Head(q.items)})
<1> DEFINE s == q.items
           t == Tail(s)
           p == [q EXCEPT !.items = t]
<1>1. /\ s \in Seq(QosMessage) /\ t \in Seq(QosMessage)
      /\ Len(t) = Len(s) - 1 /\ Len(s) \in Nat \ {0}
      /\ DOMAIN s = 1 .. Len(s) /\ DOMAIN t = 1 .. Len(t)
      /\ \A i \in DOMAIN t : t[i] = s[i + 1] /\ i + 1 \in DOMAIN s
      /\ Head(s) = s[1] /\ 1 \in DOMAIN s
  BY HeadTailProperties, LenProperties, EmptySeq DEF Sound, QueueContents
<1>2. p \in QueueContents /\ p.items = t /\ p.retry = q.retry
  BY <1>1 DEF Sound, QueueContents
<1> HIDE DEF p, t
<1>3. \A i \in DOMAIN t : t[i] # Head(s)
  <2> SUFFICES ASSUME NEW i \in DOMAIN t, t[i] = Head(s) PROVE FALSE
    OBVIOUS
  <2>1. i + 1 = 1 /\ i \in Nat \ {0}
    BY <1>1 DEF Sound
  <2> QED
    BY <2>1
<1>4. \A i, j \in DOMAIN t : t[i] = t[j] => i = j
  <2> SUFFICES ASSUME NEW i \in DOMAIN t, NEW j \in DOMAIN t, t[i] = t[j] PROVE i = j
    OBVIOUS
  <2>1. i + 1 = j + 1 /\ i \in Nat /\ j \in Nat
    BY <1>1 DEF Sound
  <2> QED
    BY <2>1
<1>5. ToSet(t) \subseteq ToSet(s) \ {Head(s)} /\ Head(s) \in ToSet(s)
  BY <1>1, <1>3 DEF ToSet
<1>6. Retried(p) = Retried(q)
  BY <1>2 DEF Retried
<1>7. Sound(p, C \ {Head(s)})
  BY <1>2, <1>4, <1>5, <1>6 DEF Sound
<1> QED
  BY <1>5, <1>7 DEF Sound, p, t

(* A queue with an event more behind the others. *)
LEMMA AppendIsSound ==
  ASSUME NEW C, NEW q, Sound(q, C), NEW m \in QosMessage, m \notin C
  PROVE  Sound([q EXCEPT !.items = Append(@, m)], C \cup {m})
<1> DEFINE s == q.items
           t == Append(s, m)
           p == [q EXCEPT !.items = t]
<1>1. /\ s \in Seq(QosMessage) /\ t \in Seq(QosMessage)
      /\ Len(t) = Len(s) + 1 /\ Len(s) \in Nat
      /\ DOMAIN s = 1 .. Len(s) /\ DOMAIN t = 1 .. Len(t)
      /\ \A i \in DOMAIN s : t[i] = s[i]
      /\ t[Len(t)] = m
  BY AppendProperties, LenProperties DEF Sound, QueueContents
<1>2. p \in QueueContents /\ p.items = t /\ p.retry = q.retry
  BY <1>1 DEF Sound, QueueContents
<1> HIDE DEF p, t
<1>3. \A i \in DOMAIN t : i \in DOMAIN s \/ i = Len(t)
  BY <1>1
<1>4. \A i \in DOMAIN s : s[i] \in C
  BY DEF Sound, ToSet
<1>5. \A i, j \in DOMAIN t : t[i] = t[j] => i = j
  BY <1>1, <1>3, <1>4 DEF Sound
<1>6. ToSet(t) \subseteq ToSet(s) \cup {m}
  BY <1>1, <1>3 DEF ToSet
<1>7. Retried(p) = Retried(q)
  BY <1>2 DEF Retried
<1>8. Sound(p, C \cup {m})
  BY <1>2, <1>5, <1>6, <1>7 DEF Sound
<1> QED
  BY <1>8 DEF p, t

(* A queue whose items stay, and whose retries grow older or go. *)
LEMMA AgedIsSound ==
  ASSUME NEW C, NEW q, Sound(q, C), NEW p \in QueueContents, p.items = q.items,
         NEW e, AgedFrom(e, p.retry, q.retry)
  PROVE  Sound(p, C)
<1>1. Retried(p) \subseteq Retried(q)
  BY DEF AgedFrom, Retried
<1>2. \A i, j \in DOMAIN p.retry : p.retry[i].msg = p.retry[j].msg => i = j
  BY DEF AgedFrom, Sound
<1> QED
  BY <1>1, <1>2 DEF Sound

(* A queue with a retry more. *)
LEMMA BufferIsSound ==
  ASSUME NEW C, NEW q, Sound(q, C), NEW m \in QosMessage, m \notin C
  PROVE  LET r == [msg |-> m, wait |-> RetryDelay[1], attempts |-> 1]
         IN /\ r \in RetryEntry
            /\ Sound([q EXCEPT !.retry = Append(@, r)], C \cup {m})
<1> DEFINE r == [msg |-> m, wait |-> RetryDelay[1], attempts |-> 1]
           s == q.retry
           t == Append(s, r)
           p == [q EXCEPT !.retry = t]
<1>0. r \in RetryEntry /\ r.msg = m
  BY DEF RetryEntry, RetryDelay, MaxRetries
<1> HIDE DEF r
<1>1. /\ s \in Seq(RetryEntry) /\ t \in Seq(RetryEntry)
      /\ Len(t) = Len(s) + 1 /\ Len(s) \in Nat
      /\ DOMAIN s = 1 .. Len(s) /\ DOMAIN t = 1 .. Len(t)
      /\ \A i \in DOMAIN s : t[i] = s[i]
      /\ t[Len(t)] = r
  BY <1>0, AppendProperties, LenProperties DEF Sound, QueueContents
<1>2. p \in QueueContents /\ p.items = q.items /\ p.retry = t
  BY <1>1 DEF Sound, QueueContents
<1> HIDE DEF p, t
<1>3. \A i \in DOMAIN t : i \in DOMAIN s \/ i = Len(t)
  BY <1>1
<1>4. \A i \in DOMAIN s : s[i].msg \in C
  BY DEF Sound, Retried
<1>5. \A i, j \in DOMAIN t : t[i].msg = t[j].msg => i = j
  BY <1>0, <1>1, <1>3, <1>4 DEF Sound
<1>6. Retried(p) \subseteq Retried(q) \cup {m}
  BY <1>0, <1>1, <1>2, <1>3 DEF Retried
<1>8. Sound(p, C \cup {m})
  BY <1>2, <1>5, <1>6 DEF Sound
<1> QED
  BY <1>0, <1>8 DEF p, t, r

LEMMA CountingIsSound ==
  ASSUME NEW C, NEW q, Sound(q, C), NEW p \in QueueContents, p.items = q.items, p.retry = q.retry
  PROVE  Sound(p, C)
BY DEF Sound, Retried

(* _enqueue_drop() *)
LEMMA DropIsSound ==
  ASSUME NEW C, NEW q, Sound(q, C), NEW m \in QosMessage, m \notin C, NEW size
  PROVE  Sound(EnqueueDrop(q, m, size), C \cup {m})
<1> DEFINE p == [q EXCEPT !.dropped = @ + 1]
<1>1. p \in QueueContents /\ p.items = q.items /\ p.retry = q.retry
  BY DEF Sound, QueueContents
<1> HIDE DEF p
<1>2. Sound(p, C)
  BY <1>1, CountingIsSound
<1>3. Sound(p, C \cup {m})
  BY <1>2 DEF Sound
<1> QED
  BY <1>3, AppendIsSound DEF EnqueueDrop, p

SameKey(q, m) == {i \in DOMAIN q.items : KeyOf[q.items[i].topic] = KeyOf[m.topic]}

(* Of a key at most one event waits in the queue. *)
OneOfKey(q) ==
  \A i, j \in DOMAIN q.items :
    KeyOf[q.items[i].topic] = KeyOf[q.items[j].topic] /\ KeyOf[q.items[i].topic] # NoKey => i = j

ReplacedAt(q, at, m) ==
  [q EXCEPT !.items = [i \in DOMAIN @ |-> IF i = at THEN m ELSE @[i]], !.coalesced = @ + 1]

(* _enqueue_coalesce(): one event takes the place of another. *)
LEMMA ReplacedCounts ==
  ASSUME NEW q \in QueueContents, NEW m \in QosMessage, NEW at \in DOMAIN q.items
  PROVE  LET r == ReplacedAt(q, at, m)
         IN /\ r \in QueueContents /\ r.retry = q.retry
            /\ Len(r.items) = Len(q.items) /\ DOMAIN r.items = DOMAIN q.items
            /\ \A i \in DOMAIN q.items : r.items[i] = IF i = at THEN m ELSE q.items[i]
            /\ r.dropped = q.dropped /\ r.coalesced = q.coalesced + 1
<1> DEFINE s == q.items
           t == [i \in DOMAIN s |-> IF i = at THEN m ELSE s[i]]
           r == ReplacedAt(q, at, m)
<1>1. PICK n \in Nat : s \in [1 .. n -> QosMessage]
  BY SeqDef DEF QueueContents
<1>2. t \in [1 .. n -> QosMessage]
  BY <1>1
<1>3. t \in Seq(QosMessage) /\ s \in Seq(QosMessage)
  BY <1>1, <1>2, SeqDef
<1>4. Len(t) = Len(s) /\ DOMAIN t = DOMAIN s
  BY <1>1, <1>2, <1>3, LenProperties
<1>5. \A i \in DOMAIN s : t[i] = IF i = at THEN m ELSE s[i]
  OBVIOUS
<1>6. r = [q EXCEPT !.items = t, !.coalesced = @ + 1]
  BY DEF ReplacedAt
<1> HIDE DEF r, t
<1>7. q.coalesced + 1 \in Nat
  BY DEF QueueContents
<1>8. /\ r \in QueueContents /\ r.items = t /\ r.retry = q.retry
      /\ r.dropped = q.dropped /\ r.coalesced = q.coalesced + 1
  BY <1>3, <1>6, <1>7 DEF QueueContents
<1> QED
  BY <1>4, <1>5, <1>8 DEF r

LEMMA ReplacedIsSound ==
  ASSUME NEW C, NEW q, Sound(q, C), NEW m \in QosMessage, m \notin C,
         NEW at \in DOMAIN q.items
  PROVE  Sound(ReplacedAt(q, at, m), C \cup {m})
<1> DEFINE r == ReplacedAt(q, at, m)
<1>1. q \in QueueContents
  BY DEF Sound
<1>2. /\ r \in QueueContents /\ r.retry = q.retry /\ DOMAIN r.items = DOMAIN q.items
      /\ \A i \in DOMAIN q.items : r.items[i] = IF i = at THEN m ELSE q.items[i]
  BY <1>1, ReplacedCounts
<1> HIDE DEF r
<1>3. \A i \in DOMAIN q.items : q.items[i] \in C
  BY DEF Sound, ToSet
<1>4. \A i, j \in DOMAIN r.items : r.items[i] = r.items[j] => i = j
  BY <1>2, <1>3 DEF Sound
<1>5. ToSet(r.items) \subseteq ToSet(q.items) \cup {m}
  BY <1>2 DEF ToSet
<1>6. Retried(r) = Retried(q)
  BY <1>2 DEF Retried
<1>7. Sound(r, C \cup {m})
  BY <1>2, <1>4, <1>5, <1>6 DEF Sound
<1> QED
  BY <1>7 DEF r

LEMMA CoalesceCases ==
  ASSUME NEW q, OneOfKey(q), NEW m, NEW size
  PROVE  \/ /\ EnqueueCoalesce(q, m, size) = EnqueueDrop(q, m, size)
            /\ KeyOf[m.topic] = NoKey \/ SameKey(q, m) = {}
         \/ /\ KeyOf[m.topic] # NoKey
            /\ \E at \in DOMAIN q.items :
                 /\ SameKey(q, m) = {at}
                 /\ EnqueueCoalesce(q, m, size) = ReplacedAt(q, at, m)
<1>1. CASE KeyOf[m.topic] = NoKey \/ SameKey(q, m) = {}
  BY <1>1 DEF EnqueueCoalesce, SameKey
<1>2. CASE KeyOf[m.topic] # NoKey /\ SameKey(q, m) # {}
  <2>1. PICK at \in SameKey(q, m) : TRUE
    BY <1>2
  <2>2. at \in DOMAIN q.items /\ SameKey(q, m) = {at}
    BY <1>2, <2>1 DEF OneOfKey, SameKey
  <2>3. EnqueueCoalesce(q, m, size) = ReplacedAt(q, at, m)
    <3>1. EnqueueCoalesce(q, m, size) =
            [q EXCEPT !.items = [i \in DOMAIN @ |-> IF i \in SameKey(q, m) THEN m ELSE @[i]],
                      !.coalesced = @ + 1]
      BY <1>2 DEF EnqueueCoalesce, SameKey
    <3>2. [i \in DOMAIN q.items |-> IF i \in SameKey(q, m) THEN m ELSE q.items[i]]
            = [i \in DOMAIN q.items |-> IF i = at THEN m ELSE q.items[i]]
      BY <2>2
    <3> QED
      BY <3>1, <3>2 DEF ReplacedAt
  <2> QED
    BY <1>2, <2>2, <2>3, SMTT(30)
<1> QED
  BY SMTT(30), <1>1, <1>2

LEMMA CoalesceIsSound ==
  ASSUME NEW C, NEW q, Sound(q, C), OneOfKey(q), NEW m \in QosMessage, m \notin C, NEW size
  PROVE  Sound(EnqueueCoalesce(q, m, size), C \cup {m})
<1>1. CASE EnqueueCoalesce(q, m, size) = EnqueueDrop(q, m, size)
  BY <1>1, DropIsSound
<1>2. CASE \E at \in DOMAIN q.items : EnqueueCoalesce(q, m, size) = ReplacedAt(q, at, m)
  <2>1. PICK at \in DOMAIN q.items : EnqueueCoalesce(q, m, size) = ReplacedAt(q, at, m)
    BY <1>2
  <2>2. Sound(ReplacedAt(q, at, m), C \cup {m})
    BY ReplacedIsSound, ZenonT(30)
  <2> QED
    BY <2>1, <2>2
<1> QED
  BY <1>1, <1>2, CoalesceCases

LEMMA RetriesAreCut ==
  ASSUME NEW C, NEW q, Sound(q, C), NEW k \in Nat, k < Len(q.retry), NEW d \in Nat
  PROVE  /\ Sound([q EXCEPT !.retry = SubSeq(q.retry, k + 1, Len(q.retry)), !.dropped = @ + d], C)
         /\ Len(SubSeq(q.retry, k + 1, Len(q.retry))) = Len(q.retry) - k
<1> DEFINE s == q.retry
           t == SubSeq(s, k + 1, Len(s))
           p == [q EXCEPT !.retry = t, !.dropped = @ + d]
           e == [i \in DOMAIN t |-> i + k]
<1>1. s \in Seq(RetryEntry) /\ Len(s) \in Nat /\ DOMAIN s = 1 .. Len(s)
  BY LenProperties DEF Sound, QueueContents
<1>2. /\ t \in Seq(RetryEntry) /\ Len(t) = Len(s) - k /\ DOMAIN t = 1 .. Len(t)
      /\ \A i \in DOMAIN t : t[i] = s[i + k]
  <2>1. k + 1 \in 1 .. Len(s) /\ Len(s) \in k .. Len(s)
    BY <1>1
  <2>2. t \in Seq(RetryEntry) /\ Len(t) = Len(s) - k
    BY <1>1, <2>1, SubSeqProperties
  <2>3. DOMAIN t = 1 .. Len(t)
    BY <2>2, LenProperties
  <2>4. t = [i \in 1 .. Len(s) - k |-> s[i + k]]
    BY <1>1, <2>1, SubSeqProperties
  <2> QED
    BY <2>2, <2>3, <2>4
<1> HIDE DEF t
<1>3. p \in QueueContents /\ p.items = q.items /\ p.retry = t
  <2>1. q \in QueueContents /\ q.dropped + d \in Nat
    BY DEF Sound, QueueContents
  <2> QED
    BY <1>2, <2>1 DEF QueueContents
<1> HIDE DEF p
<1>4. AgedFrom(e, t, s)
  <2>1. \A i \in DOMAIN t : i \in Nat /\ i + k \in DOMAIN s
    BY <1>1, <1>2
  <2> QED
    BY <1>2, <2>1 DEF AgedFrom
<1>5. Sound(p, C)
  <2> HIDE DEF e
  <2> QED BY <1>3, <1>4, AgedIsSound
<1> QED
  BY <1>2, <1>5 DEF p, t

(* _enqueue_critical() *)
LEMMA CriticalIsSound ==
  ASSUME NEW C, NEW q, Sound(q, C), NEW m \in QosMessage, m \notin C, NEW size,
         Len(q.retry) <= RetryLimit
  PROVE  /\ Sound(EnqueueCritical(q, m, size), C \cup {m})
         /\ Len(EnqueueCritical(q, m, size).retry) <= RetryLimit
         /\ HasData(EnqueueCritical(q, m, size))
<1> DEFINE r == [msg |-> m, wait |-> RetryDelay[1], attempts |-> 1]
           b == [q EXCEPT !.retry = Append(@, r)]
           c == [b EXCEPT !.retry = SubSeq(b.retry, RetryDrop + 1, Len(b.retry)), !.dropped = @ + RetryDrop]
           i == [q EXCEPT !.items = Append(@, m)]
<1>1. r \in RetryEntry /\ Sound(b, C \cup {m})
  BY BufferIsSound
<1>2. q \in QueueContents /\ q.retry \in Seq(RetryEntry) /\ Len(q.retry) \in Nat /\ q.items \in Seq(QosMessage)
  BY LenProperties DEF Sound, QueueContents
<1>3. RetryLimit \in Nat \ {0} /\ RetryDrop \in 1 .. RetryLimit
  BY QosAssumption
<1>4. b.retry = Append(q.retry, r) /\ Len(b.retry) = Len(q.retry) + 1 /\ b.retry # <<>>
  <2> HIDE DEF r
  <2>1. b.retry = Append(q.retry, r)
    BY <1>2 DEF QueueContents
  <2> HIDE DEF b
  <2> QED
    BY <1>1, <1>2, <2>1
<1>5. i.items = Append(q.items, m) /\ i.items # <<>> /\ i.retry = q.retry
  <2>1. i.items = Append(q.items, m) /\ i.retry = q.retry
    BY <1>2 DEF QueueContents
  <2> QED
    BY <1>2, <2>1
<1>6. EnqueueCritical(q, m, size) =
        IF Len(q.items) < size THEN i
        ELSE IF Len(b.retry) > RetryLimit THEN c ELSE b
  <2>1. c = [q EXCEPT !.retry = SubSeq(b.retry, RetryDrop + 1, Len(b.retry)), !.dropped = @ + RetryDrop]
    <3> HIDE DEF r
    <3> QED BY <1>2 DEF QueueContents
  <2> QED
    BY <1>4, <2>1 DEF EnqueueCritical
<1>7. Sound(i, C \cup {m})
  BY AppendIsSound
<1> HIDE DEF b, i, r
<1>8. CASE Len(b.retry) > RetryLimit
  <2>1. RetryDrop < Len(b.retry) /\ RetryDrop \in Nat /\ RetryLimit + 1 - RetryDrop <= RetryLimit
        /\ Len(b.retry) = RetryLimit + 1 /\ RetryLimit + 1 - RetryDrop > 0
    BY SMTT(30), <1>2, <1>3, <1>4, <1>8
  <2>2. Sound(c, C \cup {m}) /\ Len(SubSeq(b.retry, RetryDrop + 1, Len(b.retry))) = Len(b.retry) - RetryDrop
    BY <1>1, <2>1, RetriesAreCut
  <2>3. c.retry = SubSeq(b.retry, RetryDrop + 1, Len(b.retry))
    BY <1>1 DEF Sound, QueueContents
  <2> HIDE DEF c
  <2>4. Len(c.retry) <= RetryLimit /\ Len(c.retry) # 0
    <3>1. Len(c.retry) = Len(b.retry) - RetryDrop
      BY <2>2, <2>3
    <3> QED
      BY <1>3, <2>1, <3>1
  <2>5. HasData(c)
    BY <2>4 DEF HasData
  <2> QED
    BY <1>5, <1>6, <1>7, <1>8, <2>2, <2>4, <2>5 DEF HasData
<1>9. CASE ~(Len(b.retry) > RetryLimit)
  BY <1>1, <1>2, <1>3, <1>4, <1>5, <1>6, <1>7, <1>9 DEF HasData
<1> QED
  BY <1>8, <1>9

(* One unit of time passes. *)
LEMMA ElapseIsSound ==
  ASSUME NEW C, NEW q, Sound(q, C)
  PROVE  /\ Sound(Elapse(q), C) /\ Elapse(q).items = q.items
         /\ Len(Elapse(q).retry) = Len(q.retry)
<1> DEFINE s == q.retry
           t == [i \in DOMAIN s |-> [s[i] EXCEPT !.wait = IF @ = 0 THEN 0 ELSE @ - 1]]
           p == Elapse(q)
           e == [i \in DOMAIN s |-> i]
<1>1. s \in Seq(RetryEntry) /\ Len(s) \in Nat /\ DOMAIN s = 1 .. Len(s) /\ q \in QueueContents
  BY LenProperties DEF Sound, QueueContents
<1>2. ASSUME NEW i \in DOMAIN s
      PROVE  t[i] \in RetryEntry /\ t[i].msg = s[i].msg
  <2>1. PICK r \in RetryEntry : r = s[i]
    BY <1>1, ElementOfSeq
  <2>2. (IF r.wait = 0 THEN 0 ELSE r.wait - 1) \in 0 .. 4
    BY DEF RetryEntry
  <2>3. t[i] = [r EXCEPT !.wait = IF r.wait = 0 THEN 0 ELSE r.wait - 1]
    BY <2>1
  <2> HIDE DEF t
  <2> QED
    BY <2>1, <2>2, <2>3 DEF RetryEntry
<1>3. t \in [1 .. Len(s) -> RetryEntry] /\ DOMAIN t = 1 .. Len(s)
  BY <1>1, <1>2
<1> HIDE DEF t
<1>4. t \in Seq(RetryEntry) /\ Len(t) = Len(s)
  BY <1>1, <1>3, SeqDef, LenProperties
<1>5. p = [q EXCEPT !.retry = t]
  BY DEF Elapse, t
<1>6. p \in QueueContents /\ p.items = q.items /\ p.retry = t
  BY <1>1, <1>4, <1>5 DEF QueueContents
<1>7. AgedFrom(e, t, s)
  BY <1>1, <1>2, <1>3 DEF AgedFrom
<1> HIDE DEF p, e
<1>8. Sound(p, C)
  BY <1>6, <1>7, AgedIsSound
<1> QED
  BY <1>4, <1>6, <1>8 DEF p

(* get(): what is returned waits nowhere any more. *)
LEMMA GetIsSound ==
  ASSUME NEW C, NEW q, Sound(q, C), CanGet(q)
  PROVE  /\ NextItem(q) \in C
         /\ Sound(AfterGet(q), C \ {NextItem(q)})
         /\ Len(AfterGet(q).items) <= Len(q.items)
         /\ Len(AfterGet(q).retry) <= Len(q.retry)
<1>1. /\ q \in QueueContents /\ q.items \in Seq(QosMessage) /\ q.retry \in Seq(RetryEntry)
      /\ DOMAIN q.retry = 1 .. Len(q.retry) /\ Len(q.retry) \in Nat /\ Len(q.items) \in Nat
  BY LenProperties DEF Sound, QueueContents
<1>4. IsFiniteSet(1 .. Len(q.retry)) /\ Cardinality(1 .. Len(q.retry)) = Len(q.retry)
  BY <1>1, PositionsAreFinite
<1>2. CASE Due(q) = {}
  <2>1. q.items # <<>> /\ NextItem(q) = Head(q.items) /\ AfterGet(q) = [q EXCEPT !.items = Tail(@)]
    BY <1>2 DEF CanGet, NextItem, AfterGet
  <2>2. AfterGet(q).items = Tail(q.items) /\ AfterGet(q).retry = q.retry
    BY <1>1, <2>1 DEF QueueContents
  <2>3. Len(Tail(q.items)) <= Len(q.items)
    BY <1>1, <2>1, HeadTailProperties
  <2>4. Head(q.items) \in C /\ Sound([q EXCEPT !.items = Tail(@)], C \ {Head(q.items)})
    BY <2>1, TailIsSound
  <2> QED
    BY <1>1, <2>1, <2>2, <2>3, <2>4
<1>3. CASE Due(q) # {}
  <2> DEFINE s == q.retry
             D == Due(q)
             P == DOMAIN s \ D
             t == Kept(s, P)
             p == AfterGet(q)
             x == NextItem(q)
  <2>1. D \in SUBSET DOMAIN s /\ P \in SUBSET DOMAIN s /\ D \cap P = {}
    BY DEF Due
  <2>2. p = [q EXCEPT !.retry = t] /\ x = Kept(s, D)[1].msg
    BY <1>3 DEF AfterGet, NextItem
  <2> HIDE DEF D, P
  <2>3. PICK e : t \in Seq(RetryEntry) /\ Len(t) = Cardinality(P) /\ Picks(e, t, s, P)
    BY <1>1, <2>1, KeptIsPicked
  <2>4. \E i \in D : x = s[i].msg
    <3>1. PICK f : Len(Kept(s, D)) = Cardinality(D) /\ Picks(f, Kept(s, D), s, D)
                   /\ Kept(s, D) \in Seq(RetryEntry)
      BY <1>1, <2>1, KeptIsPicked
    <3>2. PICK i \in D : TRUE
      BY <1>3 DEF D
    <3>3. \E k \in 1 .. Len(Kept(s, D)) : TRUE
      BY <3>1, <3>2 DEF Picks
    <3>4. 1 \in 1 .. Len(Kept(s, D))
      BY <3>1, <3>3, LenProperties
    <3>5. f[1] \in D /\ Kept(s, D)[1] = s[f[1]]
      BY <3>1, <3>4 DEF Picks
    <3> QED
      BY <2>2, <3>5
  <2>5. PICK i \in D : x = s[i].msg
    BY <2>4
  <2>6. Len(t) \in Nat /\ Len(t) <= Len(s) /\ DOMAIN t = 1 .. Len(t)
    <3>1. Cardinality(P) <= Len(s)
      BY <1>1, <1>4, <2>1, FS_Subset
    <3> QED
      BY <2>3, <3>1, LenProperties
  <2> HIDE DEF t, p, x
  <2>7. p \in QueueContents /\ p.items = q.items /\ p.retry = t
    BY <1>1, <2>2, <2>3 DEF QueueContents
  <2>8. AgedFrom(e, t, s)
    <3>1. e \in [DOMAIN t -> DOMAIN s] /\ \A k \in DOMAIN t : t[k] = s[e[k]]
      BY <2>1, <2>3, <2>6 DEF Picks
    <3>2. \A k \in DOMAIN t : k \in Nat /\ e[k] \in Nat
      BY <1>1, <2>6, <3>1
    <3>3. \A k, l \in DOMAIN t : e[k] = e[l] => k = l
      <4> SUFFICES ASSUME NEW k \in DOMAIN t, NEW l \in DOMAIN t, e[k] = e[l], k < l
                   PROVE  FALSE
        BY <3>2
      <4>1. e[k] < e[l]
        BY <2>3, <2>6 DEF Picks
      <4> QED
        BY <3>2, <4>1
    <3> QED
      BY <3>1, <3>3 DEF AgedFrom
  <2>9. Sound(p, C)
    BY <2>7, <2>8, AgedIsSound
  <2>10. x \notin Retried(p)
    <3> SUFFICES ASSUME NEW k \in DOMAIN t, x = s[e[k]].msg PROVE FALSE
      BY <2>7, <2>8 DEF Retried, AgedFrom
    <3>1. e[k] \in P
      BY <2>3, <2>6 DEF Picks
    <3>2. e[k] = i
      BY <2>1, <2>5, <3>1 DEF Sound
    <3> QED
      BY <2>1, <3>1, <3>2
  <2>11. x \in Retried(q)
    BY <2>1, <2>5 DEF Retried
  <2>12. x \in C /\ x \notin ToSet(p.items)
    BY <2>7, <2>11 DEF Sound
  <2>13. Sound(p, C \ {x})
    BY <2>9, <2>10, <2>12 DEF Sound
  <2> QED
    BY <1>1, <2>6, <2>7, <2>12, <2>13 DEF p, x
<1> QED
  BY <1>2, <1>3

LEMMA OneMore ==
  \A a, b, c \in Nat : /\ (a + 1) + b + c = a + b + c + 1
                       /\ a + (b + 1) + c = a + b + c + 1
                       /\ a + b + (c + 1) = a + b + c + 1
OBVIOUS

(* put_nowait(): an event of the class of the queue is put into it. *)
LEMMA PutIsSound ==
  ASSUME NEW qos \in QosClass, NEW C, NEW q, Sound(q, C), NEW m \in QosMessage, m \notin C, NEW size \in Nat,
         qos = "important" => OneOfKey(q),
         Len(q.items) <= size, Len(q.retry) <= IF qos = "critical" THEN RetryLimit ELSE 0
  PROVE  LET p == Put(qos, q, m, size)
         IN /\ Sound(p, C \cup {m})
            /\ Len(p.items) <= size
            /\ Len(p.retry) <= IF qos = "critical" THEN RetryLimit ELSE 0
            /\ qos = "critical" => HasData(p)
            /\ qos # "critical" =>
                 Len(p.items) + p.dropped + p.coalesced = Len(q.items) + q.dropped + q.coalesced + 1
<1> DEFINE i == [q EXCEPT !.items = Append(@, m)]
           d == [q EXCEPT !.dropped = @ + 1]
<1>1. /\ q \in QueueContents /\ q.items \in Seq(QosMessage) /\ q.retry \in Seq(RetryEntry)
      /\ q.dropped \in Nat /\ q.coalesced \in Nat /\ Len(q.items) \in Nat
  BY LenProperties DEF Sound, QueueContents
<1>0. PICK a \in Nat, b \in Nat, c \in Nat : a = Len(q.items) /\ b = q.dropped /\ c = q.coalesced
  BY <1>1
<1>2. /\ i.items = Append(q.items, m) /\ i.retry = q.retry
      /\ i.dropped = q.dropped /\ i.coalesced = q.coalesced
      /\ Len(Append(q.items, m)) = Len(q.items) + 1
  BY <1>1, AppendProperties DEF QueueContents
<1>3. /\ d.items = q.items /\ d.retry = q.retry
      /\ d.dropped = q.dropped + 1 /\ d.coalesced = q.coalesced
  BY <1>1 DEF QueueContents
<1> DEFINE p == EnqueueDrop(q, m, size)
<1>4. p = IF Len(q.items) < size THEN i ELSE d
  BY DEF EnqueueDrop
<1> HIDE DEF i, d, p
<1>5. /\ Len(p.items) <= size /\ p.retry = q.retry
      /\ Len(p.items) + p.dropped + p.coalesced = Len(q.items) + q.dropped + q.coalesced + 1
  <2>1. CASE Len(q.items) < size
    <3>1. /\ Len(p.items) = Len(q.items) + 1 /\ p.retry = q.retry
          /\ p.dropped = q.dropped /\ p.coalesced = q.coalesced
      BY <1>2, <1>4, <2>1
    <3>2. Len(p.items) = a + 1 /\ p.dropped = b /\ p.coalesced = c
      BY <1>0, <3>1
    <3>3. (a + 1) + b + c = a + b + c + 1
      BY OneMore
    <3>4. a + 1 <= size
      BY <1>0, <2>1
    <3> QED
      BY <1>0, <3>1, <3>2, <3>3, <3>4
  <2>2. CASE ~(Len(q.items) < size)
    <3>1. /\ Len(p.items) = Len(q.items) /\ p.retry = q.retry
          /\ p.dropped = q.dropped + 1 /\ p.coalesced = q.coalesced
      BY <1>3, <1>4, <2>2
    <3>2. a + (b + 1) + c = a + b + c + 1
      BY OneMore
    <3>3. Len(p.items) = a /\ p.dropped = b + 1 /\ p.coalesced = c
      BY <1>0, <3>1
    <3>4. Len(p.items) <= size
      BY <3>1
    <3> QED
      BY <1>0, <3>1, <3>2, <3>3, <3>4
  <2> QED
    BY <2>1, <2>2
<1>6. Sound(p, C \cup {m})
  BY DropIsSound DEF p
<1>7. CASE qos = "best_effort"
  <2>1. Put(qos, q, m, size) = p
    BY <1>7 DEF Put, p
  <2> QED
    BY <1>5, <1>6, <1>7, <2>1
<1>8. CASE qos = "important"
  <2>1. Put(qos, q, m, size) = EnqueueCoalesce(q, m, size)
    BY <1>8 DEF Put
  <2>2. Sound(EnqueueCoalesce(q, m, size), C \cup {m})
    BY <1>8, CoalesceIsSound
  <2>3. CASE EnqueueCoalesce(q, m, size) = p
    BY <1>5, <1>6, <1>8, <2>1, <2>3
  <2>4. CASE \E at \in DOMAIN q.items : EnqueueCoalesce(q, m, size) = ReplacedAt(q, at, m)
    <3>1. PICK at \in DOMAIN q.items : EnqueueCoalesce(q, m, size) = ReplacedAt(q, at, m)
      BY <2>4
    <3> DEFINE r == ReplacedAt(q, at, m)
    <3>2. /\ r.retry = q.retry /\ Len(r.items) = Len(q.items)
          /\ r.dropped = q.dropped /\ r.coalesced = q.coalesced + 1
      BY <1>1, ReplacedCounts
    <3> HIDE DEF r
    <3>3. Len(r.items) + r.dropped + r.coalesced = Len(q.items) + q.dropped + q.coalesced + 1
      <4>1. a + b + (c + 1) = a + b + c + 1
        BY OneMore
      <4>2. Len(r.items) = a /\ r.dropped = b /\ r.coalesced = c + 1
        BY <1>0, <3>2
      <4> QED
        BY <1>0, <4>1, <4>2
    <3>4. Put(qos, q, m, size) = r
      BY <2>1, <3>1 DEF r
    <3> QED
      BY <1>8, <2>1, <2>2, <3>2, <3>3, <3>4
  <2> QED
    BY <1>8, <2>3, <2>4, CoalesceCases DEF p
<1>9. CASE qos = "critical"
  <2>1. Put(qos, q, m, size) = EnqueueCritical(q, m, size)
    BY <1>9 DEF Put
  <2>2. /\ Sound(EnqueueCritical(q, m, size), C \cup {m})
        /\ Len(EnqueueCritical(q, m, size).retry) <= RetryLimit
        /\ HasData(EnqueueCritical(q, m, size))
    BY <1>9, CriticalIsSound
  <2>3. Len(EnqueueCritical(q, m, size).items) <= size
    <3>1. CASE Len(q.items) < size
      <4>1. EnqueueCritical(q, m, size) = i
        BY <3>1 DEF EnqueueCritical, i
      <4> QED
        BY <1>1, <1>2, <3>1, <4>1
    <3>2. CASE ~(Len(q.items) < size)
      <4>1. EnqueueCritical(q, m, size).items = q.items
        BY <1>1, <3>2 DEF EnqueueCritical, QueueContents
      <4> QED
        BY <4>1
    <3> QED
      BY <3>1, <3>2
  <2> QED
    BY <1>9, <2>1, <2>2, <2>3
<1> QED
  BY <1>7, <1>8, <1>9 DEF QosClass

(* What _enqueue_coalesce() puts in: the new event, once, beside or instead *)
(* of the others.                                                          *)
LEMMA CoalesceKeepsKeys ==
  ASSUME NEW q \in QueueContents, OneOfKey(q), NEW m \in QosMessage, NEW size
  PROVE  LET p == EnqueueCoalesce(q, m, size)
         IN OneOfKey(p) /\ ToSet(p.items) \subseteq ToSet(q.items) \cup {m}
<1> DEFINE p == EnqueueCoalesce(q, m, size)
<1> SUFFICES OneOfKey(p) /\ ToSet(p.items) \subseteq ToSet(q.items) \cup {m}
  OBVIOUS
<1>0. p = EnqueueCoalesce(q, m, size)
  OBVIOUS
<1> HIDE DEF p
<1>1. q.items \in Seq(QosMessage) /\ DOMAIN q.items = 1 .. Len(q.items) /\ Len(q.items) \in Nat
  BY LenProperties DEF QueueContents
<1>2. CASE /\ p = EnqueueDrop(q, m, size)
           /\ KeyOf[m.topic] = NoKey \/ SameKey(q, m) = {}
  <2>1. CASE Len(q.items) < size
    <3>1. p = [q EXCEPT !.items = Append(@, m)]
      BY <1>2, <2>1 DEF EnqueueDrop
    <3>2. p.items = Append(q.items, m)
      BY <3>1 DEF QueueContents
    <3>3. /\ DOMAIN p.items = 1 .. (Len(q.items) + 1) /\ p.items[Len(q.items) + 1] = m
          /\ \A i \in DOMAIN q.items : p.items[i] = q.items[i]
      BY <1>1, <3>2, AppendProperties, LenProperties
    <3>4. \A i \in DOMAIN p.items : i \in DOMAIN q.items \/ i = Len(q.items) + 1
      BY <1>1, <3>3
    <3>5. ToSet(p.items) \subseteq ToSet(q.items) \cup {m}
      BY <3>3, <3>4 DEF ToSet
    <3>6. KeyOf[m.topic] = NoKey \/ \A i \in DOMAIN q.items : KeyOf[q.items[i].topic] # KeyOf[m.topic]
      BY <1>2 DEF SameKey
    <3> QED
      BY <3>3, <3>4, <3>5, <3>6 DEF OneOfKey
  <2>2. CASE ~(Len(q.items) < size)
    <3>1. p.items = q.items
      BY <1>2, <2>2 DEF EnqueueDrop, QueueContents
    <3> QED
      BY <3>1 DEF OneOfKey
  <2> QED
    BY <2>1, <2>2
<1>3. CASE /\ KeyOf[m.topic] # NoKey
           /\ \E at \in DOMAIN q.items : SameKey(q, m) = {at} /\ p = ReplacedAt(q, at, m)
  <2>1. PICK at \in DOMAIN q.items : SameKey(q, m) = {at} /\ p = ReplacedAt(q, at, m)
    BY <1>3
  <2>2. /\ DOMAIN p.items = DOMAIN q.items
        /\ \A i \in DOMAIN q.items : p.items[i] = IF i = at THEN m ELSE q.items[i]
    BY <2>1, ReplacedCounts
  <2>3. \A i \in DOMAIN q.items : KeyOf[q.items[i].topic] = KeyOf[m.topic] => i = at
    BY SMTT(30), <2>1 DEF SameKey
  <2> QED
    BY <2>2, <2>3 DEF OneOfKey, ToSet
<1> QED
  BY <1>0, <1>2, <1>3, CoalesceCases

Distinct(s) == \A i, j \in DOMAIN s : s[i] = s[j] => i = j

LEMMA ConcatIsDistinct ==
  ASSUME NEW S, NEW s \in Seq(S), NEW t \in Seq(S), Distinct(s), Distinct(t),
         ToSet(s) \cap ToSet(t) = {}
  PROVE  s \o t \in Seq(S) /\ Distinct(s \o t) /\ ToSet(s \o t) = ToSet(s) \cup ToSet(t)
<1> DEFINE u == s \o t
<1>1. /\ u \in Seq(S) /\ Len(u) = Len(s) + Len(t)
      /\ \A i \in 1 .. Len(u) : u[i] = IF i <= Len(s) THEN s[i] ELSE t[i - Len(s)]
  BY ConcatProperties
<1>2. /\ Len(s) \in Nat /\ Len(t) \in Nat /\ DOMAIN u = 1 .. Len(u)
      /\ DOMAIN s = 1 .. Len(s) /\ DOMAIN t = 1 .. Len(t)
  BY <1>1, LenProperties
<1> HIDE DEF u
<1>3. \A i \in DOMAIN u : \/ i \in DOMAIN s /\ u[i] = s[i]
                          \/ i > Len(s) /\ i - Len(s) \in DOMAIN t /\ u[i] = t[i - Len(s)]
  <2> TAKE i \in DOMAIN u
  <2>1. CASE i <= Len(s)
    BY <1>1, <1>2, <2>1
  <2>2. CASE ~(i <= Len(s))
    BY <1>1, <1>2, <2>2
  <2> QED
    BY <2>1, <2>2
<1>4. \A i \in DOMAIN s : i \in DOMAIN u /\ u[i] = s[i]
  BY <1>1, <1>2
<1>5. \A k \in DOMAIN t : k + Len(s) \in DOMAIN u /\ u[k + Len(s)] = t[k]
  <2> TAKE k \in DOMAIN t
  <2>1. k + Len(s) \in 1 .. Len(u) /\ ~(k + Len(s) <= Len(s)) /\ (k + Len(s)) - Len(s) = k
    BY <1>1, <1>2
  <2> QED
    BY <1>1, <1>2, <2>1
<1>6. ToSet(u) = ToSet(s) \cup ToSet(t)
  <2>1. ToSet(u) \subseteq ToSet(s) \cup ToSet(t)
    BY <1>3 DEF ToSet
  <2>2. ToSet(s) \subseteq ToSet(u)
    BY <1>4 DEF ToSet
  <2>3. ToSet(t) \subseteq ToSet(u)
    BY <1>5 DEF ToSet
  <2> QED
    BY <2>1, <2>2, <2>3
<1>7. \A i \in DOMAIN s : \A k \in DOMAIN t : s[i] # t[k]
  BY DEF ToSet
<1>8. Distinct(u)
  <2> SUFFICES ASSUME NEW i \in DOMAIN u, NEW j \in DOMAIN u, u[i] = u[j] PROVE i = j
    BY DEF Distinct
  <2>1. CASE i \in DOMAIN s /\ j \in DOMAIN s
    BY <1>4, <2>1 DEF Distinct
  <2>2. CASE i \notin DOMAIN s /\ j \notin DOMAIN s
    <3>1. /\ i - Len(s) \in DOMAIN t /\ j - Len(s) \in DOMAIN t
          /\ t[i - Len(s)] = t[j - Len(s)]
      BY <1>3, <2>2
    <3>2. i - Len(s) = j - Len(s)
      BY <3>1 DEF Distinct
    <3> QED
      BY <1>1, <1>2, <3>2
  <2>3. CASE i \in DOMAIN s <=> j \notin DOMAIN s
    BY <1>3, <1>4, <1>7, <2>3
  <2> QED
    BY <2>1, <2>2, <2>3
<1> QED
  BY <1>1, <1>6, <1>8 DEF u

-----------------------------------------------------------------------------
(* The HookBus.  What one subscriber hears (Hears) is kept by every put,   *)
(* get and unit of time of its queue; what waited for the first subscriber  *)
(* is folded into a fresh queue, one put after another.                     *)

(* What FoldLeft computes, up to each place of the list.  FoldLeft is a       *)
(* recursive function of the set of places left, of which there is one; the   *)
(* sets 1 .. k are those it comes by.                                        *)
PutAfter(c, f, s, k) == f[k + 1] = PutIn(c, f[k], s[k + 1])

(* The queue the first subscriber starts with. *)
Inherited(c, s) == FoldLeft(LAMBDA q, m : PutIn(c, q, m), FreshQueue, s)

LEMMA GreatestIs ==
  ASSUME NEW P \in SUBSET Int, NEW l \in P, \A k \in P : l >= k
  PROVE  Max(P) = l
<1>1. \A x \in P : (\A y \in P : x >= y) => x = l
  OBVIOUS
<1> QED
  BY <1>1 DEF Max

LEMMA FoldGoesThrough ==
  ASSUME NEW c, NEW n \in Nat, NEW s, DOMAIN s = 1 .. n
  PROVE  \E f : /\ f[0] = FreshQueue /\ \A k \in 0 .. n - 1 : PutAfter(c, f, s, k)
                /\ Inherited(c, s) = f[n]
<1> DEFINE Is(g, k) == g = [P \in SUBSET (1 .. k) |->
                              IF P = {} THEN FreshQueue
                              ELSE PutIn(c, g[P \ {Max(P)}], s[Max(P)])]
           T == {k \in Nat : \E g : Is(g, k)}
<1>1. 0 \in T
  <2> DEFINE g == [P \in SUBSET (1 .. 0) |-> FreshQueue]
  <2>1. \A P \in SUBSET (1 .. 0) : P = {}
    OBVIOUS
  <2>2. Is(g, 0)
    BY <2>1
  <2> HIDE DEF Is, g
  <2> QED
    BY <2>2
<1>2. ASSUME NEW k \in Nat, k \in T PROVE k + 1 \in T
  <2>1. PICK g : Is(g, k)
    BY <1>2
  <2> DEFINE l == k + 1
             h == [P \in SUBSET (1 .. l) |-> IF l \in P THEN PutIn(c, g[P \ {l}], s[l]) ELSE g[P]]
  <2>2. ASSUME NEW P \in SUBSET (1 .. l)
        PROVE  h[P] = IF P = {} THEN FreshQueue ELSE PutIn(c, h[P \ {Max(P)}], s[Max(P)])
    <3>1. CASE l \in P
      <4>1. Max(P) = l
        BY <1>2, <3>1, GreatestIs
      <4>2. P \ {l} \in SUBSET (1 .. l) /\ l \notin P \ {l}
        OBVIOUS
      <4>3. h[P \ {l}] = g[P \ {l}]
        BY <4>2
      <4> QED
        BY <3>1, <4>1, <4>3
    <3>2. CASE l \notin P
      <4>1. P \in SUBSET (1 .. k)
        BY <1>2, <3>2
      <4>2. h[P] = g[P]
        BY <3>2
      <4>3. P \ {Max(P)} \in SUBSET (1 .. l) /\ l \notin P \ {Max(P)}
        BY <3>2
      <4>4. h[P \ {Max(P)}] = g[P \ {Max(P)}]
        BY <4>3
      <4>5. g[P] = IF P = {} THEN FreshQueue ELSE PutIn(c, g[P \ {Max(P)}], s[Max(P)])
        BY <2>1, <4>1
      <4> QED
        BY <4>2, <4>4, <4>5
    <3> QED
      BY <3>1, <3>2
  <2>3. h = [P \in SUBSET (1 .. l) |->
               IF P = {} THEN FreshQueue ELSE PutIn(c, h[P \ {Max(P)}], s[Max(P)])]
    <3>1. h = [P \in SUBSET (1 .. l) |-> h[P]]
      OBVIOUS
    <3> HIDE DEF h
    <3> QED
      BY <2>2, <3>1
  <2> HIDE DEF h
  <2>4. Is(h, l)
    BY <2>3
  <2> HIDE DEF Is
  <2> QED
    BY <1>2, <2>4
<1>3. n \in T
  <2> HIDE DEF T
  <2> QED
    BY <1>1, <1>2, EveryNumber
<1> DEFINE iter == CHOOSE g : Is(g, n)
<1>4. Is(iter, n)
  <2> HIDE DEF Is
  <2> QED
    BY <1>3
<1>5. Inherited(c, s) = iter[1 .. n]
  BY DEF Inherited, FoldLeft, MapThenFoldSet
<1> HIDE DEF iter
<1> DEFINE f == [k \in 0 .. n |-> iter[1 .. k]]
<1>6. f[0] = FreshQueue
  BY <1>4
<1>7. ASSUME NEW k \in 0 .. n - 1 PROVE PutAfter(c, f, s, k)
  <2> DEFINE P == 1 .. k + 1
  <2>1. P \in SUBSET (1 .. n) /\ P # {} /\ P \ {k + 1} = 1 .. k
    OBVIOUS
  <2>3. Max(P) = k + 1
    <3>1. P \in SUBSET Int /\ k + 1 \in P /\ \A j \in P : k + 1 >= j
      OBVIOUS
    <3> HIDE DEF P
    <3> QED
      BY <3>1, GreatestIs
  <2>2. iter[P] = PutIn(c, iter[P \ {Max(P)}], s[Max(P)])
    BY <1>4, <2>1
  <2> HIDE DEF P
  <2>4. f[k] = iter[1 .. k] /\ f[k + 1] = iter[1 .. k + 1]
    OBVIOUS
  <2> QED
    BY <2>1, <2>2, <2>3, <2>4 DEF P, PutAfter
<1>8. f[n] = iter[1 .. n]
  OBVIOUS
<1> QED
  BY <1>5, <1>6, <1>7, <1>8

InTurn(s) == \A i, j \in DOMAIN s : i < j => s[i].n < s[j].n

(* A subscriber of c that has taken `taken` of what it is due, and has queue q. *)
Counted(c, q, taken, due) ==
  ClassOf[c] # "critical" => Len(taken) + Len(q.items) + q.dropped + q.coalesced = Len(due)

Complete(c, q, taken, due) ==
  ClassOf[c] # "important" /\ Len(due) <= QueueSize[ClassOf[c]] =>
    taken \o q.items = due /\ q.retry = <<>>

Hears(c, q, taken, due) ==
  /\ taken \in Seq(QosMessage) /\ due \in Seq(QosMessage)
  /\ Distinct(taken) /\ ToSet(taken) \subseteq ToSet(due)
  /\ Sound(q, ToSet(due) \ ToSet(taken))
  /\ Len(q.items) <= QueueSize[ClassOf[c]]
  /\ Len(q.retry) <= IF ClassOf[c] = "critical" THEN RetryLimit ELSE 0
  /\ ClassOf[c] = "important" => OneOfKey(q)
  /\ Counted(c, q, taken, due) /\ Complete(c, q, taken, due)
  /\ ClassOf[c] = "best_effort" => InTurn(taken \o q.items)

LEMMA ChannelClass ==
  ASSUME NEW c \in Channels
  PROVE  ClassOf[c] \in QosClass /\ QueueSize[ClassOf[c]] \in Nat \ {0}
BY HookAssumption

LEMMA FreshHears ==
  ASSUME NEW c \in Channels
  PROVE  Hears(c, FreshQueue, <<>>, <<>>)
<1>1. /\ FreshQueue.items = <<>> /\ FreshQueue.retry = <<>>
      /\ FreshQueue.dropped = 0 /\ FreshQueue.coalesced = 0
  BY DEF FreshQueue
<1>2. /\ <<>> \in Seq(QosMessage) /\ DOMAIN <<>> = {} /\ Len(<<>>) = 0
      /\ <<>> \o <<>> = <<>> /\ ToSet(<<>>) = {}
  BY EmptySeq, ConcatEmptySeq DEF ToSet
<1>3. Sound(FreshQueue, ToSet(<<>>) \ ToSet(<<>>))
  BY FreshIsSound
<1>4. Distinct(<<>>) /\ InTurn(<<>>) /\ OneOfKey(FreshQueue)
  BY <1>1, <1>2 DEF Distinct, InTurn, OneOfKey
<1>5. Counted(c, FreshQueue, <<>>, <<>>) /\ Complete(c, FreshQueue, <<>>, <<>>)
  BY <1>1, <1>2 DEF Counted, Complete
<1> QED
  BY <1>1, <1>2, <1>3, <1>4, <1>5, ChannelClass, QosAssumption DEF Hears

LEMMA ConcatAppend ==
  ASSUME NEW S, NEW s \in Seq(S), NEW t \in Seq(S), NEW x \in S
  PROVE  s \o Append(t, x) = Append(s \o t, x)
<1>1. <<x>> \in Seq(S) /\ s \o t \in Seq(S)
  BY ConcatProperties
<1>2. Append(t, x) = t \o <<x>> /\ Append(s \o t, x) = (s \o t) \o <<x>>
  BY <1>1, AppendIsConcat
<1> QED
  BY <1>1, <1>2, ConcatAssociative

LEMMA AppendTakesNext ==
  ASSUME NEW S, NEW s \in Seq(S), NEW t \in Seq(S), t # <<>>
  PROVE  Append(s, Head(t)) \o Tail(t) = s \o t
<1>1. Head(t) \in S /\ Tail(t) \in Seq(S)
  BY HeadTailProperties
<1>2. PICK x \in S, r \in Seq(S) : x = Head(t) /\ r = Tail(t)
  BY <1>1
<1>3. <<x>> \in Seq(S) /\ Len(<<x>>) = 1 /\ <<x>>[1] = x
  OBVIOUS
<1>6. /\ t[1] = x /\ Len(t) \in Nat /\ Len(r) \in Nat /\ Len(t) = Len(r) + 1
      /\ \A i \in 1 .. Len(r) : r[i] = t[i + 1]
  BY <1>2, HeadTailProperties, LenProperties
<1>7. PICK b \in Seq(S) : b = <<x>> \o r
  BY <1>3, ConcatProperties
<1>8. Len(b) = 1 + Len(r) /\ \A i \in 1 .. 1 + Len(r) : b[i] = IF i <= 1 THEN x ELSE r[i - 1]
  BY <1>3, <1>6, <1>7, ConcatProperties
<1>9. ASSUME NEW i \in 1 .. Len(t) PROVE b[i] = t[i]
  <2>1. CASE i = 1
    BY <1>6, <1>8, <2>1
  <2>2. CASE i # 1
    <3> DEFINE j == i - 1
    <3>1. j \in 1 .. Len(r) /\ j + 1 = i /\ b[i] = r[j]
      BY <1>6, <1>8, <2>2
    <3> HIDE DEF j
    <3> QED
      BY <1>6, <3>1
  <2> QED
    BY <2>1, <2>2
<1>10. t = b
  BY <1>6, <1>8, <1>9, SeqEqual
<1>4. Append(s, x) = s \o <<x>>
  BY AppendIsConcat
<1>5. (s \o <<x>>) \o r = s \o (<<x>> \o r)
  BY <1>3, ConcatAssociative
<1> QED
  BY <1>2, <1>4, <1>5, <1>7, <1>10

LEMMA AppendedSet ==
  ASSUME NEW S, NEW s \in Seq(S), NEW x \in S
  PROVE  /\ Append(s, x) \in Seq(S) /\ Len(Append(s, x)) = Len(s) + 1 /\ Len(s) \in Nat
         /\ DOMAIN s = 1 .. Len(s) /\ DOMAIN Append(s, x) = 1 .. Len(s) + 1
         /\ Append(s, x)[Len(s) + 1] = x /\ \A i \in DOMAIN s : Append(s, x)[i] = s[i]
         /\ ToSet(Append(s, x)) = ToSet(s) \cup {x}
<1>1. /\ Append(s, x) \in Seq(S) /\ Len(Append(s, x)) = Len(s) + 1 /\ Len(s) \in Nat
      /\ DOMAIN s = 1 .. Len(s) /\ DOMAIN Append(s, x) = 1 .. Len(s) + 1
      /\ Append(s, x)[Len(s) + 1] = x /\ \A i \in DOMAIN s : Append(s, x)[i] = s[i]
  BY AppendProperties, LenProperties
<1>2. PICK a \in Seq(S), n \in Nat : a = Append(s, x) /\ n = Len(s)
  BY <1>1
<1>3. \A i \in DOMAIN a : i \in DOMAIN s \/ i = n + 1
  BY <1>1, <1>2
<1>4. n + 1 \in DOMAIN a /\ \A i \in DOMAIN s : i \in DOMAIN a
  BY <1>1, <1>2
<1>5. ToSet(a) = ToSet(s) \cup {x}
  BY <1>1, <1>2, <1>3, <1>4 DEF ToSet
<1> QED
  BY <1>1, <1>2, <1>5

LEMMA AppendInTurn ==
  ASSUME NEW s \in Seq(QosMessage), InTurn(s), NEW m \in QosMessage,
         \A x \in ToSet(s) : x.n < m.n
  PROVE  InTurn(Append(s, m))
<1>1. PICK a \in Seq(QosMessage), n \in Nat : a = Append(s, m) /\ n = Len(s)
  BY AppendedSet
<1>2. /\ DOMAIN s = 1 .. n /\ DOMAIN a = 1 .. n + 1 /\ a[n + 1] = m
      /\ \A i \in DOMAIN s : a[i] = s[i] /\ s[i] \in ToSet(s)
  BY <1>1, AppendedSet DEF ToSet
<1>3. ASSUME NEW i \in DOMAIN a, NEW j \in DOMAIN a, i < j PROVE a[i].n < a[j].n
  <2>1. i \in DOMAIN s /\ a[i] = s[i]
    BY <1>2, <1>3
  <2>2. CASE j \in DOMAIN s
    BY <1>2, <1>3, <2>1, <2>2 DEF InTurn
  <2>3. CASE j = n + 1
    BY <1>2, <2>1, <2>3
  <2> QED
    BY <1>2, <2>2, <2>3
<1> QED
  BY <1>1, <1>3 DEF InTurn

(* put_nowait() of an event that is later than all before it. *)
LEMMA PutHears ==
  ASSUME NEW c \in Channels, NEW q, NEW taken, NEW due, Hears(c, q, taken, due),
         NEW m \in QosMessage, \A x \in ToSet(due) : x.n < m.n
  PROVE  Hears(c, PutIn(c, q, m), taken, Append(due, m))
<1> DEFINE D == ToSet(due)
           G == ToSet(taken)
           next == Append(due, m)
<1>1. PICK k \in QosClass, size \in Nat \ {0} : k = ClassOf[c] /\ size = QueueSize[k]
  BY ChannelClass
<1>2. PICK p : p = PutIn(c, q, m)
  OBVIOUS
<1>3. p = Put(k, q, m, size)
  BY <1>1, <1>2 DEF PutIn
<1>4. /\ taken \in Seq(QosMessage) /\ due \in Seq(QosMessage) /\ Distinct(taken) /\ G \subseteq D
      /\ Sound(q, D \ G) /\ Len(q.items) <= size
      /\ Len(q.retry) <= IF k = "critical" THEN RetryLimit ELSE 0
      /\ k = "important" => OneOfKey(q)
      /\ Counted(c, q, taken, due) /\ Complete(c, q, taken, due)
      /\ k = "best_effort" => InTurn(taken \o q.items)
  BY <1>1 DEF Hears
<1>5. /\ next \in Seq(QosMessage) /\ Len(next) = Len(due) + 1 /\ Len(due) \in Nat
      /\ ToSet(next) = D \cup {m}
  BY <1>4, AppendedSet
<1>6. m \notin D
  <2>1. D \subseteq QosMessage
    BY <1>4, ElementOfSeq, LenProperties DEF ToSet
  <2> QED
    BY <2>1 DEF QosMessage
<1>7. /\ Sound(p, (D \ G) \cup {m}) /\ Len(p.items) <= size
      /\ Len(p.retry) <= IF k = "critical" THEN RetryLimit ELSE 0
      /\ k # "critical" => Len(p.items) + p.dropped + p.coalesced = Len(q.items) + q.dropped + q.coalesced + 1
  <2>1. PICK C : C = D \ G
    OBVIOUS
  <2>2. /\ Sound(q, C) /\ m \notin C /\ size \in Nat
        /\ k = "important" => OneOfKey(q)
        /\ Len(q.items) <= size
        /\ Len(q.retry) <= IF k = "critical" THEN RetryLimit ELSE 0
    BY <1>4, <1>6, <2>1
  <2>3. LET r == Put(k, q, m, size)
        IN /\ Sound(r, C \cup {m}) /\ Len(r.items) <= size
           /\ Len(r.retry) <= IF k = "critical" THEN RetryLimit ELSE 0
           /\ k # "critical" => Len(r.items) + r.dropped + r.coalesced = Len(q.items) + q.dropped + q.coalesced + 1
    BY <2>2, PutIsSound, ZenonT(60)
  <2> QED
    BY <1>3, <2>1, <2>3
<1>8. Sound(p, ToSet(next) \ G)
  <2>1. ToSet(next) \ G = (D \ G) \cup {m}
    BY <1>4, <1>5, <1>6
  <2> QED
    BY <1>7, <2>1
<1>9. k = "important" => OneOfKey(p)
  <2>1. ASSUME k = "important" PROVE p = EnqueueCoalesce(q, m, size)
    BY <1>3, <2>1 DEF Put
  <2> QED
    BY <1>4, <2>1, CoalesceKeepsKeys DEF Sound
<1>10. /\ q \in QueueContents /\ q.items \in Seq(QosMessage) /\ Len(q.items) \in Nat /\ Len(taken) \in Nat
       /\ q.dropped \in Nat /\ q.coalesced \in Nat
       /\ Len(p.items) \in Nat /\ p.dropped \in Nat /\ p.coalesced \in Nat
  BY <1>4, <1>7, LenProperties DEF Sound, QueueContents
<1>11. Counted(c, p, taken, next)
  <2> SUFFICES ASSUME k # "critical"
               PROVE  Len(taken) + Len(p.items) + p.dropped + p.coalesced = Len(next)
    BY <1>1 DEF Counted
  <2>1. k # "critical"
    OBVIOUS
  <2>2. Len(taken) + Len(q.items) + q.dropped + q.coalesced = Len(due)
    BY <1>1, <1>4 DEF Counted
  <2>3. PICK g \in Nat, i \in Nat, d \in Nat, e \in Nat, j \in Nat, f \in Nat, h \in Nat :
          /\ g = Len(taken) /\ i = Len(q.items) /\ d = q.dropped /\ e = q.coalesced
          /\ j = Len(p.items) /\ f = p.dropped /\ h = p.coalesced
    BY <1>10
  <2>4. PICK l \in Nat : l = Len(due)
    BY <1>5
  <2>5. j + f + h = i + d + e + 1 /\ g + i + d + e = l
    BY <1>7, <2>1, <2>2, <2>3, <2>4
  <2>6. g + j + f + h = l + 1
    BY <2>5
  <2> QED
    BY <1>5, <2>3, <2>4, <2>6
(* With place left, and nothing to replace, it is put behind the others. *)
<1>12. ASSUME k # "important", Len(q.items) < size
       PROVE  p.items = Append(q.items, m) /\ p.retry = q.retry
  <2>1. p = [q EXCEPT !.items = Append(@, m)]
    BY <1>3, <1>12 DEF Put, QosClass, EnqueueCritical, EnqueueDrop
  <2> QED
    BY <1>10, <2>1 DEF QueueContents
<1>13. taken \o Append(q.items, m) = Append(taken \o q.items, m)
  BY SMTT(30), <1>4, <1>10, ConcatAppend
<1>14. Complete(c, p, taken, next)
  <2> SUFFICES ASSUME k # "important", Len(next) <= size
               PROVE  taken \o p.items = next /\ p.retry = <<>>
    BY <1>1 DEF Complete
  <2>1. taken \o q.items = due /\ q.retry = <<>>
    BY <1>1, <1>4, <1>5 DEF Complete
  <2>2. Len(due) = Len(taken) + Len(q.items)
    BY <1>4, <1>10, <2>1, ConcatProperties
  <2>3. Len(q.items) < size
    BY <1>5, <1>10, <2>2
  <2> QED
    BY <1>12, <1>13, <2>1, <2>3
<1>15. ASSUME k = "best_effort" PROVE InTurn(taken \o p.items)
  <2>1. CASE Len(q.items) < size
    <3>1. taken \o q.items \in Seq(QosMessage) /\ ToSet(taken \o q.items) \subseteq D
      <4>1. Distinct(q.items) /\ ToSet(q.items) \subseteq D \ G
        BY <1>4 DEF Sound, Distinct
      <4> QED
        BY <1>4, <1>10, <4>1, ConcatIsDistinct
    <3>2. InTurn(Append(taken \o q.items, m))
      BY <1>4, <1>15, <3>1, AppendInTurn
    <3> QED
      BY <1>12, <1>13, <1>15, <2>1, <3>2
  <2>2. CASE ~(Len(q.items) < size)
    <3>1. p = [q EXCEPT !.dropped = @ + 1]
      BY <1>3, <1>15, <2>2 DEF Put, EnqueueDrop
    <3>2. p.items = q.items
      BY <1>10, <3>1 DEF QueueContents
    <3> QED
      BY <1>4, <1>15, <3>2
  <2> QED
    BY <2>1, <2>2
<1> HIDE DEF D, G, next
<1> QED
  BY <1>1, <1>2, <1>4, <1>5, <1>7, <1>8, <1>9, <1>11, <1>14, <1>15 DEF Hears, G, D, next

(* get(): what the subscriber is given is the next of what it holds, or a   *)
(* CRITICAL event that had been refused.                                    *)
LEMMA GetHears ==
  ASSUME NEW c \in Channels, NEW q, NEW taken, NEW due, Hears(c, q, taken, due), CanGet(q)
  PROVE  Hears(c, AfterGet(q), Append(taken, NextItem(q)), due)
<1>1. PICK k \in QosClass, size \in Nat \ {0} : k = ClassOf[c] /\ size = QueueSize[k]
  BY ChannelClass
<1>2. PICK p, x, g : p = AfterGet(q) /\ x = NextItem(q) /\ g = Append(taken, x)
  OBVIOUS
<1>3. PICK D, G : D = ToSet(due) /\ G = ToSet(taken)
  OBVIOUS
<1>4. /\ taken \in Seq(QosMessage) /\ due \in Seq(QosMessage) /\ Distinct(taken) /\ G \subseteq D
      /\ Sound(q, D \ G) /\ Len(q.items) <= size
      /\ Len(q.retry) <= IF k = "critical" THEN RetryLimit ELSE 0
      /\ k = "important" => OneOfKey(q)
      /\ Counted(c, q, taken, due) /\ Complete(c, q, taken, due)
      /\ k = "best_effort" => InTurn(taken \o q.items)
  BY <1>1, <1>3 DEF Hears
<1>5. /\ q \in QueueContents /\ q.items \in Seq(QosMessage) /\ q.retry \in Seq(RetryEntry)
      /\ Len(q.items) \in Nat /\ Len(q.retry) \in Nat /\ Len(taken) \in Nat /\ Len(due) \in Nat
      /\ q.dropped \in Nat /\ q.coalesced \in Nat
  BY <1>4, LenProperties DEF Sound, QueueContents
<1>6. /\ x \in D \ G /\ Sound(p, (D \ G) \ {x})
      /\ Len(p.items) <= Len(q.items) /\ Len(p.retry) <= Len(q.retry)
  BY <1>2, <1>4, GetIsSound
<1>7. x \in QosMessage
  BY <1>3, <1>4, <1>6, ElementOfSeq, LenProperties DEF ToSet
<1>8. /\ g \in Seq(QosMessage) /\ Len(g) = Len(taken) + 1 /\ ToSet(g) = G \cup {x}
      /\ DOMAIN taken = 1 .. Len(taken) /\ DOMAIN g = 1 .. Len(taken) + 1 /\ g[Len(taken) + 1] = x
      /\ \A i \in DOMAIN taken : g[i] = taken[i]
  BY <1>2, <1>3, <1>4, <1>7, AppendedSet
<1>9. Distinct(g)
  <2>1. \A i \in DOMAIN taken : g[i] # x
    BY <1>3, <1>6, <1>8 DEF ToSet
  <2>2. \A i \in DOMAIN g : i \in DOMAIN taken \/ (i = Len(taken) + 1 /\ g[i] = x)
    BY <1>5, <1>8
  <2> QED
    BY <1>4, <1>8, <2>1, <2>2 DEF Distinct
<1>10. ToSet(g) \subseteq D /\ Sound(p, D \ ToSet(g))
  <2>1. D \ (G \cup {x}) = (D \ G) \ {x}
    OBVIOUS
  <2> QED
    BY <1>4, <1>6, <1>8, <2>1
<1>11. /\ p \in QueueContents /\ p.items \in Seq(QosMessage) /\ Len(p.items) \in Nat /\ Len(p.retry) \in Nat
  BY <1>6, LenProperties DEF Sound, QueueContents
<1>12. /\ Len(p.items) <= size
       /\ Len(p.retry) <= IF k = "critical" THEN RetryLimit ELSE 0
  BY <1>4, <1>5, <1>6, <1>11, QosAssumption
<1>13. /\ k = "important" => OneOfKey(p)
       /\ Counted(c, p, g, due) /\ Complete(c, p, g, due)
       /\ k = "best_effort" => InTurn(g \o p.items)
  <2>1. CASE Due(q) = {}
    <3>1. p = [q EXCEPT !.items = Tail(@)] /\ x = Head(q.items) /\ q.items # <<>>
      BY <1>2, <2>1 DEF AfterGet, NextItem, CanGet
    <3>2. /\ p.items = Tail(q.items) /\ p.retry = q.retry
          /\ p.dropped = q.dropped /\ p.coalesced = q.coalesced
      BY <1>5, <3>1 DEF QueueContents
    <3>3. g \o p.items = taken \o q.items
      BY <1>2, <1>4, <1>5, <3>1, <3>2, AppendTakesNext
    <3>4. /\ DOMAIN q.items = 1 .. Len(q.items) /\ DOMAIN p.items = 1 .. Len(p.items)
          /\ Len(p.items) = Len(q.items) - 1
          /\ \A i \in 1 .. Len(p.items) : p.items[i] = q.items[i + 1]
      BY <1>5, <1>11, <3>1, <3>2, HeadTailProperties, LenProperties
    <3>5. k = "important" => OneOfKey(p)
      <4> SUFFICES ASSUME k = "important", NEW i \in DOMAIN p.items, NEW j \in DOMAIN p.items,
                          KeyOf[p.items[i].topic] = KeyOf[p.items[j].topic], KeyOf[p.items[i].topic] # NoKey
                   PROVE  i = j
        BY DEF OneOfKey
      <4> DEFINE u == i + 1
                 v == j + 1
      <4>1. /\ u \in DOMAIN q.items /\ v \in DOMAIN q.items
            /\ p.items[i] = q.items[u] /\ p.items[j] = q.items[v]
        <5>1. PICK b \in Nat, f \in Nat : b = Len(q.items) /\ f = Len(p.items)
          BY <1>5, <1>11
        <5>2. i \in 1 .. f /\ j \in 1 .. f /\ f = b - 1
          BY <3>4, <5>1
        <5>3. i + 1 \in 1 .. b /\ j + 1 \in 1 .. b
          BY <5>1, <5>2
        <5> QED
          BY <3>4, <5>1, <5>2, <5>3
      <4>2. u = v
        <5> HIDE DEF u, v
        <5> QED
          BY <1>4, <4>1 DEF OneOfKey
      <4> QED
        BY <3>4, <4>2
    <3>6. Counted(c, p, g, due)
      <4> SUFFICES ASSUME k # "critical"
                   PROVE  Len(g) + Len(p.items) + p.dropped + p.coalesced = Len(due)
        BY <1>1 DEF Counted
      <4>1. Len(taken) + Len(q.items) + q.dropped + q.coalesced = Len(due)
        BY <1>1, <1>4 DEF Counted
      <4>2. PICK a \in Nat, b \in Nat, d \in Nat, e \in Nat, f \in Nat :
              a = Len(taken) /\ b = Len(q.items) /\ d = q.dropped /\ e = q.coalesced /\ f = Len(p.items)
        BY <1>5, <1>11
      <4>3. f = b - 1 /\ Len(g) = a + 1
        BY <1>8, <3>4, <4>2
      <4>4. (a + 1) + f + d + e = a + b + d + e
        <5>1. f = b - 1
          BY <4>3
        <5> QED
          BY <5>1
      <4> QED
        BY <3>2, <4>1, <4>2, <4>3, <4>4
    <3> QED
      BY <1>1, <1>4, <3>2, <3>3, <3>5, <3>6 DEF Complete
  <2>2. CASE Due(q) # {}
    <3>1. q.retry # <<>> /\ Len(q.retry) # 0
      BY <1>5, <2>2, EmptySeq, LenProperties DEF Due
    <3>2. k = "critical"
      BY <1>4, <1>5, <3>1
    <3>3. ~(Len(due) <= size)
      BY <1>1, <1>4, <3>1, <3>2 DEF Complete
    <3> QED
      BY <1>1, <3>2, <3>3 DEF Counted, Complete
  <2> QED
    BY <2>1, <2>2
<1> QED
  BY <1>1, <1>2, <1>3, <1>4, <1>8, <1>9, <1>10, <1>12, <1>13 DEF Hears

LEMMA ElapseHears ==
  ASSUME NEW c \in Channels, NEW q, NEW taken, NEW due, Hears(c, q, taken, due)
  PROVE  Hears(c, Elapse(q), taken, due)
<1>1. PICK p, C : p = Elapse(q) /\ C = ToSet(due) \ ToSet(taken)
  OBVIOUS
<1>2. Sound(q, C)
  BY <1>1 DEF Hears
<1>3. Sound(p, C) /\ p.items = q.items /\ Len(p.retry) = Len(q.retry)
  BY <1>1, <1>2, ElapseIsSound
<1>4. p.dropped = q.dropped /\ p.coalesced = q.coalesced
  BY <1>1, <1>2 DEF Sound, QueueContents, Elapse
<1>5. q.retry = <<>> => p.retry = <<>>
  BY <1>2, <1>3, EmptySeq DEF Sound, QueueContents
<1>6. OneOfKey(q) => OneOfKey(p)
  BY <1>3 DEF OneOfKey
<1> QED
  BY <1>1, <1>3, <1>4, <1>5, <1>6 DEF Hears, Counted, Complete

LEMMA DistinctCount ==
  ASSUME NEW S, NEW s \in Seq(S), Distinct(s)
  PROVE  Cardinality(ToSet(s)) = Len(s)
<1>1. PICK n \in Nat : n = Len(s) /\ DOMAIN s = 1 .. n
  BY LenProperties
<1>2. ToSet(s) = {s[i] : i \in 1 .. n}
  BY <1>1 DEF ToSet
<1> DEFINE f == [i \in 1 .. n |-> s[i]]
<1>3. f \in [1 .. n -> ToSet(s)] /\ \A i, j \in 1 .. n : f[i] = f[j] => i = j
  BY <1>1, <1>2 DEF Distinct
<1>4. \A x \in ToSet(s) : \E i \in 1 .. n : f[i] = x
  BY <1>2
<1>5. f \in Bijection(1 .. n, ToSet(s))
  <2> HIDE DEF f
  <2> QED
    BY <1>3, <1>4, Fun_IsBij
<1>6. IsFiniteSet(1 .. n) /\ Cardinality(1 .. n) = n
  BY PositionsAreFinite
<1>7. Cardinality(ToSet(s)) = Cardinality(1 .. n)
  <2> HIDE DEF f
  <2>1. ExistsBijection(1 .. n, ToSet(s))
    BY <1>5 DEF ExistsBijection
  <2>2. PICK U, V : U = 1 .. n /\ V = ToSet(s)
    OBVIOUS
  <2> QED
    BY <1>6, <2>1, <2>2, FS_Bijection
<1> QED
  BY <1>1, <1>6, <1>7

(* What FanOut says of a subscriber. *)
LEMMA HearsIsFanOut ==
  ASSUME NEW c \in Channels, NEW q, NEW taken, NEW due, Hears(c, q, taken, due)
  PROVE  LET own == taken \o q.items
         IN /\ ToSet(own) \subseteq ToSet(due)
            /\ Cardinality(ToSet(own)) = Len(own)
            /\ ClassOf[c] # "critical" => Len(own) + q.dropped + q.coalesced = Len(due)
            /\ ClassOf[c] # "important" /\ Len(due) <= QueueSize[ClassOf[c]] => own = due
            /\ ClassOf[c] = "best_effort" => \A j \in 1 .. Len(own) - 1 : own[j].n < own[j + 1].n
<1>1. PICK own : own = taken \o q.items
  OBVIOUS
<1>2. /\ taken \in Seq(QosMessage) /\ q.items \in Seq(QosMessage)
      /\ Distinct(taken) /\ Distinct(q.items) /\ ToSet(taken) \cap ToSet(q.items) = {}
      /\ ToSet(taken) \subseteq ToSet(due) /\ ToSet(q.items) \subseteq ToSet(due)
  BY DEF Hears, Sound, QueueContents, Distinct
<1>3. own \in Seq(QosMessage) /\ Distinct(own) /\ ToSet(own) = ToSet(taken) \cup ToSet(q.items)
  BY <1>1, <1>2, ConcatIsDistinct
<1>4. Cardinality(ToSet(own)) = Len(own)
  BY <1>3, DistinctCount
<1>5. Len(own) = Len(taken) + Len(q.items) /\ DOMAIN own = 1 .. Len(own) /\ Len(own) \in Nat
  BY <1>1, <1>2, <1>3, ConcatProperties, LenProperties
<1>6. ClassOf[c] # "critical" => Len(own) + q.dropped + q.coalesced = Len(due)
  BY <1>5 DEF Hears, Counted
<1>7. ClassOf[c] # "important" /\ Len(due) <= QueueSize[ClassOf[c]] => own = due
  BY <1>1 DEF Hears, Complete
<1>8. ASSUME ClassOf[c] = "best_effort", NEW j \in 1 .. Len(own) - 1 PROVE own[j].n < own[j + 1].n
  <2>1. InTurn(own)
    BY <1>1, <1>8 DEF Hears
  <2> DEFINE i == j + 1
  <2>2. j \in DOMAIN own /\ i \in DOMAIN own /\ j < i
    BY <1>5
  <2> HIDE DEF i
  <2>3. own[j].n < own[i].n
    BY <2>1, <2>2 DEF InTurn
  <2> QED
    BY <2>3 DEF i
<1>9. ToSet(own) \subseteq ToSet(due)
  BY <1>2, <1>3
<1> QED
  BY <1>1, <1>4, <1>6, <1>7, <1>8, <1>9

Listener == [from : Nat, got : Seq(QosMessage)]

(* The messages of a channel are numbered as they were published. *)
Numbered(s) == \A k \in DOMAIN s : s[k].n = k

(* What waits for the first subscriber is the newest of what was sent. *)
Waits(p, s) ==
  /\ Len(p) <= PendingCap /\ Len(p) <= Len(s)
  /\ \A k \in DOMAIN p : p[k] = s[Len(s) - Len(p) + k]

(* What a subscriber is due that came in when `from` messages were sent. *)
DueFrom(s, from) == SubSeq(s, from + 1, Len(s))

ListenerHears(c, q, h, s) == h.from <= Len(s) /\ Hears(c, q, h.got, DueFrom(s, h.from))

(* Channel c: its subscribers' queues, what waits, what was read and sent. *)
ChannelIs(c, qs, p, h, s) ==
  /\ qs \in Seq(QueueContents) /\ p \in Seq(QosMessage)
  /\ h \in Seq(Listener) /\ s \in Seq(QosMessage)
  /\ Numbered(s) /\ Waits(p, s) /\ (qs # <<>> => p = <<>>)
  /\ Len(h) = Len(qs)
  /\ \A i \in DOMAIN qs : ListenerHears(c, qs[i], h[i], s)

(* The inductive invariant of the bus. *)
BusIInv ==
  /\ bus \in [subs : [Channels -> Seq(QueueContents)], pending : [Channels -> Seq(QosMessage)]]
  /\ sent \in [Channels -> Seq(QosMessage)]
  /\ heard \in [Channels -> Seq(Listener)]
  /\ \A c \in Channels : ChannelIs(c, bus.subs[c], bus.pending[c], heard[c], sent[c])

LEMMA PartOf ==
  ASSUME NEW s \in Seq(QosMessage), NEW i \in Nat, NEW j \in Nat, i <= j, j <= Len(s)
  PROVE  /\ SubSeq(s, i + 1, j) \in Seq(QosMessage) /\ Len(SubSeq(s, i + 1, j)) = j - i
         /\ DOMAIN SubSeq(s, i + 1, j) = 1 .. j - i
         /\ \A k \in 1 .. j - i : SubSeq(s, i + 1, j)[k] = s[i + k]
<1> DEFINE a == i + 1
<1>1. a \in Int /\ j \in Int /\ (a <= j => j - a + 1 = j - i) /\ (~(a <= j) => j - i = 0)
      /\ j - a + 1 = j - i
      /\ \A k \in 1 .. j - i : a + k - 1 = i + k
  OBVIOUS
<1>2. \A k \in a .. j : s[k] \in QosMessage
  <2>1. PICK n \in Nat : n = Len(s)
    BY LenProperties
  <2>2. \A k \in a .. j : k \in 1 .. n
    BY <2>1
  <2> QED
    BY <2>1, <2>2, ElementOfSeq
<1> HIDE DEF a
<1>3. /\ SubSeq(s, a, j) \in Seq(QosMessage)
      /\ Len(SubSeq(s, a, j)) = IF a <= j THEN j - a + 1 ELSE 0
      /\ \A k \in 1 .. j - a + 1 : SubSeq(s, a, j)[k] = s[a + k - 1]
  BY <1>1, <1>2, SubSeqProperties
<1>4. Len(SubSeq(s, a, j)) = j - i
  BY <1>1, <1>3
<1>5. DOMAIN SubSeq(s, a, j) = 1 .. j - i
  BY <1>3, <1>4, LenProperties
<1> QED
  BY <1>1, <1>3, <1>4, <1>5 DEF a

LEMMA OneMoreIsDue ==
  ASSUME NEW s \in Seq(QosMessage), NEW t \in Seq(QosMessage),
         NEW i \in Nat, NEW j \in Nat, i <= j, j < Len(s), j <= Len(t),
         \A k \in 1 .. j : t[k] = s[k], NEW e, e = j + 1
  PROVE  SubSeq(s, i + 1, e) = Append(SubSeq(t, i + 1, j), s[e])
<1>1. PICK n \in Nat, l \in Nat : n = Len(s) /\ l = Len(t) /\ j < n /\ j <= l
  BY LenProperties
<1>11. e \in Nat /\ e <= n /\ i <= e
  BY <1>1
<1>2. PICK d \in Nat : d = j - i /\ e - i = d + 1
  BY <1>1
<1>3. PICK u, v, m : u = SubSeq(s, i + 1, e) /\ v = SubSeq(t, i + 1, j) /\ m = s[e]
  OBVIOUS
<1>4. u \in Seq(QosMessage) /\ Len(u) = d + 1 /\ \A k \in 1 .. d + 1 : u[k] = s[i + k]
  BY <1>11, <1>1, <1>2, <1>3, PartOf
<1>5. v \in Seq(QosMessage) /\ Len(v) = d /\ \A k \in 1 .. d : v[k] = t[i + k]
  <2>2. /\ v \in Seq(QosMessage) /\ Len(v) = j - i
        /\ \A k \in 1 .. j - i : v[k] = t[i + k]
    BY <1>3, PartOf
  <2> QED
    BY <1>2, <2>2
<1>6. m \in QosMessage
  BY <1>11, <1>1, <1>3, ElementOfSeq
<1>7. PICK w \in Seq(QosMessage) : w = Append(v, m)
  BY <1>5, <1>6, AppendProperties
<1>8. Len(w) = d + 1 /\ w[d + 1] = m /\ \A k \in 1 .. d : w[k] = v[k]
  BY <1>5, <1>6, <1>7, AppendProperties
<1>9. ASSUME NEW k \in 1 .. d + 1 PROVE u[k] = w[k]
  <2>1. CASE k = d + 1
    <3>1. i + k = e
      BY <1>1, <1>2, <2>1
    <3> QED
      BY <1>3, <1>4, <1>8, <2>1, <3>1
  <2>2. CASE k # d + 1
    <3>1. k \in 1 .. d /\ i + k \in 1 .. j
      BY <1>2, <2>2
    <3> QED
      BY <1>4, <1>5, <1>8, <3>1
  <2> QED
    BY <2>1, <2>2
<1>10. u = w
  BY <1>4, <1>7, <1>8, <1>9, SeqEqual
<1> QED
  BY <1>3, <1>7, <1>10

(* What the first subscriber of a channel is left with: what waited for it *)
(* went through its queue like anything that is published.                 *)
LEMMA FoldHears ==
  ASSUME NEW c \in Channels, NEW s \in Seq(QosMessage), InTurn(s)
  PROVE  Hears(c, Inherited(c, s), <<>>, s)
<1>1. PICK n \in Nat : n = Len(s) /\ DOMAIN s = 1 .. n
  BY LenProperties
<1>2. PICK f : /\ f[0] = FreshQueue /\ \A k \in 0 .. n - 1 : PutAfter(c, f, s, k)
               /\ Inherited(c, s) = f[n]
  BY <1>1, FoldGoesThrough, ZenonT(60)
<1> DEFINE T == {k \in Nat : k <= n => Hears(c, f[k], <<>>, SubSeq(s, 1, k))}
<1>3. 0 \in T
  <2>1. SubSeq(s, 1, 0) = <<>>
    BY SubSeqEmpty
  <2> QED
    BY <1>2, <2>1, FreshHears
<1>4. ASSUME NEW k \in Nat, k \in T PROVE k + 1 \in T
  <2> SUFFICES ASSUME k + 1 <= n PROVE Hears(c, f[k + 1], <<>>, SubSeq(s, 1, k + 1))
    OBVIOUS
  <2>1. Hears(c, f[k], <<>>, SubSeq(s, 1, k))
    BY <1>4
  <2>2. f[k + 1] = PutIn(c, f[k], s[k + 1])
    <3>1. k \in 0 .. n - 1
      OBVIOUS
    <3> QED
      BY <1>2, <3>1 DEF PutAfter
  <2>3. PICK m, t : m = s[k + 1] /\ t = SubSeq(s, 1, k)
    OBVIOUS
  <2>6. m \in QosMessage
    <3>1. k + 1 \in 1 .. Len(s)
      BY <1>1
    <3> QED
      BY <2>3, <3>1, ElementOfSeq
  <2>4. SubSeq(s, 1, k + 1) = Append(t, m)
    <3>1. SubSeq(s, 0 + 1, k + 1) = Append(SubSeq(s, 0 + 1, k), s[k + 1])
      BY <1>1, OneMoreIsDue
    <3> QED
      BY <2>3, <3>1
  <2>5. \A x \in ToSet(t) : x.n < m.n
    <3>1. /\ SubSeq(s, 0 + 1, k) \in Seq(QosMessage) /\ DOMAIN SubSeq(s, 0 + 1, k) = 1 .. k - 0
          /\ \A l \in 1 .. k - 0 : SubSeq(s, 0 + 1, k)[l] = s[0 + l]
      BY <1>1, PartOf
    <3>2. DOMAIN t = 1 .. k /\ \A l \in 1 .. k : t[l] = s[l]
      BY <2>3, <3>1
    <3>3. \A l \in 1 .. k : s[l].n < s[k + 1].n
      BY <1>1 DEF InTurn
    <3> QED
      BY <2>3, <3>2, <3>3 DEF ToSet
  <2> QED
    BY <2>1, <2>2, <2>3, <2>4, <2>5, <2>6, PutHears
<1>5. n \in T
  <2> HIDE DEF T
  <2> QED
    BY <1>3, <1>4, EveryNumber
<1>6. SubSeq(s, 1, n) = s
  BY <1>1, SubSeqFull
<1>7. Hears(c, f[n], <<>>, SubSeq(s, 1, n))
  BY <1>5
<1> QED
  BY <1>2, <1>6, <1>7

(* One more queue, or one changed, leaves queues. *)
LEMMA SequenceOf ==
  ASSUME NEW S, NEW s \in Seq(S), NEW t, DOMAIN t = DOMAIN s, t = [i \in DOMAIN s |-> t[i]],
         \A i \in DOMAIN s : t[i] \in S
  PROVE  t \in Seq(S) /\ Len(t) = Len(s)
<1>1. PICK n \in Nat : n = Len(s) /\ DOMAIN s = 1 .. n
  BY LenProperties
<1>2. t \in [1 .. n -> S]
  BY <1>1
<1> QED
  BY <1>1, <1>2, SeqDef, LenProperties

LEMMA NumbersGrow ==
  ASSUME NEW s \in Seq(QosMessage), Numbered(s), NEW m \in QosMessage, m.n = Len(s) + 1
  PROVE  /\ Append(s, m) \in Seq(QosMessage) /\ Numbered(Append(s, m))
         /\ Len(Append(s, m)) = Len(s) + 1 /\ Len(s) \in Nat
<1>1. PICK a \in Seq(QosMessage), n \in Nat : a = Append(s, m) /\ n = Len(s)
  BY AppendedSet
<1>2. /\ a \in Seq(QosMessage) /\ Len(a) = n + 1 /\ DOMAIN s = 1 .. n /\ DOMAIN a = 1 .. n + 1
      /\ a[n + 1] = m /\ \A i \in DOMAIN s : a[i] = s[i]
  BY <1>1, AppendedSet
<1>3. Numbered(a)
  BY <1>1, <1>2 DEF Numbered
<1> QED
  BY <1>1, <1>2, <1>3

(* What a subscriber is due is numbered behind what came before it. *)
LEMMA DueNumbers ==
  ASSUME NEW s \in Seq(QosMessage), Numbered(s), NEW n \in Nat, n = Len(s),
         NEW from \in Nat, from <= n
  PROVE  /\ DueFrom(s, from) \in Seq(QosMessage) /\ DOMAIN DueFrom(s, from) = 1 .. n - from
         /\ Len(DueFrom(s, from)) = n - from
         /\ \A k \in 1 .. n - from : DueFrom(s, from)[k] = s[from + k] /\ s[from + k].n = from + k
         /\ InTurn(DueFrom(s, from))
<1>1. PICK d : d = DueFrom(s, from)
  OBVIOUS
<1>2. /\ d \in Seq(QosMessage) /\ DOMAIN d = 1 .. n - from /\ Len(d) = n - from
      /\ \A k \in 1 .. n - from : d[k] = s[from + k]
  BY <1>1, PartOf DEF DueFrom
<1>3. ASSUME NEW k \in 1 .. n - from PROVE d[k].n = from + k /\ s[from + k].n = from + k
  <2>1. from + k \in DOMAIN s
    BY LenProperties
  <2> QED
    BY <1>2, <2>1 DEF Numbered
<1>4. InTurn(d)
  BY <1>2, <1>3 DEF InTurn
<1> QED
  BY <1>1, <1>2, <1>3, <1>4

LEMMA NewListener ==
  ASSUME NEW c \in Channels, NEW qs, NEW p, NEW h, NEW s, ChannelIs(c, qs, p, h, s)
  PROVE  ChannelIs(c, Append(qs, Inherited(c, p)), <<>>,
                   Append(h, [from |-> Len(s) - Len(p), got |-> <<>>]), s)
<1>1. /\ qs \in Seq(QueueContents) /\ p \in Seq(QosMessage)
      /\ h \in Seq(Listener) /\ s \in Seq(QosMessage) /\ Numbered(s) /\ Waits(p, s)
      /\ Len(h) = Len(qs) /\ \A i \in DOMAIN qs : ListenerHears(c, qs[i], h[i], s)
  BY DEF ChannelIs
<1>2. PICK n \in Nat, w \in Nat : n = Len(s) /\ w = Len(p) /\ DOMAIN p = 1 .. w /\ DOMAIN s = 1 .. n
  BY <1>1, LenProperties
<1>3. PICK from \in Nat : from = n - w /\ from <= n /\ n - from = w
  <2>1. w <= n
    BY <1>1, <1>2 DEF Waits
  <2> QED
    BY <2>1
<1>4. DueFrom(s, from) = p
  <2>1. PICK d : d = DueFrom(s, from)
    OBVIOUS
  <2>2. d \in Seq(QosMessage) /\ Len(d) = w /\ \A k \in 1 .. w : d[k] = s[from + k]
    <3>1. /\ s \in Seq(QosMessage) /\ Numbered(s) /\ n \in Nat /\ n = Len(s)
          /\ from \in Nat /\ from <= n
      BY <1>1, <1>2, <1>3
    <3>2. /\ d \in Seq(QosMessage) /\ Len(d) = n - from
          /\ \A k \in 1 .. n - from : d[k] = s[from + k]
      BY <2>1, <3>1, DueNumbers, Zenon
    <3> QED
      BY <1>3, <3>2
  <2>3. \A k \in 1 .. w : p[k] = s[from + k]
    BY <1>1, <1>2, <1>3 DEF Waits
  <2>4. d = p
    BY <1>1, <1>2, <2>2, <2>3, SeqEqual
  <2> QED
    BY <2>1, <2>4
<1>5. InTurn(p)
  <2>1. /\ s \in Seq(QosMessage) /\ Numbered(s) /\ n \in Nat /\ n = Len(s)
        /\ from \in Nat /\ from <= n
    BY <1>1, <1>2, <1>3
  <2> QED
    BY <1>4, <2>1, DueNumbers, Zenon
<1>6. PICK q, l : q = Inherited(c, p) /\ l = [from |-> from, got |-> <<>>]
  OBVIOUS
<1>7. Hears(c, q, <<>>, p)
  BY <1>1, <1>5, <1>6, FoldHears
<1>8. ListenerHears(c, q, l, s)
  BY <1>2, <1>3, <1>4, <1>6, <1>7 DEF ListenerHears
<1>9. q \in QueueContents /\ l \in Listener
  BY <1>6, <1>7 DEF Hears, Sound, Listener
<1>10. PICK qs2, h2 : qs2 = Append(qs, q) /\ h2 = Append(h, l)
  OBVIOUS
<1>11. PICK a \in Nat : a = Len(qs) /\ a = Len(h)
  BY <1>1, LenProperties
<1>12. /\ qs2 \in Seq(QueueContents) /\ h2 \in Seq(Listener) /\ Len(qs2) = Len(h2)
       /\ DOMAIN qs = 1 .. a /\ DOMAIN h = 1 .. a /\ DOMAIN qs2 = 1 .. a + 1
       /\ qs2[a + 1] = q /\ h2[a + 1] = l
       /\ \A i \in 1 .. a : qs2[i] = qs[i] /\ h2[i] = h[i]
  BY <1>1, <1>9, <1>10, <1>11, AppendedSet
<1>13. \A i \in DOMAIN qs2 : ListenerHears(c, qs2[i], h2[i], s)
  BY <1>1, <1>8, <1>12
<1>14. <<>> \in Seq(QosMessage) /\ Len(<<>>) = 0 /\ DOMAIN <<>> = {} /\ Waits(<<>>, s)
  BY <1>2, EmptySeq, HookAssumption DEF Waits
<1>15. ChannelIs(c, qs2, <<>>, h2, s)
  BY <1>1, <1>12, <1>13, <1>14 DEF ChannelIs
<1> QED
  BY <1>2, <1>3, <1>6, <1>10, <1>15

(* An event that nobody listens for: the newest of them wait. *)
LEMMA EventWaits ==
  ASSUME NEW c \in Channels, NEW p, NEW h, NEW s, ChannelIs(c, <<>>, p, h, s),
         NEW m \in QosMessage, m.n = Len(s) + 1
  PROVE  ChannelIs(c, <<>>, Newest(Append(p, m), PendingCap), h, Append(s, m))
<1>1. /\ <<>> \in Seq(QueueContents) /\ p \in Seq(QosMessage)
      /\ h \in Seq(Listener) /\ s \in Seq(QosMessage) /\ Numbered(s) /\ Waits(p, s)
      /\ Len(h) = Len(<<>>) /\ DOMAIN <<>> = {}
  BY DEF ChannelIs
<1>2. PICK n \in Nat, w \in Nat : n = Len(s) /\ w = Len(p) /\ DOMAIN p = 1 .. w /\ DOMAIN s = 1 .. n
  BY <1>1, LenProperties
<1>3. PICK b, t : b = Append(p, m) /\ t = Append(s, m)
  OBVIOUS
<1>4. /\ b \in Seq(QosMessage) /\ Len(b) = w + 1 /\ b[w + 1] = m /\ \A k \in 1 .. w : b[k] = p[k]
      /\ DOMAIN b = 1 .. w + 1
  BY <1>1, <1>2, <1>3, AppendedSet
<1>5. /\ t \in Seq(QosMessage) /\ Numbered(t) /\ Len(t) = n + 1 /\ t[n + 1] = m
      /\ \A k \in 1 .. n : t[k] = s[k]
  BY <1>1, <1>2, <1>3, AppendedSet, NumbersGrow
<1>6. w <= n /\ w <= PendingCap /\ PendingCap \in Nat \ {0} /\ \A k \in 1 .. w : p[k] = s[(n - w) + k]
  BY <1>1, <1>2, HookAssumption DEF Waits
<1>7. ASSUME NEW k \in 1 .. w + 1 PROVE b[k] = t[(n - w) + k]
  <2>1. CASE k = w + 1
    <3>1. (n - w) + k = n + 1
      BY <2>1
    <3> QED
      BY <1>4, <1>5, <2>1, <3>1
  <2>2. CASE k # w + 1
    <3>1. k \in 1 .. w /\ (n - w) + k \in 1 .. n
      BY <1>6, <2>2
    <3> QED
      BY <1>4, <1>5, <1>6, <3>1
  <2> QED
    BY <2>1, <2>2
<1>8. PICK i \in Nat : i = (IF w + 1 > PendingCap THEN (w + 1) - PendingCap ELSE 0)
  BY <1>6
<1>9. PICK u : u = SubSeq(b, i + 1, w + 1)
  OBVIOUS
<1>10. Newest(b, PendingCap) = u
  <2>1. (IF w + 1 > PendingCap THEN w + 1 - PendingCap + 1 ELSE 1) = i + 1
    BY <1>6, <1>8
  <2>2. Newest(b, PendingCap) = SubSeq(b, IF w + 1 > PendingCap THEN w + 1 - PendingCap + 1 ELSE 1, w + 1)
    BY <1>4, <1>6 DEF Newest
  <2> QED
    BY <1>9, <2>1, <2>2
<1>11. PICK l \in Nat : l = (w + 1) - i /\ l <= PendingCap /\ l <= n + 1 /\ i <= w + 1
  BY SMTT(30), <1>6, <1>8
<1>12. u \in Seq(QosMessage) /\ Len(u) = l /\ DOMAIN u = 1 .. l /\ \A k \in 1 .. l : u[k] = b[i + k]
  <2>1. PICK e \in Nat : e = w + 1
    OBVIOUS
  <2>2. b \in Seq(QosMessage) /\ i <= e /\ e <= Len(b)
    BY <1>4, <1>11, <2>1
  <2>3. /\ SubSeq(b, i + 1, e) \in Seq(QosMessage) /\ Len(SubSeq(b, i + 1, e)) = e - i
        /\ DOMAIN SubSeq(b, i + 1, e) = 1 .. e - i
        /\ \A k \in 1 .. e - i : SubSeq(b, i + 1, e)[k] = b[i + k]
    BY <2>2, PartOf
  <2>4. u = SubSeq(b, i + 1, e) /\ l = e - i
    BY <1>9, <1>11, <2>1
  <2> QED
    BY <2>3, <2>4
<1>13. ASSUME NEW k \in 1 .. l PROVE u[k] = t[((n + 1) - l) + k]
  <2>1. i + k \in 1 .. w + 1
    BY SMTT(30), <1>11
  <2>2. (n - w) + (i + k) = ((n + 1) - l) + k
    <3>1. l \in Nat /\ k \in 1 .. l
      OBVIOUS
    <3>2. PICK j \in Nat : j = k
      BY <3>1
    <3>3. l = (w + 1) - i
      BY <1>11
    <3>4. (n - w) + (i + j) = ((n + 1) - l) + j
      BY SMTT(30), <3>3
    <3> QED
      BY <3>2, <3>4
  <2> QED
    BY <1>7, <1>12, <2>1, <2>2
<1>14. Waits(u, t)
  BY <1>5, <1>11, <1>12, <1>13 DEF Waits
<1>15. ChannelIs(c, <<>>, u, h, t)
  BY <1>1, <1>5, <1>12, <1>14 DEF ChannelIs
<1> QED
  BY <1>3, <1>10, <1>15

LEMMA EventIsHeard ==
  ASSUME NEW c \in Channels, NEW qs, NEW p, NEW h, NEW s, ChannelIs(c, qs, p, h, s), qs # <<>>,
         NEW m \in QosMessage, m.n = Len(s) + 1
  PROVE  ChannelIs(c, [i \in DOMAIN qs |-> PutIn(c, qs[i], m)], p, h, Append(s, m))
<1>1. /\ qs \in Seq(QueueContents) /\ p = <<>> /\ p \in Seq(QosMessage)
      /\ h \in Seq(Listener) /\ s \in Seq(QosMessage) /\ Numbered(s)
      /\ Len(h) = Len(qs) /\ \A i \in DOMAIN qs : ListenerHears(c, qs[i], h[i], s)
  BY DEF ChannelIs
<1>2. PICK n \in Nat : n = Len(s)
  BY <1>1, LenProperties
<1>3. PICK t, qs2 : t = Append(s, m) /\ qs2 = [i \in DOMAIN qs |-> PutIn(c, qs[i], m)]
  OBVIOUS
<1>4. /\ t \in Seq(QosMessage) /\ Numbered(t) /\ Len(t) = n + 1 /\ t[n + 1] = m
      /\ \A k \in 1 .. n : t[k] = s[k]
  BY <1>1, <1>2, <1>3, AppendProperties, NumbersGrow
<1>5. ASSUME NEW i \in DOMAIN qs
      PROVE  ListenerHears(c, qs2[i], h[i], t) /\ qs2[i] \in QueueContents
  <2>1. PICK from \in Nat : from = h[i].from
    <3>1. i \in 1 .. Len(h)
      BY <1>1, LenProperties
    <3>2. h[i] \in Listener
      BY <1>1, <3>1, ElementOfSeq
    <3> QED
      BY <3>2 DEF Listener
  <2>11. PICK got2, q : got2 = h[i].got /\ q = qs[i]
    OBVIOUS
  <2>2. PICK d : d = DueFrom(s, from)
    OBVIOUS
  <2>3. from <= n /\ Hears(c, q, got2, d)
    BY <1>1, <1>2, <2>1, <2>11, <2>2 DEF ListenerHears
  <2>4. d \in Seq(QosMessage) /\ DOMAIN d = 1 .. n - from
        /\ \A k \in 1 .. n - from : d[k] = s[from + k] /\ s[from + k].n = from + k
    <3>1. /\ s \in Seq(QosMessage) /\ Numbered(s) /\ n \in Nat /\ n = Len(s)
          /\ from \in Nat /\ from <= n
      BY <1>1, <1>2, <2>3
    <3> QED
      BY <2>2, <3>1, DueNumbers, ZenonT(60)
  <2>5. \A x \in ToSet(d) : x.n < m.n
    BY <1>2, <2>4 DEF ToSet
  <2>6. Hears(c, PutIn(c, q, m), got2, Append(d, m))
    BY <2>3, <2>5, PutHears
  <2>7. DueFrom(t, from) = Append(d, m)
    <3>1. /\ t \in Seq(QosMessage) /\ s \in Seq(QosMessage) /\ from \in Nat /\ n \in Nat
          /\ from <= n /\ n < Len(t) /\ n <= Len(s) /\ \A k \in 1 .. n : s[k] = t[k]
      BY <1>1, <1>2, <1>4, <2>3
    <3>2. PICK e : e = n + 1
      OBVIOUS
    <3>3. SubSeq(t, from + 1, e) = Append(SubSeq(s, from + 1, n), t[e])
      BY <3>1, <3>2, OneMoreIsDue
    <3> QED
      BY <1>2, <1>4, <2>2, <3>2, <3>3 DEF DueFrom
  <2>8. qs2[i] = PutIn(c, q, m)
    BY <1>3, <2>11
  <2>9. from <= Len(t)
    BY <1>4, <2>3
  <2>10. qs2[i] \in QueueContents
    BY <2>6, <2>8 DEF Hears, Sound
  <2> QED
    BY <2>1, <2>11, <2>6, <2>7, <2>8, <2>9, <2>10 DEF ListenerHears
<1>6. qs2 \in Seq(QueueContents) /\ Len(qs2) = Len(qs)
  BY <1>1, <1>3, <1>5, SequenceOf
<1>7. DOMAIN qs2 = DOMAIN qs
  BY <1>3
<1>8. Waits(p, t)
  <2>1. Len(p) = 0 /\ DOMAIN p = {}
    BY <1>1
  <2> QED
    BY <1>4, <2>1, HookAssumption DEF Waits
<1>9. ChannelIs(c, qs2, p, h, t)
  BY <1>1, <1>4, <1>5, <1>6, <1>7, <1>8 DEF ChannelIs
<1> QED
  BY <1>3, <1>9

LEMMA EventIsRead ==
  ASSUME NEW c \in Channels, NEW qs, NEW p, NEW h, NEW s, ChannelIs(c, qs, p, h, s),
         NEW i \in DOMAIN qs, CanGet(qs[i])
  PROVE  ChannelIs(c, [qs EXCEPT ![i] = AfterGet(qs[i])], p,
                   [h EXCEPT ![i] = [h[i] EXCEPT !.got = Append(h[i].got, NextItem(qs[i]))]], s)
<1>1. /\ qs \in Seq(QueueContents) /\ p \in Seq(QosMessage)
      /\ h \in Seq(Listener) /\ s \in Seq(QosMessage) /\ Numbered(s) /\ Waits(p, s)
      /\ (qs # <<>> => p = <<>>)
      /\ Len(h) = Len(qs) /\ \A j \in DOMAIN qs : ListenerHears(c, qs[j], h[j], s)
  BY DEF ChannelIs
<1>2. PICK n \in Nat : n = Len(qs) /\ DOMAIN qs = 1 .. n /\ n = Len(h) /\ DOMAIN h = 1 .. n
  BY <1>1, LenProperties
<1>3. PICK q, l, q2, l2 : /\ q = qs[i] /\ l = h[i] /\ q2 = AfterGet(q)
                          /\ l2 = [l EXCEPT !.got = Append(l.got, NextItem(q))]
  OBVIOUS
<1>4. PICK qs2, h2 : qs2 = [qs EXCEPT ![i] = q2] /\ h2 = [h EXCEPT ![i] = l2]
  OBVIOUS
<1>5. l \in Listener
  BY <1>1, <1>2, <1>3, ElementOfSeq
<1>6. /\ l.from \in Nat /\ l.got \in Seq(QosMessage)
      /\ l2 = [from |-> l.from, got |-> Append(l.got, NextItem(q))]
  BY <1>3, <1>5 DEF Listener
<1>7. l.from <= Len(s) /\ Hears(c, q, l.got, DueFrom(s, l.from)) /\ CanGet(q)
  BY <1>1, <1>3 DEF ListenerHears
<1>8. Hears(c, q2, Append(l.got, NextItem(q)), DueFrom(s, l.from))
  <2>1. PICK a, d : a = l.got /\ d = DueFrom(s, l.from)
    OBVIOUS
  <2>2. Hears(c, q, a, d) /\ CanGet(q)
    BY <1>7, <2>1
  <2>3. Hears(c, AfterGet(q), Append(a, NextItem(q)), d)
    BY <2>2, GetHears, Zenon
  <2> QED
    BY <1>3, <2>1, <2>3
<1>9. ListenerHears(c, q2, l2, s) /\ q2 \in QueueContents /\ l2 \in Listener
  <2>1. q2 \in QueueContents /\ Append(l.got, NextItem(q)) \in Seq(QosMessage)
    BY <1>8 DEF Hears, Sound
  <2> QED
    BY <1>6, <1>7, <1>8, <2>1 DEF ListenerHears, Listener
<1>10. /\ qs2 \in [1 .. n -> QueueContents] /\ h2 \in [1 .. n -> Listener]
       /\ qs2[i] = q2 /\ h2[i] = l2
       /\ \A j \in 1 .. n : j # i => qs2[j] = qs[j] /\ h2[j] = h[j]
  BY <1>1, <1>2, <1>4, <1>9, ElementOfSeq
<1>11. /\ qs2 \in Seq(QueueContents) /\ h2 \in Seq(Listener)
       /\ Len(qs2) = n /\ Len(h2) = n /\ DOMAIN qs2 = 1 .. n
  BY <1>10, SeqDef, LenProperties
<1>12. \A j \in DOMAIN qs2 : ListenerHears(c, qs2[j], h2[j], s)
  BY <1>1, <1>2, <1>9, <1>10, <1>11
<1>13. qs # <<>>
  BY <1>2, EmptySeq
<1>14. ChannelIs(c, qs2, p, h2, s)
  BY <1>1, <1>11, <1>12, <1>13 DEF ChannelIs
<1> QED
  BY <1>3, <1>4, <1>14

LEMMA TimeIsHeard ==
  ASSUME NEW c \in Channels, NEW qs, NEW p, NEW h, NEW s, ChannelIs(c, qs, p, h, s),
         NEW t, t = [j \in DOMAIN qs |-> Elapse(qs[j])]
  PROVE  ChannelIs(c, t, p, h, s)
<1>1. /\ qs \in Seq(QueueContents) /\ p \in Seq(QosMessage)
      /\ h \in Seq(Listener) /\ s \in Seq(QosMessage) /\ Numbered(s) /\ Waits(p, s)
      /\ (qs # <<>> => p = <<>>)
      /\ Len(h) = Len(qs) /\ \A j \in DOMAIN qs : ListenerHears(c, qs[j], h[j], s)
  BY DEF ChannelIs
<1>3. ASSUME NEW i \in DOMAIN qs PROVE ListenerHears(c, t[i], h[i], s) /\ t[i] \in QueueContents
  <2>1. PICK q, a, d : q = qs[i] /\ a = h[i].got /\ d = DueFrom(s, h[i].from)
    OBVIOUS
  <2>2. Hears(c, q, a, d)
    BY <1>1, <2>1 DEF ListenerHears
  <2>3. Hears(c, t[i], a, d)
    BY <2>1, <2>2, ElapseHears
  <2>4. t[i] \in QueueContents
    BY <2>3 DEF Hears, Sound
  <2> QED
    BY <1>1, <2>1, <2>3, <2>4 DEF ListenerHears
<1>4. DOMAIN t = DOMAIN qs
  OBVIOUS
<1>5. t \in Seq(QueueContents) /\ Len(t) = Len(qs)
  BY <1>1, <1>3, <1>4, SequenceOf
<1>6. t # <<>> => qs # <<>>
  BY <1>4, <1>5, <1>1, EmptySeq, LenProperties
<1>7. \A i \in DOMAIN t : ListenerHears(c, t[i], h[i], s)
  BY <1>3, <1>4
<1>8. ChannelIs(c, t, p, h, s)
  BY <1>1, <1>5, <1>6, <1>7 DEF ChannelIs
<1> QED
  BY <1>8

LEMMA HookInitInvariant == HookInit => BusIInv
<1> SUFFICES ASSUME HookInit PROVE BusIInv
  OBVIOUS
<1>1. /\ <<>> \in Seq(QueueContents) /\ <<>> \in Seq(QosMessage) /\ <<>> \in Seq(Listener)
      /\ Len(<<>>) = 0 /\ DOMAIN <<>> = {}
  BY EmptySeq
<1>2. /\ bus = [subs |-> [c \in Channels |-> <<>>], pending |-> [c \in Channels |-> <<>>]]
      /\ sent = [c \in Channels |-> <<>>] /\ heard = [c \in Channels |-> <<>>]
  BY DEF HookInit, EmptyBus
<1>3. PendingCap \in Nat
  BY HookAssumption
<1>4. ASSUME NEW c \in Channels PROVE ChannelIs(c, <<>>, <<>>, <<>>, <<>>)
  BY <1>1, <1>3 DEF ChannelIs, Numbered, Waits
<1> QED
  BY <1>1, <1>2, <1>4 DEF BusIInv

(* A step of one channel. *)
LEMMA OneChannel ==
  ASSUME BusIInv, NEW c \in Channels, NEW qs, NEW p, NEW h, NEW s, ChannelIs(c, qs, p, h, s),
         bus' = [subs |-> [bus.subs EXCEPT ![c] = qs], pending |-> [bus.pending EXCEPT ![c] = p]],
         sent' = [sent EXCEPT ![c] = s], heard' = [heard EXCEPT ![c] = h]
  PROVE  BusIInv'
<1>1. /\ qs \in Seq(QueueContents) /\ p \in Seq(QosMessage)
      /\ h \in Seq(Listener) /\ s \in Seq(QosMessage)
  BY DEF ChannelIs
<1>2. /\ bus.subs \in [Channels -> Seq(QueueContents)] /\ bus.pending \in [Channels -> Seq(QosMessage)]
      /\ sent \in [Channels -> Seq(QosMessage)] /\ heard \in [Channels -> Seq(Listener)]
      /\ \A d \in Channels : ChannelIs(d, bus.subs[d], bus.pending[d], heard[d], sent[d])
  BY DEF BusIInv
<1>3. bus'.subs = [bus.subs EXCEPT ![c] = qs] /\ bus'.pending = [bus.pending EXCEPT ![c] = p]
  OBVIOUS
<1>4. ASSUME NEW d \in Channels PROVE ChannelIs(d, bus'.subs[d], bus'.pending[d], heard'[d], sent'[d])
  <2>1. CASE d = c
    BY <1>2, <1>3, <2>1
  <2>2. CASE d # c
    BY <1>2, <1>3, <2>2
  <2> QED
    BY <2>1, <2>2
<1>5. /\ bus' \in [subs : [Channels -> Seq(QueueContents)], pending : [Channels -> Seq(QosMessage)]]
      /\ sent' \in [Channels -> Seq(QosMessage)] /\ heard' \in [Channels -> Seq(Listener)]
  BY <1>1, <1>2
<1> QED
  BY <1>4, <1>5 DEF BusIInv

LEMMA BusIs ==
  ASSUME BusIInv
  PROVE  /\ bus = [subs |-> bus.subs, pending |-> bus.pending]
         /\ bus.subs \in [Channels -> Seq(QueueContents)] /\ bus.pending \in [Channels -> Seq(QosMessage)]
         /\ sent \in [Channels -> Seq(QosMessage)] /\ heard \in [Channels -> Seq(Listener)]
         /\ \A c \in Channels : ChannelIs(c, bus.subs[c], bus.pending[c], heard[c], sent[c])
BY DEF BusIInv

LEMMA RegisterInvariant ==
  ASSUME BusIInv, NEW c \in Channels, Register(c)
  PROVE  BusIInv'
<1>1. PICK qs, p, h, s : qs = bus.subs[c] /\ p = bus.pending[c] /\ h = heard[c] /\ s = sent[c]
  OBVIOUS
<1>2. ChannelIs(c, qs, p, h, s)
  BY <1>1, BusIs
<1>3. PICK qs2, h2 : /\ qs2 = Append(qs, Inherited(c, p))
                     /\ h2 = Append(h, [from |-> Len(s) - Len(p), got |-> <<>>])
  OBVIOUS
<1>4. ChannelIs(c, qs2, <<>>, h2, s)
  BY <1>2, <1>3, NewListener
<1>5. Registered(bus, c) = [bus EXCEPT !.subs[c] = Append(@, Inherited(c, bus.pending[c])), !.pending[c] = <<>>]
  BY DEF Registered, Inherited
<1>6. bus' = [subs |-> [bus.subs EXCEPT ![c] = qs2], pending |-> [bus.pending EXCEPT ![c] = <<>>]]
  BY <1>1, <1>3, <1>5, BusIs DEF Register
<1>7. heard' = [heard EXCEPT ![c] = h2] /\ sent' = [sent EXCEPT ![c] = s]
  BY <1>1, <1>3, BusIs DEF Register
<1> QED
  BY <1>4, <1>6, <1>7, OneChannel

LEMMA PublishInvariant ==
  ASSUME BusIInv, NEW t \in Topics, Publish(t)
  PROVE  BusIInv'
<1>1. PICK c \in Channels : c = ChannelOf[t]
  BY HookAssumption
<1>2. PICK qs, p, h, s : qs = bus.subs[c] /\ p = bus.pending[c] /\ h = heard[c] /\ s = sent[c]
  OBVIOUS
<1>3. ChannelIs(c, qs, p, h, s)
  BY <1>2, BusIs
<1>4. PICK m : m = [topic |-> t, n |-> Len(s) + 1]
  OBVIOUS
<1>5. m \in QosMessage /\ m.n = Len(s) + 1 /\ m.topic = t
  BY <1>3, <1>4, LenProperties DEF QosMessage, ChannelIs
<1>6. /\ bus' = Published(bus, m) /\ heard' = heard
      /\ sent' = [sent EXCEPT ![c] = Append(s, m)]
  BY <1>1, <1>2, <1>4, <1>5 DEF Publish, Send
<1>7. heard' = [heard EXCEPT ![c] = h]
  BY <1>2, <1>6, BusIs
<1>8. CASE qs = <<>>
  <2>1. PICK p2 : p2 = Newest(Append(p, m), PendingCap)
    OBVIOUS
  <2>2. ChannelIs(c, <<>>, p2, h, Append(s, m))
    BY <1>3, <1>5, <1>8, <2>1, EventWaits
  <2>3. bus' = [bus EXCEPT !.pending[c] = Newest(Append(@, m), PendingCap)]
    BY <1>1, <1>2, <1>5, <1>6, <1>8 DEF Published
  <2>4. bus' = [subs |-> [bus.subs EXCEPT ![c] = <<>>], pending |-> [bus.pending EXCEPT ![c] = p2]]
    BY <1>2, <1>8, <2>1, <2>3, BusIs
  <2> QED
    BY <1>6, <1>7, <2>2, <2>4, OneChannel
<1>9. CASE qs # <<>>
  <2>1. PICK qs2 : qs2 = [i \in DOMAIN qs |-> PutIn(c, qs[i], m)]
    OBVIOUS
  <2>2. ChannelIs(c, qs2, p, h, Append(s, m))
    BY <1>3, <1>5, <1>9, <2>1, EventIsHeard
  <2>3. bus' = [bus EXCEPT !.subs[c] = [i \in DOMAIN @ |-> PutIn(c, @[i], m)]]
    BY <1>1, <1>2, <1>5, <1>6, <1>9 DEF Published
  <2>4. bus' = [bus EXCEPT !.subs[c] = qs2]
    BY <1>2, <2>1, <2>3
  <2>5. bus' = [subs |-> [bus.subs EXCEPT ![c] = qs2], pending |-> [bus.pending EXCEPT ![c] = p]]
    BY <1>2, <2>4, BusIs
  <2> QED
    BY <1>6, <1>7, <2>2, <2>5, OneChannel
<1> QED
  BY <1>8, <1>9

LEMMA GetInvariant ==
  ASSUME BusIInv, NEW c \in Channels, NEW i \in DOMAIN bus.subs[c], Get(c, i)
  PROVE  BusIInv'
<1>1. PICK qs, p, h, s : qs = bus.subs[c] /\ p = bus.pending[c] /\ h = heard[c] /\ s = sent[c]
  OBVIOUS
<1>2. ChannelIs(c, qs, p, h, s) /\ i \in DOMAIN qs /\ CanGet(qs[i])
  BY <1>1, BusIs DEF Get
<1>3. PICK qs2, h2 : /\ qs2 = [qs EXCEPT ![i] = AfterGet(qs[i])]
                     /\ h2 = [h EXCEPT ![i] = [h[i] EXCEPT !.got = Append(h[i].got, NextItem(qs[i]))]]
  OBVIOUS
<1>4. ChannelIs(c, qs2, p, h2, s)
  BY <1>2, <1>3, EventIsRead
<1>5. /\ bus' = [bus EXCEPT !.subs[c][i] = AfterGet(@)]
      /\ heard' = [heard EXCEPT ![c][i].got = Append(@, NextItem(qs[i]))]
      /\ sent' = sent
  BY <1>1 DEF Get
<1>6. bus' = [subs |-> [bus.subs EXCEPT ![c] = qs2], pending |-> [bus.pending EXCEPT ![c] = p]]
  BY <1>1, <1>2, <1>3, <1>5, BusIs
<1>7. heard' = [heard EXCEPT ![c] = h2] /\ sent' = [sent EXCEPT ![c] = s]
  BY <1>1, <1>2, <1>3, <1>5, BusIs
<1> QED
  BY <1>4, <1>6, <1>7, OneChannel

LEMMA HookElapseInvariant ==
  ASSUME BusIInv, HookElapse
  PROVE  BusIInv'
<1> DEFINE later(c) == [j \in DOMAIN bus.subs[c] |-> Elapse(bus.subs[c][j])]
<1>1. /\ bus' = [bus EXCEPT !.subs = [c \in Channels |-> later(c)]]
      /\ sent' = sent /\ heard' = heard
  BY DEF HookElapse
<1>2. ASSUME NEW c \in Channels PROVE ChannelIs(c, later(c), bus.pending[c], heard[c], sent[c])
  <2>1. PICK qs, p, h, s : qs = bus.subs[c] /\ p = bus.pending[c] /\ h = heard[c] /\ s = sent[c]
    OBVIOUS
  <2>2. PICK t : t = later(c)
    OBVIOUS
  <2>3. ChannelIs(c, qs, p, h, s) /\ t = [j \in DOMAIN qs |-> Elapse(qs[j])]
    BY <2>1, <2>2, BusIs
  <2>4. ChannelIs(c, t, p, h, s)
    BY <2>3, TimeIsHeard
  <2> QED
    BY <2>1, <2>2, <2>4
<1>3. /\ bus.pending \in [Channels -> Seq(QosMessage)]
      /\ sent \in [Channels -> Seq(QosMessage)] /\ heard \in [Channels -> Seq(Listener)]
  BY DEF BusIInv
<1>4. \A c \in Channels : later(c) \in Seq(QueueContents)
  BY <1>2 DEF ChannelIs
<1> HIDE DEF later
<1>5. bus' = [subs |-> [c \in Channels |-> later(c)], pending |-> bus.pending]
  BY <1>1, BusIs
<1>6. /\ bus' \in [subs : [Channels -> Seq(QueueContents)], pending : [Channels -> Seq(QosMessage)]]
      /\ bus'.pending = bus.pending /\ \A c \in Channels : bus'.subs[c] = later(c)
  BY <1>3, <1>4, <1>5
<1> QED
  BY <1>1, <1>2, <1>3, <1>6 DEF BusIInv

LEMMA HookNextInvariant == BusIInv /\ [HookNext]_hookVars => BusIInv'
<1> SUFFICES ASSUME BusIInv, [HookNext]_hookVars PROVE BusIInv'
  OBVIOUS
<1>1. CASE \E c \in Channels : Len(bus.subs[c]) < MaxSubscribers /\ Register(c)
  BY <1>1, RegisterInvariant
<1>2. CASE \E t \in Topics : PublishedSoFar < MaxPublish /\ Publish(t)
  BY <1>2, PublishInvariant
<1>3. CASE \E c \in Channels : \E i \in DOMAIN bus.subs[c] : Get(c, i)
  BY <1>3, GetInvariant
<1>4. CASE HookElapse
  BY <1>4, HookElapseInvariant
<1>5. CASE UNCHANGED hookVars
  BY <1>5 DEF hookVars, BusIInv
<1> QED
  BY <1>1, <1>2, <1>3, <1>4, <1>5 DEF HookNext

LEMMA HookInvariant == HookSpec => []BusIInv
BY HookInitInvariant, HookNextInvariant, PTL DEF HookSpec

LEMMA BusTells == BusIInv => FanOut /\ HookTypeOK
<1> SUFFICES ASSUME BusIInv PROVE FanOut /\ HookTypeOK
  OBVIOUS
<1>1. ASSUME NEW c \in Channels
      PROVE  ChannelIs(c, bus.subs[c], bus.pending[c], heard[c], sent[c])
  BY BusIs
<1>2. ASSUME NEW c \in Channels, NEW i \in DOMAIN bus.subs[c]
      PROVE  Hears(c, bus.subs[c][i], heard[c][i].got, Owed(c, i))
  BY <1>1 DEF ChannelIs, ListenerHears, DueFrom, Owed
<1>3. FanOut
  <2> SUFFICES ASSUME NEW c \in Channels, NEW i \in DOMAIN bus.subs[c]
               PROVE  LET due == Owed(c, i)
                          own == Holds(c, i)
                          q   == bus.subs[c][i]
                      IN /\ ToSet(own) \subseteq ToSet(due)
                         /\ Cardinality(ToSet(own)) = Len(own)
                         /\ ClassOf[c] # "critical" => Len(own) + q.dropped + q.coalesced = Len(due)
                         /\ ClassOf[c] # "important" /\ Len(due) <= QueueSize[ClassOf[c]] => own = due
                         /\ ClassOf[c] = "best_effort" =>
                              \A j \in 1 .. Len(own) - 1 : own[j].n < own[j + 1].n
    BY DEF FanOut
  <2>1. PICK q, a, d : q = bus.subs[c][i] /\ a = heard[c][i].got /\ d = Owed(c, i)
    OBVIOUS
  <2>2. Hears(c, q, a, d)
    BY <1>2, <2>1
  <2>3. PICK own : own = a \o q.items
    OBVIOUS
  <2>4. /\ ToSet(own) \subseteq ToSet(d)
        /\ Cardinality(ToSet(own)) = Len(own)
        /\ ClassOf[c] # "critical" => Len(own) + q.dropped + q.coalesced = Len(d)
        /\ ClassOf[c] # "important" /\ Len(d) <= QueueSize[ClassOf[c]] => own = d
        /\ ClassOf[c] = "best_effort" => \A j \in 1 .. Len(own) - 1 : own[j].n < own[j + 1].n
    BY <2>2, <2>3, HearsIsFanOut
  <2>5. Holds(c, i) = own
    BY <2>1, <2>3 DEF Holds
  <2> QED
    BY <2>1, <2>4, <2>5
<1>4. HookTypeOK
  <2>1. ASSUME NEW c \in Channels
        PROVE  DOMAIN bus.subs[c] = DOMAIN heard[c] /\ Len(bus.pending[c]) <= PendingCap
    BY <1>1, LenProperties DEF ChannelIs, Waits
  <2>2. ASSUME NEW c \in Channels, NEW i \in DOMAIN bus.subs[c]
        PROVE  /\ Len(bus.subs[c][i].items) <= QueueSize[ClassOf[c]]
               /\ Len(bus.subs[c][i].retry) <= RetryLimit
    <3>1. PICK q : q = bus.subs[c][i]
      OBVIOUS
    <3>2. Len(q.items) <= QueueSize[ClassOf[c]] /\ Len(q.retry) <= IF ClassOf[c] = "critical" THEN RetryLimit ELSE 0
      BY <1>2, <3>1 DEF Hears
    <3>3. Len(q.retry) \in Nat
      BY <1>2, <3>1, LenProperties DEF Hears, Sound, QueueContents
    <3> QED
      BY <3>1, <3>2, <3>3, QosAssumption
  <2> QED
    BY <2>1, <2>2 DEF HookTypeOK
<1> QED
  BY <1>3, <1>4

(* The queues and what waits stay within their limits, and every queue of   *)
(* the bus has a history (register(), publish(), put_nowait()).             *)
THEOREM HookTypeCorrect == HookSpec => []HookTypeOK
BY HookInvariant, BusTells, PTL

(* A subscriber of the HookBus hears each event that was published since it *)
(* came in, once, and in order where its class keeps the order; what its    *)
(* own full queue refused or coalesced is counted (register(), publish()).  *)
THEOREM SubscribersHearAll == HookSpec => []FanOut
BY HookInvariant, BusTells, PTL
=============================================================================

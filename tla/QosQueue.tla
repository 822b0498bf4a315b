------------------------------ MODULE QosQueue ------------------------------
(***************************************************************************)
(* QoSClassifiedQueue (pwnproxy/shared/bus/qos.py): the bounded queue both *)
(* the TCP event bridge and the in-process HookBus give each subscriber.   *)
(* Its operations are synchronous, so each is an operator from a queue to  *)
(* the queue it leaves behind.                                             *)
(*                                                                         *)
(* A queue is a record: items, the asyncio.Queue inside; retry, the buffer *)
(* of CRITICAL events that found it full; and the two counters.  An item   *)
(* is a record with a topic; a topic stands for a topic name together with *)
(* the job or finding its payload names, all that _coalesce_key() looks at.*)
(* Time is counted in units of 0.05 s.                                     *)
(***************************************************************************)
EXTENDS Subsequences, SequencesExt

CONSTANTS
  Topics,
  KeyOf,       \* [Topics -> keys, or NoKey]: _coalesce_key()
  NoKey,
  RetryLimit,  \* hard limit of the retry buffer (32)
  RetryDrop    \* how many of the oldest it then drops (16)

ASSUME QosAssumption ==
  /\ DOMAIN KeyOf = Topics
  /\ RetryLimit \in Nat \ {0} /\ RetryDrop \in 1 .. RetryLimit

QosClass == {"critical", "important", "best_effort"}

MaxRetries == 3
RetryDelay == <<1, 2, 4>>

FreshQueue == [items |-> <<>>, retry |-> <<>>, dropped |-> 0, coalesced |-> 0]

HasData(q) == q.items # <<>> \/ q.retry # <<>>

-----------------------------------------------------------------------------
(* Mutant: one place too many. *)
EnqueueDropOneMore(q, m, maxsize) ==
  IF Len(q.items) <= maxsize
    THEN [q EXCEPT !.items = Append(@, m)]
    ELSE [q EXCEPT !.dropped = @ + 1]

(* Mutant: the oldest event makes room for the newest. *)
EnqueueDropOldest(q, m, maxsize) ==
  IF Len(q.items) < maxsize
    THEN [q EXCEPT !.items = Append(@, m)]
    ELSE [q EXCEPT !.items = Append(Tail(@), m), !.dropped = @ + 1]

(* _enqueue_drop() *)
EnqueueDrop(q, m, maxsize) ==
  IF Len(q.items) < maxsize
    THEN [q EXCEPT !.items = Append(@, m)]
    ELSE [q EXCEPT !.dropped = @ + 1]

(* Mutant: the newest value is appended behind the one it should replace. *)
EnqueueNoReplace(q, m, maxsize) == EnqueueDrop(q, m, maxsize)

(* Mutant: replacing a value is not counted. *)
EnqueueUncounted(q, m, maxsize) ==
  LET same == {i \in DOMAIN q.items : KeyOf[q.items[i].topic] = KeyOf[m.topic]}
  IN IF KeyOf[m.topic] # NoKey /\ same # {}
       THEN [q EXCEPT !.items = [i \in DOMAIN @ |-> IF i \in same THEN m ELSE @[i]]]
       ELSE EnqueueDrop(q, m, maxsize)

(* _enqueue_coalesce(): the waiting value of the same key is replaced where *)
(* it stands.                                                               *)
EnqueueCoalesce(q, m, maxsize) ==
  LET same == {i \in DOMAIN q.items : KeyOf[q.items[i].topic] = KeyOf[m.topic]}
  IN IF KeyOf[m.topic] # NoKey /\ same # {}
       THEN [q EXCEPT !.items = [i \in DOMAIN @ |-> IF i \in same THEN m ELSE @[i]],
                      !.coalesced = @ + 1]
       ELSE EnqueueDrop(q, m, maxsize)

(* Mutant: the retry buffer has no limit. *)
EnqueueCriticalUnbounded(q, m, maxsize) ==
  IF Len(q.items) < maxsize
    THEN [q EXCEPT !.items = Append(@, m)]
    ELSE [q EXCEPT !.retry = Append(@, [msg |-> m, wait |-> RetryDelay[1], attempts |-> 1])]

(* _enqueue_critical(): when full, wait in the retry buffer; when that is   *)
(* over its limit, its oldest entries go.                                   *)
EnqueueCritical(q, m, maxsize) ==
  LET buffered == Append(q.retry, [msg |-> m, wait |-> RetryDelay[1], attempts |-> 1])
  IN IF Len(q.items) < maxsize
       THEN [q EXCEPT !.items = Append(@, m)]
       ELSE IF Len(buffered) > RetryLimit
         THEN [q EXCEPT !.retry = SubSeq(buffered, RetryDrop + 1, Len(buffered)),
                        !.dropped = @ + RetryDrop]
         ELSE [q EXCEPT !.retry = buffered]

(* put_nowait() *)
Put(qos, q, m, maxsize) ==
  CASE qos = "critical"    -> EnqueueCritical(q, m, maxsize)
    [] qos = "important"   -> EnqueueCoalesce(q, m, maxsize)
    [] qos = "best_effort" -> EnqueueDrop(q, m, maxsize)

-----------------------------------------------------------------------------
(* get() and get_nowait(): a retry that is due goes first; what is kept of  *)
(* the buffer are the entries that are not due.                             *)
Due(q) == {i \in DOMAIN q.retry : q.retry[i].wait = 0}

CanGet(q) == Due(q) # {} \/ q.items # <<>>

NextItem(q) == IF Due(q) # {} THEN Kept(q.retry, Due(q))[1].msg ELSE Head(q.items)

(* Mutant: a due retry is sent, and stays in the buffer. *)
AfterGetKeepsRetry(q) ==
  IF Due(q) # {} THEN q ELSE [q EXCEPT !.items = Tail(@)]

AfterGet(q) ==
  IF Due(q) # {}
    THEN [q EXCEPT !.retry = Kept(@, DOMAIN @ \ Due(q))]
    ELSE [q EXCEPT !.items = Tail(@)]

(* retry_tick(): whether or not an entry is due, it has one attempt less,   *)
(* and is dropped when none is left.                                        *)
RetryTick(q) ==
  LET kept == Kept(q.retry, {i \in DOMAIN q.retry : q.retry[i].attempts < MaxRetries})
  IN [q EXCEPT !.retry = [i \in DOMAIN kept |->
                            [kept[i] EXCEPT !.wait = RetryDelay[kept[i].attempts + 1],
                                            !.attempts = @ + 1]],
               !.dropped = @ + Len(q.retry) - Len(kept)]

(* One unit of time passes. *)
Elapse(q) ==
  [q EXCEPT !.retry =
     [i \in DOMAIN q.retry |-> [q.retry[i] EXCEPT !.wait = IF @ = 0 THEN 0 ELSE @ - 1]]]
=============================================================================

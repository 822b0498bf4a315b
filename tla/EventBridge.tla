----------------------------- MODULE EventBridge -----------------------------
(***************************************************************************)
(* TcpBridgeServer (pwnproxy/shared/bus/transports/tcp_bridge.py): how the *)
(* events one process publishes reach another over a local TCP connection. *)
(* Every client has three QoS queues and a consumer task of its own, so    *)
(* one client is modelled; it may drop its connection and come back.       *)
(* publish() never suspends, and the consumer suspends only where it       *)
(* sleeps, waits in get() or drains the socket.                            *)
(***************************************************************************)
EXTENDS QosQueue

CONSTANTS
  QosOf,            \* [Topics -> QosClass]: TOPIC_QOS
  MaxSize,          \* [QosClass -> Nat]: DEFAULT_MAXSIZE
  StarvationLimit,  \* _STARVATION_LIMIT (4)
  MaxPublished      \* bound: how many events are published

ASSUME BridgeAssumption ==
  /\ QosOf \in [Topics -> QosClass]
  /\ \A t \in Topics : KeyOf[t] # NoKey => QosOf[t] = "important"  \* topics.py:78-80
  /\ MaxSize \in [QosClass -> Nat \ {0}]
  /\ StarvationLimit \in Nat \ {0} /\ MaxPublished \in Nat

Lower == {"important", "best_effort"}

VARIABLES
  link,       \* the connection: "none", "open", or "closing" (the transport is gone)
  queue,      \* [QosClass -> queue], the client's _ClientQueues
  consumer,   \* where the client's _consume() task is
  starve,     \* [Lower -> Nat]: starve_i and starve_b
  published,  \* the events published so far, in order
  since,      \* how many had been published when the client connected
  written,    \* the events written to this connection
  bypassed    \* [Lower -> Nat]: cycles that served another queue since a queue had data

bridgeVars == <<link, queue, consumer, starve, published, since, written, bypassed>>

NoQueues == [qos \in QosClass |-> FreshQueue]
Zero == [qos \in Lower |-> 0]

BridgeInit ==
  /\ link = "none" /\ consumer = "none"
  /\ queue = NoQueues
  /\ starve = Zero /\ bypassed = Zero
  /\ published = <<>> /\ written = <<>> /\ since = 0

-----------------------------------------------------------------------------
(* publish(): to the queue of the topic's class; a client whose transport   *)
(* is closing is dropped, its consumer cancelled.                           *)
BridgePublish(topic) ==
  LET m   == [topic |-> topic, n |-> Len(published) + 1]
      qos == QosOf[topic]
  IN /\ Len(published) < MaxPublished
     /\ published' = Append(published, m)
     /\ \/ /\ link = "open"
           /\ queue' = [queue EXCEPT ![qos] = Put(qos, @, m, MaxSize[qos])]
           /\ UNCHANGED consumer
        \/ /\ link = "closing"
           /\ consumer' = "none" /\ queue' = NoQueues
        \/ /\ link = "none"
           /\ UNCHANGED <<consumer, queue>>
     /\ UNCHANGED <<link, starve, since, written, bypassed>>

(* _on_connect(): fresh queues, a fresh consumer. *)
Connect ==
  /\ link = "none"
  /\ link' = "open" /\ consumer' = "loop"
  /\ queue' = NoQueues /\ starve' = Zero /\ bypassed' = Zero
  /\ since' = Len(published) /\ written' = <<>>
  /\ UNCHANGED published

(* The peer is gone; the reader of _on_connect() notices. *)
LinkLost ==
  /\ link = "open" /\ link' = "closing"
  /\ UNCHANGED <<queue, consumer, starve, published, since, written, bypassed>>

Disconnect ==
  /\ link \in {"open", "closing"}
  /\ link' = "none" /\ consumer' = "none" /\ queue' = NoQueues
  /\ UNCHANGED <<starve, published, since, written, bypassed>>

-----------------------------------------------------------------------------
(* _consume() *)

AnyData == \E qos \in QosClass : HasData(queue[qos])

(* while not writer.is_closing() *)
ConsumerStops ==
  /\ consumer = "loop" /\ link = "closing"
  /\ consumer' = "ended"
  /\ UNCHANGED <<link, queue, starve, published, since, written, bypassed>>

FallAsleep ==
  /\ consumer = "loop" /\ link = "open" /\ ~AnyData
  /\ consumer' = "sleeping"
  /\ UNCHANGED <<link, queue, starve, published, since, written, bypassed>>

WakeUp ==
  /\ consumer = "sleeping" /\ consumer' = "loop"
  /\ queue' = [queue EXCEPT !["critical"] = RetryTick(@)]
  /\ starve' = Zero
  /\ UNCHANGED <<link, published, since, written, bypassed>>

(* Aging: how often each lower queue has waited while CRITICAL had data. *)
Aged == [qos \in Lower |->
           IF HasData(queue[qos]) /\ HasData(queue["critical"]) THEN starve[qos] + 1 ELSE 0]

Overdue == {qos \in Lower : HasData(queue[qos]) /\ Aged[qos] >= StarvationLimit}

(* Priority: CRITICAL, IMPORTANT, BEST_EFFORT. *)
ByPriority ==
  IF HasData(queue["critical"]) THEN "critical"
  ELSE IF HasData(queue["important"]) THEN "important" ELSE "best_effort"

(* Mutant: priority without aging. *)
ChoiceByPriority == ByPriority

Choice ==
  IF "important" \in Overdue THEN "important"
  ELSE IF "best_effort" \in Overdue THEN "best_effort" ELSE ByPriority

(* The event is dequeued, the retry buffer ages, the line is written. *)
Serve(qos) ==
  LET taken == [queue EXCEPT ![qos] = AfterGet(@)]
  IN /\ written' = Append(written, NextItem(queue[qos]))
     /\ queue' = [taken EXCEPT !["critical"] = RetryTick(@)]
     /\ consumer' = "draining"

CountBypass(qos) ==
  bypassed' = [q \in Lower |-> IF q = qos \/ ~HasData(queue[q]) THEN 0 ELSE bypassed[q] + 1]

Cycle ==
  /\ consumer = "loop" /\ link = "open" /\ AnyData
  /\ starve' = [qos \in Lower |-> IF qos = Choice /\ qos \in Overdue THEN 0 ELSE Aged[qos]]
  /\ CountBypass(Choice)
  /\ IF CanGet(queue[Choice])
       THEN Serve(Choice)
       ELSE consumer' = "waiting" /\ UNCHANGED <<queue, written>>
  /\ UNCHANGED <<link, published, since>>

(* CRITICAL has only retries that are not due: get() waits for a new event, *)
(* and after 0.5 s, longer than any delay, serves the retries.              *)
WaitEnds ==
  /\ consumer = "waiting"
  /\ \/ queue["critical"].items # <<>>
        /\ LET q == queue["critical"]
           IN /\ written' = Append(written, Head(q.items))
              /\ queue' = [queue EXCEPT !["critical"] = RetryTick([q EXCEPT !.items = Tail(@)])]
              /\ consumer' = "draining"
     \/ /\ queue["critical"].items = <<>>
        /\ \A i \in DOMAIN queue["critical"].retry : queue["critical"].retry[i].wait = 0
        /\ Serve("critical")
  /\ UNCHANGED <<link, starve, published, since, bypassed>>

(* await writer.drain(), which raises when the transport is gone *)
Drained ==
  /\ consumer = "draining"
  /\ consumer' = IF link = "closing" THEN "ended" ELSE "loop"
  /\ UNCHANGED <<link, queue, starve, published, since, written, bypassed>>

TimePasses ==
  /\ \E i \in DOMAIN queue["critical"].retry : queue["critical"].retry[i].wait > 0
  /\ queue' = [queue EXCEPT !["critical"] = Elapse(@)]
  /\ UNCHANGED <<link, consumer, starve, published, since, written, bypassed>>

BridgeNext ==
  \/ \E topic \in Topics : BridgePublish(topic)
  \/ Connect \/ LinkLost \/ Disconnect
  \/ ConsumerStops \/ FallAsleep \/ WakeUp \/ Cycle \/ WaitEnds \/ Drained
  \/ TimePasses

BridgeSpec == BridgeInit /\ [][BridgeNext]_bridgeVars

-----------------------------------------------------------------------------
PublishedTo(qos) == {i \in (since + 1) .. Len(published) : QosOf[published[i].topic] = qos}
SentOf(qos) == {i \in DOMAIN written : QosOf[written[i].topic] = qos}
Retrying == [i \in DOMAIN queue["critical"].retry |-> queue["critical"].retry[i].msg]

(* Type correctness of the connection and its queues: each queue stays     *)
(* within its size, and only CRITICAL uses its retry buffer, within its    *)
(* limit.                                                                  *)
BridgeTypeOK ==
  LET Event == [topic : Topics, n : 1 .. MaxPublished]
  IN /\ link \in {"none", "open", "closing"}
     /\ consumer \in {"none", "loop", "sleeping", "waiting", "draining", "ended"}
     /\ \A qos \in QosClass :
          /\ ToSet(queue[qos].items) \subseteq Event
          /\ Len(queue[qos].items) <= MaxSize[qos]
          /\ Len(queue[qos].retry) <= IF qos = "critical" THEN RetryLimit ELSE 0
          /\ \A i \in DOMAIN queue[qos].retry :
               queue[qos].retry[i] \in [msg : Event, wait : 0 .. 4, attempts : 1 .. MaxRetries]
     /\ ToSet(published) \subseteq Event /\ ToSet(written) \subseteq Event
     /\ since \in 0 .. Len(published)
     /\ starve \in [Lower -> Nat] /\ bypassed \in [Lower -> Nat]

(* No event is delivered twice, and none that was delivered waits anywhere *)
(* to be: neither the retry buffer nor the coalescing rebuild copies one.  *)
AtMostOnce ==
  LET here == written \o queue["critical"].items \o Retrying
                \o queue["important"].items \o queue["best_effort"].items
  IN \A i, j \in DOMAIN here : here[i] = here[j] => i = j

(* The progress of a job, or the triage of a finding, never goes back: of  *)
(* the values of one key, those sent and the one waiting are in the order  *)
(* in which they were published, and at most one waits.                    *)
ProgressNeverGoesBack ==
  LET delivery == written \o queue["important"].items
  IN \A i, j \in DOMAIN delivery :
       KeyOf[delivery[i].topic] = KeyOf[delivery[j].topic] /\ KeyOf[delivery[i].topic] # NoKey /\ i < j
       => delivery[i].n < delivery[j].n /\ i <= Len(written)

(* Below CRITICAL, losses are what the counters say: while the client is   *)
(* connected every event published to it was sent, waits, or is counted as *)
(* dropped or coalesced.                                                   *)
LossesAreCounted ==
  link = "open" => \A qos \in Lower :
    Cardinality(PublishedTo(qos)) =
      Cardinality(SentOf(qos)) + Len(queue[qos].items) + queue[qos].dropped + queue[qos].coalesced

(* Under any traffic, IMPORTANT is passed over fewer than StarvationLimit  *)
(* times in a row while it has something to send.                          *)
ImportantIsServed == bypassed["important"] < StarvationLimit

(* qos.py: CRITICAL events are "never dropped by policy".  While the client *)
(* stays connected each was sent, or waits to be.                          *)
CriticalNeverDropped ==
  link = "open" => \A i \in PublishedTo("critical") :
    published[i] \in ToSet(written) \cup ToSet(queue["critical"].items) \cup ToSet(Retrying)

(* A client of the bridge has a channel that loses only what LossyChannel   *)
(* says: no event below CRITICAL is lost once it waits, but given up for a  *)
(* later value of its key, and none is overtaken by an event of its class,  *)
(* but by a value that has the place of an earlier one.                     *)
Within(q) == ToSet(q.items) \cup {q.retry[i].msg : i \in DOMAIN q.retry}
Waiting == UNION {Within(queue[qos]) : qos \in QosClass}

Channel == INSTANCE LossyChannel WITH
  open <- link = "open", offered <- Len(published), waiting <- Waiting, sent <- written

ImplementsChannel == Channel!Spec
=============================================================================

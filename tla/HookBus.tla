------------------------------ MODULE HookBus ------------------------------
(***************************************************************************)
(* HookBus (pwnproxy/shared/hooks.py), the in-process fan-out between the  *)
(* proxy, the plugins, the findings storage and the WebSocket rooms.       *)
(* Every subscriber of a channel owns a QoSClassifiedQueue (module         *)
(* QosQueue); nobody is ever removed.                                      *)
(*                                                                         *)
(* bus is a record: subs[c], the queues of channel c in the order they     *)
(* were registered, and pending[c], what was published before the first of *)
(* them.  publish() and register() are synchronous: one step each.         *)
(***************************************************************************)
EXTENDS QosQueue, FiniteSets

CONSTANTS
  Channels,
  ChannelOf,      \* [Topics -> Channels]
  ClassOf,        \* [Channels -> QosClass]: HOOKBUS_QOS
  QueueSize,      \* [QosClass -> Nat \ {0}]: maxsize per class
  PendingCap,     \* _PENDING_CAP (200)
  MaxPublish,     \* bound: messages published per behaviour
  MaxSubscribers  \* bound: subscribers per channel

ASSUME HookAssumption ==
  /\ ChannelOf \in [Topics -> Channels]
  /\ ClassOf \in [Channels -> QosClass]
  /\ QueueSize \in [QosClass -> Nat \ {0}]
  /\ PendingCap \in Nat \ {0} /\ MaxPublish \in Nat /\ MaxSubscribers \in Nat

VARIABLES
  bus,
  sent,   \* history: sent[c], all that was published to c
  heard   \* history: heard[c][i], where in sent[c] subscriber i of c came in,
          \* and what it has read

hookVars == <<bus, sent, heard>>

HookMsg == [topic : Topics, n : Nat]

EmptyBus == [subs |-> [c \in Channels |-> <<>>], pending |-> [c \in Channels |-> <<>>]]

HookInit ==
  /\ bus = EmptyBus
  /\ sent = [c \in Channels |-> <<>>]
  /\ heard = [c \in Channels |-> <<>>]

-----------------------------------------------------------------------------
PutIn(c, q, m) == Put(ClassOf[c], q, m, QueueSize[ClassOf[c]])

(* Mutant: the buffered messages are delivered, and kept for the next *)
(* subscriber too.                                                    *)
RegisteredKeepsPending(b, c) ==
  [b EXCEPT !.subs[c] =
     Append(@, FoldLeft(LAMBDA q, m : PutIn(c, q, m), FreshQueue, b.pending[c]))]

(* register(): the first subscriber inherits what waited for one. *)
Registered(b, c) ==
  [b EXCEPT !.subs[c] =
              Append(@, FoldLeft(LAMBDA q, m : PutIn(c, q, m), FreshQueue, b.pending[c])),
            !.pending[c] = <<>>]

(* The newest k of s. *)
Newest(s, k) == SubSeq(s, IF Len(s) > k THEN Len(s) - k + 1 ELSE 1, Len(s))

(* publish() *)
Published(b, m) ==
  LET c == ChannelOf[m.topic]
  IN IF b.subs[c] = <<>>
       THEN [b EXCEPT !.pending[c] = Newest(Append(@, m), PendingCap)]
       ELSE [b EXCEPT !.subs[c] = [i \in DOMAIN @ |-> PutIn(c, @[i], m)]]

-----------------------------------------------------------------------------
Register(c) ==
  /\ bus' = Registered(bus, c)
  /\ heard' = [heard EXCEPT ![c] =
                 Append(@, [from |-> Len(sent[c]) - Len(bus.pending[c]), got |-> <<>>])]
  /\ UNCHANGED sent

(* One message more on the bus: bus and sent move together. *)
Send(m) ==
  /\ bus' = Published(bus, m)
  /\ sent' = [sent EXCEPT ![ChannelOf[m.topic]] = Append(@, m)]
  /\ UNCHANGED heard

Publish(t) == Send([topic |-> t, n |-> Len(sent[ChannelOf[t]]) + 1])

(* _HookChannelQueue.get() of subscriber i: it sleeps through the timeouts *)
(* of an empty queue.                                                      *)
Get(c, i) ==
  /\ CanGet(bus.subs[c][i])
  /\ bus' = [bus EXCEPT !.subs[c][i] = AfterGet(@)]
  /\ heard' = [heard EXCEPT ![c][i].got = Append(@, NextItem(bus.subs[c][i]))]
  /\ UNCHANGED sent

(* Time passes for every retry buffer that still waits. *)
HookElapse ==
  /\ \E c \in Channels : \E i \in DOMAIN bus.subs[c] :
       \E r \in DOMAIN bus.subs[c][i].retry : bus.subs[c][i].retry[r].wait > 0
  /\ bus' = [bus EXCEPT !.subs =
               [c \in Channels |-> [i \in DOMAIN @[c] |-> Elapse(@[c][i])]]]
  /\ UNCHANGED <<sent, heard>>

PublishedSoFar == FoldFunction(LAMBDA s, k : Len(s) + k, 0, sent)

HookNext ==
  \/ \E c \in Channels : Len(bus.subs[c]) < MaxSubscribers /\ Register(c)
  \/ \E t \in Topics : PublishedSoFar < MaxPublish /\ Publish(t)
  \/ \E c \in Channels : \E i \in DOMAIN bus.subs[c] : Get(c, i)
  \/ HookElapse

HookSpec == HookInit /\ [][HookNext]_hookVars

-----------------------------------------------------------------------------
HookTypeOK ==
  /\ \A c \in Channels :
       /\ DOMAIN bus.subs[c] = DOMAIN heard[c]
       /\ \A i \in DOMAIN bus.subs[c] :
            /\ Len(bus.subs[c][i].items) <= QueueSize[ClassOf[c]]
            /\ Len(bus.subs[c][i].retry) <= RetryLimit
       /\ Len(bus.pending[c]) <= PendingCap

(* What subscriber i of c must hear, and what it has heard or will. *)
Owed(c, i) == SubSeq(sent[c], heard[c][i].from + 1, Len(sent[c]))
Holds(c, i) == heard[c][i].got \o bus.subs[c][i].items

(* HookBus is fan-out (the design note of register(), hooks.py:100): a     *)
(* subscriber gets each event that was published since it came in, and the *)
(* first one the newest that waited for it, in order and once, whatever    *)
(* the other subscribers do; what its own full queue refused or coalesced  *)
(* is counted in that queue, and a CRITICAL event is only ever missing     *)
(* from a queue that was full.                                             *)
FanOut ==
  \A c \in Channels : \A i \in DOMAIN bus.subs[c] :
    LET due == Owed(c, i)
        own == Holds(c, i)
        q   == bus.subs[c][i]
    IN /\ ToSet(own) \subseteq ToSet(due)
       /\ Cardinality(ToSet(own)) = Len(own)
       /\ ClassOf[c] # "critical" => Len(own) + q.dropped + q.coalesced = Len(due)
       /\ ClassOf[c] # "important" /\ Len(due) <= QueueSize[ClassOf[c]] => own = due
       /\ ClassOf[c] = "best_effort" =>
            \A j \in 1 .. Len(own) - 1 : own[j].n < own[j + 1].n
=============================================================================

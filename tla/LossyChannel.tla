---------------------------- MODULE LossyChannel ----------------------------
(***************************************************************************)
(* What the TCP event bridge promises one client, whatever its queues look *)
(* like: "CRITICAL: retry in-memory with backoff; never dropped by policy.  *)
(* IMPORTANT: coalesce by key (latest value per key wins).  BEST_EFFORT:    *)
(* drop on full" (tcp_bridge.py:58).  An event below CRITICAL is turned    *)
(* away when it is offered or not at all: once it waits, it is sent or     *)
(* gives way to a later value of its key, in the order of its class.  A     *)
(* CRITICAL event may get lost at any time, and come in any order.         *)
(* EventBridge is shown to implement this specification.                   *)
(***************************************************************************)
EXTENDS Naturals, Sequences

CONSTANTS Topics, QosOf, KeyOf, NoKey

VARIABLES
  open,     \* whether the client is connected
  offered,  \* how many events were published so far
  waiting,  \* the events that wait to be sent
  sent      \* the events sent on this connection, in order

channelVars == <<open, offered, waiting, sent>>

Init == ~open /\ offered = 0 /\ waiting = {} /\ sent = <<>>

Critical(m) == QosOf[m.topic] = "critical"
Keyed(m) == KeyOf[m.topic] # NoKey

(* The value of the same key that waits when m comes. *)
Superseded(m) == {w \in waiting : Keyed(m) /\ KeyOf[w.topic] = KeyOf[m.topic]}

(* What waits afterwards is of S, and lacks CRITICAL events at most. *)
RemainOf(S) == waiting' \subseteq S /\ \A m \in S \ waiting' : Critical(m)

(* An event is published.  There is room for it, or it takes the place of   *)
(* an earlier value, or, below CRITICAL, it is dropped.                     *)
Offer(topic) ==
  LET m == [topic |-> topic, n |-> offered + 1]
  IN /\ offered' = offered + 1
     /\ \/ open /\ RemainOf((waiting \ Superseded(m)) \cup {m})
        \/ open /\ ~Critical(m) /\ Superseded(m) = {} /\ waiting' = waiting
        \/ ~open /\ waiting' \subseteq waiting
     /\ UNCHANGED <<open, sent>>

(* The order of a class is that of publication; where a value replaced an   *)
(* earlier one, it has its place.                                          *)
InTurn(m) ==
  Critical(m) \/ Keyed(m)
    \/ \A w \in waiting : QosOf[w.topic] = QosOf[m.topic] /\ ~Keyed(w) => m.n <= w.n

Send(m) ==
  /\ InTurn(m)
  /\ sent' = Append(sent, m)
  /\ RemainOf(waiting \ {m})
  /\ UNCHANGED <<open, offered>>

(* Retries are given up; with the connection everything is. *)
Lose ==
  /\ IF open THEN RemainOf(waiting) ELSE waiting' \subseteq waiting
  /\ UNCHANGED <<open, offered, sent>>

Close ==
  /\ open /\ ~open'
  /\ waiting' \subseteq waiting
  /\ UNCHANGED <<offered, sent>>

(* A new connection begins with nothing. *)
Open ==
  /\ ~open /\ open'
  /\ waiting' = {} /\ sent' = <<>>
  /\ UNCHANGED offered

Next ==
  \/ \E topic \in Topics : Offer(topic)
  \/ \E m \in waiting : Send(m)
  \/ Lose \/ Close \/ Open

Spec == Init /\ [][Next]_channelVars

(* What waits for a client that stays connected leaves only when it is sent, *)
(* or gives way to a later value of its key, if it is not CRITICAL.          *)
KeptOrSent(w) ==
  \/ w \in waiting' \/ sent' = Append(sent, w)
  \/ Keyed(w) /\ \E m \in waiting' : KeyOf[m.topic] = KeyOf[w.topic] /\ m.n = offered'

WaitingIsKept ==
  [][open /\ open' => \A w \in waiting : Critical(w) \/ KeptOrSent(w)]_channelVars
=============================================================================

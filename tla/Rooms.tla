------------------------------- MODULE Rooms -------------------------------
(***************************************************************************)
(* The WebSocket rooms (pwnproxy/transport/ws/events.py): RoomDispatcher    *)
(* has one task per HookBus channel, which routes each event to the room of *)
(* its session or of its job; RoomManager keeps the rooms, sets of sockets; *)
(* ws_room() is the task of one client.                                    *)
(*                                                                         *)
(* A broadcast suspends in every send while it iterates over the set of    *)
(* the room, and joins, leaves and other broadcasts change that set        *)
(* meanwhile: Python then raises if its size has changed; if it has not,   *)
(* because somebody joined for somebody who left, the iteration may skip   *)
(* members or meet them again. A room is a number, the identity of its     *)
(* set, for a room that empties is deleted and a new set made.             *)
(***************************************************************************)
EXTENDS Naturals, Sequences, FiniteSets

CONSTANTS
  Sockets,
  RoomChannels,  \* the HookBus channels in use, a subset of AllChannels
  RoomSessions,
  RoomJobs,
  MaxEvents      \* bound: events dispatched

JobChannels ==
  {"crawl.started", "crawl.progress", "crawl.completed", "crawl.failed",
   "bruteforce.started", "bruteforce.progress", "bruteforce.completed",
   "bruteforce.failed", "scan.started", "scan.completed", "autoscan.started",
   "autoscan.completed"}
TrafficChannels ==
  {"response", "flow", "done", "flow_stored", "crawler.url", "comment.created",
   "comment.updated", "comment.deleted"}
FindingChannels == {"finding", "triage.updated"}
AllChannels == JobChannels \cup TrafficChannels \cup FindingChannels

ASSUME RoomsAssumption == RoomChannels \subseteq AllChannels /\ MaxEvents \in Nat

NoRoom == <<"none", "none">>

(* Mutant: traffic without a session goes to everybody. *)
RoomForAll(channel, session, job) ==
  CASE job # "none" /\ channel \in JobChannels -> <<"job", job>>
    [] channel \in TrafficChannels              -> <<"traffic", CHOOSE s \in RoomSessions : TRUE>>
    [] OTHER                                    -> NoRoom

(* _room_for(): an event of a job goes to its room; without a job a channel *)
(* of this kind goes nowhere, whatever its session.                        *)
RoomFor(channel, session, job) ==
  CASE job # "none" /\ channel \in JobChannels         -> <<"job", job>>
    [] session # "none" /\ channel \in TrafficChannels -> <<"traffic", session>>
    [] session # "none" /\ channel \in FindingChannels -> <<"findings", session>>
    [] OTHER                                           -> NoRoom

RoomIds == {<<p, s>> : p \in {"session", "traffic", "findings"}, s \in RoomSessions}
             \cup {<<"job", j>> : j \in RoomJobs}

VARIABLES
  rooms,    \* _rooms: [RoomIds -> the number of its set, 0 if there is none]
  sets,     \* the sets made so far, by number
  socket,   \* [Sockets -> where its client and its ws_room() task are]
  cast,     \* [RoomChannels -> the broadcast in progress]
  events,   \* history: the events dispatched, with their room and members
  got       \* history: [Sockets -> the events it received, in order]

roomVars == <<rooms, sets, socket, cast, events, got>>

NoCast == [event |-> 0, set |-> 0, size |-> 0, visited |-> {}, at |-> "none", dead |-> {}]

RoomsInit ==
  /\ rooms = [r \in RoomIds |-> 0] /\ sets = <<>>
  /\ socket = [s \in Sockets |-> [at |-> "out", room |-> NoRoom, alive |-> FALSE]]
  /\ cast = [c \in RoomChannels |-> NoCast]
  /\ events = <<>> /\ got = [s \in Sockets |-> <<>>]

Members(r) == IF rooms[r] = 0 THEN {} ELSE sets[rooms[r]]

(* A member is added to set k, which may move the others ahead of the       *)
(* iterator of every broadcast over it: if a removal has made the size what *)
(* it was, they may all be met again.                                      *)
Rehashed(k) == [c \in RoomChannels |->
  IF cast[c].event # 0 /\ cast[c].set = k THEN [cast[c] EXCEPT !.visited = {}] ELSE cast[c]]

(* Every broadcast that is iterating over set k learns of its change. *)
Disturbed(k) ==
  [i \in DOMAIN events |->
     IF \E c \in RoomChannels : cast[c].event = i /\ cast[c].set = k
       THEN [events[i] EXCEPT !.disturbed = TRUE] ELSE events[i]]

-----------------------------------------------------------------------------
(* ws_room(): the session is known, and the handshake is awaited. *)
Accept(s, r) ==
  /\ socket[s].at = "out"
  /\ socket' = [socket EXCEPT ![s] = [at |-> "accepting", room |-> r, alive |-> TRUE]]
  /\ UNCHANGED <<rooms, sets, cast, events, got>>

(* connect() *)
Join(s) ==
  LET r == socket[s].room
      k == IF rooms[r] = 0 THEN Len(sets) + 1 ELSE rooms[r]
  IN /\ socket[s].at = "accepting"
     /\ socket' = [socket EXCEPT ![s].at = "in"]
     /\ rooms' = [rooms EXCEPT ![r] = k]
     /\ sets' = IF rooms[r] = 0 THEN Append(sets, {s}) ELSE [sets EXCEPT ![k] = @ \cup {s}]
     /\ events' = Disturbed(k) /\ cast' = Rehashed(k)
     /\ UNCHANGED got

ConnectionLost(s) ==
  /\ socket[s].at = "in" /\ socket[s].alive
  /\ socket' = [socket EXCEPT ![s].alive = FALSE]
  /\ UNCHANGED <<rooms, sets, cast, events, got>>

(* Mutant: the room is deleted with whoever is still in it. *)
NumberAfterAlways(r, members) == 0

(* A room that has emptied is deleted, under its name. *)
NumberAfter(r, members) == IF members = {} THEN 0 ELSE rooms[r]

(* WebSocketDisconnect: disconnect(). *)
Leave(s) ==
  LET r == socket[s].room
      k == rooms[r]
  IN /\ socket[s].at = "in" /\ ~socket[s].alive
     /\ socket' = [socket EXCEPT ![s].at = "left"]
     /\ IF s \in Members(r)
          THEN /\ sets' = [sets EXCEPT ![k] = @ \ {s}] /\ events' = Disturbed(k)
               /\ rooms' = [rooms EXCEPT ![r] = NumberAfter(r, sets'[k])]
          ELSE UNCHANGED <<rooms, sets, events>>
     /\ UNCHANGED <<cast, got>>

(* A ping fails: the loop breaks, and the socket stays in its room. *)
PingFails(s) ==
  /\ socket[s].at = "in" /\ ~socket[s].alive
  /\ socket' = [socket EXCEPT ![s].at = "left"]
  /\ UNCHANGED <<rooms, sets, cast, events, got>>

-----------------------------------------------------------------------------
(* The iterator of broadcast b over its set: a changed size raises. *)
Raises(b) == Cardinality(sets[b.set]) # b.size
Unvisited(b) == sets[b.set] \ b.visited

(* _run_channel() takes an event; broadcast() begins, if its room has       *)
(* somebody in it, and suspends in the first send.                         *)
Dispatch(c, session, job) ==
  LET n == Len(events) + 1
      r == RoomFor(c, session, job)
  IN /\ cast[c].event = 0 /\ Len(events) < MaxEvents
     /\ events' = Append(events, [channel |-> c, session |-> session, job |-> job, room |-> r,
                                  members |-> IF r = NoRoom THEN {} ELSE Members(r),
                                  disturbed |-> FALSE, over |-> r = NoRoom \/ Members(r) = {}])
     /\ IF r = NoRoom \/ Members(r) = {}
          THEN UNCHANGED cast
          ELSE \E s \in Members(r) :
                 cast' = [cast EXCEPT ![c] = [NoCast EXCEPT !.event = n, !.set = rooms[r],
                            !.size = Cardinality(Members(r)), !.visited = {s}, !.at = s]]
     /\ UNCHANGED <<rooms, sets, socket, got>>

(* The send to the current socket has ended: received, or raised. *)
AfterSend(b) == IF socket[b.at].alive THEN b ELSE [b EXCEPT !.dead = @ \cup {b.at}]
Receipt(b) ==
  got' = IF socket[b.at].alive THEN [got EXCEPT ![b.at] = Append(@, b.event)] ELSE got

(* ... and the iteration goes on to another socket *)
SendNext(c) ==
  LET b == AfterSend(cast[c])
  IN /\ cast[c].event # 0 /\ ~Raises(cast[c])
     /\ \E s \in Unvisited(b) : cast' = [cast EXCEPT ![c] =
                                  [b EXCEPT !.visited = @ \cup {s}, !.at = s]]
     /\ Receipt(b)
     /\ UNCHANGED <<rooms, sets, socket, events>>

(* ... or raises, which the dispatcher suppresses *)
CastRaises(c) ==
  /\ cast[c].event # 0 /\ Raises(cast[c])
  /\ Receipt(cast[c])
  /\ events' = [events EXCEPT ![cast[c].event].over = TRUE]
  /\ cast' = [cast EXCEPT ![c] = NoCast]
  /\ UNCHANGED <<rooms, sets, socket>>

(* ... or is over: the dead leave the room, and an empty room is deleted    *)
(* under its name.                                                         *)
CastEnds(c) ==
  LET b == AfterSend(cast[c])
      e == events[b.event]
  IN /\ cast[c].event # 0 /\ ~Raises(cast[c])
     /\ ~(Unvisited(cast[c]) # {} /\ ~e.disturbed)
     /\ Receipt(b)
     /\ sets' = [sets EXCEPT ![b.set] = @ \ b.dead]
     /\ rooms' = [rooms EXCEPT ![e.room] = NumberAfter(e.room, sets'[b.set])]
     /\ events' = [(IF b.dead = {} THEN events ELSE Disturbed(b.set)) EXCEPT
                     ![b.event] = [e EXCEPT !.over = TRUE]]
     /\ cast' = [cast EXCEPT ![c] = NoCast]
     /\ UNCHANGED socket

RoomsNext ==
  \/ \E s \in Sockets :
       \/ \E r \in RoomIds : Accept(s, r)
       \/ Join(s) \/ ConnectionLost(s) \/ Leave(s) \/ PingFails(s)
  \/ \E c \in RoomChannels :
       \/ \E session \in RoomSessions \cup {"none"}, job \in RoomJobs \cup {"none"} :
            Dispatch(c, session, job)
       \/ SendNext(c) \/ CastRaises(c) \/ CastEnds(c)

RoomsSpec == RoomsInit /\ [][RoomsNext]_roomVars

-----------------------------------------------------------------------------
RoomsTypeOK ==
  /\ rooms \in [RoomIds -> 0 .. Len(sets)]
  /\ \A k \in DOMAIN sets : sets[k] \subseteq Sockets
  /\ \A s \in Sockets : socket[s].at \in {"out", "accepting", "in", "left"}

(* Whatever joins, leaves and broadcasts interleave, a client that has      *)
(* joined and is alive is in the set under the name of its room (not in one *)
(* that was deleted from under it), and nobody is in two rooms.             *)
JoinedIsInRoom ==
  \A s \in Sockets :
    /\ socket[s].at = "in" /\ socket[s].alive => s \in Members(socket[s].room)
    /\ \A r \in RoomIds : s \in Members(r) => socket[s].room = r

(* The dispatcher "filters by session_id (and job_id for job rooms)"        *)
(* (events.py:77): a client of a session's room gets events of that session *)
(* only, one of a job's room those of that job.  An event whose broadcast   *)
(* no join, leave or removal disturbed comes once to each of them, and      *)
(* reaches everybody who was in the room and is alive.                     *)
RoomDelivery ==
  /\ \A s \in Sockets :
       /\ \A i \in DOMAIN got[s] :
            LET e == events[got[s][i]]
            IN IF socket[s].room[1] = "job" THEN e.job = socket[s].room[2]
                                            ELSE e.session = socket[s].room[2]
       /\ \A i, j \in DOMAIN got[s] :
            got[s][i] = got[s][j] => i = j \/ events[got[s][i]].disturbed
  /\ \A i \in DOMAIN events :
       LET e == events[i]
       IN e.over /\ ~e.disturbed => \A s \in e.members :
            socket[s].alive => \E k \in DOMAIN got[s] : got[s][k] = i
=============================================================================

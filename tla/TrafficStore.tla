---------------------------- MODULE TrafficStore ----------------------------
(***************************************************************************)
(* The History: the flows in the traffic.db of a session, and the comments *)
(* on them.  StorageAddon (services/proxy/addons/storage.py) in the proxy  *)
(* worker and persist_crawl_flow() (services/crawler/republish.py) in the  *)
(* main process write flows, each to the database it was given when it     *)
(* began; the requests of transport/rest/traffic.py read and delete them   *)
(* in that of the session which is active when they arrive.                *)
(*                                                                         *)
(* No foreign key ties a comment to its flow, and SQLite gives the highest *)
(* id of a table again once its row is gone.                               *)
(***************************************************************************)
EXTENDS Naturals, Sequences, FiniteSets, FiniteSetsExt

CONSTANTS
  Histories,       \* the databases, one per session
  Writers,         \* the proxy worker, the crawl
  CommentClients,
  MaxFlows,        \* bound: flows
  MaxComments      \* bound: comments asked for

ASSUME TrafficAssumption ==
  /\ Histories # {} /\ MaxFlows \in Nat /\ MaxComments \in Nat

VARIABLES
  shown,      \* the database of the active session
  target,     \* [Writers -> Histories]: where the writer writes
  flows,      \* [Histories -> function from ids to flows, numbered as they were captured]
  comments,   \* [Histories -> function from ids to [row: flow_id, of: the flow it was made for,
              \*  late: it was committed after that flow had gone]]
  captured,   \* how many flows were captured
  storing,    \* {[flow, writer, at: "insert" or "announce", id]}: _store_flow() in progress
  asked,      \* how many comments were asked for
  asking      \* [CommentClients -> the request on a comment it awaits]

trafficVars == <<shown, target, flows, comments, captured, storing, asked, asking>>

NoAsk == [op |-> "none", db |-> "", row |-> 0, comment |-> 0, of |-> 0]

TrafficInit ==
  /\ shown \in Histories /\ target = [w \in Writers |-> shown]
  /\ flows = [d \in Histories |-> <<>>] /\ comments = [d \in Histories |-> <<>>]
  /\ captured = 0 /\ storing = {} /\ asked = 0
  /\ asking = [c \in CommentClients |-> NoAsk]

NextId(table) == 1 + Max({0} \cup DOMAIN table)
With(table, id, row) == [i \in DOMAIN table \cup {id} |-> IF i = id THEN row ELSE table[i]]
Without(table, ids) == [i \in DOMAIN table \ ids |-> table[i]]

-----------------------------------------------------------------------------
Captured(w) ==
  /\ captured < MaxFlows /\ captured' = captured + 1
  /\ storing' = storing \cup {[flow |-> captured + 1, writer |-> w, at |-> "insert", id |-> 0]}
  /\ UNCHANGED <<shown, target, flows, comments, asked, asking>>

(* response() in the worker: a task of its own stores the flow. *)
ProxyCaptures == "proxy" \in Writers /\ Captured("proxy")

(* _on_crawler_event() in the main process makes one for crawler.flow. *)
CrawlCaptures == "crawl" \in Writers /\ Captured("crawl")

(* The insert fails: it is logged, and nothing is announced. *)
InsertFailed(s) == storing' = storing \ {s} /\ UNCHANGED flows

Inserted(s) ==
  LET d == target[s.writer]
      id == NextId(flows[d])
  IN /\ flows' = [flows EXCEPT ![d] = With(@, id, s.flow)]
     /\ storing' = (storing \ {s}) \cup {[s EXCEPT !.at = "announce", !.id = id]}

StoreFlow(s) ==
  /\ s.at = "insert"
  /\ Inserted(s) \/ InsertFailed(s)
  /\ UNCHANGED <<shown, target, comments, captured, asked, asking>>

(* flow_stored on the HookBus, and from there to the rooms. *)
AnnounceFlow(s) ==
  /\ s.at = "announce" /\ storing' = storing \ {s}
  /\ UNCHANGED <<shown, target, flows, comments, captured, asked, asking>>

(* Another session is loaded: the proxy worker is started again on its    *)
(* database some time later; the crawl keeps the engine the process began *)
(* with.                                                                  *)
ShowSession(d) ==
  /\ d # shown /\ shown' = d
  /\ UNCHANGED <<target, flows, comments, captured, storing, asked, asking>>

RestartProxy ==
  /\ "proxy" \in Writers /\ target["proxy"] # shown
  /\ target' = [target EXCEPT !["proxy"] = shown]
  /\ storing' = {s \in storing : s.writer # "proxy"}
  /\ UNCHANGED <<shown, flows, comments, captured, asked, asking>>

-----------------------------------------------------------------------------
CommentsOf(d, ids) == {k \in DOMAIN comments[d] : comments[d][k].row \in ids}

(* Mutant: the flows go, the comments stay. *)
DeletedOnlyFlows(d, ids) ==
  flows' = [flows EXCEPT ![d] = Without(@, ids)] /\ UNCHANGED comments

(* delete_flow() and clear_flows(): the comments first, in one transaction. *)
Deleted(d, ids) ==
  /\ flows' = [flows EXCEPT ![d] = Without(@, ids)]
  /\ comments' = [comments EXCEPT ![d] = Without(@, CommentsOf(d, ids))]

DeleteFlow(id) ==
  /\ Deleted(shown, {id})
  /\ UNCHANGED <<shown, target, captured, storing, asked, asking>>

(* clear_flows() empties both tables, whatever a comment refers to. *)
ClearFlows ==
  /\ flows[shown] # <<>> \/ comments[shown] # <<>>
  /\ flows' = [flows EXCEPT ![shown] = <<>>] /\ comments' = [comments EXCEPT ![shown] = <<>>]
  /\ UNCHANGED <<shown, target, captured, storing, asked, asking>>

-----------------------------------------------------------------------------
(* create_flow_comment() has seen the flow, in a session of its own ... *)
AskCreate(c, row) ==
  /\ asking[c].op = "none" /\ asked < MaxComments /\ row \in DOMAIN flows[shown]
  /\ asked' = asked + 1
  /\ asking' = [asking EXCEPT ![c] =
       [op |-> "create", db |-> shown, row |-> row, comment |-> 0, of |-> flows[shown][row]]]
  /\ UNCHANGED <<shown, target, flows, comments, captured, storing>>

Still(d, row, flow) == row \in DOMAIN flows[d] /\ flows[d][row] = flow

(* ... and inserts the comment in another. *)
CreateComment(c) ==
  LET ask == asking[c]
  IN /\ ask.op = "create"
     /\ comments' = [comments EXCEPT ![ask.db] = With(@, NextId(@),
          [row |-> ask.row, of |-> ask.of, late |-> ~Still(ask.db, ask.row, ask.of)])]
     /\ asking' = [asking EXCEPT ![c] = NoAsk]
     /\ UNCHANGED <<shown, target, flows, captured, storing, asked>>

(* update_flow_comment(), delete_flow_comment(): the flow exists, and the *)
(* comment is one of its own ...                                         *)
AskChange(c, op, k) ==
  /\ asking[c].op = "none" /\ k \in DOMAIN comments[shown]
  /\ comments[shown][k].row \in DOMAIN flows[shown]
  /\ asking' = [asking EXCEPT ![c] =
       [op |-> op, db |-> shown, row |-> comments[shown][k].row, comment |-> k,
        of |-> comments[shown][k].of]]
  /\ UNCHANGED <<shown, target, flows, comments, captured, storing, asked>>

(* ... and whatever has its id by now is deleted; of an update, only the *)
(* text would change, and it finds nothing if it is gone.                *)
ChangeComment(c) ==
  LET ask == asking[c]
  IN /\ ask.op \in {"update", "delete"}
     /\ comments' = IF ask.op = "delete" THEN [comments EXCEPT ![ask.db] = Without(@, {ask.comment})]
                    ELSE comments
     /\ asking' = [asking EXCEPT ![c] = NoAsk]
     /\ UNCHANGED <<shown, target, flows, captured, storing, asked>>

TrafficNext ==
  \/ ProxyCaptures \/ CrawlCaptures
  \/ \E s \in storing : StoreFlow(s) \/ AnnounceFlow(s)
  \/ \E d \in Histories : ShowSession(d)
  \/ RestartProxy \/ ClearFlows
  \/ \E id \in DOMAIN flows[shown] : DeleteFlow(id)
  \/ \E c \in CommentClients :
       \/ \E id \in DOMAIN flows[shown] : AskCreate(c, id)
       \/ \E op \in {"update", "delete"}, k \in DOMAIN comments[shown] : AskChange(c, op, k)
       \/ CreateComment(c) \/ ChangeComment(c)

TrafficSpec == TrafficInit /\ [][TrafficNext]_trafficVars

-----------------------------------------------------------------------------
TrafficTypeOK ==
  /\ shown \in Histories
  /\ \A d \in Histories :
       /\ \A id \in DOMAIN flows[d] : flows[d][id] \in 1 .. captured
       /\ \A k \in DOMAIN comments[d] : comments[d][k].row \in Nat

(* "Cascade delete comments first" (traffic.py:166): a comment goes with its *)
(* flow, so that the next flow that gets the id does not come with the       *)
(* comments on another, unless the comment was committed after its flow had  *)
(* gone, by a request that had still seen it.  And what is announced has a    *)
(* row: a flow whose insert failed is not.                                  *)
CommentsGoWithFlow ==
  /\ \A d \in Histories : \A k \in DOMAIN comments[d] :
       comments[d][k].late \/ Still(d, comments[d][k].row, comments[d][k].of)
  /\ \A s \in storing : s.at = "announce" => s.id > 0
=============================================================================

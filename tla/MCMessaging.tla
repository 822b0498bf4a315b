---------------------------- MODULE MCMessaging ----------------------------
(***************************************************************************)
(* The three ways of an event: over the TCP bridge to another process,      *)
(* over the HookBus to the tasks of this one, and through the rooms to the  *)
(* WebSocket clients; the History, into which the captured flows go; and    *)
(* the session manager, which says whose databases those are.  They share   *)
(* no state that is modelled: one of them at a time moves.                 *)
(***************************************************************************)
EXTENDS EventBridge, HookBus, Rooms, TrafficStore, SessionManager

CONSTANT Parts
VARIABLE part

(* A CRITICAL topic, the progress of one job, an IMPORTANT topic without a *)
(* key, and a BEST_EFFORT one, each class on a HookBus channel of its own. *)
MCTopics == {"finding.created", "crawl.progress", "autoscan.started", "crawler.flow"}
MCQosOf == [t \in MCTopics |->
  CASE t = "finding.created" -> "critical"
    [] t = "crawler.flow"    -> "best_effort"
    [] OTHER                 -> "important"]
MCKeyOf == [t \in MCTopics |-> IF t = "crawl.progress" THEN "job" ELSE NoKey]
MCMaxSize == [qos \in QosClass |-> IF qos = "best_effort" THEN 1 ELSE 2]
MCClassOf == [c \in QosClass |-> c]
MCRoomChannels == {"flow_stored", "crawl.progress"}

messagingVars == <<part, bridgeVars, hookVars, roomVars, trafficVars, sessionVars>>

MessagingInit ==
  /\ part \in Parts /\ BridgeInit /\ HookInit /\ RoomsInit /\ SessionInit
  /\ TrafficInit /\ (part # "traffic" => shown = CHOOSE d \in Histories : TRUE)
  /\ part # "session" => files = [s \in Sessions |-> NoFiles]

MessagingNext ==
  \/ /\ part = "bridge" /\ BridgeNext
     /\ UNCHANGED <<part, hookVars, roomVars, trafficVars, sessionVars>>
  \/ /\ part = "hooks" /\ HookNext
     /\ UNCHANGED <<part, bridgeVars, roomVars, trafficVars, sessionVars>>
  \/ /\ part = "rooms" /\ RoomsNext
     /\ UNCHANGED <<part, bridgeVars, hookVars, trafficVars, sessionVars>>
  \/ /\ part = "traffic" /\ TrafficNext
     /\ UNCHANGED <<part, bridgeVars, hookVars, roomVars, sessionVars>>
  \/ /\ part = "session" /\ SessionNext
     /\ UNCHANGED <<part, bridgeVars, hookVars, roomVars, trafficVars>>

MessagingSpec == MessagingInit /\ [][MessagingNext]_messagingVars

MessagingTypeOK ==
  BridgeTypeOK /\ HookTypeOK /\ RoomsTypeOK /\ TrafficTypeOK /\ SessionTypeOK
=============================================================================

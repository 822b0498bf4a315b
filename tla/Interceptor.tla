---------------------------- MODULE Interceptor ----------------------------
(***************************************************************************)
(* The interceptor: InterceptorAddon, whose hooks mitmproxy calls, and      *)
(* InterceptorController, whose consumer and callers decide on the flows    *)
(* that are held (pwnproxy/services/proxy/interceptor/addon.py and          *)
(* controller.py, pwnproxy/transport/rest/interceptor.py).  All of it is    *)
(* synchronous but for the queue between the two.  A flow comes twice, for  *)
(* its request and for its response, under one id.                         *)
(***************************************************************************)
EXTENDS Naturals, Sequences, FiniteSets

CONSTANTS
  HeldFlows,   \* flows through the proxy
  MaxToggles   \* bound: how often the interceptor is switched

ASSUME InterceptorAssumption == MaxToggles \in Nat

Stages == {"request", "response"}

VARIABLES
  enabled,      \* InterceptorAddon._enabled
  phase,        \* [HeldFlows -> "new", "request", "upstream", "response", "done", "killed"]
  intercepted,  \* _intercepted: the flows mitmproxy holds
  snapshots,    \* _output_queue
  listed,       \* [HeldFlows -> the stage it is listed in (_pending), or "none"]
  toggles,
  disabled,     \* history: it has been switched off
  undecoded,    \* history: the flows whose last hook raised once it held them
  undecided     \* history: the flows a decision released and then raised on

interceptorVars ==
  <<enabled, phase, intercepted, snapshots, listed, toggles, disabled, undecoded, undecided>>

InterceptorInit ==
  /\ enabled = FALSE /\ intercepted = {} /\ snapshots = <<>>
  /\ phase = [f \in HeldFlows |-> "new"] /\ listed = [f \in HeldFlows |-> "none"]
  /\ toggles = 0 /\ disabled = FALSE /\ undecoded = {} /\ undecided = {}

-----------------------------------------------------------------------------
(* What mitmproxy does with a flow that nobody holds. *)
Resumed == [f \in HeldFlows |-> IF phase[f] = "request" THEN "upstream" ELSE "done"]

(* request(), response(): a flow in scope is held and registered; only then *)
(* its snapshot is made, which raises if a body is not what its encoding    *)
(* says (Flow.from_mitmproxy()): mitmproxy logs that, and the flow is held. *)
Hook(f, stage, held, decodes) ==
  /\ phase[f] = IF stage = "request" THEN "new" ELSE "upstream"
  /\ held => enabled
  /\ IF held
       THEN /\ phase' = [phase EXCEPT ![f] = stage]
            /\ intercepted' = intercepted \cup {f}
            /\ IF decodes
                 THEN /\ snapshots' = Append(snapshots, [flow |-> f, stage |-> stage])
                      /\ undecoded' = undecoded \ {f}
                 ELSE /\ undecoded' = undecoded \cup {f} /\ UNCHANGED snapshots
       ELSE /\ phase' = [phase EXCEPT ![f] = IF stage = "request" THEN "upstream" ELSE "done"]
            /\ UNCHANGED <<intercepted, snapshots, undecoded>>
  /\ UNCHANGED <<enabled, listed, toggles, disabled, undecided>>

(* _handle_intercepted() *)
Consume ==
  /\ snapshots # <<>>
  /\ snapshots' = Tail(snapshots)
  /\ listed' = [listed EXCEPT ![Head(snapshots).flow] = Head(snapshots).stage]
  /\ UNCHANGED <<enabled, phase, intercepted, toggles, disabled, undecoded, undecided>>

(* resume() of the flows fs, or kill(); those that are not held are ignored. *)
Release(fs, after) ==
  /\ intercepted' = intercepted \ fs
  /\ phase' = [f \in HeldFlows |-> IF f \in fs \cap intercepted THEN after[f] ELSE phase[f]]

Listed == {f \in HeldFlows : listed[f] # "none"}
Unlist(fs) == listed' = [f \in HeldFlows |-> IF f \in fs THEN "none" ELSE listed[f]]

(* forward() of a flow that is listed, forward_all() *)
Forward(fs) ==
  /\ fs # {} /\ fs \subseteq Listed
  /\ Release(fs, Resumed) /\ Unlist(fs)
  /\ UNCHANGED <<enabled, snapshots, toggles, disabled, undecoded, undecided>>

(* drop(), drop_all() *)
Killed == [f \in HeldFlows |-> "killed"]

Drop(fs) ==
  /\ fs # {} /\ fs \subseteq Listed
  /\ Release(fs, Killed) /\ Unlist(fs)
  /\ UNCHANGED <<enabled, snapshots, toggles, disabled, undecoded, undecided>>

(* forward_with_edits(): a flow that is gone stays listed. *)
ForwardEdited(f) ==
  /\ f \in Listed /\ f \in intercepted
  /\ Release({f}, Resumed) /\ Unlist({f})
  /\ UNCHANGED <<enabled, snapshots, toggles, disabled, undecoded, undecided>>

(* forward_with_edits() raises on an edit mitmproxy refuses (a URL that is  *)
(* none), drop() on a flow it has given up: the flow is out of its hands by *)
(* then, and stays listed.                                                 *)
DecisionRaises(f, after) ==
  /\ f \in Listed /\ f \in intercepted
  /\ Release({f}, after) /\ undecided' = undecided \cup {f}
  /\ UNCHANGED <<enabled, snapshots, listed, toggles, disabled, undecoded>>

Enable ==
  /\ ~enabled /\ toggles < MaxToggles
  /\ enabled' = TRUE /\ toggles' = toggles + 1
  /\ UNCHANGED <<phase, intercepted, snapshots, listed, disabled, undecoded, undecided>>

(* Mutant: only the flows that are listed are resumed. *)
DisableListed ==
  /\ enabled /\ toggles < MaxToggles
  /\ enabled' = FALSE /\ toggles' = toggles + 1 /\ disabled' = TRUE
  /\ Release(Listed, Resumed) /\ snapshots' = <<>>
  /\ Unlist(HeldFlows)
  /\ UNCHANGED <<undecoded, undecided>>

(* set_enabled(False): all are resumed; the snapshots stay in the queue. *)
Disable ==
  /\ enabled /\ toggles < MaxToggles
  /\ enabled' = FALSE /\ toggles' = toggles + 1 /\ disabled' = TRUE
  /\ Release(HeldFlows, Resumed)
  /\ Unlist(HeldFlows)
  /\ UNCHANGED <<snapshots, undecoded, undecided>>

InterceptorNext ==
  \/ \E f \in HeldFlows, stage \in Stages, held, decodes \in BOOLEAN : Hook(f, stage, held, decodes)
  \/ \E fs \in SUBSET HeldFlows : Forward(fs) \/ Drop(fs)
  \/ \E f \in HeldFlows :
       ForwardEdited(f) \/ \E after \in {Resumed, Killed} : DecisionRaises(f, after)
  \/ Consume \/ Enable \/ Disable

InterceptorSpec == InterceptorInit /\ [][InterceptorNext]_interceptorVars

-----------------------------------------------------------------------------
InterceptorTypeOK ==
  /\ enabled \in BOOLEAN /\ disabled \in BOOLEAN /\ toggles \in Nat
  /\ intercepted \in SUBSET HeldFlows
  /\ phase \in [HeldFlows -> Stages \cup {"new", "upstream", "done", "killed"}]
  /\ snapshots \in Seq([flow : HeldFlows, stage : Stages])
  /\ listed \in [HeldFlows -> Stages \cup {"none"}]
  /\ undecoded \subseteq HeldFlows /\ undecided \subseteq HeldFlows

(* The flows mitmproxy holds are those in a stage of interception, and the *)
(* user sees each of them, or will: it is listed, or its snapshot is in the *)
(* queue, unless no snapshot could be made of it when it was held last.    *)
(* Until the interceptor is first switched off, conversely, what is listed  *)
(* is held, but for a flow some decision released and then raised on.       *)
Snapshot(f) == \E i \in DOMAIN snapshots : snapshots[i].flow = f

HeldIsSeen ==
  /\ \A f \in HeldFlows : f \in intercepted <=> phase[f] \in Stages
  /\ \A f \in intercepted \ undecoded : f \in Listed \/ Snapshot(f)
  /\ ~disabled => Listed \subseteq intercepted \cup undecided
=============================================================================

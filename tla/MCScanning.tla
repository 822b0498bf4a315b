----------------------------- MODULE MCScanning -----------------------------
(***************************************************************************)
(* The scanning side: a behaviour is one of the plugin host with its        *)
(* findings on the HookBus, of a scan of one flow, or of the out-of-band    *)
(* stages at work on their registry.  The three share no state, so that one *)
(* of them at a time moves.                                                *)
(***************************************************************************)
EXTENDS PluginHost, DetectionChain, CanaryCallbacks

VARIABLE part

mcChannelOf == [finding |-> "finding", flow |-> "flow"]
mcClassOf == [finding |-> "critical", flow |-> "best_effort"]
mcQueueSize == [critical |-> 2, important |-> 2, best_effort |-> 1]
mcKeyOf == [finding |-> NoKey, flow |-> NoKey]
mcStageKind == [a |-> "sqli", b |-> "ssrf-simple", c |-> "ssrf-oob"]

scanningVars == <<part, hostVars, chainVars, canaryVars>>

ScanningInit == part \in {"host", "chain", "canary"} /\ HostInit /\ ChainInit /\ CanaryInit

ScanningNext ==
  \/ part = "host" /\ HostNext /\ UNCHANGED <<part, chainVars, canaryVars>>
  \/ part = "chain" /\ ChainNext /\ UNCHANGED <<part, hostVars, canaryVars>>
  \/ part = "canary" /\ CanaryNext /\ UNCHANGED <<part, hostVars, chainVars>>

ScanningSpec ==
  ScanningInit /\ [][ScanningNext]_scanningVars /\ HostFairness /\ ChainFairness

ScanningTypeOK == HostTypeOK /\ HookTypeOK /\ ChainTypeOK /\ CanaryTypeOK
=============================================================================

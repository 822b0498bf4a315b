----------------------------- MODULE PluginHost -----------------------------
(***************************************************************************)
(* The plugin side of the scanner: UniversalPluginLoader and PluginLoader  *)
(* (pwnproxy/plugins/core/loader.py), the consumer tasks it runs over the  *)
(* InProcessBus (pwnproxy/shared/bus/transports/inprocess.py), the         *)
(* AutoScanTracker (pwnproxy/plugins/core/autoscan.py), the toggle handler *)
(* (pwnproxy/transport/rest/plugins.py) and the consumer that stores       *)
(* findings, which come to it over the HookBus (module HookBus).           *)
(*                                                                         *)
(* Every scanner consumes the channel "flow" and produces "finding".       *)
(* A coroutine task is a record of tasks, in creation order; tracked[p] is *)
(* the one _plugin_tasks holds for plugin p.  What a scan computes is not  *)
(* modelled: it yields findings, ends, or raises.                          *)
(***************************************************************************)
EXTENDS HookBus

CONSTANTS
  Plugins,
  MaxFlows,   \* bound: flows the proxy publishes
  MaxToggles  \* bound: toggle requests

ASSUME HostAssumption ==
  /\ {"finding", "flow"} \subseteq Topics /\ ChannelOf["finding"] = "finding"
  /\ "flow" \in Channels /\ IsFiniteSet(Plugins)
  /\ MaxSubscribers > 0 /\ MaxFlows \in Nat /\ MaxToggles \in Nat

VARIABLES
  phase,      \* boot, run, stopping, stopped; aborted: shutdown() raised
  loaded,     \* the keys of _plugins
  disabled,   \* plugins whose metadata.disabled is set
  tasks,
  tracked,    \* _plugin_tasks: [Plugins -> index in tasks, 0 for none]
  unloading,  \* the plugin whose unload() is under way, as a set of none or one
  missed,     \* history: the tasks of a plugin started while it was unloaded
  flows,      \* how many flows were published
  toggles,
  batch,      \* _active: the open window, or NoBatch
  batches,    \* windows opened so far (the batch ids)
  idle,       \* last_activity is more than WINDOW_S ago
  announced   \* history: the autoscan events, in the order published

loaderVars == <<phase, loaded, disabled, tasks, tracked, unloading, missed, toggles>>
consumerVars == <<phase, loaded, disabled, tracked, unloading, missed, toggles>>
trackerVars == <<batch, batches, idle, announced>>
hostVars == <<hookVars, loaderVars, trackerVars, flows>>

NoBatch == [id |-> 0, flows |-> {}, findings |-> 0]
Live == {"created", "waiting", "scanning"}

HostInit ==
  /\ HookInit
  /\ phase = "boot" /\ loaded = Plugins /\ disabled = {}
  /\ tasks = <<>> /\ tracked = [p \in Plugins |-> 0]
  /\ unloading = {} /\ missed = {}
  /\ flows = 0 /\ toggles = 0
  /\ batch = NoBatch /\ batches = 0 /\ idle = FALSE /\ announced = <<>>

-----------------------------------------------------------------------------
NewTask(p) == [plugin |-> p, state |-> "created", q |-> FreshQueue, flow |-> 0]

(* The tasks of the plugins in P are created, and tracked. *)
Spawned(P) == SetToSeq({NewTask(p) : p \in P})

(* start(): a consumer task per plugin, whether or not it is disabled, and *)
(* one for the findings.                                                   *)
LoaderStart ==
  /\ phase = "boot" /\ phase' = "run"
  /\ tasks' = Spawned(loaded)
  /\ tracked' = [p \in Plugins |-> CHOOSE i \in DOMAIN tasks' : tasks'[i].plugin = p]
  /\ UNCHANGED <<hookVars, loaded, disabled, unloading, missed, toggles, trackerVars, flows>>

(* The first run of a consumer: subscribe(). *)
Subscribe(i) ==
  /\ tasks[i].state = "created"
  /\ tasks' = [tasks EXCEPT ![i].state = "waiting"]
  /\ UNCHANGED <<hookVars, consumerVars, trackerVars, flows>>

(* _on_proxy_event() and InProcessBus.publish(): only those subscribed by   *)
(* now get the flow.  The queue a dead task leaves behind is filled too, and *)
(* read by nobody: it is left out.                                          *)
FlowArrives ==
  /\ phase = "run" /\ flows < MaxFlows
  /\ flows' = flows + 1
  /\ tasks' = [i \in DOMAIN tasks |->
       IF tasks[i].state \in {"waiting", "scanning"}
         THEN [tasks[i] EXCEPT !.q = PutIn("flow", @, [topic |-> "flow", n |-> flows'])]
         ELSE tasks[i]]
  /\ UNCHANGED <<hookVars, consumerVars, trackerVars>>

-----------------------------------------------------------------------------
Say(event, b) == [event |-> event, id |-> b]

(* _close_current(): nothing is said of a window without flows. *)
Closing(b) == IF b.flows = {} THEN <<>> ELSE <<Say("completed", b.id)>>

(* Mutant: a window that went idle is replaced without being closed. *)
ReportFlowNoClose(f) ==
  LET fresh == batch = NoBatch \/ idle
      b     == IF fresh THEN [NoBatch EXCEPT !.id = batches + 1] ELSE batch
      now   == [b EXCEPT !.flows = @ \cup {f}]
  IN /\ batch' = now /\ idle' = FALSE
     /\ batches' = IF fresh THEN batches + 1 ELSE batches
     /\ announced' = announced \o
          (IF Cardinality(now.flows) = 1 THEN <<Say("started", b.id)>> ELSE <<>>)

(* report_flow(): closes a window that went idle, opens one if there is    *)
(* none, and announces it whenever it holds one flow.  Its lock is never   *)
(* held across a suspension, so it is one step.                            *)
ReportFlow(f) ==
  LET fresh == batch = NoBatch \/ idle
      b     == IF fresh THEN [NoBatch EXCEPT !.id = batches + 1] ELSE batch
      now   == [b EXCEPT !.flows = @ \cup {f}]
  IN /\ batch' = now /\ idle' = FALSE
     /\ batches' = IF fresh THEN batches + 1 ELSE batches
     /\ announced' = announced
          \o (IF batch # NoBatch /\ idle THEN Closing(batch) ELSE <<>>)
          \o (IF Cardinality(now.flows) = 1 THEN <<Say("started", b.id)>> ELSE <<>>)

(* No flow for WINDOW_S. *)
WindowPasses ==
  /\ batch # NoBatch /\ ~idle /\ idle' = TRUE
  /\ UNCHANGED <<hookVars, loaderVars, batch, batches, announced, flows>>

(* Mutant: the sweep forgets the window without announcing its end. *)
FlushSilently ==
  /\ batch # NoBatch /\ idle
  /\ batch' = NoBatch /\ idle' = FALSE
  /\ UNCHANGED <<hookVars, loaderVars, batches, announced, flows>>

(* _flush_loop(): it runs as long as the process, shutdown() or not. *)
Flush ==
  /\ batch # NoBatch /\ idle
  /\ announced' = announced \o Closing(batch)
  /\ batch' = NoBatch /\ idle' = FALSE
  /\ UNCHANGED <<hookVars, loaderVars, batches, flows>>

-----------------------------------------------------------------------------
(* _run_consumer() takes a flow; _handle_flow() reports it and scans. *)
TakeFlow(i) ==
  /\ tasks[i].state = "waiting" /\ CanGet(tasks[i].q)
  /\ tasks' = [tasks EXCEPT ![i].state = "scanning", ![i].q = AfterGet(@),
                            ![i].flow = NextItem(tasks[i].q).n]
  /\ ReportFlow(NextItem(tasks[i].q).n)
  /\ UNCHANGED <<hookVars, consumerVars, flows>>

(* _publish_results(): the finding, and report_finding(), which counts it in *)
(* whatever window is open.                                                *)
YieldFinding(i) ==
  /\ tasks[i].state = "scanning" /\ PublishedSoFar < MaxPublish
  /\ Publish("finding")
  /\ batch' = IF batch = NoBatch THEN batch ELSE [batch EXCEPT !.findings = @ + 1]
  /\ UNCHANGED <<loaderVars, batches, idle, announced, flows>>

(* on_flow() ends, or raises and takes the task with it. *)
EndScan(i, state) ==
  /\ tasks[i].state = "scanning"
  /\ tasks' = [tasks EXCEPT ![i].state = state, ![i].flow = 0,
                            ![i].q = IF state = "waiting" THEN @ ELSE FreshQueue]
  /\ UNCHANGED <<hookVars, consumerVars, trackerVars, flows>>

(* task.cancel(): a crashed task keeps its exception. *)
Cancelled(t) == IF t.state \in Live
                  THEN [t EXCEPT !.state = "cancelled", !.q = FreshQueue, !.flow = 0]
                  ELSE t

(* activate() *)
Activate(p) ==
  /\ disabled' = disabled \ {p}
  /\ tasks' = Append(tasks, NewTask(p))
  /\ tracked' = [tracked EXCEPT ![p] = Len(tasks')]
  /\ missed' = IF p \in unloading THEN missed \cup {Len(tasks')} ELSE missed

(* Mutant: the task is dropped from the table and not cancelled. *)
DeactivateForgets(p) ==
  /\ disabled' = disabled \cup {p}
  /\ tracked' = [tracked EXCEPT ![p] = 0]
  /\ UNCHANGED <<tasks, missed>>

(* deactivate() *)
Deactivate(p) ==
  /\ disabled' = disabled \cup {p}
  /\ tasks' = IF tracked[p] = 0 THEN tasks ELSE [tasks EXCEPT ![tracked[p]] = Cancelled(@)]
  /\ tracked' = [tracked EXCEPT ![p] = 0]
  /\ UNCHANGED missed

(* POST /plugins/{name}/toggle; a session load does the same to a plugin   *)
(* whose saved flag differs.  An enabled plugin whose task has crashed is   *)
(* disabled by it, never restarted.  start.py cancels the API only after    *)
(* shutdown(), so that a plugin is toggled while plugins are unloaded, too. *)
Toggle(p) ==
  /\ phase \in {"run", "stopping"} /\ toggles < MaxToggles /\ p \in loaded
  /\ toggles' = toggles + 1
  /\ \/ p \in disabled /\ Activate(p)
     \/ p \notin disabled /\ Deactivate(p)
  /\ UNCHANGED <<hookVars, phase, loaded, unloading, trackerVars, flows>>

-----------------------------------------------------------------------------
ShutdownBegins ==
  /\ phase = "run" /\ phase' = "stopping"
  /\ UNCHANGED <<hookVars, loaded, disabled, tasks, tracked, unloading, missed, toggles,
                 trackerVars, flows>>

Crashed(p) == tracked[p] # 0 /\ tasks[tracked[p]].state = "crashed"

(* unload(): the task is taken from the table, cancelled and awaited; the   *)
(* exception of one that crashed comes out of the await at once, and ends   *)
(* shutdown() there.                                                        *)
Unload(p) ==
  /\ phase = "stopping" /\ p \in loaded /\ unloading = {}
  /\ tracked' = [tracked EXCEPT ![p] = 0]
  /\ \/ /\ Crashed(p)
        /\ phase' = "aborted" /\ UNCHANGED <<tasks, unloading>>
     \/ /\ ~Crashed(p)
        /\ tasks' = IF tracked[p] = 0 THEN tasks ELSE [tasks EXCEPT ![tracked[p]] = Cancelled(@)]
        /\ unloading' = {p} /\ UNCHANGED phase
  /\ UNCHANGED <<hookVars, loaded, disabled, missed, toggles, trackerVars, flows>>

(* The cancelled task has ended and on_unload() has closed the client of   *)
(* the scanner: the plugin leaves the table.  Whatever was started for it   *)
(* meanwhile is not looked at again.                                        *)
Unloaded(p) ==
  /\ p \in unloading /\ unloading' = {}
  /\ loaded' = loaded \ {p}
  /\ phase' = IF loaded' = {} THEN "stopped" ELSE phase
  /\ UNCHANGED <<hookVars, disabled, tasks, tracked, missed, toggles, trackerVars, flows>>

-----------------------------------------------------------------------------
(* The first run of _consume_findings(). *)
StorageRegisters ==
  /\ phase # "boot" /\ bus.subs["finding"] = <<>>
  /\ Register("finding")
  /\ UNCHANGED <<loaderVars, trackerVars, flows>>

(* _consume_findings(): a save that raises is logged. *)
StoreFinding ==
  /\ bus.subs["finding"] # <<>>
  /\ Get("finding", 1)
  /\ UNCHANGED <<loaderVars, trackerVars, flows>>

HostNext ==
  \/ LoaderStart
  \/ FlowArrives
  \/ \E i \in DOMAIN tasks :
       \/ Subscribe(i)
       \/ TakeFlow(i)
       \/ YieldFinding(i)
       \/ \E state \in {"waiting", "crashed"} : EndScan(i, state)
  \/ WindowPasses
  \/ Flush
  \/ \E p \in Plugins : Toggle(p) \/ Unload(p) \/ Unloaded(p)
  \/ ShutdownBegins
  \/ StorageRegisters
  \/ StoreFinding

(* The clock advances and the sweep of the windows runs. *)
HostFairness == WF_hostVars(WindowPasses \/ Flush)

HostSpec == HostInit /\ [][HostNext]_hostVars /\ HostFairness

-----------------------------------------------------------------------------
HostTypeOK ==
  /\ phase \in {"boot", "run", "stopping", "stopped", "aborted"}
  /\ loaded \subseteq Plugins /\ disabled \subseteq Plugins
  /\ \A i \in DOMAIN tasks :
       /\ tasks[i].plugin \in Plugins
       /\ tasks[i].state \in Live \cup {"cancelled", "crashed"}
       /\ Len(tasks[i].q.items) <= QueueSize[ClassOf["flow"]]
       /\ Len(tasks[i].q.retry) <= RetryLimit
  /\ tracked \in [Plugins -> 0 .. Len(tasks)]
  /\ unloading \subseteq loaded /\ (\A p, q \in unloading : p = q) /\ missed \subseteq DOMAIN tasks
  /\ batch.id <= batches /\ batch.flows \subseteq 1 .. flows

(* A flow is scanned by a plugin once (loader.py): whatever the order of    *)
(* toggles, crashes and unloads, a live consumer is the one its plugin's    *)
(* entry tracks, so there are never two, and a plugin that is disabled has  *)
(* none.  A plugin that is unloaded has none either, unless a toggle        *)
(* started it while unload() was suspended.  When shutdown() returns, every *)
(* plugin is unloaded; it fails to return only if a consumer had crashed.   *)
OneLiveConsumer ==
  /\ \A i \in DOMAIN tasks : tasks[i].state \in Live =>
       /\ tracked[tasks[i].plugin] = i
       /\ tasks[i].plugin \notin disabled
       /\ tasks[i].plugin \in loaded \ unloading \/ i \in missed
  /\ phase = "stopped" => loaded = {}
  /\ phase = "aborted" => \E i \in DOMAIN tasks : tasks[i].state = "crashed"

(* The windows of the auto-scan, as a client of the events sees them        *)
(* (autoscan.py:3): each is completed at most once, after it was started    *)
(* and not before, the next one starts after the last one ended, and the    *)
(* only one open is the active one.                                         *)
BatchLifecycle ==
  \A i, j \in DOMAIN announced : i < j =>
    /\ announced[i].id <= announced[j].id
    /\ announced[i].event = "completed" => announced[i].id < announced[j].id
    /\ announced[i].id < announced[j].id =>
         \E k \in i .. j - 1 : announced[k] = Say("completed", announced[i].id)

(* Once no flow comes any more, every window that was announced is closed   *)
(* (autoscan.py:127), also when its plugins were disabled or shut down.     *)
BatchIsCompleted ==
  <>[] \A i \in DOMAIN announced : Say("completed", announced[i].id) \in ToSet(announced)
=============================================================================

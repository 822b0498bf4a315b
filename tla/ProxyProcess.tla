---------------------------- MODULE ProxyProcess ----------------------------
(***************************************************************************)
(* ProxyProcess (pwnproxy/services/proxy/proxy_process.py), which starts    *)
(* and stops the worker processes of proxy_worker.py, under the calls of    *)
(* pwnproxy/transport/rest/proxy.py, of SessionManager._apply_proxy_config  *)
(* and of the scope updates (pwnproxy/transport/rest/session.py).  No lock  *)
(* keeps two calls apart.  A session is active, so that a worker is given   *)
(* a database and a scope; the scope is the number of the update it is of.  *)
(***************************************************************************)
EXTENDS Naturals, FiniteSets

CONSTANTS
  ProxyCallers,
  MaxSpawns,     \* bound: workers started
  MaxScopes      \* bound: scope updates

ASSUME ProxyAssumption == MaxSpawns \in Nat /\ MaxScopes \in Nat

WorkerIds == 1 .. MaxSpawns
ProxyOps == {"start", "stop", "restart"}

VARIABLES
  worker,    \* [WorkerIds -> its life, its scope, and whether a SIGUSR1 is on its way]
  proc,      \* _proc, or 0
  bridge,    \* the worker _bridge is connected to, or 0
  proxyCall, \* [ProxyCallers -> where its call is]
  scope,     \* the scope of the session, in memory and in scope.json
  notices,   \* scope updates saved, whose send_scope_update() is to come
  meddled    \* history: two calls, or a call and a scope update, overlapped

proxyVars == <<worker, proc, bridge, proxyCall, scope, notices, meddled>>

NoProxyCall == [pc |-> "idle", op |-> "stop", scope |-> 0, worker |-> 0]

ProxyInit ==
  /\ worker = [w \in WorkerIds |-> [life |-> "none", scope |-> 0, signalled |-> FALSE]]
  /\ proc = 0 /\ bridge = 0 /\ scope = 0 /\ notices = 0 /\ meddled = FALSE
  /\ proxyCall = [c \in ProxyCallers |-> NoProxyCall]

Alive(w) == worker[w].life \in {"starting", "serving", "quitting"}
Running == proc # 0 /\ Alive(proc)
Calling == {c \in ProxyCallers : proxyCall[c].pc # "idle"}
Continue(c, call) == proxyCall' = [proxyCall EXCEPT ![c] = call]

-----------------------------------------------------------------------------
(* SIGTERM.  The handler stops the worker, but main() waits for ever. *)
Terminate(w) ==
  worker' = [worker EXCEPT ![w].life =
               CASE @ = "starting" -> "dead" [] @ = "serving" -> "quitting" [] OTHER -> @]

(* The end of stop(), with the bridge open or not: restart() has start()   *)
(* to do, which stops again.                                               *)
StopEnds(c, call, open) ==
  /\ proc' = 0
  /\ Continue(c, CASE call.op = "stop" -> NoProxyCall
                   [] call.op = "restart" /\ open -> [call EXCEPT !.op = "start", !.pc = "closing"]
                   [] OTHER -> [call EXCEPT !.op = "start", !.pc = "spawning"])

(* Mutant: the worker is told to stop, and forgotten. *)
StopWorkerAndGo(c, call) ==
  IF Running THEN Terminate(proc) /\ StopEnds(c, call, FALSE)
             ELSE StopEnds(c, call, FALSE) /\ UNCHANGED worker

StopWorker(c, call) ==
  IF Running THEN /\ Terminate(proc)
                  /\ Continue(c, [call EXCEPT !.pc = "waiting", !.worker = proc])
                  /\ UNCHANGED proc
             ELSE StopEnds(c, call, FALSE) /\ UNCHANGED worker

(* start(), stop() and restart() stop what runs. *)
ProxyBegins(c, op) ==
  LET call == [NoProxyCall EXCEPT !.op = op, !.scope = scope]
  IN /\ c \notin Calling
     /\ op # "stop" => Cardinality({w \in WorkerIds : worker[w].life # "none"})
                         + Cardinality(Calling) < MaxSpawns
     /\ IF bridge # 0
          THEN Continue(c, [call EXCEPT !.pc = "closing"]) /\ UNCHANGED <<worker, proc>>
          ELSE StopWorker(c, call)
     /\ meddled' = (meddled \/ Calling # {})
     /\ UNCHANGED <<bridge, scope, notices>>

BridgeClosed(c) ==
  /\ proxyCall[c].pc = "closing"
  /\ bridge' = 0
  /\ StopWorker(c, proxyCall[c])
  /\ UNCHANGED <<scope, notices, meddled>>

WorkerGone(c) ==
  /\ proxyCall[c].pc = "waiting" /\ ~Alive(proxyCall[c].worker)
  /\ StopEnds(c, proxyCall[c], bridge # 0)
  /\ UNCHANGED <<worker, bridge, scope, notices, meddled>>

(* After five seconds _proc is killed; that it is None ends the call. *)
KillWorker(c) ==
  /\ proxyCall[c].pc = "waiting" /\ Alive(proxyCall[c].worker)
  /\ IF proc = 0
       THEN Continue(c, NoProxyCall) /\ UNCHANGED worker
       ELSE /\ worker' = [worker EXCEPT ![proc].life = "dead"]
            /\ Continue(c, [proxyCall[c] EXCEPT !.worker = proc])
  /\ UNCHANGED <<proc, bridge, scope, notices, meddled>>

-----------------------------------------------------------------------------
(* create_subprocess_exec() returns: _proc is assigned. *)
Spawn(c) ==
  /\ proxyCall[c].pc = "spawning"
  /\ \E w \in WorkerIds :
       /\ worker[w].life = "none" /\ \A v \in 1 .. w - 1 : worker[v].life # "none"
       /\ worker' = [worker EXCEPT ![w].life = "starting", ![w].scope = proxyCall[c].scope]
       /\ proc' = w
       /\ Continue(c, [proxyCall[c] EXCEPT !.pc = "handshake", !.worker = w])
  /\ UNCHANGED <<bridge, scope, notices, meddled>>

(* The worker installs its signal handlers, and prints its port. *)
WorkerServes(w) ==
  /\ worker[w].life = "starting"
  /\ worker' = [worker EXCEPT ![w].life = "serving"]
  /\ UNCHANGED <<proc, bridge, proxyCall, scope, notices, meddled>>

WorkerDies(w) ==
  /\ Alive(w)
  /\ worker' = [worker EXCEPT ![w].life = "dead"]
  /\ UNCHANGED <<proc, bridge, proxyCall, scope, notices, meddled>>

Handshake(c) ==
  /\ proxyCall[c].pc = "handshake"
  /\ worker[proxyCall[c].worker].life \in {"serving", "quitting"}
  /\ bridge' = proxyCall[c].worker
  /\ Continue(c, NoProxyCall)
  /\ UNCHANGED <<worker, proc, scope, notices, meddled>>

(* No line in five seconds: start() raises, and the worker stays.          *)
HandshakeTimesOut(c) ==
  /\ proxyCall[c].pc = "handshake"
  /\ worker[proxyCall[c].worker].life = "starting"
  /\ Continue(c, NoProxyCall)
  /\ UNCHANGED <<worker, proc, bridge, scope, notices, meddled>>

(* The end of its output: _proc is terminated, and start() raises. *)
HandshakeRefused(c) ==
  /\ proxyCall[c].pc = "handshake" /\ ~Alive(proxyCall[c].worker)
  /\ IF Running THEN Terminate(proc) ELSE UNCHANGED worker
  /\ Continue(c, NoProxyCall)
  /\ UNCHANGED <<proc, bridge, scope, notices, meddled>>

-----------------------------------------------------------------------------
(* update_scope(): the new scope is saved ... *)
ScopeSaved ==
  /\ scope < MaxScopes
  /\ scope' = scope + 1 /\ notices' = notices + 1
  /\ meddled' = (meddled \/ Calling # {})
  /\ UNCHANGED <<worker, proc, bridge, proxyCall>>

(* ... and then the worker is sent SIGUSR1: a worker without a handler dies. *)
SendScopeUpdate ==
  /\ notices > 0 /\ notices' = notices - 1
  /\ IF ~Running THEN UNCHANGED worker
     ELSE worker' = IF worker[proc].life = "starting"
                      THEN [worker EXCEPT ![proc].life = "dead"]
                      ELSE [worker EXCEPT ![proc].signalled = TRUE]
  /\ meddled' = (meddled \/ Calling # {})
  /\ UNCHANGED <<proc, bridge, proxyCall, scope>>

(* reload_scope() *)
ReloadScope(w) ==
  /\ Alive(w) /\ worker[w].signalled
  /\ worker' = [worker EXCEPT ![w].scope = scope, ![w].signalled = FALSE]
  /\ UNCHANGED <<proc, bridge, proxyCall, scope, notices, meddled>>

ProxyNext ==
  \/ \E c \in ProxyCallers :
       \/ \E op \in ProxyOps : ProxyBegins(c, op)
       \/ BridgeClosed(c) \/ WorkerGone(c) \/ KillWorker(c)
       \/ Spawn(c) \/ Handshake(c) \/ HandshakeTimesOut(c) \/ HandshakeRefused(c)
  \/ \E w \in WorkerIds : WorkerServes(w) \/ WorkerDies(w) \/ ReloadScope(w)
  \/ ScopeSaved \/ SendScopeUpdate

ProxySpec == ProxyInit /\ [][ProxyNext]_proxyVars

-----------------------------------------------------------------------------
ProxyTypeOK ==
  /\ \A w \in WorkerIds :
       /\ worker[w].life \in {"none", "starting", "serving", "quitting", "dead"}
       /\ worker[w].scope \in 0 .. scope /\ worker[w].signalled \in BOOLEAN
  /\ proc \in {0} \cup WorkerIds /\ bridge \in {0} \cup WorkerIds
  /\ \A c \in ProxyCallers :
       /\ proxyCall[c].pc \in {"idle", "closing", "waiting", "spawning", "handshake"}
       /\ proxyCall[c].op \in ProxyOps
  /\ scope \in 0 .. MaxScopes /\ notices \in 0 .. MaxScopes /\ meddled \in BOOLEAN

(* As long as neither calls nor scope updates overlap with a call, no       *)
(* worker is left behind: the one that is alive is the one that is known,   *)
(* and the bridge is its own; and when nothing is under way, it has the     *)
(* scope of the session.                                                   *)
OnlyKnownWorker ==
  ~meddled =>
    /\ \A w \in WorkerIds : Alive(w) => w = proc
    /\ bridge # 0 => bridge = proc
    /\ Running /\ Calling = {} /\ notices = 0 /\ ~worker[proc].signalled
         => worker[proc].scope = scope
=============================================================================

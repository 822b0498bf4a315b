---------------------------- MODULE Services_proofs ----------------------------
(***************************************************************************)
(* Proofs about the services of the main process and of its workers, for    *)
(* any number of callers, workers, scope updates, held flows, findings and  *)
(* attacks, any chain of providers, and any lists of markers, words, links  *)
(* and findings.  The components share no state: the theorems are about the *)
(* specification of each, the last two about their composition.            *)
(***************************************************************************)
EXTENDS MCServices, Subsequences_proofs,
        TLAPS, FunctionTheorems, FiniteSetTheorems, SequenceTheorems

-----------------------------------------------------------------------------
(* The proxy process (ProxyProcess). *)

WorkerState == [life      : {"none", "starting", "serving", "quitting", "dead"},
                scope     : 0 .. MaxScopes,
                signalled : BOOLEAN]

CallState == [pc     : {"idle", "closing", "waiting", "spawning", "handshake"},
              op     : ProxyOps,
              scope  : 0 .. MaxScopes,
              worker : {0} \cup WorkerIds]

ProxyTyped ==
  /\ worker \in [WorkerIds -> WorkerState]
  /\ proxyCall \in [ProxyCallers -> CallState]
  /\ proc \in {0} \cup WorkerIds /\ bridge \in {0} \cup WorkerIds
  /\ scope \in 0 .. MaxScopes /\ notices \in 0 .. scope /\ meddled \in BOOLEAN
  /\ \A w \in WorkerIds : worker[w].scope <= scope
  /\ \A c \in ProxyCallers : proxyCall[c].scope <= scope

(* What a call that nothing overlaps with may rely on, wherever it is: the  *)
(* scope is the one it read, the worker it waits for is _proc, and the      *)
(* bridge is closed from the moment the old worker is stopped.             *)
CallKnows(c) ==
  /\ proxyCall[c].pc # "idle" => proxyCall[c].scope = scope
  /\ proxyCall[c].pc = "waiting" => proc # 0 /\ proxyCall[c].worker = proc /\ bridge = 0
  /\ proxyCall[c].pc = "spawning" => proc = 0 /\ bridge = 0
  /\ proxyCall[c].pc = "handshake" =>
       proc # 0 /\ proxyCall[c].worker = proc /\ bridge = 0 /\ worker[proc].scope = scope

OneCall   == \A c, d \in Calling : c = d
CallsKnow == \A c \in ProxyCallers : CallKnows(c)
OnlyAlive == \A w \in WorkerIds : Alive(w) => w = proc
Bridged   == bridge # 0 => bridge = proc
Scoped    == Running /\ Calling = {} /\ notices = 0 /\ ~worker[proc].signalled
               => worker[proc].scope = scope

Undisturbed == OneCall /\ CallsKnow /\ OnlyAlive /\ Bridged /\ Scoped

ProxyIInv == ProxyTyped /\ (~meddled => Undisturbed)

(* The pieces the actions are made of: what each changes. *)
LEMMA ContinueMoves ==
  ASSUME ProxyTyped, NEW c \in ProxyCallers, NEW m \in CallState, Continue(c, m)
  PROVE  /\ proxyCall' \in [ProxyCallers -> CallState]
         /\ proxyCall'[c] = m /\ \A d \in ProxyCallers \ {c} : proxyCall'[d] = proxyCall[d]
BY DEF ProxyTyped, Continue

LEMMA TerminateMoves ==
  ASSUME ProxyTyped, NEW w \in WorkerIds, Terminate(w)
  PROVE  /\ worker' \in [WorkerIds -> WorkerState]
         /\ \A v \in WorkerIds : /\ worker'[v].scope = worker[v].scope
                                 /\ Alive(v)' => Alive(v)
<1>1. worker \in [WorkerIds -> WorkerState]
  BY DEF ProxyTyped
<1>2. PICK life \in {"none", "starting", "serving", "quitting", "dead"} :
        /\ worker' = [worker EXCEPT ![w].life = life]
        /\ life \in {"quitting", "dead", worker[w].life}
        /\ life = "quitting" => worker[w].life \in {"serving", "quitting"}
  BY <1>1 DEF Terminate, WorkerState
<1> QED
  BY <1>1, <1>2 DEF WorkerState, Alive

LEMMA NoProxyCallIsIdle ==
  NoProxyCall \in CallState /\ NoProxyCall.pc = "idle" /\ NoProxyCall.scope = 0
<1>1. 0 \in 0 .. MaxScopes
  BY ProxyAssumption
<1> QED
  BY <1>1 DEF NoProxyCall, CallState, ProxyOps

LEMMA StopEndsMoves ==
  ASSUME ProxyTyped, NEW c \in ProxyCallers, NEW m \in CallState, NEW open \in BOOLEAN,
         StopEnds(c, m, open)
  PROVE  /\ proc' = 0
         /\ proxyCall' \in [ProxyCallers -> CallState]
         /\ \A d \in ProxyCallers \ {c} : proxyCall'[d] = proxyCall[d]
         /\ proxyCall'[c].scope \in {0, m.scope}
         /\ \/ proxyCall'[c].pc = "idle"
            \/ /\ proxyCall'[c].pc = "spawning" \/ (open /\ proxyCall'[c].pc = "closing")
               /\ proxyCall'[c].scope = m.scope
<1> DEFINE closing == [m EXCEPT !.op = "start", !.pc = "closing"]
           spawning == [m EXCEPT !.op = "start", !.pc = "spawning"]
<1>1. /\ closing \in CallState /\ closing.pc = "closing" /\ closing.scope = m.scope
      /\ spawning \in CallState /\ spawning.pc = "spawning" /\ spawning.scope = m.scope
  BY DEF CallState, ProxyOps
<1>2. proc' = 0 /\ \/ Continue(c, NoProxyCall)
                   \/ open /\ Continue(c, closing)
                   \/ Continue(c, spawning)
  BY DEF StopEnds
<1> HIDE DEF closing, spawning
<1> QED
  BY <1>1, <1>2, ContinueMoves, NoProxyCallIsIdle

LEMMA StopWorkerMoves ==
  ASSUME ProxyTyped, NEW c \in ProxyCallers, NEW m \in CallState, StopWorker(c, m)
  PROVE  /\ worker' \in [WorkerIds -> WorkerState]
         /\ \A v \in WorkerIds : /\ worker'[v].scope = worker[v].scope
                                 /\ Alive(v)' => Alive(v)
         /\ proxyCall' \in [ProxyCallers -> CallState]
         /\ \A d \in ProxyCallers \ {c} : proxyCall'[d] = proxyCall[d]
         /\ proxyCall'[c].scope \in {0, m.scope}
         /\ proxyCall'[c].pc # "idle" => proxyCall'[c].scope = m.scope
         /\ \/ /\ proc # 0 /\ proc' = proc
               /\ proxyCall'[c].pc = "waiting" /\ proxyCall'[c].worker = proc
            \/ /\ ~Running /\ proc' = 0 /\ worker' = worker
               /\ proxyCall'[c].pc \in {"idle", "spawning"}
<1>1. CASE Running
  <2> DEFINE waiting == [m EXCEPT !.pc = "waiting", !.worker = proc]
  <2>1. proc \in WorkerIds /\ proc # 0
    BY <1>1 DEF Running, ProxyTyped
  <2>2. waiting \in CallState /\ waiting.pc = "waiting" /\ waiting.worker = proc /\ waiting.scope = m.scope
    BY <2>1 DEF CallState
  <2>3. Terminate(proc) /\ Continue(c, waiting) /\ proc' = proc
    BY <1>1 DEF StopWorker
  <2> HIDE DEF waiting
  <2>4. PICK p \in WorkerIds : p = proc
    BY <2>1
  <2>5. /\ worker' \in [WorkerIds -> WorkerState]
        /\ \A v \in WorkerIds : worker'[v].scope = worker[v].scope /\ (Alive(v)' => Alive(v))
    BY <2>3, <2>4, TerminateMoves
  <2>6. /\ proxyCall' \in [ProxyCallers -> CallState]
        /\ proxyCall'[c] = waiting /\ \A d \in ProxyCallers \ {c} : proxyCall'[d] = proxyCall[d]
    BY <2>2, <2>3, ContinueMoves
  <2> QED
    BY <2>1, <2>2, <2>3, <2>5, <2>6
<1>2. CASE ~Running
  <2>1. StopEnds(c, m, FALSE) /\ worker' = worker
    BY <1>2 DEF StopWorker
  <2>2. /\ worker' \in [WorkerIds -> WorkerState]
        /\ \A v \in WorkerIds : worker'[v].scope = worker[v].scope /\ (Alive(v)' => Alive(v))
    BY <2>1 DEF ProxyTyped, Alive
  <2> QED
    BY <1>2, <2>1, <2>2, StopEndsMoves
<1> QED
  BY <1>1, <1>2

(* A step of the call c, the only one: what remains of Undisturbed. *)
LEMMA OtherCallsIdle ==
  ASSUME Undisturbed, NEW c \in Calling, NEW d \in ProxyCallers \ {c}
  PROVE  proxyCall[d].pc = "idle"
BY DEF Undisturbed, OneCall, Calling

(* The frame: what a step that touches no worker, call, _proc or bridge     *)
(* leaves true.                                                            *)
LEMMA AloneAfter ==
  ASSUME NEW c \in ProxyCallers, \A d \in ProxyCallers \ {c} : proxyCall'[d].pc = "idle"
  PROVE  OneCall'
BY DEF OneCall, Calling

LEMMA CallsKnowAfter ==
  ASSUME NEW c \in ProxyCallers, CallKnows(c)',
         \A d \in ProxyCallers \ {c} : proxyCall'[d].pc = "idle"
  PROVE  CallsKnow'
BY DEF CallsKnow, CallKnows

(* While a call is under way, nothing is asked of the scope of the worker.  *)
LEMMA ScopedAfter ==
  ASSUME NEW c \in ProxyCallers, proxyCall'[c].pc # "idle"
  PROVE  Scoped'
BY DEF Scoped, Calling

LEMMA StopWorkerInvariant ==
  ASSUME ProxyIInv, NEW c \in ProxyCallers, NEW m \in CallState, StopWorker(c, m),
         m.scope <= scope, bridge' = 0, UNCHANGED <<scope, notices>>, meddled' \in BOOLEAN,
         ~meddled' => /\ Undisturbed /\ m.scope = scope
                      /\ \A d \in ProxyCallers \ {c} : proxyCall[d].pc = "idle"
  PROVE  ProxyIInv'
<1>1. ProxyTyped
  BY DEF ProxyIInv
<1>2. /\ worker' \in [WorkerIds -> WorkerState]
      /\ \A v \in WorkerIds : worker'[v].scope = worker[v].scope /\ (Alive(v)' => Alive(v))
      /\ proxyCall' \in [ProxyCallers -> CallState]
      /\ \A d \in ProxyCallers \ {c} : proxyCall'[d] = proxyCall[d]
      /\ proxyCall'[c].scope \in {0, m.scope}
      /\ proxyCall'[c].pc # "idle" => proxyCall'[c].scope = m.scope
      /\ \/ proc # 0 /\ proc' = proc /\ proxyCall'[c].pc = "waiting" /\ proxyCall'[c].worker = proc
         \/ /\ ~Running /\ proc' = 0 /\ worker' = worker
            /\ proxyCall'[c].pc \in {"idle", "spawning"}
  BY <1>1, StopWorkerMoves
<1>3. ProxyTyped'
  <2>1. scope \in 0 .. MaxScopes /\ 0 <= scope
    BY <1>1, ProxyAssumption DEF ProxyTyped
  <2> QED
    BY <1>1, <1>2, <2>1 DEF ProxyTyped
<1>4. ASSUME ~meddled'
      PROVE  Undisturbed'
  <2>1. /\ Undisturbed /\ m.scope = scope
        /\ \A d \in ProxyCallers \ {c} : proxyCall'[d].pc = "idle"
    BY <1>2, <1>4
  <2>2. OneCall'
    BY <2>1, AloneAfter
  <2>3. CallKnows(c)'
    BY <1>2, <2>1 DEF CallKnows
  <2>4. CallsKnow'
    BY <2>1, <2>3, CallsKnowAfter
  <2>5. OnlyAlive' /\ Bridged'
    BY <1>2, <2>1 DEF Undisturbed, OnlyAlive, Bridged, Running
  <2>6. Scoped'
    <3>1. CASE proxyCall'[c].pc # "idle"
      BY <3>1, ScopedAfter
    <3>2. CASE proxyCall'[c].pc = "idle"
      BY <1>2, <3>2 DEF Scoped, Running
    <3> QED
      BY <3>1, <3>2
  <2> QED
    BY <2>2, <2>4, <2>5, <2>6 DEF Undisturbed
<1> QED
  BY <1>3, <1>4 DEF ProxyIInv

LEMMA ProxyBeginsInvariant ==
  ASSUME ProxyIInv, NEW c \in ProxyCallers, NEW op \in ProxyOps, ProxyBegins(c, op)
  PROVE  ProxyIInv'
<1> DEFINE m == [NoProxyCall EXCEPT !.op = op, !.scope = scope]
           closing == [m EXCEPT !.pc = "closing"]
<1>1. ProxyTyped
  BY DEF ProxyIInv
<1>2. scope \in 0 .. MaxScopes /\ scope <= scope
  BY <1>1, ProxyAssumption DEF ProxyTyped
<1>3. /\ m \in CallState /\ m.scope = scope
      /\ closing \in CallState /\ closing.pc = "closing" /\ closing.scope = scope
  BY <1>2, NoProxyCallIsIdle DEF NoProxyCall, CallState
<1>4. /\ IF bridge # 0 THEN Continue(c, closing) /\ UNCHANGED <<worker, proc>> ELSE StopWorker(c, m)
      /\ meddled' = (meddled \/ Calling # {}) /\ UNCHANGED <<bridge, scope, notices>>
  BY DEF ProxyBegins
<1> HIDE DEF m, closing
<1>5. meddled' \in BOOLEAN
  BY <1>1, <1>4 DEF ProxyTyped
<1>6. ~meddled' => Undisturbed /\ \A d \in ProxyCallers \ {c} : proxyCall[d].pc = "idle"
  BY <1>4 DEF ProxyIInv, Calling
<1>7. CASE bridge = 0
  BY <1>2, <1>3, <1>4, <1>5, <1>6, <1>7, StopWorkerInvariant
<1>8. CASE bridge # 0
  <2>1. /\ proxyCall' \in [ProxyCallers -> CallState]
        /\ proxyCall'[c] = closing /\ \A d \in ProxyCallers \ {c} : proxyCall'[d] = proxyCall[d]
        /\ UNCHANGED <<worker, proc, bridge, scope, notices>>
    BY <1>1, <1>3, <1>4, <1>8, ContinueMoves
  <2>2. ProxyTyped'
    BY <1>1, <1>2, <1>3, <1>5, <2>1 DEF ProxyTyped
  <2>3. ASSUME ~meddled'
        PROVE  Undisturbed'
    <3>1. Undisturbed /\ \A d \in ProxyCallers \ {c} : proxyCall'[d].pc = "idle"
      BY <1>6, <2>1, <2>3
    <3>2. OneCall'
      BY <3>1, AloneAfter
    <3>3. CallKnows(c)' /\ proxyCall'[c].pc # "idle"
      BY <1>3, <2>1 DEF CallKnows
    <3>4. CallsKnow' /\ Scoped'
      BY <3>1, <3>3, CallsKnowAfter, ScopedAfter
    <3>5. OnlyAlive' /\ Bridged'
      BY <2>1, <3>1 DEF Undisturbed, OnlyAlive, Bridged, Alive
    <3> QED
      BY <3>2, <3>4, <3>5 DEF Undisturbed
  <2> QED
    BY <2>2, <2>3 DEF ProxyIInv
<1> QED
  BY <1>7, <1>8

(* What every later step of a call has in common: it is the only one.       *)
LEMMA InCall ==
  ASSUME ProxyIInv, NEW c \in ProxyCallers, proxyCall[c].pc # "idle", meddled' = meddled
  PROVE  /\ ProxyTyped /\ meddled' \in BOOLEAN
         /\ proxyCall[c] \in CallState /\ proxyCall[c].scope <= scope
         /\ scope \in 0 .. MaxScopes /\ 0 <= scope
         /\ ~meddled' => /\ Undisturbed /\ CallKnows(c) /\ proxyCall[c].scope = scope
                         /\ \A d \in ProxyCallers \ {c} : proxyCall[d].pc = "idle"
<1>1. c \in Calling
  BY DEF Calling
<1>2. ~meddled' => Undisturbed /\ CallKnows(c) /\ proxyCall[c].scope = scope
  BY DEF ProxyIInv, Undisturbed, CallsKnow, CallKnows
<1>3. ~meddled' => \A d \in ProxyCallers \ {c} : proxyCall[d].pc = "idle"
  BY <1>1, <1>2, OtherCallsIdle
<1>4. scope \in 0 .. MaxScopes /\ 0 <= scope
  BY ProxyAssumption DEF ProxyIInv, ProxyTyped
<1> QED
  BY <1>2, <1>3, <1>4 DEF ProxyIInv, ProxyTyped

LEMMA StoppingInvariant ==
  ASSUME ProxyIInv, NEW c \in ProxyCallers, BridgeClosed(c) \/ WorkerGone(c) \/ KillWorker(c)
  PROVE  ProxyIInv'
<1>1. proxyCall[c].pc # "idle" /\ meddled' = meddled /\ UNCHANGED <<scope, notices>>
  BY DEF BridgeClosed, WorkerGone, KillWorker
<1>2. /\ ProxyTyped /\ meddled' \in BOOLEAN
      /\ proxyCall[c] \in CallState /\ proxyCall[c].scope <= scope
      /\ scope \in 0 .. MaxScopes /\ 0 <= scope
      /\ ~meddled' => /\ Undisturbed /\ CallKnows(c) /\ proxyCall[c].scope = scope
                      /\ \A d \in ProxyCallers \ {c} : proxyCall[d].pc = "idle"
  BY <1>1, InCall
<1>3. PICK m \in CallState : m = proxyCall[c]
  BY <1>2
<1>4. CASE BridgeClosed(c)
  <2>1. StopWorker(c, m) /\ bridge' = 0
    BY <1>3, <1>4 DEF BridgeClosed
  <2> QED
    BY <1>1, <1>2, <1>3, <2>1, StopWorkerInvariant
<1>5. CASE WorkerGone(c)
  <2>1. /\ StopEnds(c, m, bridge # 0) /\ UNCHANGED <<worker, bridge>>
        /\ m.pc = "waiting" /\ ~Alive(m.worker)
    BY <1>3, <1>5 DEF WorkerGone
  <2>2. /\ proc' = 0
        /\ proxyCall' \in [ProxyCallers -> CallState]
        /\ \A d \in ProxyCallers \ {c} : proxyCall'[d] = proxyCall[d]
        /\ proxyCall'[c].scope \in {0, m.scope}
        /\ \/ proxyCall'[c].pc = "idle"
           \/ /\ proxyCall'[c].pc = "spawning" \/ (bridge # 0 /\ proxyCall'[c].pc = "closing")
              /\ proxyCall'[c].scope = m.scope
    <3>1. (bridge # 0) \in BOOLEAN
      OBVIOUS
    <3> QED
      BY <1>2, <2>1, <3>1, StopEndsMoves
  <2>3. ProxyTyped'
    BY <1>1, <1>2, <1>3, <2>1, <2>2 DEF ProxyTyped
  <2>4. ASSUME ~meddled'
        PROVE  Undisturbed'
    <3>1. /\ Undisturbed /\ m.scope = scope /\ proc # 0 /\ m.worker = proc /\ bridge = 0
          /\ \A d \in ProxyCallers \ {c} : proxyCall'[d].pc = "idle"
      BY <1>2, <1>3, <2>1, <2>2, <2>4 DEF CallKnows
    <3>2. OneCall'
      BY <3>1, AloneAfter
    <3>3. CallKnows(c)'
      BY <1>1, <2>1, <2>2, <3>1 DEF CallKnows
    <3>4. CallsKnow'
      BY <3>1, <3>3, CallsKnowAfter
    <3>5. OnlyAlive' /\ Bridged'
      BY <2>1, <2>2, <3>1 DEF Undisturbed, OnlyAlive, Bridged, Alive
    <3>6. Scoped'
      BY <2>2 DEF Scoped, Running
    <3> QED
      BY <3>2, <3>4, <3>5, <3>6 DEF Undisturbed
  <2> QED
    BY <2>3, <2>4 DEF ProxyIInv
<1>6. CASE KillWorker(c)
  <2>1. m.pc = "waiting" /\ UNCHANGED <<proc, bridge>>
    BY <1>3, <1>6 DEF KillWorker
  <2>2. CASE proc = 0
    <3>1. Continue(c, NoProxyCall) /\ UNCHANGED worker
      BY <1>6, <2>2 DEF KillWorker
    <3>2. /\ proxyCall' \in [ProxyCallers -> CallState]
          /\ proxyCall'[c] = NoProxyCall /\ \A d \in ProxyCallers \ {c} : proxyCall'[d] = proxyCall[d]
      BY <1>2, <3>1, ContinueMoves, NoProxyCallIsIdle
    <3>3. ProxyTyped'
      BY <1>1, <1>2, <2>1, <3>1, <3>2, NoProxyCallIsIdle DEF ProxyTyped
    <3>4. meddled'
      BY <1>2, <1>3, <2>1, <2>2 DEF CallKnows
    <3> QED
      BY <3>3, <3>4 DEF ProxyIInv
  <2>3. CASE proc # 0
    <3> DEFINE killing == [m EXCEPT !.worker = proc]
    <3>1. /\ worker' = [worker EXCEPT ![proc].life = "dead"] /\ Continue(c, killing)
      BY <1>3, <1>6, <2>3 DEF KillWorker
    <3>2. proc \in WorkerIds
      BY <1>2, <2>3 DEF ProxyTyped
    <3>3. /\ killing \in CallState /\ killing.pc = "waiting" /\ killing.worker = proc
          /\ killing.scope = m.scope
      BY <2>1, <3>2 DEF CallState
    <3> HIDE DEF killing
    <3>4. /\ proxyCall' \in [ProxyCallers -> CallState]
          /\ proxyCall'[c] = killing /\ \A d \in ProxyCallers \ {c} : proxyCall'[d] = proxyCall[d]
      BY <1>2, <3>1, <3>3, ContinueMoves
    <3>5. /\ worker' \in [WorkerIds -> WorkerState]
          /\ \A v \in WorkerIds : worker'[v].scope = worker[v].scope /\ (Alive(v)' => Alive(v))
      BY <1>2, <3>1, <3>2 DEF ProxyTyped, WorkerState, Alive
    <3>6. ProxyTyped'
      BY <1>1, <1>2, <1>3, <2>1, <3>3, <3>4, <3>5 DEF ProxyTyped
    <3>7. ASSUME ~meddled'
          PROVE  Undisturbed'
      <4>1. /\ Undisturbed /\ m.scope = scope /\ bridge = 0
            /\ \A d \in ProxyCallers \ {c} : proxyCall'[d].pc = "idle"
        BY <1>2, <1>3, <2>1, <3>4, <3>7 DEF CallKnows
      <4>2. OneCall'
        BY <4>1, AloneAfter
      <4>3. CallKnows(c)' /\ proxyCall'[c].pc # "idle"
        BY <1>1, <2>1, <2>3, <3>3, <3>4, <4>1 DEF CallKnows
      <4>4. CallsKnow' /\ Scoped'
        BY <4>1, <4>3, CallsKnowAfter, ScopedAfter
      <4>5. OnlyAlive' /\ Bridged'
        BY <2>1, <3>5, <4>1 DEF Undisturbed, OnlyAlive, Bridged
      <4> QED
        BY <4>2, <4>4, <4>5 DEF Undisturbed
    <3> QED
      BY <3>6, <3>7 DEF ProxyIInv
  <2> QED
    BY <2>2, <2>3
<1> QED
  BY <1>4, <1>5, <1>6

LEMMA SpawnInvariant ==
  ASSUME ProxyIInv, NEW c \in ProxyCallers, Spawn(c)
  PROVE  ProxyIInv'
<1>1. proxyCall[c].pc = "spawning" /\ meddled' = meddled /\ UNCHANGED <<bridge, scope, notices>>
  BY DEF Spawn
<1>2. /\ ProxyTyped /\ meddled' \in BOOLEAN
      /\ proxyCall[c] \in CallState /\ proxyCall[c].scope <= scope
      /\ scope \in 0 .. MaxScopes /\ 0 <= scope
      /\ ~meddled' => /\ Undisturbed /\ CallKnows(c) /\ proxyCall[c].scope = scope
                      /\ \A d \in ProxyCallers \ {c} : proxyCall[d].pc = "idle"
  BY <1>1, InCall
<1>3. PICK m \in CallState : m = proxyCall[c]
  BY <1>2
<1> DEFINE spawned(w) == [m EXCEPT !.pc = "handshake", !.worker = w]
<1>4. PICK w \in WorkerIds :
        /\ worker' = [worker EXCEPT ![w].life = "starting", ![w].scope = m.scope]
        /\ proc' = w /\ Continue(c, spawned(w))
  BY <1>3 DEF Spawn
<1>5. /\ spawned(w) \in CallState /\ spawned(w).pc = "handshake" /\ spawned(w).worker = w
      /\ spawned(w).scope = m.scope
  BY DEF CallState
<1> HIDE DEF spawned
<1>6. /\ proxyCall' \in [ProxyCallers -> CallState]
      /\ proxyCall'[c] = spawned(w) /\ \A d \in ProxyCallers \ {c} : proxyCall'[d] = proxyCall[d]
  BY <1>2, <1>4, <1>5, ContinueMoves
<1>7. m.scope \in 0 .. MaxScopes
  BY DEF CallState
<1>8. /\ worker' \in [WorkerIds -> WorkerState]
      /\ worker'[w].scope = m.scope /\ \A v \in WorkerIds \ {w} : worker'[v] = worker[v]
  BY <1>2, <1>4, <1>7 DEF ProxyTyped, WorkerState
<1>9. ProxyTyped'
  BY <1>1, <1>2, <1>3, <1>4, <1>5, <1>6, <1>8 DEF ProxyTyped
<1>10. ASSUME ~meddled'
       PROVE  Undisturbed'
  <2>1. /\ Undisturbed /\ m.scope = scope /\ proc = 0 /\ bridge = 0
        /\ \A d \in ProxyCallers \ {c} : proxyCall'[d].pc = "idle"
    BY <1>1, <1>2, <1>3, <1>6, <1>10 DEF CallKnows
  <2>2. OneCall'
    BY <2>1, AloneAfter
  <2>3. w # 0
    BY ProxyAssumption DEF WorkerIds
  <2>4. CallKnows(c)' /\ proxyCall'[c].pc # "idle"
    BY <1>1, <1>4, <1>5, <1>6, <1>8, <2>1, <2>3 DEF CallKnows
  <2>5. CallsKnow' /\ Scoped'
    BY <2>1, <2>4, CallsKnowAfter, ScopedAfter
  <2>6. \A v \in WorkerIds : ~Alive(v)
    BY <2>1, ProxyAssumption DEF Undisturbed, OnlyAlive, WorkerIds
  <2>7. OnlyAlive'
    BY <1>4, <1>8, <2>6 DEF OnlyAlive, Alive
  <2>8. Bridged'
    BY <1>1, <2>1 DEF Bridged
  <2> QED
    BY <2>2, <2>5, <2>7, <2>8 DEF Undisturbed
<1> QED
  BY <1>9, <1>10 DEF ProxyIInv

LEMMA HandshakeInvariant ==
  ASSUME ProxyIInv, NEW c \in ProxyCallers,
         Handshake(c) \/ HandshakeTimesOut(c) \/ HandshakeRefused(c)
  PROVE  ProxyIInv'
<1>1. /\ proxyCall[c].pc = "handshake" /\ meddled' = meddled /\ UNCHANGED <<proc, scope, notices>>
      /\ Continue(c, NoProxyCall)
      /\ bridge' \in {bridge, proxyCall[c].worker}
  BY DEF Handshake, HandshakeTimesOut, HandshakeRefused
<1>2. /\ ProxyTyped /\ meddled' \in BOOLEAN
      /\ proxyCall[c] \in CallState /\ proxyCall[c].scope <= scope
      /\ scope \in 0 .. MaxScopes /\ 0 <= scope
      /\ ~meddled' => /\ Undisturbed /\ CallKnows(c) /\ proxyCall[c].scope = scope
                      /\ \A d \in ProxyCallers \ {c} : proxyCall[d].pc = "idle"
  BY <1>1, InCall
<1>3. /\ proxyCall' \in [ProxyCallers -> CallState]
      /\ proxyCall'[c] = NoProxyCall /\ \A d \in ProxyCallers \ {c} : proxyCall'[d] = proxyCall[d]
  BY <1>1, <1>2, ContinueMoves, NoProxyCallIsIdle
<1>4. /\ worker' \in [WorkerIds -> WorkerState]
      /\ \A v \in WorkerIds : worker'[v].scope = worker[v].scope /\ (Alive(v)' => Alive(v))
  <2>1. CASE worker' = worker
    BY <1>2, <2>1 DEF ProxyTyped, Alive
  <2>2. CASE Running /\ Terminate(proc)
    <3>1. PICK w \in WorkerIds : w = proc
      BY <1>2, <2>2 DEF ProxyTyped, Running
    <3> QED
      BY <1>2, <2>2, <3>1, TerminateMoves
  <2> QED
    BY <2>1, <2>2 DEF Handshake, HandshakeTimesOut, HandshakeRefused
<1>5. bridge' \in {0} \cup WorkerIds
  BY <1>1, <1>2 DEF ProxyTyped, CallState
<1>6. ProxyTyped'
  BY <1>1, <1>2, <1>3, <1>4, <1>5, NoProxyCallIsIdle DEF ProxyTyped
<1>7. ASSUME ~meddled'
      PROVE  Undisturbed'
  <2>1. /\ Undisturbed /\ proxyCall[c].worker = proc /\ bridge = 0 /\ proc # 0
        /\ worker[proc].scope = scope
        /\ \A d \in ProxyCallers : proxyCall'[d].pc = "idle"
    BY <1>1, <1>2, <1>3, <1>7, NoProxyCallIsIdle DEF CallKnows
  <2>2. OneCall' /\ CallsKnow'
    BY <2>1 DEF OneCall, CallsKnow, CallKnows, Calling
  <2>3. OnlyAlive' /\ Bridged'
    BY <1>1, <1>4, <2>1 DEF Undisturbed, OnlyAlive, Bridged
  <2>4. proc \in WorkerIds
    BY <1>2, <2>1 DEF ProxyTyped
  <2>5. Scoped'
    BY <1>1, <1>4, <2>1, <2>4 DEF Scoped
  <2> QED
    BY <2>2, <2>3, <2>5 DEF Undisturbed
<1> QED
  BY <1>6, <1>7 DEF ProxyIInv

(* What the workers do by themselves. *)
LEMMA WorkerInvariant ==
  ASSUME ProxyIInv, NEW w \in WorkerIds, WorkerServes(w) \/ WorkerDies(w) \/ ReloadScope(w)
  PROVE  ProxyIInv'
<1>1. ProxyTyped /\ UNCHANGED <<proc, bridge, proxyCall, scope, notices, meddled>>
  BY DEF ProxyIInv, WorkerServes, WorkerDies, ReloadScope
<1>2. /\ worker' \in [WorkerIds -> WorkerState]
      /\ \A v \in WorkerIds : /\ worker'[v].scope \in {worker[v].scope, scope}
                              /\ Alive(v)' => Alive(v)
                              /\ worker[v].signalled /\ ~worker'[v].signalled => worker'[v].scope = scope
  <2>1. CASE WorkerServes(w) \/ WorkerDies(w)
    <3>1. PICK life \in {"serving", "dead"} : worker' = [worker EXCEPT ![w].life = life]
      BY <2>1 DEF WorkerServes, WorkerDies
    <3>2. Alive(w)
      BY <2>1 DEF WorkerServes, WorkerDies, Alive
    <3> QED
      BY <1>1, <3>1, <3>2 DEF ProxyTyped, WorkerState, Alive
  <2>2. CASE ReloadScope(w)
    <3>1. worker' = [worker EXCEPT ![w].scope = scope, ![w].signalled = FALSE]
      BY <2>2 DEF ReloadScope
    <3> QED
      BY <1>1, <3>1 DEF ProxyTyped, WorkerState, Alive
  <2> QED
    BY <2>1, <2>2
<1>3. ProxyTyped'
  <2>1. scope \in 0 .. MaxScopes /\ scope <= scope
    BY <1>1, ProxyAssumption DEF ProxyTyped
  <2> QED
    BY <1>1, <1>2, <2>1 DEF ProxyTyped
<1>4. ASSUME ~meddled'
      PROVE  Undisturbed'
  <2>1. Undisturbed
    BY <1>1, <1>4 DEF ProxyIInv
  <2>2. OneCall' /\ OnlyAlive' /\ Bridged'
    BY <1>1, <1>2, <2>1 DEF Undisturbed, OneCall, Calling, OnlyAlive, Bridged
  <2>3. CallsKnow'
    <3> SUFFICES ASSUME NEW c \in ProxyCallers PROVE CallKnows(c)'
      BY DEF CallsKnow
    <3>1. CallKnows(c) /\ proc \in {0} \cup WorkerIds
      BY <1>1, <2>1 DEF Undisturbed, CallsKnow, ProxyTyped
    <3>2. proc # 0 /\ worker[proc].scope = scope => worker'[proc].scope = scope
      BY <1>2, <3>1
    <3> QED
      BY <1>1, <3>1, <3>2 DEF CallKnows
  <2>4. Scoped'
    <3>1. SUFFICES ASSUME Running', Calling' = {}, notices' = 0, ~worker'[proc].signalled
                   PROVE  worker'[proc].scope = scope
      BY <1>1 DEF Scoped
    <3>2. proc \in WorkerIds /\ Running /\ Calling = {} /\ notices = 0
      BY <1>1, <1>2, <3>1 DEF Running, ProxyTyped, Calling
    <3>3. CASE worker[proc].signalled
      BY <1>2, <3>1, <3>2, <3>3
    <3>4. CASE ~worker[proc].signalled
      BY <1>2, <2>1, <3>2, <3>4 DEF Undisturbed, Scoped
    <3> QED
      BY <3>3, <3>4
  <2> QED
    BY <2>2, <2>3, <2>4 DEF Undisturbed
<1> QED
  BY <1>3, <1>4 DEF ProxyIInv

(* The two halves of a scope update: undisturbed ones meet no call.         *)
LEMMA ScopeInvariant ==
  ASSUME ProxyIInv, ScopeSaved \/ SendScopeUpdate
  PROVE  ProxyIInv'
<1>1. /\ ProxyTyped /\ UNCHANGED <<proc, bridge, proxyCall>>
      /\ meddled' = (meddled \/ Calling # {})
  BY DEF ProxyIInv, ScopeSaved, SendScopeUpdate
<1>2. scope \in Nat /\ MaxScopes \in Nat /\ scope <= MaxScopes /\ notices \in Nat /\ notices <= scope
  BY <1>1, ProxyAssumption DEF ProxyTyped
<1>3. /\ worker' \in [WorkerIds -> WorkerState]
      /\ \A v \in WorkerIds : worker'[v].scope = worker[v].scope /\ (Alive(v)' => Alive(v))
  <2>1. CASE worker' = worker
    BY <1>1, <2>1 DEF ProxyTyped, Alive
  <2>2. CASE Running /\ \/ worker' = [worker EXCEPT ![proc].life = "dead"]
                         \/ worker' = [worker EXCEPT ![proc].signalled = TRUE]
    <3>1. PICK p \in WorkerIds : p = proc /\ Alive(p)
      BY <1>1, <2>2 DEF ProxyTyped, Running
    <3>2. worker \in [WorkerIds -> WorkerState]
      BY <1>1 DEF ProxyTyped
    <3>3. CASE worker' = [worker EXCEPT ![p].life = "dead"]
      BY <3>1, <3>2, <3>3 DEF WorkerState, Alive
    <3>4. CASE worker' = [worker EXCEPT ![p].signalled = TRUE]
      BY <3>1, <3>2, <3>4 DEF WorkerState, Alive
    <3> QED
      BY <2>2, <3>1, <3>3, <3>4
  <2> QED
    BY <2>1, <2>2 DEF ScopeSaved, SendScopeUpdate
<1>4. /\ scope' \in {scope, scope + 1} /\ scope' <= MaxScopes
      /\ notices' \in 0 .. scope'
      /\ notices' = 0 => scope' = scope
  <2>1. CASE ScopeSaved
    BY <1>2, <2>1 DEF ScopeSaved
  <2>2. CASE SendScopeUpdate
    BY <1>2, <2>2 DEF SendScopeUpdate
  <2> QED
    BY <2>1, <2>2
<1>5. ProxyTyped'
  <2>1. scope' \in 0 .. MaxScopes /\ meddled' \in BOOLEAN
    BY <1>1, <1>2, <1>4 DEF ProxyTyped
  <2>2. \A w \in WorkerIds : worker'[w].scope <= scope'
    <3> SUFFICES ASSUME NEW w \in WorkerIds PROVE worker'[w].scope <= scope'
      OBVIOUS
    <3>1. worker[w].scope \in 0 .. MaxScopes /\ worker[w].scope <= scope
      BY <1>1 DEF ProxyTyped, WorkerState
    <3> QED
      BY <1>2, <1>3, <1>4, <3>1
  <2>3. \A c \in ProxyCallers : proxyCall'[c].scope <= scope'
    <3> SUFFICES ASSUME NEW c \in ProxyCallers PROVE proxyCall'[c].scope <= scope'
      OBVIOUS
    <3>1. proxyCall[c].scope \in 0 .. MaxScopes /\ proxyCall[c].scope <= scope
      BY <1>1 DEF ProxyTyped, CallState
    <3> QED
      BY <1>1, <1>2, <1>4, <3>1
  <2> QED
    BY <1>1, <1>3, <1>4, <2>1, <2>2, <2>3 DEF ProxyTyped
<1>6. ASSUME ~meddled'
      PROVE  Undisturbed'
  <2>1. Undisturbed /\ Calling = {}
    BY <1>1, <1>6 DEF ProxyIInv
  <2>2. OneCall' /\ OnlyAlive' /\ Bridged'
    BY <1>1, <1>3, <2>1 DEF Undisturbed, OneCall, Calling, OnlyAlive, Bridged
  <2>3. CallsKnow'
    BY <1>1, <2>1 DEF CallsKnow, CallKnows, Calling
  <2>4. Scoped'
    <3>1. SUFFICES ASSUME Running', notices' = 0, ~worker'[proc].signalled
                   PROVE  worker'[proc].scope = scope'
      BY <1>1 DEF Scoped
    <3>2. proc \in WorkerIds /\ Running
      BY <1>1, <1>3, <3>1 DEF Running, ProxyTyped
    <3>3. CASE ScopeSaved
      BY <1>2, <3>1, <3>3 DEF ScopeSaved
    <3>4. CASE SendScopeUpdate
      <4>1. ~(worker' = [worker EXCEPT ![proc].life = "dead"])
        BY <1>1, <3>1, <3>2 DEF Running, Alive, ProxyTyped, WorkerState
      <4>2. worker' = [worker EXCEPT ![proc].signalled = TRUE]
        BY <3>2, <3>4, <4>1 DEF SendScopeUpdate
      <4>3. worker'[proc].signalled
        BY <1>1, <3>2, <4>2 DEF ProxyTyped, WorkerState
      <4> QED
        BY <3>1, <4>3
    <3> QED
      BY <3>3, <3>4
  <2> QED
    BY <2>2, <2>3, <2>4 DEF Undisturbed
<1> QED
  BY <1>5, <1>6 DEF ProxyIInv

LEMMA ProxyInitInvariant == ProxyInit => ProxyIInv
<1> SUFFICES ASSUME ProxyInit PROVE ProxyIInv
  OBVIOUS
<1>1. 0 \in 0 .. MaxScopes /\ 0 \in 0 .. 0 /\ 0 <= 0
  BY ProxyAssumption
<1>2. ProxyTyped
  BY <1>1, NoProxyCallIsIdle DEF ProxyInit, ProxyTyped, WorkerState
<1>3. Calling = {} /\ ~Running /\ \A w \in WorkerIds : ~Alive(w)
  BY NoProxyCallIsIdle DEF ProxyInit, Calling, Running, Alive
<1>4. Undisturbed
  BY <1>3, NoProxyCallIsIdle
     DEF ProxyInit, Undisturbed, OneCall, CallsKnow, CallKnows, OnlyAlive, Bridged, Scoped
<1> QED
  BY <1>2, <1>4 DEF ProxyIInv

LEMMA ProxyNextInvariant ==
  ASSUME ProxyIInv, [ProxyNext]_proxyVars
  PROVE  ProxyIInv'
<1>1. CASE ProxyNext
  BY <1>1, ProxyBeginsInvariant, StoppingInvariant, SpawnInvariant, HandshakeInvariant,
     WorkerInvariant, ScopeInvariant DEF ProxyNext
<1>2. CASE UNCHANGED proxyVars
  BY <1>2 DEF proxyVars, ProxyIInv, ProxyTyped, Undisturbed, OneCall, CallsKnow, CallKnows,
              OnlyAlive, Bridged, Scoped, Calling, Running, Alive
<1> QED
  BY <1>1, <1>2

LEMMA ProxyInvariant == ProxySpec => []ProxyIInv
BY ProxyInitInvariant, ProxyNextInvariant, PTL DEF ProxySpec

(* The workers, the calls and the scope of the proxy process hold values of *)
(* their types; no worker has a scope that was never saved.                *)
THEOREM ProxyTypeCorrect == ProxySpec => []ProxyTypeOK
<1>1. ProxyIInv => ProxyTypeOK
  <2> SUFFICES ASSUME ProxyTyped PROVE ProxyTypeOK
    BY DEF ProxyIInv
  <2>1. scope \in Nat /\ MaxScopes \in Nat /\ scope <= MaxScopes
    BY ProxyAssumption DEF ProxyTyped
  <2>2. \A w \in WorkerIds :
          /\ worker[w].life \in {"none", "starting", "serving", "quitting", "dead"}
          /\ worker[w].scope \in 0 .. scope /\ worker[w].signalled \in BOOLEAN
    BY <2>1 DEF ProxyTyped, WorkerState
  <2>3. \A c \in ProxyCallers :
          /\ proxyCall[c].pc \in {"idle", "closing", "waiting", "spawning", "handshake"}
          /\ proxyCall[c].op \in ProxyOps
    BY DEF ProxyTyped, CallState
  <2>4. notices \in 0 .. MaxScopes
    BY <2>1 DEF ProxyTyped
  <2> QED
    BY <2>2, <2>3, <2>4 DEF ProxyTyped, ProxyTypeOK
<1> QED
  BY <1>1, ProxyInvariant, PTL

(* As long as neither calls nor scope updates overlap with a call, the only *)
(* worker alive is the one _proc names, the bridge is its own, and when     *)
(* nothing is under way it has the scope of the session: each call stops    *)
(* the worker it found and waits for its end before it starts another.     *)
THEOREM WorkerIsKnown == ProxySpec => []OnlyKnownWorker
<1>1. ProxyIInv => OnlyKnownWorker
  BY DEF ProxyIInv, Undisturbed, OnlyAlive, Bridged, Scoped, OnlyKnownWorker
<1> QED
  BY <1>1, ProxyInvariant, PTL

-----------------------------------------------------------------------------
(* The flows that are held (Interceptor). *)

(* Until the interceptor is first switched off, a flow whose snapshot is in *)
(* the queue is held, not listed yet, and has no second snapshot there: so *)
(* what the consumer lists next is held.  A flow on which a decision raised *)
(* is another matter.                                                      *)
QueuedIsHeld ==
  ~disabled =>
    /\ \A i \in DOMAIN snapshots :
         \/ snapshots[i].flow \in undecided
         \/ snapshots[i].flow \in intercepted /\ snapshots[i].flow \notin Listed
    /\ \A i, j \in DOMAIN snapshots :
         snapshots[i].flow = snapshots[j].flow => i = j \/ snapshots[i].flow \in undecided

HeldInv == InterceptorTypeOK /\ HeldIsSeen /\ QueuedIsHeld

-----------------------------------------------------------------------------
(* resume() and kill() leave no released flow in a stage of interception.  *)
LEMMA ReleaseSound ==
  ASSUME InterceptorTypeOK, HeldIsSeen,
         NEW fs \in SUBSET HeldFlows,
         NEW after \in [HeldFlows -> {"upstream", "done", "killed"}],
         Release(fs, after)
  PROVE  /\ intercepted' \in SUBSET HeldFlows
         /\ phase' \in [HeldFlows -> Stages \cup {"new", "upstream", "done", "killed"}]
         /\ \A f \in HeldFlows : f \in intercepted' <=> phase'[f] \in Stages
BY DEF Release, InterceptorTypeOK, HeldIsSeen, Stages

(* What mitmproxy does next with a flow is no stage of interception. *)
LEMMA AfterType ==
  /\ Resumed \in [HeldFlows -> {"upstream", "done", "killed"}]
  /\ Killed \in [HeldFlows -> {"upstream", "done", "killed"}]
BY DEF Resumed, Killed

(* forward(), drop() and their likes take flows off the list, and the same  *)
(* flows out of the hands of mitmproxy.                                    *)
LEMMA ReleaseInvariant ==
  ASSUME HeldInv,
         NEW fs \in SUBSET HeldFlows,
         fs \subseteq Listed,
         NEW after \in [HeldFlows -> {"upstream", "done", "killed"}],
         Release(fs, after), Unlist(fs),
         UNCHANGED <<enabled, snapshots, toggles, disabled, undecoded, undecided>>
  PROVE  HeldInv'
<1>1. InterceptorTypeOK /\ HeldIsSeen /\ QueuedIsHeld
  BY DEF HeldInv
<1>2. /\ intercepted' \in SUBSET HeldFlows
      /\ phase' \in [HeldFlows -> Stages \cup {"new", "upstream", "done", "killed"}]
      /\ \A f \in HeldFlows : f \in intercepted' <=> phase'[f] \in Stages
  BY <1>1, ReleaseSound
<1>3. /\ intercepted' = intercepted \ fs
      /\ listed' \in [HeldFlows -> Stages \cup {"none"}]
      /\ Listed' = Listed \ fs
  BY <1>1 DEF Release, Unlist, Listed, InterceptorTypeOK
<1>4. InterceptorTypeOK'
  BY <1>1, <1>2, <1>3 DEF InterceptorTypeOK
<1>5. HeldIsSeen'
  BY <1>1, <1>2, <1>3 DEF HeldIsSeen, Snapshot, InterceptorTypeOK
<1>6. QueuedIsHeld'
  BY <1>1, <1>3 DEF QueuedIsHeld
<1> QED
  BY <1>4, <1>5, <1>6 DEF HeldInv

(* A decision raises once it has released the flow: it stays listed. *)
LEMMA DecisionRaisesInvariant ==
  ASSUME HeldInv, NEW f \in HeldFlows,
         NEW after \in [HeldFlows -> {"upstream", "done", "killed"}],
         DecisionRaises(f, after)
  PROVE  HeldInv'
<1>1. InterceptorTypeOK /\ HeldIsSeen /\ QueuedIsHeld
  BY DEF HeldInv
<1>2. /\ Release({f}, after) /\ undecided' = undecided \cup {f}
      /\ UNCHANGED <<enabled, snapshots, listed, toggles, disabled, undecoded>>
  BY DEF DecisionRaises
<1>3. /\ intercepted' \in SUBSET HeldFlows
      /\ phase' \in [HeldFlows -> Stages \cup {"new", "upstream", "done", "killed"}]
      /\ \A g \in HeldFlows : g \in intercepted' <=> phase'[g] \in Stages
  <2>1. {f} \in SUBSET HeldFlows
    OBVIOUS
  <2> QED
    BY <1>1, <1>2, <2>1, ReleaseSound
<1>4. intercepted' = intercepted \ {f} /\ Listed' = Listed
  BY <1>2 DEF Release, Listed
<1>5. InterceptorTypeOK'
  BY <1>1, <1>2, <1>3 DEF InterceptorTypeOK
<1>6. HeldIsSeen'
  BY <1>1, <1>2, <1>3, <1>4 DEF HeldIsSeen, Snapshot
<1>7. QueuedIsHeld'
  BY <1>1, <1>2, <1>4 DEF QueuedIsHeld
<1> QED
  BY <1>5, <1>6, <1>7 DEF HeldInv

(* request() and response(): what is held and can be read gets its snapshot *)
(* at the end of the queue, and was not held before.                       *)
LEMMA HookInvariant ==
  ASSUME HeldInv,
         NEW f \in HeldFlows, NEW stage \in Stages, NEW held \in BOOLEAN, NEW decodes \in BOOLEAN,
         Hook(f, stage, held, decodes)
  PROVE  HeldInv'
<1> DEFINE snap == [flow |-> f, stage |-> stage]
<1>1. InterceptorTypeOK /\ HeldIsSeen /\ QueuedIsHeld
  BY DEF HeldInv
<1>2. /\ phase[f] \notin Stages /\ f \notin intercepted
      /\ Listed' = Listed /\ disabled' = disabled /\ undecided' = undecided
      /\ snap \in [flow : HeldFlows, stage : Stages]
  BY <1>1 DEF Hook, Listed, Stages, HeldIsSeen
<1>3. CASE held /\ decodes
  <2>1. /\ phase' = [phase EXCEPT ![f] = stage]
        /\ intercepted' = intercepted \cup {f} /\ undecoded' = undecoded \ {f}
        /\ snapshots' = Append(snapshots, snap)
        /\ UNCHANGED <<enabled, listed, toggles, disabled, undecided>>
    BY <1>3 DEF Hook
  <2>2. /\ snapshots \in Seq([flow : HeldFlows, stage : Stages])
        /\ snapshots' \in Seq([flow : HeldFlows, stage : Stages])
        /\ DOMAIN snapshots = 1 .. Len(snapshots) /\ Len(snapshots) \in Nat
        /\ DOMAIN snapshots' = 1 .. Len(snapshots) + 1
        /\ \A i \in 1 .. Len(snapshots) : snapshots'[i] = snapshots[i]
        /\ snapshots'[Len(snapshots) + 1].flow = f
    BY <1>1, <1>2, <2>1 DEF InterceptorTypeOK
  <2>3. InterceptorTypeOK'
    BY <1>1, <2>1, <2>2 DEF InterceptorTypeOK
  <2>4. HeldIsSeen'
    <3>1. \A g \in HeldFlows : g \in intercepted' <=> phase'[g] \in Stages
      BY <1>1, <2>1 DEF HeldIsSeen, InterceptorTypeOK
    <3>2. \A g \in intercepted' \ undecoded' : g \in Listed' \/ Snapshot(g)'
      <4> SUFFICES ASSUME NEW g \in intercepted' \ undecoded', g \notin Listed'
                   PROVE  \E i \in DOMAIN snapshots' : snapshots'[i].flow = g
        BY DEF Snapshot
      <4>1. CASE g = f
        BY <4>1, <2>2
      <4>2. CASE g # f
        BY <4>2, <1>1, <1>2, <2>1, <2>2 DEF HeldIsSeen, Snapshot
      <4> QED
        BY <4>1, <4>2
    <3>3. ~disabled' => Listed' \subseteq intercepted' \cup undecided'
      BY <1>1, <1>2, <2>1 DEF HeldIsSeen
    <3> QED
      BY <3>1, <3>2, <3>3 DEF HeldIsSeen
  <2>5. QueuedIsHeld'
    <3> SUFFICES ASSUME ~disabled
                 PROVE  /\ \A i \in DOMAIN snapshots' :
                             \/ snapshots'[i].flow \in undecided
                             \/ snapshots'[i].flow \in intercepted' /\ snapshots'[i].flow \notin Listed'
                        /\ \A i, j \in DOMAIN snapshots' :
                             snapshots'[i].flow = snapshots'[j].flow =>
                               i = j \/ snapshots'[i].flow \in undecided
      BY <1>2 DEF QueuedIsHeld
    <3>1. \A i \in 1 .. Len(snapshots) :
            \/ snapshots[i].flow \in undecided
            \/ snapshots[i].flow \in intercepted /\ snapshots[i].flow \notin Listed
      BY <1>1, <2>2 DEF QueuedIsHeld
    <3>2. f \notin Listed \/ f \in undecided
      BY <1>1, <1>2 DEF HeldIsSeen
    <3>3. \A i, j \in 1 .. Len(snapshots) :
            snapshots[i].flow = snapshots[j].flow => i = j \/ snapshots[i].flow \in undecided
      BY <1>1, <2>2 DEF QueuedIsHeld
    <3> QED
      BY <1>2, <2>1, <2>2, <3>1, <3>2, <3>3
  <2> QED
    BY <2>3, <2>4, <2>5 DEF HeldInv
<1>4. CASE held /\ ~decodes
  <2>1. /\ phase' = [phase EXCEPT ![f] = stage]
        /\ intercepted' = intercepted \cup {f} /\ undecoded' = undecoded \cup {f}
        /\ UNCHANGED <<enabled, snapshots, listed, toggles, disabled, undecided>>
    BY <1>4 DEF Hook
  <2>2. InterceptorTypeOK'
    BY <1>1, <2>1 DEF InterceptorTypeOK
  <2>3. HeldIsSeen'
    BY <1>1, <1>2, <2>1 DEF HeldIsSeen, Snapshot, InterceptorTypeOK
  <2>4. QueuedIsHeld'
    BY <1>1, <1>2, <2>1 DEF QueuedIsHeld
  <2> QED
    BY <2>2, <2>3, <2>4 DEF HeldInv
<1>5. CASE ~held
  <2>1. /\ phase' = [phase EXCEPT ![f] = IF stage = "request" THEN "upstream" ELSE "done"]
        /\ UNCHANGED <<intercepted, snapshots, enabled, listed, toggles, disabled, undecoded, undecided>>
    BY <1>5 DEF Hook
  <2>2. InterceptorTypeOK'
    BY <1>1, <2>1 DEF InterceptorTypeOK, Stages
  <2>3. HeldIsSeen'
    BY <1>1, <1>2, <2>1 DEF HeldIsSeen, Snapshot, Stages, InterceptorTypeOK
  <2>4. QueuedIsHeld'
    BY <1>1, <1>2, <2>1 DEF QueuedIsHeld
  <2> QED
    BY <2>2, <2>3, <2>4 DEF HeldInv
<1> QED
  BY <1>3, <1>4, <1>5

(* Taking the first element of a queue moves the others one place on. *)
LEMMA Dequeue ==
  ASSUME NEW S, NEW s \in Seq(S), s # <<>>
  PROVE  /\ Head(s) = s[1] /\ s[1] \in S /\ Tail(s) \in Seq(S)
         /\ DOMAIN s = 1 .. Len(s) /\ Len(s) \in Nat \ {0}
         /\ DOMAIN Tail(s) = 1 .. Len(s) - 1
         /\ \A i \in 1 .. Len(s) - 1 : Tail(s)[i] = s[i + 1]
<1>1. /\ Head(s) \in S /\ Tail(s) \in Seq(S)
      /\ Len(Tail(s)) = Len(s) - 1
      /\ \A i \in 1 .. Len(Tail(s)) : Tail(s)[i] = s[i + 1]
  BY HeadTailProperties
<1>2. DOMAIN s = 1 .. Len(s) /\ Len(s) \in Nat \ {0}
  BY EmptySeq, LenProperties
<1>3. DOMAIN Tail(s) = 1 .. Len(Tail(s))
  BY <1>1, LenProperties
<1>4. Head(s) = s[1]
  OBVIOUS
<1> QED
  BY <1>1, <1>2, <1>3, <1>4

(* The consumer lists the flow of the oldest snapshot. *)
LEMMA ConsumeInvariant == HeldInv /\ Consume => HeldInv'
<1> SUFFICES ASSUME HeldInv, Consume PROVE HeldInv'
  OBVIOUS
<1> DEFINE head == snapshots[1]
<1>1. InterceptorTypeOK /\ HeldIsSeen /\ QueuedIsHeld
  BY DEF HeldInv
<1>2. /\ head \in [flow : HeldFlows, stage : Stages]
      /\ snapshots' \in Seq([flow : HeldFlows, stage : Stages])
      /\ DOMAIN snapshots = 1 .. Len(snapshots) /\ Len(snapshots) \in Nat \ {0}
      /\ DOMAIN snapshots' = 1 .. Len(snapshots) - 1
      /\ \A i \in 1 .. Len(snapshots) - 1 : snapshots'[i] = snapshots[i + 1]
  BY <1>1, Dequeue DEF Consume, InterceptorTypeOK
<1>3. /\ listed' = [listed EXCEPT ![head.flow] = head.stage]
      /\ UNCHANGED <<enabled, phase, intercepted, toggles, disabled, undecoded, undecided>>
  BY <1>1, Dequeue DEF Consume, InterceptorTypeOK
<1>4. head.flow \in HeldFlows /\ Listed' = Listed \cup {head.flow}
  BY <1>1, <1>2, <1>3 DEF Listed, Stages, InterceptorTypeOK
<1>5. InterceptorTypeOK'
  BY <1>1, <1>2, <1>3 DEF InterceptorTypeOK
<1>6. HeldIsSeen'
  <2>1. \A f \in HeldFlows : f \in intercepted' <=> phase'[f] \in Stages
    BY <1>1, <1>3 DEF HeldIsSeen
  <2>2. \A f \in intercepted' \ undecoded' : f \in Listed' \/ Snapshot(f)'
    <3> SUFFICES ASSUME NEW f \in intercepted \ undecoded, f \notin Listed, f # head.flow
                 PROVE  \E i \in DOMAIN snapshots' : snapshots'[i].flow = f
      BY <1>3, <1>4 DEF Snapshot
    <3>1. PICK i \in 1 .. Len(snapshots) : snapshots[i].flow = f
      BY <1>1, <1>2 DEF HeldIsSeen, Snapshot
    <3>2. i - 1 \in 1 .. Len(snapshots) - 1 /\ snapshots'[i - 1].flow = f
      BY <1>2, <3>1
    <3> QED
      BY <1>2, <3>2
  <2>3. ~disabled' => Listed' \subseteq intercepted' \cup undecided'
    BY <1>1, <1>2, <1>3, <1>4 DEF HeldIsSeen, QueuedIsHeld
  <2> QED
    BY <2>1, <2>2, <2>3 DEF HeldIsSeen
<1>7. QueuedIsHeld'
  <2> SUFFICES ASSUME ~disabled
               PROVE  /\ \A i \in DOMAIN snapshots' :
                           \/ snapshots'[i].flow \in undecided
                           \/ snapshots'[i].flow \in intercepted' /\ snapshots'[i].flow \notin Listed'
                      /\ \A i, j \in DOMAIN snapshots' :
                           snapshots'[i].flow = snapshots'[j].flow =>
                             i = j \/ snapshots'[i].flow \in undecided
    BY <1>3 DEF QueuedIsHeld
  <2>1. /\ \A i \in 1 .. Len(snapshots) :
             \/ snapshots[i].flow \in undecided
             \/ snapshots[i].flow \in intercepted /\ snapshots[i].flow \notin Listed
        /\ \A i, j \in 1 .. Len(snapshots) :
             snapshots[i].flow = snapshots[j].flow => i = j \/ snapshots[i].flow \in undecided
    BY <1>1, <1>2 DEF QueuedIsHeld
  <2>2. \A i \in 1 .. Len(snapshots) - 1 :
          /\ i + 1 \in 1 .. Len(snapshots) /\ 1 \in 1 .. Len(snapshots)
          /\ snapshots[i + 1].flow # head.flow \/ snapshots[i + 1].flow \in undecided
    BY <1>2, <2>1
  <2>3. \A i \in 1 .. Len(snapshots) - 1 :
          \/ snapshots'[i].flow \in undecided
          \/ snapshots'[i].flow \in intercepted' /\ snapshots'[i].flow \notin Listed'
    BY <1>2, <1>3, <1>4, <2>1, <2>2
  <2>4. ASSUME NEW i \in 1 .. Len(snapshots) - 1, NEW j \in 1 .. Len(snapshots) - 1,
               snapshots'[i].flow = snapshots'[j].flow, snapshots'[i].flow \notin undecided
        PROVE  i = j
    <3>1. /\ i \in Nat /\ j \in Nat
          /\ i + 1 \in 1 .. Len(snapshots) /\ j + 1 \in 1 .. Len(snapshots)
      BY <1>2
    <3>2. snapshots[i + 1].flow = snapshots[j + 1].flow /\ snapshots[i + 1].flow \notin undecided
      BY <1>2, <2>4
    <3>3. i + 1 = j + 1
      BY <2>1, <3>1, <3>2
    <3> QED
      BY <3>1, <3>3
  <2> QED
    BY <1>2, <2>3, <2>4
<1> QED
  BY <1>5, <1>6, <1>7 DEF HeldInv

(* Switching off resumes all that is held, listed or not. *)
LEMMA DisableInvariant == HeldInv /\ Disable => HeldInv'
<1> SUFFICES ASSUME HeldInv, Disable PROVE HeldInv'
  OBVIOUS
<1>1. InterceptorTypeOK /\ HeldIsSeen
  BY DEF HeldInv
<1>2. /\ phase' \in [HeldFlows -> Stages \cup {"new", "upstream", "done", "killed"}]
      /\ \A f \in HeldFlows : f \in intercepted' <=> phase'[f] \in Stages
  BY <1>1, ReleaseSound, AfterType DEF Disable
<1>3. /\ intercepted' = {} /\ disabled' = TRUE /\ enabled' = FALSE
      /\ toggles' \in Nat /\ UNCHANGED <<snapshots, undecoded, undecided>>
      /\ listed' \in [HeldFlows -> Stages \cup {"none"}]
  BY <1>1 DEF Disable, Release, Unlist, InterceptorTypeOK
<1>4. InterceptorTypeOK'
  BY <1>1, <1>2, <1>3 DEF InterceptorTypeOK
<1>5. HeldIsSeen'
  BY <1>2, <1>3 DEF HeldIsSeen
<1>6. QueuedIsHeld'
  BY <1>3 DEF QueuedIsHeld
<1> QED
  BY <1>4, <1>5, <1>6 DEF HeldInv

-----------------------------------------------------------------------------
LEMMA HeldInvInit == InterceptorInit => HeldInv
<1> SUFFICES ASSUME InterceptorInit PROVE HeldInv
  OBVIOUS
<1>1. Listed = {} /\ \A f \in HeldFlows : phase[f] \notin Stages
  BY DEF InterceptorInit, Listed, Stages
<1>2. InterceptorTypeOK
  <2>1. <<>> \in Seq([flow : HeldFlows, stage : Stages])
    BY EmptySeq
  <2> QED
    BY <2>1 DEF InterceptorInit, InterceptorTypeOK
<1>3. HeldIsSeen /\ QueuedIsHeld
  BY <1>1 DEF InterceptorInit, HeldIsSeen, QueuedIsHeld
<1> QED
  BY <1>2, <1>3 DEF HeldInv

LEMMA HeldInvStep == HeldInv /\ [InterceptorNext]_interceptorVars => HeldInv'
<1> SUFFICES ASSUME HeldInv, [InterceptorNext]_interceptorVars PROVE HeldInv'
  OBVIOUS
<1>1. CASE \E f \in HeldFlows, stage \in Stages, held, decodes \in BOOLEAN : Hook(f, stage, held, decodes)
  BY <1>1, HookInvariant
<1>2. ASSUME NEW fs \in SUBSET HeldFlows, Forward(fs) PROVE HeldInv'
  BY <1>2, ReleaseInvariant, AfterType DEF Forward
<1>3. ASSUME NEW fs \in SUBSET HeldFlows, Drop(fs) PROVE HeldInv'
  BY <1>3, ReleaseInvariant, AfterType DEF Drop
<1>4. ASSUME NEW f \in HeldFlows, ForwardEdited(f) PROVE HeldInv'
  <2>1. {f} \in SUBSET HeldFlows /\ {f} \subseteq Listed
    BY <1>4 DEF ForwardEdited
  <2> QED
    BY <1>4, <2>1, ReleaseInvariant, AfterType DEF ForwardEdited
<1>5. CASE Consume
  BY <1>5, ConsumeInvariant
<1>6. CASE Enable
  BY <1>6 DEF Enable, HeldInv, InterceptorTypeOK, HeldIsSeen, QueuedIsHeld, Listed, Snapshot
<1>7. CASE Disable
  BY <1>7, DisableInvariant
<1>8. CASE UNCHANGED interceptorVars
  BY <1>8 DEF interceptorVars, HeldInv, InterceptorTypeOK, HeldIsSeen, QueuedIsHeld, Listed, Snapshot
<1>9. ASSUME NEW f \in HeldFlows, NEW after \in {Resumed, Killed}, DecisionRaises(f, after) PROVE HeldInv'
  BY <1>9, DecisionRaisesInvariant, AfterType
<1> QED
  BY <1>1, <1>2, <1>3, <1>4, <1>5, <1>6, <1>7, <1>8, <1>9 DEF InterceptorNext

(* The state of the interceptor is well typed: the queue holds snapshots of *)
(* flows, the list stages of flows (controller.py:67-80).                  *)
THEOREM InterceptorTypeCorrect == InterceptorSpec => []InterceptorTypeOK
<1>1. HeldInv => InterceptorTypeOK
  BY DEF HeldInv
<1> QED
  BY <1>1, HeldInvInit, HeldInvStep, PTL DEF InterceptorSpec

(* Whatever hooks, consumer, decisions and switching interleave             *)
(* (addon.py:30-48, controller.py:82-134), no flow is held unseen but one   *)
(* of which no snapshot could be made.                                     *)
THEOREM NoFlowIsHeldUnseen == InterceptorSpec => []HeldIsSeen
<1>1. HeldInv => HeldIsSeen
  BY DEF HeldInv
<1> QED
  BY <1>1, HeldInvInit, HeldInvStep, PTL DEF InterceptorSpec

-----------------------------------------------------------------------------
(* Findings and their triage (Triage). *)

Whos == {"heuristic", "llm", "human"}
Stored == [db : Databases, id : Nat, confidence : Confidences, scan : Scans]
Row == [finding : Nat, verdict : Verdicts \cup {"none"}, method : Whos \cup {"none"}]
Change == [who : Whos, finding : Nat, db : Databases, id : Nat, verdict : Verdicts, base : Row]
Entry == [id : Nat, finding : Nat, verdict : Verdicts, method : Whos]

Rows(d) ==
  /\ DOMAIN table[d] \subseteq Nat
  /\ table[d] \in [DOMAIN table[d] -> Row]
  /\ \A i \in DOMAIN table[d] : table[d][i].finding \in Findings

TriageTyped ==
  /\ active \in Databases /\ DOMAIN table = Databases
  /\ finding \in Seq(Stored) /\ handler \in Seq({"scheduled", "setting", "done"})
  /\ Len(handler) = Len(finding)
  /\ history \in [Databases -> Seq(Entry)] /\ setting \in SUBSET Change
  /\ judgeQueue \in Seq(Nat) /\ judging \in Nat /\ llmCalls \in [Scans -> Nat]
  /\ Len(judgeQueue) <= JudgeQueueSize
  /\ \A d \in Databases : Rows(d)

(* The entry at (d, i) of the history is of a finding, by a method. *)
IsEntry(d, i, f, who) == i \in DOMAIN history[d] /\ history[d][i].finding = f
                                                 /\ history[d][i].method = who

Queued(f)   == \E i \in DOMAIN judgeQueue : judgeQueue[i] = f
HasVerdict(f) == \E d \in Databases, i \in Nat : IsEntry(d, i, f, "llm")
Asked(f)    == Queued(f) \/ judging = f \/ HasVerdict(f)

(* What the judge was asked about: handle() is through with it, and the     *)
(* heuristic was not sure.                                                  *)
Warranted(f) ==
  /\ handler[f] = "done" /\ mode \in {"enrich", "legacy_gray"}
  /\ finding[f].confidence = "inferred"
  /\ \A d \in Databases, i \in Nat : IsEntry(d, i, f, "heuristic") => history[d][i].verdict = "uncertain"

AskedIsWarranted ==
  /\ \A i \in DOMAIN judgeQueue : judgeQueue[i] \in Findings
  /\ judging # 0 => judging \in Findings
  /\ \A d \in Databases : \A i \in DOMAIN history[d] : history[d][i].finding \in Findings
  /\ \A f \in Findings : Asked(f) => Warranted(f)

(* A finding is asked about once: it is in the queue, with the judge or     *)
(* judged.                                                                 *)
AskedOnce ==
  /\ \A i, j \in DOMAIN judgeQueue : judgeQueue[i] = judgeQueue[j] => i = j
  /\ \A f \in Findings : /\ Queued(f) => judging # f /\ ~HasVerdict(f)
                         /\ judging = f => ~HasVerdict(f)
                         /\ \A d, e \in Databases, i, j \in Nat :
                              IsEntry(d, i, f, "llm") /\ IsEntry(e, j, f, "llm") => d = e /\ i = j

(* The calls of set_triage() under way are what their callers wait for. *)
ChangesKnown ==
  /\ \A s \in setting : s.finding \in Findings /\ (s.base.finding = 0 \/ s.base.finding \in Findings)
  /\ \A s \in Setting("heuristic") :
       /\ handler[s.finding] = "setting"
       /\ s.verdict \in HeuristicVerdicts(finding[s.finding].confidence)
  /\ \A s, t \in Setting("heuristic") : s.finding = t.finding => s = t
  /\ \A s \in Setting("llm") : s.finding = judging
  /\ \A s, t \in Setting("llm") : s = t
  /\ \A f \in Findings, d \in Databases, i \in Nat :
       IsEntry(d, i, f, "heuristic") => handler[f] = "done"

AskedAbout(scan) == {f \in Findings : finding[f].scan = scan /\ Asked(f)}

WithinBudget ==
  \A scan \in Scans : Cardinality(AskedAbout(scan)) <= llmCalls[scan] /\ llmCalls[scan] <= MaxLlm

TriageIInv == TriageTyped /\ AskedIsWarranted /\ AskedOnce /\ ChangesKnown /\ WithinBudget

LEMMA FindingsAre ==
  ASSUME TriageTyped
  PROVE  /\ Len(finding) \in Nat /\ Findings = 1 .. Len(finding) /\ DOMAIN handler = Findings
         /\ IsFiniteSet(Findings)
         /\ \A f \in Findings : finding[f] \in Stored
         /\ \A d \in Databases : history[d] \in Seq(Entry) /\ DOMAIN history[d] \subseteq Nat
<1>1. Len(finding) \in Nat /\ Findings = 1 .. Len(finding) /\ DOMAIN handler = Findings
  BY LenProperties DEF TriageTyped, Findings
<1>2. IsFiniteSet(Findings)
  BY <1>1, FS_Interval
<1>3. \A f \in Findings : finding[f] \in Stored
  BY ElementOfSeq DEF TriageTyped, Findings
<1>4. ASSUME NEW d \in Databases PROVE history[d] \in Seq(Entry) /\ DOMAIN history[d] \subseteq Nat
  BY LenProperties DEF TriageTyped
<1> QED
  BY <1>1, <1>2, <1>3, <1>4

(* Fewer findings asked about, and no smaller budget used. *)
LEMMA BudgetGoesOn ==
  ASSUME TriageTyped, WithinBudget, NEW scan \in Scans,
         AskedAbout(scan)' \subseteq AskedAbout(scan), llmCalls' = llmCalls
  PROVE  Cardinality(AskedAbout(scan)') <= llmCalls'[scan] /\ llmCalls'[scan] <= MaxLlm
<1>1. AskedAbout(scan) \subseteq Findings
  BY DEF AskedAbout
<1>2. IsFiniteSet(AskedAbout(scan))
  BY <1>1, FindingsAre, FS_Subset
<1>3. /\ Cardinality(AskedAbout(scan)') <= Cardinality(AskedAbout(scan))
      /\ Cardinality(AskedAbout(scan)') \in Nat /\ Cardinality(AskedAbout(scan)) \in Nat
  BY <1>2, FS_Subset, FS_CardinalityType
<1>4. llmCalls[scan] \in Nat
  BY DEF TriageTyped
<1> QED
  BY <1>3, <1>4, TriageAssumption DEF WithinBudget

(* The judge's cap, from the invariant: those it has judged or is at, and   *)
(* those in its queue, are findings asked about, none of them twice.        *)
LEMMA CapIsKept ==
  ASSUME TriageIInv
  PROVE  JudgeWithinLimits
<1> USE DEF TriageIInv
<1>1. ASSUME NEW f PROVE \A e \in Judgements(f) : e[1] \in Databases /\ e[2] \in Nat
                                                   /\ IsEntry(e[1], e[2], f, "llm")
                                                   /\ e = <<e[1], e[2]>>
  BY DEF Judgements, IsEntry
<1>2. ASSUME NEW f \in Findings PROVE Cardinality(Judgements(f)) <= 1
  <2>1. CASE Judgements(f) = {}
    BY <2>1, FS_EmptySet
  <2>2. CASE Judgements(f) # {}
    <3>1. PICK e \in Judgements(f) : TRUE
      BY <2>2
    <3>2. \A x \in Judgements(f) : x[1] = e[1] /\ x[2] = e[2] /\ x = <<x[1], x[2]>>
      BY <1>1, <3>1 DEF AskedOnce
    <3>3. \A x \in Judgements(f) : x = e
      BY <1>1, <3>1, <3>2
    <3>4. Judgements(f) = {e}
      BY <3>1, <3>3
    <3>5. Cardinality({e}) = 1
      BY FS_Singleton
    <3> QED
      BY <3>4, <3>5
  <2> QED
    BY <2>1, <2>2
<1>3. ASSUME NEW f \in Findings, Judgements(f) # {} PROVE HasVerdict(f)
  BY <1>1, <1>3 DEF HasVerdict
<1>4. ASSUME NEW f \in Findings, Judgements(f) # {}
      PROVE  /\ mode \in {"enrich", "legacy_gray"} /\ finding[f].confidence = "inferred"
             /\ \A d \in Databases : \A i \in DOMAIN history[d] :
                  history[d][i].finding = f /\ history[d][i].method = "heuristic"
                    => history[d][i].verdict = "uncertain"
  BY <1>3, <1>4, FindingsAre DEF AskedIsWarranted, Asked, Warranted, IsEntry
<1>5. ASSUME NEW scan \in Scans
      PROVE  Cardinality(JudgedOf(scan)) + Cardinality(Waiting(scan)) <= MaxLlm
  <2> DEFINE Queue == {judgeQueue[i] : i \in Waiting(scan)}
  <2>1. JudgedOf(scan) \subseteq AskedAbout(scan)
    BY <1>3 DEF JudgedOf, AskedAbout, Asked
  <2>2. Queue \subseteq AskedAbout(scan)
    BY DEF Waiting, AskedAbout, Asked, Queued, AskedIsWarranted
  <2>3. JudgedOf(scan) \cap Queue = {}
    BY <1>3 DEF JudgedOf, Waiting, Queued, AskedOnce
  <2>4. IsFiniteSet(AskedAbout(scan))
    BY FindingsAre, FS_Subset DEF AskedAbout
  <2>5. Cardinality(Waiting(scan)) = Cardinality(Queue) /\ IsFiniteSet(Queue)
    <3>1. Waiting(scan) \subseteq 1 .. Len(judgeQueue) /\ Len(judgeQueue) \in Nat
      BY LenProperties DEF Waiting, TriageTyped
    <3>2. IsFiniteSet(Waiting(scan))
      <4>1. IsFiniteSet(1 .. Len(judgeQueue))
        BY <3>1, FS_Interval
      <4> QED
        BY <3>1, <4>1, FS_Subset
    <3> DEFINE at == [i \in Waiting(scan) |-> judgeQueue[i]]
    <3>3. at \in Bijection(Waiting(scan), Queue)
      <4>1. at \in [Waiting(scan) -> Queue]
        OBVIOUS
      <4>2. \A i, j \in Waiting(scan) : at[i] = at[j] => i = j
        BY DEF AskedOnce, Waiting
      <4>3. \A q \in Queue : \E i \in Waiting(scan) : at[i] = q
        OBVIOUS
      <4> HIDE DEF at, Queue
      <4> QED
        BY <4>1, <4>2, <4>3 DEF Bijection, Injection, Surjection, IsInjective
    <3>4. ExistsBijection(Waiting(scan), Queue)
      BY <3>3 DEF ExistsBijection
    <3> QED
      BY <3>2, <3>4, FS_Bijection
  <2>6. IsFiniteSet(JudgedOf(scan)) /\ IsFiniteSet(JudgedOf(scan) \cup Queue)
    BY <2>1, <2>4, <2>5, FS_Subset, FS_Union
  <2>7. Cardinality(JudgedOf(scan) \cup Queue) <= Cardinality(AskedAbout(scan))
    <3>1. JudgedOf(scan) \cup Queue \subseteq AskedAbout(scan)
      BY <2>1, <2>2
    <3> QED
      BY <2>4, <3>1, FS_Subset
  <2>8. Cardinality(JudgedOf(scan) \cup Queue) = Cardinality(JudgedOf(scan)) + Cardinality(Queue)
    <3>1. Cardinality(JudgedOf(scan) \cap Queue) = 0
      BY <2>3, FS_EmptySet
    <3>2. /\ Cardinality(JudgedOf(scan)) \in Nat /\ Cardinality(Queue) \in Nat
          /\ Cardinality(JudgedOf(scan) \cup Queue)
               = Cardinality(JudgedOf(scan)) + Cardinality(Queue) - Cardinality(JudgedOf(scan) \cap Queue)
      BY <2>5, <2>6, FS_Union, FS_CardinalityType
    <3> QED
      BY <3>1, <3>2
  <2>9. /\ Cardinality(AskedAbout(scan)) <= llmCalls[scan] /\ llmCalls[scan] <= MaxLlm
        /\ llmCalls[scan] \in Nat /\ MaxLlm \in Nat
        /\ Cardinality(JudgedOf(scan)) \in Nat /\ Cardinality(Queue) \in Nat
        /\ Cardinality(AskedAbout(scan)) \in Nat
    BY <2>4, <2>5, <2>6, FS_CardinalityType, TriageAssumption DEF WithinBudget, TriageTyped
  <2> QED
    BY <2>5, <2>7, <2>8, <2>9
<1> QED
  BY <1>2, <1>4, <1>5 DEF JudgeWithinLimits

(* The queue, the budget and what the judge is at stay as they are, and the *)
(* judge has no further verdict.                                           *)
LEMMA JudgeGoesOn ==
  ASSUME TriageIInv, TriageTyped', ChangesKnown', UNCHANGED <<mode, judgeQueue, judging, llmCalls>>,
         Findings \subseteq Findings',
         \A f \in Findings : /\ finding'[f] = finding[f]
                             /\ handler[f] = "done" => handler'[f] = "done",
         \A f, i : \A d \in Databases : IsEntry(d, i, f, "llm")' <=> IsEntry(d, i, f, "llm"),
         \A f \in Findings, d \in Databases, i \in Nat :
           handler[f] = "done" /\ IsEntry(d, i, f, "heuristic")'
             => IsEntry(d, i, f, "heuristic") /\ history'[d][i].verdict = history[d][i].verdict,
         \A d \in Databases : \A i \in DOMAIN history'[d] : history'[d][i].finding \in Findings'
  PROVE  TriageIInv'
<1> USE DEF TriageIInv
<1>1. \A f : /\ Queued(f)' <=> Queued(f)
             /\ HasVerdict(f)' <=> HasVerdict(f)
  BY DEF Queued, HasVerdict
<1>2. \A f : Asked(f)' <=> Asked(f)
  BY <1>1 DEF Asked
<1>3. ASSUME NEW f \in Findings', Asked(f) PROVE f \in Findings
  <2>1. f # 0
    BY LenProperties DEF TriageTyped, Findings
  <2>2. CASE Queued(f)
    BY <2>2 DEF Queued, AskedIsWarranted
  <2>3. CASE HasVerdict(f)
    <3>1. PICK d \in Databases, i \in Nat : IsEntry(d, i, f, "llm")
      BY <2>3 DEF HasVerdict
    <3> QED
      BY <3>1 DEF IsEntry, AskedIsWarranted
  <2>4. CASE judging = f
    BY <2>1, <2>4 DEF AskedIsWarranted
  <2> QED
    BY <1>3, <2>2, <2>3, <2>4 DEF Asked
<1>4. AskedIsWarranted'
  <2>1. ASSUME NEW f \in Findings', Asked(f) PROVE Warranted(f)'
    <3>1. f \in Findings /\ Warranted(f)
      BY <1>3, <2>1 DEF AskedIsWarranted
    <3> QED
      BY <3>1 DEF Warranted
  <2> QED
    BY <1>2, <2>1 DEF AskedIsWarranted
<1>5. AskedOnce'
  <2>1. ASSUME NEW f \in Findings'
        PROVE  /\ Queued(f) => judging # f /\ ~HasVerdict(f)
               /\ judging = f => ~HasVerdict(f)
               /\ \A d, e \in Databases, i, j \in Nat :
                    IsEntry(d, i, f, "llm") /\ IsEntry(e, j, f, "llm") => d = e /\ i = j
    <3>1. CASE Asked(f)
      BY <1>3, <3>1 DEF AskedOnce
    <3>2. CASE ~Asked(f)
      BY <3>2 DEF Asked, HasVerdict
    <3> QED
      BY <3>1, <3>2
  <2>2. \A i, j \in DOMAIN judgeQueue' : judgeQueue'[i] = judgeQueue'[j] => i = j
    BY DEF AskedOnce
  <2> QED
    BY <1>1, <2>1, <2>2 DEF AskedOnce
<1>6. WithinBudget'
  <2>1. ASSUME NEW scan \in Scans PROVE AskedAbout(scan)' \subseteq AskedAbout(scan)
    BY <1>2, <1>3 DEF AskedAbout
  <2> QED
    BY <2>1, BudgetGoesOn DEF WithinBudget
<1> QED
  BY <1>4, <1>5, <1>6

LEMMA FreshIdIsNumber ==
  ASSUME NEW rows
  PROVE  FreshId(rows) \in Nat
<1> DEFINE below == {i \in 1 .. MaxFindings : \E k \in DOMAIN rows : k >= i}
<1>1. IsFiniteSet(1 .. MaxFindings)
  BY TriageAssumption, FS_Interval
<1>2. IsFiniteSet(below)
  BY <1>1, FS_Subset
<1>3. Cardinality(below) \in Nat
  BY <1>2, FS_CardinalityType
<1> QED
  BY <1>3 DEF FreshId

LEMMA SaveFindingInvariant ==
  ASSUME TriageIInv, NEW confidence \in Confidences, NEW scan \in Scans,
         SaveFinding(confidence, scan)
  PROVE  TriageIInv'
<1> USE DEF TriageIInv
<1>1. PICK n \in Nat : n = Len(finding)
  BY FindingsAre
<1>2. PICK id \in Nat : id = FreshId(table[active])
  BY FreshIdIsNumber
<1> DEFINE r == [db |-> active, id |-> id, confidence |-> confidence, scan |-> scan]
           row == Untriaged(n + 1)
<1>3. /\ finding' = Append(finding, r) /\ handler' = Append(handler, "scheduled")
      /\ table' = [table EXCEPT ![active] =
                     [i \in DOMAIN table[active] \cup {id} |-> IF i = id THEN row ELSE table[active][i]]]
      /\ UNCHANGED <<mode, active, history, setting, judgeQueue, judging, llmCalls>>
  BY <1>1, <1>2 DEF SaveFinding
<1>4. r \in Stored /\ row \in Row /\ row.finding = n + 1
  BY DEF Stored, Row, Untriaged, TriageTyped
<1> HIDE DEF r, row
<1>5. /\ finding' \in Seq(Stored) /\ handler' \in Seq({"scheduled", "setting", "done"})
      /\ Len(finding') = n + 1 /\ Len(handler') = n + 1
      /\ Findings = 1 .. n /\ Findings' = 1 .. n + 1
      /\ \A f \in 1 .. n : finding'[f] = finding[f] /\ handler'[f] = handler[f]
  BY <1>1, <1>3, <1>4, FindingsAre DEF TriageTyped, Findings
<1>6. ASSUME NEW d \in Databases PROVE Rows(d)'
  <2>1. Rows(d) /\ Rows(active) /\ active \in Databases /\ DOMAIN table = Databases
    BY DEF TriageTyped
  <2>2. CASE d # active
    <3>1. table'[d] = table[d]
      BY <1>3, <2>1, <2>2
    <3> QED
      BY <1>5, <2>1, <3>1 DEF Rows
  <2>3. CASE d = active
    <3> DEFINE ids == DOMAIN table[active] \cup {id}
    <3>1. table'[d] = [i \in ids |-> IF i = id THEN row ELSE table[active][i]]
      BY <1>3, <2>1, <2>3
    <3>2. DOMAIN table'[d] = ids /\ ids \subseteq Nat
      BY <2>1, <3>1 DEF Rows
    <3>3. \A i \in ids : table'[d][i] \in Row /\ table'[d][i].finding \in 1 .. n + 1
      BY <1>1, <1>4, <1>5, <2>1, <3>1 DEF Rows
    <3>4. table'[d] \in [ids -> Row]
      BY <3>1, <3>3
    <3> QED
      BY <1>5, <3>2, <3>3, <3>4 DEF Rows
  <2> QED
    BY <2>2, <2>3
<1>7. TriageTyped'
  BY <1>3, <1>5, <1>6 DEF TriageTyped
<1>8. ChangesKnown'
  <2>1. \A f : f \in Findings => f \in Findings'
    BY <1>5
  <2>2. \A s \in setting : /\ s.finding \in Findings'
                           /\ s.base.finding = 0 \/ s.base.finding \in Findings'
    BY <2>1 DEF ChangesKnown
  <2>3. \A s \in Setting("heuristic") :
          /\ handler'[s.finding] = "setting"
          /\ s.verdict \in HeuristicVerdicts(finding'[s.finding].confidence)
    BY <1>5 DEF ChangesKnown, Setting
  <2>4. ASSUME NEW f \in Findings', NEW d \in Databases, NEW i \in Nat, IsEntry(d, i, f, "heuristic")
        PROVE  handler'[f] = "done"
    <3>1. f \in Findings
      BY <2>4 DEF IsEntry, AskedIsWarranted
    <3> QED
      BY <1>5, <2>4, <3>1 DEF ChangesKnown
  <2> QED
    BY <1>3, <2>2, <2>3, <2>4 DEF ChangesKnown, Setting, IsEntry
<1>9. /\ \A f, d, i, who : IsEntry(d, i, f, who)' <=> IsEntry(d, i, f, who)
  BY <1>3 DEF IsEntry
<1>10. \A d \in Databases : \A i \in DOMAIN history'[d] : history'[d][i].finding \in Findings'
  BY <1>3, <1>5 DEF AskedIsWarranted
<1>11. /\ Findings \subseteq Findings'
       /\ \A f \in Findings : /\ finding'[f] = finding[f]
                              /\ handler[f] = "done" => handler'[f] = "done"
  BY <1>5
<1> QED
  BY <1>3, <1>7, <1>8, <1>9, <1>10, <1>11, JudgeGoesOn

LEMMA TableMovesAlone ==
  ASSUME TriageIInv,
         (\E ids : DeleteFindings(ids)) \/ \E d \in Databases : LoadOtherSession(d)
  PROVE  TriageIInv'
<1> USE DEF TriageIInv
<1>1. UNCHANGED <<mode, history, finding, handler, setting, judgeQueue, judging, llmCalls>>
  BY DEF DeleteFindings, LoadOtherSession
<1>2. active' \in Databases /\ DOMAIN table' = Databases /\ \A d \in Databases : Rows(d)'
  <2>1. CASE \E d \in Databases : LoadOtherSession(d)
    BY <2>1 DEF LoadOtherSession, TriageTyped, Rows, Findings
  <2>2. ASSUME NEW ids, DeleteFindings(ids)
        PROVE  active' \in Databases /\ DOMAIN table' = Databases /\ \A d \in Databases : Rows(d)'
    <3>1. /\ table' = [table EXCEPT ![active] = [i \in DOMAIN table[active] \ ids |-> table[active][i]]]
          /\ active' = active
      BY <2>2 DEF DeleteFindings
    <3>2. ASSUME NEW d \in Databases PROVE Rows(d)'
      <4>1. Rows(d) /\ active \in Databases /\ DOMAIN table = Databases
        BY DEF TriageTyped
      <4>2. CASE d # active
        BY <1>1, <3>1, <4>1, <4>2 DEF Rows, Findings
      <4>3. CASE d = active
        <5> DEFINE left == DOMAIN table[d] \ ids
        <5>1. table'[d] = [i \in left |-> table[d][i]]
          BY <3>1, <4>1, <4>3
        <5>2. /\ left \subseteq Nat /\ DOMAIN table'[d] = left
              /\ \A i \in left : table[d][i] \in Row /\ table[d][i].finding \in Findings
          BY <4>1, <5>1 DEF Rows
        <5> HIDE DEF left
        <5>3. table'[d] \in [left -> Row]
          BY <5>1, <5>2
        <5> QED
          BY <1>1, <5>1, <5>2, <5>3 DEF Rows, Findings
      <4> QED
        BY <4>2, <4>3
    <3> QED
      BY <3>1, <3>2 DEF TriageTyped
  <2> QED
    BY <2>1, <2>2
<1>3. TriageTyped'
  BY <1>1, <1>2 DEF TriageTyped
<1>4. \A f, d, i, who : IsEntry(d, i, f, who)' <=> IsEntry(d, i, f, who)
  BY <1>1 DEF IsEntry
<1>5. ChangesKnown'
  BY <1>1, <1>4 DEF ChangesKnown, Setting, Findings
<1>6. \A d \in Databases : \A i \in DOMAIN history'[d] : history'[d][i].finding \in Findings'
  BY <1>1 DEF AskedIsWarranted, Findings
<1> QED
  BY <1>1, <1>3, <1>4, <1>5, <1>6, JudgeGoesOn DEF Findings

(* What set_triage() loads is a call of its own, of the type of a call. *)
LEMMA LoadedIsChange ==
  ASSUME TriageTyped, NEW who \in Whos, NEW f \in Findings, NEW id \in Nat, NEW verdict \in Verdicts
  PROVE  LET s == Loaded(who, f, id, verdict)
         IN /\ s \in Change /\ s.who = who /\ s.finding = f /\ s.verdict = verdict
            /\ s.base.finding = 0 \/ s.base.finding \in Findings
<1>1. active \in Databases /\ Rows(active) /\ f \in Nat
  BY LenProperties DEF TriageTyped, Findings
<1> DEFINE base == IF id \in DOMAIN table[active] THEN table[active][id] ELSE Untriaged(0)
<1>2. base \in Row /\ (base.finding = 0 \/ base.finding \in Findings)
  BY <1>1 DEF Rows, Row, Untriaged
<1>3. Loaded(who, f, id, verdict) = [who |-> who, finding |-> f, db |-> active, id |-> id,
                                     verdict |-> verdict, base |-> base]
  BY DEF Loaded
<1> HIDE DEF base
<1> QED
  BY <1>1, <1>2, <1>3 DEF Change

(* A call of set_triage() is added. *)
LEMMA CallInvariant ==
  ASSUME TriageIInv, UNCHANGED <<mode, active, table, history, finding, judgeQueue, judging, llmCalls>>,
         NEW s \in Change, setting' = setting \cup {s}, s.finding \in Findings,
         s.base.finding = 0 \/ s.base.finding \in Findings,
         handler' \in Seq({"scheduled", "setting", "done"}), Len(handler') = Len(handler),
         \A f \in Findings : handler'[f] = handler[f] \/ (f = s.finding /\ s.who = "heuristic"),
         s.who = "heuristic" =>
           /\ handler[s.finding] = "scheduled" /\ handler'[s.finding] = "setting"
           /\ s.verdict \in HeuristicVerdicts(finding[s.finding].confidence),
         s.who = "llm" => s.finding = judging /\ Setting("llm") = {}
  PROVE  TriageIInv'
<1> USE DEF TriageIInv
<1>1. TriageTyped'
  BY DEF TriageTyped, Rows, Findings
<1>2. \A f, d, i, who : IsEntry(d, i, f, who)' <=> IsEntry(d, i, f, who)
  BY DEF IsEntry
<1>3. \A f \in Findings : handler[f] = "done" => handler'[f] = "done"
  OBVIOUS
<1>4. \A who : Setting(who)' = Setting(who) \cup IF s.who = who THEN {s} ELSE {}
  BY DEF Setting
<1>5. ChangesKnown'
  <2>1. \A t \in setting' : t.finding \in Findings /\ (t.base.finding = 0 \/ t.base.finding \in Findings)
    BY DEF ChangesKnown
  <2>2. ASSUME NEW t \in Setting("heuristic")'
        PROVE  /\ handler'[t.finding] = "setting"
               /\ t.verdict \in HeuristicVerdicts(finding[t.finding].confidence)
    <3>1. CASE t = s
      BY <1>4, <2>2, <3>1 DEF Setting
    <3>2. CASE t # s
      <4>1. t \in Setting("heuristic") /\ t.finding \in Findings /\ handler[t.finding] = "setting"
        BY <1>4, <2>2, <3>2 DEF ChangesKnown, Setting
      <4> QED
        BY <4>1 DEF ChangesKnown
    <3> QED
      BY <3>1, <3>2
  <2>3. ASSUME NEW t \in Setting("heuristic")', NEW u \in Setting("heuristic")', t.finding = u.finding
        PROVE  t = u
    <3>1. CASE s.who = "heuristic"
      <4>1. \A v \in Setting("heuristic") : v.finding # s.finding
        BY <3>1 DEF ChangesKnown
      <4> QED
        BY <1>4, <2>3, <3>1, <4>1 DEF ChangesKnown
    <3>2. CASE s.who # "heuristic"
      BY <1>4, <2>3, <3>2 DEF ChangesKnown
    <3> QED
      BY <3>1, <3>2
  <2>4. /\ \A t \in Setting("llm")' : t.finding = judging
        /\ \A t, u \in Setting("llm")' : t = u
    BY <1>4 DEF ChangesKnown
  <2>5. ASSUME NEW f \in Findings, NEW d \in Databases, NEW i \in Nat, IsEntry(d, i, f, "heuristic")
        PROVE  handler'[f] = "done"
    BY <1>3, <2>5 DEF ChangesKnown
  <2> QED
    BY <1>2, <2>1, <2>2, <2>3, <2>4, <2>5 DEF ChangesKnown, Findings
<1>6. \A d \in Databases : \A i \in DOMAIN history'[d] : history'[d][i].finding \in Findings'
  BY DEF AskedIsWarranted, Findings
<1> QED
  BY <1>1, <1>2, <1>3, <1>5, <1>6, JudgeGoesOn DEF Findings

LEMMA HandleInvariant ==
  ASSUME TriageIInv, NEW f \in Findings, NEW verdict \in Verdicts, Handle(f, verdict)
  PROVE  TriageIInv'
<1> DEFINE s == Loaded("heuristic", f, finding[f].id, verdict)
<1>1. /\ s \in Change /\ s.who = "heuristic" /\ s.finding = f /\ s.verdict = verdict
      /\ s.base.finding = 0 \/ s.base.finding \in Findings
  <2>1. finding[f].id \in Nat
    BY FindingsAre DEF TriageIInv, Stored
  <2> QED
    BY <2>1, LoadedIsChange DEF TriageIInv, Whos
<1>2. /\ UNCHANGED <<mode, active, table, history, finding, judgeQueue, judging, llmCalls>>
      /\ setting' = setting \cup {s} /\ handler[f] = "scheduled"
      /\ handler' = [handler EXCEPT ![f] = "setting"]
      /\ verdict \in HeuristicVerdicts(finding[f].confidence)
  BY DEF Handle
<1> HIDE DEF s
<1>3. /\ handler' \in Seq({"scheduled", "setting", "done"}) /\ Len(handler') = Len(handler)
      /\ handler'[f] = "setting" /\ \A g \in Findings : g # f => handler'[g] = handler[g]
  <2>1. handler \in Seq({"scheduled", "setting", "done"}) /\ DOMAIN handler = Findings
    BY FindingsAre DEF TriageIInv, TriageTyped
  <2> QED
    BY <1>2, <2>1, ExceptSeq
<1>4. \A g \in Findings : handler'[g] = handler[g] \/ (g = s.finding /\ s.who = "heuristic")
  BY <1>1, <1>3
<1> QED
  BY <1>1, <1>2, <1>3, <1>4, CallInvariant

LEMMA AskedInvariant ==
  ASSUME TriageIInv,
         \/ \E verdict \in Verdicts, sure \in BOOLEAN : JudgeAnswers(verdict, sure)
         \/ \E id \in 1 .. MaxFindings, verdict \in Verdicts : Feedback(id, verdict)
  PROVE  TriageIInv'
<1> DEFINE Asks(s) == /\ setting' = setting \cup {s} /\ s.finding \in Findings /\ s.who # "heuristic"
                      /\ s.base.finding = 0 \/ s.base.finding \in Findings
                      /\ s.who = "llm" => s.finding = judging /\ Setting("llm") = {}
<1>1. \E s \in Change : Asks(s)
  <2>1. ASSUME NEW verdict \in Verdicts, NEW sure \in BOOLEAN, JudgeAnswers(verdict, sure)
        PROVE  \E s \in Change : Asks(s)
    <3> DEFINE v == Enriched(finding[judging].confidence, verdict, sure)
               s == Loaded("llm", judging, finding[judging].id, v)
    <3>1. judging \in Findings /\ Setting("llm") = {} /\ setting' = setting \cup {s}
      BY <2>1 DEF JudgeAnswers, TriageIInv, AskedIsWarranted
    <3>2. finding[judging].id \in Nat /\ v \in Verdicts
      BY <3>1, FindingsAre DEF TriageIInv, Stored, Enriched, Verdicts
    <3> HIDE DEF v
    <3>3. /\ s \in Change /\ s.who = "llm" /\ s.finding = judging
          /\ s.base.finding = 0 \/ s.base.finding \in Findings
      BY <3>1, <3>2, LoadedIsChange DEF TriageIInv, Whos
    <3> HIDE DEF s
    <3> QED
      BY <3>1, <3>3
  <2>2. ASSUME NEW id \in 1 .. MaxFindings, NEW verdict \in Verdicts, Feedback(id, verdict)
        PROVE  \E s \in Change : Asks(s)
    <3> DEFINE f == table[active][id].finding
               s == Loaded("human", f, id, verdict)
    <3>1. f \in Findings /\ setting' = setting \cup {s}
      BY <2>2 DEF Feedback, TriageIInv, TriageTyped, Rows
    <3> HIDE DEF f
    <3>2. /\ s \in Change /\ s.who = "human" /\ s.finding = f
          /\ s.base.finding = 0 \/ s.base.finding \in Findings
      BY <3>1, LoadedIsChange, TriageAssumption DEF TriageIInv, Whos
    <3> HIDE DEF s
    <3> QED
      BY <3>1, <3>2
  <2> QED
    BY <2>1, <2>2
<1>2. UNCHANGED <<mode, active, table, history, finding, handler, judgeQueue, judging, llmCalls>>
  BY DEF JudgeAnswers, Feedback
<1> QED
  BY <1>1, <1>2, CallInvariant DEF TriageIInv, TriageTyped

(* A call of set_triage() commits: at most one entry is added to the        *)
(* history, about its finding and by its caller.                           *)
NewEntry(s, d, i) ==
  /\ d = s.db /\ i = Len(history[s.db]) + 1
  /\ history'[d][i].finding = s.finding /\ history'[d][i].method = s.who
  /\ history'[d][i].verdict = s.verdict

LEMMA CommitWrites ==
  ASSUME TriageIInv, NEW s \in setting, CommitSet(s), UNCHANGED finding
  PROVE  /\ DOMAIN table' = Databases /\ \A d \in Databases : Rows(d)'
         /\ history' \in [Databases -> Seq(Entry)] /\ setting' = setting \ {s}
         /\ s \in Change /\ s.finding \in Findings
         /\ \A d \in Databases : \A i \in DOMAIN history[d] :
              i \in DOMAIN history'[d] /\ history'[d][i] = history[d][i]
         /\ \A d \in Databases : \A i \in DOMAIN history'[d] :
              i \in DOMAIN history[d] \/ NewEntry(s, d, i)
<1> USE DEF TriageIInv
<1>1. s \in Change /\ s.finding \in Findings /\ setting' = setting \ {s}
  BY DEF TriageTyped, ChangesKnown, CommitSet
<1>2. CASE ~(s.base.finding # 0 /\ ~SetRaises(s))
  BY <1>1, <1>2 DEF CommitSet, TriageTyped, Rows, Findings
<1>3. CASE s.base.finding # 0 /\ ~SetRaises(s)
  <2> DEFINE h == [id |-> s.id, finding |-> s.finding, verdict |-> s.verdict, method |-> s.who]
             w == Written(s)
  <2>1. /\ table' = [table EXCEPT ![s.db][s.id] = w]
        /\ history' = [history EXCEPT ![s.db] = Append(history[s.db], h)]
        /\ s.db \in Databases /\ s.id \in DOMAIN table[s.db]
    BY <1>1, <1>3 DEF CommitSet, SetRaises, Change
  <2>2. /\ h \in Entry /\ h.finding = s.finding /\ h.method = s.who /\ h.verdict = s.verdict
    BY <1>1 DEF Change, Entry
  <2>3. w \in Row /\ w.finding \in Findings
    <3>1. Rows(s.db)
      BY <2>1 DEF TriageTyped
    <3>2. PICK old \in Row : old = table[s.db][s.id]
      BY <2>1, <3>1 DEF Rows
    <3>3. old.finding \in Findings
      BY <2>1, <3>1, <3>2 DEF Rows
    <3> DEFINE v == IF s.base.verdict = s.verdict THEN old.verdict ELSE s.verdict
               m == IF s.base.method = s.who THEN old.method ELSE s.who
    <3>4. v \in Verdicts \cup {"none"} /\ m \in Whos \cup {"none"}
      BY <1>1, <3>2 DEF Row, Change
    <3>5. w = [old EXCEPT !.verdict = v, !.method = m]
      BY <3>2 DEF Written
    <3> HIDE DEF v, m, w
    <3> QED
      BY <3>3, <3>4, <3>5 DEF Row
  <2> HIDE DEF h, w
  <2>4. ASSUME NEW d \in Databases PROVE Rows(d)'
    <3>1. Rows(d) /\ Rows(s.db) /\ DOMAIN table = Databases
      BY <2>1 DEF TriageTyped
    <3>2. CASE d # s.db
      BY <2>1, <3>1, <3>2 DEF Rows, Findings
    <3>3. CASE d = s.db
      <4>1. table'[d] = [table[d] EXCEPT ![s.id] = w]
        BY <2>1, <3>1, <3>3
      <4>2. table'[d] \in [DOMAIN table[d] -> Row] /\ DOMAIN table'[d] = DOMAIN table[d]
        BY <2>3, <3>1, <4>1 DEF Rows
      <4>3. \A i \in DOMAIN table[d] : table'[d][i].finding \in Findings
        BY <2>3, <3>1, <4>1 DEF Rows
      <4> QED
        BY <3>1, <4>2, <4>3 DEF Rows, Findings
    <3> QED
      BY <3>2, <3>3
  <2>5. DOMAIN table' = Databases
    BY <2>1 DEF TriageTyped
  <2>6. /\ history \in [Databases -> Seq(Entry)] /\ history[s.db] \in Seq(Entry)
        /\ Len(history[s.db]) \in Nat
        /\ DOMAIN history[s.db] = 1 .. Len(history[s.db])
    BY <2>1, LenProperties DEF TriageTyped
  <2>7. /\ history' \in [Databases -> Seq(Entry)]
        /\ history'[s.db] = Append(history[s.db], h)
        /\ \A d \in Databases : d # s.db => history'[d] = history[d]
    BY <2>1, <2>2, <2>6
  <2>8. /\ DOMAIN history'[s.db] = DOMAIN history[s.db] \cup {Len(history[s.db]) + 1}
        /\ history'[s.db][Len(history[s.db]) + 1] = h
        /\ \A i \in DOMAIN history[s.db] : history'[s.db][i] = history[s.db][i]
    BY <2>2, <2>6, <2>7
  <2>9. ASSUME NEW d \in Databases
        PROVE  /\ \A i \in DOMAIN history[d] : i \in DOMAIN history'[d] /\ history'[d][i] = history[d][i]
               /\ \A i \in DOMAIN history'[d] : i \in DOMAIN history[d] \/ NewEntry(s, d, i)
    BY <2>2, <2>7, <2>8 DEF NewEntry
  <2> QED
    BY <1>1, <2>4, <2>5, <2>7, <2>9
<1> QED
  BY <1>2, <1>3

LEMMA EntriesAfterCommit ==
  ASSUME TriageIInv, NEW s \in setting, CommitSet(s), UNCHANGED finding,
         NEW d \in Databases, NEW i, NEW f, NEW who
  PROVE  /\ IsEntry(d, i, f, who) => IsEntry(d, i, f, who)' /\ history'[d][i] = history[d][i]
         /\ IsEntry(d, i, f, who)' =>
              \/ IsEntry(d, i, f, who) /\ history'[d][i] = history[d][i]
              \/ f = s.finding /\ who = s.who /\ NewEntry(s, d, i)
BY CommitWrites DEF IsEntry, NewEntry

LEMMA FeedbackGivenInvariant ==
  ASSUME TriageIInv, FeedbackGiven
  PROVE  TriageIInv'
<1> USE DEF TriageIInv
<1>1. PICK s \in Setting("human") : CommitSet(s)
  BY DEF FeedbackGiven
<1>2. s \in setting /\ s.who = "human"
  BY DEF Setting
<1>3. UNCHANGED <<mode, active, finding, handler, judgeQueue, judging, llmCalls>>
  BY DEF FeedbackGiven
<1>4. TriageTyped'
  BY <1>1, <1>2, <1>3, CommitWrites DEF TriageTyped
<1>5. \A f, d, i : \A who \in {"llm", "heuristic"} :
        d \in Databases =>
          /\ IsEntry(d, i, f, who)' <=> IsEntry(d, i, f, who)
          /\ IsEntry(d, i, f, who) => history'[d][i] = history[d][i]
  BY <1>1, <1>2, <1>3, EntriesAfterCommit
<1>6. ChangesKnown'
  BY <1>1, <1>2, <1>3, <1>5, CommitWrites DEF ChangesKnown, Setting, Findings
<1>7. ASSUME NEW d \in Databases, NEW i \in DOMAIN history'[d]
      PROVE  history'[d][i].finding \in Findings'
  BY <1>1, <1>2, <1>3, CommitWrites DEF NewEntry, AskedIsWarranted, Findings
<1> QED
  BY <1>3, <1>4, <1>5, <1>6, <1>7, JudgeGoesOn DEF Findings

LEMMA HandledInvariant ==
  ASSUME TriageIInv, NEW f \in Findings, Handled(f)
  PROVE  TriageIInv'
<1> USE DEF TriageIInv
<1>1. PICK s \in Setting("heuristic") :
        /\ s.finding = f /\ CommitSet(s) /\ handler' = [handler EXCEPT ![f] = "done"]
        /\ UNCHANGED <<mode, active, finding, judging>>
        /\ \/ UNCHANGED <<judgeQueue, llmCalls>>
           \/ /\ s.verdict = "uncertain" /\ ShouldLlm(finding[f].confidence)
              /\ llmCalls[finding[f].scan] < MaxLlm /\ Len(judgeQueue) < JudgeQueueSize
              /\ judgeQueue' = Append(judgeQueue, f)
              /\ llmCalls' = [llmCalls EXCEPT ![finding[f].scan] = @ + 1]
  BY DEF Handled, Enqueue
<1>2. /\ s \in setting /\ s.who = "heuristic" /\ handler[f] = "setting"
      /\ s.verdict \in HeuristicVerdicts(finding[f].confidence)
      /\ \A t \in Setting("heuristic") : t.finding = f => t = s
  BY <1>1 DEF Setting, ChangesKnown
<1>3. /\ handler' \in Seq({"scheduled", "setting", "done"}) /\ Len(handler') = Len(handler)
      /\ handler'[f] = "done" /\ \A g \in Findings : g # f => handler'[g] = handler[g]
  <2>1. handler \in Seq({"scheduled", "setting", "done"}) /\ DOMAIN handler = Findings
    BY FindingsAre DEF TriageTyped
  <2> QED
    BY <1>1, <2>1, ExceptSeq
<1>4. /\ Len(finding) \in Nat /\ Findings = 1 .. Len(finding) /\ Findings' = Findings
      /\ finding[f] \in Stored /\ f \in Nat /\ f # 0 /\ IsFiniteSet(Findings)
  BY <1>1, FindingsAre DEF Findings
<1>5. TriageTyped'
  <2>1. /\ judgeQueue \in Seq(Nat) /\ Len(judgeQueue) \in Nat /\ Len(judgeQueue) <= JudgeQueueSize
        /\ llmCalls \in [Scans -> Nat] /\ finding[f].scan \in Scans
    BY <1>4, LenProperties DEF TriageTyped, Stored
  <2>2. /\ judgeQueue' \in Seq(Nat) /\ Len(judgeQueue') <= JudgeQueueSize
        /\ llmCalls' \in [Scans -> Nat]
    <3>1. CASE UNCHANGED <<judgeQueue, llmCalls>>
      BY <2>1, <3>1
    <3>2. CASE /\ Len(judgeQueue) < JudgeQueueSize /\ judgeQueue' = Append(judgeQueue, f)
               /\ llmCalls' = [llmCalls EXCEPT ![finding[f].scan] = @ + 1]
      <4>1. judgeQueue' \in Seq(Nat) /\ Len(judgeQueue') = Len(judgeQueue) + 1
        BY <1>4, <2>1, <3>2
      <4>2. llmCalls' \in [Scans -> Nat]
        BY <2>1, <3>2
      <4> QED
        BY <2>1, <3>2, <4>1, <4>2, TriageAssumption
    <3> QED
      BY <1>1, <3>1, <3>2
  <2> QED
    BY <1>1, <1>2, <1>3, <2>2, CommitWrites DEF TriageTyped
<1>6. ASSUME NEW d \in Databases, NEW i \in Nat, NEW g
      PROVE  /\ IsEntry(d, i, g, "llm")' <=> IsEntry(d, i, g, "llm")
             /\ g # f /\ IsEntry(d, i, g, "heuristic")' =>
                  IsEntry(d, i, g, "heuristic") /\ history'[d][i].verdict = history[d][i].verdict
             /\ IsEntry(d, i, f, "heuristic")' => history'[d][i].verdict = s.verdict
  <2>1. ~IsEntry(d, i, f, "heuristic")
    BY <1>2 DEF ChangesKnown
  <2> QED
    BY <1>1, <1>2, <2>1, EntriesAfterCommit DEF NewEntry
<1>7. ChangesKnown'
  <2>1. setting' = setting \ {s}
    BY <1>1 DEF CommitSet
  <2>2. /\ \A who : \A t \in Setting(who)' : t \in Setting(who) /\ t # s
    BY <2>1 DEF Setting
  <2>3. ASSUME NEW t \in Setting("heuristic")'
        PROVE  /\ handler'[t.finding] = "setting"
               /\ t.verdict \in HeuristicVerdicts(finding'[t.finding].confidence)
    <3>1. t \in Setting("heuristic") /\ t \in setting /\ t.finding # f
      BY <1>2, <2>2 DEF Setting
    <3>2. t.finding \in Findings /\ handler[t.finding] = "setting"
          /\ t.verdict \in HeuristicVerdicts(finding[t.finding].confidence)
      BY <3>1 DEF ChangesKnown
    <3> QED
      BY <1>1, <1>3, <3>1, <3>2
  <2>4. ASSUME NEW g \in Findings, NEW d \in Databases, NEW i \in Nat, IsEntry(d, i, g, "heuristic")'
        PROVE  handler'[g] = "done"
    BY <1>3, <1>6, <2>4 DEF ChangesKnown
  <2>5. /\ \A t \in setting' : t.finding \in Findings /\ (t.base.finding = 0 \/ t.base.finding \in Findings)
        /\ \A t, u \in Setting("heuristic")' : t.finding = u.finding => t = u
        /\ \A t \in Setting("llm")' : t.finding = judging'
        /\ \A t, u \in Setting("llm")' : t = u
    BY <1>1, <2>1, <2>2 DEF ChangesKnown
  <2> QED
    BY <1>4, <2>3, <2>4, <2>5 DEF ChangesKnown
<1>8. ASSUME NEW d \in Databases, NEW i \in DOMAIN history'[d]
      PROVE  history'[d][i].finding \in Findings'
  BY <1>1, <1>2, <1>4, CommitWrites DEF NewEntry, AskedIsWarranted
<1>9. CASE UNCHANGED <<judgeQueue, llmCalls>>
  <2>1. \A g \in Findings : handler[g] = "done" => g # f /\ handler'[g] = "done"
    BY <1>2, <1>3
  <2>2. \A d \in Databases : \A i, g : IsEntry(d, i, g, "llm")' <=> IsEntry(d, i, g, "llm")
    BY <1>1, <1>2, EntriesAfterCommit
  <2>3. \A d \in Databases, i \in Nat, g \in Findings :
          handler[g] = "done" /\ IsEntry(d, i, g, "heuristic")'
            => IsEntry(d, i, g, "heuristic") /\ history'[d][i].verdict = history[d][i].verdict
    BY <1>6, <2>1
  <2> QED
    BY <1>1, <1>4, <1>5, <1>7, <1>8, <1>9, <2>1, <2>2, <2>3, JudgeGoesOn
<1>10. CASE /\ s.verdict = "uncertain" /\ ShouldLlm(finding[f].confidence)
            /\ llmCalls[finding[f].scan] < MaxLlm
            /\ judgeQueue' = Append(judgeQueue, f)
            /\ llmCalls' = [llmCalls EXCEPT ![finding[f].scan] = @ + 1]
  <2>1. /\ finding[f].confidence = "inferred" /\ mode \in {"enrich", "legacy_gray"}
    <3>1. finding[f].confidence \in Confidences
      BY <1>4 DEF Stored
    <3> QED
      BY <1>2, <1>10, <3>1 DEF ShouldLlm, SkipLlm, Confidences, HeuristicVerdicts
  <2>2. Warranted(f)'
    BY <1>1, <1>3, <1>6, <1>10, <2>1 DEF Warranted
  <2>3. ~Asked(f)
    BY <1>2 DEF AskedIsWarranted, Warranted
  <2>4. /\ \A g : HasVerdict(g)' <=> HasVerdict(g)
    BY <1>6 DEF HasVerdict
  <2>5. /\ judgeQueue \in Seq(Nat) /\ Len(judgeQueue) \in Nat /\ DOMAIN judgeQueue = 1 .. Len(judgeQueue)
        /\ DOMAIN judgeQueue' = DOMAIN judgeQueue \cup {Len(judgeQueue) + 1}
        /\ judgeQueue'[Len(judgeQueue) + 1] = f
        /\ \A i \in DOMAIN judgeQueue : judgeQueue'[i] = judgeQueue[i]
    <3>1. judgeQueue \in Seq(Nat) /\ Len(judgeQueue) \in Nat /\ DOMAIN judgeQueue = 1 .. Len(judgeQueue)
      BY LenProperties DEF TriageTyped
    <3> QED
      BY <1>4, <1>10, <3>1
  <2>6. \A g : Queued(g)' <=> Queued(g) \/ g = f
    BY <2>5 DEF Queued
  <2>7. \A g : Asked(g)' <=> Asked(g) \/ g = f
    BY <1>1, <2>4, <2>6 DEF Asked
  <2>8. AskedIsWarranted'
    <3>1. ASSUME NEW g \in Findings, Asked(g), g # f PROVE Warranted(g)'
      BY <1>1, <1>3, <1>6, <3>1 DEF AskedIsWarranted, Warranted
    <3>2. \A i \in DOMAIN judgeQueue' : judgeQueue'[i] \in Findings
      BY <2>5 DEF AskedIsWarranted
    <3>3. judging' # 0 => judging' \in Findings
      BY <1>1 DEF AskedIsWarranted
    <3>4. \A g \in Findings' : Asked(g)' => Warranted(g)'
      BY <1>4, <2>2, <2>7, <3>1
    <3> QED
      BY <1>4, <1>8, <3>2, <3>3, <3>4 DEF AskedIsWarranted
  <2>9. AskedOnce'
    <3>1. \A i \in DOMAIN judgeQueue : judgeQueue[i] # f
      BY <2>3 DEF Asked, Queued
    <3>2. \A i, j \in DOMAIN judgeQueue' : judgeQueue'[i] = judgeQueue'[j] => i = j
      BY <2>5, <3>1 DEF AskedOnce
    <3>3. ASSUME NEW g \in Findings
          PROVE  /\ Queued(g)' => judging # g /\ ~HasVerdict(g)
                 /\ judging = g => ~HasVerdict(g)
                 /\ \A d, e \in Databases, i, j \in Nat :
                      IsEntry(d, i, g, "llm") /\ IsEntry(e, j, g, "llm") => d = e /\ i = j
      BY <2>3, <2>6 DEF AskedOnce, Asked
    <3>4. ASSUME NEW g \in Findings
          PROVE  /\ Queued(g)' => judging' # g /\ ~HasVerdict(g)'
                 /\ judging' = g => ~HasVerdict(g)'
      BY <1>1, <2>4, <3>3
    <3>5. ASSUME NEW g \in Findings, NEW d \in Databases, NEW e \in Databases, NEW i \in Nat, NEW j \in Nat,
                 IsEntry(d, i, g, "llm")', IsEntry(e, j, g, "llm")'
          PROVE  d = e /\ i = j
      BY <1>6, <3>3, <3>5
    <3> QED
      BY <1>4, <3>2, <3>4, <3>5 DEF AskedOnce
  <2>10. WithinBudget'
    <3> SUFFICES ASSUME NEW scan \in Scans
                 PROVE  Cardinality(AskedAbout(scan)') <= llmCalls'[scan] /\ llmCalls'[scan] <= MaxLlm
      BY DEF WithinBudget
    <3>1. AskedAbout(scan)' \subseteq AskedAbout(scan) \cup IF scan = finding[f].scan THEN {f} ELSE {}
      BY <1>1, <1>4, <2>7 DEF AskedAbout
    <3>2. /\ IsFiniteSet(AskedAbout(scan)) /\ f \notin AskedAbout(scan)
          /\ Cardinality(AskedAbout(scan)) \in Nat
      <4>1. AskedAbout(scan) \subseteq Findings /\ f \notin AskedAbout(scan)
        BY <2>3 DEF AskedAbout
      <4> QED
        BY <1>4, <4>1, FS_Subset, FS_CardinalityType
    <3>3. /\ Cardinality(AskedAbout(scan)) <= llmCalls[scan] /\ llmCalls[scan] <= MaxLlm
          /\ llmCalls[scan] \in Nat /\ MaxLlm \in Nat /\ llmCalls \in [Scans -> Nat]
      BY TriageAssumption DEF WithinBudget, TriageTyped
    <3>4. CASE scan # finding[f].scan
      <4>1. Cardinality(AskedAbout(scan)') <= Cardinality(AskedAbout(scan)) /\ Cardinality(AskedAbout(scan)') \in Nat
        BY <3>1, <3>2, <3>4, FS_Subset, FS_CardinalityType
      <4>2. llmCalls'[scan] = llmCalls[scan]
        BY <1>10, <3>3, <3>4
      <4> QED
        BY <3>2, <3>3, <4>1, <4>2
    <3>5. CASE scan = finding[f].scan
      <4> DEFINE more == AskedAbout(scan) \cup {f}
      <4>1. IsFiniteSet(more) /\ Cardinality(more) = Cardinality(AskedAbout(scan)) + 1
        BY <3>2, FS_AddElement
      <4>2. AskedAbout(scan)' \subseteq more
        BY <3>1, <3>5
      <4> HIDE DEF more
      <4>3. Cardinality(AskedAbout(scan)') <= Cardinality(more) /\ Cardinality(AskedAbout(scan)') \in Nat
        BY <4>1, <4>2, FS_Subset, FS_CardinalityType
      <4>4. llmCalls'[scan] = llmCalls[scan] + 1 /\ llmCalls[scan] < MaxLlm
        BY <1>10, <3>3, <3>5
      <4> QED
        BY <3>2, <3>3, <4>1, <4>3, <4>4
    <3> QED
      BY <3>4, <3>5
  <2> QED
    BY <1>5, <1>7, <2>8, <2>9, <2>10
<1> QED
  BY <1>1, <1>9, <1>10

(* The judge moves, and nobody else is asked about. *)
LEMMA JudgeMoves ==
  ASSUME TriageIInv, TriageTyped', ChangesKnown', AskedOnce',
         UNCHANGED <<mode, finding, handler, llmCalls>>,
         \A f \in Findings : Asked(f)' => Asked(f),
         \A d \in Databases, i \in Nat, f \in Findings :
           IsEntry(d, i, f, "heuristic")'
             => IsEntry(d, i, f, "heuristic") /\ history'[d][i].verdict = history[d][i].verdict,
         \A i \in DOMAIN judgeQueue' : judgeQueue'[i] \in Findings,
         judging' # 0 => judging' \in Findings,
         \A d \in Databases : \A i \in DOMAIN history'[d] : history'[d][i].finding \in Findings
  PROVE  TriageIInv'
<1> USE DEF TriageIInv
<1>1. Findings' = Findings
  BY DEF Findings
<1>2. AskedIsWarranted'
  <2>1. ASSUME NEW f \in Findings, Asked(f)' PROVE Warranted(f)'
    BY <2>1 DEF AskedIsWarranted, Warranted
  <2> QED
    BY <1>1, <2>1 DEF AskedIsWarranted
<1>3. WithinBudget'
  <2>1. ASSUME NEW scan \in Scans PROVE AskedAbout(scan)' \subseteq AskedAbout(scan)
    BY <1>1 DEF AskedAbout
  <2> QED
    BY <2>1, BudgetGoesOn DEF WithinBudget
<1> QED
  BY <1>2, <1>3

LEMMA JudgeTakesInvariant ==
  ASSUME TriageIInv, JudgeTakes
  PROVE  TriageIInv'
<1> USE DEF TriageIInv
<1>1. /\ judging = 0 /\ judgeQueue # <<>> /\ judging' = Head(judgeQueue)
      /\ judgeQueue' = Tail(judgeQueue)
      /\ UNCHANGED <<mode, active, table, history, finding, handler, setting, llmCalls>>
  BY DEF JudgeTakes
<1>2. PICK n \in Nat : n = Len(judgeQueue)
  BY LenProperties DEF TriageTyped
<1>3. /\ judgeQueue \in Seq(Nat) /\ n > 0 /\ DOMAIN judgeQueue = 1 .. n
      /\ judging' = judgeQueue[1] /\ judging' \in Nat
      /\ judgeQueue' \in Seq(Nat) /\ Len(judgeQueue') = n - 1 /\ DOMAIN judgeQueue' = 1 .. n - 1
      /\ \A i \in 1 .. n - 1 : judgeQueue'[i] = judgeQueue[i + 1]
  <2>1. judgeQueue \in Seq(Nat) /\ n > 0 /\ DOMAIN judgeQueue = 1 .. n
    BY <1>1, <1>2, LenProperties, EmptySeq DEF TriageTyped
  <2>2. judging' = judgeQueue[1] /\ judging' \in Nat
    BY <1>1, <1>2, <2>1
  <2>3. /\ judgeQueue' \in Seq(Nat) /\ Len(judgeQueue') = n - 1
        /\ \A i \in 1 .. n - 1 : judgeQueue'[i] = judgeQueue[i + 1]
    BY <1>1, <1>2, <2>1, HeadTailProperties
  <2> QED
    BY <2>1, <2>2, <2>3, LenProperties
<1>13. 1 \in 1 .. n /\ \A i \in 1 .. n - 1 : i \in Nat /\ i + 1 \in 1 .. n /\ i + 1 # 1
  BY <1>3
<1>14. /\ \A i \in 1 .. n : judgeQueue[i] \in Findings
       /\ \A i, j \in 1 .. n : judgeQueue[i] = judgeQueue[j] => i = j
  BY <1>3 DEF AskedIsWarranted, AskedOnce
<1>4. judging' \in Findings /\ \A i \in DOMAIN judgeQueue' : judgeQueue'[i] \in Findings
  BY <1>3, <1>13, <1>14
<1>5. \A f \in Findings : Queued(f)' => Queued(f) /\ f # judging'
  <2>1. ASSUME NEW i \in 1 .. n - 1
        PROVE  /\ i + 1 \in DOMAIN judgeQueue /\ judgeQueue'[i] = judgeQueue[i + 1]
               /\ judgeQueue[i + 1] # judgeQueue[1]
    BY <1>3, <1>13, <1>14
  <2> QED
    BY <1>3, <2>1 DEF Queued
<1>6. Queued(judging') /\ judging' # 0
  <2>1. 0 \notin Findings
    BY FindingsAre
  <2>2. 1 \in DOMAIN judgeQueue /\ judgeQueue[1] = judging'
    BY <1>3, <1>13
  <2> QED
    BY <1>4, <2>1, <2>2 DEF Queued
<1>7. /\ \A d, i, f, who : IsEntry(d, i, f, who)' <=> IsEntry(d, i, f, who)
      /\ \A f : HasVerdict(f)' <=> HasVerdict(f)
  BY <1>1 DEF IsEntry, HasVerdict
<1>8. \A f \in Findings : Asked(f)' => Asked(f)
  BY <1>5, <1>6, <1>7 DEF Asked
<1>9. TriageTyped'
  BY <1>1, <1>2, <1>3, TriageAssumption DEF TriageTyped, Rows, Findings
<1>10. ChangesKnown'
  <2>1. Setting("llm") = {}
    <3>1. 0 \notin Findings
      BY FindingsAre
    <3> QED
      BY <1>1, <3>1 DEF ChangesKnown, Setting
  <2>2. \A who : Setting(who)' = Setting(who)
    BY <1>1 DEF Setting
  <2> QED
    BY <1>1, <1>7, <2>1, <2>2 DEF ChangesKnown, Findings
<1>11. AskedOnce'
  <2>1. \A i, j \in DOMAIN judgeQueue' : judgeQueue'[i] = judgeQueue'[j] => i = j
    <3> SUFFICES ASSUME NEW i \in 1 .. n - 1, NEW j \in 1 .. n - 1, judgeQueue'[i] = judgeQueue'[j]
                 PROVE  i = j
      BY <1>3
    <3>1. /\ judgeQueue[i + 1] = judgeQueue[j + 1] /\ i + 1 \in 1 .. n /\ j + 1 \in 1 .. n
      BY <1>3, <1>13
    <3>2. i + 1 = j + 1
      BY <1>14, <3>1
    <3> QED
      BY <3>2
  <2>2. ASSUME NEW f \in Findings
        PROVE  /\ Queued(f)' => judging' # f /\ ~HasVerdict(f)
               /\ judging' = f => ~HasVerdict(f)
               /\ \A d, e \in Databases, i, j \in Nat :
                    IsEntry(d, i, f, "llm") /\ IsEntry(e, j, f, "llm") => d = e /\ i = j
    BY <1>4, <1>5, <1>6 DEF AskedOnce
  <2>3. Findings' = Findings
    BY <1>1 DEF Findings
  <2> QED
    BY <1>7, <2>1, <2>2, <2>3 DEF AskedOnce
<1>12. \A d \in Databases : \A i \in DOMAIN history'[d] : history'[d][i].finding \in Findings
  BY <1>1 DEF AskedIsWarranted
<1> QED
  BY <1>1, <1>4, <1>7, <1>8, <1>9, <1>10, <1>11, <1>12, JudgeMoves

LEMMA JudgeUnavailableInvariant ==
  ASSUME TriageIInv, JudgeUnavailable
  PROVE  TriageIInv'
<1> USE DEF TriageIInv
<1>1. /\ Setting("llm") = {} /\ judging' = 0
      /\ UNCHANGED <<mode, active, table, history, finding, handler, setting, judgeQueue, llmCalls>>
  BY DEF JudgeUnavailable
<1>2. TriageTyped'
  BY <1>1 DEF TriageTyped, Rows, Findings
<1>3. /\ \A d, i, f, who : IsEntry(d, i, f, who)' <=> IsEntry(d, i, f, who)
      /\ \A f : HasVerdict(f)' <=> HasVerdict(f)
      /\ \A f : Queued(f)' <=> Queued(f)
      /\ \A who : Setting(who)' = Setting(who)
      /\ Findings' = Findings
  BY <1>1 DEF IsEntry, HasVerdict, Queued, Setting, Findings
<1>4. 0 \notin Findings
  BY FindingsAre
<1>5. ChangesKnown'
  BY <1>1, <1>3 DEF ChangesKnown
<1>6. AskedOnce'
  BY <1>1, <1>3, <1>4 DEF AskedOnce
<1>7. \A f \in Findings : Asked(f)' => Asked(f)
  BY <1>1, <1>3, <1>4 DEF Asked
<1>8. /\ \A i \in DOMAIN judgeQueue' : judgeQueue'[i] \in Findings
      /\ \A d \in Databases : \A i \in DOMAIN history'[d] : history'[d][i].finding \in Findings
  BY <1>1 DEF AskedIsWarranted
<1> QED
  BY <1>1, <1>2, <1>3, <1>5, <1>6, <1>7, <1>8, JudgeMoves

LEMMA JudgedInvariant ==
  ASSUME TriageIInv, Judged
  PROVE  TriageIInv'
<1> USE DEF TriageIInv
<1>1. PICK s \in Setting("llm") :
        CommitSet(s) /\ judging' = 0
          /\ UNCHANGED <<mode, active, finding, handler, judgeQueue, llmCalls>>
  BY DEF Judged
<1>2. /\ s \in setting /\ s.who = "llm" /\ s.finding = judging /\ s.finding \in Findings
      /\ \A t \in Setting("llm") : t = s
  BY DEF Setting, ChangesKnown
<1>3. 0 \notin Findings /\ Findings' = Findings
  BY <1>1, FindingsAre DEF Findings
<1>4. TriageTyped'
  BY <1>1, <1>2, CommitWrites DEF TriageTyped
<1>5. ASSUME NEW d \in Databases, NEW i \in Nat, NEW f
      PROVE  /\ IsEntry(d, i, f, "heuristic")'
                  => IsEntry(d, i, f, "heuristic") /\ history'[d][i].verdict = history[d][i].verdict
             /\ IsEntry(d, i, f, "llm")' =>
                  \/ IsEntry(d, i, f, "llm")
                  \/ f = judging /\ d = s.db /\ i = Len(history[s.db]) + 1
  BY <1>1, <1>2, EntriesAfterCommit DEF NewEntry
<1>6. \A f : /\ Queued(f)' <=> Queued(f)
             /\ HasVerdict(f)' => HasVerdict(f) \/ f = judging
  BY <1>1, <1>5 DEF Queued, HasVerdict
<1>7. \A f \in Findings : Asked(f)' => Asked(f)
  BY <1>1, <1>3, <1>6 DEF Asked
<1>8. ChangesKnown'
  <2>1. setting' = setting \ {s}
    BY <1>1 DEF CommitSet
  <2>2. Setting("llm")' = {} /\ Setting("heuristic")' = Setting("heuristic")
    BY <1>2, <2>1 DEF Setting
  <2>3. ASSUME NEW f \in Findings, NEW d \in Databases, NEW i \in Nat, IsEntry(d, i, f, "heuristic")'
        PROVE  handler[f] = "done"
    BY <1>5, <2>3 DEF ChangesKnown
  <2> QED
    BY <1>1, <1>3, <2>1, <2>2, <2>3 DEF ChangesKnown
<1>9. AskedOnce'
  <2>1. ASSUME NEW f \in Findings
        PROVE  /\ Queued(f)' => judging' # f /\ ~HasVerdict(f)'
               /\ judging' # f
               /\ \A d, e \in Databases, i, j \in Nat :
                    IsEntry(d, i, f, "llm")' /\ IsEntry(e, j, f, "llm")' => d = e /\ i = j
    <3>1. CASE f = judging
      <4>1. ~HasVerdict(f) /\ ~Queued(f)
        BY <3>1 DEF AskedOnce
      <4>2. \A d \in Databases, i \in Nat : ~IsEntry(d, i, f, "llm")
        BY <4>1 DEF HasVerdict
      <4>3. Queued(f)' => judging' # f /\ ~HasVerdict(f)'
        BY <1>6, <4>1
      <4>4. judging' # f
        BY <1>1, <1>3
      <4>5. ASSUME NEW d \in Databases, NEW i \in Nat, IsEntry(d, i, f, "llm")'
            PROVE  d = s.db /\ i = Len(history[s.db]) + 1
        BY <1>5, <4>2, <4>5
      <4> QED
        BY <4>3, <4>4, <4>5
    <3>2. CASE f # judging
      BY <1>1, <1>3, <1>5, <1>6, <3>2 DEF AskedOnce
    <3> QED
      BY <3>1, <3>2
  <2>2. \A i, j \in DOMAIN judgeQueue' : judgeQueue'[i] = judgeQueue'[j] => i = j
    BY <1>1 DEF AskedOnce
  <2> QED
    BY <1>3, <2>1, <2>2 DEF AskedOnce
<1>10. ASSUME NEW d \in Databases, NEW i \in DOMAIN history'[d]
       PROVE  history'[d][i].finding \in Findings
  BY <1>1, <1>2, CommitWrites DEF NewEntry, AskedIsWarranted
<1>11. \A i \in DOMAIN judgeQueue' : judgeQueue'[i] \in Findings
  BY <1>1 DEF AskedIsWarranted
<1> QED
  BY <1>1, <1>4, <1>5, <1>7, <1>8, <1>9, <1>10, <1>11, JudgeMoves

LEMMA TriageInitInvariant == TriageInit => TriageIInv
<1> SUFFICES ASSUME TriageInit PROVE TriageIInv
  OBVIOUS
<1>1. /\ active \in Databases /\ table = [d \in Databases |-> <<>>]
      /\ history = [d \in Databases |-> <<>>] /\ finding = <<>> /\ handler = <<>> /\ setting = {}
      /\ judgeQueue = <<>> /\ judging = 0 /\ llmCalls = [s \in Scans |-> 0]
  BY TriageAssumption DEF TriageInit
<1>2. /\ Findings = {} /\ Len(judgeQueue) = 0
      /\ finding \in Seq(Stored) /\ handler \in Seq({"scheduled", "setting", "done"})
      /\ judgeQueue \in Seq(Nat) /\ history \in [Databases -> Seq(Entry)]
      /\ Len(handler) = Len(finding)
  BY <1>1, EmptySeq DEF Findings
<1>3. \A d \in Databases : Rows(d)
  BY <1>1 DEF Rows
<1>4. TriageTyped
  BY <1>1, <1>2, <1>3, TriageAssumption DEF TriageTyped
<1>5. AskedIsWarranted /\ AskedOnce /\ ChangesKnown
  BY <1>1, <1>2 DEF AskedIsWarranted, AskedOnce, ChangesKnown, Setting
<1>6. \A scan \in Scans : AskedAbout(scan) = {}
  BY <1>2 DEF AskedAbout
<1>7. WithinBudget
  <2>1. \A scan \in Scans : Cardinality(AskedAbout(scan)) = 0
    <3>1. Cardinality({}) = 0
      BY FS_EmptySet
    <3> QED
      BY <1>6, <3>1
  <2>2. \A scan \in Scans : llmCalls[scan] = 0 /\ 0 <= MaxLlm
    BY <1>1, TriageAssumption
  <2> QED
    BY <2>1, <2>2 DEF WithinBudget
<1> QED
  BY <1>4, <1>5, <1>7 DEF TriageIInv

LEMMA TriageStepInvariant == TriageIInv /\ [TriageNext]_triageVars => TriageIInv'
<1> SUFFICES ASSUME TriageIInv, [TriageNext]_triageVars PROVE TriageIInv'
  OBVIOUS
<1>1. CASE \E confidence \in Confidences, scan \in Scans : SaveFinding(confidence, scan)
  BY <1>1, SaveFindingInvariant
<1>2. CASE \/ \E ids \in SUBSET (1 .. MaxFindings) : DeleteFindings(ids)
           \/ \E d \in Databases : LoadOtherSession(d)
  BY <1>2, TableMovesAlone
<1>3. ASSUME NEW f \in Findings, NEW verdict \in Verdicts, Handle(f, verdict) PROVE TriageIInv'
  BY <1>3, HandleInvariant
<1>4. ASSUME NEW f \in Findings, Handled(f) PROVE TriageIInv'
  BY <1>4, HandledInvariant
<1>5. CASE JudgeTakes
  BY <1>5, JudgeTakesInvariant
<1>6. CASE JudgeUnavailable
  BY <1>6, JudgeUnavailableInvariant
<1>7. CASE Judged
  BY <1>7, JudgedInvariant
<1>8. CASE \/ \E verdict \in Verdicts, sure \in BOOLEAN : JudgeAnswers(verdict, sure)
           \/ \E id \in 1 .. MaxFindings, verdict \in Verdicts : Feedback(id, verdict)
  BY <1>8, AskedInvariant
<1>9. CASE FeedbackGiven
  BY <1>9, FeedbackGivenInvariant
<1>10. CASE UNCHANGED triageVars
  <2>1. UNCHANGED <<mode, active, table, history, finding, handler, setting, judgeQueue, judging,
                    llmCalls>>
    BY <1>10 DEF triageVars
  <2>2. TriageTyped'
    BY <2>1 DEF TriageIInv, TriageTyped, Rows, Findings
  <2>3. \A f, d, i, who : IsEntry(d, i, f, who)' <=> IsEntry(d, i, f, who)
    BY <2>1 DEF IsEntry
  <2>4. ChangesKnown'
    BY <2>1, <2>3 DEF TriageIInv, ChangesKnown, Setting, Findings
  <2>5. \A d \in Databases : \A i \in DOMAIN history'[d] : history'[d][i].finding \in Findings'
    BY <2>1 DEF TriageIInv, AskedIsWarranted, Findings
  <2> QED
    BY <2>1, <2>2, <2>3, <2>4, <2>5, JudgeGoesOn DEF Findings
<1> QED
  BY <1>1, <1>2, <1>3, <1>4, <1>5, <1>6, <1>7, <1>8, <1>9, <1>10 DEF TriageNext

LEMMA TriageInvariant == TriageSpec => []TriageIInv
  BY TriageInitInvariant, TriageStepInvariant, PTL DEF TriageSpec

(* The cap on the judge, over every interleaving of handle(), set_triage(), *)
(* the worker and the loading of sessions: no more than max_llm_per_scan    *)
(* findings of a scan are judged or wait for it, none twice, and only those *)
(* the scanner inferred and the heuristic was not sure of                   *)
(* (triage/pipeline.py:54-164).                                             *)
THEOREM JudgeKeepsLimits == TriageSpec => []JudgeWithinLimits
<1>1. TriageIInv => JudgeWithinLimits
  BY CapIsKept
<1> QED
  BY <1>1, TriageInvariant, PTL

(* What the findings and the calls of set_triage() are, whatever session is *)
(* loaded when a verdict is written: a row is of a finding that was saved,  *)
(* and the queue of the judge keeps within queue_maxsize                    *)
(* (findings/storage.py:77-170, triage/pipeline.py:33,110-128).             *)
THEOREM TriageTypeCorrect == TriageSpec => []TriageTypeOK
<1>1. TriageIInv => TriageTypeOK
  <2> SUFFICES ASSUME TriageIInv PROVE TriageTypeOK
    OBVIOUS
  <2>1. active \in Databases /\ Len(judgeQueue) <= JudgeQueueSize
    BY DEF TriageIInv, TriageTyped
  <2>2. ASSUME NEW d \in Databases, NEW i \in DOMAIN table[d]
        PROVE  table[d][i].finding \in Findings /\ table[d][i].verdict \in Verdicts \cup {"none"}
    <3>1. Rows(d)
      BY DEF TriageIInv, TriageTyped
    <3>2. table[d][i] \in Row /\ table[d][i].finding \in Findings
      BY <3>1 DEF Rows
    <3> QED
      BY <3>2 DEF Row
  <2> QED
    BY <2>1, <2>2 DEF TriageTypeOK
<1> QED
  BY <1>1, TriageInvariant, PTL

-----------------------------------------------------------------------------
(* The intruder (Intruder). *)

LEMMA IntruderLists ==
  /\ M \in Nat /\ DOMAIN Bases = 1 .. M
  /\ W \in Nat /\ DOMAIN Words = 1 .. W /\ \A k \in 1 .. W : Words[k] \in ToSet(Words)
  /\ \A w \in ToSet(Words) : \E k \in 1 .. W : w = Words[k]
BY IntruderAssumption, LenProperties DEF M, W, ToSet

(* The recursive definition of Power defines a function: there is one up to *)
(* each k, by induction.                                                   *)
LEMMA PowerLaws ==
  Power[0] = 1 /\ \A k \in 0 .. M - 1 : Power[k + 1] = W * Power[k]
<1> DEFINE Is(f, n) == f = [k \in 0 .. n |-> IF k = 0 THEN 1 ELSE W * f[k - 1]]
           S == {n \in Nat : \E f : Is(f, n)}
<1>1. 0 \in S
  <2>1. Is([k \in 0 .. 0 |-> 1], 0)
    OBVIOUS
  <2> QED
    BY <2>1
<1>2. ASSUME NEW n \in Nat, n \in S PROVE n + 1 \in S
  <2>1. PICK f : Is(f, n)
    BY <1>2
  <2> DEFINE g == [k \in 0 .. n + 1 |-> IF k = n + 1 THEN W * f[n] ELSE f[k]]
  <2>2. ASSUME NEW k \in 0 .. n + 1 PROVE g[k] = IF k = 0 THEN 1 ELSE W * g[k - 1]
    <3>1. \A l \in 0 .. n : g[l] = f[l] /\ f[l] = IF l = 0 THEN 1 ELSE W * f[l - 1]
      BY <1>2, <2>1
    <3>2. g[n + 1] = W * f[n] /\ n + 1 # 0 /\ (n + 1) - 1 = n /\ g[n] = f[n]
      BY <1>2
    <3>3. CASE k = n + 1
      BY <3>2, <3>3
    <3>4. CASE k # n + 1
      <4>1. k \in 0 .. n /\ (k # 0 => k - 1 \in 0 .. n)
        BY <1>2, <3>4
      <4> HIDE DEF g
      <4> QED
        BY <3>1, <4>1
    <3> QED
      BY <3>3, <3>4
  <2>3. Is(g, n + 1)
    BY <2>2
  <2> HIDE DEF Is, g
  <2> QED
    BY <2>3
<1>3. M \in Nat
  BY IntruderLists
<1>4. M \in S
  <2> HIDE DEF S
  <2> QED
    BY <1>1, <1>2, <1>3, EveryNumber
<1>5. \E f : f = [k \in 0 .. M |-> IF k = 0 THEN 1 ELSE W * f[k - 1]]
  BY <1>4
<1>6. Power = [k \in 0 .. M |-> IF k = 0 THEN 1 ELSE W * Power[k - 1]]
  BY <1>5 DEF Power
<1>7. Power[0] = 1
  BY <1>3, <1>6
<1>8. ASSUME NEW k \in 0 .. M - 1 PROVE Power[k + 1] = W * Power[k]
  <2> DEFINE l == k + 1
  <2>1. l \in 0 .. M /\ l # 0 /\ l - 1 = k
    BY <1>3
  <2> HIDE DEF l
  <2>2. Power[l] = W * Power[l - 1]
    BY <1>6, <2>1
  <2> QED
    BY <2>1, <2>2 DEF l
<1> QED
  BY <1>7, <1>8

LEMMA PowersAreNumbers ==
  ASSUME W # 0, NEW k \in 0 .. M
  PROVE  Power[k] \in Nat \ {0}
<1> DEFINE S == {n \in Nat : n <= M => Power[n] \in Nat \ {0}}
<1>1. W \in Nat \ {0} /\ M \in Nat
  BY IntruderLists
<1>2. 0 \in S
  BY <1>1, PowerLaws
<1>3. ASSUME NEW n \in Nat, n \in S PROVE n + 1 \in S
  <2>1. CASE n + 1 <= M
    <3>1. Power[n + 1] = W * Power[n] /\ Power[n] \in Nat \ {0}
      BY <1>1, <1>3, <2>1, PowerLaws
    <3>2. \A a, b \in Nat \ {0} : a * b \in Nat \ {0}
      OBVIOUS
    <3> QED
      BY <1>1, <3>1, <3>2
  <2>2. CASE ~(n + 1 <= M)
    BY <2>2
  <2> QED
    BY <2>1, <2>2
<1> HIDE DEF S
<1>4. \A n \in Nat : n \in S
  BY <1>2, <1>3, EveryNumber
<1> QED
  BY <1>1, <1>4 DEF S

LEMMA Division ==
  ASSUME NEW a \in Nat, NEW b \in Nat \ {0}
  PROVE  a \div b \in Nat /\ a % b \in 0 .. b - 1 /\ a = b * (a \div b) + (a % b)
OBVIOUS

LEMMA QuotientIs ==
  ASSUME NEW b \in Nat \ {0}, NEW q \in Nat, NEW r \in 0 .. b - 1
  PROVE  (b * q + r) \div b = q /\ (b * q + r) % b = r
OBVIOUS

LEMMA QuotientOfQuotient ==
  ASSUME NEW a \in Nat, NEW b \in Nat \ {0}, NEW c \in Nat \ {0}
  PROVE  (a \div b) \div c = a \div (b * c)
OBVIOUS

LEMMA DigitsInRange ==
  ASSUME NEW p \in Nat \ {0}, NEW x \in 0 .. p - 1, NEW w \in Nat \ {0}, NEW y \in 0 .. w - 1
  PROVE  w * x + y \in 0 .. w * p - 1
<1>1. w * x <= w * (p - 1) /\ w * (p - 1) = w * p - w /\ w * x \in Nat /\ w * p \in Nat
  OBVIOUS
<1> QED
  BY <1>1

(* Every number of W digits is the number of a request. *)
LEMMA EveryCombination ==
  ASSUME W # 0, NEW d \in [1 .. M -> 0 .. W - 1]
  PROVE  \E n \in 0 .. Power[M] - 1 : \A i \in 1 .. M : (n \div Power[M - i]) % W = d[i]
<1> DEFINE S == {k \in Nat : k <= M =>
                   \E n \in 0 .. Power[k] - 1 : \A i \in 1 .. k : (n \div Power[k - i]) % W = d[i]}
<1>1. W \in Nat \ {0} /\ M \in Nat
  BY IntruderLists
<1>2. 0 \in S
  <2>1. Power[0] = 1
    BY PowerLaws
  <2>2. 0 \in 0 .. Power[0] - 1 /\ 1 .. 0 = {}
    BY <2>1
  <2> QED
    BY <2>2
<1>3. ASSUME NEW k \in Nat, k \in S PROVE k + 1 \in S
  <2>1. CASE ~(k + 1 <= M)
    BY <2>1
  <2>2. CASE k + 1 <= M
    <3>1. PICK n \in 0 .. Power[k] - 1 : \A i \in 1 .. k : (n \div Power[k - i]) % W = d[i]
      BY <1>1, <1>3, <2>2
    <3>2. Power[k] \in Nat \ {0} /\ Power[k + 1] = W * Power[k]
      BY <1>1, <2>2, PowersAreNumbers, PowerLaws
    <3>3. PICK e \in 0 .. W - 1 : e = d[k + 1]
      BY <1>1, <2>2
    <3> DEFINE m == W * n + e
    <3>4. m \in 0 .. Power[k + 1] - 1
      BY <1>1, <3>2, DigitsInRange
    <3>5. m \in Nat /\ m \div W = n /\ m % W = e
      <4>1. n \in Nat /\ e \in Nat
        BY <1>1
      <4>2. W * n \in Nat
        BY <1>1, <4>1
      <4>3. (W * n + e) \div W = n /\ (W * n + e) % W = e
        BY <1>1, <4>1, QuotientIs
      <4> QED
        BY <4>1, <4>2, <4>3
    <3> HIDE DEF m
    <3>6. ASSUME NEW i \in 1 .. k + 1 PROVE (m \div Power[(k + 1) - i]) % W = d[i]
      <4>1. CASE i = k + 1
        <5>1. (k + 1) - i = 0 /\ Power[0] = 1
          BY <4>1, PowerLaws
        <5>2. m \div 1 = m
          BY <3>5
        <5> QED
          BY <3>3, <3>5, <4>1, <5>1, <5>2
      <4>2. CASE i # k + 1
        <5> DEFINE j == k - i
        <5>1. i \in 1 .. k /\ j \in 0 .. M - 1 /\ j \in 0 .. M /\ (k + 1) - i = j + 1
          BY <1>1, <2>2, <4>2
        <5>2. (n \div Power[j]) % W = d[i]
          BY <3>1, <5>1
        <5> HIDE DEF j
        <5>3. PICK p \in Nat \ {0} : p = Power[j]
          BY <5>1, PowersAreNumbers
        <5>4. Power[j + 1] = W * p
          BY <5>1, <5>3, PowerLaws
        <5>5. m \div (W * p) = n \div p
          BY <1>1, <3>5, QuotientOfQuotient
        <5> QED
          BY <5>1, <5>2, <5>3, <5>4, <5>5
      <4> QED
        BY <4>1, <4>2
    <3>7. \E x \in 0 .. Power[k + 1] - 1 : \A i \in 1 .. k + 1 : (x \div Power[(k + 1) - i]) % W = d[i]
      BY <3>4, <3>6
    <3> QED
      BY <3>7
  <2> QED
    BY <2>1, <2>2
<1> HIDE DEF S
<1>4. M \in S
  BY <1>1, <1>2, <1>3, EveryNumber
<1> QED
  BY <1>1, <1>4 DEF S

(* The words between markers i of the requests of a sniper, and of a cluster *)
(* bomb, are all that the mode promises.                                   *)
LEMMA SniperTriesAll ==
  ASSUME NEW a \in Attacks, attack[a].mode = "sniper"
  PROVE  {Sniper[n] : n \in 1 .. M * W} = Promised(a)
<1>1. M \in Nat /\ W \in Nat /\ M * W \in Nat
  BY IntruderLists
<1>2. ASSUME NEW i \in 1 .. M, NEW w
      PROVE  [Bases EXCEPT ![i] = w] = [j \in 1 .. M |-> IF j = i THEN w ELSE Bases[j]]
  <2>1. Bases = [j \in 1 .. M |-> Bases[j]]
    BY IntruderLists, IntruderAssumption
  <2> QED
    BY <2>1
<1>3. ASSUME NEW n \in 1 .. M * W
      PROVE  \E i \in DOMAIN Bases, w \in ToSet(Words) : Sniper[n] = [Bases EXCEPT ![i] = w]
  <2> DEFINE q == (n - 1) \div W
             r == (n - 1) % W
  <2>1. W # 0 /\ n - 1 \in Nat /\ n - 1 < M * W
    BY <1>1
  <2>2. q \in Nat /\ r \in 0 .. W - 1 /\ n - 1 = W * q + r
    BY <1>1, <2>1, Division
  <2>3. q < M
    <3> HIDE DEF q, r
    <3>1. CASE q >= M
      <4>1. W * q >= W * M /\ W * M = M * W
        BY <1>1, <2>2, <3>1
      <4> QED
        BY <1>1, <2>1, <2>2, <4>1
    <3> QED
      BY <1>1, <2>2, <3>1
  <2>4. q + 1 \in 1 .. M /\ r + 1 \in 1 .. W
    BY <1>1, <2>2, <2>3
  <2>5. Sniper[n] = [j \in 1 .. M |-> IF j = q + 1 THEN Words[r + 1] ELSE Bases[j]]
    BY DEF Sniper
  <2> HIDE DEF q, r
  <2> QED
    BY <1>2, <2>4, <2>5, IntruderLists
<1>4. ASSUME NEW i \in DOMAIN Bases, NEW w \in ToSet(Words)
      PROVE  \E n \in 1 .. M * W : Sniper[n] = [Bases EXCEPT ![i] = w]
  <2>1. PICK k \in 1 .. W : w = Words[k]
    BY IntruderLists
  <2>2. i \in 1 .. M /\ i - 1 \in Nat /\ k - 1 \in 0 .. W - 1 /\ W \in Nat \ {0}
    BY <1>1, <2>1, IntruderLists
  <2> DEFINE n == W * (i - 1) + (k - 1) + 1
  <2>3. n - 1 \in 0 .. W * M - 1
    <3>1. W * (i - 1) + (k - 1) \in 0 .. W * M - 1
      BY <2>2, <1>1, DigitsInRange
    <3>2. W * (i - 1) \in Nat
      BY <2>2
    <3> QED
      BY <2>2, <3>1, <3>2
  <2>4. n \in 1 .. M * W
    <3>1. W * M = M * W /\ W * (i - 1) \in Nat
      BY <1>1, <2>2
    <3> QED
      BY <1>1, <2>2, <2>3, <3>1
  <2>5. (n - 1) \div W = i - 1 /\ (n - 1) % W = k - 1
    <3>1. n - 1 = W * (i - 1) + (k - 1)
      <4>1. W * (i - 1) \in Nat
        BY <2>2
      <4> QED
        BY <2>2, <4>1
    <3> QED
      BY <2>2, <3>1, QuotientIs
  <2>6. Sniper[n] = [j \in 1 .. M |-> IF j = ((n - 1) \div W) + 1 THEN Words[((n - 1) % W) + 1] ELSE Bases[j]]
    BY <2>4 DEF Sniper
  <2> HIDE DEF n
  <2>7. Sniper[n] = [j \in 1 .. M |-> IF j = i THEN w ELSE Bases[j]]
    BY <2>1, <2>2, <2>5, <2>6
  <2> QED
    BY <1>2, <2>2, <2>4, <2>7
<1> DEFINE put(i, w) == [Bases EXCEPT ![i] = w]
           all == {put(i, w) : i \in DOMAIN Bases, w \in ToSet(Words)}
           tried == {Sniper[n] : n \in 1 .. M * W}
<1>5. /\ \A n \in 1 .. M * W : \E i \in DOMAIN Bases, w \in ToSet(Words) : Sniper[n] = put(i, w)
      /\ \A i \in DOMAIN Bases, w \in ToSet(Words) : \E n \in 1 .. M * W : Sniper[n] = put(i, w)
  BY <1>3, <1>4
<1>6. tried = all
  <2> HIDE DEF put
  <2> QED
    BY <1>5
<1>7. Promised(a) = all
  BY DEF Promised
<1> QED
  BY <1>6, <1>7

LEMMA ClusterBombTriesAll ==
  ASSUME W # 0, NEW a \in Attacks, attack[a].mode # "sniper"
  PROVE  {ClusterBomb[n] : n \in 1 .. Power[M]} = Promised(a)
<1>1. M \in Nat /\ W \in Nat \ {0} /\ Power[M] \in Nat \ {0}
  BY IntruderLists, PowersAreNumbers
<1>2. ASSUME NEW n \in 1 .. Power[M] PROVE ClusterBomb[n] \in [1 .. M -> ToSet(Words)]
  <2>1. ClusterBomb[n] = [i \in 1 .. M |-> Words[(((n - 1) \div Power[M - i]) % W) + 1]]
    BY DEF ClusterBomb
  <2>2. ASSUME NEW i \in 1 .. M PROVE Words[(((n - 1) \div Power[M - i]) % W) + 1] \in ToSet(Words)
    <3>1. n - 1 \in Nat /\ Power[M - i] \in Nat \ {0}
      BY <1>1, PowersAreNumbers
    <3>2. PICK q \in Nat : q = (n - 1) \div Power[M - i]
      BY <3>1, Division
    <3>3. q % W \in 0 .. W - 1
      BY <1>1, Division
    <3>4. (q % W) + 1 \in 1 .. W
      BY <1>1, <3>3
    <3> QED
      BY <3>2, <3>4, IntruderLists
  <2> QED
    BY <2>1, <2>2
<1>3. ASSUME NEW g \in [1 .. M -> ToSet(Words)] PROVE \E n \in 1 .. Power[M] : ClusterBomb[n] = g
  <2> DEFINE d == [i \in 1 .. M |-> CHOOSE k \in 0 .. W - 1 : Words[k + 1] = g[i]]
  <2>1. ASSUME NEW i \in 1 .. M PROVE \E k \in 0 .. W - 1 : Words[k + 1] = g[i]
    <3>1. PICK l \in 1 .. W : g[i] = Words[l]
      BY IntruderLists
    <3>2. l - 1 \in 0 .. W - 1 /\ (l - 1) + 1 = l
      BY <1>1
    <3> QED
      BY <3>1, <3>2
  <2>2. d \in [1 .. M -> 0 .. W - 1] /\ \A i \in 1 .. M : Words[d[i] + 1] = g[i]
    BY <2>1
  <2> HIDE DEF d
  <2>3. PICK m \in 0 .. Power[M] - 1 : \A i \in 1 .. M : (m \div Power[M - i]) % W = d[i]
    BY <1>1, <2>2, EveryCombination
  <2> DEFINE n == m + 1
  <2>4. n \in 1 .. Power[M] /\ n - 1 = m
    BY <1>1
  <2>5. ClusterBomb[n] = [i \in 1 .. M |-> Words[(((n - 1) \div Power[M - i]) % W) + 1]]
    BY <2>4 DEF ClusterBomb
  <2> HIDE DEF n
  <2>6. ClusterBomb[n] = [i \in 1 .. M |-> g[i]]
    BY <2>2, <2>3, <2>4, <2>5
  <2> QED
    BY <2>4, <2>6
<1>4. Promised(a) = [1 .. M -> ToSet(Words)]
  BY IntruderLists DEF Promised
<1> QED
  BY <1>2, <1>3, <1>4

-----------------------------------------------------------------------------
AttackState ==
  [mode : AttackModes, braces : BOOLEAN,
   status : {"none", "queued", "running", "completed", "failed", "cancelled"},
   results : SUBSET (Nat \X Nat), overlapped : BOOLEAN]

IntruderTyped ==
  /\ attack \in [Attacks -> AttackState]
  /\ line \in Seq(Attacks \X Nat)
  /\ flying \in SUBSET (Attacks \X Nat \X Nat)
  /\ IsFiniteSet(flying) /\ Cardinality(flying) <= Slots
  /\ came \in [Attacks -> SUBSET (Nat \X Nat)]
  /\ counter \in Nat

(* The requests of an attack that were let in, with their numbers. *)
Sent(a)  == {<<f[2], f[3]>> : f \in {g \in flying : g[1] = a}}
Tried(a) == attack[a].results \cup came[a] \cup Sent(a)

InLine(a, n) == \E i \in DOMAIN line : line[i] = <<a, n>>

(* A request is in the line once, and not any more when it was let in, which *)
(* happens once.                                                           *)
OnceEach ==
  /\ \A i, j \in DOMAIN line : line[i] = line[j] => i = j
  /\ \A a \in Attacks, n \in Nat : InLine(a, n) => \A r \in Tried(a) : r[1] # n
  /\ \A a \in Attacks : \A r, q \in Tried(a) : r[1] = q[1] => r = q

(* An attack has no other requests than those generated, and none before it *)
(* was executed.                                                           *)
RequestsKnown ==
  /\ \A a \in Attacks, n \in Nat : InLine(a, n) => n \in DOMAIN Generated(a)
  /\ \A a \in Attacks :
       /\ \A r \in Tried(a) : r[1] \in DOMAIN Generated(a)
       /\ attack[a].status \in {"none", "queued"} =>
            Tried(a) = {} /\ \A n \in Nat : ~InLine(a, n)
       /\ attack[a].status \in {"queued", "running", "completed"} => M # 0 /\ W # 0

(* Until another attack begins no number is given twice. *)
NumbersInTurn ==
  \A a \in Attacks : attack[a].status = "running" /\ ~attack[a].overlapped =>
    \A r, q \in Tried(a) : r[2] <= counter /\ (r[2] = q[2] => r = q)

CompletedHasAll ==
  \A a \in Attacks : attack[a].status = "completed" =>
    /\ Cardinality(attack[a].results) = Len(Generated(a))
    /\ attack[a].overlapped \/ \A r, q \in attack[a].results : r[2] = q[2] => r = q

EngineIInv == IntruderTyped /\ OnceEach /\ RequestsKnown /\ NumbersInTurn /\ CompletedHasAll

(* What was let in stays so, or is forgotten; who stands in line stays. *)
LEMMA EngineGoesOn ==
  ASSUME EngineIInv, IntruderTyped', UNCHANGED line, counter' = counter,
         \A a \in Attacks :
           /\ Tried(a)' \subseteq Tried(a) /\ attack'[a].mode = attack[a].mode
           /\ attack'[a].overlapped = attack[a].overlapped
           /\ \/ attack'[a].status = attack[a].status
              \/ attack'[a].status \in {"completed", "cancelled"} /\ attack[a].status # "none"
              \/ attack'[a].status = "cancelled"
              \/ attack[a].status = "none" /\ attack'[a].status = "queued" /\ M # 0 /\ W # 0,
         \A a \in Attacks : attack'[a].status = "completed" =>
           /\ attack[a].status \in {"running", "completed"}
           /\ attack'[a].results = attack[a].results
           /\ attack[a].status # "completed" => AllRead(a)
  PROVE  EngineIInv'
<1> USE DEF EngineIInv
<1>1. \A a \in Attacks : Generated(a)' = Generated(a)
  BY DEF Generated
<1>2. \A a \in Attacks, n \in Nat : InLine(a, n)' <=> InLine(a, n)
  BY DEF InLine
<1>3. OnceEach'
  BY <1>2 DEF OnceEach
<1>4. RequestsKnown'
  BY <1>1, <1>2 DEF RequestsKnown
<1>5. NumbersInTurn'
  BY DEF NumbersInTurn
<1>6. CompletedHasAll'
  <2> SUFFICES ASSUME NEW a \in Attacks, attack'[a].status = "completed"
               PROVE  /\ Cardinality(attack'[a].results) = Len(Generated(a)')
                      /\ attack'[a].overlapped \/ \A r, q \in attack'[a].results : r[2] = q[2] => r = q
    BY DEF CompletedHasAll
  <2>1. attack'[a].results = attack[a].results /\ attack'[a].overlapped = attack[a].overlapped
    OBVIOUS
  <2>2. CASE attack[a].status = "completed"
    BY <1>1, <2>1, <2>2 DEF CompletedHasAll
  <2>3. CASE attack[a].status = "running"
    BY <1>1, <2>1, <2>3 DEF NumbersInTurn, Tried, AllRead
  <2> QED
    BY <2>2, <2>3
<1> QED
  BY <1>3, <1>4, <1>5, <1>6

LEMMA IntruderRunInvariant ==
  ASSUME EngineIInv, NEW a \in Attacks, IntruderRun(a)
  PROVE  EngineIInv'
<1>1. /\ attack[a].status = "none" /\ Bases # <<>> /\ Words # <<>>
      /\ attack' = [attack EXCEPT ![a].status = "queued"] /\ UNCHANGED <<line, flying, came, counter>>
  BY DEF IntruderRun
<1>2. IntruderTyped /\ attack[a] \in AttackState
  BY DEF EngineIInv, IntruderTyped
<1>3. /\ attack' \in [Attacks -> AttackState]
      /\ attack'[a].status = "queued" /\ attack'[a].results = attack[a].results
      /\ attack'[a].mode = attack[a].mode /\ attack'[a].overlapped = attack[a].overlapped
      /\ \A b \in Attacks : b # a => attack'[b] = attack[b]
  BY <1>1, <1>2 DEF IntruderTyped, AttackState
<1>4. IntruderTyped'
  BY <1>1, <1>2, <1>3 DEF IntruderTyped
<1>5. M # 0 /\ W # 0
  BY <1>1, IntruderAssumption, EmptySeq DEF M, W
<1>6. \A b \in Attacks : Tried(b)' = Tried(b)
  BY <1>1, <1>3 DEF Tried, Sent
<1> QED
  BY <1>1, <1>3, <1>4, <1>5, <1>6, EngineGoesOn

LEMMA CompleteInvariant ==
  ASSUME EngineIInv, NEW a \in Attacks, Complete(a)
  PROVE  EngineIInv'
<1>1. /\ attack[a].status = "running" /\ AllRead(a)
      /\ attack' = [attack EXCEPT ![a].status = "completed"] /\ UNCHANGED <<line, flying, came, counter>>
  BY DEF Complete, Attacking
<1>2. IntruderTyped /\ attack[a] \in AttackState
  BY DEF EngineIInv, IntruderTyped
<1>3. /\ attack' \in [Attacks -> AttackState]
      /\ attack'[a].status = "completed" /\ attack'[a].results = attack[a].results
      /\ attack'[a].mode = attack[a].mode /\ attack'[a].overlapped = attack[a].overlapped
      /\ \A b \in Attacks : b # a => attack'[b] = attack[b]
  BY <1>1, <1>2 DEF IntruderTyped, AttackState
<1>4. IntruderTyped'
  BY <1>1, <1>2, <1>3 DEF IntruderTyped
<1>5. \A b \in Attacks : Tried(b)' = Tried(b)
  BY <1>1, <1>3 DEF Tried, Sent
<1> QED
  BY <1>1, <1>3, <1>4, <1>5, EngineGoesOn

LEMMA CancelAttackInvariant ==
  ASSUME EngineIInv, NEW a \in Attacks, CancelAttack(a)
  PROVE  EngineIInv'
<1>1. /\ attack[a].status \in {"none", "queued", "running"}
      /\ attack' = [attack EXCEPT ![a].status = "cancelled", ![a].results = {}]
      /\ UNCHANGED <<line, flying, came, counter>>
  BY DEF CancelAttack
<1>2. IntruderTyped /\ attack[a] \in AttackState
  BY DEF EngineIInv, IntruderTyped
<1>3. /\ attack' \in [Attacks -> AttackState]
      /\ attack'[a].status = "cancelled" /\ attack'[a].results = {}
      /\ attack'[a].mode = attack[a].mode /\ attack'[a].overlapped = attack[a].overlapped
      /\ \A b \in Attacks : b # a => attack'[b] = attack[b]
  BY <1>1, <1>2 DEF IntruderTyped, AttackState
<1>4. IntruderTyped'
  BY <1>1, <1>2, <1>3 DEF IntruderTyped
<1>5. \A b \in Attacks : Tried(b)' \subseteq Tried(b)
  BY <1>1, <1>3 DEF Tried, Sent
<1> QED
  BY <1>1, <1>3, <1>4, <1>5, EngineGoesOn

LEMMA ArrivedInvariant ==
  ASSUME EngineIInv, NEW f \in flying, Arrived(f)
  PROVE  EngineIInv'
<1>1. /\ flying' = flying \ {f} /\ UNCHANGED <<attack, line, counter>>
      /\ came' = [came EXCEPT ![f[1]] = @ \cup {<<f[2], f[3]>>}]
  BY DEF Arrived
<1>2. IntruderTyped /\ f \in Attacks \X Nat \X Nat
  BY DEF EngineIInv, IntruderTyped
<1>3. PICK a \in Attacks, x \in Nat \X Nat : a = f[1] /\ x = <<f[2], f[3]>>
  BY <1>2
<1>4. /\ came' \in [Attacks -> SUBSET (Nat \X Nat)] /\ came'[a] = came[a] \cup {x}
      /\ \A b \in Attacks : b # a => came'[b] = came[b]
  BY <1>1, <1>2, <1>3 DEF IntruderTyped
<1>5. IntruderTyped'
  <2>1. IsFiniteSet(flying) /\ flying' \subseteq flying /\ Cardinality(flying) <= Slots
    BY <1>1, <1>2 DEF IntruderTyped
  <2>2. IsFiniteSet(flying') /\ Cardinality(flying') <= Cardinality(flying)
    BY <2>1, FS_Subset
  <2>3. Cardinality(flying') <= Slots
    BY <2>1, <2>2, FS_CardinalityType, IntruderAssumption
  <2> QED
    BY <1>1, <1>2, <1>4, <2>2, <2>3 DEF IntruderTyped
<1>6. ASSUME NEW b \in Attacks, NEW y \in Tried(b)' PROVE y \in Tried(b)
  <2>1. CASE y \in attack[b].results \cup came[b] \cup Sent(b)
    BY <2>1 DEF Tried
  <2>2. Sent(b)' \subseteq Sent(b)
    BY <1>1 DEF Sent
  <2>3. CASE b = a /\ y = x
    BY <1>3, <2>3 DEF Tried, Sent
  <2> QED
    BY <1>1, <1>4, <1>6, <2>1, <2>2, <2>3 DEF Tried
<1> QED
  BY <1>1, <1>5, <1>6, EngineGoesOn DEF EngineIInv

LEMMA ReadResultInvariant ==
  ASSUME EngineIInv, NEW a \in Attacks, NEW r \in came[a], ReadResult(a, r)
  PROVE  EngineIInv'
<1>1. /\ attack[a].status = "running" /\ UNCHANGED <<line, flying, counter>>
      /\ attack' = [attack EXCEPT ![a].results = @ \cup {r}]
      /\ came' = [came EXCEPT ![a] = @ \ {r}]
  BY DEF ReadResult, Attacking
<1>2. IntruderTyped /\ attack[a] \in AttackState /\ r \in Nat \X Nat
  BY DEF EngineIInv, IntruderTyped
<1>3. /\ attack' \in [Attacks -> AttackState]
      /\ attack'[a].status = "running" /\ attack'[a].results = attack[a].results \cup {r}
      /\ attack'[a].mode = attack[a].mode /\ attack'[a].overlapped = attack[a].overlapped
      /\ \A b \in Attacks : b # a => attack'[b] = attack[b]
  BY <1>1, <1>2 DEF IntruderTyped, AttackState
<1>4. /\ came' \in [Attacks -> SUBSET (Nat \X Nat)] /\ came'[a] = came[a] \ {r}
      /\ \A b \in Attacks : b # a => came'[b] = came[b]
  BY <1>1, <1>2 DEF IntruderTyped
<1>5. IntruderTyped'
  BY <1>1, <1>2, <1>3, <1>4 DEF IntruderTyped
<1>6. ASSUME NEW b \in Attacks PROVE Tried(b)' \subseteq Tried(b)
  BY <1>1, <1>3, <1>4 DEF Tried, Sent
<1> QED
  BY <1>1, <1>3, <1>5, <1>6, EngineGoesOn

LEMMA AppendPair ==
  ASSUME NEW a, NEW n, NEW k
  PROVE  Append(<<a, n>>, k) = <<a, n, k>>
<1> DEFINE T == {a, n, k}
<1>1. <<a, n>> \in Seq(T) /\ <<a, n, k>> \in Seq(T) /\ k \in T
  OBVIOUS
<1> HIDE DEF T
<1>2. PICK p \in Seq(T), q \in Seq(T) : p = <<a, n>> /\ q = <<a, n, k>>
  BY <1>1
<1>3. Len(p) = 2 /\ p[1] = a /\ p[2] = n /\ Len(q) = 3 /\ q[1] = a /\ q[2] = n /\ q[3] = k
  BY <1>2
<1>4. /\ Append(p, k) \in Seq(T) /\ Len(Append(p, k)) = Len(p) + 1
      /\ \A i \in 1 .. Len(p) : Append(p, k)[i] = p[i]
      /\ Append(p, k)[Len(p) + 1] = k
  BY <1>1, AppendProperties
<1>5. PICK r \in Seq(T) : r = Append(p, k)
  BY <1>4
<1>6. Len(r) = Len(q) /\ \A i \in 1 .. Len(r) : r[i] = q[i]
  BY <1>3, <1>4, <1>5
<1>7. r = q
  BY <1>6, SeqEqual
<1> QED
  BY <1>2, <1>5, <1>7

LEMMA SendOneInvariant ==
  ASSUME EngineIInv, SendOne
  PROVE  EngineIInv'
<1> DEFINE head == Head(line)
           rest == Tail(line)
<1>1. /\ line # <<>> /\ Cardinality(flying) < Slots /\ line' = rest /\ counter' = counter + 1
      /\ flying' = flying \cup {Append(head, counter + 1)} /\ UNCHANGED <<attack, came>>
  BY DEF SendOne
<1>2. IntruderTyped /\ OnceEach /\ RequestsKnown /\ NumbersInTurn /\ CompletedHasAll
  BY DEF EngineIInv
<1>3. /\ DOMAIN line = 1 .. Len(line) /\ Len(line) \in Nat \ {0} /\ head = line[1]
      /\ rest \in Seq(Attacks \X Nat) /\ DOMAIN rest = 1 .. Len(line) - 1
      /\ \A k \in 1 .. Len(line) - 1 : rest[k] = line[k + 1]
  BY <1>1, <1>2, HeadTailProperties, EmptySeq, LenProperties DEF IntruderTyped
<1>4. head \in Attacks \X Nat /\ 1 \in DOMAIN line
  BY <1>2, <1>3, ElementOfSeq DEF IntruderTyped
<1>5. PICK a \in Attacks, n \in Nat : head = <<a, n>>
  BY <1>4
<1>6. PICK k \in Nat : k = counter + 1 /\ counter \in Nat
  BY <1>2 DEF IntruderTyped
<1>7. Append(head, counter + 1) = <<a, n, k>>
  <2>1. PICK h : h = head
    OBVIOUS
  <2>2. Append(h, k) = <<a, n, k>>
    BY <1>5, <2>1, AppendPair
  <2> QED
    BY <1>6, <2>1, <2>2
<1> HIDE DEF head, rest
<1> DEFINE f == <<a, n, k>>
           x == <<n, k>>
<1>8. f \in Attacks \X Nat \X Nat /\ f[1] = a /\ f[2] = n /\ f[3] = k /\ x \in Nat \X Nat /\ x[1] = n /\ x[2] = k
  BY <1>5, <1>6
<1>9. flying' = flying \cup {f}
  BY <1>1, <1>7
<1>10. x = <<f[2], f[3]>>
  BY <1>8
<1> HIDE DEF f, x
<1>11. InLine(a, n)
  BY <1>3, <1>4, <1>5 DEF InLine
<1>12. PICK others \in Seq(Attacks \X Nat) : others = rest
  BY <1>3
<1>13. IntruderTyped'
  <2>1. IsFiniteSet(flying) /\ Cardinality(flying) \in Nat
    BY <1>2, FS_CardinalityType DEF IntruderTyped
  <2>2. /\ IsFiniteSet(flying \cup {f})
        /\ Cardinality(flying \cup {f}) = IF f \in flying THEN Cardinality(flying) ELSE Cardinality(flying) + 1
    BY <2>1, FS_AddElement
  <2>3. Cardinality(flying') <= Slots
    <3>1. PICK c \in Nat, s \in Nat : c = Cardinality(flying) /\ s = Slots
      BY <2>1, IntruderAssumption
    <3>2. c < s
      BY <1>1, <3>1
    <3>3. Cardinality(flying \cup {f}) <= s
      BY <2>2, <3>1, <3>2
    <3> QED
      BY <1>9, <3>1, <3>3
  <2> QED
    BY <1>1, <1>2, <1>3, <1>6, <1>8, <1>9, <2>2, <2>3 DEF IntruderTyped
<1>14. ASSUME NEW b \in Attacks, NEW r \in Tried(b)' PROVE r \in Tried(b) \/ (b = a /\ r = x)
  BY <1>1, <1>8, <1>9, <1>10, <1>14 DEF Tried, Sent
<1>15. \A b \in Attacks : Generated(b)' = Generated(b)
  BY <1>1 DEF Generated
<1>16. \A r \in Tried(a) : r[1] # n
  BY <1>2, <1>11 DEF OnceEach
<1>17. /\ \A i \in DOMAIN others : i \in Nat \ {0} /\ i + 1 \in DOMAIN line /\ others[i] = line[i + 1]
       /\ line' = others
  BY <1>1, <1>3, <1>12
<1>18. \A i, j \in DOMAIN others : others[i] = others[j] => i = j
  <2> SUFFICES ASSUME NEW i \in DOMAIN others, NEW j \in DOMAIN others, others[i] = others[j] PROVE i = j
    OBVIOUS
  <2> DEFINE u == i + 1
             v == j + 1
  <2>1. u \in DOMAIN line /\ v \in DOMAIN line /\ line[u] = line[v]
    BY <1>17
  <2>2. u = v
    BY <1>2, <2>1 DEF OnceEach
  <2> QED
    BY <1>17, <2>2
<1>19. ASSUME NEW b \in Attacks, NEW m \in Nat, InLine(b, m)' PROVE InLine(b, m) /\ ~(b = a /\ m = n)
  <2>1. PICK i \in DOMAIN others : others[i] = <<b, m>>
    BY <1>17, <1>19 DEF InLine
  <2> DEFINE j == i + 1
  <2>2. j \in DOMAIN line /\ others[i] = line[j] /\ j # 1
    BY <1>17
  <2> HIDE DEF j
  <2>3. line[j] # line[1]
    BY <1>2, <1>4, <2>2 DEF OnceEach
  <2> QED
    BY <1>3, <1>5, <2>1, <2>2, <2>3 DEF InLine
<1>22. OnceEach'
  <2>1. ASSUME NEW b \in Attacks, NEW m \in Nat, InLine(b, m)', NEW r \in Tried(b)' PROVE r[1] # m
    <3>1. InLine(b, m) /\ ~(b = a /\ m = n)
      BY <1>19, <2>1
    <3>2. \A q \in Tried(b) : q[1] # m
      BY <1>2, <3>1 DEF OnceEach
    <3> QED
      BY <1>8, <1>14, <2>1, <3>1, <3>2
  <2>2. ASSUME NEW b \in Attacks, NEW r \in Tried(b)', NEW q \in Tried(b)', r[1] = q[1] PROVE r = q
    <3>1. \A s, t \in Tried(b) : s[1] = t[1] => s = t
      BY <1>2 DEF OnceEach
    <3> QED
      BY <1>8, <1>14, <1>16, <2>2, <3>1
  <2> QED
    BY <1>17, <1>18, <2>1, <2>2 DEF OnceEach
<1>23. RequestsKnown'
  <2>1. ASSUME NEW b \in Attacks, NEW m \in Nat, InLine(b, m)' PROVE m \in DOMAIN Generated(b)'
    BY <1>2, <1>15, <1>19, <2>1 DEF RequestsKnown
  <2>2. ASSUME NEW b \in Attacks, NEW r \in Tried(b)' PROVE r[1] \in DOMAIN Generated(b)'
    <3>1. n \in DOMAIN Generated(a)
      BY <1>2, <1>11 DEF RequestsKnown
    <3>2. \A q \in Tried(b) : q[1] \in DOMAIN Generated(b)
      BY <1>2 DEF RequestsKnown
    <3> QED
      BY <1>8, <1>14, <1>15, <3>1, <3>2
  <2>3. ASSUME NEW b \in Attacks, attack'[b].status \in {"none", "queued"}
        PROVE  Tried(b)' = {} /\ \A m \in Nat : ~InLine(b, m)'
    <3>1. Tried(b) = {} /\ \A m \in Nat : ~InLine(b, m)
      BY <1>1, <1>2, <2>3 DEF RequestsKnown
    <3>2. b # a
      BY <1>11, <3>1
    <3> QED
      BY <1>14, <1>19, <3>1, <3>2
  <2>4. \A b \in Attacks : attack'[b].status \in {"queued", "running", "completed"} => M # 0 /\ W # 0
    BY <1>1, <1>2 DEF RequestsKnown
  <2> QED
    BY <2>1, <2>2, <2>3, <2>4 DEF RequestsKnown
<1>20. NumbersInTurn'
  <2> SUFFICES ASSUME NEW b \in Attacks, attack[b].status = "running", ~attack[b].overlapped,
                      NEW r \in Tried(b)', NEW q \in Tried(b)'
               PROVE  r[2] <= counter' /\ (r[2] = q[2] => r = q)
    BY <1>1 DEF NumbersInTurn
  <2>1. \A s, t \in Tried(b) : s[2] <= counter /\ (s[2] = t[2] => s = t)
    BY <1>2 DEF NumbersInTurn
  <2>2. \A s \in Tried(b) : s[2] \in Nat
    <3>1. Tried(b) \subseteq Nat \X Nat
      BY <1>2 DEF Tried, Sent, IntruderTyped, AttackState
    <3> QED
      BY <3>1
  <2>3. \A s \in Tried(b) : s[2] < k /\ s[2] <= k
    BY <1>6, <2>1, <2>2
  <2> QED
    BY <1>1, <1>6, <1>8, <1>14, <2>1, <2>2, <2>3
<1>21. CompletedHasAll'
  BY <1>1, <1>2, <1>15 DEF CompletedHasAll
<1> QED
  BY <1>13, <1>20, <1>21, <1>22, <1>23 DEF EngineIInv

LEMMA RequestsGenerated ==
  ASSUME W # 0, NEW a \in Attacks, attack[a].mode \in AttackModes
  PROVE  \E n \in Nat : DOMAIN Generated(a) = 1 .. n /\ Len(Generated(a)) = n
<1>1. M * W \in Nat /\ Power[M] \in Nat
  <2>1. M \in Nat /\ W \in Nat
    BY IntruderLists
  <2> QED
    BY <2>1, PowersAreNumbers
<1>2. ASSUME NEW n \in Nat, NEW s, DOMAIN s = 1 .. n, s = [k \in 1 .. n |-> s[k]] PROVE Len(s) = n
  <2> DEFINE T == {s[k] : k \in 1 .. n}
  <2>1. s \in [1 .. n -> T]
    BY <1>2
  <2> HIDE DEF T
  <2>2. s \in Seq(T)
    BY <2>1, SeqDef
  <2>3. DOMAIN s = 1 .. Len(s) /\ Len(s) \in Nat
    BY <2>2, LenProperties
  <2> QED
    BY <1>2, <2>3
<1>3. DOMAIN Sniper = 1 .. M * W /\ Sniper = [k \in 1 .. M * W |-> Sniper[k]]
  BY DEF Sniper
<1>4. DOMAIN ClusterBomb = 1 .. Power[M] /\ ClusterBomb = [k \in 1 .. Power[M] |-> ClusterBomb[k]]
  BY DEF ClusterBomb
<1>5. Len(Sniper) = M * W /\ Len(ClusterBomb) = Power[M]
  BY <1>1, <1>2, <1>3, <1>4
<1>6. CASE attack[a].mode = "sniper"
  BY <1>1, <1>3, <1>5, <1>6 DEF Generated
<1>7. CASE attack[a].mode # "sniper"
  BY <1>1, <1>4, <1>5, <1>7 DEF Generated
<1> QED
  BY <1>6, <1>7

LEMMA ExecuteInvariant ==
  ASSUME EngineIInv, NEW a \in Attacks, Execute(a)
  PROVE  EngineIInv'
<1>1. /\ attack[a].status = "queued" /\ counter' = 0 /\ UNCHANGED <<flying, came>>
      /\ attack' = [b \in Attacks |->
           [attack[b] EXCEPT
              !.status = IF b # a THEN @ ELSE IF Formats(a) THEN "running" ELSE "failed",
              !.overlapped = @ \/ (b # a /\ Attacking(b))]]
  BY DEF Execute
<1>2. IntruderTyped /\ OnceEach /\ RequestsKnown /\ NumbersInTurn /\ CompletedHasAll
  BY DEF EngineIInv
<1>3. \A b \in Attacks : attack[b] \in AttackState
  BY <1>2 DEF IntruderTyped
<1>4. ASSUME NEW b \in Attacks
      PROVE  /\ attack'[b] \in AttackState
             /\ attack'[b].mode = attack[b].mode /\ attack'[b].results = attack[b].results
             /\ b # a => /\ attack'[b].status = attack[b].status
                         /\ attack'[b].overlapped <=> attack[b].overlapped \/ attack[b].status = "running"
             /\ b = a => attack'[b].status \in {"running", "failed"}
  <2>1. attack[b] \in AttackState
    BY <1>3
  <2>2. (attack[b].overlapped \/ (b # a /\ attack[b].status = "running")) \in BOOLEAN
    OBVIOUS
  <2>3. attack'[b] = [attack[b] EXCEPT
          !.status = IF b # a THEN attack[b].status ELSE IF Formats(a) THEN "running" ELSE "failed",
          !.overlapped = attack[b].overlapped \/ (b # a /\ attack[b].status = "running")]
    BY <1>1 DEF Attacking
  <2> QED
    BY <2>1, <2>2, <2>3 DEF AttackState
<1>5. attack' \in [Attacks -> AttackState]
  BY <1>1, <1>4
<1>6. /\ \A b \in Attacks : Tried(b)' = Tried(b) /\ Generated(b)' = Generated(b)
      /\ Tried(a) = {} /\ \A m \in Nat : ~InLine(a, m)
  <2>1. Tried(a) = {} /\ \A m \in Nat : ~InLine(a, m)
    BY <1>1, <1>2 DEF RequestsKnown
  <2>2. \A b \in Attacks : Sent(b)' = Sent(b)
    BY <1>1 DEF Sent
  <2>3. \A b \in Attacks : Tried(b)' = Tried(b)
    BY <1>1, <1>4, <2>2 DEF Tried
  <2>4. \A b \in Attacks : Generated(b)' = Generated(b)
    BY <1>4 DEF Generated
  <2> QED
    BY <2>1, <2>3, <2>4
<1>7. W # 0 /\ M # 0 /\ attack[a].mode \in AttackModes
  BY <1>1, <1>2, <1>3 DEF RequestsKnown, AttackState
<1>8. PICK last \in Nat : DOMAIN Generated(a) = 1 .. last /\ Len(Generated(a)) = last
  BY <1>7, RequestsGenerated
<1>9. PICK old \in Seq(Attacks \X Nat) : old = line
  BY <1>2 DEF IntruderTyped
<1>10. PICK tasks \in Seq(Attacks \X Nat) :
         /\ \A n \in DOMAIN tasks : n \in 1 .. last /\ tasks[n] = <<a, n>>
         /\ line' = old \o tasks
  <2>1. CASE Formats(a)
    <3> DEFINE all == [n \in 1 .. last |-> <<a, n>>]
    <3>1. all \in Seq(Attacks \X Nat) /\ \A n \in DOMAIN all : n \in 1 .. last /\ all[n] = <<a, n>>
      BY SeqDef
    <3>2. line' = old \o all
      BY <1>8, <1>9, <2>1 DEF Execute
    <3> QED
      BY <3>1, <3>2
  <2>2. CASE ~Formats(a)
    <3>1. line' = old \o <<>>
      BY <1>9, <2>2, ConcatEmptySeq DEF Execute
    <3>2. <<>> \in Seq(Attacks \X Nat) /\ DOMAIN <<>> = {}
      BY EmptySeq
    <3> QED
      BY <3>1, <3>2
  <2> QED
    BY <2>1, <2>2
<1>11. /\ old \o tasks \in Seq(Attacks \X Nat)
       /\ DOMAIN (old \o tasks) = 1 .. Len(old) + Len(tasks)
       /\ DOMAIN old = 1 .. Len(old) /\ Len(old) \in Nat
       /\ DOMAIN tasks = 1 .. Len(tasks) /\ Len(tasks) \in Nat
       /\ \A i \in 1 .. Len(old) + Len(tasks) :
            (old \o tasks)[i] = IF i <= Len(old) THEN old[i] ELSE tasks[i - Len(old)]
  BY ConcatProperties, LenProperties
<1>12. PICK new \in Seq(Attacks \X Nat) : new = old \o tasks
  BY <1>11
<1>13. ASSUME NEW i \in DOMAIN new
       PROVE  \/ i \in DOMAIN old /\ new[i] = line[i]
              \/ \E n \in 1 .. last : i = n + Len(old) /\ new[i] = <<a, n>>
  <2>1. CASE i <= Len(old)
    BY <1>9, <1>11, <1>12, <1>13, <2>1
  <2>2. CASE ~(i <= Len(old))
    <3> DEFINE n == i - Len(old)
    <3>1. n \in DOMAIN tasks /\ new[i] = tasks[n] /\ i = n + Len(old)
      BY <1>11, <1>12, <1>13, <2>2
    <3> HIDE DEF n
    <3> QED
      BY <1>10, <3>1
  <2> QED
    BY <2>1, <2>2
<1>14. \A i \in DOMAIN old, n \in Nat : line[i] # <<a, n>>
  BY <1>6, <1>9 DEF InLine
<1>15. ASSUME NEW b \in Attacks, NEW m \in Nat, InLine(b, m)'
       PROVE  InLine(b, m) \/ (b = a /\ m \in 1 .. last)
  <2>1. PICK i \in DOMAIN new : new[i] = <<b, m>>
    BY <1>10, <1>12, <1>15 DEF InLine
  <2>2. CASE i \in DOMAIN old /\ new[i] = line[i]
    <3>1. i \in DOMAIN line /\ line[i] = <<b, m>>
      BY <1>9, <2>1, <2>2
    <3> QED
      BY <3>1 DEF InLine
  <2>3. CASE \E n \in 1 .. last : i = n + Len(old) /\ new[i] = <<a, n>>
    BY <2>1, <2>3
  <2> QED
    BY <1>13, <2>2, <2>3
<1>16. IntruderTyped'
  BY <1>1, <1>2, <1>5, <1>10, <1>12 DEF IntruderTyped
<1>17. OnceEach'
  <2>1. ASSUME NEW i \in DOMAIN new, NEW j \in DOMAIN new, new[i] = new[j] PROVE i = j
    <3>1. CASE i \in DOMAIN old /\ new[i] = line[i] /\ j \in DOMAIN old /\ new[j] = line[j]
      BY <1>2, <1>9, <2>1, <3>1 DEF OnceEach
    <3>2. ASSUME NEW u \in DOMAIN new, NEW v \in DOMAIN new, new[u] = new[v],
                 NEW n \in 1 .. last, u = n + Len(old), new[u] = <<a, n>>
          PROVE  u = v
      <4>1. ~(v \in DOMAIN old /\ new[v] = line[v])
        <5>1. n \in Nat
          OBVIOUS
        <5>2. new[v] = <<a, n>>
          BY <3>2
        <5> QED
          BY <1>14, <5>1, <5>2
      <4>2. PICK m \in 1 .. last : v = m + Len(old) /\ new[v] = <<a, m>>
        BY <1>13, <4>1
      <4>3. m = n
        BY <3>2, <4>2
      <4> QED
        BY <3>2, <4>2, <4>3
    <3>3. CASE \E n \in 1 .. last : i = n + Len(old) /\ new[i] = <<a, n>>
      BY <2>1, <3>2, <3>3
    <3>4. CASE \E n \in 1 .. last : j = n + Len(old) /\ new[j] = <<a, n>>
      BY <2>1, <3>2, <3>4
    <3> QED
      BY <1>13, <3>1, <3>3, <3>4
  <2>2. ASSUME NEW b \in Attacks, NEW m \in Nat, InLine(b, m)', NEW r \in Tried(b) PROVE r[1] # m
    BY <1>2, <1>6, <1>15, <2>2 DEF OnceEach
  <2>3. \A b \in Attacks : \A r, q \in Tried(b) : r[1] = q[1] => r = q
    BY <1>2 DEF OnceEach
  <2> QED
    BY <1>6, <1>10, <1>12, <2>1, <2>2, <2>3 DEF OnceEach
<1>18. RequestsKnown'
  <2>1. ASSUME NEW b \in Attacks, NEW m \in Nat, InLine(b, m)' PROVE m \in DOMAIN Generated(b)
    BY <1>2, <1>8, <1>15, <2>1 DEF RequestsKnown
  <2>2. ASSUME NEW b \in Attacks, attack'[b].status \in {"none", "queued"}
        PROVE  Tried(b) = {} /\ \A m \in Nat : ~InLine(b, m)'
    <3>1. b # a /\ attack[b].status \in {"none", "queued"}
      BY <1>4, <2>2
    <3> QED
      BY <1>2, <1>15, <3>1 DEF RequestsKnown
  <2>3. \A b \in Attacks : attack'[b].status \in {"queued", "running", "completed"} => M # 0 /\ W # 0
    BY <1>7
  <2>4. \A b \in Attacks : \A r \in Tried(b) : r[1] \in DOMAIN Generated(b)
    BY <1>2 DEF RequestsKnown
  <2> QED
    BY <1>6, <2>1, <2>2, <2>3, <2>4 DEF RequestsKnown
<1>19. NumbersInTurn'
  BY <1>4, <1>6 DEF NumbersInTurn
<1>20. CompletedHasAll'
  <2> SUFFICES ASSUME NEW b \in Attacks, attack'[b].status = "completed"
               PROVE  /\ Cardinality(attack'[b].results) = Len(Generated(b)')
                      /\ attack'[b].overlapped \/ \A r, q \in attack'[b].results : r[2] = q[2] => r = q
    BY DEF CompletedHasAll
  <2>1. /\ Cardinality(attack[b].results) = Len(Generated(b))
        /\ attack[b].overlapped \/ \A r, q \in attack[b].results : r[2] = q[2] => r = q
    BY <1>2, <1>4 DEF CompletedHasAll
  <2> QED
    BY <1>4, <1>6, <2>1
<1> QED
  BY <1>16, <1>17, <1>18, <1>19, <1>20 DEF EngineIInv

LEMMA EngineInit ==
  ASSUME IntruderInit
  PROVE  EngineIInv
<1>1. /\ line = <<>> /\ flying = {} /\ came = [a \in Attacks |-> {}] /\ counter = 0
      /\ attack \in [Attacks -> AttackState]
      /\ \A a \in Attacks : attack[a].status = "none" /\ attack[a].results = {}
  <2>1. ASSUME NEW a \in Attacks
        PROVE  attack[a] \in AttackState /\ attack[a].status = "none" /\ attack[a].results = {}
    <3>1. PICK m \in AttackModes, b \in BOOLEAN :
            attack[a] = [mode |-> m, braces |-> b, status |-> "none", results |-> {}, overlapped |-> FALSE]
      BY DEF IntruderInit
    <3> QED
      BY <3>1 DEF AttackState
  <2>2. attack = [a \in Attacks |-> attack[a]]
    BY DEF IntruderInit
  <2> QED
    BY <2>1, <2>2 DEF IntruderInit
<1>2. line \in Seq(Attacks \X Nat) /\ DOMAIN line = {}
  BY <1>1, EmptySeq
<1>3. IsFiniteSet(flying) /\ Cardinality(flying) <= Slots
  BY <1>1, FS_EmptySet, IntruderAssumption
<1>4. IntruderTyped
  BY <1>1, <1>2, <1>3 DEF IntruderTyped
<1>5. \A a \in Attacks : Tried(a) = {} /\ \A n \in Nat : ~InLine(a, n)
  BY <1>1, <1>2 DEF Tried, Sent, InLine
<1>6. OnceEach /\ RequestsKnown /\ NumbersInTurn /\ CompletedHasAll
  BY <1>1, <1>2, <1>5 DEF OnceEach, RequestsKnown, NumbersInTurn, CompletedHasAll
<1> QED
  BY <1>4, <1>6 DEF EngineIInv

LEMMA EngineStays ==
  ASSUME EngineIInv, UNCHANGED intruderVars
  PROVE  EngineIInv'
BY DEF EngineIInv, intruderVars, IntruderTyped, OnceEach, RequestsKnown, NumbersInTurn,
       CompletedHasAll, Tried, Sent, InLine, Generated

LEMMA EngineStep ==
  ASSUME EngineIInv, [IntruderNext]_intruderVars
  PROVE  EngineIInv'
<1>1. ASSUME NEW a \in Attacks, IntruderRun(a) PROVE EngineIInv'
  BY <1>1, IntruderRunInvariant
<1>2. ASSUME NEW a \in Attacks, Execute(a) PROVE EngineIInv'
  BY <1>2, ExecuteInvariant
<1>3. ASSUME NEW a \in Attacks, Complete(a) PROVE EngineIInv'
  BY <1>3, CompleteInvariant
<1>4. ASSUME NEW a \in Attacks, CancelAttack(a) PROVE EngineIInv'
  BY <1>4, CancelAttackInvariant
<1>5. ASSUME NEW a \in Attacks, NEW result \in came[a], ReadResult(a, result) PROVE EngineIInv'
  BY <1>5, ReadResultInvariant
<1>6. ASSUME SendOne PROVE EngineIInv'
  BY <1>6, SendOneInvariant
<1>7. ASSUME NEW f \in flying, Arrived(f) PROVE EngineIInv'
  BY <1>7, ArrivedInvariant
<1>8. ASSUME UNCHANGED intruderVars PROVE EngineIInv'
  BY <1>8, EngineStays
<1> QED
  BY <1>1, <1>2, <1>3, <1>4, <1>5, <1>6, <1>7, <1>8 DEF IntruderNext

LEMMA EngineInvariant == IntruderSpec => []EngineIInv
<1>1. IntruderInit => EngineIInv
  BY EngineInit
<1>2. EngineIInv /\ [IntruderNext]_intruderVars => EngineIInv'
  BY EngineStep
<1> QED
  BY <1>1, <1>2, PTL DEF IntruderSpec

(* As many results as requests, no two of the same request: all of them. *)
LEMMA OneForEach ==
  ASSUME NEW last \in Nat, NEW S \in SUBSET (Nat \X Nat), Cardinality(S) = last,
         \A r \in S : r[1] \in 1 .. last,
         \A r, q \in S : r[1] = q[1] => r = q
  PROVE  \A n \in 1 .. last : \E r \in S : r[1] = n
<1> DEFINE f == [r \in S |-> r[1]]
<1>1. f \in [S -> 1 .. last] /\ \A r, q \in S : f[r] = f[q] => r = q
  OBVIOUS
<1>2. f \in Injection(S, 1 .. last)
  BY <1>1, Fun_IsInj
<1>3. IsFiniteSet(1 .. last) /\ Cardinality(1 .. last) = last
  BY FS_Interval
<1>4. f \in Surjection(S, 1 .. last)
  <2> HIDE DEF f
  <2> QED
    BY <1>2, <1>3, FS_Injection
<1>5. \A n \in 1 .. last : \E r \in S : f[r] = n
  <2> HIDE DEF f
  <2> QED
    BY <1>4, Zenon DEF Surjection
<1> QED
  BY <1>5

LEMMA CompleteTriedAll ==
  ASSUME EngineIInv
  PROVE  AttackIsComplete
<1> SUFFICES ASSUME NEW a \in Attacks, attack[a].status = "completed"
             PROVE  /\ {Generated(a)[r[1]] : r \in attack[a].results} = Promised(a)
                    /\ \A r, q \in attack[a].results : r # q =>
                         r[1] # q[1] /\ (attack[a].overlapped \/ r[2] # q[2])
  BY DEF AttackIsComplete
<1>1. IntruderTyped /\ OnceEach /\ RequestsKnown /\ CompletedHasAll /\ attack[a] \in AttackState
  BY DEF EngineIInv, IntruderTyped
<1>2. W # 0 /\ attack[a].mode \in AttackModes /\ attack[a].results \in SUBSET (Nat \X Nat)
  BY <1>1 DEF RequestsKnown, AttackState
<1>3. PICK last \in Nat : DOMAIN Generated(a) = 1 .. last /\ Len(Generated(a)) = last
  BY <1>2, RequestsGenerated
<1>4. \A r, q \in attack[a].results : r[1] = q[1] => r = q
  BY <1>1 DEF OnceEach, Tried
<1>5. \A r \in attack[a].results : r[1] \in 1 .. last
  BY <1>1, <1>3 DEF RequestsKnown, Tried
<1>6. Cardinality(attack[a].results) = last
  BY <1>1, <1>3 DEF CompletedHasAll
<1>7. PICK S \in SUBSET (Nat \X Nat) : S = attack[a].results
  BY <1>2
<1>8. \A n \in 1 .. last : \E r \in S : r[1] = n
  BY <1>4, <1>5, <1>6, <1>7, OneForEach
<1>9. {Generated(a)[r[1]] : r \in S} = {Generated(a)[n] : n \in 1 .. last}
  BY <1>5, <1>7, <1>8
<1>10. {Generated(a)[n] : n \in 1 .. last} = Promised(a)
  <2>1. CASE attack[a].mode = "sniper"
    <3>1. DOMAIN Sniper = 1 .. M * W
      BY DEF Sniper
    <3>2. 1 .. last = 1 .. M * W /\ Generated(a) = Sniper
      BY <1>3, <2>1, <3>1 DEF Generated
    <3>3. {Generated(a)[n] : n \in 1 .. last} = {Sniper[n] : n \in 1 .. M * W}
      BY <3>2, Zenon
    <3> QED
      BY <2>1, <3>3, SniperTriesAll
  <2>2. CASE attack[a].mode # "sniper"
    <3>1. DOMAIN ClusterBomb = 1 .. Power[M]
      BY DEF ClusterBomb
    <3>2. 1 .. last = 1 .. Power[M] /\ Generated(a) = ClusterBomb
      BY <1>3, <2>2, <3>1 DEF Generated
    <3>3. {Generated(a)[n] : n \in 1 .. last} = {ClusterBomb[n] : n \in 1 .. Power[M]}
      BY <3>2, Zenon
    <3> QED
      BY <1>2, <2>2, <3>3, ClusterBombTriesAll
  <2> QED
    BY <2>1, <2>2
<1>11. attack[a].overlapped \/ \A r, q \in attack[a].results : r[2] = q[2] => r = q
  BY <1>1 DEF CompletedHasAll
<1> QED
  BY <1>4, <1>7, <1>9, <1>10, <1>11

(* An attack that completed has sent every request its mode promises, once   *)
(* each, and has the one result of it, whatever the other attacks on the     *)
(* engine do: they share its semaphore and its counter, begin in between and *)
(* are cancelled with requests in line and under way.                        *)
THEOREM AttackTriesAll == IntruderSpec => []AttackIsComplete
<1>1. EngineIInv => AttackIsComplete
  BY CompleteTriedAll
<1> QED
  BY <1>1, EngineInvariant, PTL

(* No more requests are under way than the engine has slots. *)
THEOREM IntruderTypeCorrect == IntruderSpec => []IntruderTypeOK
<1>1. EngineIInv => IntruderTypeOK
  BY DEF EngineIInv, IntruderTyped, AttackState, IntruderTypeOK
<1> QED
  BY <1>1, EngineInvariant, PTL

-----------------------------------------------------------------------------
(* The crawl engine (CrawlEngine). *)

(* Only a seed is in s twice, or in s and in t. *)
OnlySeedsTwice(s) == \A i, j \in DOMAIN s : s[i] = s[j] => i = j \/ s[i] \in SeedUrls
OnlySeedsInBoth(s, t) == \A i \in DOMAIN s, j \in DOMAIN t : s[i] = t[j] => s[i] \in SeedUrls

FrontierTyped ==
  /\ concurrency \in Concurrencies /\ allowed \subseteq Urls
  /\ DOMAIN depthOf \subseteq Urls /\ depthOf \in [DOMAIN depthOf -> 0 .. Depth]
  /\ queue \in Seq(DOMAIN depthOf) /\ fetched \in Seq(DOMAIN depthOf) /\ arrived \in Seq(DOMAIN depthOf)
  /\ fetching \in [DOMAIN fetching -> DOMAIN depthOf] /\ DOMAIN fetching \subseteq 1 .. concurrency
  /\ ToSet(arrived) \subseteq ToSet(fetched)
  /\ cancelled \in BOOLEAN /\ crawl \in {"running", "ended", "stopped"}
  /\ crawl = "ended" => arrived = <<>> /\ DOMAIN fetching = {}

(* Where the known URLs come from. *)
KnownUrls ==
  /\ SeedUrls \subseteq DOMAIN depthOf
  /\ \A u \in DOMAIN depthOf : u \in SeedUrls \/ u \in allowed
  /\ \A u, v \in DOMAIN depthOf : PathOf[u] = PathOf[v] => u = v \/ {u, v} \subseteq SeedUrls

OnceOnTheWay ==
  /\ OnlySeedsTwice(queue) /\ OnlySeedsTwice(fetching) /\ OnlySeedsTwice(fetched)
  /\ OnlySeedsInBoth(queue, fetching) /\ OnlySeedsInBoth(queue, fetched)
  /\ OnlySeedsInBoth(fetching, fetched)

PagesInBounds == Len(fetched) + Cardinality(DOMAIN fetching) < MaxUrls + concurrency

LinksQueued(u) ==
  depthOf[u] < Depth => PathsOf(ToSet(Links[u]) \cap allowed) \subseteq PathsOf(DOMAIN depthOf)

YieldedAreFollowed == \A u \in ToSet(fetched) \ ToSet(arrived) : LinksQueued(u)

(* With one page at a time: the page in work is no deeper than what waits, *)
(* and nothing is known that is more than one level below it.              *)
InLevels ==
  /\ \A i, j \in DOMAIN queue : i <= j => depthOf[queue[i]] <= depthOf[queue[j]]
  /\ arrived # <<>> => Len(arrived) = 1 /\ DOMAIN fetching = {}
  /\ \A c \in ToSet(arrived) \cup {fetching[i] : i \in DOMAIN fetching} :
       /\ \A v \in DOMAIN depthOf : depthOf[v] <= depthOf[c] + 1
       /\ \A i \in DOMAIN queue : depthOf[c] <= depthOf[queue[i]]
  /\ queue # <<>> => \A v \in DOMAIN depthOf : depthOf[v] <= depthOf[queue[1]] + 1

CrawlIInv ==
  /\ FrontierTyped /\ KnownUrls /\ OnceOnTheWay /\ PagesInBounds /\ YieldedAreFollowed
  /\ concurrency = 1 => InLevels
  /\ OneAtATimeIsBreadthFirst

(* What is known after the links s of a page were offered, and at each of   *)
(* them before.                                                            *)
OfferedAll(base, page, s) == FoldLeft(LAMBDA sofar, link : Offered(sofar, page, link), base, s)
OfferAt(page, f, s, k) == f[k + 1] = Offered(f[k], page, s[k + 1])

LEMMA GreatestOf ==
  ASSUME NEW P \in SUBSET Int, NEW l \in P, \A k \in P : l >= k
  PROVE  Max(P) = l
<1>1. \A x \in P : (\A y \in P : x >= y) => x = l
  OBVIOUS
<1> QED
  BY <1>1 DEF Max

LEMMA OffersGoThrough ==
  ASSUME NEW base, NEW page, NEW n \in Nat, NEW s, DOMAIN s = 1 .. n
  PROVE  \E f : /\ f[0] = base /\ \A k \in 0 .. n - 1 : OfferAt(page, f, s, k)
                /\ OfferedAll(base, page, s) = f[n]
<1> DEFINE Is(g, k) == g = [P \in SUBSET (1 .. k) |->
                              IF P = {} THEN base
                              ELSE Offered(g[P \ {Max(P)}], page, s[Max(P)])]
           T == {k \in Nat : \E g : Is(g, k)}
<1>1. 0 \in T
  <2> DEFINE g == [P \in SUBSET (1 .. 0) |-> base]
  <2>1. \A P \in SUBSET (1 .. 0) : P = {}
    OBVIOUS
  <2>2. Is(g, 0)
    BY <2>1
  <2> HIDE DEF Is, g
  <2> QED
    BY <2>2
<1>2. ASSUME NEW k \in Nat, k \in T PROVE k + 1 \in T
  <2>1. PICK g : Is(g, k)
    BY <1>2
  <2> DEFINE l == k + 1
             h == [P \in SUBSET (1 .. l) |-> IF l \in P THEN Offered(g[P \ {l}], page, s[l]) ELSE g[P]]
  <2>2. ASSUME NEW P \in SUBSET (1 .. l)
        PROVE  h[P] = IF P = {} THEN base ELSE Offered(h[P \ {Max(P)}], page, s[Max(P)])
    <3>1. CASE l \in P
      <4>1. Max(P) = l
        BY <1>2, <3>1, GreatestOf
      <4>2. P \ {l} \in SUBSET (1 .. l) /\ l \notin P \ {l}
        OBVIOUS
      <4>3. h[P \ {l}] = g[P \ {l}]
        BY <4>2
      <4> QED
        BY <3>1, <4>1, <4>3
    <3>2. CASE l \notin P
      <4>1. P \in SUBSET (1 .. k)
        BY <1>2, <3>2
      <4>2. h[P] = g[P]
        BY <3>2
      <4>3. P \ {Max(P)} \in SUBSET (1 .. l) /\ l \notin P \ {Max(P)}
        BY <3>2
      <4>4. h[P \ {Max(P)}] = g[P \ {Max(P)}]
        BY <4>3
      <4>5. g[P] = IF P = {} THEN base ELSE Offered(g[P \ {Max(P)}], page, s[Max(P)])
        BY <2>1, <4>1
      <4> QED
        BY <4>2, <4>4, <4>5
    <3> QED
      BY <3>1, <3>2
  <2>3. h = [P \in SUBSET (1 .. l) |->
               IF P = {} THEN base ELSE Offered(h[P \ {Max(P)}], page, s[Max(P)])]
    <3>1. h = [P \in SUBSET (1 .. l) |-> h[P]]
      OBVIOUS
    <3> HIDE DEF h
    <3> QED
      BY <2>2, <3>1
  <2> HIDE DEF h
  <2>4. Is(h, l)
    BY <2>3
  <2> HIDE DEF Is
  <2> QED
    BY <1>2, <2>4
<1>3. n \in T
  <2> HIDE DEF T
  <2> QED
    BY <1>1, <1>2, EveryNumber
<1> DEFINE iter == CHOOSE g : Is(g, n)
<1>4. Is(iter, n)
  <2> HIDE DEF Is
  <2> QED
    BY <1>3
<1>5. OfferedAll(base, page, s) = iter[1 .. n]
  BY DEF OfferedAll, FoldLeft, MapThenFoldSet
<1> HIDE DEF iter
<1> DEFINE f == [k \in 0 .. n |-> iter[1 .. k]]
<1>6. f[0] = base
  BY <1>4
<1>7. ASSUME NEW k \in 0 .. n - 1 PROVE OfferAt(page, f, s, k)
  <2> DEFINE P == 1 .. k + 1
  <2>1. P \in SUBSET (1 .. n) /\ P # {} /\ P \ {k + 1} = 1 .. k
    OBVIOUS
  <2>3. Max(P) = k + 1
    <3>1. P \in SUBSET Int /\ k + 1 \in P /\ \A j \in P : k + 1 >= j
      OBVIOUS
    <3> HIDE DEF P
    <3> QED
      BY <3>1, GreatestOf
  <2>2. iter[P] = Offered(iter[P \ {Max(P)}], page, s[Max(P)])
    BY <1>4, <2>1
  <2> HIDE DEF P
  <2>4. f[k] = iter[1 .. k] /\ f[k + 1] = iter[1 .. k + 1]
    OBVIOUS
  <2> QED
    BY <2>1, <2>2, <2>3, <2>4 DEF P, OfferAt
<1>8. f[n] = iter[1 .. n]
  OBVIOUS
<1> QED
  BY <1>5, <1>6, <1>7, <1>8

(* What a crawl knows. *)
Knowledge(base) ==
  /\ DOMAIN base.depth \subseteq Urls /\ base.depth \in [DOMAIN base.depth -> 0 .. Depth]
  /\ base.queue \in Seq(DOMAIN base.depth)

(* k is base and what a page has led to: new paths, allowed, one level below *)
(* the page, each queued once behind what was.                              *)
LedTo(base, page, k) ==
  LET New == DOMAIN k.depth \ DOMAIN base.depth
  IN /\ Knowledge(k) /\ DOMAIN base.depth \subseteq DOMAIN k.depth
     /\ \A u \in DOMAIN base.depth : k.depth[u] = base.depth[u]
     /\ Len(base.queue) <= Len(k.queue) /\ \A i \in DOMAIN base.queue : k.queue[i] = base.queue[i]
     /\ \A i \in DOMAIN k.queue : i \in DOMAIN base.queue \/ k.queue[i] \in New
     /\ \A i, j \in DOMAIN k.queue : k.queue[i] = k.queue[j] /\ k.queue[i] \in New => i = j
     /\ \A u \in New :
          /\ u \in allowed /\ base.depth[page] < Depth /\ k.depth[u] = base.depth[page] + 1
          /\ \A v \in DOMAIN k.depth : PathOf[u] = PathOf[v] => u = v

LEMMA OfferedLeads ==
  ASSUME NEW base, NEW page, Knowledge(base), page \in DOMAIN base.depth,
         NEW k, LedTo(base, page, k), NEW link \in Urls
  PROVE  LET l == Offered(k, page, link)
         IN /\ LedTo(base, page, l) /\ DOMAIN k.depth \subseteq DOMAIN l.depth
            /\ base.depth[page] < Depth /\ link \in allowed => PathOf[link] \in PathsOf(DOMAIN l.depth)
<1>1. PICK l : l = Offered(k, page, link)
  OBVIOUS
<1>2. k.depth[page] = base.depth[page]
  BY DEF LedTo
<1>3. CASE link \in allowed /\ PathOf[link] \notin PathsOf(DOMAIN k.depth) /\ k.depth[page] < Depth
  <2>1. PICK e, q, d : e = k.depth /\ q = k.queue /\ d = base.depth[page]
    OBVIOUS
  <2> d \in Nat /\ d < Depth /\ k.depth[page] = d
    <3>1. d \in 0 .. Depth
      BY <2>1 DEF Knowledge
    <3> QED
      BY <1>2, <1>3, <2>1, <3>1, CrawlAssumption
  <2>2. PICK e2, q2 : /\ e2 = [u \in DOMAIN e \cup {link} |-> IF u = link THEN d + 1 ELSE e[u]]
                      /\ q2 = Append(q, link)
    OBVIOUS
  <2>3. l = [depth |-> e2, queue |-> q2]
    BY <1>1, <1>2, <1>3, <2>1, <2>2 DEF Offered
  <2>4. link \notin DOMAIN e /\ \A v \in DOMAIN e : PathOf[v] # PathOf[link]
    BY <1>3, <2>1 DEF PathsOf
  <2>5. /\ DOMAIN e2 = DOMAIN e \cup {link} /\ e2[link] = d + 1 /\ \A u \in DOMAIN e : e2[u] = e[u]
        /\ DOMAIN e \subseteq Urls /\ e \in [DOMAIN e -> 0 .. Depth] /\ q \in Seq(DOMAIN e)
    BY <2>1, <2>2, <2>4 DEF LedTo, Knowledge
  <2>6. e2 \in [DOMAIN e2 -> 0 .. Depth] /\ DOMAIN e2 \subseteq Urls
    <3>1. d + 1 \in 0 .. Depth
      BY <2>1, CrawlAssumption
    <3>2. \A u \in DOMAIN e2 : e2[u] \in 0 .. Depth
      BY <2>5, <3>1
    <3> QED
      BY <2>2, <2>5, <3>2
  <2>7. PICK n \in Nat : n = Len(q) /\ DOMAIN q = 1 .. n
    BY <2>5, LenProperties
  <2>8. q \in Seq(DOMAIN e2) /\ link \in DOMAIN e2
    <3>1. \A i \in 1 .. n : q[i] \in DOMAIN e2
      BY <2>5, <2>7, ElementOfSeq
    <3>2. q = [i \in 1 .. n |-> q[i]]
      BY <2>5, <2>7
    <3> QED
      BY <2>5, <3>1, <3>2, SeqDef
  <2>9. /\ q2 \in Seq(DOMAIN e2) /\ Len(q2) = n + 1 /\ DOMAIN q2 = 1 .. n + 1
        /\ q2[n + 1] = link /\ \A i \in 1 .. n : q2[i] = q[i]
    BY <2>2, <2>7, <2>8, AppendProperties, LenProperties
  <2>10. Knowledge(l) /\ l.depth = e2 /\ l.queue = q2
    BY <2>3, <2>6, <2>9 DEF Knowledge
  <2>11. PICK B, bq, m : B = DOMAIN base.depth /\ bq = base.queue /\ m = Len(bq)
    OBVIOUS
  <2> m \in Nat /\ DOMAIN bq = 1 .. m
    <3>1. bq \in Seq(B)
      BY <2>11 DEF Knowledge
    <3> QED
      BY <2>11, <3>1, LenProperties
  <2>12. /\ B \subseteq DOMAIN e /\ \A u \in B : e[u] = base.depth[u]
         /\ m <= n /\ \A i \in 1 .. m : q[i] = bq[i]
         /\ \A i \in 1 .. n : i \in 1 .. m \/ q[i] \in DOMAIN e \ B
         /\ \A i, j \in 1 .. n : q[i] = q[j] /\ q[i] \in DOMAIN e \ B => i = j
         /\ \A u \in DOMAIN e \ B :
              /\ u \in allowed /\ d < Depth /\ e[u] = d + 1
              /\ \A v \in DOMAIN e : PathOf[u] = PathOf[v] => u = v
    BY <2>1, <2>7, <2>11 DEF LedTo
  <2>13. /\ B \subseteq DOMAIN e2 /\ \A u \in B : e2[u] = base.depth[u]
         /\ m <= n + 1 /\ \A i \in 1 .. m : q2[i] = bq[i]
    BY <2>5, <2>9, <2>12
  <2>14. \A i \in 1 .. n + 1 : i \in 1 .. m \/ q2[i] \in DOMAIN e2 \ B
    <3> SUFFICES ASSUME NEW i \in 1 .. n + 1, i \notin 1 .. m PROVE q2[i] \in DOMAIN e2 \ B
      OBVIOUS
    <3>1. CASE i = n + 1
      BY <2>4, <2>5, <2>9, <2>12, <3>1
    <3>2. CASE i # n + 1
      BY <2>5, <2>9, <2>12, <3>2
    <3> QED
      BY <3>1, <3>2
  <2>15. \A i, j \in 1 .. n + 1 : q2[i] = q2[j] /\ q2[i] \in DOMAIN e2 \ B => i = j
    <3> SUFFICES ASSUME NEW i \in 1 .. n + 1, NEW j \in 1 .. n + 1, q2[i] = q2[j], q2[i] \in DOMAIN e2 \ B
                 PROVE  i = j
      OBVIOUS
    <3>1. \A a \in 1 .. n : q2[a] = q[a] /\ q[a] \in DOMAIN e
      BY <2>5, <2>7, <2>9, ElementOfSeq
    <3>2. CASE i = n + 1 \/ j = n + 1
      BY <2>4, <2>9, <3>1, <3>2
    <3>3. CASE i \in 1 .. n /\ j \in 1 .. n
      BY <2>12, <3>1, <3>3
    <3> QED
      BY <3>2, <3>3
  <2>16. \A u \in DOMAIN e2 \ B :
           /\ u \in allowed /\ d < Depth /\ e2[u] = d + 1
           /\ \A v \in DOMAIN e2 : PathOf[u] = PathOf[v] => u = v
    BY <1>3, <2>1, <2>4, <2>5, <2>12
  <2>17. LedTo(base, page, l)
    BY <2>1, <2>9, <2>10, <2>11, <2>13, <2>14, <2>15, <2>16, SMTT(30) DEF LedTo
  <2>18. PathOf[link] \in PathsOf(DOMAIN l.depth) /\ DOMAIN k.depth \subseteq DOMAIN l.depth
    BY <2>1, <2>5, <2>10 DEF PathsOf
  <2> QED
    BY <1>1, <2>17, <2>18
<1>4. CASE ~(link \in allowed /\ PathOf[link] \notin PathsOf(DOMAIN k.depth) /\ k.depth[page] < Depth)
  <2>1. l = k
    BY <1>1, <1>4 DEF Offered
  <2> QED
    BY <1>1, <1>2, <1>4, <2>1
<1> QED
  BY <1>3, <1>4

LEMMA AllLinksLead ==
  ASSUME NEW base, NEW page, Knowledge(base), page \in DOMAIN base.depth, NEW s \in Seq(Urls)
  PROVE  LET l == OfferedAll(base, page, s)
         IN /\ LedTo(base, page, l)
            /\ base.depth[page] < Depth => PathsOf(ToSet(s) \cap allowed) \subseteq PathsOf(DOMAIN l.depth)
<1>1. PICK n \in Nat : n = Len(s) /\ DOMAIN s = 1 .. n
  BY LenProperties
<1>2. PICK f : /\ f[0] = base /\ \A k \in 0 .. n - 1 : OfferAt(page, f, s, k)
               /\ OfferedAll(base, page, s) = f[n]
  BY <1>1, OffersGoThrough
<1> DEFINE Seen(k) == base.depth[page] < Depth =>
                        \A i \in 1 .. k : s[i] \in allowed => PathOf[s[i]] \in PathsOf(DOMAIN f[k].depth)
           T == {k \in Nat : k <= n => LedTo(base, page, f[k]) /\ Seen(k)}
<1>3. 0 \in T
  <2>1. LedTo(base, page, base)
    BY LenProperties DEF LedTo, Knowledge
  <2> QED
    BY <1>2, <2>1
<1>4. ASSUME NEW k \in Nat, k \in T PROVE k + 1 \in T
  <2> SUFFICES ASSUME k + 1 <= n PROVE LedTo(base, page, f[k + 1]) /\ Seen(k + 1)
    OBVIOUS
  <2>1. LedTo(base, page, f[k]) /\ Seen(k)
    BY <1>4
  <2>2. PICK a, b, link : a = f[k] /\ b = f[k + 1] /\ link = s[k + 1]
    OBVIOUS
  <2>3. link \in Urls
    <3>1. k + 1 \in 1 .. Len(s)
      BY <1>1
    <3> QED
      BY <2>2, <3>1, ElementOfSeq
  <2>4. b = Offered(a, page, link)
    <3>1. k \in 0 .. n - 1
      OBVIOUS
    <3> QED
      BY <1>2, <2>2, <3>1 DEF OfferAt
  <2>5. /\ LedTo(base, page, b) /\ DOMAIN a.depth \subseteq DOMAIN b.depth
        /\ base.depth[page] < Depth /\ link \in allowed => PathOf[link] \in PathsOf(DOMAIN b.depth)
    <3>1. LedTo(base, page, a)
      BY <2>1, <2>2
    <3> QED
      BY <2>3, <2>4, <3>1, OfferedLeads, ZenonT(60)
  <2>6. Seen(k + 1)
    <3> SUFFICES ASSUME base.depth[page] < Depth, NEW i \in 1 .. k + 1, s[i] \in allowed
                 PROVE  PathOf[s[i]] \in PathsOf(DOMAIN b.depth)
      BY <2>2
    <3>1. CASE i = k + 1
      BY <2>2, <2>5, <3>1
    <3>2. CASE i \in 1 .. k
      <4>1. PathOf[s[i]] \in PathsOf(DOMAIN a.depth)
        BY <2>1, <2>2, <3>2
      <4> QED
        BY <2>5, <4>1 DEF PathsOf
    <3> QED
      BY <3>1, <3>2
  <2> QED
    BY <2>2, <2>5, <2>6
<1>5. n \in T
  <2> HIDE DEF T
  <2> QED
    BY <1>3, <1>4, EveryNumber
<1>6. LedTo(base, page, f[n]) /\ Seen(n)
  BY <1>5
<1>7. base.depth[page] < Depth => PathsOf(ToSet(s) \cap allowed) \subseteq PathsOf(DOMAIN f[n].depth)
  <2> SUFFICES ASSUME base.depth[page] < Depth, NEW u \in ToSet(s), u \in allowed
               PROVE  PathOf[u] \in PathsOf(DOMAIN f[n].depth)
    BY DEF PathsOf
  <2>1. PICK i \in 1 .. n : s[i] = u
    BY <1>1 DEF ToSet
  <2> QED
    BY <1>6, <2>1
<1> QED
  BY <1>2, <1>6, <1>7

LEMMA SeqOfMore ==
  ASSUME NEW S, NEW T, S \subseteq T, NEW s \in Seq(S)
  PROVE  s \in Seq(T)
<1>1. PICK n \in Nat : n = Len(s) /\ DOMAIN s = 1 .. n
  BY LenProperties
<1>2. s = [i \in 1 .. n |-> s[i]]
  BY <1>1
<1>3. \A i \in 1 .. n : s[i] \in T
  BY <1>1, ElementOfSeq
<1> QED
  BY <1>2, <1>3, SeqDef

LEMMA CrawlInitInvariant == CrawlInit => CrawlIInv
<1> SUFFICES ASSUME CrawlInit PROVE CrawlIInv
  OBVIOUS
<1>1. SeedUrls \subseteq Urls /\ Seeds \in Seq(SeedUrls)
  <2>1. Seeds \in Seq(Urls)
    BY CrawlAssumption
  <2>2. PICK n \in Nat : n = Len(Seeds) /\ DOMAIN Seeds = 1 .. n
    BY <2>1, LenProperties
  <2>3. \A i \in 1 .. n : Seeds[i] \in Urls /\ Seeds[i] \in SeedUrls
    BY <2>1, <2>2, ElementOfSeq DEF SeedUrls, ToSet
  <2>4. Seeds = [i \in 1 .. n |-> Seeds[i]]
    BY <2>1, <2>2
  <2>5. Seeds \in Seq(SeedUrls)
    BY <2>3, <2>4, SeqDef
  <2> QED
    BY <2>2, <2>3, <2>5 DEF SeedUrls, ToSet
<1>2. \A i \in DOMAIN Seeds : Seeds[i] \in SeedUrls
  BY DEF SeedUrls, ToSet
<1>3. DOMAIN fetching = {} /\ DOMAIN fetched = {} /\ DOMAIN arrived = {} /\ Len(fetched) = 0
  BY DEF CrawlInit
<1>4. FrontierTyped
  <2>1. depthOf \in [DOMAIN depthOf -> 0 .. Depth] /\ DOMAIN depthOf = SeedUrls
    BY CrawlAssumption DEF CrawlInit
  <2>2. fetched \in Seq(SeedUrls) /\ arrived \in Seq(SeedUrls) /\ queue \in Seq(SeedUrls)
    BY <1>1, EmptySeq DEF CrawlInit
  <2>3. fetching \in [DOMAIN fetching -> SeedUrls] /\ DOMAIN fetching \subseteq 1 .. concurrency
    BY <1>3 DEF CrawlInit
  <2>4. concurrency \in Concurrencies /\ allowed \subseteq Urls
    BY CrawlAssumption DEF CrawlInit, AllowedSets
  <2> QED
    BY <1>1, <2>1, <2>2, <2>3, <2>4 DEF FrontierTyped, CrawlInit
<1>5. KnownUrls
  BY DEF KnownUrls, CrawlInit
<1>6. OnceOnTheWay
  BY <1>2, <1>3 DEF OnceOnTheWay, OnlySeedsTwice, OnlySeedsInBoth, CrawlInit
<1>7. PagesInBounds
  <2>1. concurrency \in Nat \ {0} /\ MaxUrls \in Nat \ {0}
    BY CrawlAssumption DEF CrawlInit
  <2> QED
    BY <1>3, <2>1, FS_EmptySet DEF PagesInBounds
<1>8. ToSet(fetched) = {} /\ ToSet(arrived) = {}
  BY <1>3 DEF ToSet
<1>9. InLevels
  <2>1. \A u \in DOMAIN depthOf : depthOf[u] = 0
    BY DEF CrawlInit
  <2>2. \A i \in DOMAIN queue : queue[i] \in DOMAIN depthOf
    BY <1>2 DEF CrawlInit
  <2>3. queue # <<>> => 1 \in DOMAIN queue
    <3>1. queue \in Seq(SeedUrls)
      BY <1>1 DEF CrawlInit
    <3> QED
      BY <3>1, EmptySeq, LenProperties
  <2>4. arrived = <<>>
    BY DEF CrawlInit
  <2> QED
    BY <1>3, <1>8, <2>1, <2>2, <2>3, <2>4 DEF InLevels
<1> QED
  BY <1>4, <1>5, <1>6, <1>7, <1>8, <1>9 DEF CrawlIInv, YieldedAreFollowed, OneAtATimeIsBreadthFirst

LEMMA TakeBatchInvariant == CrawlIInv /\ TakeBatch => CrawlIInv'
<1> SUFFICES ASSUME CrawlIInv, TakeBatch PROVE CrawlIInv'
  OBVIOUS
<1> USE DEF CrawlIInv
<1>1. /\ UNCHANGED <<concurrency, allowed, depthOf, arrived, fetched, cancelled, crawl>>
      /\ arrived = <<>> /\ DOMAIN fetching = {} /\ Len(fetched) < MaxUrls /\ crawl = "running"
      /\ queue # <<>>
  BY DEF TakeBatch, BatchIsOver, MayGoOn
<1>2. PICK n \in Nat : n = Len(queue) /\ DOMAIN queue = 1 .. n
  BY LenProperties DEF FrontierTyped
<1>3. n # 0
  BY <1>1, <1>2, EmptySeq DEF FrontierTyped
<1>4. concurrency \in Nat \ {0} /\ MaxUrls \in Nat \ {0}
  BY CrawlAssumption DEF FrontierTyped
<1>5. PICK size \in 1 .. n : /\ size <= concurrency /\ fetching' = SubSeq(queue, 1, size)
                             /\ queue' = SubSeq(queue, size + 1, n)
  <2>1. CASE n < concurrency
    BY <1>2, <1>3, <1>4, <2>1 DEF TakeBatch
  <2>2. CASE ~(n < concurrency)
    BY <1>2, <1>3, <1>4, <2>2 DEF TakeBatch
  <2> QED
    BY <2>1, <2>2
<1>6. /\ fetching' \in Seq(DOMAIN depthOf) /\ DOMAIN fetching' = 1 .. size
      /\ \A i \in 1 .. size : fetching'[i] = queue[i]
  <2>1. queue \in Seq(DOMAIN depthOf) /\ \A i \in 1 .. size : i \in 1 .. Len(queue)
    BY <1>2 DEF FrontierTyped
  <2> QED
    BY <1>5, <2>1, SubSeqProperties, LenProperties
<1>7. /\ queue' \in Seq(DOMAIN depthOf) /\ DOMAIN queue' = 1 .. n - size
      /\ \A i \in 1 .. n - size : queue'[i] = queue[size + i]
  <2>1. queue \in Seq(DOMAIN depthOf) /\ \A i \in size + 1 .. n : i \in 1 .. Len(queue)
    BY <1>2 DEF FrontierTyped
  <2>2. queue' \in Seq(DOMAIN depthOf)
    BY <1>5, <2>1, SubSeqProperties
  <2> QED
    BY <1>5, <2>1, <2>2, SubSeqProperties, LenProperties
<1>8. \A i \in 1 .. n : queue[i] \in DOMAIN depthOf
  BY <1>2, ElementOfSeq DEF FrontierTyped
<1>9. FrontierTyped'
  <2>1. 1 .. size \subseteq 1 .. concurrency
    BY <1>4, <1>5
  <2>2. fetching' \in [1 .. size -> DOMAIN depthOf]
    <3>1. Len(fetching') = size
      BY <1>6, LenProperties
    <3>2. fetching' = [i \in 1 .. size |-> fetching'[i]]
      BY <1>6, <3>1
    <3>3. \A i \in 1 .. size : fetching'[i] \in DOMAIN depthOf
      BY <1>6, <3>1, ElementOfSeq
    <3> QED
      BY <3>2, <3>3
  <2> QED
    BY <1>1, <1>6, <1>7, <2>1, <2>2 DEF FrontierTyped
<1>10. KnownUrls'
  BY <1>1 DEF KnownUrls
<1>11. OnceOnTheWay'
  <2>1. \A i, j \in 1 .. n : queue[i] = queue[j] => i = j \/ queue[i] \in SeedUrls
    BY <1>2 DEF OnceOnTheWay, OnlySeedsTwice
  <2>2. \A i \in 1 .. n, j \in DOMAIN fetched : queue[i] = fetched[j] => queue[i] \in SeedUrls
    BY <1>2 DEF OnceOnTheWay, OnlySeedsInBoth
  <2>3. \A i \in 1 .. size : i \in 1 .. n
    OBVIOUS
  <2>4. \A i \in 1 .. n - size : size + i \in 1 .. n /\ size + i \notin 1 .. size
    OBVIOUS
  <2>5. OnlySeedsTwice(queue)' /\ OnlySeedsTwice(fetching)'
    BY <1>6, <1>7, <2>1, <2>3, <2>4 DEF OnlySeedsTwice
  <2>6. OnlySeedsInBoth(queue, fetching)'
    BY <1>6, <1>7, <2>1, <2>3, <2>4 DEF OnlySeedsInBoth
  <2>7. OnlySeedsInBoth(queue, fetched)' /\ OnlySeedsInBoth(fetching, fetched)'
    BY <1>1, <1>6, <1>7, <2>2, <2>3, <2>4 DEF OnlySeedsInBoth
  <2>8. OnlySeedsTwice(fetched)'
    BY <1>1 DEF OnceOnTheWay, OnlySeedsTwice
  <2> QED
    BY <2>5, <2>6, <2>7, <2>8 DEF OnceOnTheWay
<1>12. PagesInBounds'
  <2>1. Cardinality(DOMAIN fetching') = size
    BY <1>6, FS_Interval
  <2>2. PICK f \in Nat : f = Len(fetched) /\ f < MaxUrls
    BY <1>1, LenProperties DEF FrontierTyped
  <2>3. Len(fetched') = f /\ concurrency' = concurrency
    BY <1>1, <2>2
  <2>4. f + size < MaxUrls + concurrency
    BY <1>4, <1>5, <2>2
  <2> QED
    BY <2>1, <2>3, <2>4 DEF PagesInBounds
<1>13. YieldedAreFollowed'
  BY <1>1 DEF YieldedAreFollowed, LinksQueued
<1>14. ASSUME concurrency = 1 PROVE InLevels'
  <2>1. size = 1
    BY <1>5, <1>14
  <2>2. \A u \in DOMAIN depthOf : depthOf[u] \in Nat
    BY DEF FrontierTyped
  <2>3. PICK c : c = queue[1] /\ c \in DOMAIN depthOf
    BY <1>3, <1>8
  <2>4. {fetching[i] : i \in DOMAIN fetching}' = {c}
    BY <1>6, <2>1, <2>3
  <2>5. ToSet(arrived)' = {}
    BY <1>1 DEF ToSet
  <2>6. \A i, j \in 1 .. n : i <= j => depthOf[queue[i]] <= depthOf[queue[j]]
    BY <1>2, <1>14 DEF InLevels
  <2>7. \A v \in DOMAIN depthOf : depthOf[v] <= depthOf[c] + 1
    BY <1>1, <1>14, <2>3 DEF InLevels
  <2>8. \A i \in 1 .. n - 1 : queue'[i] = queue[1 + i] /\ 1 + i \in 1 .. n
    BY <1>7, <2>1
  <2>9. \A i \in 1 .. n - 1 : depthOf[c] <= depthOf[queue'[i]]
    BY <1>3, <2>3, <2>6, <2>8
  <2>10. \A i, j \in 1 .. n - 1 : i <= j => depthOf[queue'[i]] <= depthOf[queue'[j]]
    BY <2>6, <2>8
  <2>11. queue' # <<>> => \A v \in DOMAIN depthOf : depthOf[v] <= depthOf[queue'[1]] + 1
    <3> SUFFICES ASSUME queue' # <<>>, NEW v \in DOMAIN depthOf
                 PROVE  depthOf[v] <= depthOf[queue'[1]] + 1
      OBVIOUS
    <3>1. 1 \in 1 .. n - 1
      BY <1>7, <2>1, EmptySeq, LenProperties
    <3>2. queue'[1] \in DOMAIN depthOf
      BY <1>8, <2>8, <3>1
    <3>3. depthOf[v] <= depthOf[c] + 1 /\ depthOf[c] <= depthOf[queue'[1]]
      BY <2>7, <2>9, <3>1
    <3> QED
      BY <2>2, <2>3, <3>2, <3>3
  <2> QED
    BY <1>1, <1>7, <2>1, <2>4, <2>5, <2>7, <2>9, <2>10, <2>11 DEF InLevels
<1>15. OneAtATimeIsBreadthFirst'
  BY <1>1 DEF OneAtATimeIsBreadthFirst
<1> QED
  BY <1>1, <1>9, <1>10, <1>11, <1>12, <1>13, <1>14, <1>15

LEMMA OneMore ==
  ASSUME NEW S, NEW s \in Seq(S), NEW a \in S, NEW n, n = Len(s)
  PROVE  /\ Append(s, a) \in Seq(S) /\ Len(Append(s, a)) = n + 1 /\ DOMAIN Append(s, a) = 1 .. n + 1
         /\ Append(s, a)[n + 1] = a /\ \A i \in 1 .. n : Append(s, a)[i] = s[i]
BY AppendProperties, LenProperties

LEMMA FetchEndsInvariant ==
  CrawlIInv /\ (\E i \in DOMAIN fetching, page \in BOOLEAN : FetchEnds(i, page)) => CrawlIInv'
<1> SUFFICES ASSUME CrawlIInv, NEW t \in DOMAIN fetching, NEW page \in BOOLEAN, FetchEnds(t, page)
             PROVE  CrawlIInv'
  OBVIOUS
<1> USE DEF CrawlIInv
<1>1. UNCHANGED <<concurrency, allowed, depthOf, queue, cancelled, crawl>>
  BY DEF FetchEnds
<1>2. /\ DOMAIN fetching' = DOMAIN fetching \ {t}
      /\ \A j \in DOMAIN fetching' : fetching'[j] = fetching[j]
      /\ fetching' \in [DOMAIN fetching' -> DOMAIN depthOf]
  BY DEF FetchEnds, FrontierTyped
<1>3. PICK a \in DOMAIN depthOf : a = fetching[t]
  BY DEF FrontierTyped
<1>4. PICK n \in Nat : n = Len(fetched) /\ DOMAIN fetched = 1 .. n
  BY LenProperties DEF FrontierTyped
<1>5. PICK m \in Nat : m = Len(arrived) /\ DOMAIN arrived = 1 .. m
  BY LenProperties DEF FrontierTyped
<1>6. page => /\ fetched' = Append(fetched, a) /\ arrived' = Append(arrived, a)
  BY <1>3 DEF FetchEnds
<1>7. ~page => fetched' = fetched /\ arrived' = arrived
  BY DEF FetchEnds
<1>8. page => /\ fetched' \in Seq(DOMAIN depthOf) /\ Len(fetched') = n + 1 /\ DOMAIN fetched' = 1 .. n + 1
              /\ fetched'[n + 1] = a /\ \A i \in 1 .. n : fetched'[i] = fetched[i]
  <2>1. fetched \in Seq(DOMAIN depthOf) /\ n = Len(fetched)
    BY <1>4 DEF FrontierTyped
  <2>2. /\ Append(fetched, a) \in Seq(DOMAIN depthOf) /\ Len(Append(fetched, a)) = n + 1
        /\ DOMAIN Append(fetched, a) = 1 .. n + 1
        /\ Append(fetched, a)[n + 1] = a /\ \A i \in 1 .. n : Append(fetched, a)[i] = fetched[i]
    BY <2>1, OneMore
  <2> QED
    BY <1>6, <2>2
<1>9. page => /\ arrived' \in Seq(DOMAIN depthOf) /\ Len(arrived') = m + 1 /\ DOMAIN arrived' = 1 .. m + 1
              /\ arrived'[m + 1] = a /\ \A i \in 1 .. m : arrived'[i] = arrived[i]
  <2>1. arrived \in Seq(DOMAIN depthOf) /\ m = Len(arrived)
    BY <1>5 DEF FrontierTyped
  <2>2. /\ Append(arrived, a) \in Seq(DOMAIN depthOf) /\ Len(Append(arrived, a)) = m + 1
        /\ DOMAIN Append(arrived, a) = 1 .. m + 1
        /\ Append(arrived, a)[m + 1] = a /\ \A i \in 1 .. m : Append(arrived, a)[i] = arrived[i]
    BY <2>1, OneMore
  <2> QED
    BY <1>6, <2>2
<1>10. page => ToSet(fetched') = ToSet(fetched) \cup {a} /\ ToSet(arrived') = ToSet(arrived) \cup {a}
  BY <1>4, <1>5, <1>8, <1>9, SMTT(30) DEF ToSet
<1>11. FrontierTyped'
  <2>1. fetched' \in Seq(DOMAIN depthOf) /\ arrived' \in Seq(DOMAIN depthOf)
    BY <1>7, <1>8, <1>9 DEF FrontierTyped
  <2>2. ToSet(arrived') \subseteq ToSet(fetched')
    BY <1>7, <1>10 DEF FrontierTyped
  <2>3. crawl' # "ended"
    BY <1>1 DEF FrontierTyped
  <2> QED
    BY <1>1, <1>2, <2>1, <2>2, <2>3 DEF FrontierTyped
<1>12. KnownUrls'
  BY <1>1 DEF KnownUrls
<1>13. OnceOnTheWay'
  <2>1. \A i \in DOMAIN queue : queue[i] = a => a \in SeedUrls
    BY <1>3 DEF OnceOnTheWay, OnlySeedsInBoth
  <2>2. \A i \in DOMAIN fetching' : fetching[i] = a => a \in SeedUrls
    BY <1>2, <1>3 DEF OnceOnTheWay, OnlySeedsTwice
  <2>3. \A i \in 1 .. n : fetched[i] = a => a \in SeedUrls
    BY <1>3, <1>4 DEF OnceOnTheWay, OnlySeedsInBoth
  <2>4. OnlySeedsTwice(queue)'
    BY <1>1 DEF OnceOnTheWay, OnlySeedsTwice
  <2>5. OnlySeedsTwice(fetching)'
    BY <1>2 DEF OnceOnTheWay, OnlySeedsTwice
  <2>6. OnlySeedsInBoth(queue, fetching)'
    BY <1>1, <1>2 DEF OnceOnTheWay, OnlySeedsInBoth
  <2>7. CASE page
    <3>1. OnlySeedsTwice(fetched)'
      <4> SUFFICES ASSUME NEW i \in 1 .. n + 1, NEW j \in 1 .. n + 1, fetched'[i] = fetched'[j], i # j
                   PROVE  fetched'[i] \in SeedUrls
        BY <1>1, <1>8, <2>7 DEF OnlySeedsTwice
      <4>1. CASE i \in 1 .. n /\ j \in 1 .. n
        BY <1>4, <1>8, <2>7, <4>1 DEF OnceOnTheWay, OnlySeedsTwice
      <4>2. CASE i = n + 1
        BY <1>8, <2>3, <2>7, <4>2
      <4>3. CASE j = n + 1
        BY <1>8, <2>3, <2>7, <4>3
      <4> QED
        BY <4>1, <4>2, <4>3
    <3>2. ASSUME NEW j \in 1 .. n + 1 PROVE j \in 1 .. n \/ fetched'[j] = a
      BY <1>8, <2>7
    <3>3. OnlySeedsInBoth(queue, fetched)'
      BY <1>1, <1>4, <1>8, <2>1, <2>7, <3>2 DEF OnceOnTheWay, OnlySeedsInBoth
    <3>4. OnlySeedsInBoth(fetching, fetched)'
      BY <1>2, <1>4, <1>8, <2>2, <2>7, <3>2 DEF OnceOnTheWay, OnlySeedsInBoth
    <3> QED
      BY <2>4, <2>5, <2>6, <3>1, <3>3, <3>4 DEF OnceOnTheWay
  <2>8. CASE ~page
    <3>1. OnlySeedsTwice(fetched)' /\ OnlySeedsInBoth(queue, fetched)'
      BY <1>1, <1>7, <2>8 DEF OnceOnTheWay, OnlySeedsTwice, OnlySeedsInBoth
    <3>2. OnlySeedsInBoth(fetching, fetched)'
      BY <1>2, <1>7, <2>8 DEF OnceOnTheWay, OnlySeedsInBoth
    <3> QED
      BY <2>4, <2>5, <2>6, <3>1, <3>2 DEF OnceOnTheWay
  <2> QED
    BY <2>7, <2>8
<1>14. PagesInBounds'
  <2>1. concurrency \in Nat \ {0} /\ MaxUrls \in Nat \ {0}
    BY CrawlAssumption DEF FrontierTyped
  <2>2. IsFiniteSet(DOMAIN fetching)
    <3>1. IsFiniteSet(1 .. concurrency)
      BY <2>1, FS_Interval
    <3> QED
      BY <3>1, FS_Subset DEF FrontierTyped
  <2>3. PICK c \in Nat : c = Cardinality(DOMAIN fetching)
    BY <2>2, FS_CardinalityType
  <2>4. Cardinality(DOMAIN fetching') = c - 1
    BY <1>2, <2>2, <2>3, FS_RemoveElement
  <2>5. n + c < MaxUrls + concurrency
    BY <1>4, <2>3 DEF PagesInBounds
  <2>6. Len(fetched') = n \/ Len(fetched') = n + 1
    BY <1>4, <1>7, <1>8
  <2>7. Len(fetched') + (c - 1) < MaxUrls + concurrency
    BY <2>1, <2>5, <2>6
  <2> QED
    BY <1>1, <2>4, <2>7 DEF PagesInBounds
<1>15. ToSet(fetched') \ ToSet(arrived') \subseteq ToSet(fetched) \ ToSet(arrived)
  BY <1>7, <1>10
<1>16. YieldedAreFollowed'
  BY <1>1, <1>15 DEF YieldedAreFollowed, LinksQueued
<1>17. ASSUME concurrency = 1 PROVE InLevels'
  <2>1. DOMAIN fetching \subseteq {1}
    <3>1. 1 .. 1 = {1}
      OBVIOUS
    <3> QED
      BY <1>17, <3>1 DEF FrontierTyped
  <2>2. DOMAIN fetching' = {}
    BY <1>2, <2>1
  <2>3. arrived = <<>>
    BY <1>17 DEF InLevels
  <2>4. ToSet(arrived) = {} /\ m = 0
    BY <1>5, <2>3 DEF ToSet
  <2>5. ToSet(arrived') \subseteq {a} /\ (arrived' # <<>> => Len(arrived') = 1)
    BY <1>7, <1>9, <1>10, <2>3, <2>4
  <2>6. /\ \A v \in DOMAIN depthOf : depthOf[v] <= depthOf[a] + 1
        /\ \A i \in DOMAIN queue : depthOf[a] <= depthOf[queue[i]]
    BY <1>3, <1>17 DEF InLevels
  <2> QED
    BY <1>1, <1>17, <2>2, <2>5, <2>6 DEF InLevels
<1>18. OneAtATimeIsBreadthFirst'
  BY <1>1, <1>15 DEF OneAtATimeIsBreadthFirst
<1> QED
  BY <1>1, <1>11, <1>12, <1>13, <1>14, <1>16, <1>17, <1>18

LEMMA YieldPageInvariant == CrawlIInv /\ YieldPage => CrawlIInv'
<1> SUFFICES ASSUME CrawlIInv, YieldPage PROVE CrawlIInv'
  OBVIOUS
<1> USE DEF CrawlIInv
<1>1. /\ UNCHANGED <<concurrency, allowed, fetching, fetched, cancelled, crawl>>
      /\ crawl = "running" /\ arrived # <<>> /\ arrived' = Tail(arrived)
  BY DEF YieldPage
<1>2. PICK m \in Nat : m = Len(arrived) /\ DOMAIN arrived = 1 .. m
  BY LenProperties DEF FrontierTyped
<1>3. m # 0
  BY <1>1, <1>2, EmptySeq DEF FrontierTyped
<1>4. PICK p : p = arrived[1]
  OBVIOUS
<1>5. /\ arrived' \in Seq(DOMAIN depthOf) /\ Len(arrived') = m - 1 /\ DOMAIN arrived' = 1 .. m - 1
      /\ \A i \in 1 .. m - 1 : arrived'[i] = arrived[i + 1]
  <2>1. arrived \in Seq(DOMAIN depthOf)
    BY DEF FrontierTyped
  <2>2. /\ Tail(arrived) \in Seq(DOMAIN depthOf) /\ Len(Tail(arrived)) = m - 1
        /\ \A i \in 1 .. Len(Tail(arrived)) : Tail(arrived)[i] = arrived[i + 1]
    BY <1>1, <1>2, <2>1, HeadTailProperties
  <2> QED
    BY <1>1, <2>2, LenProperties
<1>6. p \in DOMAIN depthOf /\ p \in ToSet(arrived) /\ p \in Urls
  <2>1. 1 \in 1 .. Len(arrived)
    BY <1>2, <1>3
  <2> QED
    BY <1>2, <1>4, <2>1, ElementOfSeq DEF FrontierTyped, ToSet
<1>7. ToSet(arrived') \subseteq ToSet(arrived) /\ ToSet(arrived) \subseteq ToSet(arrived') \cup {p}
  <2>1. \A i \in 1 .. m : i = 1 \/ (i - 1 \in 1 .. m - 1 /\ (i - 1) + 1 = i)
    OBVIOUS
  <2>2. \A i \in 1 .. m - 1 : i + 1 \in 1 .. m
    OBVIOUS
  <2>3. ToSet(arrived') \subseteq ToSet(arrived)
    BY <1>2, <1>5, <2>2 DEF ToSet
  <2>4. ASSUME NEW u \in ToSet(arrived), u # p PROVE u \in ToSet(arrived')
    <3>1. PICK i \in 1 .. m : arrived[i] = u
      BY <1>2 DEF ToSet
    <3>2. PICK j \in 1 .. m - 1 : arrived'[j] = u
      BY <1>4, <1>5, <2>1, <2>4, <3>1
    <3> QED
      BY <1>5, <3>2 DEF ToSet
  <2> QED
    BY <2>3, <2>4
<1>8. PICK base : base = [depth |-> depthOf, queue |-> queue]
  OBVIOUS
<1>9. base.depth = depthOf /\ base.queue = queue /\ Knowledge(base)
  BY <1>8 DEF Knowledge, FrontierTyped
<1>10. PICK l : /\ LedTo(base, p, l)
                /\ base.depth[p] < Depth => PathsOf(ToSet(Links[p]) \cap allowed) \subseteq PathsOf(DOMAIN l.depth)
                /\ l = OfferedAll(base, p, Links[p])
  <2>1. Links[p] \in Seq(Urls)
    BY <1>6, CrawlAssumption
  <2>2. p \in DOMAIN base.depth
    BY <1>6, <1>9
  <2> QED
    BY <1>9, <2>1, <2>2, AllLinksLead
<1>11. depthOf' = l.depth /\ queue' = l.queue
  <2>1. p = Head(arrived)
    BY <1>1, <1>4
  <2> DEFINE found == OfferedAll([depth |-> depthOf, queue |-> queue], Head(arrived), Links[Head(arrived)])
  <2>2. depthOf' = found.depth /\ queue' = found.queue
    BY DEF YieldPage, OfferedAll
  <2> QED
    BY <1>8, <1>10, <2>1, <2>2
<1> DEFINE New == DOMAIN depthOf' \ DOMAIN depthOf
<1>12. PICK n \in Nat : n = Len(queue) /\ DOMAIN queue = 1 .. n
  BY LenProperties DEF FrontierTyped
<1>13. PICK d \in 0 .. Depth : d = depthOf[p]
  BY <1>6 DEF FrontierTyped
<1>14. /\ DOMAIN depthOf \subseteq DOMAIN depthOf' /\ DOMAIN depthOf' \subseteq Urls
       /\ depthOf' \in [DOMAIN depthOf' -> 0 .. Depth] /\ queue' \in Seq(DOMAIN depthOf')
       /\ \A u \in DOMAIN depthOf : depthOf'[u] = depthOf[u]
  BY <1>9, <1>10, <1>11 DEF LedTo, Knowledge
<1>15. PICK q \in Nat : q = Len(queue') /\ DOMAIN queue' = 1 .. q
  BY <1>14, LenProperties
<1>16. /\ n <= q /\ \A i \in 1 .. n : queue'[i] = queue[i]
       /\ \A i \in 1 .. q : i \in 1 .. n \/ queue'[i] \in New
       /\ \A i, j \in 1 .. q : queue'[i] = queue'[j] /\ queue'[i] \in New => i = j
       /\ \A u \in New :
            /\ u \in allowed /\ d < Depth /\ depthOf'[u] = d + 1
            /\ \A v \in DOMAIN depthOf' : PathOf[u] = PathOf[v] => u = v
  BY <1>9, <1>10, <1>11, <1>12, <1>13, <1>15, ZenonT(60) DEF LedTo
<1>17. FrontierTyped'
  <2>1. fetched' \in Seq(DOMAIN depthOf') /\ arrived' \in Seq(DOMAIN depthOf')
    BY <1>1, <1>5, <1>14, SeqOfMore DEF FrontierTyped
  <2>2. fetching' \in [DOMAIN fetching' -> DOMAIN depthOf']
    BY <1>1, <1>14 DEF FrontierTyped
  <2> QED
    BY <1>1, <1>7, <1>14, <2>1, <2>2 DEF FrontierTyped
<1>18. KnownUrls'
  <2>1. \A u \in DOMAIN depthOf' : u \in DOMAIN depthOf \/ u \in New
    OBVIOUS
  <2>2. \A u, v \in DOMAIN depthOf' : PathOf[u] = PathOf[v] => u = v \/ {u, v} \subseteq SeedUrls
    BY <1>16, <2>1 DEF KnownUrls
  <2> QED
    BY <1>1, <1>14, <1>16, <2>1, <2>2 DEF KnownUrls
<1>19. \A i \in 1 .. n : queue[i] \in DOMAIN depthOf
  BY <1>12, ElementOfSeq DEF FrontierTyped
<1>20. OnceOnTheWay'
  <2>1. OnlySeedsTwice(queue)'
    <3> SUFFICES ASSUME NEW i \in 1 .. q, NEW j \in 1 .. q, queue'[i] = queue'[j], i # j
                 PROVE  queue'[i] \in SeedUrls
      BY <1>1, <1>15 DEF OnlySeedsTwice
    <3>1. i \in 1 .. n /\ j \in 1 .. n
      BY <1>16
    <3> QED
      BY <1>12, <1>16, <3>1 DEF OnceOnTheWay, OnlySeedsTwice
  <2>2. \A i \in DOMAIN fetching : fetching[i] \in DOMAIN depthOf
    BY DEF FrontierTyped
  <2>3. \A i \in DOMAIN fetched : fetched[i] \in DOMAIN depthOf
    BY LenProperties, ElementOfSeq DEF FrontierTyped
  <2>4. OnlySeedsInBoth(queue, fetching)'
    BY <1>1, <1>12, <1>15, <1>16, <2>2 DEF OnceOnTheWay, OnlySeedsInBoth
  <2>5. OnlySeedsInBoth(queue, fetched)'
    BY <1>1, <1>12, <1>15, <1>16, <2>3 DEF OnceOnTheWay, OnlySeedsInBoth
  <2>6. /\ OnlySeedsTwice(fetching)' /\ OnlySeedsTwice(fetched)'
        /\ OnlySeedsInBoth(fetching, fetched)'
    BY <1>1 DEF OnceOnTheWay, OnlySeedsTwice, OnlySeedsInBoth
  <2> QED
    BY <2>1, <2>4, <2>5, <2>6 DEF OnceOnTheWay
<1>21. PagesInBounds'
  BY <1>1 DEF PagesInBounds
<1>22. \A u \in ToSet(fetched) : u \in DOMAIN depthOf
  BY LenProperties, ElementOfSeq DEF FrontierTyped, ToSet
<1>23. \A u \in ToSet(fetched') \ ToSet(arrived') : u = p \/ u \in ToSet(fetched) \ ToSet(arrived)
  BY <1>1, <1>7
<1>24. YieldedAreFollowed'
  <2> SUFFICES ASSUME NEW u \in ToSet(fetched') \ ToSet(arrived'), depthOf'[u] < Depth
               PROVE  PathsOf(ToSet(Links[u]) \cap allowed) \subseteq PathsOf(DOMAIN depthOf')
    BY <1>1 DEF YieldedAreFollowed, LinksQueued
  <2>1. CASE u = p
    BY <1>6, <1>9, <1>10, <1>11, <1>14, <2>1
  <2>2. CASE u \in ToSet(fetched) \ ToSet(arrived)
    <3>1. depthOf[u] < Depth
      BY <1>14, <1>22, <2>2
    <3>2. PathsOf(ToSet(Links[u]) \cap allowed) \subseteq PathsOf(DOMAIN depthOf)
      BY <2>2, <3>1 DEF YieldedAreFollowed, LinksQueued
    <3>3. PathsOf(DOMAIN depthOf) \subseteq PathsOf(DOMAIN depthOf')
      BY <1>14 DEF PathsOf
    <3> QED
      BY <3>2, <3>3
  <2> QED
    BY <1>23, <2>1, <2>2
<1>25. \A u \in DOMAIN depthOf : depthOf[u] \in Nat
  BY DEF FrontierTyped
<1>26. concurrency = 1 => \A v \in DOMAIN depthOf' : depthOf'[v] <= d + 1
  <2> SUFFICES ASSUME concurrency = 1, NEW v \in DOMAIN depthOf' PROVE depthOf'[v] <= d + 1
    OBVIOUS
  <2>1. CASE v \in DOMAIN depthOf
    BY <1>6, <1>13, <1>14, <2>1 DEF InLevels
  <2>2. CASE v \in New
    BY <1>16, <2>2
  <2> QED
    BY <2>1, <2>2
<1>27. ASSUME concurrency = 1 PROVE InLevels'
  <2>1. DOMAIN fetching = {} /\ Len(arrived) = 1
    BY <1>1, <1>27 DEF InLevels
  <2>2. m - 1 = 0 /\ arrived' = <<>>
    BY <1>2, <1>5, <2>1, EmptySeq
  <2>3. ToSet(arrived') = {}
    BY <1>5, <2>2 DEF ToSet
  <2>4. \A i \in 1 .. n : d <= depthOf[queue[i]]
    BY <1>6, <1>12, <1>13, <1>27 DEF InLevels
  <2>5. \A i \in 1 .. n : depthOf'[queue'[i]] = depthOf[queue[i]]
    BY <1>14, <1>16, <1>19
  <2>6. \A i \in 1 .. q : i \notin 1 .. n => depthOf'[queue'[i]] = d + 1
    BY <1>16
  <2>7. \A i \in 1 .. q : queue'[i] \in DOMAIN depthOf' /\ depthOf'[queue'[i]] \in Nat
    BY <1>14, <1>15, ElementOfSeq
  <2>8. \A i, j \in 1 .. q : i <= j => depthOf'[queue'[i]] <= depthOf'[queue'[j]]
    <3> SUFFICES ASSUME NEW i \in 1 .. q, NEW j \in 1 .. q, i <= j
                 PROVE  depthOf'[queue'[i]] <= depthOf'[queue'[j]]
      OBVIOUS
    <3>1. CASE j \in 1 .. n
      <4>1. i \in 1 .. n
        BY <3>1
      <4>2. depthOf[queue[i]] <= depthOf[queue[j]]
        BY <1>12, <1>27, <3>1, <4>1 DEF InLevels
      <4> QED
        BY <2>5, <3>1, <4>1, <4>2
    <3>2. CASE j \notin 1 .. n
      BY <1>26, <1>27, <2>6, <2>7, <3>2
    <3> QED
      BY <3>1, <3>2
  <2>9. ASSUME queue' # <<>>, NEW v \in DOMAIN depthOf' PROVE depthOf'[v] <= depthOf'[queue'[1]] + 1
    <3>1. 1 \in 1 .. q
      BY <1>14, <1>15, <2>9, EmptySeq
    <3>2. depthOf'[v] <= d + 1 /\ depthOf'[v] \in Nat
      BY <1>14, <1>26, <1>27
    <3>3. d <= depthOf'[queue'[1]] /\ depthOf'[queue'[1]] \in Nat
      BY <2>4, <2>5, <2>6, <2>7, <3>1
    <3> QED
      BY <3>2, <3>3
  <2>10. DOMAIN fetching' = {}
    BY <1>1, <2>1
  <2> QED
    BY <1>15, <2>2, <2>3, <2>8, <2>9, <2>10 DEF InLevels
<1>28. OneAtATimeIsBreadthFirst'
  <2> SUFFICES ASSUME concurrency = 1, NEW u \in ToSet(fetched) \ ToSet(arrived'), NEW v \in DOMAIN depthOf',
                      PathOf[v] \in PathsOf(ToSet(Links[u]) \cap allowed)
               PROVE  depthOf'[v] <= depthOf'[u] + 1
    BY <1>1 DEF OneAtATimeIsBreadthFirst
  <2>1. u \in DOMAIN depthOf /\ depthOf'[u] = depthOf[u] /\ depthOf[u] \in 0 .. Depth
    BY <1>14, <1>22 DEF FrontierTyped
  <2>2. CASE u = p
    BY <1>13, <1>26, <2>1, <2>2
  <2>3. CASE u \in ToSet(fetched) \ ToSet(arrived)
    <3>1. CASE v \in DOMAIN depthOf
      BY <1>14, <2>1, <2>3, <3>1 DEF OneAtATimeIsBreadthFirst
    <3>2. CASE v \in New
      <4>1. CASE depthOf[u] < Depth
        <5>1. PathOf[v] \in PathsOf(DOMAIN depthOf)
          BY <2>3, <4>1 DEF YieldedAreFollowed, LinksQueued
        <5>2. PICK w \in DOMAIN depthOf : PathOf[w] = PathOf[v]
          BY <5>1 DEF PathsOf
        <5>3. w = v
          BY <1>14, <1>16, <3>2, <5>2
        <5> QED
          BY <3>2, <5>3
      <4>2. CASE ~(depthOf[u] < Depth)
        BY <1>13, <1>16, <2>1, <3>2, <4>2, CrawlAssumption
      <4> QED
        BY <4>1, <4>2
    <3> QED
      BY <3>1, <3>2
  <2> QED
    BY <1>1, <1>23, <2>2, <2>3
<1> QED
  BY <1>1, <1>17, <1>18, <1>20, <1>21, <1>24, <1>27, <1>28

(* cancel(), the end of the crawl and of its task touch the flags alone. *)
LEMMA CrawlRests ==
  ASSUME CrawlIInv, UNCHANGED <<concurrency, allowed, depthOf, queue, fetching, arrived, fetched>>,
         cancelled' \in BOOLEAN, crawl' \in {"running", "ended", "stopped"},
         crawl' = "ended" => arrived = <<>> /\ DOMAIN fetching = {}
  PROVE  CrawlIInv'
<1> USE DEF CrawlIInv
<1>1. FrontierTyped' /\ KnownUrls'
  BY DEF FrontierTyped, KnownUrls
<1>2. OnceOnTheWay' /\ PagesInBounds' /\ YieldedAreFollowed'
  BY DEF OnceOnTheWay, OnlySeedsTwice, OnlySeedsInBoth, PagesInBounds, YieldedAreFollowed, LinksQueued
<1>3. (concurrency = 1 => InLevels)' /\ OneAtATimeIsBreadthFirst'
  BY DEF InLevels, OneAtATimeIsBreadthFirst
<1> QED
  BY <1>1, <1>2, <1>3

LEMMA CrawlNextInvariant == CrawlIInv /\ [CrawlNext]_crawlVars => CrawlIInv'
<1> SUFFICES ASSUME CrawlIInv, [CrawlNext]_crawlVars PROVE CrawlIInv'
  OBVIOUS
<1>1. /\ cancelled \in BOOLEAN /\ crawl \in {"running", "ended", "stopped"}
      /\ crawl = "ended" => arrived = <<>> /\ DOMAIN fetching = {}
  BY DEF CrawlIInv, FrontierTyped
<1>2. CASE \E i \in DOMAIN fetching, page \in BOOLEAN : FetchEnds(i, page)
  BY <1>2, FetchEndsInvariant
<1>3. CASE TakeBatch
  BY <1>3, TakeBatchInvariant
<1>4. CASE YieldPage
  BY <1>4, YieldPageInvariant
<1>5. CASE EndCrawl
  <2>1. /\ UNCHANGED <<concurrency, allowed, depthOf, queue, fetching, arrived, fetched, cancelled>>
        /\ crawl' = "ended" /\ arrived = <<>> /\ DOMAIN fetching = {}
    BY <1>5 DEF EndCrawl, BatchIsOver
  <2> QED
    BY <1>1, <2>1, CrawlRests
<1>6. CASE Cancel
  BY <1>1, <1>6, CrawlRests DEF Cancel
<1>7. CASE StopCrawl
  BY <1>1, <1>7, CrawlRests DEF StopCrawl
<1>8. CASE UNCHANGED crawlVars
  BY <1>1, <1>8, CrawlRests DEF crawlVars
<1> QED
  BY <1>2, <1>3, <1>4, <1>5, <1>6, <1>7, <1>8 DEF CrawlNext

LEMMA CrawlInvariant == CrawlSpec => []CrawlIInv
<1>1. CrawlInit => CrawlIInv
  BY CrawlInitInvariant
<1>2. CrawlIInv /\ [CrawlNext]_crawlVars => CrawlIInv'
  BY CrawlNextInvariant
<1> QED
  BY <1>1, <1>2, PTL DEF CrawlSpec

LEMMA CoversSite == CrawlIInv => CrawlCoversSite
<1> SUFFICES ASSUME CrawlIInv PROVE CrawlCoversSite
  OBVIOUS
<1> USE DEF CrawlIInv
<1>1. PICK n \in Nat : n = Len(fetched) /\ DOMAIN fetched = 1 .. n
  BY LenProperties DEF FrontierTyped
<1>2. \A i \in 1 .. n : fetched[i] \in DOMAIN depthOf
  BY <1>1, ElementOfSeq DEF FrontierTyped
<1>3. concurrency \in Nat \ {0} /\ MaxUrls \in Nat \ {0}
  BY CrawlAssumption DEF FrontierTyped
<1>4. Len(fetched) < MaxUrls + concurrency
  <2>1. IsFiniteSet(DOMAIN fetching)
    <3>1. IsFiniteSet(1 .. concurrency)
      BY <1>3, FS_Interval
    <3> QED
      BY <3>1, FS_Subset DEF FrontierTyped
  <2>2. PICK c \in Nat : c = Cardinality(DOMAIN fetching)
    BY <2>1, FS_CardinalityType
  <2>3. n + c < MaxUrls + concurrency
    BY <1>1, <2>2 DEF PagesInBounds
  <2> QED
    BY <1>1, <1>3, <2>3
<1>5. \A i, j \in DOMAIN fetched :
        i < j /\ PathOf[fetched[i]] = PathOf[fetched[j]] => {fetched[i], fetched[j]} \subseteq SeedUrls
  <2> SUFFICES ASSUME NEW i \in 1 .. n, NEW j \in 1 .. n, i < j, PathOf[fetched[i]] = PathOf[fetched[j]]
               PROVE  {fetched[i], fetched[j]} \subseteq SeedUrls
    BY <1>1
  <2>1. fetched[i] = fetched[j] \/ {fetched[i], fetched[j]} \subseteq SeedUrls
    BY <1>2 DEF KnownUrls
  <2>2. fetched[i] = fetched[j] => fetched[i] \in SeedUrls
    BY <1>1 DEF OnceOnTheWay, OnlySeedsTwice
  <2> QED
    BY <2>1, <2>2
<1>6. \A u \in ToSet(fetched) : u \in DOMAIN depthOf
  BY <1>1, <1>2 DEF ToSet
<1>7. \A u \in ToSet(fetched) : u \in SeedUrls \/ (u \in allowed /\ depthOf[u] <= Depth)
  BY <1>6 DEF KnownUrls, FrontierTyped
<1>8. LinksAreFollowed
  <2> SUFFICES ASSUME crawl = "ended" PROVE LinksAreFollowed
    BY DEF LinksAreFollowed
  <2>1. ToSet(arrived) = {}
    BY DEF FrontierTyped, ToSet
  <2> QED
    BY <2>1 DEF LinksAreFollowed, YieldedAreFollowed, LinksQueued
<1> QED
  BY <1>4, <1>5, <1>7, <1>8 DEF CrawlCoversSite, FetchedAreWithinLimits

(* For any site, any seeds and any limits of depth and of pages, any number *)
(* of fetches at a time, whatever order their answers come in, however many *)
(* fail and wherever the crawl is cancelled: nothing out of bounds is       *)
(* fetched, no link above the depth limit is left behind by a crawl that    *)
(* ended, and one page at a time is a breadth-first search (engine.py run() *)
(* and its tasks).                                                         *)
THEOREM CrawlStaysInBounds == CrawlSpec => []CrawlCoversSite
<1>1. CrawlIInv => CrawlCoversSite
  BY CoversSite
<1> QED
  BY <1>1, CrawlInvariant, PTL

(* The queue and what is fetched are known URLs, and no more tasks are under *)
(* way than the crawl may have (the frontier and the tasks of engine.py).  *)
THEOREM CrawlTypeCorrect == CrawlSpec => []CrawlTypeOK
<1>1. CrawlIInv => CrawlTypeOK
  <2> SUFFICES ASSUME FrontierTyped PROVE CrawlTypeOK
    BY DEF CrawlIInv
  <2>1. concurrency \in Nat
    BY CrawlAssumption DEF FrontierTyped
  <2>2. IsFiniteSet(1 .. concurrency) /\ Cardinality(1 .. concurrency) = concurrency
    BY <2>1, PositionsAreFinite
  <2>3. Cardinality(DOMAIN fetching) <= concurrency
    <3>1. DOMAIN fetching \in SUBSET (1 .. concurrency)
      BY DEF FrontierTyped
    <3>2. Cardinality(DOMAIN fetching) <= Cardinality(1 .. concurrency)
      BY <2>2, <3>1, FS_Subset, Zenon
    <3> QED
      BY <2>2, <3>2
  <2>4. \A u \in ToSet(queue) : u \in DOMAIN depthOf
    BY LenProperties, ElementOfSeq DEF FrontierTyped, ToSet
  <2>5. \A u \in ToSet(fetched) : u \in DOMAIN depthOf
    BY LenProperties, ElementOfSeq DEF FrontierTyped, ToSet
  <2>6. \A i \in DOMAIN fetching : fetching[i] \in DOMAIN depthOf
    BY DEF FrontierTyped
  <2> QED
    BY <2>3, <2>4, <2>5, <2>6 DEF CrawlTypeOK, FrontierTyped
<1> QED
  BY <1>1, CrawlInvariant, PTL
-----------------------------------------------------------------------------
(* Reports (Reports). *)

(* The group g is what dedup_findings() makes of those of the first k findings *)
(* that are at its place.                                                    *)
OfSpot(findings, k, spot) == {j \in 1 .. k : findings[j].spot = spot}

GroupIsTrue(g, findings, k) ==
  LET members == OfSpot(findings, k, g.spot)
  IN /\ g.occurrences = Cardinality(members)
     /\ \A m \in members : g.rank <= findings[m].rank
     /\ \E m \in members : g.rank = findings[m].rank
     /\ g.confirmed = (\E m \in members : findings[m].confirmed)
     /\ \E m \in members : g.refs = findings[m].refs

GroupsTell(groups, findings, k) ==
  /\ groups \in Seq(Group)
  /\ \A i, j \in DOMAIN groups : groups[i].spot = groups[j].spot => i = j
  /\ \A j \in 1 .. k : \E i \in DOMAIN groups : groups[i].spot = findings[j].spot
  /\ \A i \in DOMAIN groups :
       GroupIsTrue(groups[i], findings, k) /\ groups[i].facts \subseteq InTextOf(groups[i].refs)

NarratesGroup(n) == draft.written[n] \subseteq InTextOf(draft.groups[n].refs)

Analyzed ==
  draft.phase \in {"analyzing", "writing", "rendering", "rendered", "completed"} =>
    /\ draft.session = draft.from \/ loads > 0
    /\ Len(draft.groups) > 0 /\ GroupsTell(draft.groups, draft.findings, Len(draft.findings))

Narrated ==
  /\ draft.phase \in {"none", "counted", "created"} => draft.written = <<>>
  /\ draft.phase = "analyzing" => Len(draft.written) < Len(draft.groups)
  /\ draft.phase = "writing" =>
       Len(draft.written) <= Writable /\ \A n \in DOMAIN draft.written : NarratesGroup(n)
  /\ draft.phase \in {"rendering", "rendered", "completed"} =>
       Len(draft.written) = Len(draft.groups) /\ \A n \in DOMAIN draft.written : NarratesGroup(n)

ReportIInv ==
  /\ ReportsTypeOK /\ Analyzed /\ Narrated
  /\ draft.phase = "created" => draft.session = activeName \/ loads > 0
  /\ draft.phase \in {"rendered", "completed"} =>
       /\ draft.sections = Sections(draft.groups, draft.written)
       /\ draft.percent = 100 /\ draft.files = draft.formats

(* The groups after each finding of s. *)
GroupedAt(f, s, k) == f[k + 1] = Grouped(f[k], s[k + 1])

LEMMA DedupGoesThrough ==
  ASSUME NEW n \in Nat, NEW s, DOMAIN s = 1 .. n
  PROVE  \E f : /\ f[0] = <<>> /\ \A k \in 0 .. n - 1 : GroupedAt(f, s, k)
                /\ Dedup(s) = f[n]
<1> DEFINE Is(g, k) == g = [P \in SUBSET (1 .. k) |->
                              IF P = {} THEN <<>>
                              ELSE Grouped(g[P \ {Max(P)}], s[Max(P)])]
           T == {k \in Nat : \E g : Is(g, k)}
<1>1. 0 \in T
  <2> DEFINE g == [P \in SUBSET (1 .. 0) |-> <<>>]
  <2>1. \A P \in SUBSET (1 .. 0) : P = {}
    OBVIOUS
  <2>2. Is(g, 0)
    BY <2>1
  <2> HIDE DEF Is, g
  <2> QED
    BY <2>2
<1>2. ASSUME NEW k \in Nat, k \in T PROVE k + 1 \in T
  <2>1. PICK g : Is(g, k)
    BY <1>2
  <2> DEFINE l == k + 1
             h == [P \in SUBSET (1 .. l) |-> IF l \in P THEN Grouped(g[P \ {l}], s[l]) ELSE g[P]]
  <2>2. ASSUME NEW P \in SUBSET (1 .. l)
        PROVE  h[P] = IF P = {} THEN <<>> ELSE Grouped(h[P \ {Max(P)}], s[Max(P)])
    <3>1. CASE l \in P
      <4>1. Max(P) = l
        BY <1>2, <3>1, GreatestOf
      <4>2. P \ {l} \in SUBSET (1 .. l) /\ l \notin P \ {l}
        OBVIOUS
      <4>3. h[P \ {l}] = g[P \ {l}]
        BY <4>2
      <4> QED
        BY <3>1, <4>1, <4>3
    <3>2. CASE l \notin P
      <4>1. P \in SUBSET (1 .. k)
        BY <1>2, <3>2
      <4>2. h[P] = g[P]
        BY <3>2
      <4>3. P \ {Max(P)} \in SUBSET (1 .. l) /\ l \notin P \ {Max(P)}
        BY <3>2
      <4>4. h[P \ {Max(P)}] = g[P \ {Max(P)}]
        BY <4>3
      <4>5. g[P] = IF P = {} THEN <<>> ELSE Grouped(g[P \ {Max(P)}], s[Max(P)])
        BY <2>1, <4>1
      <4> QED
        BY <4>2, <4>4, <4>5
    <3> QED
      BY <3>1, <3>2
  <2>3. h = [P \in SUBSET (1 .. l) |->
               IF P = {} THEN <<>> ELSE Grouped(h[P \ {Max(P)}], s[Max(P)])]
    <3>1. h = [P \in SUBSET (1 .. l) |-> h[P]]
      OBVIOUS
    <3> HIDE DEF h
    <3> QED
      BY <2>2, <3>1
  <2> HIDE DEF h
  <2>4. Is(h, l)
    BY <2>3
  <2> HIDE DEF Is
  <2> QED
    BY <1>2, <2>4
<1>3. n \in T
  <2> HIDE DEF T
  <2> QED
    BY <1>1, <1>2, EveryNumber
<1> DEFINE iter == CHOOSE g : Is(g, n)
<1>4. Is(iter, n)
  <2> HIDE DEF Is
  <2> QED
    BY <1>3
<1>5. Dedup(s) = iter[1 .. n]
  BY DEF Dedup, FoldLeft, MapThenFoldSet
<1> HIDE DEF iter
<1> DEFINE f == [k \in 0 .. n |-> iter[1 .. k]]
<1>6. f[0] = <<>>
  BY <1>4
<1>7. ASSUME NEW k \in 0 .. n - 1 PROVE GroupedAt(f, s, k)
  <2> DEFINE P == 1 .. k + 1
  <2>1. P \in SUBSET (1 .. n) /\ P # {} /\ P \ {k + 1} = 1 .. k
    OBVIOUS
  <2>3. Max(P) = k + 1
    <3>1. P \in SUBSET Int /\ k + 1 \in P /\ \A j \in P : k + 1 >= j
      OBVIOUS
    <3> HIDE DEF P
    <3> QED
      BY <3>1, GreatestOf
  <2>2. iter[P] = Grouped(iter[P \ {Max(P)}], s[Max(P)])
    BY <1>4, <2>1
  <2> HIDE DEF P
  <2>4. f[k] = iter[1 .. k] /\ f[k + 1] = iter[1 .. k + 1]
    OBVIOUS
  <2> QED
    BY <2>1, <2>2, <2>3, <2>4 DEF P, GroupedAt
<1>8. f[n] = iter[1 .. n]
  OBVIOUS
<1> QED
  BY <1>5, <1>6, <1>7, <1>8

LEMMA LeastOf ==
  ASSUME NEW P \in SUBSET Int, NEW l \in P, \A k \in P : l <= k
  PROVE  Min(P) = l
<1>1. \A x \in P : (\A y \in P : x <= y) => x = l
  OBVIOUS
<1> QED
  BY <1>1 DEF Min

(* What one more finding does to the members of a place. *)
LEMMA MembersGrow ==
  ASSUME NEW findings, NEW k \in Nat, NEW l, l = k + 1, NEW spot
  PROVE  /\ findings[l].spot = spot => OfSpot(findings, l, spot) = OfSpot(findings, k, spot) \cup {l}
         /\ findings[l].spot # spot => OfSpot(findings, l, spot) = OfSpot(findings, k, spot)
<1>1. 1 .. l = 1 .. k \cup {l}
  OBVIOUS
<1> QED
  BY <1>1 DEF OfSpot

LEMMA MembersAreFinite ==
  ASSUME NEW findings, NEW k \in Nat, NEW spot
  PROVE  /\ IsFiniteSet(OfSpot(findings, k, spot)) /\ k + 1 \notin OfSpot(findings, k, spot)
         /\ Cardinality(OfSpot(findings, k, spot)) \in Nat
<1>1. IsFiniteSet(1 .. k) /\ OfSpot(findings, k, spot) \subseteq 1 .. k
  BY PositionsAreFinite DEF OfSpot
<1>2. k + 1 \notin 1 .. k
  OBVIOUS
<1> QED
  BY <1>1, <1>2, FS_Subset, FS_CardinalityType

LEMMA MergedIsTrue ==
  ASSUME NEW findings, NEW k \in Nat, NEW l, l = k + 1, NEW g \in Group, GroupIsTrue(g, findings, k),
         findings[l] \in Finding, findings[l].spot = g.spot,
         \A m \in OfSpot(findings, k, g.spot) : findings[m] \in Finding
  PROVE  LET h == Merged(g, findings[l])
         IN /\ h \in Group /\ h.spot = g.spot /\ h.refs = g.refs /\ h.facts = g.facts
            /\ GroupIsTrue(h, findings, l)
<1>1. PICK f \in Finding : f = findings[l]
  OBVIOUS
<1>2. PICK h : h = Merged(g, f)
  OBVIOUS
<1>3. /\ g.spot \in Spots /\ g.rank \in 0 .. 5 /\ g.confirmed \in BOOLEAN /\ g.refs \in SUBSET Refs
      /\ g.occurrences \in Nat /\ g.flagged \in BOOLEAN /\ g.facts \in SUBSET Refs
      /\ f.rank \in 0 .. 5 /\ f.confirmed \in BOOLEAN
  BY DEF Group, Finding, Ranks, UnknownRank
<1>4. h = [spot |-> g.spot, rank |-> IF f.rank < g.rank THEN f.rank ELSE g.rank,
           confirmed |-> g.confirmed \/ f.confirmed, refs |-> g.refs,
           occurrences |-> g.occurrences + 1, flagged |-> g.flagged, facts |-> g.facts]
  BY <1>2 DEF Merged, Group
<1>5. h \in Group
  BY <1>3, <1>4 DEF Group, Ranks, UnknownRank
<1>6. PICK A : A = OfSpot(findings, k, g.spot)
  OBVIOUS
<1>7. PICK B : B = OfSpot(findings, l, h.spot)
  OBVIOUS
<1>8. B = A \cup {l} /\ l \notin A /\ IsFiniteSet(A) /\ Cardinality(A) \in Nat
  <2>1. B = OfSpot(findings, k, g.spot) \cup {l}
    BY <1>4, <1>7, MembersGrow
  <2>2. IsFiniteSet(A) /\ l \notin A /\ Cardinality(A) \in Nat
    BY <1>6, MembersAreFinite
  <2> QED
    BY <1>6, <2>1, <2>2
<1>9. Cardinality(B) = Cardinality(A) + 1
  BY <1>8, FS_AddElement
<1>10. h.occurrences = Cardinality(B)
  BY <1>4, <1>6, <1>9 DEF GroupIsTrue
<1>11. \A m \in A : findings[m].rank \in 0 .. 5 /\ g.rank <= findings[m].rank
  BY <1>6 DEF GroupIsTrue, Finding, Ranks, UnknownRank
<1>12. \A m \in B : h.rank <= findings[m].rank
  BY <1>1, <1>3, <1>4, <1>8, <1>11
<1>13. \E m \in B : h.rank = findings[m].rank
  <2>1. PICK m \in A : g.rank = findings[m].rank
    BY <1>6 DEF GroupIsTrue
  <2> QED
    BY <1>1, <1>4, <1>8, <2>1
<1>14. h.confirmed = (\E m \in B : findings[m].confirmed)
  <2>1. g.confirmed = (\E m \in A : findings[m].confirmed)
    BY <1>6 DEF GroupIsTrue
  <2>2. (\E m \in B : findings[m].confirmed) = ((\E m \in A : findings[m].confirmed) \/ f.confirmed)
    BY <1>1, <1>8
  <2>3. h.confirmed = (g.confirmed \/ f.confirmed)
    BY <1>4
  <2> QED
    BY <2>1, <2>2, <2>3
<1>15. \E m \in B : h.refs = findings[m].refs
  BY <1>4, <1>6, <1>8 DEF GroupIsTrue
<1>16. GroupIsTrue(h, findings, l)
  BY <1>7, <1>10, <1>12, <1>13, <1>14, <1>15 DEF GroupIsTrue
<1> QED
  BY <1>1, <1>2, <1>4, <1>5, <1>16

LEMMA NewIsTrue ==
  ASSUME NEW findings, NEW k \in Nat, NEW l, l = k + 1, findings[l] \in Finding,
         \A j \in 1 .. k : findings[j].spot # findings[l].spot
  PROVE  LET h == NewGroup(findings[l])
         IN /\ h \in Group /\ h.spot = findings[l].spot /\ h.facts \subseteq InTextOf(h.refs)
            /\ GroupIsTrue(h, findings, l)
<1>1. PICK f \in Finding : f = findings[l]
  OBVIOUS
<1>2. PICK h : h = NewGroup(f)
  OBVIOUS
<1>3. /\ f.spot \in Spots /\ f.rank \in 0 .. 5 /\ f.confirmed \in BOOLEAN /\ f.refs \in SUBSET Refs
  BY DEF Finding, Ranks, UnknownRank
<1>4. /\ h.spot = f.spot /\ h.rank = f.rank /\ h.confirmed = f.confirmed /\ h.refs = f.refs
      /\ h.occurrences = 1 /\ h.facts = {} /\ h \in Group
  BY <1>2, <1>3 DEF NewGroup, Group, Ranks, UnknownRank
<1>5. OfSpot(findings, l, h.spot) = {l}
  <2>1. OfSpot(findings, k, h.spot) = {}
    BY <1>1, <1>4 DEF OfSpot
  <2> QED
    BY <1>1, <1>4, <2>1, MembersGrow, SMTT(30)
<1>6. Cardinality({l}) = 1
  BY FS_Singleton
<1>7. GroupIsTrue(h, findings, l)
  <2>1. h.confirmed = (\E m \in {l} : findings[m].confirmed)
    BY <1>1, <1>3, <1>4
  <2>2. \A m \in {l} : h.rank <= findings[m].rank /\ h.rank = findings[m].rank /\ h.refs = findings[m].refs
    BY <1>1, <1>3, <1>4
  <2> QED
    BY <1>4, <1>5, <1>6, <2>1, <2>2 DEF GroupIsTrue
<1> QED
  BY <1>1, <1>2, <1>4, <1>7

LEMMA OtherIsTrue ==
  ASSUME NEW findings, NEW k \in Nat, NEW l, l = k + 1, NEW g,
         GroupIsTrue(g, findings, k), findings[l].spot # g.spot
  PROVE  GroupIsTrue(g, findings, l)
<1>1. OfSpot(findings, l, g.spot) = OfSpot(findings, k, g.spot)
  BY MembersGrow
<1> QED
  BY <1>1 DEF GroupIsTrue

LEMMA GroupedTells ==
  ASSUME NEW findings \in Seq(Finding), NEW k \in Nat, NEW l, l = k + 1, l <= Len(findings),
         NEW groups, GroupsTell(groups, findings, k)
  PROVE  GroupsTell(Grouped(groups, findings[l]), findings, l)
<1>1. PICK n \in Nat : n = Len(groups) /\ DOMAIN groups = 1 .. n
  BY LenProperties DEF GroupsTell
<1>2. \A i \in 1 .. n : groups[i] \in Group
  BY <1>1, ElementOfSeq DEF GroupsTell
<1>3. \A j \in 1 .. l : findings[j] \in Finding
  BY ElementOfSeq, LenProperties
<1>4. PICK f \in Finding : f = findings[l]
  BY <1>3
<1>5. PICK t : t = Grouped(groups, f)
  OBVIOUS
<1>6. \A j \in 1 .. l : j = l \/ j \in 1 .. k
  OBVIOUS
<1>7. \A j \in 1 .. k : \E i \in 1 .. n : groups[i].spot = findings[j].spot
  BY <1>1 DEF GroupsTell
<1>8. \A i, j \in 1 .. n : groups[i].spot = groups[j].spot => i = j
  BY <1>1 DEF GroupsTell
<1>9. \A i \in 1 .. n : GroupIsTrue(groups[i], findings, k) /\ groups[i].facts \subseteq InTextOf(groups[i].refs)
  BY <1>1 DEF GroupsTell
<1>10. \A i \in 1 .. n : groups[i].spot # f.spot => GroupIsTrue(groups[i], findings, l)
  BY <1>4, <1>9, OtherIsTrue
<1>11. CASE GroupOf(groups, f) = {}
  <2>1. PICK g : g = NewGroup(f)
    OBVIOUS
  <2>2. \A i \in 1 .. n : groups[i].spot # f.spot
    BY <1>1, <1>11 DEF GroupOf
  <2>3. \A j \in 1 .. k : findings[j].spot # findings[l].spot
    BY <1>4, <1>7, <2>2
  <2>4. g \in Group /\ g.spot = f.spot /\ g.facts \subseteq InTextOf(g.refs) /\ GroupIsTrue(g, findings, l)
    BY <1>4, <2>1, <2>3, NewIsTrue
  <2>5. t = Append(groups, g)
    BY <1>5, <1>11, <2>1 DEF Grouped
  <2>6. groups \in Seq(Group)
    BY DEF GroupsTell
  <2>7. /\ t \in Seq(Group) /\ Len(t) = n + 1 /\ DOMAIN t = 1 .. n + 1
        /\ t[n + 1] = g /\ \A i \in 1 .. n : t[i] = groups[i]
    BY <1>1, <2>4, <2>5, <2>6, OneMore
  <2>8. \A i \in 1 .. n + 1 : i = n + 1 \/ i \in 1 .. n
    OBVIOUS
  <2>9. \A i, j \in 1 .. n + 1 : t[i].spot = t[j].spot => i = j
    BY <1>8, <2>2, <2>4, <2>7, <2>8
  <2>10. \A j \in 1 .. l : \E i \in 1 .. n + 1 : t[i].spot = findings[j].spot
    <3> SUFFICES ASSUME NEW j \in 1 .. l PROVE \E i \in 1 .. n + 1 : t[i].spot = findings[j].spot
      OBVIOUS
    <3>1. CASE j = l
      BY <1>4, <2>4, <2>7, <3>1
    <3>2. CASE j \in 1 .. k
      <4>1. PICK i \in 1 .. n : groups[i].spot = findings[j].spot
        BY <1>7, <3>2
      <4>2. i \in 1 .. n + 1
        OBVIOUS
      <4> QED
        BY <2>7, <4>1, <4>2
    <3> QED
      BY <1>6, <3>1, <3>2
  <2>11. \A i \in 1 .. n + 1 : GroupIsTrue(t[i], findings, l) /\ t[i].facts \subseteq InTextOf(t[i].refs)
    BY <1>9, <1>10, <2>2, <2>4, <2>7, <2>8
  <2> QED
    BY <1>4, <1>5, <2>7, <2>9, <2>10, <2>11, ZenonT(60) DEF GroupsTell
<1>12. CASE GroupOf(groups, f) # {}
  <2>1. PICK i : i = CHOOSE x \in GroupOf(groups, f) : TRUE
    OBVIOUS
  <2>2. i \in 1 .. n /\ groups[i].spot = f.spot
    <3>1. i \in GroupOf(groups, f)
      BY <1>12, <2>1
    <3> QED
      BY <1>1, <3>1 DEF GroupOf
  <2>3. PICK h : h = Merged(groups[i], f)
    OBVIOUS
  <2>4. t = [groups EXCEPT ![i] = h]
    BY <1>5, <1>12, <2>1, <2>3 DEF Grouped
  <2>5. PICK g \in Group : g = groups[i]
    BY <1>2, <2>2
  <2>6. /\ h \in Group /\ h.spot = g.spot /\ h.refs = g.refs /\ h.facts = g.facts
        /\ GroupIsTrue(h, findings, l)
    <3>1. GroupIsTrue(g, findings, k) /\ findings[l] \in Finding /\ findings[l].spot = g.spot
      BY <1>4, <1>9, <2>2, <2>5
    <3>2. \A m \in OfSpot(findings, k, g.spot) : findings[m] \in Finding
      BY <1>3 DEF OfSpot
    <3> QED
      BY <1>4, <2>3, <2>5, <3>1, <3>2, MergedIsTrue
  <2>7. /\ t \in Seq(Group) /\ DOMAIN t = 1 .. n
        /\ t[i] = h /\ \A j \in 1 .. n : j # i => t[j] = groups[j]
    <3>1. DOMAIN t = 1 .. n /\ t[i] = h /\ \A j \in 1 .. n : j # i => t[j] = groups[j]
      BY <1>1, <2>2, <2>4
    <3>2. \A j \in 1 .. n : t[j] \in Group
      BY <1>2, <2>6, <3>1
    <3>3. t = [j \in 1 .. n |-> t[j]]
      BY <1>1, <2>4
    <3> QED
      BY <3>1, <3>2, <3>3, SeqDef
  <2>8. \A j \in 1 .. n : t[j].spot = groups[j].spot
    BY <2>5, <2>6, <2>7
  <2>9. \A a, b \in 1 .. n : t[a].spot = t[b].spot => a = b
    BY <1>8, <2>8
  <2>10. \A j \in 1 .. l : \E a \in 1 .. n : t[a].spot = findings[j].spot
    BY <1>4, <1>6, <1>7, <2>2, <2>8
  <2>11. ASSUME NEW j \in 1 .. n PROVE GroupIsTrue(t[j], findings, l) /\ t[j].facts \subseteq InTextOf(t[j].refs)
    <3>1. CASE j = i
      BY <1>9, <2>2, <2>5, <2>6, <2>7, <3>1
    <3>2. CASE j # i
      BY <1>8, <1>9, <1>10, <2>2, <2>7, <3>2
    <3> QED
      BY <3>1, <3>2
  <2> QED
    BY <1>4, <1>5, <2>7, <2>9, <2>10, <2>11, ZenonT(60) DEF GroupsTell
<1> QED
  BY <1>11, <1>12

LEMMA DedupTells ==
  ASSUME NEW findings \in Seq(Finding)
  PROVE  GroupsTell(Dedup(findings), findings, Len(findings))
<1>1. PICK n \in Nat : n = Len(findings) /\ DOMAIN findings = 1 .. n
  BY LenProperties
<1>2. PICK f : /\ f[0] = <<>> /\ \A k \in 0 .. n - 1 : GroupedAt(f, findings, k)
               /\ Dedup(findings) = f[n]
  BY <1>1, DedupGoesThrough
<1> DEFINE T == {k \in Nat : k <= n => GroupsTell(f[k], findings, k)}
<1>3. 0 \in T
  <2>1. <<>> \in Seq(Group) /\ DOMAIN <<>> = {} /\ 1 .. 0 = {}
    BY EmptySeq
  <2> QED
    BY <1>2, <2>1 DEF GroupsTell
<1>4. ASSUME NEW k \in Nat, k \in T PROVE k + 1 \in T
  <2> SUFFICES ASSUME k + 1 <= n PROVE GroupsTell(f[k + 1], findings, k + 1)
    OBVIOUS
  <2>1. PICK l : l = k + 1
    OBVIOUS
  <2>2. GroupsTell(f[k], findings, k) /\ l <= Len(findings)
    BY <1>1, <1>4, <2>1
  <2>3. f[l] = Grouped(f[k], findings[l])
    <3>1. k \in 0 .. n - 1
      OBVIOUS
    <3> QED
      BY <1>2, <2>1, <3>1 DEF GroupedAt
  <2>4. GroupsTell(Grouped(f[k], findings[l]), findings, l)
    BY <2>1, <2>2, GroupedTells
  <2> QED
    BY <2>1, <2>3, <2>4
<1>5. n \in T
  <2> HIDE DEF T
  <2> QED
    BY <1>3, <1>4, EveryNumber
<1> QED
  BY <1>1, <1>2, <1>5

(* o[i] is the group in the i-th place. *)
Sorts(o, groups, n) ==
  /\ o \in [1 .. n -> 1 .. n]
  /\ \A i, j \in 1 .. n : o[i] = o[j] => i = j
  /\ \A m \in 1 .. n : \E i \in 1 .. n : o[i] = m
  /\ \A i, j \in 1 .. n : i < j => groups[o[i]].rank <= groups[o[j]].rank

SortOf(groups) ==
  [i \in DOMAIN groups |-> CHOOSE n \in DOMAIN groups : Cardinality(Ahead(groups, n)) = i - 1]

LEMMA SortSorts ==
  ASSUME NEW groups \in Seq(Group), NEW n \in Nat, n = Len(groups)
  PROVE  Sorts(SortOf(groups), groups, n)
<1>1. DOMAIN groups = 1 .. n
  BY LenProperties
<1>2. PICK r : r = [i \in 1 .. n |-> groups[i].rank]
  OBVIOUS
<1>3. r \in [1 .. n -> Nat]
  <2>1. \A i \in 1 .. n : groups[i].rank \in Nat
    <3>1. \A i \in 1 .. n : groups[i] \in Group
      BY ElementOfSeq
    <3>2. \A g \in Group : g.rank \in 0 .. 5
      BY DEF Group, Ranks, UnknownRank
    <3> QED
      BY <3>1, <3>2
  <2> QED
    BY <1>2, <2>1
<1> DEFINE A(m) == {i \in 1 .. n : r[i] < r[m] \/ (r[i] = r[m] /\ i < m)}
<1>4. \A m \in 1 .. n : Ahead(groups, m) = A(m)
  BY <1>1, <1>2 DEF Ahead
<1>5. ASSUME NEW m \in 1 .. n
      PROVE  /\ IsFiniteSet(A(m)) /\ Cardinality(A(m)) \in 0 .. n - 1 /\ m \notin A(m)
  <2>1. A(m) \subseteq 1 .. n /\ m \in 1 .. n /\ m \notin A(m)
    BY <1>3
  <2> HIDE DEF A
  <2>2. IsFiniteSet(1 .. n) /\ Cardinality(1 .. n) = n
    BY PositionsAreFinite
  <2>3. IsFiniteSet(A(m)) /\ Cardinality(A(m)) <= n /\ Cardinality(A(m)) # n
    BY <2>1, <2>2, FS_Subset
  <2>4. Cardinality(A(m)) \in Nat
    BY <2>3, FS_CardinalityType
  <2> QED
    BY <2>1, <2>3, <2>4
<1>6. ASSUME NEW a \in 1 .. n, NEW b \in 1 .. n, a \in A(b)
      PROVE  Cardinality(A(a)) < Cardinality(A(b))
  <2>1. r[a] \in Nat /\ r[b] \in Nat /\ (r[a] < r[b] \/ (r[a] = r[b] /\ a < b))
    BY <1>3, <1>6
  <2>2. ASSUME NEW i \in A(a) PROVE i \in A(b)
    <3>1. i \in 1 .. n /\ r[i] \in Nat /\ (r[i] < r[a] \/ (r[i] = r[a] /\ i < a))
      BY <1>3, <2>2
    <3>2. r[i] < r[b] \/ (r[i] = r[b] /\ i < b)
      BY <2>1, <3>1
    <3> QED
      BY <3>1, <3>2
  <2> HIDE DEF A
  <2>3. IsFiniteSet(A(b)) /\ Cardinality(A(b)) \in Nat /\ Cardinality(A(a)) \in Nat /\ a \notin A(a)
    BY <1>5
  <2>4. A(a) \in SUBSET A(b) /\ A(a) # A(b)
    BY <1>6, <2>2, <2>3
  <2>5. Cardinality(A(a)) <= Cardinality(A(b)) /\ Cardinality(A(a)) # Cardinality(A(b))
    BY <2>3, <2>4, FS_Subset
  <2> QED
    BY <2>3, <2>5
<1>7. \A a, b \in 1 .. n : a # b => a \in A(b) \/ b \in A(a)
  BY <1>3
<1> HIDE DEF A
<1> DEFINE pos == [m \in 1 .. n |-> Cardinality(A(m)) + 1]
<1>8. pos \in Injection(1 .. n, 1 .. n)
  <2>1. pos \in [1 .. n -> 1 .. n]
    BY <1>5
  <2>2. ASSUME NEW a \in 1 .. n, NEW b \in 1 .. n, pos[a] = pos[b] PROVE a = b
    <3>1. Cardinality(A(a)) \in Nat /\ Cardinality(A(b)) \in Nat
      BY <1>5
    <3>2. Cardinality(A(a)) = Cardinality(A(b))
      BY <2>2, <3>1
    <3> QED
      BY <1>6, <1>7, <3>1, <3>2
  <2> QED
    BY <2>1, <2>2 DEF Injection, IsInjective
<1>9. pos \in Surjection(1 .. n, 1 .. n)
  <2>1. IsFiniteSet(1 .. n)
    BY PositionsAreFinite
  <2> HIDE DEF pos
  <2> QED
    BY <1>8, <2>1, FS_Injection
<1>10. \A i \in 1 .. n : \E m \in 1 .. n : pos[m] = i
  BY <1>9 DEF Surjection
<1>11. PICK o : o = SortOf(groups)
  OBVIOUS
<1>12. ASSUME NEW i \in 1 .. n PROVE o[i] \in 1 .. n /\ Cardinality(A(o[i])) = i - 1
  <2>1. PICK m \in 1 .. n : Cardinality(A(m)) + 1 = i /\ Cardinality(A(m)) \in Nat
    BY <1>5, <1>10
  <2>2. m \in DOMAIN groups /\ Cardinality(Ahead(groups, m)) = i - 1
    BY <1>1, <1>4, <2>1
  <2>3. o[i] = CHOOSE x \in DOMAIN groups : Cardinality(Ahead(groups, x)) = i - 1
    BY <1>1, <1>11 DEF SortOf
  <2>4. o[i] \in DOMAIN groups /\ Cardinality(Ahead(groups, o[i])) = i - 1
    BY <2>2, <2>3
  <2> QED
    BY <1>1, <1>4, <2>4
<1>13. o \in [1 .. n -> 1 .. n]
  <2>1. o = [i \in 1 .. n |-> o[i]]
    BY <1>1, <1>11 DEF SortOf
  <2> QED
    BY <1>12, <2>1
<1>14. ASSUME NEW i \in 1 .. n, NEW j \in 1 .. n, o[i] = o[j] PROVE i = j
  <2>1. i - 1 = j - 1
    BY <1>12, <1>14
  <2> QED
    BY <2>1
<1>15. ASSUME NEW m \in 1 .. n PROVE \E i \in 1 .. n : o[i] = m
  <2>1. PICK i \in 1 .. n : i = Cardinality(A(m)) + 1 /\ Cardinality(A(m)) \in Nat
    BY <1>5
  <2>2. o[i] \in 1 .. n /\ Cardinality(A(o[i])) = Cardinality(A(m))
    BY <1>12, <2>1
  <2>3. o[i] = m
    BY <1>6, <1>7, <2>1, <2>2
  <2> QED
    BY <2>3
<1>16. ASSUME NEW i \in 1 .. n, NEW j \in 1 .. n, i < j PROVE groups[o[i]].rank <= groups[o[j]].rank
  <2>1. o[i] \in 1 .. n /\ o[j] \in 1 .. n /\ Cardinality(A(o[i])) = i - 1 /\ Cardinality(A(o[j])) = j - 1
    BY <1>12
  <2>2. o[j] \notin A(o[i])
    BY <1>6, <1>16, <2>1
  <2>3. ~(r[o[j]] < r[o[i]])
    BY <2>1, <2>2 DEF A
  <2> QED
    BY <1>2, <1>3, <2>1, <2>3
<1> QED
  BY <1>11, <1>13, <1>14, <1>15, <1>16 DEF Sorts

(* As many places as groups have a property. *)
LEMMA AsManyPlaces ==
  ASSUME NEW n \in Nat, NEW groups, NEW o, Sorts(o, groups, n), NEW A \in SUBSET (1 .. n)
  PROVE  Cardinality({i \in 1 .. n : o[i] \in A}) = Cardinality(A)
<1> DEFINE B == {i \in 1 .. n : o[i] \in A}
           f == [i \in B |-> o[i]]
<1>1. f \in [B -> A] /\ \A a, b \in B : f[a] = f[b] => a = b
  BY DEF Sorts
<1>2. \A m \in A : \E i \in B : f[i] = m
  BY DEF Sorts
<1>3. IsFiniteSet(B)
  <2>1. IsFiniteSet(1 .. n) /\ B \subseteq 1 .. n
    BY PositionsAreFinite
  <2> HIDE DEF B
  <2> QED
    BY <2>1, FS_Subset
<1> HIDE DEF f, B
<1>4. f \in Bijection(B, A)
  BY <1>1, <1>2, Fun_IsBij
<1>5. ExistsBijection(B, A)
  BY <1>4 DEF ExistsBijection
<1>6. Cardinality(A) = Cardinality(B)
  BY <1>3, <1>5, FS_Bijection
<1> QED
  BY <1>6 DEF B

LEMMA TellsFindings == ReportIInv => ReportTellsFindings
<1> SUFFICES ASSUME ReportIInv, draft.phase = "completed" PROVE ReportTellsFindings
  BY DEF ReportTellsFindings
<1> USE DEF ReportIInv
<1>1. PICK groups, written, sections, findings :
        /\ groups = draft.groups /\ written = draft.written /\ sections = draft.sections
        /\ findings = draft.findings
  OBVIOUS
<1>2. /\ groups \in Seq(Group) /\ written \in Seq(SUBSET Refs) /\ findings \in Seq(Finding)
  BY <1>1 DEF ReportsTypeOK, DraftState
<1>3. PICK n \in Nat : n = Len(groups) /\ DOMAIN groups = 1 .. n
  BY <1>2, LenProperties
<1>4. PICK l \in Nat : l = Len(findings) /\ DOMAIN findings = 1 .. l
  BY <1>2, LenProperties
<1>5. n > 0 /\ GroupsTell(groups, findings, l) /\ (draft.session = draft.from \/ loads > 0)
  BY <1>1, <1>3, <1>4 DEF Analyzed
<1>6. DOMAIN written = 1 .. n /\ \A m \in 1 .. n : written[m] \subseteq InTextOf(groups[m].refs)
  <2>1. Len(written) = n /\ \A m \in DOMAIN written : written[m] \subseteq InTextOf(groups[m].refs)
    BY <1>1, <1>3 DEF Narrated, NarratesGroup
  <2> QED
    BY <1>2, <2>1, LenProperties, SMTT(30)
<1>7. PICK o : o = SortOf(groups)
  OBVIOUS
<1>8. Sorts(o, groups, n)
  BY <1>2, <1>3, <1>7, SortSorts
<1>9. /\ DOMAIN sections = 1 .. n
      /\ \A i \in 1 .. n : sections[i] = [group |-> groups[o[i]], told |-> written[o[i]]]
  <2>1. sections = [i \in 1 .. n |->
                      LET m == CHOOSE m \in 1 .. n : Cardinality(Ahead(groups, m)) = i - 1
                      IN [group |-> groups[m], told |-> written[m]]]
    BY <1>1, <1>3 DEF Sections
  <2>2. \A i \in 1 .. n : o[i] = CHOOSE m \in 1 .. n : Cardinality(Ahead(groups, m)) = i - 1
    BY <1>3, <1>7 DEF SortOf
  <2> QED
    BY <2>1, <2>2
<1>10. \A i \in 1 .. n : sections[i].group = groups[o[i]] /\ sections[i].told = written[o[i]]
  BY <1>9
<1>11. \A i \in 1 .. n : o[i] \in 1 .. n
  BY <1>8 DEF Sorts
<1>12. Len(sections) = n
  BY <1>9, LenProperties
<1>13. \A m \in 1 .. n : /\ GroupIsTrue(groups[m], findings, l) /\ groups[m].facts \subseteq InTextOf(groups[m].refs)
                         /\ groups[m] \in Group
  BY <1>2, <1>3, <1>5, ElementOfSeq DEF GroupsTell
<1>14. Told = {sections[i].group.spot : i \in 1 .. n}
  BY <1>1, <1>9 DEF Told
<1>15. \A m \in 1 .. n : \E i \in 1 .. n : o[i] = m
  BY <1>8 DEF Sorts
<1>16. Told = {findings[j].spot : j \in 1 .. l}
  <2>1. ASSUME NEW i \in 1 .. n PROVE \E j \in 1 .. l : findings[j].spot = sections[i].group.spot
    <3>1. GroupIsTrue(groups[o[i]], findings, l)
      BY <1>11, <1>13
    <3> QED
      BY <1>10, <3>1 DEF GroupIsTrue, OfSpot
  <2>2. ASSUME NEW j \in 1 .. l PROVE \E i \in 1 .. n : findings[j].spot = sections[i].group.spot
    <3>1. PICK m \in 1 .. n : groups[m].spot = findings[j].spot
      BY <1>3, <1>5 DEF GroupsTell
    <3>2. PICK i \in 1 .. n : o[i] = m
      BY <1>15
    <3> QED
      BY <1>10, <3>1, <3>2
  <2>3. ASSUME NEW t \in Told PROVE t \in {findings[j].spot : j \in 1 .. l}
    <3>1. PICK i \in 1 .. n : t = sections[i].group.spot
      BY <1>14
    <3>2. PICK j \in 1 .. l : findings[j].spot = sections[i].group.spot
      BY <2>1
    <3> QED
      BY <3>1, <3>2
  <2>4. ASSUME NEW j \in 1 .. l PROVE findings[j].spot \in Told
    <3>1. PICK i \in 1 .. n : findings[j].spot = sections[i].group.spot
      BY <2>2
    <3> QED
      BY <1>14, <3>1
  <2> QED
    BY <2>3, <2>4
<1>17. n = Cardinality(Told)
  <2> DEFINE f == [i \in 1 .. n |-> sections[i].group.spot]
  <2>1. f \in [1 .. n -> Told]
    BY <1>14
  <2>2. ASSUME NEW i \in 1 .. n, NEW j \in 1 .. n, f[i] = f[j] PROVE i = j
    <3>1. groups[o[i]].spot = groups[o[j]].spot
      BY <1>10, <2>2
    <3>2. o[i] = o[j]
      BY <1>3, <1>5, <1>11, <3>1 DEF GroupsTell
    <3> QED
      BY <1>8, <3>2 DEF Sorts
  <2>3. \A t \in Told : \E i \in 1 .. n : f[i] = t
    BY <1>14
  <2> HIDE DEF f
  <2>4. f \in Bijection(1 .. n, Told)
    BY <2>1, <2>2, <2>3, Fun_IsBij
  <2>5. ExistsBijection(1 .. n, Told)
    BY <2>4 DEF ExistsBijection
  <2>6. IsFiniteSet(1 .. n) /\ Cardinality(1 .. n) = n
    BY PositionsAreFinite
  <2> QED
    BY <2>5, <2>6, FS_Bijection
<1>18. ASSUME NEW i \in 1 .. n PROVE SectionIsTrue(sections[i])
  <2>1. PICK g \in Group : /\ g = sections[i].group /\ GroupIsTrue(g, findings, l)
                           /\ g.facts \cup sections[i].told \subseteq InTextOf(g.refs)
    BY <1>6, <1>10, <1>11, <1>13
  <2>2. PICK A : A = MembersOf(g.spot)
    OBVIOUS
  <2>3. A = OfSpot(findings, l, g.spot)
    BY <1>1, <1>4, <2>2 DEF MembersOf, OfSpot
  <2>4. \A m \in A : findings[m].rank \in 0 .. 5
    <3>1. \A m \in A : m \in 1 .. Len(findings)
      BY <1>4, <2>3 DEF OfSpot
    <3>2. \A m \in A : findings[m] \in Finding
      BY <1>2, <3>1, ElementOfSeq
    <3> QED
      BY <3>2 DEF Finding, Ranks, UnknownRank
  <2>5. g.rank = Min({findings[m].rank : m \in A})
    <3>1. g.rank \in {findings[m].rank : m \in A} /\ \A r \in {findings[m].rank : m \in A} : g.rank <= r
      BY <2>1, <2>3 DEF GroupIsTrue
    <3>2. {findings[m].rank : m \in A} \in SUBSET Int
      BY <2>4
    <3> QED
      BY <3>1, <3>2, LeastOf
  <2>6. \E m \in A : g.facts \cup sections[i].told \subseteq InTextOf(findings[m].refs)
    BY <2>1, <2>3 DEF GroupIsTrue
  <2>7. g.occurrences = Cardinality(A) /\ g.confirmed = (\E m \in A : findings[m].confirmed)
    BY <2>1, <2>3 DEF GroupIsTrue
  <2> QED
    BY <1>1, <2>1, <2>2, <2>5, <2>6, <2>7 DEF SectionIsTrue
<1>19. \A i, j \in 1 .. n : i < j => sections[i].group.rank <= sections[j].group.rank
  <2> SUFFICES ASSUME NEW i \in 1 .. n, NEW j \in 1 .. n, i < j
               PROVE  sections[i].group.rank <= sections[j].group.rank
    OBVIOUS
  <2>1. groups[o[i]].rank <= groups[o[j]].rank
    BY <1>8 DEF Sorts
  <2> QED
    BY <1>10, <2>1
<1>20. PICK summary : summary = Aggregates(groups)
  OBVIOUS
<1>21. summary.groups = n
  BY <1>3, <1>20 DEF Aggregates
<1>22. summary.worst = sections[1].group.rank
  <2> DEFINE P == {UnknownRank} \cup {groups[m].rank : m \in 1 .. n}
  <2>1. summary.worst = Min(P)
    BY <1>3, <1>20 DEF Aggregates
  <2>2. \A m \in 1 .. n : groups[m].rank \in 0 .. 5
    BY <1>13 DEF Group, Ranks, UnknownRank
  <2>3. 1 \in 1 .. n
    BY <1>5
  <2>4. sections[1].group.rank \in P
    BY <1>10, <1>11, <2>3
  <2>5. \A m \in 1 .. n : sections[1].group.rank <= groups[m].rank
    <3> SUFFICES ASSUME NEW m \in 1 .. n PROVE sections[1].group.rank <= groups[m].rank
      OBVIOUS
    <3>1. PICK i \in 1 .. n : o[i] = m
      BY <1>15
    <3>2. sections[1].group.rank <= sections[i].group.rank
      <4>1. CASE i = 1
        BY <1>10, <1>11, <2>2, <2>3, <4>1
      <4>2. CASE i # 1
        BY <1>19, <2>3, <4>2
      <4> QED
        BY <4>1, <4>2
    <3> QED
      BY <1>10, <3>1, <3>2
  <2>6. sections[1].group.rank \in 0 .. 5
    BY <1>10, <1>11, <2>2, <2>3
  <2>7. P \in SUBSET Int /\ \A r \in P : sections[1].group.rank <= r
    BY <2>2, <2>5, <2>6 DEF UnknownRank
  <2> HIDE DEF P
  <2> QED
    BY <2>1, <2>4, <2>7, LeastOf
<1>23. summary.confirmed = Cardinality({i \in 1 .. n : sections[i].group.confirmed})
  <2> DEFINE A == {m \in 1 .. n : groups[m].confirmed}
  <2>1. summary.confirmed = Cardinality(A)
    BY <1>3, <1>20 DEF Aggregates
  <2>2. {i \in 1 .. n : sections[i].group.confirmed} = {i \in 1 .. n : o[i] \in A}
    BY <1>10, <1>11
  <2>3. A \in SUBSET (1 .. n)
    OBVIOUS
  <2> HIDE DEF A
  <2> QED
    BY <1>8, <2>1, <2>2, <2>3, AsManyPlaces
<1>24. /\ DOMAIN summary.bySeverity = Ranks \ {UnknownRank}
       /\ \A r \in Ranks \ {UnknownRank} :
            summary.bySeverity[r] = Cardinality({i \in 1 .. n : sections[i].group.rank = r})
  <2>1. summary.bySeverity = [r \in Ranks \ {UnknownRank} |-> Cardinality({m \in 1 .. n : groups[m].rank = r})]
    BY <1>3, <1>20 DEF Aggregates
  <2>2. ASSUME NEW r \in Ranks \ {UnknownRank}
        PROVE  summary.bySeverity[r] = Cardinality({i \in 1 .. n : sections[i].group.rank = r})
    <3> DEFINE A == {m \in 1 .. n : groups[m].rank = r}
    <3>1. {i \in 1 .. n : sections[i].group.rank = r} = {i \in 1 .. n : o[i] \in A}
      BY <1>10, <1>11
    <3>2. A \in SUBSET (1 .. n)
      OBVIOUS
    <3>3. summary.bySeverity[r] = Cardinality(A)
      BY <2>1
    <3> HIDE DEF A
    <3>4. Cardinality({i \in 1 .. n : o[i] \in A}) = Cardinality(A)
      BY <1>8, <3>2, AsManyPlaces
    <3> QED
      BY <3>1, <3>3, <3>4
  <2>3. DOMAIN summary.bySeverity = Ranks \ {UnknownRank}
    BY <2>1
  <2> QED
    BY <2>2, <2>3
<1>25. draft.percent = 100 /\ draft.files = draft.formats /\ (draft.session = draft.from \/ loads > 0)
  BY <1>5
<1>26. /\ Told = {draft.findings[i].spot : i \in DOMAIN draft.findings}
       /\ Len(draft.sections) = Cardinality(Told)
  BY <1>1, <1>4, <1>12, <1>16, <1>17
<1>27. \A i \in DOMAIN draft.sections : SectionIsTrue(draft.sections[i])
  BY <1>1, <1>9, <1>18
<1>28. ASSUME NEW i \in DOMAIN draft.sections
       PROVE  i \in UnderHeading <=> \E m \in MembersOf(draft.sections[i].group.spot) :
                                       draft.findings[m].rank # UnknownRank
  <2>1. PICK g \in Group : g = sections[i].group /\ GroupIsTrue(g, findings, l)
    BY <1>1, <1>9, <1>10, <1>11, <1>13
  <2>2. i \in UnderHeading <=> g.rank # UnknownRank
    BY <1>1, <2>1 DEF UnderHeading
  <2>3. PICK A : A = MembersOf(g.spot)
    OBVIOUS
  <2>4. A = OfSpot(findings, l, g.spot)
    BY <1>1, <1>4, <2>3 DEF MembersOf, OfSpot
  <2>5. \A m \in A : findings[m].rank \in 0 .. 5
    <3>1. \A m \in A : m \in 1 .. Len(findings)
      BY <1>4, <2>4 DEF OfSpot
    <3>2. \A m \in A : findings[m] \in Finding
      BY <1>2, <3>1, ElementOfSeq
    <3> QED
      BY <3>2 DEF Finding, Ranks, UnknownRank
  <2>6. /\ g.rank \in 0 .. 5 /\ \A m \in A : g.rank <= findings[m].rank
        /\ \E m \in A : g.rank = findings[m].rank
    BY <2>1, <2>4 DEF GroupIsTrue, Group, Ranks, UnknownRank
  <2>7. g.rank # UnknownRank <=> \E m \in A : findings[m].rank # UnknownRank
    BY <2>5, <2>6 DEF UnknownRank
  <2> QED
    BY <1>1, <2>1, <2>2, <2>3, <2>7
<1> QED
  BY <1>1, <1>9, <1>12, <1>19, <1>20, <1>21, <1>22, <1>23, <1>24, <1>25, <1>26, <1>27, <1>28 DEF ReportTellsFindings

LEMMA LeastOfTwo ==
  ASSUME NEW a \in Nat, NEW b \in Nat
  PROVE  Min({a, b}) \in Nat /\ Min({a, b}) <= a /\ Min({a, b}) <= b
<1>1. CASE a <= b
  <2>1. {a, b} \in SUBSET Int /\ a \in {a, b} /\ \A k \in {a, b} : a <= k
    BY <1>1
  <2>2. Min({a, b}) = a
    BY <2>1, LeastOf
  <2> QED
    BY <1>1, <2>2
<1>2. CASE ~(a <= b)
  <2>1. {a, b} \in SUBSET Int /\ b \in {a, b} /\ \A k \in {a, b} : b <= k
    BY <1>2
  <2>2. Min({a, b}) = b
    BY <2>1, LeastOf
  <2> QED
    BY <1>2, <2>2
<1> QED
  BY <1>1, <1>2

LEMMA ShareOfPercent ==
  ASSUME NEW n \in Nat, NEW l \in Nat \ {0}, n <= l
  PROVE  (35 * n) \div l \in 0 .. 35
<1>1. PICK q : q = (35 * n) \div l
  OBVIOUS
<1>2. q \in Nat /\ (35 * n) % l \in 0 .. l - 1 /\ 35 * n = l * q + ((35 * n) % l)
  BY <1>1, Division
<1>3. q <= 35
  <2> SUFFICES ASSUME q >= 36 PROVE FALSE
    BY <1>2
  <2>1. PICK e \in Nat : q = 36 + e
    BY <1>2
  <2>2. l * q = l * 36 + l * e /\ l * e \in Nat
    BY <2>1
  <2>3. 35 * n <= 35 * l /\ l * 36 > 35 * l
    OBVIOUS
  <2> QED
    BY <1>2, <2>2, <2>3
<1> QED
  BY <1>1, <1>2, <1>3

LEMMA ReportsInitInvariant == ReportsInit => ReportIInv
<1> SUFFICES ASSUME ReportsInit PROVE ReportIInv
  OBVIOUS
<1>1. draft.phase = "none" /\ draft.written = <<>> /\ draft \in DraftState
  <2>1. <<>> \in Seq(Finding) /\ <<>> \in Seq(Group) /\ <<>> \in Seq([group : Group, told : SUBSET Refs])
        /\ <<>> \in Seq(SUBSET Refs) /\ 0 \in 0 .. 100 /\ {} \in SUBSET ToSet(FormatOrder)
    BY EmptySeq
  <2> QED
    BY <2>1 DEF ReportsInit, NoDraft, DraftState
<1>2. ReportsTypeOK
  <2>1. <<>> \in Seq(Finding)
    BY EmptySeq
  <2> QED
    BY <1>1, <2>1 DEF ReportsTypeOK, ReportsInit
<1> QED
  BY <1>1, <1>2 DEF ReportIInv, Analyzed, Narrated

(* What other tasks do: the draft stays, and a session that is loaded is counted. *)
LEMMA OthersKeepDraft ==
  ASSUME ReportIInv, UNCHANGED draft, ReportsTypeOK',
         (activeName' = activeName /\ loads' = loads) \/ loads' > 0
  PROVE  ReportIInv'
BY DEF ReportIInv, Analyzed, Narrated, NarratesGroup, Writable

LEMMA OthersInvariant ==
  ReportIInv /\ ((\E f \in SomeFindings : SaveKnown(f)) \/ ClearKnown
                 \/ (\E s \in ReportSessions : LoadSession(s)) \/ UNCHANGED reportVars) => ReportIInv'
<1> SUFFICES ASSUME ReportIInv,
                    (\E f \in SomeFindings : SaveKnown(f)) \/ ClearKnown
                      \/ (\E s \in ReportSessions : LoadSession(s)) \/ UNCHANGED reportVars
             PROVE  ReportIInv'
  OBVIOUS
<1>1. ReportsTypeOK
  BY DEF ReportIInv
<1>2. ASSUME NEW f \in SomeFindings, SaveKnown(f) PROVE ReportIInv'
  <2>1. f \in Finding /\ known[activeName] \in Seq(Finding)
    BY <1>1, ReportsAssumption DEF ReportsTypeOK
  <2>2. <<f>> \o known[activeName] \in Seq(Finding)
    <3>1. <<f>> \in Seq(Finding)
      BY <2>1
    <3> QED
      BY <2>1, <3>1, ConcatProperties
  <2>3. known' \in [ReportSessions -> Seq(Finding)]
    <3>1. known' = [known EXCEPT ![activeName] = <<f>> \o known[activeName]]
      BY <1>2 DEF SaveKnown
    <3> QED
      BY <1>1, <2>2, <3>1 DEF ReportsTypeOK
  <2>4. ReportsTypeOK'
    BY <1>1, <1>2, <2>3 DEF ReportsTypeOK, SaveKnown
  <2> QED
    BY <1>2, <2>4, OthersKeepDraft DEF SaveKnown
<1>3. CASE ClearKnown
  <2>1. ReportsTypeOK'
    BY <1>1, <1>3, EmptySeq DEF ReportsTypeOK, ClearKnown
  <2> QED
    BY <1>3, <2>1, OthersKeepDraft DEF ClearKnown
<1>4. ASSUME NEW s \in ReportSessions, LoadSession(s) PROVE ReportIInv'
  <2>1. ReportsTypeOK' /\ loads' > 0
    BY <1>1, <1>4 DEF ReportsTypeOK, LoadSession
  <2> QED
    BY <1>4, <2>1, OthersKeepDraft DEF LoadSession
<1>5. CASE UNCHANGED reportVars
  <2>1. ReportsTypeOK'
    BY <1>1, <1>5 DEF ReportsTypeOK, reportVars
  <2> QED
    BY <1>5, <2>1, OthersKeepDraft DEF reportVars
<1> QED
  BY <1>2, <1>3, <1>4, <1>5

LEMMA BeginEndInvariant ==
  ReportIInv /\ ((\E formats \in AskedFormats : GenerateReport(formats)) \/ CreateReport
                 \/ FinishReport \/ \E how \in {"failed", "cancelled"} : GiveUp(how)) => ReportIInv'
<1> SUFFICES ASSUME ReportIInv,
                    (\E formats \in AskedFormats : GenerateReport(formats)) \/ CreateReport
                      \/ FinishReport \/ \E how \in {"failed", "cancelled"} : GiveUp(how)
             PROVE  ReportIInv'
  OBVIOUS
<1>1. ReportsTypeOK /\ draft \in DraftState
  BY DEF ReportIInv, ReportsTypeOK
<1>2. ASSUME NEW formats \in AskedFormats, GenerateReport(formats) PROVE ReportIInv'
  <2>1. formats \in SUBSET ToSet(FormatOrder)
    BY ReportsAssumption
  <2>2. /\ draft' \in DraftState /\ draft'.phase = "counted" /\ draft'.written = draft.written
        /\ draft.phase = "none" /\ UNCHANGED <<activeName, known, saved, loads>>
    BY <1>1, <1>2, <2>1 DEF GenerateReport, DraftState
  <2> QED
    BY <1>1, <2>2 DEF ReportIInv, ReportsTypeOK, Analyzed, Narrated
<1>3. CASE CreateReport
  <2>1. /\ draft' \in DraftState /\ draft'.phase = "created" /\ draft'.session = activeName
        /\ draft.phase = "counted" /\ draft'.written = draft.written /\ UNCHANGED <<activeName, known, saved, loads>>
    BY <1>1, <1>3 DEF CreateReport, DraftState, ReportsTypeOK
  <2> QED
    BY <1>1, <2>1 DEF ReportIInv, ReportsTypeOK, Analyzed, Narrated
<1>4. ASSUME NEW how \in {"failed", "cancelled"}, GiveUp(how) PROVE ReportIInv'
  <2>1. draft' \in DraftState /\ draft'.phase = how /\ UNCHANGED <<activeName, known, saved, loads>>
    BY <1>1, <1>4 DEF GiveUp, Goes, DraftState
  <2> QED
    BY <1>1, <2>1 DEF ReportIInv, ReportsTypeOK, Analyzed, Narrated
<1>5. CASE FinishReport
  <2>1. 100 \in 0 .. 100
    OBVIOUS
  <2>2. PICK all \in 0 .. 100 : all = 100
    BY <2>1
  <2>3. /\ draft' = [draft EXCEPT !.phase = "completed", !.percent = all]
        /\ draft.phase = "rendered" /\ UNCHANGED <<activeName, known, saved, loads>>
    BY <1>5, <2>2 DEF FinishReport, Goes
  <2>4. /\ draft' \in DraftState /\ draft'.phase = "completed" /\ draft'.percent = 100
        /\ draft'.groups = draft.groups /\ draft'.written = draft.written
        /\ draft'.findings = draft.findings /\ draft'.session = draft.session /\ draft'.from = draft.from
        /\ draft'.sections = draft.sections /\ draft'.files = draft.files /\ draft'.formats = draft.formats
    BY <1>1, <2>2, <2>3 DEF DraftState
  <2>5. ReportsTypeOK'
    BY <1>1, <2>3, <2>4 DEF ReportsTypeOK
  <2>6. Analyzed'
    BY <2>3, <2>4 DEF ReportIInv, Analyzed
  <2>7. Narrated'
    BY <2>3, <2>4 DEF ReportIInv, Narrated, NarratesGroup
  <2> QED
    BY <2>3, <2>4, <2>5, <2>6, <2>7 DEF ReportIInv
<1> QED
  BY <1>2, <1>3, <1>4, <1>5

LEMMA ReadFindingsInvariant == ReportIInv /\ ReadFindings => ReportIInv'
<1> SUFFICES ASSUME ReportIInv, ReadFindings PROVE ReportIInv'
  OBVIOUS
<1>1. /\ ReportsTypeOK /\ draft \in DraftState
      /\ draft.session = activeName \/ loads > 0
      /\ draft.written = <<>>
  BY DEF ReportIInv, Narrated, ReportsTypeOK, ReadFindings
<1>2. PICK s \in Seq(Finding) : s = known[activeName]
  BY <1>1 DEF ReportsTypeOK
<1>3. PICK g : g = Dedup(s)
  OBVIOUS
<1>4. GroupsTell(g, s, Len(s)) /\ g \in Seq(Group)
  BY <1>2, <1>3, DedupTells DEF GroupsTell
<1>5. PICK goes, percent : /\ goes = IF s = <<>> THEN "failed" ELSE "analyzing"
                           /\ percent = IF s = <<>> THEN draft.percent ELSE 5
  OBVIOUS
<1>6. percent \in 0 .. 100
  <2>1. draft.percent \in 0 .. 100
    BY <1>1 DEF DraftState
  <2>2. 5 \in 0 .. 100
    OBVIOUS
  <2>3. PICK old, five \in 0 .. 100 : old = draft.percent /\ five = 5
    BY <2>1, <2>2
  <2>4. percent = old \/ percent = five
    BY <1>5, <2>3
  <2> QED
    BY <2>4
<1>7. /\ draft' = [draft EXCEPT !.phase = goes, !.from = activeName, !.findings = s, !.groups = g,
                                !.percent = percent]
      /\ UNCHANGED <<activeName, known, saved, loads>>
  BY <1>2, <1>3, <1>5 DEF ReadFindings
<1>8. goes \in {"failed", "analyzing"}
  BY <1>5
<1>9. /\ draft' \in DraftState /\ draft'.phase = goes /\ draft'.from = activeName /\ draft'.groups = g
      /\ draft'.findings = s /\ draft'.session = draft.session /\ draft'.written = draft.written
  BY <1>1, <1>4, <1>6, <1>7, <1>8 DEF DraftState, ReportsTypeOK
<1>10. ReportsTypeOK'
  BY <1>1, <1>7, <1>9 DEF ReportsTypeOK
<1>11. CASE s = <<>>
  BY <1>5, <1>9, <1>10, <1>11 DEF ReportIInv, Analyzed, Narrated
<1>12. CASE s # <<>>
  <2>1. PICK n \in Nat : n = Len(s)
    BY <1>2, LenProperties
  <2>2. n # 0
    BY <1>2, <1>12, <2>1, EmptySeq
  <2>3. PICK i \in DOMAIN g : g[i].spot = s[1].spot
    <3>1. 1 \in 1 .. Len(s)
      BY <2>1, <2>2
    <3> QED
      BY <1>4, <3>1 DEF GroupsTell
  <2>4. Len(g) \in Nat /\ Len(g) > 0
    BY <1>4, <2>3, LenProperties
  <2>5. Analyzed'
    BY <1>1, <1>4, <1>7, <1>9, <2>4 DEF Analyzed
  <2>6. draft'.phase = "analyzing"
    BY <1>5, <1>9, <1>12
  <2>7. Len(draft'.written) < Len(draft'.groups)
    BY <1>1, <1>9, <2>4, EmptySeq
  <2>8. Narrated'
    BY <2>6, <2>7 DEF Narrated
  <2> QED
    BY <1>10, <2>5, <2>6, <2>8 DEF ReportIInv
<1> QED
  BY <1>11, <1>12

WithFacts(g, own, flagged) == [g EXCEPT !.facts = own, !.flagged = flagged]
WithGroup(groups, n, g) == [groups EXCEPT ![n] = g]

(* A group whose facts are known tells the same of its findings. *)
LEMMA FactsKeepGroups ==
  ASSUME NEW groups, NEW findings, NEW k, GroupsTell(groups, findings, k),
         NEW n \in DOMAIN groups, NEW g, g = groups[n], NEW own \in SUBSET Refs, own \subseteq InTextOf(g.refs),
         NEW flagged \in BOOLEAN, NEW h, h = WithFacts(g, own, flagged),
         NEW t, t = WithGroup(groups, n, h)
  PROVE  GroupsTell(t, findings, k) /\ Len(t) = Len(groups)
<1>1. groups \in Seq(Group)
  BY DEF GroupsTell
<1>2. PICK l \in Nat : l = Len(groups) /\ DOMAIN groups = 1 .. l
  BY <1>1, LenProperties
<1>3. \A i \in 1 .. l : groups[i] \in Group
  BY <1>1, <1>2, ElementOfSeq
<1>4. g \in Group
  BY <1>2, <1>3
<1>5. /\ h \in Group /\ h.spot = g.spot /\ h.rank = g.rank /\ h.confirmed = g.confirmed /\ h.refs = g.refs
      /\ h.occurrences = g.occurrences /\ h.facts = own
  BY <1>4 DEF Group, WithFacts
<1>6. DOMAIN t = 1 .. l /\ t[n] = h /\ \A i \in 1 .. l : i # n => t[i] = groups[i]
  BY <1>2 DEF WithGroup
<1>7. t \in Seq(Group) /\ Len(t) = l
  <2>1. \A i \in 1 .. l : t[i] \in Group
    BY <1>3, <1>5, <1>6
  <2>2. t = [i \in 1 .. l |-> t[i]]
    BY <1>2 DEF WithGroup
  <2>3. t \in [1 .. l -> Group]
    BY <2>1, <2>2
  <2>4. t \in Seq(Group)
    <3>1. \A u \in [1 .. l -> Group] : u \in Seq(Group)
      BY SeqDef
    <3> QED
      BY <2>3, <3>1
  <2> QED
    BY <1>6, <2>4, LenProperties
<1>8. \A i \in 1 .. l : t[i].spot = groups[i].spot
  BY <1>5, <1>6
<1>9. ASSUME NEW i \in 1 .. l PROVE GroupIsTrue(t[i], findings, k) /\ t[i].facts \subseteq InTextOf(t[i].refs)
  <2>1. GroupIsTrue(groups[i], findings, k) /\ groups[i].facts \subseteq InTextOf(groups[i].refs)
    BY <1>2 DEF GroupsTell
  <2>2. CASE i = n
    <3>1. GroupIsTrue(h, findings, k)
      BY <1>5, <2>1, <2>2 DEF GroupIsTrue
    <3> QED
      BY <1>5, <1>6, <2>2, <3>1
  <2>3. CASE i # n
    BY <1>6, <2>1, <2>3
  <2> QED
    BY <2>2, <2>3
<1>10. \A i, j \in 1 .. l : t[i].spot = t[j].spot => i = j
  BY <1>2, <1>8 DEF GroupsTell
<1>11. \A j \in 1 .. k : \E i \in 1 .. l : t[i].spot = findings[j].spot
  BY <1>2, <1>8 DEF GroupsTell
<1>12. GroupsTell(t, findings, k)
  BY <1>6, <1>7, <1>9, <1>10, <1>11 DEF GroupsTell
<1> QED
  BY <1>2, <1>7, <1>12

LEMMA ExtractFactsInvariant == \A refs \in SUBSET Refs : ReportIInv /\ ExtractFacts(refs) => ReportIInv'
<1> SUFFICES ASSUME NEW refs \in SUBSET Refs, ReportIInv, ExtractFacts(refs) PROVE ReportIInv'
  OBVIOUS
<1>1. /\ ReportsTypeOK /\ draft \in DraftState /\ draft.phase = "analyzing" /\ Analyzed
      /\ Len(draft.written) < Len(draft.groups)
  BY DEF ReportIInv, Narrated, ReportsTypeOK, ExtractFacts
<1>2. PICK groups, written, findings :
        groups = draft.groups /\ written = draft.written /\ findings = draft.findings
  OBVIOUS
<1>3. groups \in Seq(Group) /\ written \in Seq(SUBSET Refs)
  BY <1>1, <1>2 DEF DraftState
<1>4. PICK l, w \in Nat : l = Len(groups) /\ w = Len(written)
  BY <1>3, LenProperties
<1>5. PICK n \in 1 .. l : n = w + 1
  BY <1>1, <1>2, <1>4
<1>6. PICK g \in Group : g = groups[n]
  BY <1>3, <1>4, <1>5, ElementOfSeq
<1>7. PICK own : own = Traceable(refs, g)
  OBVIOUS
<1>8. own \in SUBSET Refs /\ own \subseteq InTextOf(g.refs)
  BY <1>7 DEF Traceable
<1>9. PICK flagged \in BOOLEAN : flagged = (own # refs)
  OBVIOUS
<1>10. PICK t, h : h = WithFacts(g, own, flagged) /\ t = WithGroup(groups, n, h)
  OBVIOUS
<1>11. GroupsTell(groups, findings, Len(findings))
  BY <1>1, <1>2 DEF Analyzed
<1>12. n \in DOMAIN groups
  BY <1>3, <1>4, <1>5, LenProperties
<1>13. GroupsTell(t, findings, Len(findings)) /\ Len(t) = l
  <2>1. PICK k : k = Len(findings)
    OBVIOUS
  <2>2. GroupsTell(groups, findings, k) /\ g = groups[n]
    BY <1>6, <1>11, <2>1
  <2>3. own \in SUBSET Refs /\ own \subseteq InTextOf(g.refs) /\ flagged \in BOOLEAN
    BY <1>8
  <2>4. n \in DOMAIN groups /\ h = WithFacts(g, own, flagged) /\ t = WithGroup(groups, n, h)
    BY <1>10, <1>12
  <2>5. GroupsTell(t, findings, k) /\ Len(t) = Len(groups)
    BY <2>2, <2>3, <2>4, FactsKeepGroups
  <2> QED
    BY <1>4, <2>1, <2>5
<1>14. PICK more : more = Append(written, {})
  OBVIOUS
<1>15. more \in Seq(SUBSET Refs) /\ Len(more) = w + 1
  <2>1. {} \in SUBSET Refs
    OBVIOUS
  <2> QED
    BY <1>3, <1>4, <1>14, <2>1, OneMore
<1>16. PICK percent \in 0 .. 100 : percent = IF n = l THEN 45 ELSE 5 + (35 * n) \div l
  <2>1. PICK q \in 0 .. 35 : q = (35 * n) \div l
    <3>1. l \in Nat \ {0} /\ n \in Nat /\ n <= l
      BY <1>4, <1>5
    <3> QED
      BY <3>1, ShareOfPercent
  <2>2. 5 + q \in 0 .. 100 /\ 45 \in 0 .. 100
    OBVIOUS
  <2> QED
    BY <2>1, <2>2
<1>17. PICK after \in Seq(SUBSET Refs) : after = IF n = l THEN <<>> ELSE more
  BY <1>15, EmptySeq
<1>18. PICK goes : goes = IF n = l THEN "writing" ELSE "analyzing"
  OBVIOUS
<1>19. /\ draft' = [draft EXCEPT !.groups[n] = [g EXCEPT !.facts = own, !.flagged = flagged],
                                 !.written = after, !.phase = goes, !.percent = percent]
       /\ UNCHANGED <<activeName, known, saved, loads>>
  BY <1>1, <1>2, <1>4, <1>5, <1>6, <1>7, <1>9, <1>14, <1>16, <1>17, <1>18 DEF ExtractFacts
<1>20. draft' = [draft EXCEPT !.groups = t, !.written = after, !.phase = goes, !.percent = percent]
  BY <1>1, <1>2, <1>10, <1>19 DEF DraftState, WithFacts, WithGroup
<1>21. t \in Seq(Group)
  BY <1>13 DEF GroupsTell
<1>22. goes \in {"writing", "analyzing"}
  BY <1>18
<1>23. /\ draft' \in DraftState /\ draft'.phase = goes /\ draft'.groups = t /\ draft'.written = after
       /\ draft'.findings = findings /\ draft'.session = draft.session /\ draft'.from = draft.from
  BY <1>1, <1>2, <1>20, <1>21, <1>22 DEF DraftState
<1>24. ReportsTypeOK'
  BY <1>1, <1>19, <1>23 DEF ReportsTypeOK
<1>25. Analyzed'
  BY <1>1, <1>2, <1>4, <1>13, <1>19, <1>23 DEF Analyzed
<1>26. Narrated'
  <2>1. CASE n = l
    <3>1. goes = "writing" /\ after = <<>>
      BY <1>17, <1>18, <2>1
    <3>2. Len(draft'.written) = 0 /\ DOMAIN draft'.written = {}
      BY <1>23, <3>1, EmptySeq
    <3>3. Writable' \in Nat
      <4>1. Min({NarrativeCap, l}) \in Nat
        BY <1>4, ReportsAssumption, LeastOfTwo
      <4> QED
        BY <1>13, <1>23, <4>1 DEF Writable
    <3> QED
      BY <1>23, <3>1, <3>2, <3>3 DEF Narrated
  <2>2. CASE n # l
    <3>1. goes = "analyzing" /\ after = more
      BY <1>17, <1>18, <2>2
    <3>2. Len(draft'.written) < Len(draft'.groups)
      BY <1>4, <1>5, <1>13, <1>15, <1>23, <2>2, <3>1
    <3> QED
      BY <1>23, <3>1, <3>2 DEF Narrated
  <2> QED
    BY <2>1, <2>2
<1> QED
  BY <1>22, <1>23, <1>24, <1>25, <1>26 DEF ReportIInv

LEMMA WriteNarrativeInvariant == \A refs \in SUBSET Refs : ReportIInv /\ WriteNarrative(refs) => ReportIInv'
<1> SUFFICES ASSUME NEW refs \in SUBSET Refs, ReportIInv, WriteNarrative(refs) PROVE ReportIInv'
  OBVIOUS
<1>1. /\ ReportsTypeOK /\ draft \in DraftState /\ draft.phase = "writing" /\ Analyzed
      /\ \A n \in DOMAIN draft.written : NarratesGroup(n)
  BY DEF ReportIInv, Narrated, ReportsTypeOK, WriteNarrative
<1>2. PICK groups, written : groups = draft.groups /\ written = draft.written
  OBVIOUS
<1>3. groups \in Seq(Group) /\ written \in Seq(SUBSET Refs)
  BY <1>1, <1>2 DEF DraftState
<1>4. PICK l, w \in Nat : l = Len(groups) /\ w = Len(written)
  BY <1>3, LenProperties
<1>5. PICK cap \in Nat : cap = Min({NarrativeCap, l}) /\ cap <= l /\ cap = Writable
  <2>1. Min({NarrativeCap, l}) \in Nat /\ Min({NarrativeCap, l}) <= l
    BY <1>4, ReportsAssumption, LeastOfTwo
  <2>2. Writable = Min({NarrativeCap, l})
    BY <1>2, <1>4 DEF Writable
  <2> QED
    BY <2>1, <2>2
<1>6. PICK n \in 1 .. l : n = w + 1 /\ n <= cap
  <2>1. w + 1 <= cap
    BY <1>2, <1>4, <1>5 DEF WriteNarrative
  <2> QED
    BY <1>4, <1>5, <2>1
<1>7. PICK own : own = Traceable(refs, groups[n])
  OBVIOUS
<1>8. own \in SUBSET Refs /\ own \subseteq InTextOf(groups[n].refs)
  BY <1>7 DEF Traceable
<1>9. PICK more : more = Append(written, own)
  OBVIOUS
<1>10. /\ more \in Seq(SUBSET Refs) /\ Len(more) = n /\ DOMAIN more = 1 .. n /\ more[n] = own
       /\ \A i \in 1 .. w : more[i] = written[i]
  BY <1>3, <1>4, <1>6, <1>8, <1>9, OneMore
<1>11. PICK percent \in 0 .. 100 : percent = 45 + (35 * n) \div cap
  <2>1. PICK q \in 0 .. 35 : q = (35 * n) \div cap
    <3>1. cap \in Nat \ {0} /\ n \in Nat /\ n <= cap
      BY <1>5, <1>6
    <3> QED
      BY <3>1, ShareOfPercent
  <2>2. 45 + q \in 0 .. 100
    OBVIOUS
  <2> QED
    BY <2>1, <2>2
<1>12. /\ draft' = [draft EXCEPT !.written = more, !.percent = percent]
       /\ UNCHANGED <<activeName, known, saved, loads>>
  BY <1>2, <1>4, <1>5, <1>6, <1>7, <1>9, <1>11 DEF WriteNarrative
<1>13. /\ draft' \in DraftState /\ draft'.phase = "writing" /\ draft'.groups = groups /\ draft'.written = more
       /\ draft'.findings = draft.findings /\ draft'.session = draft.session /\ draft'.from = draft.from
  BY <1>1, <1>2, <1>10, <1>12 DEF DraftState
<1>14. ReportsTypeOK'
  BY <1>1, <1>12, <1>13 DEF ReportsTypeOK
<1>15. Analyzed'
  BY <1>1, <1>2, <1>12, <1>13 DEF Analyzed
<1>16. \A i \in 1 .. n : more[i] \subseteq InTextOf(groups[i].refs)
  <2>1. \A i \in 1 .. w : written[i] \subseteq InTextOf(groups[i].refs)
    BY <1>1, <1>2, <1>3, <1>4, LenProperties DEF NarratesGroup
  <2>2. \A i \in 1 .. n : i = n \/ i \in 1 .. w
    BY <1>4, <1>6
  <2> QED
    BY <1>8, <1>10, <2>1, <2>2
<1>17. Narrated'
  <2>1. Writable' = cap
    BY <1>4, <1>5, <1>13 DEF Writable
  <2>2. Len(draft'.written) <= Writable'
    BY <1>6, <1>10, <1>13, <2>1
  <2>3. \A i \in DOMAIN draft'.written : draft'.written[i] \subseteq InTextOf(draft'.groups[i].refs)
    BY <1>10, <1>13, <1>16
  <2> QED
    BY <1>13, <2>2, <2>3 DEF Narrated, NarratesGroup
<1> QED
  BY <1>13, <1>14, <1>15, <1>17 DEF ReportIInv

LEMMA WriteSummaryInvariant == ReportIInv /\ WriteSummary => ReportIInv'
<1> SUFFICES ASSUME ReportIInv, WriteSummary PROVE ReportIInv'
  OBVIOUS
<1>1. /\ ReportsTypeOK /\ draft \in DraftState /\ draft.phase = "writing" /\ Analyzed
      /\ \A n \in DOMAIN draft.written : NarratesGroup(n)
  BY DEF ReportIInv, Narrated, ReportsTypeOK, WriteSummary
<1>2. PICK groups, written, findings :
        groups = draft.groups /\ written = draft.written /\ findings = draft.findings
  OBVIOUS
<1>3. groups \in Seq(Group) /\ written \in Seq(SUBSET Refs)
  BY <1>1, <1>2 DEF DraftState
<1>4. PICK l, w \in Nat : l = Len(groups) /\ w = Len(written) /\ DOMAIN groups = 1 .. l /\ DOMAIN written = 1 .. w
  BY <1>3, LenProperties
<1>5. w = Writable
  BY <1>2, <1>4 DEF WriteSummary
<1>6. PICK told : told = [n \in 1 .. l |-> IF n <= w THEN written[n] ELSE groups[n].facts]
  OBVIOUS
<1>7. ASSUME NEW n \in 1 .. l PROVE told[n] \in SUBSET Refs /\ told[n] \subseteq InTextOf(groups[n].refs)
  <2>1. groups[n].facts \subseteq InTextOf(groups[n].refs)
    BY <1>1, <1>2, <1>4 DEF Analyzed, GroupsTell
  <2>2. n <= w => written[n] \subseteq InTextOf(groups[n].refs)
    BY <1>1, <1>2, <1>4 DEF NarratesGroup
  <2>3. told[n] = IF n <= w THEN written[n] ELSE groups[n].facts
    BY <1>6
  <2>4. told[n] \subseteq InTextOf(groups[n].refs) /\ told[n] \subseteq Refs
    <3>1. groups[n].facts \subseteq Refs
      <4>1. groups[n] \in Group
        BY <1>3, <1>4, ElementOfSeq
      <4> QED
        BY <4>1 DEF Group
    <3>2. n <= w => written[n] \subseteq Refs
      BY <1>3, <1>4, ElementOfSeq
    <3>3. CASE n <= w
      BY <2>2, <2>3, <3>2, <3>3
    <3>4. CASE ~(n <= w)
      BY <2>1, <2>3, <3>1, <3>4
    <3> QED
      BY <3>3, <3>4
  <2> QED
    BY <2>4
<1>8. told \in Seq(SUBSET Refs) /\ Len(told) = l /\ DOMAIN told = 1 .. l
  <2>1. told \in [1 .. l -> SUBSET Refs] /\ DOMAIN told = 1 .. l
    BY <1>6, <1>7
  <2>2. told \in Seq(SUBSET Refs)
    <3>1. \A u \in [1 .. l -> SUBSET Refs] : u \in Seq(SUBSET Refs)
      BY SeqDef
    <3> QED
      BY <2>1, <3>1
  <2> QED
    BY <2>1, <2>2, LenProperties
<1>9. told = Narratives
  BY <1>2, <1>4, <1>5, <1>6 DEF Narratives
<1>10. PICK percent \in 0 .. 100 : percent = 88
  <2>1. 88 \in 0 .. 100
    OBVIOUS
  <2> QED
    BY <2>1
<1>11. /\ draft' = [draft EXCEPT !.phase = "rendering", !.percent = percent, !.written = told]
       /\ UNCHANGED <<activeName, known, saved, loads>>
  BY <1>9, <1>10 DEF WriteSummary
<1>12. /\ draft' \in DraftState /\ draft'.phase = "rendering" /\ draft'.groups = groups /\ draft'.written = told
       /\ draft'.findings = findings /\ draft'.session = draft.session /\ draft'.from = draft.from
  BY <1>1, <1>2, <1>8, <1>11 DEF DraftState
<1>13. ReportsTypeOK'
  BY <1>1, <1>11, <1>12 DEF ReportsTypeOK
<1>14. Analyzed'
  BY <1>1, <1>2, <1>11, <1>12 DEF Analyzed
<1>15. Narrated'
  <2>1. Len(draft'.written) = Len(draft'.groups)
    BY <1>4, <1>8, <1>12
  <2>2. \A n \in DOMAIN draft'.written : draft'.written[n] \subseteq InTextOf(draft'.groups[n].refs)
    BY <1>7, <1>8, <1>12
  <2> QED
    BY <1>12, <2>1, <2>2 DEF Narrated, NarratesGroup
<1> QED
  BY <1>12, <1>13, <1>14, <1>15 DEF ReportIInv

LEMMA RenderInvariant == \A upTo \in 0 .. Len(FormatOrder) : ReportIInv /\ Render(upTo) => ReportIInv'
<1> SUFFICES ASSUME NEW upTo \in 0 .. Len(FormatOrder), ReportIInv, Render(upTo) PROVE ReportIInv'
  OBVIOUS
<1>1. /\ ReportsTypeOK /\ draft \in DraftState /\ draft.phase = "rendering" /\ Analyzed
      /\ Len(draft.written) = Len(draft.groups) /\ \A n \in DOMAIN draft.written : NarratesGroup(n)
  BY DEF ReportIInv, Narrated, ReportsTypeOK, Render
<1>2. PICK groups, written, findings :
        groups = draft.groups /\ written = draft.written /\ findings = draft.findings
  OBVIOUS
<1>3. groups \in Seq(Group) /\ written \in Seq(SUBSET Refs)
  BY <1>1, <1>2 DEF DraftState
<1>4. PICK l \in Nat : l = Len(groups) /\ DOMAIN groups = 1 .. l /\ Len(written) = l
  BY <1>1, <1>2, <1>3, LenProperties
<1>5. PICK o : o = SortOf(groups)
  OBVIOUS
<1>6. o \in [1 .. l -> 1 .. l]
  <2>1. Sorts(o, groups, l)
    BY <1>3, <1>4, <1>5, SortSorts
  <2> QED
    BY <2>1 DEF Sorts
<1>7. PICK sections : sections = Sections(groups, written)
  OBVIOUS
<1>8. sections \in Seq([group : Group, told : SUBSET Refs])
  <2>1. sections = [i \in 1 .. l |->
                      LET m == CHOOSE m \in 1 .. l : Cardinality(Ahead(groups, m)) = i - 1
                      IN [group |-> groups[m], told |-> written[m]]]
    BY <1>4, <1>7 DEF Sections
  <2>2. \A i \in 1 .. l : o[i] = CHOOSE m \in 1 .. l : Cardinality(Ahead(groups, m)) = i - 1
    BY <1>4, <1>5 DEF SortOf
  <2>3. \A m \in 1 .. l : groups[m] \in Group /\ written[m] \in SUBSET Refs
    BY <1>3, <1>4, ElementOfSeq
  <2>4. sections = [i \in 1 .. l |-> [group |-> groups[o[i]], told |-> written[o[i]]]]
    BY <2>1, <2>2
  <2>5. \A i \in 1 .. l : [group |-> groups[o[i]], told |-> written[o[i]]] \in [group : Group, told : SUBSET Refs]
    <3> SUFFICES ASSUME NEW i \in 1 .. l
                 PROVE  [group |-> groups[o[i]], told |-> written[o[i]]] \in [group : Group, told : SUBSET Refs]
      OBVIOUS
    <3>1. PICK g \in Group : g = groups[o[i]]
      BY <1>6, <2>3
    <3>2. PICK t \in SUBSET Refs : t = written[o[i]]
      BY <1>6, <2>3
    <3> QED
      BY <3>1, <3>2
  <2>6. sections \in [1 .. l -> [group : Group, told : SUBSET Refs]]
    BY <2>4, <2>5
  <2>7. PICK S : S = [group : Group, told : SUBSET Refs]
    OBVIOUS
  <2>8. sections \in [1 .. l -> S]
    BY <2>6, <2>7
  <2>9. sections \in Seq(S)
    BY <2>8, SeqDef
  <2> QED
    BY <2>7, <2>9
<1>9. PICK files, goes, percent :
        /\ files = {FormatOrder[i] : i \in 1 .. upTo} \cap draft.formats
        /\ goes = IF upTo # Len(FormatOrder) THEN "failed" ELSE "rendered"
        /\ percent = IF upTo # Len(FormatOrder) THEN draft.percent ELSE 100
  OBVIOUS
<1>10. /\ files \in SUBSET ToSet(FormatOrder) /\ goes \in {"failed", "rendered"}
       /\ goes = "rendered" => percent = 100 /\ files = draft.formats
  <2>1. draft.formats \in SUBSET ToSet(FormatOrder)
    BY <1>1 DEF DraftState
  <2>2. ToSet(FormatOrder) = {FormatOrder[i] : i \in 1 .. Len(FormatOrder)}
    <3>1. DOMAIN FormatOrder = 1 .. Len(FormatOrder)
      BY DEF FormatOrder
    <3> QED
      BY <3>1 DEF ToSet
  <2>3. goes = "rendered" => upTo = Len(FormatOrder)
    BY <1>9
  <2>4. goes = "rendered" => files = draft.formats
    BY <1>9, <2>1, <2>2, <2>3
  <2> QED
    BY <1>9, <2>1, <2>4
<1>11. percent \in 0 .. 100
  <2>1. draft.percent \in 0 .. 100
    BY <1>1 DEF DraftState
  <2>2. 100 \in 0 .. 100
    OBVIOUS
  <2>3. PICK old, all \in 0 .. 100 : old = draft.percent /\ all = 100
    BY <2>1, <2>2
  <2>4. percent = old \/ percent = all
    BY <1>9, <2>3
  <2> QED
    BY <2>4
<1>12. /\ draft' = [draft EXCEPT !.sections = sections, !.files = files, !.phase = goes, !.percent = percent]
       /\ UNCHANGED <<activeName, known, saved, loads>>
  BY <1>2, <1>7, <1>9 DEF Render
<1>13. /\ draft' \in DraftState /\ draft'.phase = goes /\ draft'.groups = groups /\ draft'.written = written
       /\ draft'.findings = findings /\ draft'.session = draft.session /\ draft'.from = draft.from
       /\ draft'.sections = sections /\ draft'.percent = percent /\ draft'.files = files
       /\ draft'.formats = draft.formats
  BY <1>1, <1>2, <1>8, <1>10, <1>11, <1>12 DEF DraftState
<1>14. ReportsTypeOK'
  BY <1>1, <1>12, <1>13 DEF ReportsTypeOK
<1>15. Analyzed'
  BY <1>1, <1>2, <1>12, <1>13 DEF Analyzed
<1>16. Narrated'
  <2>1. Len(draft'.written) = Len(draft'.groups)
    BY <1>4, <1>13
  <2>2. \A n \in DOMAIN draft'.written : draft'.written[n] \subseteq InTextOf(draft'.groups[n].refs)
    BY <1>1, <1>2, <1>13 DEF NarratesGroup
  <2> QED
    BY <1>10, <1>13, <2>1, <2>2 DEF Narrated, NarratesGroup
<1>17. draft'.sections = Sections(draft'.groups, draft'.written)
  BY <1>7, <1>13
<1> QED
  BY <1>10, <1>13, <1>14, <1>15, <1>16, <1>17 DEF ReportIInv

LEMMA ReportsNextInvariant == ReportIInv /\ [ReportsNext]_reportVars => ReportIInv'
<1> SUFFICES ASSUME ReportIInv, [ReportsNext]_reportVars PROVE ReportIInv'
  OBVIOUS
<1>1. \/ \E f \in SomeFindings : SaveKnown(f)
      \/ ClearKnown
      \/ \E s \in ReportSessions : LoadSession(s)
      \/ UNCHANGED reportVars
      \/ (\E formats \in AskedFormats : GenerateReport(formats)) \/ CreateReport
      \/ FinishReport \/ \E how \in {"failed", "cancelled"} : GiveUp(how)
      \/ ReadFindings
      \/ \E refs \in SUBSET Refs : ExtractFacts(refs) \/ WriteNarrative(refs)
      \/ WriteSummary
      \/ \E upTo \in 0 .. Len(FormatOrder) : Render(upTo)
  <2> USE DEF ReportsNext
  <2> QED
    OBVIOUS
<1> QED
  BY <1>1, OthersInvariant, BeginEndInvariant, ReadFindingsInvariant, ExtractFactsInvariant,
     WriteNarrativeInvariant, WriteSummaryInvariant, RenderInvariant

(* ReportTellsFindings: whatever is saved, deleted or loaded while a report is *)
(* analysed and written, for any findings, references that are parts of one    *)
(* another, formats and cap on the narratives, the report that completes tells *)
(* of all the findings its runner has read, in the formats that were asked for. *)
THEOREM ReportsTellFindings == ReportsSpec => []ReportTellsFindings
<1>1. ReportsSpec => []ReportIInv
  BY ReportsInitInvariant, ReportsNextInvariant, PTL DEF ReportsSpec
<1> QED
  BY <1>1, TellsFindings, PTL

(* ReportsTypeOK: the type invariant of the reports: the findings of every *)
(* session, the groups and the sections that a runner makes of them, the    *)
(* texts, the formats and files, and a percentage that stays within 100.    *)
THEOREM ReportsTypeCorrect == ReportsSpec => []ReportsTypeOK
<1>1. ReportIInv => ReportsTypeOK
  BY DEF ReportIInv
<1>2. ReportsSpec => []ReportIInv
  BY ReportsInitInvariant, ReportsNextInvariant, PTL DEF ReportsSpec
<1> QED
  BY <1>1, <1>2, PTL

-----------------------------------------------------------------------------
(* The client of the language models (LlmClient). *)

(* What the breaker does, and what the ledger holds. *)
BreakerAgrees == \A p \in Providers : opened[p] # "no" <=> failures[p] >= CircuitThreshold

InLedger == {c \in LlmCallers : Recording(c)}
LedgerAgrees ==
  requests = ledger.rows + ledger.lost + ledger.unrecorded + Cardinality(InLedger)

LlmInv == LlmTypeOK /\ BreakerAgrees /\ LedgerAgrees

LEMMA AgreementParts == BreakerAndLedgerAgree <=> BreakerAgrees /\ LedgerAgrees
BY DEF BreakerAndLedgerAgree, BreakerAgrees, LedgerAgrees, InLedger

-----------------------------------------------------------------------------
LEMMA ChainPlaces == DOMAIN Chain = 1 .. Len(Chain) /\ Len(Chain) \in Nat
BY LlmAssumption

LEMMA FirstAttempt == RateLimitRetries \in Nat /\ 0 \in 0 .. RateLimitRetries
<1>1. RateLimitRetries \in Nat
  BY LlmAssumption
<1> QED
  BY <1>1

(* The update EntersChain makes of a call no provider is left for. *)
LEMMA CallEnds ==
  ASSUME NEW b \in CallType,
         NEW e, e = [b EXCEPT !.pc = "idle", !.at = 0, !.attempt = 0, !.retry = 0]
  PROVE  e \in CallType /\ e.pc = "idle"
BY FirstAttempt DEF CallType

(* generate() asks a provider of the chain, or gives the call up. *)
LEMMA EntersChainType ==
  ASSUME NEW b \in CallType, NEW i \in Nat \ {0}
  PROVE  /\ EntersChain(b, i) \in CallType
         /\ EntersChain(b, i).pc \in {"idle", "asking"}
         /\ EntersChain(b, i).pc # "idle" => EntersChain(b, i).at \in DOMAIN Chain
<1> DEFINE candidates == {k \in i .. Len(Chain) : Closed(k)}
           first == CHOOSE k \in candidates : \A j \in candidates : k <= j
           e == EntersChain(b, i)
<1>1. CASE candidates = {}
  <2>1. e = [b EXCEPT !.pc = "idle", !.at = 0, !.attempt = 0, !.retry = 0]
    BY <1>1 DEF EntersChain
  <2> HIDE DEF e
  <2>2. e \in CallType /\ e.pc = "idle"
    BY <2>1, CallEnds
  <2>3. e \in CallType /\ e.pc \in {"idle", "asking"} /\ (e.pc # "idle" => e.at \in DOMAIN Chain)
    BY <2>2
  <2> QED
    BY <2>3 DEF e
<1>2. CASE candidates # {}
  <2>1. candidates \in SUBSET Nat
    BY ChainPlaces
  <2>2. candidates \subseteq DOMAIN Chain
    BY ChainPlaces
  <2>3. e = [b EXCEPT !.pc = "asking", !.attempt = 0, !.at = first]
    BY <1>2 DEF EntersChain
  <2> HIDE DEF candidates, e
  <2>4. \E k \in candidates : \A j \in candidates : k <= j
    BY <1>2, <2>1, SmallestIsThere
  <2>5. first \in candidates
    BY <2>4
  <2> HIDE DEF first
  <2>6. first \in Nat /\ first \in DOMAIN Chain
    BY <2>1, <2>2, <2>5
  <2>7. PICK k \in Nat : k \in DOMAIN Chain /\ e = [b EXCEPT !.pc = "asking", !.attempt = 0, !.at = k]
    BY <2>3, <2>6
  <2>8. e \in CallType /\ e.pc \in {"idle", "asking"} /\ (e.pc # "idle" => e.at \in DOMAIN Chain)
    BY <2>7, FirstAttempt DEF CallType
  <2> QED
    BY <2>8 DEF e
<1> QED
  BY <1>1, <1>2

LEMMA IdleType == Idle \in CallType /\ [Idle EXCEPT !.retry = 1] \in CallType
BY FirstAttempt DEF Idle, CallType

(* After a row was written the call is at a place of the chain, or over,    *)
(* and not about to write another row.                                     *)
LEMMA AfterRecordType ==
  ASSUME NEW b \in CallType, NEW valid \in BOOLEAN,
         b.pc # "idle", b.at \in DOMAIN Chain
  PROVE  /\ AfterRecord(b, valid) \in CallType
         /\ AfterRecord(b, valid).pc \in {"idle", "asking", "backing off"}
         /\ AfterRecord(b, valid).pc # "idle" => AfterRecord(b, valid).at \in DOMAIN Chain
<1>1. CASE b.pc = "recording limit"
  BY <1>1 DEF AfterRecord, CallType
<1>2. CASE b.pc = "recording failure"
  <2>1. b.at \in Nat
    BY DEF CallType
  <2>2. AfterRecord(b, valid) = EntersChain(b, b.at + 1)
    BY <1>2 DEF AfterRecord
  <2>3. b.at + 1 \in Nat \ {0}
    BY <2>1
  <2> QED
    BY <2>2, <2>3, EntersChainType
<1>3. CASE b.pc = "recording answer" /\ ~valid /\ b.retry = 0
  <2>1. AfterRecord(b, valid) = EntersChain([Idle EXCEPT !.retry = 1], 1)
    BY <1>3 DEF AfterRecord
  <2> DEFINE again == [Idle EXCEPT !.retry = 1]
  <2>2. 1 \in Nat \ {0} /\ again \in CallType
    BY IdleType
  <2> HIDE DEF again
  <2>3. /\ EntersChain(again, 1) \in CallType
        /\ EntersChain(again, 1).pc \in {"idle", "asking"}
        /\ EntersChain(again, 1).pc # "idle" => EntersChain(again, 1).at \in DOMAIN Chain
    BY <2>2, EntersChainType
  <2>4. AfterRecord(b, valid) = EntersChain(again, 1)
    BY <2>1 DEF again
  <2> QED
    BY <2>3, <2>4
<1>4. CASE /\ b.pc \notin {"recording limit", "recording failure"}
           /\ ~(b.pc = "recording answer" /\ ~valid /\ b.retry = 0)
  <2>1. AfterRecord(b, valid) = Idle
    BY <1>4 DEF AfterRecord
  <2> QED
    BY <2>1, IdleType DEF Idle
<1> QED
  BY <1>1, <1>2, <1>3, <1>4

-----------------------------------------------------------------------------
LEMMA LedgerIsFinite == IsFiniteSet(InLedger)
BY LlmAssumption, FS_Subset DEF InLedger

(* A request that ends has its row still to be written: one more of them.  *)
LEMMA RequestIsOwed ==
  ASSUME LlmInv, NEW c \in LlmCallers, ~Recording(c), Recording(c)',
         \A d \in LlmCallers \ {c} : llm'[d] = llm[d],
         requests' = requests + 1, ledger' = ledger
  PROVE  LedgerAgrees'
<1>1. InLedger' = InLedger \cup {c} /\ c \notin InLedger
  BY DEF InLedger, Recording
<1>2. Cardinality(InLedger') = Cardinality(InLedger) + 1 /\ Cardinality(InLedger) \in Nat
  BY <1>1, LedgerIsFinite, FS_AddElement, FS_CardinalityType
<1> QED
  BY <1>2 DEF LedgerAgrees, LlmInv, LlmTypeOK

(* The row of a request is written, or lost, once. *)
LEMMA RowIsWritten ==
  ASSUME LlmInv, NEW c \in LlmCallers, Recording(c), ~Recording(c)',
         \A d \in LlmCallers \ {c} : llm'[d] = llm[d],
         requests' = requests, ledger'.unrecorded = ledger.unrecorded,
         ledger' \in [rows : Nat, lost : Nat, unrecorded : Nat],
         ledger'.rows + ledger'.lost = ledger.rows + ledger.lost + 1
  PROVE  LedgerAgrees'
<1>1. InLedger' = InLedger \ {c} /\ c \in InLedger
  BY DEF InLedger, Recording
<1>2. /\ Cardinality(InLedger') = Cardinality(InLedger) - 1
      /\ Cardinality(InLedger) \in Nat /\ Cardinality(InLedger') \in Nat
  BY <1>1, LedgerIsFinite, FS_RemoveElement, FS_CardinalityType
<1> QED
  BY <1>2 DEF LedgerAgrees, LlmInv, LlmTypeOK

(* A request that ends unrecorded is counted as such. *)
LEMMA RequestIsUnrecorded ==
  ASSUME LlmInv, \A d \in LlmCallers : Recording(d) <=> Recording(d)',
         requests' = requests + 1, ledger' = [ledger EXCEPT !.unrecorded = @ + 1]
  PROVE  LedgerAgrees'
<1>1. InLedger' = InLedger
  BY DEF InLedger
<1>2. PICK n \in Nat : n = Cardinality(InLedger)
  BY LedgerIsFinite, FS_CardinalityType
<1>3. /\ ledger \in [rows : Nat, lost : Nat, unrecorded : Nat] /\ requests \in Nat
      /\ requests = ledger.rows + ledger.lost + ledger.unrecorded + n
  BY <1>2 DEF LlmInv, LlmTypeOK, LedgerAgrees
<1>4. /\ ledger'.rows = ledger.rows /\ ledger'.lost = ledger.lost
      /\ ledger'.unrecorded = ledger.unrecorded + 1
  BY <1>3
<1> QED
  BY <1>1, <1>2, <1>3, <1>4 DEF LedgerAgrees

(* Whoever is not about to write a row before and after owes none. *)
LEMMA NoRequest ==
  ASSUME LlmInv,
         \A d \in LlmCallers : Recording(d) <=> Recording(d)',
         requests' = requests, ledger' = ledger
  PROVE  LedgerAgrees'
<1>1. InLedger' = InLedger
  BY DEF InLedger
<1> QED
  BY <1>1 DEF LedgerAgrees, LlmInv

(* The provider a call is at. *)
LEMMA AskedProvider ==
  ASSUME LlmInv, NEW c \in LlmCallers, llm[c].pc = "asking"
  PROVE  Chain[llm[c].at] \in Providers
BY DEF LlmInv, LlmTypeOK, Providers

(* One call moves to b. *)
CallsOK == /\ llm \in [LlmCallers -> CallType]
           /\ \A c \in LlmCallers : llm[c].pc # "idle" => llm[c].at \in DOMAIN Chain

LEMMA CallMoves ==
  ASSUME LlmTypeOK, NEW c \in LlmCallers, NEW b \in CallType,
         b.pc # "idle" => b.at \in DOMAIN Chain, llm' = [llm EXCEPT ![c] = b]
  PROVE  CallsOK' /\ llm'[c] = b /\ \A d \in LlmCallers \ {c} : llm'[d] = llm[d]
BY DEF LlmTypeOK, CallsOK

LEMMA CallMovesOn ==
  ASSUME LlmTypeOK, NEW c \in LlmCallers, llm[c].pc # "idle",
         NEW pc \in {"asking", "recording answer", "recording failure", "recording limit"},
         llm' = [llm EXCEPT ![c].pc = pc]
  PROVE  CallsOK' /\ llm'[c].pc = pc /\ \A d \in LlmCallers \ {c} : llm'[d] = llm[d]
<1> DEFINE b == [llm[c] EXCEPT !.pc = pc]
<1>1. b \in CallType /\ b.pc = pc /\ b.pc # "idle" /\ b.at \in DOMAIN Chain
  BY DEF LlmTypeOK, CallType
<1>2. llm' = [llm EXCEPT ![c] = b]
  OBVIOUS
<1> HIDE DEF b
<1> QED
  BY <1>1, <1>2, CallMoves

LEMMA RequestCounted ==
  ASSUME LlmTypeOK, calls' = calls, requests' = requests + 1, ledger' = ledger
  PROVE  calls' \in Nat /\ requests' \in Nat /\ ledger' \in [rows : Nat, lost : Nat, unrecorded : Nat]
BY DEF LlmTypeOK

LEMMA Threshold == CircuitThreshold \in Nat \ {0}
BY LlmAssumption

LEMMA CalledInvariant ==
  ASSUME LlmInv, NEW c \in LlmCallers, Call(c)
  PROVE  LlmInv'
<1>1. LlmTypeOK /\ BreakerAgrees
  BY DEF LlmInv
<1> DEFINE b == EntersChain(Idle, 1)
<1>2. b \in CallType /\ b.pc \in {"idle", "asking"} /\ (b.pc # "idle" => b.at \in DOMAIN Chain)
  BY EntersChainType, IdleType
<1>3. /\ llm' = [llm EXCEPT ![c] = b] /\ calls' = calls + 1 /\ llm[c].pc = "idle"
      /\ UNCHANGED <<failures, opened, requests, ledger>>
  BY DEF Call
<1> HIDE DEF b
<1>4. LlmTypeOK'
  BY <1>1, <1>2, <1>3 DEF LlmTypeOK
<1>5. BreakerAgrees'
  BY <1>1, <1>3 DEF BreakerAgrees
<1>6. LedgerAgrees'
  <2>1. \A d \in LlmCallers : Recording(d) <=> Recording(d)'
    BY <1>1, <1>2, <1>3 DEF Recording, LlmTypeOK
  <2> QED
    BY <1>3, <2>1, NoRequest
<1> QED
  BY <1>4, <1>5, <1>6 DEF LlmInv

LEMMA AnsweredInvariant ==
  ASSUME LlmInv, NEW c \in LlmCallers, Answered(c)
  PROVE  LlmInv'
<1>1. LlmTypeOK /\ BreakerAgrees
  BY DEF LlmInv
<1> DEFINE p == Chain[llm[c].at]
<1>2. /\ llm[c].pc = "asking" /\ requests' = requests + 1
      /\ failures' = [failures EXCEPT ![p] = 0] /\ opened' = [opened EXCEPT ![p] = "no"]
      /\ llm' = [llm EXCEPT ![c].pc = "recording answer"]
      /\ UNCHANGED <<calls, ledger>>
  BY DEF Answered
<1>3. p \in Providers
  BY <1>2, AskedProvider
<1> HIDE DEF p
<1>4. /\ CallsOK' /\ llm'[c].pc = "recording answer"
      /\ \A d \in LlmCallers \ {c} : llm'[d] = llm[d]
  BY <1>1, <1>2, CallMovesOn
<1>5. /\ failures' \in [Providers -> Nat] /\ opened' \in [Providers -> {"no", "open", "expired"}]
      /\ failures'[p] = 0 /\ opened'[p] = "no"
      /\ \A q \in Providers \ {p} : failures'[q] = failures[q] /\ opened'[q] = opened[q]
  BY <1>1, <1>2, <1>3 DEF LlmTypeOK
<1>6. LlmTypeOK'
  <2>1. calls' \in Nat /\ requests' \in Nat /\ ledger' \in [rows : Nat, lost : Nat, unrecorded : Nat]
    BY <1>1, <1>2, RequestCounted
  <2> QED
    BY <1>4, <1>5, <2>1 DEF LlmTypeOK, CallsOK
<1>7. BreakerAgrees'
  BY <1>1, <1>5, Threshold DEF BreakerAgrees
<1>8. LedgerAgrees'
  <2>1. ~Recording(c) /\ Recording(c)'
    BY <1>2, <1>4 DEF Recording
  <2> QED
    BY <1>2, <1>4, <2>1, RequestIsOwed
<1> QED
  BY <1>6, <1>7, <1>8 DEF LlmInv

LEMMA FailedInvariant ==
  ASSUME LlmInv, NEW c \in LlmCallers, Failed(c)
  PROVE  LlmInv'
<1>1. LlmTypeOK /\ BreakerAgrees
  BY DEF LlmInv
<1> DEFINE p == Chain[llm[c].at]
<1>2. /\ llm[c].pc = "asking" /\ requests' = requests + 1
      /\ failures' = [failures EXCEPT ![p] = @ + 1]
      /\ opened' = [opened EXCEPT ![p] = IF failures'[p] >= CircuitThreshold THEN "open" ELSE @]
      /\ llm' = [llm EXCEPT ![c].pc = "recording failure"]
      /\ UNCHANGED <<calls, ledger>>
  BY DEF Failed, RecordFailure
<1>3. p \in Providers
  BY <1>2, AskedProvider
<1> HIDE DEF p
<1>4. /\ CallsOK' /\ llm'[c].pc = "recording failure"
      /\ \A d \in LlmCallers \ {c} : llm'[d] = llm[d]
  BY <1>1, <1>2, CallMovesOn
<1>5. /\ failures' \in [Providers -> Nat] /\ failures'[p] = failures[p] + 1
      /\ \A q \in Providers \ {p} : failures'[q] = failures[q]
  <2>1. failures' = [failures EXCEPT ![p] = failures[p] + 1]
    BY <1>2
  <2>2. failures \in [Providers -> Nat] /\ failures[p] + 1 \in Nat
    BY <1>1, <1>3 DEF LlmTypeOK
  <2> QED
    BY <1>3, <2>1, <2>2
<1>6. /\ opened' \in [Providers -> {"no", "open", "expired"}]
      /\ opened'[p] = IF failures'[p] >= CircuitThreshold THEN "open" ELSE opened[p]
      /\ \A q \in Providers \ {p} : opened'[q] = opened[q]
  BY <1>1, <1>2, <1>3 DEF LlmTypeOK
<1>7. LlmTypeOK'
  <2>1. calls' \in Nat /\ requests' \in Nat /\ ledger' \in [rows : Nat, lost : Nat, unrecorded : Nat]
    BY <1>1, <1>2, RequestCounted
  <2> QED
    BY <1>4, <1>5, <1>6, <2>1 DEF LlmTypeOK, CallsOK
<1>8. BreakerAgrees'
  <2>1. opened'[p] # "no" <=> failures'[p] >= CircuitThreshold
    BY <1>1, <1>3, <1>5, <1>6, Threshold DEF BreakerAgrees, LlmTypeOK
  <2>2. \A q \in Providers \ {p} : opened'[q] # "no" <=> failures'[q] >= CircuitThreshold
    BY <1>1, <1>5, <1>6 DEF BreakerAgrees
  <2> QED
    BY <2>1, <2>2 DEF BreakerAgrees
<1>9. LedgerAgrees'
  <2>1. ~Recording(c) /\ Recording(c)'
    BY <1>2, <1>4 DEF Recording
  <2> QED
    BY <1>2, <1>4, <2>1, RequestIsOwed
<1> QED
  BY <1>7, <1>8, <1>9 DEF LlmInv

LEMMA RateLimitedInvariant ==
  ASSUME LlmInv, NEW c \in LlmCallers, RateLimited(c)
  PROVE  LlmInv'
<1>1. LlmTypeOK /\ BreakerAgrees
  BY DEF LlmInv
<1>2. /\ llm[c].pc = "asking" /\ llm[c].attempt < RateLimitRetries /\ requests' = requests + 1
      /\ llm' = [llm EXCEPT ![c].pc = "recording limit", ![c].attempt = @ + 1]
      /\ UNCHANGED <<failures, opened, calls, ledger>>
  BY DEF RateLimited
<1>3. /\ CallsOK' /\ llm'[c].pc = "recording limit"
      /\ \A d \in LlmCallers \ {c} : llm'[d] = llm[d]
  <2> DEFINE b == [llm[c] EXCEPT !.pc = "recording limit", !.attempt = @ + 1]
  <2>1. llm[c] \in CallType /\ llm[c].at \in DOMAIN Chain
    BY <1>1, <1>2 DEF LlmTypeOK
  <2>2. llm[c].attempt + 1 \in 0 .. RateLimitRetries
    <3>1. llm[c].attempt \in 0 .. RateLimitRetries
      BY <2>1 DEF CallType
    <3>2. llm[c].attempt < RateLimitRetries
      BY <1>2
    <3> QED
      BY <3>1, <3>2, FirstAttempt
  <2>3. b \in CallType /\ b.pc = "recording limit" /\ b.at \in DOMAIN Chain
    BY <2>1, <2>2 DEF CallType
  <2>4. llm' = [llm EXCEPT ![c] = b]
    BY <1>2
  <2> HIDE DEF b
  <2> QED
    BY <1>1, <2>3, <2>4, CallMoves
<1>4. LlmTypeOK' /\ BreakerAgrees'
  <2>1. calls' \in Nat /\ requests' \in Nat /\ ledger' \in [rows : Nat, lost : Nat, unrecorded : Nat]
    BY <1>1, <1>2, RequestCounted
  <2>2. failures' = failures /\ opened' = opened
    BY <1>2
  <2>3. /\ failures' \in [Providers -> Nat] /\ opened' \in [Providers -> {"no", "open", "expired"}]
        /\ BreakerAgrees'
    BY <1>1, <2>2 DEF LlmTypeOK, BreakerAgrees
  <2> QED
    BY <1>3, <2>1, <2>3 DEF LlmTypeOK, CallsOK
<1>5. LedgerAgrees'
  <2>1. ~Recording(c) /\ Recording(c)'
    BY <1>2, <1>3 DEF Recording
  <2> QED
    BY <1>2, <1>3, <2>1, RequestIsOwed
<1> QED
  BY <1>4, <1>5 DEF LlmInv

LEMMA RecordedInvariant ==
  ASSUME LlmInv, NEW c \in LlmCallers, NEW valid \in BOOLEAN, Recorded(c, valid)
  PROVE  LlmInv'
<1>1. LlmTypeOK /\ BreakerAgrees
  BY DEF LlmInv
<1> DEFINE b == AfterRecord(llm[c], valid)
<1>2. /\ Recording(c) /\ ledger' = [ledger EXCEPT !.rows = @ + 1]
      /\ llm' = [llm EXCEPT ![c] = b]
      /\ UNCHANGED <<failures, opened, calls, requests>>
  BY <1>1 DEF Recorded, LlmTypeOK
<1>3. /\ b \in CallType /\ b.pc \in {"idle", "asking", "backing off"}
      /\ b.pc # "idle" => b.at \in DOMAIN Chain
  BY <1>1, <1>2, AfterRecordType DEF Recording, LlmTypeOK
<1> HIDE DEF b
<1>4. CallsOK' /\ llm'[c] = b /\ \A d \in LlmCallers \ {c} : llm'[d] = llm[d]
  BY <1>1, <1>2, <1>3, CallMoves
<1>5. /\ ledger' \in [rows : Nat, lost : Nat, unrecorded : Nat]
      /\ ledger'.rows + ledger'.lost = ledger.rows + ledger.lost + 1
      /\ ledger'.unrecorded = ledger.unrecorded
  BY <1>1, <1>2 DEF LlmTypeOK
<1>6. LlmTypeOK'
  BY <1>1, <1>2, <1>4, <1>5 DEF LlmTypeOK, CallsOK
<1>7. BreakerAgrees'
  BY <1>1, <1>2 DEF BreakerAgrees
<1>8. LedgerAgrees'
  <2>1. ~Recording(c)'
    BY <1>3, <1>4 DEF Recording
  <2> QED
    BY <1>2, <1>4, <1>5, <2>1, RowIsWritten
<1> QED
  BY <1>6, <1>7, <1>8 DEF LlmInv

(* A call that ends, whatever it was at. *)
LEMMA CallIsOver ==
  ASSUME LlmTypeOK, NEW c \in LlmCallers, llm' = [llm EXCEPT ![c] = Idle]
  PROVE  CallsOK' /\ ~Recording(c)' /\ \A d \in LlmCallers \ {c} : llm'[d] = llm[d]
<1>1. Idle.pc = "idle"
  BY DEF Idle
<1>2. CallsOK' /\ llm'[c] = Idle /\ \A d \in LlmCallers \ {c} : llm'[d] = llm[d]
  BY <1>1, IdleType, CallMoves
<1> QED
  BY <1>1, <1>2 DEF Recording

LEMMA RecordRaisesInvariant ==
  ASSUME LlmInv, NEW c \in LlmCallers, NEW written \in BOOLEAN, RecordRaises(c, written)
  PROVE  LlmInv'
<1>1. LlmTypeOK /\ BreakerAgrees
  BY DEF LlmInv
<1>2. /\ Recording(c) /\ llm' = [llm EXCEPT ![c] = Idle]
      /\ ledger' = (IF written THEN [ledger EXCEPT !.rows = @ + 1] ELSE [ledger EXCEPT !.lost = @ + 1])
      /\ UNCHANGED <<failures, opened, calls, requests>>
  BY DEF RecordRaises
<1>3. CallsOK' /\ ~Recording(c)' /\ \A d \in LlmCallers \ {c} : llm'[d] = llm[d]
  BY <1>1, <1>2, CallIsOver
<1>4. /\ ledger' \in [rows : Nat, lost : Nat, unrecorded : Nat]
      /\ ledger'.rows + ledger'.lost = ledger.rows + ledger.lost + 1
      /\ ledger'.unrecorded = ledger.unrecorded
  <2>1. ledger \in [rows : Nat, lost : Nat, unrecorded : Nat]
    BY <1>1 DEF LlmTypeOK
  <2>2. CASE written
    BY <1>2, <2>1, <2>2
  <2>3. CASE ~written
    BY <1>2, <2>1, <2>3
  <2> QED
    BY <2>2, <2>3
<1>5. LlmTypeOK' /\ BreakerAgrees'
  BY <1>1, <1>2, <1>3, <1>4 DEF LlmTypeOK, CallsOK, BreakerAgrees
<1>6. LedgerAgrees'
  BY <1>2, <1>3, <1>4, RowIsWritten
<1> QED
  BY <1>5, <1>6 DEF LlmInv

LEMMA AskRaisesInvariant ==
  ASSUME LlmInv, NEW c \in LlmCallers, AskRaises(c)
  PROVE  LlmInv'
<1>1. LlmTypeOK /\ BreakerAgrees
  BY DEF LlmInv
<1>2. /\ llm[c].pc = "asking" /\ requests' = requests + 1
      /\ ledger' = [ledger EXCEPT !.unrecorded = @ + 1]
      /\ llm' = [llm EXCEPT ![c] = Idle]
      /\ UNCHANGED <<failures, opened, calls>>
  BY DEF AskRaises
<1>3. CallsOK' /\ ~Recording(c)' /\ \A d \in LlmCallers \ {c} : llm'[d] = llm[d]
  BY <1>1, <1>2, CallIsOver
<1>4. LlmTypeOK' /\ BreakerAgrees'
  BY <1>1, <1>2, <1>3 DEF LlmTypeOK, CallsOK, BreakerAgrees
<1>5. \A d \in LlmCallers : Recording(d) <=> Recording(d)'
  BY <1>2, <1>3 DEF Recording
<1>6. LedgerAgrees'
  BY <1>2, <1>5, RequestIsUnrecorded
<1> QED
  BY <1>4, <1>6 DEF LlmInv

LEMMA BackOffEndsInvariant ==
  ASSUME LlmInv, NEW c \in LlmCallers, BackOffEnds(c)
  PROVE  LlmInv'
<1>1. LlmTypeOK /\ BreakerAgrees
  BY DEF LlmInv
<1>2. /\ llm[c].pc = "backing off" /\ UNCHANGED <<failures, opened, calls, requests, ledger>>
      /\ \/ llm' = [llm EXCEPT ![c].pc = "asking"]
         \/ llm' = [llm EXCEPT ![c] = Idle]
  BY DEF BackOffEnds
<1>3. CallsOK' /\ ~Recording(c)' /\ \A d \in LlmCallers \ {c} : llm'[d] = llm[d]
  <2>1. CASE llm' = [llm EXCEPT ![c].pc = "asking"]
    BY <1>1, <1>2, <2>1, CallMovesOn DEF Recording
  <2>2. CASE llm' = [llm EXCEPT ![c] = Idle]
    BY <1>1, <2>2, CallIsOver
  <2> QED
    BY <1>2, <2>1, <2>2
<1>4. LlmTypeOK' /\ BreakerAgrees'
  BY <1>1, <1>2, <1>3 DEF LlmTypeOK, CallsOK, BreakerAgrees
<1>5. \A d \in LlmCallers : Recording(d) <=> Recording(d)'
  BY <1>2, <1>3 DEF Recording
<1>6. LedgerAgrees'
  BY <1>2, <1>5, NoRequest
<1> QED
  BY <1>4, <1>6 DEF LlmInv

LEMMA CooldownEndsInvariant ==
  ASSUME LlmInv, NEW p \in Providers, CooldownEnds(p)
  PROVE  LlmInv'
<1>1. LlmTypeOK' /\ BreakerAgrees'
  BY DEF LlmInv, CooldownEnds, LlmTypeOK, BreakerAgrees
<1>2. LedgerAgrees'
  BY NoRequest DEF CooldownEnds, Recording
<1> QED
  BY <1>1, <1>2 DEF LlmInv

-----------------------------------------------------------------------------
LEMMA LlmInvInit == LlmInit => LlmInv
<1> SUFFICES ASSUME LlmInit PROVE LlmInv
  OBVIOUS
<1>1. LlmTypeOK
  BY IdleType DEF LlmInit, LlmTypeOK, Idle
<1>2. BreakerAgrees
  BY LlmAssumption DEF LlmInit, BreakerAgrees
<1>3. LedgerAgrees
  <2>1. InLedger = {}
    BY DEF LlmInit, InLedger, Recording, Idle
  <2> QED
    BY <2>1, FS_EmptySet DEF LlmInit, LedgerAgrees
<1> QED
  BY <1>1, <1>2, <1>3 DEF LlmInv

LEMMA LlmInvStep == LlmInv /\ [LlmNext]_llmVars => LlmInv'
<1> SUFFICES ASSUME LlmInv, [LlmNext]_llmVars PROVE LlmInv'
  OBVIOUS
<1>1. ASSUME NEW c \in LlmCallers,
             Call(c) \/ Answered(c) \/ Failed(c) \/ AskRaises(c) \/ RateLimited(c)
               \/ BackOffEnds(c) \/ \E written \in BOOLEAN : RecordRaises(c, written)
      PROVE  LlmInv'
  BY <1>1, CalledInvariant, AnsweredInvariant, FailedInvariant, AskRaisesInvariant, RateLimitedInvariant,
     BackOffEndsInvariant, RecordRaisesInvariant
<1>2. ASSUME NEW c \in LlmCallers, NEW valid \in BOOLEAN, Recorded(c, valid) PROVE LlmInv'
  BY <1>2, RecordedInvariant
<1>3. ASSUME NEW p \in Providers, CooldownEnds(p) PROVE LlmInv'
  BY <1>3, CooldownEndsInvariant
<1>4. CASE UNCHANGED llmVars
  BY <1>4 DEF llmVars, LlmInv, LlmTypeOK, BreakerAgrees, LedgerAgrees, InLedger, Recording
<1> QED
  BY <1>1, <1>2, <1>3, <1>4 DEF LlmNext

(* The calls, the breaker and the ledger are well typed; a call that is     *)
(* under way is at a provider of the chain (client.py:283-345).            *)
THEOREM LlmTypeCorrect == LlmSpec => []LlmTypeOK
<1>1. LlmInv => LlmTypeOK
  BY DEF LlmInv
<1> QED
  BY <1>1, LlmInvInit, LlmInvStep, PTL DEF LlmSpec

(* The breaker of a provider is out of its closed state exactly when the    *)
(* threshold was reached since its last success, and the ledger misses no   *)
(* request but those it could not write and those whose end generate() does *)
(* not catch, however calls overlap.                                       *)
THEOREM BreakerFollowsFailures == LlmSpec => []BreakerAndLedgerAgree
<1>1. LlmInv => BreakerAndLedgerAgree
  BY AgreementParts DEF LlmInv
<1> QED
  BY <1>1, LlmInvInit, LlmInvStep, PTL DEF LlmSpec

-----------------------------------------------------------------------------
(* All of them side by side (MCServices). *)

(* One of the services moves at a time, from an initial state of it: what   *)
(* is proved of a service holds in the composition.                        *)
THEOREM ServicesAreTheirParts ==
  ServicesSpec => /\ TriageSpec /\ LlmSpec /\ InterceptorSpec /\ ProxySpec
                  /\ CrawlSpec /\ IntruderSpec /\ ReportsSpec
<1>1. ServicesInit => /\ TriageInit /\ LlmInit /\ InterceptorInit /\ ProxyInit
                      /\ CrawlInit /\ IntruderInit /\ ReportsInit
  BY DEF ServicesInit
<1>2. [ServicesNext]_servicesVars =>
        /\ [TriageNext]_triageVars /\ [LlmNext]_llmVars
        /\ [InterceptorNext]_interceptorVars /\ [ProxyNext]_proxyVars
        /\ [CrawlNext]_crawlVars /\ [IntruderNext]_intruderVars /\ [ReportsNext]_reportVars
  BY DEF ServicesNext, servicesVars
<1> QED
  BY <1>1, <1>2, PTL DEF ServicesSpec, TriageSpec, LlmSpec, InterceptorSpec, ProxySpec,
                         CrawlSpec, IntruderSpec, ReportsSpec

(* The types of all services, in the composition of them. *)
THEOREM ServicesTypeCorrect == ServicesSpec => []ServicesTypeOK
BY ServicesAreTheirParts, TriageTypeCorrect, LlmTypeCorrect, InterceptorTypeCorrect,
   ProxyTypeCorrect, CrawlTypeCorrect, IntruderTypeCorrect, ReportsTypeCorrect,
   PTL DEF ServicesTypeOK
=============================================================================

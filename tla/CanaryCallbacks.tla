-------------------------- MODULE CanaryCallbacks --------------------------
(***************************************************************************)
(* The out-of-band stages of the scanners (pwnproxy/shared/scan/stages/),   *)
(* the registry of canary tokens (pwnproxy/shared/canary.py) and the HTTP   *)
(* server that receives the callbacks (pwnproxy/shared/http_server.py).     *)
(*                                                                         *)
(* Every scanner plugin has a consumer of its own, so stages of several     *)
(* plugins are at work at a time, on one registry.  A stage creates a       *)
(* token for its point, sends its payloads one after the other, waits two   *)
(* seconds and looks the token up.  The target calls back when it likes,    *)
(* provided it resolves the name oob.pwnproxy that the sqli, lfi and xxe    *)
(* stages use (the ssrf stages use the address of the server).              *)
(*                                                                         *)
(* A tick is the timeout of the client, 30 s: a request in flight sees at   *)
(* most one, and so does the wait.                                         *)
(***************************************************************************)
EXTENDS Naturals, FiniteSets, Functions

CONSTANTS
  Scanners,     \* plugins with an out-of-band stage that run concurrently
  StageKind,    \* [Scanners -> OobKinds]
  OobPayloads,  \* payloads the sqli and lfi stages send about a point (4)
  Life,         \* ticks a token lives (2: is_expired after 60 s)
  MaxTests      \* bound: tokens created

OobKinds == {"sqli", "lfi", "xxe", "ssrf-simple", "ssrf-oob"}

ASSUME CanaryAssumption ==
  /\ StageKind \in [Scanners -> OobKinds]
  /\ OobPayloads \in Nat \ {0} /\ Life \in Nat /\ MaxTests \in Nat

VARIABLES
  server,    \* the callback server: boot, up or down
  registry,  \* _tokens: token -> its age and callback_received
  tester,    \* [Scanners -> the test its stage is making; age is history]
  created,   \* tokens created so far; a token is its number
  accepted,  \* history: tokens whose callback was answered 200
  ended      \* history: how each test ended

canaryVars == <<server, registry, tester, created, accepted, ended>>

Idle == [phase |-> "idle", token |-> 0, left |-> 0, ticked |-> FALSE, age |-> 0]

CanaryInit ==
  /\ server = "boot" /\ registry = <<>> /\ tester = [s \in Scanners |-> Idle]
  /\ created = 0 /\ accepted = {} /\ ended = {}

-----------------------------------------------------------------------------
(* cli/start.py: a port that is taken leaves the program without callbacks. *)
ServerStarts ==
  /\ server = "boot" /\ server' \in {"up", "down"}
  /\ UNCHANGED <<registry, tester, created, accepted, ended>>

Expired(t) == registry[t].age > Life

(* Mutant: what was called back is taken for done. *)
CleanupCalled(r) == Restrict(r, {t \in DOMAIN r : ~r[t].called})

(* cleanup_expired() *)
Cleanup(r) == Restrict(r, {t \in DOMAIN r : ~Expired(t)})

Sends(kind) == IF kind \in {"sqli", "lfi"} THEN OobPayloads ELSE 1

(* The stage reaches a point: registry.create().  SsrfSimpleStage returns   *)
(* at once when the server does not run.                                   *)
BeginTest(s) ==
  /\ server # "boot" /\ tester[s].phase = "idle" /\ created < MaxTests
  /\ StageKind[s] = "ssrf-simple" => server = "up"
  /\ created' = created + 1
  /\ registry' = [t \in DOMAIN registry \cup {created'} |->
                    IF t = created' THEN [age |-> 0, called |-> FALSE] ELSE registry[t]]
  /\ tester' = [tester EXCEPT ![s] = [phase |-> "sending", token |-> created',
                                      left |-> Sends(StageKind[s]), ticked |-> FALSE, age |-> 0]]
  /\ UNCHANGED <<server, accepted, ended>>

(* replay() returns: the next payload, or the wait. *)
Answered(s) ==
  /\ tester[s].phase = "sending"
  /\ tester' = [tester EXCEPT ![s].left = @ - 1, ![s].ticked = FALSE,
                              ![s].phase = IF tester[s].left = 1 THEN "waiting" ELSE @]
  /\ UNCHANGED <<server, registry, created, accepted, ended>>

(* replay() returns None: the ssrf stages give the point up, and only       *)
(* SsrfSimpleStage cleans up as it does; the others go on.                  *)
NotAnswered(s) ==
  /\ tester[s].phase = "sending" /\ StageKind[s] \in {"ssrf-simple", "ssrf-oob"}
  /\ tester' = [tester EXCEPT ![s] = Idle]
  /\ registry' = IF StageKind[s] = "ssrf-simple" THEN Cleanup(registry) ELSE registry
  /\ UNCHANGED <<server, created, accepted, ended>>

(* After the two seconds: registry.get(), the verdict, cleanup_expired(). *)
Look(s) ==
  LET t     == tester[s].token
      known == t \in DOMAIN registry
  IN /\ tester[s].phase = "waiting"
     /\ ended' = ended \cup {[token |-> t, found |-> known /\ registry[t].called,
                              accepted |-> t \in accepted,
                              inTime |-> tester[s].age <= Life]}
     /\ registry' = Cleanup(registry)
     /\ tester' = [tester EXCEPT ![s] = Idle]
     /\ UNCHANGED <<server, created, accepted>>

(* _handle_callback() and mark_callback(): the target requests the URL of   *)
(* token t, late or again; a token that is unknown or expired is a 404.     *)
Callback(t) ==
  /\ server = "up"
  /\ t \in DOMAIN registry /\ ~Expired(t)
  /\ registry' = [registry EXCEPT ![t].called = TRUE]
  /\ accepted' = accepted \cup {t}
  /\ UNCHANGED <<server, tester, created, ended>>

(* 30 s pass. *)
Tick ==
  /\ registry # <<>>
  /\ \A s \in Scanners : ~tester[s].ticked
  /\ registry' = [t \in DOMAIN registry |->
                    [registry[t] EXCEPT !.age = IF @ > Life THEN @ ELSE @ + 1]]
  /\ tester' = [s \in Scanners |-> IF tester[s].phase = "idle" THEN Idle
                   ELSE [tester[s] EXCEPT !.ticked = TRUE, !.age = @ + 1]]
  /\ UNCHANGED <<server, created, accepted, ended>>

CanaryNext ==
  \/ ServerStarts
  \/ \E s \in Scanners : BeginTest(s) \/ Answered(s) \/ NotAnswered(s) \/ Look(s)
  \/ \E t \in 1 .. created : Callback(t)
  \/ Tick

CanarySpec == CanaryInit /\ [][CanaryNext]_canaryVars

-----------------------------------------------------------------------------
CanaryTypeOK ==
  /\ server \in {"boot", "up", "down"}
  /\ DOMAIN registry \subseteq 1 .. created
  /\ \A s \in Scanners :
       /\ tester[s].phase \in {"idle", "sending", "waiting"}
       /\ tester[s].token \in 0 .. created
  /\ accepted \subseteq 1 .. created

(* A finding of an out-of-band stage is "confirmed" (sqli_stages.py:410):   *)
(* it rests on a callback to the very token of its test, and a callback     *)
(* that is accepted is never overlooked by a look-up within the life of the *)
(* token, whatever the other scanners clean up meanwhile.  (A token that    *)
(* outlives it may be cleaned up by another scanner with its callback.)     *)
CallbackDecides ==
  \A e \in ended :
    /\ e.found => e.accepted
    /\ e.accepted /\ e.inTime => e.found
=============================================================================

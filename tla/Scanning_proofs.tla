--------------------------- MODULE Scanning_proofs ---------------------------
(***************************************************************************)
(* Proofs about the scanning side: the out-of-band stages with their       *)
(* registry, the plugin host with its consumers and its auto-scan windows, *)
(* and the detection chains, for any number of plugins, toggles, flows,    *)
(* points and tests.  The theorems are about the specification of each, and *)
(* about what follows for the HookBus between scanners and storage; at the  *)
(* end, about their composition.                                           *)
(***************************************************************************)
EXTENDS MCScanning, HookBus_proofs

-----------------------------------------------------------------------------
(* The out-of-band stages and their callbacks (CanaryCallbacks). *)

TokenState == [age : 0 .. Life + 1, called : BOOLEAN]

TestState == [phase  : {"idle", "sending", "waiting"},
              token  : Nat,
              left   : Int,
              ticked : BOOLEAN,
              age    : Nat]

Verdict == [token : Nat, found : BOOLEAN, accepted : BOOLEAN, inTime : BOOLEAN]

CanaryTyped ==
  /\ server \in {"boot", "up", "down"} /\ created \in Nat
  /\ DOMAIN registry \subseteq 1 .. created
  /\ registry \in [DOMAIN registry -> TokenState]
  /\ tester \in [Scanners -> TestState]
  /\ \A s \in Scanners : tester[s].token <= created
  /\ accepted \subseteq 1 .. created
  /\ ended \subseteq Verdict

(* The mark of a token in the registry is what its callbacks were answered. *)
MarkIsAnswer == \A t \in DOMAIN registry : registry[t].called <=> t \in accepted

(* The token of a test ages with the test, and stays in the registry as     *)
(* long as it lives.                                                       *)
TokenOf(s) ==
  LET x == tester[s]
  IN x.phase # "idle" =>
       /\ x.token \in 1 .. created
       /\ x.token \in DOMAIN registry =>
            registry[x.token].age = IF x.age > Life THEN Life + 1 ELSE x.age
       /\ x.age <= Life => x.token \in DOMAIN registry

TokensAgeWithTests == \A s \in Scanners : TokenOf(s)

CanaryIInv == CanaryTyped /\ MarkIsAnswer /\ TokensAgeWithTests /\ CallbackDecides

LEMMA LifeIsNat == Life \in Nat /\ Life + 1 \in Nat /\ 0 \in 0 .. Life + 1
BY CanaryAssumption

LEMMA PayloadsSent == \A k \in OobKinds : Sends(k) \in Int
BY CanaryAssumption DEF Sends

LEMMA IdleTyped == Idle \in TestState /\ Idle.phase = "idle" /\ Idle.token = 0
BY DEF Idle, TestState

(* What cleanup_expired() leaves: all that is alive. *)
LEMMA CleanupKeeps ==
  ASSUME CanaryTyped
  PROVE  /\ DOMAIN Cleanup(registry) = {t \in DOMAIN registry : registry[t].age <= Life}
         /\ \A t \in DOMAIN Cleanup(registry) : Cleanup(registry)[t] = registry[t]
         /\ Cleanup(registry) \in [DOMAIN Cleanup(registry) -> TokenState]
<1>1. \A t \in DOMAIN registry : registry[t] \in TokenState /\ registry[t].age \in 0 .. Life + 1
  BY DEF CanaryTyped, TokenState
<1>2. {t \in DOMAIN registry : ~Expired(t)} = {t \in DOMAIN registry : registry[t].age <= Life}
  <2> SUFFICES ASSUME NEW t \in DOMAIN registry
               PROVE  ~Expired(t) <=> registry[t].age <= Life
    OBVIOUS
  <2>1. registry[t].age \in Int /\ Life \in Int
    BY <1>1, LifeIsNat
  <2> QED
    BY <2>1 DEF Expired
<1>3. Cleanup(registry) = [t \in {t \in DOMAIN registry : ~Expired(t)} |-> registry[t]]
  BY DEF Cleanup, Restrict
<1> QED
  BY <1>1, <1>2, <1>3

(* Of a test whose registry has been cleaned up, as of one that goes on     *)
(* with nothing changed, what is known stays known.                        *)
LEMMA CleanedKnows ==
  ASSUME CanaryTyped, MarkIsAnswer, TokensAgeWithTests,
         registry' = registry \/ registry' = Cleanup(registry), UNCHANGED <<created, accepted>>
  PROVE  /\ DOMAIN registry' \subseteq 1 .. created
         /\ registry' \in [DOMAIN registry' -> TokenState]
         /\ MarkIsAnswer'
         /\ \A s \in Scanners :
              /\ tester'[s].phase # "idle" /\ tester[s].phase # "idle"
              /\ tester'[s].token = tester[s].token /\ tester'[s].age = tester[s].age
              => TokenOf(s)'
<1>1. /\ DOMAIN registry' \subseteq DOMAIN registry
      /\ \A t \in DOMAIN registry : registry[t].age <= Life => t \in DOMAIN registry'
      /\ \A t \in DOMAIN registry' : registry'[t] = registry[t]
      /\ registry' \in [DOMAIN registry' -> TokenState]
  BY CleanupKeeps DEF CanaryTyped
<1>2. DOMAIN registry' \subseteq 1 .. created /\ MarkIsAnswer'
  BY <1>1 DEF CanaryTyped, MarkIsAnswer
<1>3. ASSUME NEW s \in Scanners, tester'[s].phase # "idle", tester[s].phase # "idle",
             tester'[s].token = tester[s].token, tester'[s].age = tester[s].age
      PROVE  TokenOf(s)'
  <2>1. TokenOf(s) /\ tester[s].age \in Int /\ Life \in Int
    BY LifeIsNat DEF TokensAgeWithTests, CanaryTyped, TestState
  <2> QED
    BY <1>1, <1>3, <2>1 DEF TokenOf
<1> QED
  BY <1>1, <1>2, <1>3

LEMMA BeginTestInvariant ==
  ASSUME CanaryIInv, NEW s \in Scanners, BeginTest(s)
  PROVE  CanaryIInv'
<1>1. /\ CanaryTyped /\ MarkIsAnswer /\ TokensAgeWithTests /\ CallbackDecides
      /\ created' = created + 1 /\ UNCHANGED <<server, accepted, ended>>
      /\ registry' = [t \in DOMAIN registry \cup {created'} |->
                        IF t = created' THEN [age |-> 0, called |-> FALSE] ELSE registry[t]]
  BY DEF CanaryIInv, BeginTest
<1>2. PICK x \in TestState :
        /\ tester' = [tester EXCEPT ![s] = x]
        /\ x.phase = "sending" /\ x.token = created' /\ x.age = 0
  <2>1. Sends(StageKind[s]) \in Int /\ created' \in Nat
    BY <1>1, PayloadsSent, CanaryAssumption DEF CanaryTyped
  <2>2. [phase |-> "sending", token |-> created', left |-> Sends(StageKind[s]), ticked |-> FALSE,
         age |-> 0] \in TestState
    BY <2>1 DEF TestState
  <2> QED
    BY <2>2 DEF BeginTest
<1>3. created' \in Nat /\ created' \notin DOMAIN registry /\ created' \notin accepted
      /\ created' \notin 1 .. created /\ created' \in 1 .. created' /\ 1 .. created \subseteq 1 .. created' /\ created <= created'
  BY <1>1 DEF CanaryTyped
<1>4. /\ DOMAIN registry' = DOMAIN registry \cup {created'}
      /\ \A t \in DOMAIN registry : registry'[t] = registry[t]
      /\ registry'[created'].age = 0 /\ registry'[created'].called = FALSE
      /\ registry'[created'] \in TokenState
  <2>1. [age |-> 0, called |-> FALSE] \in TokenState
    BY LifeIsNat DEF TokenState
  <2> QED
    BY <1>1, <1>3, <2>1
<1>5. registry' \in [DOMAIN registry' -> TokenState]
  BY <1>1, <1>4 DEF CanaryTyped
<1>6. /\ tester' \in [Scanners -> TestState] /\ tester'[s] = x
      /\ \A r \in Scanners \ {s} : tester'[r] = tester[r]
  BY <1>1, <1>2 DEF CanaryTyped
<1>7. CanaryTyped'
  <2>1. \A r \in Scanners : tester'[r].token <= created'
    <3> SUFFICES ASSUME NEW r \in Scanners PROVE tester'[r].token <= created'
      OBVIOUS
    <3>1. CASE r = s
      BY <1>2, <1>3, <1>6, <3>1
    <3>2. CASE r # s
      <4>1. tester[r].token \in Nat /\ tester[r].token <= created /\ created \in Nat
        BY <1>1 DEF CanaryTyped, TestState
      <4> QED
        BY <1>1, <1>6, <3>2, <4>1
    <3> QED
      BY <3>1, <3>2
  <2>2. DOMAIN registry' \subseteq 1 .. created' /\ accepted' \subseteq 1 .. created'
    BY <1>1, <1>3, <1>4 DEF CanaryTyped
  <2> QED
    BY <1>1, <1>3, <1>5, <1>6, <2>1, <2>2 DEF CanaryTyped
<1>8. MarkIsAnswer'
  BY <1>1, <1>3, <1>4 DEF MarkIsAnswer
<1>9. TokensAgeWithTests'
  <2> SUFFICES ASSUME NEW r \in Scanners PROVE TokenOf(r)'
    BY DEF TokensAgeWithTests
  <2>1. CASE r = s
    <3>1. ~(0 > Life)
      BY LifeIsNat
    <3> QED
      BY <1>2, <1>3, <1>4, <1>6, <2>1, <3>1 DEF TokenOf
  <2>2. CASE r # s
    <3>1. TokenOf(r) /\ tester'[r] = tester[r]
      BY <1>1, <1>6, <2>2 DEF TokensAgeWithTests
    <3> QED
      BY <1>3, <1>4, <3>1 DEF TokenOf
  <2> QED
    BY <2>1, <2>2
<1> QED
  BY <1>1, <1>7, <1>8, <1>9 DEF CanaryIInv, CallbackDecides

(* A test goes on, is given up or ends; what it ends with is the verdict. *)
LEMMA TestGoesOn ==
  ASSUME CanaryIInv, NEW s \in Scanners,
         tester' \in [Scanners -> TestState], \A r \in Scanners \ {s} : tester'[r] = tester[r],
         tester'[s] = Idle \/ (/\ tester[s].phase # "idle" /\ tester'[s].token = tester[s].token
                               /\ tester'[s].age = tester[s].age),
         registry' = registry \/ registry' = Cleanup(registry),
         UNCHANGED <<server, created, accepted>>, ended' \subseteq Verdict, CallbackDecides'
  PROVE  CanaryIInv'
<1>1. CanaryTyped /\ MarkIsAnswer /\ TokensAgeWithTests
  BY DEF CanaryIInv
<1>2. /\ DOMAIN registry' \subseteq 1 .. created
      /\ registry' \in [DOMAIN registry' -> TokenState]
      /\ MarkIsAnswer'
      /\ \A r \in Scanners :
           /\ tester'[r].phase # "idle" /\ tester[r].phase # "idle"
           /\ tester'[r].token = tester[r].token /\ tester'[r].age = tester[r].age
           => TokenOf(r)'
  BY <1>1, CleanedKnows
<1>3. \A r \in Scanners : TokenOf(r)'
  <2> SUFFICES ASSUME NEW r \in Scanners, tester'[r].phase # "idle" PROVE TokenOf(r)'
    BY DEF TokenOf
  <2> QED
    BY <1>2, IdleTyped
<1>4. CanaryTyped'
  <2>1. \A r \in Scanners : tester'[r].token <= created
    <3>1. created \in Nat /\ 0 <= created
      BY <1>1 DEF CanaryTyped
    <3> QED
      BY <1>1, <3>1, IdleTyped DEF CanaryTyped
  <2> QED
    BY <1>1, <1>2, <2>1 DEF CanaryTyped
<1> QED
  BY <1>2, <1>3, <1>4 DEF CanaryIInv, TokensAgeWithTests

LEMMA StageInvariant ==
  ASSUME CanaryIInv, NEW s \in Scanners, Answered(s) \/ NotAnswered(s) \/ Look(s)
  PROVE  CanaryIInv'
<1>1. /\ CanaryTyped /\ MarkIsAnswer /\ TokensAgeWithTests /\ CallbackDecides
      /\ tester[s] \in TestState /\ tester[s].phase # "idle"
  BY DEF CanaryIInv, CanaryTyped, Answered, NotAnswered, Look
<1>2. CASE Answered(s)
  <2>1. /\ tester' = [tester EXCEPT ![s].left = @ - 1, ![s].ticked = FALSE,
                                   ![s].phase = IF tester[s].left = 1 THEN "waiting" ELSE @]
        /\ UNCHANGED <<server, registry, created, accepted, ended>>
    BY <1>2 DEF Answered
  <2>2. /\ tester' \in [Scanners -> TestState] /\ \A r \in Scanners \ {s} : tester'[r] = tester[r]
        /\ tester'[s].token = tester[s].token /\ tester'[s].age = tester[s].age
    <3>1. PICK p \in {"sending", "waiting"} :
            p = IF tester[s].left = 1 THEN "waiting" ELSE tester[s].phase
      BY <1>1, <1>2 DEF Answered
    <3>2. tester' = [tester EXCEPT ![s].left = @ - 1, ![s].ticked = FALSE, ![s].phase = p]
      BY <2>1, <3>1
    <3>3. \A r \in Scanners : tester[r] \in TestState /\ tester[r].left - 1 \in Int
      BY <1>1 DEF CanaryTyped, TestState
    <3> QED
      BY <1>1, <3>1, <3>2, <3>3 DEF CanaryTyped, TestState
  <2>3. CallbackDecides' /\ ended' \subseteq Verdict
    BY <1>1, <2>1 DEF CallbackDecides, CanaryTyped
  <2> QED
    BY <1>1, <2>1, <2>2, <2>3, TestGoesOn
<1>3. CASE NotAnswered(s)
  <2>1. /\ tester' = [tester EXCEPT ![s] = Idle]
        /\ registry' = registry \/ registry' = Cleanup(registry)
        /\ UNCHANGED <<server, created, accepted, ended>>
    BY <1>3 DEF NotAnswered
  <2>2. CallbackDecides' /\ ended' \subseteq Verdict
    BY <1>1, <2>1 DEF CallbackDecides, CanaryTyped
  <2>3. /\ tester' \in [Scanners -> TestState] /\ tester'[s] = Idle
        /\ \A r \in Scanners \ {s} : tester'[r] = tester[r]
    BY <1>1, <2>1, IdleTyped DEF CanaryTyped
  <2> QED
    BY <2>1, <2>2, <2>3, TestGoesOn
<1>4. CASE Look(s)
  <2> DEFINE t     == tester[s].token
             found == t \in DOMAIN registry /\ registry[t].called
             e     == [token |-> t, found |-> found, accepted |-> t \in accepted,
                       inTime |-> tester[s].age <= Life]
  <2>1. /\ ended' = ended \cup {e} /\ registry' = Cleanup(registry)
        /\ tester' = [tester EXCEPT ![s] = Idle] /\ UNCHANGED <<server, created, accepted>>
    BY <1>4 DEF Look
  <2>2. e \in Verdict
    BY <1>1 DEF Verdict, TestState
  <2>3. e.found => e.accepted
    BY <1>1 DEF MarkIsAnswer
  <2>4. e.accepted /\ e.inTime => e.found
    BY <1>1 DEF MarkIsAnswer, TokensAgeWithTests, TokenOf
  <2> HIDE DEF e
  <2>5. CallbackDecides' /\ ended' \subseteq Verdict
    BY <1>1, <2>1, <2>2, <2>3, <2>4 DEF CallbackDecides, CanaryTyped
  <2>6. /\ tester' \in [Scanners -> TestState] /\ tester'[s] = Idle
        /\ \A r \in Scanners \ {s} : tester'[r] = tester[r]
    BY <1>1, <2>1, IdleTyped DEF CanaryTyped
  <2> QED
    BY <2>1, <2>5, <2>6, TestGoesOn
<1> QED
  BY <1>2, <1>3, <1>4
LEMMA CallbackInvariant ==
  ASSUME CanaryIInv, NEW t, Callback(t)
  PROVE  CanaryIInv'
<1>1. /\ CanaryTyped /\ MarkIsAnswer /\ TokensAgeWithTests /\ CallbackDecides
      /\ t \in DOMAIN registry /\ t \in 1 .. created
      /\ registry' = [registry EXCEPT ![t].called = TRUE] /\ accepted' = accepted \cup {t}
      /\ UNCHANGED <<server, tester, created, ended>>
  BY DEF CanaryIInv, CanaryTyped, Callback
<1>2. \A u \in DOMAIN registry : registry[u] \in TokenState
  BY <1>1 DEF CanaryTyped
<1>3. /\ DOMAIN registry' = DOMAIN registry
      /\ \A u \in DOMAIN registry :
           /\ registry'[u] \in TokenState /\ registry'[u].age = registry[u].age
           /\ registry'[u].called = (u = t \/ registry[u].called)
  BY <1>1, <1>2 DEF TokenState
<1>4. registry' \in [DOMAIN registry' -> TokenState]
  BY <1>1, <1>3
<1>5. CanaryTyped'
  BY <1>1, <1>3, <1>4 DEF CanaryTyped
<1>6. MarkIsAnswer'
  BY <1>1, <1>3 DEF MarkIsAnswer
<1>7. TokensAgeWithTests'
  BY <1>1, <1>3 DEF TokensAgeWithTests, TokenOf
<1> QED
  BY <1>1, <1>5, <1>6, <1>7 DEF CanaryIInv, CallbackDecides

(* 30 s pass: every token grows older, and so does every test. *)
LEMMA TickInvariant ==
  ASSUME CanaryIInv, Tick
  PROVE  CanaryIInv'
<1>1. /\ CanaryTyped /\ MarkIsAnswer /\ TokensAgeWithTests /\ CallbackDecides
      /\ registry' = [t \in DOMAIN registry |->
                        [registry[t] EXCEPT !.age = IF @ > Life THEN @ ELSE @ + 1]]
      /\ tester' = [s \in Scanners |-> IF tester[s].phase = "idle" THEN Idle
                       ELSE [tester[s] EXCEPT !.ticked = TRUE, !.age = @ + 1]]
      /\ UNCHANGED <<server, created, accepted, ended>>
  BY DEF CanaryIInv, Tick
<1>2. DOMAIN registry' = DOMAIN registry
  BY <1>1
<1>3. ASSUME NEW t \in DOMAIN registry
      PROVE  /\ registry'[t] \in TokenState /\ registry'[t].called = registry[t].called
             /\ registry'[t].age = IF registry[t].age > Life THEN registry[t].age
                                   ELSE registry[t].age + 1
             /\ registry[t].age \in 0 .. Life + 1
  <2>1. PICK r \in TokenState : r = registry[t]
    BY <1>1 DEF CanaryTyped
  <2>2. PICK a : a = IF r.age > Life THEN r.age ELSE r.age + 1
    OBVIOUS
  <2>3. a \in 0 .. Life + 1 /\ r.age \in 0 .. Life + 1
    BY <2>2, LifeIsNat DEF TokenState
  <2>4. registry'[t] = [r EXCEPT !.age = a]
    BY <1>1, <2>1, <2>2
  <2> QED
    BY <2>1, <2>2, <2>3, <2>4 DEF TokenState
<1>4. ASSUME NEW s \in Scanners
      PROVE  /\ tester'[s] \in TestState
             /\ tester[s].phase = "idle" => tester'[s] = Idle
             /\ tester[s].phase # "idle" =>
                  /\ tester'[s].phase = tester[s].phase /\ tester'[s].token = tester[s].token
                  /\ tester'[s].age = tester[s].age + 1
  <2>1. PICK x \in TestState : x = tester[s]
    BY <1>1 DEF CanaryTyped
  <2>2. CASE x.phase = "idle"
    BY <1>1, <2>1, <2>2, IdleTyped
  <2>3. CASE x.phase # "idle"
    <3>1. PICK a \in Nat : a = x.age + 1
      BY DEF TestState
    <3>2. tester'[s] = [x EXCEPT !.ticked = TRUE, !.age = a]
      BY <1>1, <2>1, <2>3, <3>1
    <3> QED
      BY <2>1, <2>3, <3>1, <3>2 DEF TestState
  <2> QED
    BY <2>2, <2>3
<1>5. registry' \in [DOMAIN registry' -> TokenState] /\ tester' \in [Scanners -> TestState]
  BY <1>1, <1>2, <1>3, <1>4
<1>6. CanaryTyped'
  <2>1. \A s \in Scanners : tester'[s].token <= created
    <3>1. CanaryTyped
      BY <1>1
    <3>2. created \in Nat /\ 0 <= created /\ \A s \in Scanners : tester[s].token <= created
      BY <3>1 DEF CanaryTyped
    <3> QED
      BY <1>4, <3>2, IdleTyped
  <2> QED
    BY <1>1, <1>2, <1>5, <2>1 DEF CanaryTyped
<1>7. MarkIsAnswer'
  BY <1>1, <1>2, <1>3 DEF MarkIsAnswer
<1>8. TokensAgeWithTests'
  <2> SUFFICES ASSUME NEW s \in Scanners, tester'[s].phase # "idle" PROVE TokenOf(s)'
    BY DEF TokensAgeWithTests, TokenOf
  <2>1. /\ tester[s].phase # "idle" /\ TokenOf(s) /\ tester[s].age \in Nat
        /\ tester'[s].token = tester[s].token /\ tester'[s].age = tester[s].age + 1
    BY <1>1, <1>4, IdleTyped DEF TokensAgeWithTests, CanaryTyped, TestState
  <2>2. PICK a \in Nat, k \in 1 .. created :
          a = tester[s].age /\ k = tester[s].token /\ tester'[s].age = a + 1 /\ tester'[s].token = k
    BY <2>1 DEF TokenOf
  <2>3. k \in DOMAIN registry => registry[k].age = IF a > Life THEN Life + 1 ELSE a
    BY <2>1, <2>2 DEF TokenOf
  <2>4. k \in DOMAIN registry' => registry'[k].age = IF a + 1 > Life THEN Life + 1 ELSE a + 1
    BY <1>2, <1>3, <2>3, LifeIsNat
  <2>5. a + 1 <= Life => k \in DOMAIN registry'
    BY <1>2, <2>1, <2>2, LifeIsNat DEF TokenOf
  <2> QED
    BY <1>1, <2>2, <2>4, <2>5 DEF TokenOf
<1> QED
  BY <1>1, <1>6, <1>7, <1>8 DEF CanaryIInv, CallbackDecides

LEMMA CanaryInitInvariant == CanaryInit => CanaryIInv
<1> SUFFICES ASSUME CanaryInit PROVE CanaryIInv
  OBVIOUS
<1>1. /\ server = "boot" /\ created = 0 /\ accepted = {} /\ ended = {}
      /\ tester \in [Scanners -> TestState] /\ \A s \in Scanners : tester[s] = Idle
  BY IdleTyped DEF CanaryInit
<1>2. DOMAIN registry = {} /\ registry \in [{} -> TokenState]
  BY DEF CanaryInit
<1>3. CanaryTyped
  BY <1>1, <1>2, IdleTyped DEF CanaryTyped
<1> QED
  BY <1>1, <1>2, <1>3, IdleTyped
     DEF CanaryIInv, MarkIsAnswer, TokensAgeWithTests, TokenOf, CallbackDecides

LEMMA CanaryNextInvariant ==
  ASSUME CanaryIInv, [CanaryNext]_canaryVars
  PROVE  CanaryIInv'
<1>1. CASE CanaryNext
  <2>1. ASSUME ServerStarts PROVE CanaryIInv'
    BY <2>1 DEF ServerStarts, CanaryIInv, CanaryTyped, MarkIsAnswer, TokensAgeWithTests, TokenOf,
                CallbackDecides
  <2> QED
    BY <1>1, <2>1, BeginTestInvariant, StageInvariant, CallbackInvariant, TickInvariant
       DEF CanaryNext
<1>2. CASE UNCHANGED canaryVars
  BY <1>2 DEF canaryVars, CanaryIInv, CanaryTyped, MarkIsAnswer, TokensAgeWithTests, TokenOf,
              CallbackDecides
<1> QED
  BY <1>1, <1>2

LEMMA CanaryInvariant == CanarySpec => []CanaryIInv
BY CanaryInitInvariant, CanaryNextInvariant, PTL DEF CanarySpec

(* The server, the registry and the tests hold values of their types, and   *)
(* no token is known that was not created.                                 *)
THEOREM CanaryTypeCorrect == CanarySpec => []CanaryTypeOK
<1>1. CanaryIInv => CanaryTypeOK
  <2> SUFFICES ASSUME CanaryTyped PROVE CanaryTypeOK
    BY DEF CanaryIInv
  <2>1. \A s \in Scanners :
          /\ tester[s].phase \in {"idle", "sending", "waiting"}
          /\ tester[s].token \in 0 .. created
    BY DEF CanaryTyped, TestState
  <2> QED
    BY <2>1 DEF CanaryTyped, CanaryTypeOK
<1> QED
  BY <1>1, CanaryInvariant, PTL

(* However many scanners share the registry, and whatever they clean up: a  *)
(* stage finds what was called back and accepted for its own token within   *)
(* the life of the token, and reports nothing that was not.                *)
THEOREM VerdictsRestOnCallbacks == CanarySpec => []CallbackDecides
<1>1. CanaryIInv => CallbackDecides
  BY DEF CanaryIInv
<1> QED
  BY <1>1, CanaryInvariant, PTL

-----------------------------------------------------------------------------
(* The windows of the auto-scan (PluginHost, its trackerVars). *)

Announcement == [event : {"started", "completed"}, id : Nat]

(* BatchLifecycle, of any sequence of announcements. *)
Ends(a, i) == \E k \in DOMAIN a : k >= i /\ a[k] = Say("completed", a[i].id)

WindowsInTurn(a) ==
  \A i, j \in DOMAIN a : i < j =>
    /\ a[i].id <= a[j].id
    /\ a[i].event = "completed" => a[i].id < a[j].id
    /\ a[i].id < a[j].id => \E k \in DOMAIN a : i <= k /\ k < j /\ a[k] = Say("completed", a[i].id)

(* Window n is the last one, and is open; or all up to n are over. *)
IsOpen(a, n) ==
  \A i \in DOMAIN a :
    /\ a[i].id <= n
    /\ a[i].id = n => a[i].event = "started"
    /\ a[i].id < n => Ends(a, i)

AllOver(a, n) == \A i \in DOMAIN a : a[i].id <= n /\ Ends(a, i)

WindowsTyped ==
  /\ batches \in Nat /\ announced \in Seq(Announcement)
  /\ batch \in [id : Nat, flows : {batch.flows}, findings : {batch.findings}]

Window ==
  /\ batch = NoBatch <=> batch.id = 0
  /\ batch # NoBatch => batch.id = batches /\ batch.flows # {} /\ IsFiniteSet(batch.flows)
  /\ IF batch = NoBatch THEN AllOver(announced, batches) ELSE IsOpen(announced, batches)

WindowsIInv == WindowsTyped /\ Window /\ WindowsInTurn(announced)

LEMMA SayTyped == \A e \in {"started", "completed"}, n \in Nat :
                    Say(e, n) \in Announcement /\ Say(e, n).event = e /\ Say(e, n).id = n
BY DEF Say, Announcement

LEMMA AnnouncementHasId ==
  ASSUME NEW a \in Seq(Announcement), NEW i \in DOMAIN a
  PROVE  a[i].id \in Nat
<1>1. a[i] \in Announcement
  OBVIOUS
<1> QED
  BY <1>1 DEF Announcement

LEMMA AppendMoves ==
  ASSUME NEW S, NEW a \in Seq(S), NEW e \in S
  PROVE  /\ Append(a, e) \in Seq(S) /\ DOMAIN Append(a, e) = DOMAIN a \cup {Len(a) + 1}
         /\ Append(a, e)[Len(a) + 1] = e /\ \A i \in DOMAIN a : Append(a, e)[i] = a[i]
         /\ DOMAIN a \subseteq Nat /\ Len(a) \in Nat /\ \A i \in DOMAIN a : i < Len(a) + 1
         /\ a \o <<e>> = Append(a, e)
<1>1. Len(a) \in Nat /\ DOMAIN a = 1 .. Len(a)
  OBVIOUS
<1>2. /\ Append(a, e) \in Seq(S) /\ Len(Append(a, e)) = Len(a) + 1
      /\ Append(a, e)[Len(a) + 1] = e /\ \A i \in 1 .. Len(a) : Append(a, e)[i] = a[i]
  BY AppendProperties
<1>3. DOMAIN Append(a, e) = 1 .. Len(a) + 1
  BY <1>2
<1>4. a \o <<e>> = Append(a, e)
  BY AppendIsConcat
<1> QED
  BY <1>1, <1>2, <1>3, <1>4

(* What has been announced stays so when more is. *)
LEMMA EndsStays ==
  ASSUME NEW a \in Seq(Announcement), NEW e \in Announcement, NEW i \in DOMAIN a, Ends(a, i)
  PROVE  Ends(Append(a, e), i)
BY AppendMoves DEF Ends

(* The window that is open is completed ... *)
LEMMA WindowCompletes ==
  ASSUME NEW a \in Seq(Announcement), NEW n \in Nat, WindowsInTurn(a), IsOpen(a, n)
  PROVE  LET b == Append(a, Say("completed", n))
         IN b \in Seq(Announcement) /\ WindowsInTurn(b) /\ AllOver(b, n)
<1> DEFINE e == Say("completed", n)
           b == Append(a, e)
           last == Len(a) + 1
<1>1. e \in Announcement /\ e.event = "completed" /\ e.id = n
  BY SayTyped
<1> HIDE DEF e
<1>2. /\ b \in Seq(Announcement) /\ DOMAIN b = DOMAIN a \cup {last} /\ b[last] = e
      /\ \A i \in DOMAIN a : b[i] = a[i] /\ i < last
      /\ DOMAIN a \subseteq Nat /\ last \in Nat
  BY <1>1, AppendMoves
<1>3. \A i \in DOMAIN a : Ends(a, i) => Ends(b, i)
  BY <1>1, EndsStays
<1>4. \A i \in DOMAIN a : a[i].id \in Nat
  BY AnnouncementHasId
<1>5. e = Say("completed", n)
  BY DEF e
<1> HIDE DEF b, last
<1>6. AllOver(b, n)
  <2> SUFFICES ASSUME NEW i \in DOMAIN b PROVE b[i].id <= n /\ Ends(b, i)
    BY DEF AllOver
  <2>1. CASE i = last
    BY <1>1, <1>2, <1>5, <2>1 DEF Ends
  <2>2. CASE i \in DOMAIN a /\ a[i].id < n
    BY <1>2, <1>3, <2>2 DEF IsOpen
  <2>3. CASE i \in DOMAIN a /\ a[i].id = n
    BY <1>2, <1>5, <2>3 DEF Ends
  <2> QED
    BY <1>2, <1>4, <2>1, <2>2, <2>3 DEF IsOpen
<1>7. WindowsInTurn(b)
  <2> SUFFICES ASSUME NEW i \in DOMAIN b, NEW j \in DOMAIN b, i < j
               PROVE  /\ b[i].id <= b[j].id
                      /\ b[i].event = "completed" => b[i].id < b[j].id
                      /\ b[i].id < b[j].id =>
                           \E k \in DOMAIN b : i <= k /\ k < j /\ b[k] = Say("completed", b[i].id)
    BY DEF WindowsInTurn
  <2>1. i \in DOMAIN a
    BY <1>2
  <2>2. CASE j \in DOMAIN a
    BY <1>2, <2>1, <2>2 DEF WindowsInTurn
  <2>3. CASE j = last
    <3>1. a[i].id <= n /\ (a[i].id = n => a[i].event = "started") /\ (a[i].id < n => Ends(a, i))
      BY <2>1 DEF IsOpen
    <3>2. a[i].event = "completed" => a[i].id < n
      BY <1>4, <2>1, <3>1
    <3>3. a[i].id < n => \E k \in DOMAIN b : i <= k /\ k < last /\ b[k] = Say("completed", a[i].id)
      BY <1>2, <2>1, <3>1 DEF Ends
    <3> QED
      BY <1>1, <1>2, <2>1, <2>3, <3>1, <3>2, <3>3
  <2> QED
    BY <1>2, <2>2, <2>3
<1> QED
  BY <1>2, <1>6, <1>7 DEF b, e

(* ... and one that is open is announced, once more perhaps. *)
LEMMA WindowStarts ==
  ASSUME NEW a \in Seq(Announcement), NEW n \in Nat, WindowsInTurn(a), IsOpen(a, n)
  PROVE  LET b == Append(a, Say("started", n))
         IN b \in Seq(Announcement) /\ WindowsInTurn(b) /\ IsOpen(b, n)
<1> DEFINE e == Say("started", n)
           b == Append(a, e)
           last == Len(a) + 1
<1>1. e \in Announcement /\ e.event = "started" /\ e.id = n
  BY SayTyped
<1> HIDE DEF e
<1>2. /\ b \in Seq(Announcement) /\ DOMAIN b = DOMAIN a \cup {last} /\ b[last] = e
      /\ \A i \in DOMAIN a : b[i] = a[i] /\ i < last
      /\ DOMAIN a \subseteq Nat /\ last \in Nat
  BY <1>1, AppendMoves
<1>3. \A i \in DOMAIN a : Ends(a, i) => Ends(b, i)
  BY <1>1, EndsStays
<1>4. \A i \in DOMAIN a : a[i].id \in Nat
  BY AnnouncementHasId
<1> HIDE DEF b, last
<1>5. IsOpen(b, n)
  BY <1>1, <1>2, <1>3 DEF IsOpen
<1>6. WindowsInTurn(b)
  <2> SUFFICES ASSUME NEW i \in DOMAIN b, NEW j \in DOMAIN b, i < j
               PROVE  /\ b[i].id <= b[j].id
                      /\ b[i].event = "completed" => b[i].id < b[j].id
                      /\ b[i].id < b[j].id =>
                           \E k \in DOMAIN b : i <= k /\ k < j /\ b[k] = Say("completed", b[i].id)
    BY DEF WindowsInTurn
  <2>1. i \in DOMAIN a
    BY <1>2
  <2>2. CASE j \in DOMAIN a
    BY <1>2, <2>1, <2>2 DEF WindowsInTurn
  <2>3. CASE j = last
    <3>1. a[i].id <= n /\ (a[i].id = n => a[i].event = "started") /\ (a[i].id < n => Ends(a, i))
      BY <2>1 DEF IsOpen
    <3>2. a[i].event = "completed" => a[i].id < n
      BY <1>4, <2>1, <3>1
    <3>3. a[i].id < n => \E k \in DOMAIN b : i <= k /\ k < last /\ b[k] = Say("completed", a[i].id)
      BY <1>2, <2>1, <3>1 DEF Ends
    <3> QED
      BY <1>1, <1>2, <2>1, <2>3, <3>1, <3>2, <3>3
  <2> QED
    BY <1>2, <2>2, <2>3
<1> QED
  BY <1>2, <1>5, <1>6 DEF b, e

(* The next window is one more than those that are over. *)
LEMMA NextWindowOpens ==
  ASSUME NEW a \in Seq(Announcement), NEW n \in Nat, AllOver(a, n)
  PROVE  IsOpen(a, n + 1)
<1>1. \A i \in DOMAIN a : a[i].id \in Nat
  BY AnnouncementHasId
<1> QED
  BY <1>1 DEF AllOver, IsOpen

LEMMA NoBatchTyped == NoBatch = [id |-> 0, flows |-> {}, findings |-> 0]
BY DEF NoBatch

(* The first flow of a window. *)
LEMMA FreshWindow ==
  ASSUME NEW n \in Nat, NEW f, NEW b, b = [NoBatch EXCEPT !.id = n]
  PROVE  b.id = n /\ [b EXCEPT !.flows = @ \cup {f}] = [id |-> n, flows |-> {f}, findings |-> 0]
<1>1. PICK z \in [id : Nat, flows : {{}}, findings : {0}] : z = NoBatch
  BY NoBatchTyped
<1>2. b = [z EXCEPT !.id = n]
  BY <1>1
<1>3. b \in [id : {n}, flows : {{}}, findings : {0}] /\ b.id = n /\ b.flows \cup {f} = {f}
  BY <1>2
<1>4. PICK c : c = [b EXCEPT !.flows = {f}]
  OBVIOUS
<1>5. c \in [id : {n}, flows : {{f}}, findings : {0}]
  BY <1>3, <1>4
<1>6. c = [id |-> n, flows |-> {f}, findings |-> 0]
  BY <1>5
<1> QED
  BY <1>3, <1>4, <1>6

(* report_flow(): a window that went idle is over before the next begins. *)
LEMMA ReportFlowInvariant ==
  ASSUME WindowsIInv, NEW f, ReportFlow(f)
  PROVE  WindowsIInv'
<1> DEFINE a == announced
           n == batches
<1>1. /\ n \in Nat /\ a \in Seq(Announcement) /\ WindowsInTurn(a) /\ Window
      /\ batch \in [id : Nat, flows : {batch.flows}, findings : {batch.findings}]
      /\ \A m \in Nat : Say("started", m) \in Announcement /\ Say("completed", m) \in Announcement
  BY SayTyped DEF WindowsIInv, WindowsTyped
<1>2. CASE batch = NoBatch \/ idle
  <2> DEFINE over == IF batch = NoBatch THEN a ELSE Append(a, Say("completed", n))
  <2>1. over \in Seq(Announcement) /\ WindowsInTurn(over) /\ AllOver(over, n)
    <3>1. CASE batch = NoBatch
      BY <1>1, <3>1 DEF Window
    <3>2. CASE batch # NoBatch
      BY <1>1, <3>2, WindowCompletes DEF Window
    <3> QED
      BY <3>1, <3>2
  <2>2. n + 1 \in Nat /\ IsOpen(over, n + 1)
    <3> HIDE DEF over
    <3> QED
      BY <1>1, <2>1, NextWindowOpens
  <2> DEFINE b   == IF batch = NoBatch \/ idle THEN [NoBatch EXCEPT !.id = n + 1] ELSE batch
             now == [b EXCEPT !.flows = @ \cup {f}]
  <2>3. /\ batch' = now
        /\ batches' = IF batch = NoBatch \/ idle THEN batches + 1 ELSE batches
        /\ announced' = announced
              \o (IF batch # NoBatch /\ idle THEN Closing(batch) ELSE <<>>)
              \o (IF Cardinality(now.flows) = 1 THEN <<Say("started", b.id)>> ELSE <<>>)
    BY Zenon DEF ReportFlow
  <2>4. b = [NoBatch EXCEPT !.id = n + 1]
    BY <1>2
  <2> HIDE DEF b
  <2>5. b.id = n + 1 /\ now = [id |-> n + 1, flows |-> {f}, findings |-> 0]
    BY <2>2, <2>4, FreshWindow
  <2> HIDE DEF now
  <2>6. batches' = n + 1 /\ batch' = [id |-> n + 1, flows |-> {f}, findings |-> 0]
    BY <1>2, <2>3, <2>5
  <2>7. announced' = Append(over, Say("started", n + 1))
    <3>1. Cardinality(now.flows) = 1
      BY <2>5, FS_Singleton
    <3>2. announced' = announced
            \o (IF batch # NoBatch /\ idle THEN Closing(batch) ELSE <<>>)
            \o <<Say("started", n + 1)>>
      BY <2>3, <2>5, <3>1
    <3>3. CASE batch = NoBatch
      <4>1. announced' = a \o <<>> \o <<Say("started", n + 1)>> /\ a \o <<>> = a /\ over = a
        BY <1>1, <3>2, <3>3
      <4> QED
        BY <1>1, <2>2, <4>1, AppendMoves
    <3>4. CASE batch # NoBatch
      <4>1. idle /\ Closing(batch) = <<Say("completed", n)>>
        BY <1>1, <1>2, <3>4 DEF Closing, Window
      <4>2. announced' = a \o <<Say("completed", n)>> \o <<Say("started", n + 1)>>
        BY <3>2, <3>4, <4>1
      <4>3. over = Append(a, Say("completed", n)) /\ a \o <<Say("completed", n)>> = over
        BY <1>1, <3>4, AppendMoves
      <4> HIDE DEF over
      <4> QED
        BY <1>1, <2>1, <2>2, <4>2, <4>3, AppendMoves
    <3> QED
      BY <3>3, <3>4
  <2> HIDE DEF over
  <2>8. announced' \in Seq(Announcement) /\ WindowsInTurn(announced') /\ IsOpen(announced', n + 1)
    BY <2>1, <2>2, <2>7, WindowStarts
  <2>9. WindowsTyped'
    BY <2>2, <2>6, <2>8 DEF WindowsTyped
  <2>10. Window'
    <3>1. batch'.id = n + 1 /\ batch'.flows = {f} /\ batch' # NoBatch /\ n + 1 # 0
      BY <1>1, <2>6, NoBatchTyped
    <3>2. IsFiniteSet({f})
      BY FS_Singleton
    <3> QED
      BY <2>6, <2>8, <3>1, <3>2 DEF Window
  <2> QED
    BY <2>8, <2>9, <2>10 DEF WindowsIInv
<1>3. CASE batch # NoBatch /\ ~idle
  <2> DEFINE now == [batch EXCEPT !.flows = @ \cup {f}]
  <2>1. /\ batches' = batches /\ batch' = now
        /\ announced' = announced \o <<>>
              \o (IF Cardinality(now.flows) = 1 THEN <<Say("started", batch.id)>> ELSE <<>>)
    BY <1>3 DEF ReportFlow
  <2>2. /\ now \in [id : {batch.id}, flows : {batch.flows \cup {f}}, findings : {batch.findings}]
        /\ now.id = batch.id /\ now.flows = batch.flows \cup {f} /\ now.findings = batch.findings
    BY <1>1
  <2> HIDE DEF now
  <2>3. announced' = a \/ announced' = Append(a, Say("started", n))
    <3>1. a \o <<>> = a /\ a \o <<Say("started", n)>> = Append(a, Say("started", n)) /\ batch.id = n
      BY <1>1, <1>3, AppendMoves DEF Window
    <3> QED
      BY <1>1, <2>1, <3>1
  <2>4. IsOpen(a, n)
    BY <1>1, <1>3 DEF Window
  <2>5. announced' \in Seq(Announcement) /\ WindowsInTurn(announced') /\ IsOpen(announced', n)
    BY <1>1, <2>3, <2>4, WindowStarts
  <2>6. WindowsTyped'
    BY <1>1, <2>1, <2>2, <2>5 DEF WindowsTyped
  <2>7. Window'
    <3>1. batch'.id = n /\ n # 0 /\ batch' # NoBatch
      BY <1>1, <1>3, <2>1, <2>2, NoBatchTyped DEF Window
    <3>2. batch'.flows # {} /\ IsFiniteSet(batch'.flows)
      BY <1>1, <1>3, <2>1, <2>2, FS_AddElement DEF Window
    <3> QED
      BY <2>1, <2>5, <3>1, <3>2 DEF Window
  <2> QED
    BY <2>5, <2>6, <2>7 DEF WindowsIInv
<1> QED
  BY <1>2, <1>3

LEMMA FlushInvariant ==
  ASSUME WindowsIInv, Flush
  PROVE  WindowsIInv'
<1>1. /\ WindowsTyped /\ Window /\ WindowsInTurn(announced) /\ batch # NoBatch
      /\ announced' = announced \o Closing(batch) /\ batch' = NoBatch /\ UNCHANGED batches
      /\ batch.id = batches /\ batch.flows # {} /\ IsOpen(announced, batches)
      /\ announced \in Seq(Announcement) /\ batches \in Nat
  BY DEF WindowsIInv, Flush, Window, WindowsTyped
<1>2. announced' = Append(announced, Say("completed", batches))
  BY <1>1, SayTyped, AppendMoves DEF Closing
<1>3. announced' \in Seq(Announcement) /\ WindowsInTurn(announced') /\ AllOver(announced', batches)
  BY <1>1, <1>2, WindowCompletes
<1>4. WindowsTyped'
  BY <1>1, <1>3, NoBatchTyped DEF WindowsTyped
<1>5. Window'
  BY <1>1, <1>3, NoBatchTyped DEF Window
<1> QED
  BY <1>3, <1>4, <1>5 DEF WindowsIInv

LEMMA YieldFindingWindows ==
  ASSUME WindowsIInv, NEW i, YieldFinding(i)
  PROVE  WindowsIInv'
<1>1. /\ WindowsTyped /\ Window /\ WindowsInTurn(announced) /\ UNCHANGED <<batches, announced>>
      /\ batch' = IF batch = NoBatch THEN batch ELSE [batch EXCEPT !.findings = @ + 1]
      /\ batch \in [id : Nat, flows : {batch.flows}, findings : {batch.findings}]
  BY DEF WindowsIInv, YieldFinding, WindowsTyped
<1>2. CASE batch' = batch
  BY <1>1, <1>2 DEF WindowsIInv, WindowsTyped, Window
<1>3. CASE batch # NoBatch /\ batch' = [batch EXCEPT !.findings = @ + 1]
  <2>1. PICK x : x = batch.findings + 1
    OBVIOUS
  <2>2. batch' = [batch EXCEPT !.findings = x]
    BY <1>3, <2>1
  <2>3. /\ batch' \in [id : {batch.id}, flows : {batch.flows}, findings : {x}]
        /\ batch'.id = batch.id /\ batch'.flows = batch.flows /\ batch'.findings = x
    BY <1>1, <2>2
  <2>4. batch' # NoBatch
    BY <1>1, <1>3, <2>3, NoBatchTyped DEF Window
  <2> QED
    BY <1>1, <1>3, <2>3, <2>4 DEF WindowsIInv, WindowsTyped, Window
<1> QED
  BY <1>1, <1>2, <1>3

LEMMA WindowsInitInvariant == HostInit => WindowsIInv
<1> SUFFICES ASSUME HostInit PROVE WindowsIInv
  OBVIOUS
<1>1. batch = NoBatch /\ batches = 0 /\ announced = <<>>
  BY DEF HostInit
<1>2. WindowsTyped
  BY <1>1, NoBatchTyped DEF WindowsTyped
<1>3. Window /\ WindowsInTurn(announced)
  BY <1>1, NoBatchTyped DEF Window, WindowsInTurn, AllOver
<1> QED
  BY <1>2, <1>3 DEF WindowsIInv

LEMMA WindowsNextInvariant ==
  ASSUME WindowsIInv, [HostNext]_hostVars
  PROVE  WindowsIInv'
<1>1. ASSUME UNCHANGED <<batch, batches, announced>> PROVE WindowsIInv'
  BY <1>1 DEF WindowsIInv, WindowsTyped, Window
<1>2. CASE HostNext
  <2>1. ASSUME NEW i \in DOMAIN tasks,
               \/ Subscribe(i) \/ TakeFlow(i) \/ YieldFinding(i)
               \/ \E state \in {"waiting", "crashed"} : EndScan(i, state)
        PROVE  WindowsIInv'
    <3>1. CASE Subscribe(i) \/ \E state \in {"waiting", "crashed"} : EndScan(i, state)
      BY <1>1, <3>1 DEF Subscribe, EndScan, trackerVars
    <3>2. CASE TakeFlow(i)
      BY <3>2, ReportFlowInvariant DEF TakeFlow
    <3> QED
      BY <2>1, <3>1, <3>2, YieldFindingWindows
  <2>2. CASE LoaderStart \/ FlowArrives \/ ShutdownBegins \/ StorageRegisters \/ StoreFinding
    BY <1>1, <2>2 DEF LoaderStart, FlowArrives, ShutdownBegins, StorageRegisters, StoreFinding,
                     trackerVars
  <2>3. CASE WindowPasses
    BY <1>1, <2>3 DEF WindowPasses
  <2>4. CASE \E p \in Plugins : Toggle(p) \/ Unload(p) \/ Unloaded(p)
    BY <1>1, <2>4 DEF Toggle, Unload, Unloaded, trackerVars
  <2> QED
    BY <1>2, <2>1, <2>2, <2>3, <2>4, FlushInvariant DEF HostNext
<1>3. CASE UNCHANGED hostVars
  BY <1>1, <1>3 DEF hostVars, trackerVars
<1> QED
  BY <1>2, <1>3

(* However often flows arrive, the sweep runs, and plugins are toggled,     *)
(* crash or are shut down: a window is completed once, after it was started *)
(* and before the next one is.                                             *)
THEOREM WindowsFollowOneAnother == HostSpec => []BatchLifecycle
<1>1. WindowsIInv => BatchLifecycle
  <2> SUFFICES ASSUME WindowsIInv, NEW i \in DOMAIN announced, NEW j \in DOMAIN announced, i < j
               PROVE  /\ announced[i].id <= announced[j].id
                      /\ announced[i].event = "completed" => announced[i].id < announced[j].id
                      /\ announced[i].id < announced[j].id =>
                           \E k \in i .. j - 1 : announced[k] = Say("completed", announced[i].id)
    BY DEF BatchLifecycle
  <2>1. DOMAIN announced \subseteq Nat /\ WindowsInTurn(announced)
    <3>1. announced \in Seq(Announcement) /\ WindowsInTurn(announced)
      BY DEF WindowsIInv, WindowsTyped
    <3> QED
      BY <3>1
  <2>2. \A k \in DOMAIN announced : i <= k /\ k < j => k \in i .. j - 1
    BY <2>1
  <2> QED
    BY <2>1, <2>2 DEF WindowsInTurn
<1>2. HostInit /\ [][HostNext]_hostVars => []WindowsIInv
  BY WindowsInitInvariant, WindowsNextInvariant, PTL
<1> QED
  BY <1>1, <1>2, PTL DEF HostSpec

-----------------------------------------------------------------------------
(* The consumers of the plugins (PluginHost, its loaderVars). *)

TaskState == Live \cup {"cancelled", "crashed"}

(* What waits in the queue of a task, and which flow it scans, is its own. *)
IsTask(t) == t \in [plugin : Plugins, state : TaskState, q : {t.q}, flow : {t.flow}]

HostTyped ==
  /\ phase \in {"boot", "run", "stopping", "stopped", "aborted"}
  /\ loaded \subseteq Plugins /\ disabled \subseteq Plugins
  /\ tracked \in [Plugins -> Nat]
  /\ unloading \subseteq loaded /\ \A p, q \in unloading : p = q

TasksTyped ==
  /\ Len(tasks) \in Nat /\ DOMAIN tasks = 1 .. Len(tasks)
  /\ tasks = [i \in 1 .. Len(tasks) |-> tasks[i]]
  /\ \A i \in DOMAIN tasks : IsTask(tasks[i])

Tracked ==
  /\ \A p \in Plugins : tracked[p] = 0 \/ tracked[p] \in DOMAIN tasks
  /\ missed \subseteq DOMAIN tasks

AtBoot ==
  phase = "boot" => loaded = Plugins /\ disabled = {} /\ tasks = <<>> /\ unloading = {} /\ missed = {}

HostIInv == HostTyped /\ TasksTyped /\ Tracked /\ AtBoot /\ OneLiveConsumer

(* A function from 1 .. n is a sequence of length n. *)
LEMMA TasksInOrder ==
  ASSUME NEW n \in Nat, NEW s, DOMAIN s = 1 .. n, s = [i \in 1 .. n |-> s[i]]
  PROVE  /\ Len(s) = n
         /\ \A e : /\ Len(Append(s, e)) = n + 1 /\ DOMAIN Append(s, e) = 1 .. n + 1
                   /\ Append(s, e)[n + 1] = e /\ \A i \in 1 .. n : Append(s, e)[i] = s[i]
                   /\ Append(s, e) = [i \in 1 .. n + 1 |-> Append(s, e)[i]]
<1> SUFFICES ASSUME NEW e
             PROVE  /\ Len(s) = n
                    /\ Len(Append(s, e)) = n + 1 /\ DOMAIN Append(s, e) = 1 .. n + 1
                    /\ Append(s, e)[n + 1] = e /\ \A i \in 1 .. n : Append(s, e)[i] = s[i]
                    /\ Append(s, e) = [i \in 1 .. n + 1 |-> Append(s, e)[i]]
  OBVIOUS
<1>1. PICK S : e \in S /\ \A i \in 1 .. n : s[i] \in S
  <2>1. e \in {s[i] : i \in 1 .. n} \cup {e} /\ \A i \in 1 .. n : s[i] \in {s[j] : j \in 1 .. n} \cup {e}
    OBVIOUS
  <2> QED
    BY <2>1
<1>2. s \in [1 .. n -> S]
  BY <1>1
<1>3. s \in Seq(S) /\ Len(s) = n
  BY <1>2
<1>4. /\ Append(s, e) \in Seq(S) /\ Len(Append(s, e)) = n + 1
      /\ Append(s, e)[n + 1] = e /\ \A i \in 1 .. n : Append(s, e)[i] = s[i]
  BY <1>1, <1>3, AppendProperties
<1>5. Append(s, e) \in [1 .. n + 1 -> S]
  <2>1. PICK t \in Seq(S) : t = Append(s, e)
    BY <1>4
  <2>2. t \in [1 .. Len(t) -> S]
    OBVIOUS
  <2> QED
    BY <1>4, <2>1, <2>2
<1> QED
  BY <1>3, <1>4, <1>5

(* A step that brings no consumer to life, wherever it takes those there are. *)
LEMMA NoNewLife ==
  ASSUME HostIInv, UNCHANGED consumerVars, phase # "boot",
         DOMAIN tasks' = DOMAIN tasks, tasks' = [i \in DOMAIN tasks |-> tasks'[i]],
         \A i \in DOMAIN tasks :
           /\ IsTask(tasks'[i]) /\ tasks'[i].plugin = tasks[i].plugin
           /\ tasks'[i].state \in Live => tasks[i].state \in Live
           /\ tasks[i].state = "crashed" => tasks'[i].state = "crashed"
  PROVE  HostIInv'
<1>1. Len(tasks) \in Nat /\ DOMAIN tasks = 1 .. Len(tasks)
  BY DEF HostIInv, TasksTyped
<1>2. Len(tasks') = Len(tasks)
  BY <1>1, TasksInOrder
<1>3. TasksTyped'
  BY <1>1, <1>2 DEF TasksTyped
<1>4. HostTyped' /\ Tracked' /\ AtBoot'
  BY DEF HostIInv, HostTyped, Tracked, AtBoot, consumerVars
<1>5. OneLiveConsumer'
  <2>1. OneLiveConsumer
    BY DEF HostIInv
  <2>2. ASSUME NEW i \in DOMAIN tasks, tasks'[i].state \in Live
        PROVE  /\ tracked[tasks'[i].plugin] = i /\ tasks'[i].plugin \notin disabled
               /\ tasks'[i].plugin \in loaded \ unloading \/ i \in missed
    BY <2>1, <2>2 DEF OneLiveConsumer
  <2>3. phase = "aborted" => \E i \in DOMAIN tasks : tasks'[i].state = "crashed"
    BY <2>1 DEF OneLiveConsumer
  <2> QED
    BY <2>1, <2>2, <2>3 DEF OneLiveConsumer, consumerVars
<1> QED
  BY <1>3, <1>4, <1>5 DEF HostIInv

LEMMA TaskStateHas == {"created", "waiting", "scanning", "crashed", "cancelled"} = TaskState
BY DEF TaskState, Live

LEMMA TaskIs ==
  ASSUME NEW p \in Plugins, NEW s \in TaskState, NEW x, NEW f, NEW t,
         t = [plugin |-> p, state |-> s, q |-> x, flow |-> f]
  PROVE  IsTask(t) /\ t.plugin = p /\ t.state = s
BY DEF IsTask

(* The consumers go their way. *)
LEMMA ConsumerInvariant ==
  ASSUME HostIInv, NEW i \in DOMAIN tasks,
         \/ Subscribe(i) \/ TakeFlow(i)
         \/ \E state \in {"waiting", "crashed"} : EndScan(i, state)
  PROVE  HostIInv'
<1>1. /\ TasksTyped /\ IsTask(tasks[i]) /\ UNCHANGED consumerVars
      /\ tasks[i].state \in Live
  BY DEF HostIInv, TasksTyped, Subscribe, TakeFlow, EndScan, Live
<1>2. phase # "boot"
  BY DEF HostIInv, AtBoot
<1>3. /\ IsTask(tasks'[i]) /\ tasks'[i].plugin = tasks[i].plugin
      /\ DOMAIN tasks' = DOMAIN tasks /\ tasks' = [j \in DOMAIN tasks |-> tasks'[j]]
      /\ \A j \in DOMAIN tasks \ {i} : tasks'[j] = tasks[j]
  <2>1. {"waiting", "scanning", "crashed"} \subseteq TaskState
    BY DEF TaskState, Live
  <2>2. CASE Subscribe(i)
    <3>1. tasks' = [tasks EXCEPT ![i].state = "waiting"]
      BY <2>2 DEF Subscribe
    <3> QED
      BY <1>1, <2>1, <3>1 DEF TasksTyped, IsTask
  <2>3. CASE TakeFlow(i)
    <3>1. PICK x, f : tasks' = [tasks EXCEPT ![i].state = "scanning", ![i].q = x, ![i].flow = f]
      BY <2>3 DEF TakeFlow
    <3> QED
      BY <1>1, <2>1, <3>1 DEF TasksTyped, IsTask
  <2>4. CASE \E s \in {"waiting", "crashed"} : EndScan(i, s)
    <3>1. PICK s \in {"waiting", "crashed"} : EndScan(i, s)
      BY <2>4
    <3>2. PICK x : x = IF s = "waiting" THEN tasks[i].q ELSE FreshQueue
      OBVIOUS
    <3>3. tasks' = [tasks EXCEPT ![i].state = s, ![i].flow = 0, ![i].q = x]
      BY <1>1, <3>1, <3>2 DEF EndScan, TasksTyped
    <3> QED
      BY <1>1, <2>1, <3>3 DEF TasksTyped, IsTask
  <2> QED
    BY <2>2, <2>3, <2>4
<1>4. tasks[i].state # "crashed"
  BY <1>1 DEF Live
<1> QED
  BY <1>1, <1>2, <1>3, <1>4, NoNewLife DEF TasksTyped

LEMMA FlowArrivesInvariant ==
  ASSUME HostIInv, FlowArrives
  PROVE  HostIInv'
<1>1. /\ TasksTyped /\ UNCHANGED consumerVars /\ phase # "boot"
      /\ tasks' = [i \in DOMAIN tasks |->
           IF tasks[i].state \in {"waiting", "scanning"}
             THEN [tasks[i] EXCEPT !.q = PutIn("flow", @, [topic |-> "flow", n |-> flows'])]
             ELSE tasks[i]]
  BY DEF HostIInv, FlowArrives
<1>2. ASSUME NEW i \in DOMAIN tasks
      PROVE  /\ IsTask(tasks'[i]) /\ tasks'[i].plugin = tasks[i].plugin
             /\ tasks'[i].state = tasks[i].state
  <2>1. PICK x : x = PutIn("flow", tasks[i].q, [topic |-> "flow", n |-> flows'])
    OBVIOUS
  <2>2. IsTask(tasks[i]) /\ tasks'[i] \in {tasks[i], [tasks[i] EXCEPT !.q = x]}
    BY <1>1, <2>1 DEF TasksTyped
  <2> QED
    BY <2>2 DEF IsTask
<1>3. DOMAIN tasks' = DOMAIN tasks /\ tasks' = [i \in DOMAIN tasks |-> tasks'[i]]
  BY <1>1
<1> QED
  BY <1>1, <1>2, <1>3, NoNewLife

(* task.cancel() *)
LEMMA CancelMoves ==
  ASSUME TasksTyped, NEW i \in DOMAIN tasks, tasks' = [tasks EXCEPT ![i] = Cancelled(@)]
  PROVE  /\ TasksTyped' /\ DOMAIN tasks' = DOMAIN tasks
         /\ tasks'[i].state \notin Live
         /\ \A j \in DOMAIN tasks \ {i} : tasks'[j] = tasks[j]
<1>1. IsTask(tasks[i]) /\ Len(tasks) \in Nat /\ DOMAIN tasks = 1 .. Len(tasks)
  BY DEF TasksTyped
<1>2. IsTask(Cancelled(tasks[i])) /\ Cancelled(tasks[i]).state \notin Live
  <2>1. CASE tasks[i].state \in Live
    <3>1. Cancelled(tasks[i]) = [tasks[i] EXCEPT !.state = "cancelled", !.q = FreshQueue, !.flow = 0]
      BY <2>1 DEF Cancelled
    <3>2. "cancelled" \in TaskState /\ "cancelled" \notin Live
      BY DEF TaskState, Live
    <3> QED
      BY <1>1, <3>1, <3>2 DEF IsTask
  <2>2. CASE tasks[i].state \notin Live
    BY <1>1, <2>2 DEF Cancelled
  <2> QED
    BY <2>1, <2>2
<1>3. PICK c : c = Cancelled(tasks[i])
  OBVIOUS
<1>4. tasks' = [tasks EXCEPT ![i] = c]
  BY <1>3
<1>5. /\ DOMAIN tasks' = 1 .. Len(tasks) /\ tasks' = [j \in 1 .. Len(tasks) |-> tasks'[j]]
      /\ tasks'[i] = c /\ \A j \in DOMAIN tasks \ {i} : tasks'[j] = tasks[j]
  BY <1>1, <1>4 DEF TasksTyped
<1>6. Len(tasks') = Len(tasks)
  BY <1>1, <1>5, TasksInOrder
<1>7. \A j \in DOMAIN tasks : IsTask(tasks'[j])
  BY <1>2, <1>3, <1>5 DEF TasksTyped
<1> QED
  BY <1>1, <1>2, <1>3, <1>5, <1>6, <1>7 DEF TasksTyped

(* A plugin is disabled, or leaves: its consumer, if it lives, is cancelled. *)
LEMMA ConsumerEnds ==
  ASSUME HostIInv, NEW p \in Plugins,
         tasks' = IF tracked[p] = 0 THEN tasks ELSE [tasks EXCEPT ![tracked[p]] = Cancelled(@)]
  PROVE  /\ TasksTyped' /\ DOMAIN tasks' = DOMAIN tasks
         /\ \A i \in DOMAIN tasks : tasks'[i].state \in Live =>
              tasks'[i] = tasks[i] /\ tasks[i].plugin # p
<1>1. TasksTyped /\ OneLiveConsumer /\ (tracked[p] = 0 \/ tracked[p] \in DOMAIN tasks)
  BY DEF HostIInv, Tracked
<1>2. \A i \in DOMAIN tasks : tasks[i].state \in Live /\ tasks[i].plugin = p => tracked[p] = i
  BY <1>1 DEF OneLiveConsumer
<1>3. CASE tracked[p] = 0
  <2>1. DOMAIN tasks = 1 .. Len(tasks) /\ tasks' = tasks
    BY <1>1, <1>3 DEF TasksTyped
  <2>2. TasksTyped'
    BY <1>1, <2>1 DEF TasksTyped
  <2>3. 0 \notin DOMAIN tasks
    BY <2>1
  <2> QED
    BY <1>2, <1>3, <2>1, <2>2, <2>3
<1>4. CASE tracked[p] # 0
  <2>1. PICK k \in DOMAIN tasks : k = tracked[p]
    BY <1>1, <1>4
  <2>2. tasks' = [tasks EXCEPT ![k] = Cancelled(@)]
    BY <1>4, <2>1
  <2> QED
    BY <1>1, <1>2, <2>1, <2>2, CancelMoves
<1> QED
  BY <1>3, <1>4

LEMMA ToggleInvariant ==
  ASSUME HostIInv, NEW p \in Plugins, Toggle(p)
  PROVE  HostIInv'
<1>1. /\ HostTyped /\ TasksTyped /\ Tracked /\ OneLiveConsumer
      /\ phase \in {"run", "stopping"} /\ p \in loaded /\ UNCHANGED <<phase, loaded, unloading>>
  BY DEF HostIInv, Toggle
<1>2. CASE p \in disabled /\ Activate(p)
  <2> DEFINE n == Len(tasks)
  <2>1. /\ disabled' = disabled \ {p} /\ tasks' = Append(tasks, NewTask(p))
        /\ tracked' = [tracked EXCEPT ![p] = Len(tasks')]
        /\ missed' = IF p \in unloading THEN missed \cup {Len(tasks')} ELSE missed
    BY <1>2 DEF Activate
  <2>2. /\ n \in Nat /\ DOMAIN tasks = 1 .. n
        /\ Len(tasks') = n + 1 /\ DOMAIN tasks' = 1 .. n + 1
        /\ tasks'[n + 1] = NewTask(p) /\ \A i \in 1 .. n : tasks'[i] = tasks[i]
        /\ tasks' = [i \in 1 .. n + 1 |-> tasks'[i]]
    <3>1. n \in Nat /\ DOMAIN tasks = 1 .. n /\ tasks = [i \in 1 .. n |-> tasks[i]]
      BY <1>1 DEF TasksTyped
    <3> HIDE DEF n
    <3>2. PICK e : e = NewTask(p)
      OBVIOUS
    <3>3. /\ Len(Append(tasks, e)) = n + 1 /\ DOMAIN Append(tasks, e) = 1 .. n + 1
          /\ Append(tasks, e)[n + 1] = e /\ \A i \in 1 .. n : Append(tasks, e)[i] = tasks[i]
          /\ Append(tasks, e) = [i \in 1 .. n + 1 |-> Append(tasks, e)[i]]
      BY <3>1, TasksInOrder
    <3> QED
      BY <2>1, <3>1, <3>2, <3>3
  <2>3. IsTask(NewTask(p)) /\ NewTask(p).plugin = p
    BY TaskStateHas, TaskIs DEF NewTask
  <2>4. DOMAIN tasks' = DOMAIN tasks \cup {n + 1} /\ n + 1 \in Nat /\ n + 1 \notin DOMAIN tasks
    BY <2>2
  <2>5. TasksTyped'
    BY <1>1, <2>2, <2>3, <2>4 DEF TasksTyped
  <2>6. tracked' \in [Plugins -> Nat] /\ tracked'[p] = n + 1
        /\ \A r \in Plugins \ {p} : tracked'[r] = tracked[r]
    BY <1>1, <2>1, <2>2 DEF HostTyped
  <2>7. HostTyped' /\ Tracked' /\ AtBoot'
    BY <1>1, <2>1, <2>4, <2>6 DEF HostTyped, Tracked, AtBoot
  <2>8. OneLiveConsumer'
    <3>1. ASSUME NEW i \in DOMAIN tasks', tasks'[i].state \in Live
          PROVE  /\ tracked'[tasks'[i].plugin] = i /\ tasks'[i].plugin \notin disabled'
                 /\ tasks'[i].plugin \in loaded \ unloading \/ i \in missed'
      <4>1. CASE i = n + 1
        BY <1>1, <2>1, <2>2, <2>3, <2>6, <4>1
      <4>2. CASE i \in DOMAIN tasks
        <5>1. tasks'[i] = tasks[i] /\ IsTask(tasks[i])
          BY <1>1, <2>2, <4>2 DEF TasksTyped
        <5>2. /\ tracked[tasks[i].plugin] = i /\ tasks[i].plugin \notin disabled
              /\ tasks[i].plugin \in loaded \ unloading \/ i \in missed
          BY <1>1, <3>1, <4>2, <5>1 DEF OneLiveConsumer
        <5>3. tasks[i].plugin # p /\ tasks[i].plugin \in Plugins
          BY <1>2, <5>1, <5>2 DEF IsTask
        <5> QED
          BY <2>1, <2>6, <5>1, <5>2, <5>3
      <4> QED
        BY <2>4, <4>1, <4>2
    <3> QED
      BY <1>1, <3>1 DEF OneLiveConsumer
  <2> QED
    BY <2>5, <2>7, <2>8 DEF HostIInv
<1>3. CASE p \notin disabled /\ Deactivate(p)
  <2>1. /\ disabled' = disabled \cup {p} /\ tracked' = [tracked EXCEPT ![p] = 0]
        /\ tasks' = IF tracked[p] = 0 THEN tasks ELSE [tasks EXCEPT ![tracked[p]] = Cancelled(@)]
        /\ UNCHANGED missed
    BY <1>3 DEF Deactivate
  <2>2. /\ TasksTyped' /\ DOMAIN tasks' = DOMAIN tasks
        /\ \A i \in DOMAIN tasks : tasks'[i].state \in Live =>
             tasks'[i] = tasks[i] /\ tasks[i].plugin # p
    BY <2>1, ConsumerEnds
  <2>3. /\ tracked' \in [Plugins -> Nat] /\ tracked'[p] = 0
        /\ \A r \in Plugins \ {p} : tracked'[r] = tracked[r]
    BY <1>1, <2>1 DEF HostTyped
  <2>4. HostTyped' /\ Tracked' /\ AtBoot'
    BY <1>1, <2>1, <2>2, <2>3 DEF HostTyped, Tracked, AtBoot
  <2>5. OneLiveConsumer'
    <3>1. ASSUME NEW i \in DOMAIN tasks', tasks'[i].state \in Live
          PROVE  /\ tracked'[tasks'[i].plugin] = i /\ tasks'[i].plugin \notin disabled'
                 /\ tasks'[i].plugin \in loaded \ unloading \/ i \in missed
      <4>1. tasks'[i] = tasks[i] /\ tasks[i].plugin # p /\ i \in DOMAIN tasks
        BY <2>2, <3>1
      <4>2. /\ tracked[tasks[i].plugin] = i /\ tasks[i].plugin \notin disabled
            /\ tasks[i].plugin \in loaded \ unloading \/ i \in missed
            /\ tasks[i].plugin \in Plugins
        BY <1>1, <3>1, <4>1 DEF OneLiveConsumer, TasksTyped, IsTask
      <4> QED
        BY <2>1, <2>3, <4>1, <4>2
    <3> QED
      BY <1>1, <2>1, <2>2, <3>1 DEF OneLiveConsumer
  <2> QED
    BY <2>2, <2>4, <2>5 DEF HostIInv
<1> QED
  BY <1>2, <1>3 DEF Toggle

LEMMA UnloadInvariant ==
  ASSUME HostIInv, NEW p \in Plugins, Unload(p)
  PROVE  HostIInv'
<1>1. /\ HostTyped /\ TasksTyped /\ Tracked /\ OneLiveConsumer
      /\ phase = "stopping" /\ p \in loaded /\ unloading = {}
      /\ UNCHANGED <<loaded, disabled, missed>>
      /\ tracked' = [tracked EXCEPT ![p] = 0]
  BY DEF HostIInv, Unload
<1>2. /\ tracked' \in [Plugins -> Nat] /\ tracked'[p] = 0
      /\ \A r \in Plugins \ {p} : tracked'[r] = tracked[r]
  BY <1>1 DEF HostTyped
<1>3. CASE Crashed(p) /\ phase' = "aborted" /\ UNCHANGED <<tasks, unloading>>
  <2>1. PICK k \in DOMAIN tasks : k = tracked[p] /\ tasks[k].state = "crashed"
    BY <1>1, <1>3 DEF Crashed, Tracked
  <2>2. HostTyped' /\ TasksTyped' /\ Tracked' /\ AtBoot'
    BY <1>1, <1>2, <1>3 DEF HostTyped, TasksTyped, Tracked, AtBoot
  <2>3. ASSUME NEW i \in DOMAIN tasks, tasks[i].state \in Live
        PROVE  /\ tracked'[tasks[i].plugin] = i /\ tasks[i].plugin \notin disabled
               /\ tasks[i].plugin \in loaded \ unloading \/ i \in missed
    <3>1. /\ tracked[tasks[i].plugin] = i /\ tasks[i].plugin \notin disabled
          /\ tasks[i].plugin \in loaded \ unloading \/ i \in missed
          /\ tasks[i].plugin \in Plugins
      BY <1>1, <2>3 DEF OneLiveConsumer, TasksTyped, IsTask
    <3>2. tasks[i].plugin # p
      BY <2>1, <2>3, <3>1 DEF Live
    <3> QED
      BY <1>2, <3>1, <3>2
  <2>4. OneLiveConsumer'
    BY <1>1, <1>3, <2>1, <2>3 DEF OneLiveConsumer
  <2> QED
    BY <2>2, <2>4 DEF HostIInv
<1>4. CASE /\ ~Crashed(p) /\ unloading' = {p} /\ UNCHANGED phase
           /\ tasks' = IF tracked[p] = 0 THEN tasks ELSE [tasks EXCEPT ![tracked[p]] = Cancelled(@)]
  <2>1. /\ TasksTyped' /\ DOMAIN tasks' = DOMAIN tasks
        /\ \A i \in DOMAIN tasks : tasks'[i].state \in Live =>
             tasks'[i] = tasks[i] /\ tasks[i].plugin # p
    BY <1>4, ConsumerEnds
  <2>2. HostTyped' /\ Tracked' /\ AtBoot'
    BY <1>1, <1>2, <1>4, <2>1 DEF HostTyped, Tracked, AtBoot
  <2>3. ASSUME NEW i \in DOMAIN tasks', tasks'[i].state \in Live
        PROVE  /\ tracked'[tasks'[i].plugin] = i /\ tasks'[i].plugin \notin disabled
               /\ tasks'[i].plugin \in loaded \ unloading' \/ i \in missed
    <3>1. tasks'[i] = tasks[i] /\ tasks[i].plugin # p /\ i \in DOMAIN tasks
      BY <2>1, <2>3
    <3>2. /\ tracked[tasks[i].plugin] = i /\ tasks[i].plugin \notin disabled
          /\ tasks[i].plugin \in loaded \ unloading \/ i \in missed
          /\ tasks[i].plugin \in Plugins
      BY <1>1, <2>3, <3>1 DEF OneLiveConsumer, TasksTyped, IsTask
    <3> QED
      BY <1>1, <1>2, <1>4, <3>1, <3>2
  <2>4. OneLiveConsumer'
    BY <1>1, <1>4, <2>3 DEF OneLiveConsumer
  <2> QED
    BY <2>1, <2>2, <2>4 DEF HostIInv
<1> QED
  BY <1>1, <1>3, <1>4 DEF Unload

(* A plugin leaves the table; what lives of it was started meanwhile. *)
LEMMA UnloadedInvariant ==
  ASSUME HostIInv, NEW p \in Plugins, Unloaded(p)
  PROVE  HostIInv'
<1>1. /\ HostTyped /\ TasksTyped /\ Tracked /\ AtBoot /\ OneLiveConsumer
      /\ p \in unloading /\ unloading' = {} /\ loaded' = loaded \ {p}
      /\ phase' = (IF loaded' = {} THEN "stopped" ELSE phase)
      /\ UNCHANGED <<disabled, tasks, tracked, missed>>
  BY DEF HostIInv, Unloaded
<1>2. phase # "boot" /\ phase' # "boot"
  BY <1>1 DEF AtBoot
<1>3. HostTyped' /\ TasksTyped' /\ Tracked' /\ AtBoot'
  BY <1>1, <1>2 DEF HostTyped, TasksTyped, Tracked, AtBoot
<1>4. ASSUME NEW i \in DOMAIN tasks, tasks[i].state \in Live
      PROVE  /\ tracked[tasks[i].plugin] = i /\ tasks[i].plugin \notin disabled
             /\ tasks[i].plugin \in loaded' \ unloading' \/ i \in missed
  BY <1>1, <1>4 DEF OneLiveConsumer
<1>5. OneLiveConsumer'
  BY <1>1, <1>4 DEF OneLiveConsumer
<1> QED
  BY <1>3, <1>5 DEF HostIInv

(* SetToSeq lists every member of a finite set, and each once. *)
LEMMA SetToSeqLists ==
  ASSUME NEW S, IsFiniteSet(S)
  PROVE  /\ Cardinality(S) \in Nat /\ SetToSeq(S) \in [1 .. Cardinality(S) -> S]
         /\ \A i, j \in 1 .. Cardinality(S) : SetToSeq(S)[i] = SetToSeq(S)[j] => i = j
         /\ \A x \in S : \E i \in 1 .. Cardinality(S) : SetToSeq(S)[i] = x
<1> DEFINE n == Cardinality(S)
<1>1. n \in Nat /\ ExistsBijection(1 .. n, S)
  BY FS_CardinalityType
<1>2. \E f \in [1 .. n -> S] : IsInjective(f)
  BY <1>1 DEF ExistsBijection, Bijection, Injection, IsInjective
<1>3. SetToSeq(S) \in [1 .. n -> S] /\ IsInjective(SetToSeq(S))
  BY <1>2 DEF SetToSeq
<1>4. PICK f \in [1 .. n -> S] : f = SetToSeq(S) /\ IsInjective(f)
  BY <1>3
<1>5. f \in Injection(1 .. n, S)
  BY <1>4 DEF Injection, IsInjective
<1>6. IsFiniteSet(1 .. n) /\ Cardinality(1 .. n) = n
  BY <1>1, FS_Interval
<1>7. f \in Surjection(1 .. n, S)
  BY <1>5, <1>6, FS_Injection
<1>8. \A x \in S : \E i \in 1 .. n : f[i] = x
  BY <1>7 DEF Surjection
<1> QED
  BY <1>1, <1>4, <1>8 DEF IsInjective

(* start(): a consumer for each plugin, and each is tracked. *)
LEMMA LoaderStartInvariant ==
  ASSUME HostIInv, LoaderStart
  PROVE  HostIInv'
<1> DEFINE S == {NewTask(p) : p \in Plugins}
           n == Cardinality(S)
<1>1. /\ HostTyped /\ phase' = "run" /\ loaded = Plugins /\ disabled = {}
      /\ unloading = {} /\ missed = {}
      /\ UNCHANGED <<loaded, disabled, unloading, missed>> /\ tasks' = SetToSeq(S)
      /\ tracked' = [p \in Plugins |-> CHOOSE i \in DOMAIN tasks' : tasks'[i].plugin = p]
  BY DEF HostIInv, AtBoot, LoaderStart, Spawned
<1>2. \A p \in Plugins : IsTask(NewTask(p)) /\ NewTask(p).plugin = p
  BY TaskStateHas, TaskIs DEF NewTask
<1>3. IsFiniteSet(S)
  <2>1. [p \in Plugins |-> NewTask(p)] \in Surjection(Plugins, S)
    BY DEF Surjection
  <2> QED
    BY <2>1, HostAssumption, FS_Surjection
<1>4. /\ n \in Nat /\ tasks' \in [1 .. n -> S]
      /\ \A i, j \in 1 .. n : tasks'[i] = tasks'[j] => i = j
      /\ \A x \in S : \E i \in 1 .. n : tasks'[i] = x
  BY <1>1, <1>3, SetToSeqLists
<1>5. DOMAIN tasks' = 1 .. n /\ tasks' = [i \in 1 .. n |-> tasks'[i]] /\ Len(tasks') = n
  BY <1>4, TasksInOrder
<1>6. \A i \in 1 .. n : \E p \in Plugins : tasks'[i] = NewTask(p)
  BY <1>4
<1>7. \A p \in Plugins : \E i \in 1 .. n : tasks'[i] = NewTask(p)
  BY <1>4
<1> HIDE DEF S, n
<1>8. ASSUME NEW i \in 1 .. n
      PROVE  IsTask(tasks'[i]) /\ tasks'[i].plugin \in Plugins /\ tasks'[i] = NewTask(tasks'[i].plugin)
  <2>1. PICK p \in Plugins : tasks'[i] = NewTask(p)
    BY <1>6
  <2> QED
    BY <1>2, <2>1
<1>9. ASSUME NEW p \in Plugins
      PROVE  tracked'[p] \in 1 .. n /\ tasks'[tracked'[p]].plugin = p
  <2>1. \E i \in DOMAIN tasks' : tasks'[i].plugin = p
    BY <1>2, <1>5, <1>7
  <2>2. tracked'[p] = CHOOSE i \in DOMAIN tasks' : tasks'[i].plugin = p
    BY <1>1
  <2> QED
    BY <1>5, <2>1, <2>2
<1>10. TasksTyped'
  BY <1>4, <1>5, <1>8 DEF TasksTyped
<1>11. HostTyped'
  <2>1. tracked' = [p \in Plugins |-> tracked'[p]]
    BY <1>1
  <2>2. tracked' \in [Plugins -> Nat]
    BY <1>4, <1>9, <2>1
  <2> QED
    BY <1>1, <2>2 DEF HostTyped
<1>12. Tracked' /\ AtBoot'
  BY <1>1, <1>5, <1>9 DEF Tracked, AtBoot
<1>13. OneLiveConsumer'
  <2>1. ASSUME NEW i \in 1 .. n
        PROVE  tracked'[tasks'[i].plugin] = i /\ tasks'[i].plugin \in loaded \ disabled
    <3>1. PICK p \in Plugins : p = tasks'[i].plugin /\ tasks'[i] = NewTask(p)
      BY <1>8
    <3>2. PICK k \in 1 .. n : k = tracked'[p] /\ tasks'[k].plugin = p
      BY <1>9
    <3>3. tasks'[k] = tasks'[i]
      BY <1>8, <3>1, <3>2
    <3>4. k = i
      BY <1>4, <3>3
    <3> QED
      BY <1>1, <3>1, <3>2, <3>4
  <2> QED
    BY <1>1, <1>5, <2>1 DEF OneLiveConsumer
<1> QED
  BY <1>10, <1>11, <1>12, <1>13 DEF HostIInv

LEMMA HostInitInvariant == HostInit => HostIInv
<1> SUFFICES ASSUME HostInit PROVE HostIInv
  OBVIOUS
<1>1. /\ phase = "boot" /\ loaded = Plugins /\ disabled = {} /\ tasks = <<>>
      /\ unloading = {} /\ missed = {}
      /\ tracked = [p \in Plugins |-> 0]
  BY DEF HostInit
<1>2. Len(tasks) = 0 /\ DOMAIN tasks = {} /\ 1 .. 0 = {} /\ tasks = [i \in {} |-> tasks[i]]
  BY <1>1
<1>3. TasksTyped
  BY <1>2 DEF TasksTyped
<1> QED
  BY <1>1, <1>2, <1>3 DEF HostIInv, HostTyped, Tracked, AtBoot, OneLiveConsumer

LEMMA HostNextInvariant ==
  ASSUME HostIInv, [HostNext]_hostVars
  PROVE  HostIInv'
<1>1. ASSUME UNCHANGED loaderVars PROVE HostIInv'
  BY <1>1 DEF loaderVars, HostIInv, HostTyped, TasksTyped, Tracked, AtBoot, OneLiveConsumer
<1>2. CASE HostNext
  <2>1. ASSUME NEW i \in DOMAIN tasks,
               \/ Subscribe(i) \/ TakeFlow(i) \/ YieldFinding(i)
               \/ \E state \in {"waiting", "crashed"} : EndScan(i, state)
        PROVE  HostIInv'
    <3>1. CASE YieldFinding(i)
      BY <1>1, <3>1 DEF YieldFinding
    <3> QED
      BY <2>1, <3>1, ConsumerInvariant
  <2>2. CASE WindowPasses \/ Flush \/ StorageRegisters \/ StoreFinding
    BY <1>1, <2>2 DEF WindowPasses, Flush, StorageRegisters, StoreFinding
  <2>3. CASE ShutdownBegins
    BY <2>3 DEF ShutdownBegins, HostIInv, HostTyped, TasksTyped, Tracked, AtBoot, OneLiveConsumer
  <2>4. CASE \E p \in Plugins : Toggle(p) \/ Unload(p) \/ Unloaded(p)
    BY <2>4, ToggleInvariant, UnloadInvariant, UnloadedInvariant
  <2> QED
    BY <1>2, <2>1, <2>2, <2>3, <2>4, LoaderStartInvariant, FlowArrivesInvariant DEF HostNext
<1>3. CASE UNCHANGED hostVars
  BY <1>1, <1>3 DEF hostVars, loaderVars
<1> QED
  BY <1>2, <1>3

(* Whatever plugins are toggled, crash or are shut down, and in whatever    *)
(* order: a consumer that lives is the one its plugin's entry tracks, of a  *)
(* plugin that is enabled, so that a flow is never scanned twice by one     *)
(* plugin; and of an unloaded plugin only if a toggle started it while      *)
(* unload() was suspended.                                                 *)
THEOREM ConsumersAreTracked == HostSpec => []OneLiveConsumer
<1>1. HostInit /\ [][HostNext]_hostVars => []HostIInv
  BY HostInitInvariant, HostNextInvariant, PTL
<1>2. HostIInv => OneLiveConsumer
  BY DEF HostIInv
<1> QED
  BY <1>1, <1>2, PTL DEF HostSpec

-----------------------------------------------------------------------------
(* The flows that wait for the consumers. *)

(* The flows that were published so far, as the queues of the tasks hold them. *)
Arrived(n) == {[topic |-> "flow", n |-> f] : f \in 1 .. n}

QueueOfFlows(q, n) ==
  /\ Sound(q, Arrived(n))
  /\ Len(q.items) <= QueueSize[ClassOf["flow"]]
  /\ Len(q.retry) <= IF ClassOf["flow"] = "critical" THEN RetryLimit ELSE 0
  /\ ClassOf["flow"] = "important" => OneOfKey(q)

FlowIInv ==
  /\ flows \in Nat /\ batch.flows \subseteq 1 .. flows
  /\ \A i \in DOMAIN tasks : QueueOfFlows(tasks[i].q, flows)

LEMMA FlowClass ==
  /\ "flow" \in Topics /\ ClassOf["flow"] \in QosClass /\ QueueSize[ClassOf["flow"]] \in Nat
  /\ RetryLimit \in Nat
BY HostAssumption, HookAssumption, QosAssumption

LEMMA FreshIsOfFlows == ASSUME NEW n \in Nat PROVE QueueOfFlows(FreshQueue, n)
<1>1. /\ FreshQueue.items = <<>> /\ FreshQueue.retry = <<>>
      /\ Len(<<>>) = 0 /\ DOMAIN <<>> = {}
  BY DEF FreshQueue
<1> QED
  BY <1>1, FlowClass, FreshIsSound DEF QueueOfFlows, OneOfKey

(* put_nowait() of the next flow. *)
LEMMA PutIsOfFlows ==
  ASSUME NEW n \in Nat, NEW l, l = n + 1, NEW q, QueueOfFlows(q, n)
  PROVE  QueueOfFlows(PutIn("flow", q, [topic |-> "flow", n |-> l]), l)
<1>0. PICK m : m = [topic |-> "flow", n |-> l]
  OBVIOUS
<1>1. PICK k \in QosClass, size \in Nat : k = ClassOf["flow"] /\ size = QueueSize[k]
  BY FlowClass
<1>2. PICK C : C = Arrived(n)
  OBVIOUS
<1>3. m \in QosMessage /\ m \notin C /\ Arrived(l) = C \cup {m}
  <2>1. m \in QosMessage /\ \A f \in 1 .. n : [topic |-> "flow", n |-> f] # m
    BY <1>0, FlowClass DEF QosMessage
  <2>2. 1 .. l = 1 .. n \cup {l}
    OBVIOUS
  <2> QED
    BY <1>0, <1>2, <2>1, <2>2 DEF Arrived
<1>4. /\ Sound(q, C) /\ m \notin C
      /\ k = "important" => OneOfKey(q)
      /\ Len(q.items) <= size /\ Len(q.retry) <= IF k = "critical" THEN RetryLimit ELSE 0
  BY <1>1, <1>2, <1>3 DEF QueueOfFlows
<1>5. PICK p : p = Put(k, q, m, size)
  OBVIOUS
<1>6. LET r == Put(k, q, m, size)
      IN /\ Sound(r, C \cup {m}) /\ Len(r.items) <= size
         /\ Len(r.retry) <= IF k = "critical" THEN RetryLimit ELSE 0
  <2>1. m \in QosMessage /\ m \notin C /\ size \in Nat
    BY <1>3
  <2> QED
    BY <1>4, <2>1, PutIsSound, ZenonT(60)
<1>7. k = "important" => OneOfKey(p)
  <2>1. ASSUME k = "important" PROVE p = EnqueueCoalesce(q, m, size)
    BY <1>5, <2>1 DEF Put
  <2>2. q \in QueueContents /\ m \in QosMessage
    BY <1>3, <1>4 DEF Sound
  <2> QED
    BY <1>4, <2>1, <2>2, CoalesceKeepsKeys
<1>8. PutIn("flow", q, m) = p
  BY <1>1, <1>5 DEF PutIn
<1>9. QueueOfFlows(p, l)
  BY <1>1, <1>3, <1>5, <1>6, <1>7 DEF QueueOfFlows
<1> QED
  BY <1>0, <1>8, <1>9

(* get(): what is taken was published. *)
LEMMA GetIsOfFlows ==
  ASSUME NEW n \in Nat, NEW q, QueueOfFlows(q, n), CanGet(q)
  PROVE  NextItem(q).n \in 1 .. n /\ QueueOfFlows(AfterGet(q), n)
<1>1. PICK p, x, C : p = AfterGet(q) /\ x = NextItem(q) /\ C = Arrived(n)
  OBVIOUS
<1>2. Sound(q, C)
  BY <1>1 DEF QueueOfFlows
<1>3. /\ x \in C /\ Sound(p, C \ {x})
      /\ Len(p.items) <= Len(q.items) /\ Len(p.retry) <= Len(q.retry)
  BY <1>1, <1>2, GetIsSound
<1>4. Sound(p, C)
  BY <1>3 DEF Sound
<1>5. /\ Len(p.items) \in Nat /\ Len(p.retry) \in Nat /\ Len(q.items) \in Nat /\ Len(q.retry) \in Nat
      /\ q.items \in Seq(QosMessage) /\ q \in QueueContents
  BY <1>2, <1>4, LenProperties DEF Sound, QueueContents
<1>6. OneOfKey(q) => OneOfKey(p)
  <2>1. CASE Due(q) # {}
    <3>1. p.items = q.items
      BY <1>1, <1>5, <2>1 DEF AfterGet, QueueContents
    <3> QED
      BY <3>1 DEF OneOfKey
  <2>2. CASE Due(q) = {}
    <3>1. p.items = Tail(q.items) /\ q.items # <<>>
      BY <1>1, <1>5, <2>2 DEF AfterGet, CanGet, QueueContents
    <3>2. /\ DOMAIN p.items \subseteq Nat
          /\ \A i \in DOMAIN p.items : p.items[i] = q.items[i + 1] /\ i + 1 \in DOMAIN q.items
      BY <1>5, <3>1, HeadTailProperties, LenProperties, EmptySeq
    <3> QED
      BY <3>2 DEF OneOfKey
  <2> QED
    BY <2>1, <2>2
<1>7. QueueOfFlows(p, n)
  <2>1. Len(q.items) <= QueueSize[ClassOf["flow"]]
        /\ Len(q.retry) <= (IF ClassOf["flow"] = "critical" THEN RetryLimit ELSE 0)
    BY DEF QueueOfFlows
  <2>2. Len(p.items) <= QueueSize[ClassOf["flow"]]
    BY <1>3, <1>5, <2>1, FlowClass
  <2>3. Len(p.retry) <= IF ClassOf["flow"] = "critical" THEN RetryLimit ELSE 0
    BY <1>3, <1>5, <2>1, FlowClass
  <2> QED
    BY <1>1, <1>4, <1>6, <2>2, <2>3 DEF QueueOfFlows
<1> QED
  BY <1>1, <1>3, <1>7 DEF Arrived

(* A flow more has been published, which the queue does not have. *)
LEMMA LaterIsOfFlows ==
  ASSUME NEW n \in Nat, NEW l, l = n + 1, NEW q, QueueOfFlows(q, n)
  PROVE  QueueOfFlows(q, l)
<1>1. Arrived(n) \subseteq Arrived(l)
  <2>1. 1 .. n \subseteq 1 .. l
    OBVIOUS
  <2> QED
    BY <2>1 DEF Arrived
<1>2. Sound(q, Arrived(l))
  BY <1>1 DEF QueueOfFlows, Sound
<1> QED
  BY <1>2 DEF QueueOfFlows

LEMMA FlowArrivesQueues ==
  ASSUME HostIInv, FlowIInv, FlowArrives
  PROVE  FlowIInv'
<1>1. PICK n \in Nat, l \in Nat : n = flows /\ l = n + 1 /\ l = flows'
  BY DEF FlowIInv, FlowArrives
<1>2. 1 .. n \subseteq 1 .. l
  BY <1>1
<1>3. ASSUME NEW i \in DOMAIN tasks
      PROVE  QueueOfFlows(tasks'[i].q, l)
  <2>1. PICK x, p : x = tasks[i].q /\ p = PutIn("flow", x, [topic |-> "flow", n |-> l])
    OBVIOUS
  <2>2. QueueOfFlows(x, n)
    BY <1>1, <2>1 DEF FlowIInv
  <2>3. QueueOfFlows(x, l) /\ QueueOfFlows(p, l)
    BY <1>1, <2>1, <2>2, LaterIsOfFlows, PutIsOfFlows
  <2>4. IsTask(tasks[i]) /\ tasks'[i] \in {tasks[i], [tasks[i] EXCEPT !.q = p]}
    BY <1>1, <2>1 DEF FlowArrives, HostIInv, TasksTyped
  <2>5. tasks'[i].q \in {x, p}
    BY <2>1, <2>4 DEF IsTask
  <2> QED
    BY <2>3, <2>5
<1>4. DOMAIN tasks' = DOMAIN tasks /\ batch' = batch
  BY DEF FlowArrives, trackerVars
<1> QED
  BY <1>1, <1>2, <1>3, <1>4 DEF FlowIInv

LEMMA TakeFlowQueues ==
  ASSUME HostIInv, WindowsIInv, FlowIInv, NEW i \in DOMAIN tasks, TakeFlow(i)
  PROVE  FlowIInv'
<1>1. PICK n \in Nat : n = flows /\ n = flows'
  BY DEF FlowIInv, TakeFlow
<1>2. PICK x, p, f : x = tasks[i].q /\ p = AfterGet(x) /\ f = NextItem(x).n
  OBVIOUS
<1>3. CanGet(x) /\ QueueOfFlows(x, n)
  BY <1>1, <1>2 DEF TakeFlow, FlowIInv
<1>4. f \in 1 .. n /\ QueueOfFlows(p, n)
  BY <1>2, <1>3, GetIsOfFlows
<1>5. tasks' = [tasks EXCEPT ![i].state = "scanning", ![i].q = p, ![i].flow = f]
  BY <1>2 DEF TakeFlow
<1>6. DOMAIN tasks' = DOMAIN tasks /\ tasks'[i].q = p /\ \A j \in DOMAIN tasks \ {i} : tasks'[j] = tasks[j]
  BY <1>5 DEF HostIInv, TasksTyped, IsTask
<1>7. batch'.flows \subseteq 1 .. n
  <2>1. ReportFlow(f)
    BY <1>2 DEF TakeFlow
  <2>2. PICK b : /\ b \in {batch, [NoBatch EXCEPT !.id = batches + 1]}
                 /\ batch' = [b EXCEPT !.flows = @ \cup {f}]
    BY <2>1 DEF ReportFlow
  <2>3. [NoBatch EXCEPT !.id = batches + 1].flows = {} /\ batch.flows \subseteq 1 .. n
    BY <1>1 DEF NoBatch, FlowIInv
  <2>4. b.flows \subseteq 1 .. n
    BY <2>2, <2>3
  <2>5. batch'.flows = b.flows \cup {f}
    <3>1. CASE b = batch
      BY <2>2, <3>1 DEF WindowsIInv, WindowsTyped
    <3>2. CASE b = [NoBatch EXCEPT !.id = batches + 1]
      BY <2>2, <3>2 DEF NoBatch
    <3> QED
      BY <2>2, <3>1, <3>2
  <2> QED
    BY <1>4, <2>4, <2>5
<1>8. ASSUME NEW j \in DOMAIN tasks' PROVE QueueOfFlows(tasks'[j].q, n)
  BY <1>1, <1>4, <1>6 DEF FlowIInv
<1> QED
  BY <1>1, <1>7, <1>8 DEF FlowIInv

(* start() *)
LEMMA StartedAre ==
  ASSUME HostIInv, LoaderStart
  PROVE  \A i \in DOMAIN tasks' : \E p \in Plugins : tasks'[i] = NewTask(p)
<1> DEFINE S == {NewTask(p) : p \in Plugins}
<1>1. tasks' = SetToSeq(S)
  BY DEF HostIInv, AtBoot, LoaderStart, Spawned
<1>2. IsFiniteSet(S)
  <2>1. [p \in Plugins |-> NewTask(p)] \in Surjection(Plugins, S)
    BY DEF Surjection
  <2> QED
    BY <2>1, HostAssumption, FS_Surjection
<1>3. tasks' \in [1 .. Cardinality(S) -> S]
  BY <1>1, <1>2, SetToSeqLists
<1> QED
  BY <1>3

LEMMA CancelledKeeps ==
  ASSUME NEW t PROVE Cancelled(t) = t \/ Cancelled(t) = [t EXCEPT !.state = "cancelled", !.q = FreshQueue, !.flow = 0]
BY DEF Cancelled

(* The other steps of the plugin side bring no flow. *)
LEMMA TasksQueues ==
  ASSUME HostIInv, WindowsIInv, FlowIInv,
         \/ LoaderStart \/ ShutdownBegins
         \/ \E i \in DOMAIN tasks :
              Subscribe(i) \/ \E state \in {"waiting", "crashed"} : EndScan(i, state)
         \/ \E p \in Plugins : Toggle(p) \/ Unload(p) \/ Unloaded(p)
  PROVE  FlowIInv'
<1>1. UNCHANGED <<flows, batch>>
  BY DEF LoaderStart, ShutdownBegins, Subscribe, EndScan, Toggle, Unload, Unloaded, trackerVars
<1>2. flows \in Nat /\ QueueOfFlows(FreshQueue, flows)
  BY FreshIsOfFlows DEF FlowIInv
<1>3. TasksTyped /\ \A i \in DOMAIN tasks : QueueOfFlows(tasks[i].q, flows)
  BY DEF FlowIInv, HostIInv
<1> DEFINE Keeps == \A i \in DOMAIN tasks' :
                      tasks'[i].q = FreshQueue \/ (i \in DOMAIN tasks /\ tasks'[i].q = tasks[i].q)
<1>4. Keeps
  <2>1. CASE LoaderStart
    <3>1. \A i \in DOMAIN tasks' : \E p \in Plugins : tasks'[i] = NewTask(p)
      BY <2>1, StartedAre
    <3> QED
      BY <3>1 DEF NewTask
  <2>2. CASE ShutdownBegins
    BY <2>2 DEF ShutdownBegins
  <2>3. ASSUME NEW i \in DOMAIN tasks, Subscribe(i) PROVE Keeps
    BY <1>3, <2>3 DEF Subscribe, TasksTyped, IsTask
  <2>4. ASSUME NEW i \in DOMAIN tasks, NEW s \in {"waiting", "crashed"}, EndScan(i, s) PROVE Keeps
    <3>1. PICK x : x = IF s = "waiting" THEN tasks[i].q ELSE FreshQueue
      OBVIOUS
    <3>2. tasks' = [tasks EXCEPT ![i].state = s, ![i].flow = 0, ![i].q = x]
      BY <1>3, <2>4, <3>1 DEF EndScan, TasksTyped
    <3> QED
      BY <1>3, <3>1, <3>2 DEF TasksTyped, IsTask
  <2>5. ASSUME NEW p \in Plugins, Toggle(p) \/ Unload(p) \/ Unloaded(p) PROVE Keeps
    <3>1. CASE Activate(p)
      <4>1. PICK n, t : /\ n \in Nat /\ n = Len(tasks) /\ t = NewTask(p) /\ tasks' = Append(tasks, t)
        BY <1>3, <3>1 DEF Activate, TasksTyped
      <4>2. DOMAIN tasks = 1 .. n /\ tasks = [j \in 1 .. n |-> tasks[j]]
        BY <1>3, <4>1 DEF TasksTyped
      <4>3. /\ DOMAIN tasks' = 1 .. n + 1 /\ tasks'[n + 1] = t
            /\ \A j \in 1 .. n : tasks'[j] = tasks[j]
        BY <4>1, <4>2, TasksInOrder
      <4>4. \A j \in 1 .. n + 1 : j = n + 1 \/ j \in 1 .. n
        BY <4>1
      <4>5. t.q = FreshQueue
        BY <4>1 DEF NewTask
      <4> QED
        BY <4>2, <4>3, <4>4, <4>5
    <3>2. CASE tasks' = IF tracked[p] = 0 THEN tasks ELSE [tasks EXCEPT ![tracked[p]] = Cancelled(@)]
      <4>1. CASE tasks' = tasks
        BY <4>1
      <4>2. CASE tracked[p] # 0
        <5>1. PICK k, t : k = tracked[p] /\ t = Cancelled(tasks[k])
          OBVIOUS
        <5>2. k \in DOMAIN tasks /\ IsTask(tasks[k]) /\ tasks' = [tasks EXCEPT ![k] = t]
          BY <1>3, <3>2, <4>2, <5>1 DEF HostIInv, Tracked, TasksTyped
        <5>3. t.q \in {tasks[k].q, FreshQueue}
          BY <5>1, <5>2, CancelledKeeps DEF IsTask
        <5>4. DOMAIN tasks' = DOMAIN tasks /\ tasks'[k] = t /\ \A j \in DOMAIN tasks \ {k} : tasks'[j] = tasks[j]
          BY <5>2
        <5> QED
          BY <5>3, <5>4
      <4> QED
        BY <3>2, <4>1, <4>2
    <3> QED
      BY <2>5, <3>1, <3>2 DEF Toggle, Deactivate, Unload, Unloaded
  <2> QED
    BY <2>1, <2>2, <2>3, <2>4, <2>5
<1> QED
  BY <1>1, <1>2, <1>3, <1>4 DEF FlowIInv

LEMMA FlowsInvariant == HostSpec => []FlowIInv
<1>1. HostInit => FlowIInv
  <2> SUFFICES ASSUME HostInit PROVE FlowIInv
    OBVIOUS
  <2>1. flows = 0 /\ tasks = <<>> /\ DOMAIN <<>> = {} /\ batch.flows = {}
    BY DEF HostInit, NoBatch
  <2> QED
    BY <2>1 DEF FlowIInv
<1>2. HostIInv /\ WindowsIInv /\ FlowIInv /\ [HostNext]_hostVars => FlowIInv'
  <2> SUFFICES ASSUME HostIInv, WindowsIInv, FlowIInv, [HostNext]_hostVars PROVE FlowIInv'
    OBVIOUS
  <2>1. ASSUME UNCHANGED <<flows, tasks>>, batch'.flows \subseteq batch.flows PROVE FlowIInv'
    BY <2>1 DEF FlowIInv
  <2>2. CASE WindowPasses \/ StorageRegisters \/ StoreFinding
    BY <2>1, <2>2 DEF WindowPasses, StorageRegisters, StoreFinding, loaderVars, trackerVars
  <2>3. CASE Flush
    BY <2>1, <2>3 DEF Flush, loaderVars, NoBatch
  <2>4. ASSUME NEW i \in DOMAIN tasks, YieldFinding(i) PROVE FlowIInv'
    <3>1. batch'.flows = batch.flows
      BY <2>4 DEF YieldFinding, WindowsIInv, WindowsTyped
    <3> QED
      BY <2>1, <2>4, <3>1 DEF YieldFinding, loaderVars
  <2>5. CASE UNCHANGED hostVars
    BY <2>1, <2>5 DEF hostVars, loaderVars, trackerVars
  <2> QED
    BY <2>2, <2>3, <2>4, <2>5, FlowArrivesQueues, TakeFlowQueues, TasksQueues DEF HostNext
<1>3. HostInit /\ [][HostNext]_hostVars => [](HostIInv /\ WindowsIInv)
  BY HostInitInvariant, HostNextInvariant, WindowsInitInvariant, WindowsNextInvariant, PTL
<1> QED
  BY <1>1, <1>2, <1>3, PTL DEF HostSpec

(* The consumers and their plugins are known, what waits for a consumer     *)
(* stays within the size of its queue, and what waits to be retried within *)
(* the limit of the buffer; one plugin at most is being unloaded, and it is *)
(* still in the table; a window holds flows that were   *)
(* published.                                                              *)
THEOREM HostTypeCorrect == HostSpec => []HostTypeOK
<1>1. HostIInv /\ WindowsIInv /\ FlowIInv => HostTypeOK
  <2> SUFFICES ASSUME HostIInv, WindowsIInv, FlowIInv PROVE HostTypeOK
    OBVIOUS
  <2>1. \A i \in DOMAIN tasks :
          /\ tasks[i].plugin \in Plugins /\ tasks[i].state \in Live \cup {"cancelled", "crashed"}
          /\ Len(tasks[i].q.items) <= QueueSize[ClassOf["flow"]]
    BY DEF HostIInv, TasksTyped, IsTask, TaskState, FlowIInv, QueueOfFlows
  <2>4. ASSUME NEW i \in DOMAIN tasks PROVE Len(tasks[i].q.retry) <= RetryLimit
    <3>1. PICK n : n = Len(tasks[i].q.retry)
      OBVIOUS
    <3>2. n \in Nat /\ n <= (IF ClassOf["flow"] = "critical" THEN RetryLimit ELSE 0)
      BY <3>1 DEF FlowIInv, QueueOfFlows, Sound
    <3> QED
      BY <3>1, <3>2, FlowClass
  <2>2. tracked \in [Plugins -> 0 .. Len(tasks)]
    BY DEF HostIInv, HostTyped, TasksTyped, Tracked
  <2>3. batch.id <= batches
    <3>1. batches \in Nat /\ batch.id \in Nat
      BY DEF WindowsIInv, WindowsTyped
    <3> QED
      BY <3>1 DEF WindowsIInv, Window
  <2> QED
    BY <2>1, <2>2, <2>3, <2>4 DEF HostTypeOK, HostIInv, HostTyped, Tracked, FlowIInv
<1>2. HostInit /\ [][HostNext]_hostVars => [](HostIInv /\ WindowsIInv)
  BY HostInitInvariant, HostNextInvariant, WindowsInitInvariant, WindowsNextInvariant, PTL
<1> QED
  BY <1>1, <1>2, FlowsInvariant, PTL DEF HostSpec

(* The plugin side publishes its findings on the HookBus, and the storage   *)
(* consumes them: seen from the bus, it is a client like any other.  What   *)
(* holds of the bus therefore holds of the findings.                       *)
THEOREM HostUsesTheBus == HostSpec => HookSpec
<1>1. HostInit => HookInit
  BY DEF HostInit
<1>2. BusIInv /\ [HostNext]_hostVars => [HookNext]_hookVars
  <2> SUFFICES ASSUME BusIInv, [HostNext]_hostVars PROVE [HookNext]_hookVars
    OBVIOUS
  <2>1. "finding" \in Topics /\ "finding" \in Channels
    BY HostAssumption, HookAssumption
  <2>2. ASSUME NEW i \in DOMAIN tasks, YieldFinding(i) PROVE HookNext
    BY <2>1, <2>2 DEF YieldFinding, HookNext
  <2>3. CASE StorageRegisters
    <3>1. Len(bus.subs["finding"]) = 0
      BY <2>3 DEF StorageRegisters
    <3>2. Len(bus.subs["finding"]) < MaxSubscribers
      BY <3>1, HostAssumption, HookAssumption
    <3> QED
      BY <2>1, <2>3, <3>2 DEF StorageRegisters, HookNext
  <2>4. CASE StoreFinding
    <3>1. 1 \in DOMAIN bus.subs["finding"]
      <4>1. bus.subs["finding"] \in Seq(QueueContents) /\ bus.subs["finding"] # <<>>
        BY <2>1, <2>4, BusIs DEF StoreFinding
      <4> QED
        BY <4>1, EmptySeq, LenProperties
    <3> QED
      BY <2>1, <2>4, <3>1 DEF StoreFinding, HookNext
  <2>5. CASE \/ LoaderStart \/ FlowArrives \/ WindowPasses \/ Flush \/ ShutdownBegins
             \/ \E p \in Plugins : Toggle(p) \/ Unload(p) \/ Unloaded(p)
             \/ \E i \in DOMAIN tasks :
                  \/ Subscribe(i) \/ TakeFlow(i)
                  \/ \E state \in {"waiting", "crashed"} : EndScan(i, state)
    BY <2>5 DEF LoaderStart, FlowArrives, WindowPasses, Flush, ShutdownBegins, Toggle, Unload, Unloaded,
                Subscribe, TakeFlow, EndScan
  <2>6. CASE UNCHANGED hostVars
    BY <2>6 DEF hostVars
  <2> QED
    BY <2>2, <2>3, <2>4, <2>5, <2>6 DEF HostNext
<1> QED
  BY <1>1, <1>2, HookInitInvariant, HookNextInvariant, PTL DEF HostSpec, HookSpec

-----------------------------------------------------------------------------
(* The scan of one flow (DetectionChain). *)

IsList(s) == s \in Seq({s[i] : i \in DOMAIN s})

(* u is a list of the entries of s and those of t. *)
Joins(u, s, t) ==
  /\ IsList(u)
  /\ \A i \in DOMAIN u : (\E j \in DOMAIN s : u[i] = s[j]) \/ \E j \in DOMAIN t : u[i] = t[j]
  /\ \A j \in DOMAIN s : \E i \in DOMAIN u : u[i] = s[j]
  /\ \A j \in DOMAIN t : \E i \in DOMAIN u : u[i] = t[j]

LEMMA JoinedLists ==
  ASSUME NEW s, NEW t, IsList(s), IsList(t)
  PROVE  Joins(s \o t, s, t)
<1> DEFINE S == {s[i] : i \in DOMAIN s} \cup {t[i] : i \in DOMAIN t}
           u == s \o t
<1>1. s \in Seq(S) /\ t \in Seq(S)
  <2>1. s \in [1 .. Len(s) -> {s[i] : i \in DOMAIN s}] /\ Len(s) \in Nat
    BY LenProperties DEF IsList
  <2>2. t \in [1 .. Len(t) -> {t[i] : i \in DOMAIN t}] /\ Len(t) \in Nat
    BY LenProperties DEF IsList
  <2>3. s \in [1 .. Len(s) -> S] /\ t \in [1 .. Len(t) -> S]
    BY <2>1, <2>2
  <2> HIDE DEF S
  <2> QED
    BY <2>1, <2>2, <2>3, SeqDef
<1> HIDE DEF S
<1>2. PICK m \in Nat, n \in Nat : /\ m = Len(s) /\ n = Len(t)
                                  /\ DOMAIN s = 1 .. m /\ DOMAIN t = 1 .. n
  BY <1>1, LenProperties
<1>3. /\ u \in Seq(S) /\ Len(u) = m + n
      /\ \A i \in 1 .. m + n : u[i] = IF i <= m THEN s[i] ELSE t[i - m]
  BY <1>1, <1>2, ConcatProperties
<1>4. u \in [1 .. m + n -> S] /\ DOMAIN u = 1 .. m + n
  BY <1>3, LenProperties
<1> HIDE DEF u
<1>5. IsList(u)
  <2> DEFINE T == {u[i] : i \in DOMAIN u}
  <2>1. PICK k \in Nat : k = m + n
    OBVIOUS
  <2>2. u \in [1 .. k -> T]
    BY <1>4, <2>1
  <2> HIDE DEF T
  <2>3. u \in Seq(T)
    BY <2>2, SeqDef
  <2> QED
    BY <2>3 DEF IsList, T
<1>6. ASSUME NEW i \in DOMAIN u
      PROVE  (\E j \in DOMAIN s : u[i] = s[j]) \/ \E j \in DOMAIN t : u[i] = t[j]
  <2>1. CASE i <= m
    BY <1>2, <1>3, <1>4, <2>1
  <2>2. CASE ~(i <= m)
    <3>1. i - m \in DOMAIN t /\ u[i] = t[i - m]
      BY <1>2, <1>3, <1>4, <2>2
    <3> QED
      BY <3>1
  <2> QED
    BY <2>1, <2>2
<1>7. ASSUME NEW j \in DOMAIN s PROVE \E i \in DOMAIN u : u[i] = s[j]
  <2>1. j \in DOMAIN u /\ u[j] = s[j]
    BY <1>2, <1>3, <1>4
  <2> QED
    BY <2>1
<1>8. ASSUME NEW j \in DOMAIN t PROVE \E i \in DOMAIN u : u[i] = t[j]
  <2>1. j + m \in 1 .. m + n /\ ~(j + m <= m) /\ (j + m) - m = j
    BY <1>2
  <2>2. u[j + m] = IF j + m <= m THEN s[j + m] ELSE t[(j + m) - m]
    BY <1>3, <2>1
  <2>3. j + m \in DOMAIN u /\ u[j + m] = t[j]
    BY <1>4, <2>1, <2>2
  <2> QED
    BY <2>3
<1> QED
  BY <1>5, <1>6, <1>7, <1>8 DEF u, Joins

LEMMA ShortLists ==
  /\ IsList(<<>>)
  /\ \A e : IsList(<<e>>) /\ DOMAIN <<e>> = {1} /\ <<e>>[1] = e
<1>1. IsList(<<>>)
  BY EmptySeq DEF IsList
<1>2. ASSUME NEW e PROVE IsList(<<e>>) /\ DOMAIN <<e>> = {1} /\ <<e>>[1] = e
  <2>1. DOMAIN <<e>> = {1} /\ <<e>>[1] = e
    OBVIOUS
  <2>2. {<<e>>[i] : i \in DOMAIN <<e>>} = {e}
    BY <2>1
  <2>3. <<e>> \in Seq({e})
    OBVIOUS
  <2> QED
    BY <2>1, <2>2, <2>3 DEF IsList
<1> QED
  BY <1>1, <1>2

LEMMA LongerList ==
  ASSUME NEW s, NEW e, IsList(s)
  PROVE  /\ IsList(Append(s, e))
         /\ \A j \in DOMAIN s : \E i \in DOMAIN Append(s, e) : Append(s, e)[i] = s[j]
         /\ \E i \in DOMAIN Append(s, e) : Append(s, e)[i] = e
<1>1. IsList(<<e>>) /\ DOMAIN <<e>> = {1} /\ <<e>>[1] = e
  BY ShortLists
<1>2. Append(s, e) = s \o <<e>>
  <2> DEFINE S == {s[i] : i \in DOMAIN s} \cup {e}
  <2>1. s \in [1 .. Len(s) -> {s[i] : i \in DOMAIN s}] /\ Len(s) \in Nat
    BY LenProperties DEF IsList
  <2>2. s \in [1 .. Len(s) -> S] /\ e \in S
    BY <2>1
  <2> HIDE DEF S
  <2>3. s \in Seq(S)
    BY <2>1, <2>2, SeqDef
  <2> QED
    BY <2>2, <2>3, AppendIsConcat
<1> DEFINE t == <<e>>
           u == Append(s, e)
<1>3. IsList(t) /\ DOMAIN t = {1} /\ t[1] = e /\ u = s \o t
  BY <1>1, <1>2
<1> HIDE DEF t, u
<1>4. Joins(u, s, t)
  BY <1>3, JoinedLists
<1> QED
  BY <1>3, <1>4 DEF u, Joins
(* What a stage concludes: a point that it confirms has a finding. *)
Reports(v) == IsList(v.findings) /\ (v.confirmed => v.findings # <<>>)

LEMMA VerdictsIfReport ==
  /\ Reports(Nothing)
  /\ \A technique, confidence : Reports(Hit(technique, confidence))
  /\ \A cond \in BOOLEAN : \A v : Reports(v) => Reports(VerdictIf(cond, v))
<1>1. Reports(Nothing)
  BY ShortLists DEF Reports, Nothing
<1>2. ASSUME NEW technique, NEW confidence PROVE Reports(Hit(technique, confidence))
  <2> DEFINE f == F(technique, confidence)
  <2>1. Hit(technique, confidence).findings = <<f>>
    BY DEF Hit
  <2> HIDE DEF f
  <2>2. IsList(<<f>>) /\ <<f>> # <<>>
    BY ShortLists
  <2> QED
    BY <2>1, <2>2 DEF Reports
<1>3. ASSUME NEW cond \in BOOLEAN, NEW v, Reports(v) PROVE Reports(VerdictIf(cond, v))
  BY <1>1, <1>3 DEF VerdictIf
<1> QED
  BY <1>1, <1>2, <1>3

LEMMA ErrorBasedReports ==
  ASSUME NEW o
  PROVE  Reports(ErrorBased(o))
<1> DEFINE read == ReadUpTo(o.answers, "signature")
           sign == "signature" \in ToSet(read)
           diff == StatusDifferential(read, o.control)
           s == IF sign THEN <<F("error-based", "confirmed")>> ELSE <<>>
           d == IF diff THEN <<F("status-differential", DifferentialConfidence(read))>> ELSE <<>>
           v == [findings |-> s \o d, confirmed |-> sign \/ diff]
<1>1. ErrorBased(o) = VerdictIf(o.clean = "ok", v)
  BY DEF ErrorBased
<1>2. IsList(s) /\ IsList(d)
  BY ShortLists
<1>3. /\ sign => 1 \in DOMAIN s
      /\ diff => 1 \in DOMAIN d
  BY ShortLists
<1>4. v.findings = s \o d /\ (v.confirmed => sign \/ diff)
  OBVIOUS
<1> HIDE DEF v, s, d, sign, diff
<1>5. v.confirmed => \E i : i \in DOMAIN (s \o d)
  BY <1>2, <1>3, <1>4, JoinedLists DEF Joins
<1>6. Reports(v)
  <2>1. DOMAIN <<>> = {}
    OBVIOUS
  <2> QED
    BY <1>2, <1>4, <1>5, <2>1, JoinedLists DEF Reports, Joins
<1> QED
  BY <1>1, <1>6, VerdictsIfReport

LEMMA ReflectedReports ==
  ASSUME NEW o
  PROVE  Reports(Reflected(o))
<1> DEFINE u == [findings |-> <<F("unescaped-reflection", "tentative")>>, confirmed |-> FALSE]
           v == IF "exploitable" \in ToSet(o.answers) THEN Hit("reflected-xss", "confirmed") ELSE u
<1>1. Reports(u)
  BY ShortLists DEF Reports
<1> HIDE DEF u
<1>2. Reports(v)
  BY <1>1, VerdictsIfReport
<1>3. Reflected(o) = VerdictIf(o.probe = "reflected", v)
  BY DEF Reflected, u
<1> HIDE DEF v
<1> QED
  BY <1>2, <1>3, VerdictsIfReport

LEMMA StagesReport ==
  ASSUME NEW name, NEW v \in Verdicts(name),
         name \in {"ErrorBasedStage", "BooleanBlindStage", "TimeBlindStage", "ReflectedStage",
                   "StoredStage", "DomStage", "ContextAwareStage", "SimpleStage", "PHPWrapperStage",
                   "CommandInjectionStage", "RedirectStage", "XxeErrorBasedStage", "JSONMutateStage",
                   "SsrfSimpleStage", "OOBStage"}
  PROVE  Reports(v)
<1>1. CASE name = "ErrorBasedStage"
  BY <1>1, ErrorBasedReports DEF Verdicts
<1>2. CASE name = "BooleanBlindStage"
  BY <1>2, VerdictsIfReport DEF Verdicts, BooleanBlind
<1>3. CASE name = "TimeBlindStage"
  BY <1>3, VerdictsIfReport DEF Verdicts, TimeBlind
<1>4. CASE name = "ReflectedStage"
  BY <1>4, ReflectedReports DEF Verdicts
<1>5. CASE name = "StoredStage"
  BY <1>5, VerdictsIfReport DEF Verdicts, Stored
<1>6. CASE name = "DomStage"
  BY <1>6, VerdictsIfReport DEF Verdicts, Dom
<1>7. CASE name = "ContextAwareStage"
  BY <1>7, VerdictsIfReport DEF Verdicts, ContextAware
<1>8. CASE name = "SimpleStage"
  <2>1. PICK o : v = LfiSimple(o)
    BY <1>8 DEF Verdicts
  <2>2. ("match" \in ToSet(o)) \in BOOLEAN
    OBVIOUS
  <2> QED
    BY <2>1, <2>2, VerdictsIfReport DEF LfiSimple
<1>11. CASE name = "PHPWrapperStage"
  <2>1. PICK o : v = PHPWrapper(o)
    BY <1>11 DEF Verdicts
  <2>2. ("match" \in ToSet(o)) \in BOOLEAN
    OBVIOUS
  <2> QED
    BY <2>1, <2>2, VerdictsIfReport DEF PHPWrapper
<1>12. CASE name = "CommandInjectionStage"
  <2>1. PICK o : v = CommandInjection(o)
    BY <1>12 DEF Verdicts
  <2>2. ("match" \in ToSet(o)) \in BOOLEAN
    OBVIOUS
  <2> QED
    BY <2>1, <2>2, VerdictsIfReport DEF CommandInjection
<1>9. CASE name \in {"RedirectStage", "XxeErrorBasedStage", "JSONMutateStage"}
  BY <1>9, VerdictsIfReport DEF Verdicts, Redirect, XxeErrorBased, JSONMutate
<1>10. CASE name \in {"SsrfSimpleStage", "OOBStage"}
  BY <1>10, VerdictsIfReport DEF Verdicts, OutOfBand
<1> QED
  BY <1>1, <1>2, <1>3, <1>4, <1>5, <1>6, <1>7, <1>8, <1>9, <1>10,
     <1>11, <1>12

(* The parts of the state that the findings rest on. *)
ChainFields == {"at", "phase", "todo", "remaining", "points", "confirmed", "part", "hits", "spent"}

ChainShape ==
  /\ DOMAIN chain = ChainFields /\ DOMAIN chain.part = {"findings", "confirmed"}
  /\ DOMAIN scan = {"phase", "plugin", "depth", "runs"}
  /\ scan.phase # "idle" => scan.plugin \in Plugin
  /\ chain.phase # "none" => scan.phase = "scan"
  /\ chain.at \in Nat
  /\ chain.phase = "stage" => chain.at \in 1 .. Len(Stages)

Names(s, p)      == \E i \in DOMAIN s : s[i].point = p
TestedIn(made, f) == \E j \in DOMAIN made : made[j].point = f.point /\ made[j].stage = f.stage

(* What the current stage has found was tested, what it is about to confirm *)
(* it has found, and what is confirmed it has reported.                    *)
ReportsRest ==
  /\ IsList(tests) /\ IsList(yielded) /\ IsList(chain.part.findings)
  /\ \A i \in DOMAIN chain.part.findings : TestedIn(tests, chain.part.findings[i])
  /\ \A i \in DOMAIN yielded : TestedIn(tests, yielded[i])
  /\ \A p \in chain.hits : Names(chain.part.findings, p)
  /\ \A p \in chain.confirmed : Names(yielded, p)

ChainIInv == ChainShape /\ ReportsRest

LEMMA MinOfStages ==
  ASSUME NEW S \in SUBSET (1 .. 4), S # {}
  PROVE  Min(S) \in S
<1>1. \E x \in S : \A y \in S : x <= y
  <2>1. \A x \in S : x \in {1, 2, 3, 4}
    OBVIOUS
  <2>2. CASE 1 \in S
    BY <2>1, <2>2
  <2>3. CASE 1 \notin S /\ 2 \in S
    BY <2>1, <2>3
  <2>4. CASE 1 \notin S /\ 2 \notin S /\ 3 \in S
    BY <2>1, <2>4
  <2>5. CASE 1 \notin S /\ 2 \notin S /\ 3 \notin S
    <3>1. S = {4}
      BY <2>1, <2>5
    <3> QED
      BY <3>1
  <2> QED
    BY <2>2, <2>3, <2>4, <2>5
<1> QED
  BY <1>1 DEF Min

LEMMA StagesAre ==
  ASSUME scan.plugin \in Plugin
  PROVE  /\ Len(Stages) \in 1 .. 4
         /\ \A i \in 1 .. Len(Stages) :
              Stages[i].name \in {"ErrorBasedStage", "BooleanBlindStage", "TimeBlindStage",
                   "ReflectedStage", "StoredStage", "DomStage", "ContextAwareStage", "SimpleStage",
                   "PHPWrapperStage", "CommandInjectionStage", "RedirectStage", "XxeErrorBasedStage",
                   "JSONMutateStage", "SsrfSimpleStage", "OOBStage"}
<1>1. scan.plugin \in {"sqli", "xss", "lfi", "ssrf", "xxe", "command"}
  BY DEF Plugin, StagesOf
<1>2. CASE scan.plugin = "sqli"
  BY <1>2 DEF Stages, StagesOf, Stage
<1>3. CASE scan.plugin = "xss"
  BY <1>3 DEF Stages, StagesOf, Stage
<1>4. CASE scan.plugin = "lfi"
  BY <1>4 DEF Stages, StagesOf, Stage
<1>5. CASE scan.plugin = "ssrf"
  BY <1>5 DEF Stages, StagesOf, Stage
<1>6. CASE scan.plugin = "xxe"
  BY <1>6 DEF Stages, StagesOf, Stage
<1>7. CASE scan.plugin = "command"
  BY <1>7 DEF Stages, StagesOf, Stage
<1> QED
  BY <1>1, <1>2, <1>3, <1>4, <1>5, <1>6, <1>7

(* The chain moves on, and nothing is found. *)
LEMMA ReportsGoOn ==
  ASSUME ReportsRest, UNCHANGED <<yielded, tests>>, chain'.part = chain.part,
         chain'.hits = chain.hits, chain'.confirmed = chain.confirmed
  PROVE  ReportsRest'
BY DEF ReportsRest, Names

LEMMA NewRunReports ==
  ASSUME ReportsRest, UNCHANGED <<yielded, tests>>, chain'.part = Nothing,
         chain'.hits = {}, chain'.confirmed \in {{}, chain.confirmed}
  PROVE  ReportsRest'
<1>1. chain'.part.findings = <<>> /\ DOMAIN chain'.part.findings = {}
  BY DEF Nothing
<1> QED
  BY <1>1, ShortLists DEF ReportsRest, Names

LEMMA ChainInitInvariant == ChainInit => ChainIInv
<1> SUFFICES ASSUME ChainInit PROVE ChainIInv
  OBVIOUS
<1>1. /\ chain.part.findings = <<>> /\ chain.hits = {} /\ chain.confirmed = {}
      /\ yielded = <<>> /\ tests = <<>>
  BY DEF ChainInit, NoChain, Nothing
<1>2. ReportsRest
  BY <1>1, ShortLists DEF ReportsRest
<1>3. ChainShape
  BY DEF ChainInit, NoChain, Nothing, ChainShape, ChainFields
<1> QED
  BY <1>2, <1>3 DEF ChainIInv

LEMMA OnFlowInvariant ==
  ASSUME ChainIInv, NEW p \in Plugin, NEW d \in ToSet(Depths), NEW points, OnFlow(p, d, points)
  PROVE  ChainIInv'
<1>1. /\ scan.phase = "idle" /\ scan'.phase = "scan" /\ scan'.plugin = p
      /\ DOMAIN scan' = {"phase", "plugin", "depth", "runs"}
      /\ UNCHANGED <<chain, yielded, tests>>
  BY DEF OnFlow
<1>2. ChainShape'
  BY <1>1 DEF ChainIInv, ChainShape
<1>3. ReportsRest'
  BY <1>1, ReportsGoOn DEF ChainIInv
<1> QED
  BY <1>2, <1>3 DEF ChainIInv

LEMMA RunInvariant ==
  ASSUME ChainIInv, StartRun \/ EndOfScan \/ EndRun
  PROVE  ChainIInv'
<1>1. CASE StartRun
  <2>1. /\ scan.phase = "scan" /\ UNCHANGED <<yielded, tests>>
        /\ chain' = [NoChain EXCEPT !.phase = "between", !.points = Head(scan.runs)]
        /\ scan' = [scan EXCEPT !.runs = Tail(@)]
    BY <1>1 DEF StartRun
  <2>2. /\ DOMAIN chain' = ChainFields /\ chain'.part = Nothing /\ chain'.hits = {}
        /\ chain'.confirmed = {} /\ chain'.at = 0 /\ chain'.phase = "between"
    BY <2>1 DEF NoChain, ChainFields
  <2>3. /\ DOMAIN scan' = DOMAIN scan /\ scan'.phase = "scan" /\ scan'.plugin = scan.plugin
    BY <2>1 DEF ChainIInv, ChainShape
  <2>4. ChainShape'
    BY <2>1, <2>2, <2>3 DEF ChainIInv, ChainShape, Nothing
  <2>5. ReportsRest'
    BY <2>1, <2>2, NewRunReports DEF ChainIInv
  <2> QED
    BY <2>4, <2>5 DEF ChainIInv
<1>2. CASE EndOfScan
  <2>1. /\ scan.phase = "scan" /\ chain.phase = "none" /\ UNCHANGED <<chain, yielded, tests>>
        /\ scan' = [scan EXCEPT !.phase = "done"]
    BY <1>2 DEF EndOfScan
  <2>2. /\ DOMAIN scan' = DOMAIN scan /\ scan'.plugin = scan.plugin
    BY <2>1 DEF ChainIInv, ChainShape
  <2>3. ChainShape'
    BY <2>1, <2>2 DEF ChainIInv, ChainShape
  <2>4. ReportsRest'
    BY <2>1, ReportsGoOn DEF ChainIInv
  <2> QED
    BY <2>3, <2>4 DEF ChainIInv
<1>3. CASE EndRun
  <2>1. chain' = NoChain /\ UNCHANGED <<scan, yielded, tests>>
    BY <1>3 DEF EndRun
  <2>2. /\ DOMAIN chain' = ChainFields /\ chain'.part = Nothing /\ chain'.hits = {}
        /\ chain'.confirmed = {} /\ chain'.at = 0 /\ chain'.phase = "none"
    BY <2>1 DEF NoChain, ChainFields
  <2>3. ChainShape'
    BY <2>1, <2>2 DEF ChainIInv, ChainShape, Nothing
  <2>4. ReportsRest'
    BY <2>1, <2>2, NewRunReports DEF ChainIInv
  <2> QED
    BY <2>3, <2>4 DEF ChainIInv
<1> QED
  BY <1>1, <1>2, <1>3

LEMMA ChainStageInvariant ==
  ASSUME ChainIInv, BeginStage \/ StageRaises \/ BudgetSpent
  PROVE  ChainIInv'
<1>1. CASE BeginStage
  <2> DEFINE i == Min(NextStages)
  <2>1. /\ chain.phase = "between" /\ NextStages # {} /\ UNCHANGED <<scan, yielded, tests>>
        /\ chain' = [chain EXCEPT !.at = i, !.phase = "stage", !.part = Nothing, !.hits = {},
                                  !.remaining = Remaining(i), !.todo = Remaining(i)]
    BY <1>1 DEF BeginStage, CanBegin
  <2> HIDE DEF i
  <2>2. /\ DOMAIN chain' = ChainFields /\ chain'.at = i /\ chain'.phase = "stage"
        /\ chain'.part = Nothing /\ chain'.hits = {} /\ chain'.confirmed = chain.confirmed
    BY <2>1 DEF ChainIInv, ChainShape, ChainFields
  <2>3. scan.plugin \in Plugin /\ chain.at \in Nat
    BY <2>1 DEF ChainIInv, ChainShape
  <2>4. i \in 1 .. Len(Stages)
    <3>1. PICK n \in 1 .. 4 : n = Len(Stages)
      BY <2>3, StagesAre
    <3>2. NextStages \subseteq chain.at + 1 .. n
      BY <3>1 DEF NextStages
    <3>3. NextStages \subseteq 1 .. 4 /\ NextStages \subseteq 1 .. n
      BY <2>3, <3>2
    <3> QED
      BY <2>1, <3>1, <3>3, MinOfStages DEF i
  <2>5. ChainShape'
    BY <2>1, <2>2, <2>4 DEF ChainIInv, ChainShape, Nothing, Stages
  <2>6. ReportsRest'
    BY <2>1, <2>2, NewRunReports DEF ChainIInv
  <2> QED
    BY <2>5, <2>6 DEF ChainIInv
<1>2. CASE StageRaises
  <2>1. /\ chain.phase = "stage" /\ UNCHANGED <<scan, yielded, tests>>
        /\ chain' = [chain EXCEPT !.phase = "between"]
    BY <1>2 DEF StageRaises
  <2>2. /\ DOMAIN chain' = ChainFields /\ chain'.at = chain.at /\ chain'.phase = "between"
        /\ chain'.part = chain.part /\ chain'.hits = chain.hits /\ chain'.confirmed = chain.confirmed
    BY <2>1 DEF ChainIInv, ChainShape, ChainFields
  <2>3. ChainShape'
    BY <2>1, <2>2 DEF ChainIInv, ChainShape
  <2>4. ReportsRest'
    BY <2>1, <2>2, ReportsGoOn DEF ChainIInv
  <2> QED
    BY <2>3, <2>4 DEF ChainIInv
<1>3. CASE BudgetSpent
  <2>1. /\ UNCHANGED <<scan, yielded, tests>> /\ chain' = [chain EXCEPT !.spent = TRUE]
    BY <1>3 DEF BudgetSpent
  <2>2. /\ DOMAIN chain' = ChainFields /\ chain'.at = chain.at /\ chain'.phase = chain.phase
        /\ chain'.part = chain.part /\ chain'.hits = chain.hits /\ chain'.confirmed = chain.confirmed
    BY <2>1 DEF ChainIInv, ChainShape, ChainFields
  <2>3. ChainShape'
    BY <2>1, <2>2 DEF ChainIInv, ChainShape, Stages
  <2>4. ReportsRest'
    BY <2>1, <2>2, ReportsGoOn DEF ChainIInv
  <2> QED
    BY <2>3, <2>4 DEF ChainIInv
<1> QED
  BY <1>1, <1>2, <1>3

LEMMA TestInvariant ==
  ASSUME ChainIInv, chain.phase = "stage",
         NEW v \in Verdicts(Stages[chain.at].name), TestPoint(v)
  PROVE  ChainIInv'
<1> DEFINE p == Head(chain.todo)
           test == [stage |-> chain.at, point |-> p, spent |-> chain.spent,
                    met |-> p \in chain.confirmed]
           new == [k \in DOMAIN v.findings |->
                     [stage |-> chain.at, point |-> p, technique |-> v.findings[k].technique,
                      confidence |-> v.findings[k].confidence]]
<1>1. /\ UNCHANGED <<scan, yielded>> /\ tests' = Append(tests, test)
      /\ chain' = [chain EXCEPT !.todo = Tail(@),
                     !.part.findings = chain.part.findings \o new,
                     !.hits = IF v.confirmed THEN chain.hits \cup {p} ELSE chain.hits]
  BY DEF TestPoint
<1>2. Reports(v)
  <2>1. scan.plugin \in Plugin /\ chain.at \in 1 .. Len(Stages)
    BY DEF ChainIInv, ChainShape
  <2> QED
    BY <2>1, StagesAre, StagesReport
<1>3. /\ IsList(new) /\ DOMAIN new = DOMAIN v.findings
      /\ \A k \in DOMAIN new : new[k].stage = chain.at /\ new[k].point = p
      /\ v.confirmed => \E k \in DOMAIN new : TRUE
  <2>1. DOMAIN new = DOMAIN v.findings /\ \A k \in DOMAIN new : new[k].stage = chain.at /\ new[k].point = p
    OBVIOUS
  <2>2. PICK n \in Nat : DOMAIN v.findings = 1 .. n /\ Len(v.findings) = n
    BY <1>2, LenProperties DEF Reports, IsList
  <2>3. IsList(new)
    <3> DEFINE T == {new[k] : k \in DOMAIN new}
    <3>1. new \in [1 .. n -> T]
      BY <2>1, <2>2
    <3> HIDE DEF T, new
    <3>2. new \in Seq(T)
      BY <3>1, SeqDef
    <3> QED
      BY <3>2 DEF IsList, T
  <2>4. v.confirmed => 1 \in DOMAIN v.findings
    <3>1. v.findings # <<>> => n # 0
      BY <1>2, <2>2, EmptySeq DEF Reports, IsList
    <3> QED
      BY <1>2, <2>2, <3>1 DEF Reports
  <2> QED
    BY <2>1, <2>3, <2>4
<1>4. test.stage = chain.at /\ test.point = p
  OBVIOUS
<1> HIDE DEF p, test, new
<1>5. /\ DOMAIN chain' = ChainFields /\ DOMAIN chain'.part = {"findings", "confirmed"}
      /\ chain'.at = chain.at /\ chain'.phase = chain.phase /\ chain'.confirmed = chain.confirmed
      /\ chain'.part.findings = chain.part.findings \o new
      /\ chain'.hits = IF v.confirmed THEN chain.hits \cup {p} ELSE chain.hits
  BY <1>1 DEF ChainIInv, ChainShape, ChainFields
<1>6. ChainShape'
  BY <1>1, <1>5 DEF ChainIInv, ChainShape, Stages
<1> DEFINE before == chain.part.findings
<1>7. /\ IsList(tests) /\ IsList(yielded) /\ IsList(before)
      /\ \A i \in DOMAIN before : TestedIn(tests, before[i])
      /\ \A i \in DOMAIN yielded : TestedIn(tests, yielded[i])
      /\ \A q \in chain.hits : Names(before, q)
      /\ \A q \in chain.confirmed : Names(yielded, q)
  BY DEF ChainIInv, ReportsRest
<1>8. chain'.part.findings = before \o new
  BY <1>5
<1> HIDE DEF before
<1>9. PICK after : after = before \o new
  OBVIOUS
<1>10. Joins(after, before, new)
  BY <1>3, <1>7, <1>9, JoinedLists
<1>11. PICK made : made = Append(tests, test)
  OBVIOUS
<1>12. /\ IsList(made)
       /\ \A j \in DOMAIN tests : \E i \in DOMAIN made : made[i] = tests[j]
       /\ \E i \in DOMAIN made : made[i] = test
  BY <1>7, <1>11, LongerList
<1>13. \A f : TestedIn(tests, f) => TestedIn(made, f)
  BY <1>12 DEF TestedIn
<1>14. \A k \in DOMAIN new : TestedIn(made, new[k])
  BY <1>3, <1>4, <1>12 DEF TestedIn
<1>15. \A i \in DOMAIN after : TestedIn(made, after[i])
  BY <1>7, <1>10, <1>13, <1>14 DEF Joins
<1>16. ASSUME NEW q \in chain'.hits PROVE Names(after, q)
  <2>1. CASE q \in chain.hits
    BY <1>7, <1>10, <2>1 DEF Names, Joins
  <2>2. CASE v.confirmed /\ q = p
    BY <1>3, <1>10, <2>2 DEF Names, Joins
  <2> QED
    BY <1>5, <2>1, <2>2
<1>17. /\ tests' = made /\ chain'.part.findings = after /\ yielded' = yielded
       /\ chain'.confirmed = chain.confirmed
  BY <1>1, <1>5, <1>8, <1>9, <1>11
<1>18. ReportsRest'
  BY <1>7, <1>10, <1>12, <1>13, <1>15, <1>16, <1>17 DEF ReportsRest, Joins
<1> QED
  BY <1>6, <1>18 DEF ChainIInv

LEMMA EndChainStageInvariant ==
  ASSUME ChainIInv, EndStage
  PROVE  ChainIInv'
<1> DEFINE piece == chain.part.findings
<1>1. /\ chain.phase = "stage" /\ UNCHANGED <<scan, tests>> /\ yielded' = yielded \o piece
      /\ chain' = [chain EXCEPT !.phase = "between", !.confirmed = chain.confirmed \cup chain.hits]
  BY DEF EndStage
<1>2. /\ DOMAIN chain' = ChainFields /\ chain'.at = chain.at /\ chain'.phase = "between"
      /\ chain'.part = chain.part /\ chain'.hits = chain.hits
      /\ chain'.confirmed = chain.confirmed \cup chain.hits
  BY <1>1 DEF ChainIInv, ChainShape, ChainFields
<1>3. ChainShape'
  BY <1>1, <1>2 DEF ChainIInv, ChainShape
<1>4. /\ IsList(tests) /\ IsList(yielded) /\ IsList(piece)
      /\ \A i \in DOMAIN piece : TestedIn(tests, piece[i])
      /\ \A i \in DOMAIN yielded : TestedIn(tests, yielded[i])
      /\ \A q \in chain.hits : Names(piece, q)
      /\ \A q \in chain.confirmed : Names(yielded, q)
  BY DEF ChainIInv, ReportsRest
<1>5. piece = chain'.part.findings
  BY <1>2
<1> HIDE DEF piece
<1>6. PICK all : all = yielded \o piece
  OBVIOUS
<1>7. Joins(all, yielded, piece)
  BY <1>4, <1>6, JoinedLists
<1>8. \A i \in DOMAIN all : TestedIn(tests, all[i])
  BY <1>4, <1>7 DEF Joins
<1>9. \A q \in chain.confirmed \cup chain.hits : Names(all, q)
  BY <1>4, <1>7 DEF Names, Joins
<1>10. yielded' = all /\ tests' = tests
  BY <1>1, <1>6
<1>11. ReportsRest'
  BY <1>2, <1>4, <1>5, <1>7, <1>8, <1>9, <1>10 DEF ReportsRest, Joins
<1> QED
  BY <1>3, <1>11 DEF ChainIInv

LEMMA ChainStepInvariant == ChainIInv /\ [ChainNext]_chainVars => ChainIInv'
<1> SUFFICES ASSUME ChainIInv, [ChainNext]_chainVars PROVE ChainIInv'
  OBVIOUS
<1>1. CASE \E p \in Plugin, d \in ToSet(Depths), n \in 0 .. MaxPoints :
             \E points \in [1 .. n -> Points] : OnFlow(p, d, points)
  BY <1>1, OnFlowInvariant
<1>2. CASE StartRun \/ EndOfScan \/ EndRun
  BY <1>2, RunInvariant
<1>3. CASE BeginStage \/ StageRaises \/ BudgetSpent
  BY <1>3, ChainStageInvariant
<1>4. CASE EndStage
  BY <1>4, EndChainStageInvariant
<1>5. CASE /\ chain.phase = "stage" /\ chain.todo # <<>>
           /\ \E v \in Verdicts(Stages[chain.at].name) : TestPoint(v)
  BY <1>5, TestInvariant
<1>6. CASE UNCHANGED chainVars
  <2>1. UNCHANGED <<scan, chain, yielded, tests>>
    BY <1>6 DEF chainVars
  <2>2. ChainShape'
    BY <2>1 DEF ChainIInv, ChainShape, Stages
  <2> QED
    BY <2>1, <2>2, ReportsGoOn DEF ChainIInv
<1> QED
  BY <1>1, <1>2, <1>3, <1>4, <1>5, <1>6 DEF ChainNext, Work

LEMMA ChainInvariant == ChainSpec => []ChainIInv
  BY ChainInitInvariant, ChainStepInvariant, PTL DEF ChainSpec

(* Nothing a stage confirmed is lost, and nothing is reported untested: a   *)
(* point leaves the chain only after the findings of the stage that         *)
(* confirmed it were yielded, whichever stages raise and whenever the       *)
(* budget is spent (chain.py:115-175).                                      *)
THEOREM ConfirmedWasReported == ChainSpec => []ConfirmedIsReported
<1>1. ChainIInv => ConfirmedIsReported
  BY DEF ChainIInv, ReportsRest, Names, TestedIn, ConfirmedIsReported, ToSet
<1> QED
  BY <1>1, ChainInvariant, PTL

-----------------------------------------------------------------------------

(* The tests that a chain makes (DetectionChain). *)

NoRepeats(s) == \A i, j \in DOMAIN s : s[i] = s[j] => i = j

(* The runs of a scan have no point in common, *)
RunsApart ==
  /\ scan.runs \in Seq(Seq(Points))
  /\ \A k \in DOMAIN scan.runs : NoRepeats(scan.runs[k])
  /\ \A k, l \in DOMAIN scan.runs : \A p \in ToSet(scan.runs[k]) \cap ToSet(scan.runs[l]) : k = l

(* and those ahead none with the tests made and the run in progress. *)
RunsAhead ==
  \A k \in DOMAIN scan.runs : \A p \in ToSet(scan.runs[k]) :
    p \notin ToSet(chain.points) /\ \A j \in DOMAIN tests : tests[j].point # p

(* A wave has points of its run, a stage points of its wave, each once. *)
ListsInOrder ==
  /\ chain.points \in Seq(Points) /\ NoRepeats(chain.points)
  /\ chain.remaining \in Seq(Points) /\ NoRepeats(chain.remaining)
  /\ chain.todo \in Seq(Points) /\ NoRepeats(chain.todo)
  /\ ToSet(chain.remaining) \subseteq ToSet(chain.points)
  /\ ToSet(chain.todo) \subseteq ToSet(chain.remaining)
  /\ chain.phase = "none" => chain.points = <<>>

(* No stage is behind the one in progress, and that one has not tested what *)
(* it has still to test.                                                   *)
StagesInOrder ==
  /\ scan.phase = "idle" => tests = <<>>
  /\ \A j \in DOMAIN tests : tests[j].stage \in Nat
  /\ \A j \in DOMAIN tests : tests[j].point \in ToSet(chain.points) => tests[j].stage <= chain.at
  /\ chain.phase = "stage" =>
       /\ ShouldRun(Stages[chain.at])
       /\ \A j \in DOMAIN tests : tests[j].point \in ToSet(chain.todo) => tests[j].stage < chain.at

(* What is confirmed of the points of a wave was confirmed within the wave. *)
ConfirmedInWave ==
  /\ \A k \in DOMAIN chain.part.findings : chain.part.findings[k].stage = chain.at
  /\ \A i \in DOMAIN yielded : yielded[i].stage \in Nat
  /\ \A p \in ToSet(chain.remaining) \cap chain.confirmed :
       /\ chain.phase = "stage" => HasBudget(scan.plugin)
       /\ \E i \in DOMAIN yielded :
            /\ yielded[i].point = p /\ yielded[i].stage <= chain.at
            /\ Stages[yielded[i].stage].depth = Stages[chain.at].depth
            /\ chain.phase = "stage" => yielded[i].stage < chain.at

WavesIInv ==
  /\ ChainShape /\ RunsApart /\ RunsAhead /\ ListsInOrder /\ StagesInOrder /\ ConfirmedInWave
  /\ TestsAreWarranted

LEMMA KeptPoints ==
  ASSUME NEW S, NEW s \in Seq(S), NEW P \in SUBSET DOMAIN s
  PROVE  /\ Kept(s, P) \in Seq(S)
         /\ NoRepeats(s) => NoRepeats(Kept(s, P))
         /\ \A x \in ToSet(Kept(s, P)) : \E i \in P : x = s[i]
<1> DEFINE t == Kept(s, P)
<1>1. PICK e : t \in Seq(S) /\ Picks(e, t, s, P)
  BY KeptIsPicked
<1>2. DOMAIN t = 1 .. Len(t) /\ Len(t) \in Nat /\ DOMAIN s \subseteq Nat
  BY <1>1, LenProperties
<1> HIDE DEF t
<1>3. /\ \A k \in DOMAIN t : e[k] \in P /\ t[k] = s[e[k]]
      /\ \A k, l \in DOMAIN t : k < l => e[k] < e[l]
  BY <1>1, <1>2 DEF Picks
<1>4. ASSUME NoRepeats(s), NEW k \in DOMAIN t, NEW l \in DOMAIN t, t[k] = t[l] PROVE k = l
  <2>1. e[k] = e[l] /\ e[k] \in Nat /\ e[l] \in Nat
    BY <1>2, <1>3, <1>4 DEF NoRepeats
  <2>2. ~(k < l) /\ ~(l < k)
    BY <1>3, <2>1
  <2> QED
    BY <1>2, <2>2
<1>5. \A x \in ToSet(t) : \E i \in P : x = s[i]
  BY <1>3 DEF ToSet
<1> QED
  BY <1>1, <1>4, <1>5 DEF NoRepeats, t

(* Each point of a flow is kept once. *)
LEMMA PointsAreDeduplicated ==
  ASSUME NEW points \in Seq(Points)
  PROVE  Deduplicated(points) \in Seq(Points) /\ NoRepeats(Deduplicated(points))
<1> DEFINE P == {i \in DOMAIN points : \A j \in 1 .. i - 1 : points[j] # points[i]}
           t == Kept(points, P)
<1>1. P \in SUBSET DOMAIN points /\ \A i \in P : \A j \in 1 .. i - 1 : points[j] # points[i]
  OBVIOUS
<1>2. t = Deduplicated(points)
  BY DEF Deduplicated
<1> HIDE DEF P
<1>3. PICK e : t \in Seq(Points) /\ Picks(e, t, points, P)
  BY <1>1, KeptIsPicked
<1>4. /\ DOMAIN t = 1 .. Len(t) /\ Len(t) \in Nat
      /\ DOMAIN points = 1 .. Len(points) /\ Len(points) \in Nat
  BY <1>3, LenProperties
<1> HIDE DEF t
<1>5. /\ \A k \in DOMAIN t : e[k] \in P /\ t[k] = points[e[k]]
      /\ \A k, l \in DOMAIN t : k < l => e[k] < e[l]
  BY <1>3, <1>4 DEF Picks
<1>6. \A k, l \in DOMAIN t : k < l => t[k] # t[l]
  <2> TAKE k, l \in DOMAIN t
  <2> HAVE k < l
  <2>1. e[k] \in 1 .. Len(points) /\ e[l] \in 1 .. Len(points) /\ e[k] < e[l]
    BY <1>1, <1>4, <1>5
  <2>2. e[k] \in 1 .. e[l] - 1
    BY <1>4, <2>1
  <2> QED
    BY <1>1, <1>5, <2>2
<1>7. NoRepeats(t)
  <2> SUFFICES ASSUME NEW k \in DOMAIN t, NEW l \in DOMAIN t, t[k] = t[l] PROVE k = l
    BY DEF NoRepeats
  <2>1. ~(k < l) /\ ~(l < k)
    BY <1>6
  <2> QED
    BY <1>4, <2>1
<1> QED
  BY <1>2, <1>3, <1>7

LEMMA EmptyList ==
  <<>> \in Seq(Points) /\ NoRepeats(<<>>) /\ ToSet(<<>>) = {} /\ DOMAIN <<>> = {}
BY DEF NoRepeats, ToSet

LEMMA AppendedList ==
  ASSUME NEW s, NEW e, IsList(s)
  PROVE  /\ Len(s) \in Nat /\ DOMAIN s = 1 .. Len(s)
         /\ DOMAIN Append(s, e) = 1 .. (Len(s) + 1)
         /\ Append(s, e)[Len(s) + 1] = e
         /\ \A j \in DOMAIN s : Append(s, e)[j] = s[j]
<1> DEFINE S == {s[i] : i \in DOMAIN s} \cup {e}
<1>1. s \in [1 .. Len(s) -> {s[i] : i \in DOMAIN s}] /\ Len(s) \in Nat
  BY LenProperties DEF IsList
<1>2. s \in [1 .. Len(s) -> S] /\ e \in S
  BY <1>1
<1> HIDE DEF S
<1>3. s \in Seq(S)
  BY <1>1, <1>2, SeqDef
<1>4. /\ Append(s, e) \in Seq(S) /\ Len(Append(s, e)) = Len(s) + 1
      /\ \A j \in 1 .. Len(s) : Append(s, e)[j] = s[j]
      /\ Append(s, e)[Len(s) + 1] = e
  BY <1>2, <1>3, AppendProperties
<1>5. DOMAIN Append(s, e) = 1 .. Len(Append(s, e)) /\ DOMAIN s = 1 .. Len(s)
  BY <1>2, <1>4, LenProperties
<1> QED
  BY <1>1, <1>4, <1>5

LEMMA PrefixOfList ==
  ASSUME NEW s, NEW t, IsList(s), IsList(t)
  PROVE  \A i \in DOMAIN s : i \in DOMAIN (s \o t) /\ (s \o t)[i] = s[i]
<1> DEFINE S == {s[i] : i \in DOMAIN s} \cup {t[i] : i \in DOMAIN t}
<1>1. s \in [1 .. Len(s) -> {s[i] : i \in DOMAIN s}] /\ Len(s) \in Nat
  BY LenProperties DEF IsList
<1>2. t \in [1 .. Len(t) -> {t[i] : i \in DOMAIN t}] /\ Len(t) \in Nat
  BY LenProperties DEF IsList
<1>3. s \in [1 .. Len(s) -> S] /\ t \in [1 .. Len(t) -> S]
  BY <1>1, <1>2
<1> HIDE DEF S
<1>4. s \in Seq(S) /\ t \in Seq(S)
  BY <1>1, <1>2, <1>3, SeqDef
<1> DEFINE u == s \o t
<1>5. /\ u \in Seq(S) /\ Len(u) = Len(s) + Len(t)
      /\ \A i \in 1 .. Len(s) + Len(t) : u[i] = IF i <= Len(s) THEN s[i] ELSE t[i - Len(s)]
  BY <1>4, ConcatProperties
<1>6. DOMAIN u = 1 .. Len(u)
  BY <1>5, LenProperties
<1> HIDE DEF u
<1>7. \A i \in DOMAIN s : i \in DOMAIN u /\ u[i] = s[i]
  BY <1>1, <1>2, <1>5, <1>6
<1> QED
  BY <1>7 DEF u

LEMMA SamePlugin ==
  ASSUME scan'.plugin = scan.plugin, scan'.depth = scan.depth
  PROVE  Stages' = Stages /\ \A s : ShouldRun(s)' <=> ShouldRun(s)
BY DEF Stages, ShouldRun

(* The warrants of the tests made do not depend on what comes later. *)
LEMMA WarrantsGoOn ==
  ASSUME TestsAreWarranted, UNCHANGED tests,
         scan'.plugin = scan.plugin, scan'.depth = scan.depth,
         \A i \in DOMAIN yielded : i \in DOMAIN yielded' /\ yielded'[i] = yielded[i]
  PROVE  TestsAreWarranted'
<1>1. Stages' = Stages /\ \A s : ShouldRun(s)' <=> ShouldRun(s)
  BY SamePlugin
<1> SUFFICES ASSUME NEW j \in DOMAIN tests
             PROVE  /\ ShouldRun(Stages[tests[j].stage])'
                    /\ HasBudget(scan'.plugin) => ~tests[j].spent
                    /\ \A i \in 1 .. j - 1 :
                         tests[i].point = tests[j].point => tests[i].stage < tests[j].stage
                    /\ tests[j].met =>
                         /\ HasBudget(scan'.plugin)
                         /\ \E i \in DOMAIN yielded' :
                              /\ yielded'[i].point = tests[j].point
                              /\ yielded'[i].stage < tests[j].stage
                              /\ Stages'[yielded'[i].stage].depth = Stages'[tests[j].stage].depth
  BY DEF TestsAreWarranted
<1>2. /\ ShouldRun(Stages[tests[j].stage])
      /\ HasBudget(scan.plugin) => ~tests[j].spent
      /\ \A i \in 1 .. j - 1 : tests[i].point = tests[j].point => tests[i].stage < tests[j].stage
      /\ tests[j].met =>
           /\ HasBudget(scan.plugin)
           /\ \E i \in DOMAIN yielded :
                /\ yielded[i].point = tests[j].point /\ yielded[i].stage < tests[j].stage
                /\ Stages[yielded[i].stage].depth = Stages[tests[j].stage].depth
  BY DEF TestsAreWarranted
<1>3. ShouldRun(Stages[tests[j].stage])'
  BY <1>2 DEF ShouldRun, Stages
<1>4. tests[j].met => \E i \in DOMAIN yielded' :
        /\ yielded'[i].point = tests[j].point /\ yielded'[i].stage < tests[j].stage
        /\ Stages'[yielded'[i].stage].depth = Stages'[tests[j].stage].depth
  BY <1>1, <1>2
<1> QED
  BY <1>2, <1>3, <1>4

(* The lists of the runs, from the points of the flow. *)
LEMMA RunsOfFlow ==
  ASSUME NEW valid \in Seq(Points), NoRepeats(valid), NEW runs,
         \/ runs = <<>>
         \/ runs = <<valid>>
         \/ runs = [i \in DOMAIN valid |-> <<valid[i]>>]
  PROVE  /\ runs \in Seq(Seq(Points))
         /\ \A k \in DOMAIN runs : NoRepeats(runs[k])
         /\ \A k, l \in DOMAIN runs : \A p \in ToSet(runs[k]) \cap ToSet(runs[l]) : k = l
<1>1. CASE runs = <<>>
  <2>1. runs \in Seq(Seq(Points)) /\ DOMAIN runs = {}
    BY <1>1
  <2> QED
    BY <2>1
<1>2. CASE runs = <<valid>>
  <2>1. runs \in Seq(Seq(Points)) /\ DOMAIN runs = {1} /\ runs[1] = valid
    BY <1>2
  <2> QED
    BY <2>1
<1>3. CASE runs = [i \in DOMAIN valid |-> <<valid[i]>>]
  <2>1. PICK n \in Nat : DOMAIN valid = 1 .. n /\ \A i \in 1 .. n : valid[i] \in Points
    BY SeqDef
  <2>2. DOMAIN runs = 1 .. n /\ \A i \in 1 .. n : runs[i] = <<valid[i]>>
    BY <1>3, <2>1
  <2>3. ASSUME NEW i \in 1 .. n PROVE runs[i] \in Seq(Points)
    <3>1. PICK x \in Points : x = valid[i]
      BY <2>1
    <3>2. <<x>> \in Seq(Points)
      OBVIOUS
    <3> QED
      BY <2>2, <3>1, <3>2
  <2>4. runs \in [1 .. n -> Seq(Points)]
    BY <1>3, <2>1, <2>3
  <2>5. runs \in Seq(Seq(Points))
    BY <2>4, SeqDef
  <2>6. \A i \in 1 .. n : DOMAIN runs[i] = {1} /\ runs[i][1] = valid[i]
    BY <2>2
  <2>7. \A i \in 1 .. n : NoRepeats(runs[i]) /\ ToSet(runs[i]) = {valid[i]}
    BY <2>6 DEF NoRepeats, ToSet
  <2> QED
    BY <2>1, <2>2, <2>5, <2>7 DEF NoRepeats
<1> QED
  BY <1>1, <1>2, <1>3

LEMMA FlowWaves ==
  ASSUME WavesIInv, ChainShape', NEW p \in Plugin, NEW d \in ToSet(Depths), NEW n \in 0 .. MaxPoints,
         NEW points \in [1 .. n -> Points], OnFlow(p, d, points)
  PROVE  WavesIInv'
<1> DEFINE valid == Deduplicated(points)
<1>1. /\ scan.phase = "idle" /\ scan'.phase = "scan" /\ scan'.plugin = p /\ scan'.depth = d
      /\ scan'.runs = IF AllAtOnce(p) THEN (IF valid = <<>> THEN <<>> ELSE <<valid>>)
                                      ELSE [i \in DOMAIN valid |-> <<valid[i]>>]
      /\ UNCHANGED <<chain, yielded, tests>>
  BY DEF OnFlow
<1>2. points \in Seq(Points)
  <2>1. n \in Nat
    BY ChainAssumption
  <2> QED
    BY <2>1, SeqDef
<1>3. valid \in Seq(Points) /\ NoRepeats(valid)
  BY <1>2, PointsAreDeduplicated
<1> HIDE DEF valid
<1>4. /\ tests = <<>> /\ DOMAIN tests = {} /\ chain.phase = "none" /\ chain.points = <<>>
  BY <1>1 DEF WavesIInv, StagesInOrder, ListsInOrder, ChainShape
<1>5. /\ scan'.runs \in Seq(Seq(Points))
      /\ \A k \in DOMAIN scan'.runs : NoRepeats(scan'.runs[k])
      /\ \A k, l \in DOMAIN scan'.runs : \A x \in ToSet(scan'.runs[k]) \cap ToSet(scan'.runs[l]) : k = l
  <2> DEFINE runs == scan'.runs
  <2>1. \/ runs = <<>>
        \/ runs = <<valid>>
        \/ runs = [i \in DOMAIN valid |-> <<valid[i]>>]
    BY <1>1
  <2> HIDE DEF runs
  <2>2. /\ runs \in Seq(Seq(Points))
        /\ \A k \in DOMAIN runs : NoRepeats(runs[k])
        /\ \A k, l \in DOMAIN runs : \A x \in ToSet(runs[k]) \cap ToSet(runs[l]) : k = l
    BY <1>3, <2>1, RunsOfFlow
  <2> QED
    BY <2>2 DEF runs
<1>6. RunsApart'
  BY <1>5 DEF RunsApart
<1>7. ToSet(chain.points) = {} /\ ToSet(chain.remaining) = {} /\ ToSet(chain.todo) = {}
  BY <1>4, EmptyList DEF WavesIInv, ListsInOrder
<1>8. RunsAhead'
  BY <1>1, <1>4, <1>7 DEF RunsAhead
<1>9. ListsInOrder'
  BY <1>1 DEF WavesIInv, ListsInOrder
<1>10. StagesInOrder'
  BY <1>1, <1>4 DEF StagesInOrder
<1>11. ConfirmedInWave'
  BY <1>1, <1>7 DEF WavesIInv, ConfirmedInWave
<1>12. TestsAreWarranted'
  BY <1>1, <1>4 DEF TestsAreWarranted
<1> QED
  BY <1>6, <1>8, <1>9, <1>10, <1>11, <1>12 DEF WavesIInv

(* The first of the runs ahead begins. *)
LEMMA StartRunWaves ==
  ASSUME WavesIInv, ChainShape', StartRun
  PROVE  WavesIInv'
<1> DEFINE runs == scan.runs
           first == Head(runs)
           rest == Tail(runs)
<1>1. /\ RunsApart /\ RunsAhead /\ ListsInOrder /\ StagesInOrder /\ ConfirmedInWave
      /\ TestsAreWarranted /\ ChainShape
  BY DEF WavesIInv
<1>2. /\ chain' = [NoChain EXCEPT !.phase = "between", !.points = first]
      /\ scan' = [scan EXCEPT !.runs = Tail(@)] /\ scan.phase = "scan" /\ runs # <<>>
      /\ UNCHANGED <<yielded, tests>>
  BY DEF StartRun
<1>3. /\ scan'.plugin = scan.plugin /\ scan'.depth = scan.depth /\ scan'.phase = "scan"
      /\ scan'.runs = rest
  BY <1>1, <1>2 DEF ChainShape
<1>4. /\ chain'.at = 0 /\ chain'.phase = "between" /\ chain'.points = first
      /\ chain'.remaining = <<>> /\ chain'.todo = <<>> /\ chain'.confirmed = {}
      /\ chain'.part = Nothing
  BY <1>2 DEF NoChain
<1>5. /\ runs \in Seq(Seq(Points)) /\ \A k \in DOMAIN runs : NoRepeats(runs[k])
      /\ \A k, l \in DOMAIN runs : \A p \in ToSet(runs[k]) \cap ToSet(runs[l]) : k = l
      /\ \A k \in DOMAIN runs : \A p \in ToSet(runs[k]) : \A j \in DOMAIN tests : tests[j].point # p
  BY <1>1 DEF RunsApart, RunsAhead
<1>6. /\ DOMAIN runs = 1 .. Len(runs) /\ Len(runs) \in Nat \ {0}
      /\ first = runs[1] /\ first \in Seq(Points)
      /\ rest \in Seq(Seq(Points)) /\ Len(rest) = Len(runs) - 1 /\ DOMAIN rest = 1 .. Len(rest)
      /\ \A k \in 1 .. Len(rest) : rest[k] = runs[k + 1]
  BY <1>2, <1>5, HeadTailProperties, EmptySeq, LenProperties
<1> HIDE DEF first, rest, runs
<1>7. 1 \in DOMAIN runs /\ \A k \in DOMAIN rest : k \in Nat \ {0} /\ k + 1 \in DOMAIN runs /\ rest[k] = runs[k + 1]
  BY <1>6
<1>8. \A k \in DOMAIN rest : \A p \in ToSet(rest[k]) : p \notin ToSet(first)
  <2> SUFFICES ASSUME NEW k \in DOMAIN rest, NEW p \in ToSet(rest[k]), p \in ToSet(first) PROVE FALSE
    OBVIOUS
  <2> DEFINE l == k + 1
  <2>1. l \in DOMAIN runs /\ p \in ToSet(runs[l]) \cap ToSet(runs[1])
    BY <1>6, <1>7
  <2>2. l = 1
    BY <1>5, <1>7, <2>1
  <2> QED
    BY <1>7, <2>2
<1>9. RunsApart'
  <2>1. ASSUME NEW k \in DOMAIN rest, NEW l \in DOMAIN rest, NEW p \in ToSet(rest[k]) \cap ToSet(rest[l])
        PROVE  k = l
    <3> DEFINE m == k + 1
               o == l + 1
    <3>1. m \in DOMAIN runs /\ o \in DOMAIN runs /\ p \in ToSet(runs[m]) \cap ToSet(runs[o])
      BY <1>7, <2>1
    <3>2. m = o
      BY <1>5, <3>1
    <3> QED
      BY <1>7, <3>2
  <2>2. \A k \in DOMAIN rest : NoRepeats(rest[k])
    BY <1>5, <1>7
  <2> QED
    BY <1>3, <1>6, <2>1, <2>2 DEF RunsApart
<1>10. RunsAhead'
  <2>1. \A k \in DOMAIN rest : \A p \in ToSet(rest[k]) : \A j \in DOMAIN tests : tests[j].point # p
    BY <1>5, <1>7
  <2> QED
    BY <1>2, <1>3, <1>4, <1>8, <2>1 DEF RunsAhead
<1>11. ListsInOrder'
  <2>1. NoRepeats(first)
    BY <1>5, <1>6, <1>7
  <2> QED
    BY <1>4, <1>6, <2>1, EmptyList DEF ListsInOrder
<1>12. StagesInOrder'
  <2>1. \A p \in ToSet(first) : \A j \in DOMAIN tests : tests[j].point # p
    BY <1>5, <1>6, <1>7
  <2> QED
    BY <1>1, <1>2, <1>3, <1>4, <2>1 DEF StagesInOrder
<1>13. ConfirmedInWave'
  <2>1. chain'.part.findings = <<>>
    BY <1>4 DEF Nothing
  <2> QED
    BY <1>1, <1>2, <1>4, <2>1, EmptyList DEF ConfirmedInWave
<1>14. TestsAreWarranted'
  BY <1>1, <1>2, <1>3, WarrantsGoOn
<1> QED
  BY <1>9, <1>10, <1>11, <1>12, <1>13, <1>14 DEF WavesIInv

(* A run or the scan ends. *)
LEMMA EndWaves ==
  ASSUME WavesIInv, ChainShape', EndRun \/ EndOfScan
  PROVE  WavesIInv'
<1>1. /\ RunsApart /\ RunsAhead /\ ListsInOrder /\ StagesInOrder /\ ConfirmedInWave
      /\ TestsAreWarranted /\ ChainShape
  BY DEF WavesIInv
<1>2. CASE EndRun
  <2>1. chain' = NoChain /\ UNCHANGED <<scan, yielded, tests>>
    BY <1>2 DEF EndRun
  <2>2. /\ chain'.at = 0 /\ chain'.phase = "none" /\ chain'.points = <<>>
        /\ chain'.remaining = <<>> /\ chain'.todo = <<>> /\ chain'.confirmed = {}
        /\ chain'.part.findings = <<>>
    BY <2>1 DEF NoChain, Nothing
  <2>3. RunsApart'
    BY <1>1, <2>1 DEF RunsApart
  <2>4. RunsAhead'
    BY <1>1, <2>1, <2>2, EmptyList DEF RunsAhead
  <2>5. ListsInOrder'
    BY <2>2, EmptyList DEF ListsInOrder
  <2>6. StagesInOrder'
    BY <1>1, <2>1, <2>2, EmptyList DEF StagesInOrder
  <2>7. ConfirmedInWave'
    BY <1>1, <2>1, <2>2, EmptyList DEF ConfirmedInWave
  <2>8. TestsAreWarranted'
    BY <1>1, <2>1, WarrantsGoOn
  <2> QED
    BY <2>3, <2>4, <2>5, <2>6, <2>7, <2>8 DEF WavesIInv
<1>3. CASE EndOfScan
  <2>1. /\ scan.phase = "scan" /\ chain.phase = "none" /\ UNCHANGED <<chain, yielded, tests>>
        /\ scan' = [scan EXCEPT !.phase = "done"]
    BY <1>3 DEF EndOfScan
  <2>2. /\ scan'.phase = "done" /\ scan'.runs = scan.runs
        /\ scan'.plugin = scan.plugin /\ scan'.depth = scan.depth
    BY <1>1, <2>1 DEF ChainShape
  <2>3. RunsApart' /\ RunsAhead'
    BY <1>1, <2>1, <2>2 DEF RunsApart, RunsAhead
  <2>4. ListsInOrder'
    BY <1>1, <2>1 DEF ListsInOrder
  <2>5. StagesInOrder'
    BY <1>1, <2>1, <2>2 DEF StagesInOrder
  <2>6. ConfirmedInWave'
    BY <1>1, <2>1, <2>2, SamePlugin DEF ConfirmedInWave
  <2>7. TestsAreWarranted'
    BY <1>1, <2>1, <2>2, WarrantsGoOn
  <2> QED
    BY <2>3, <2>4, <2>5, <2>6, <2>7 DEF WavesIInv
<1> QED
  BY <1>2, <1>3

(* A stage raises, the budget of the run is spent, or nothing happens. *)
LEMMA PauseWaves ==
  ASSUME WavesIInv, ChainShape', UNCHANGED <<scan, yielded, tests>>,
         chain'.at = chain.at, chain'.points = chain.points, chain'.remaining = chain.remaining,
         chain'.todo = chain.todo, chain'.confirmed = chain.confirmed, chain'.part = chain.part,
         \/ chain'.phase = chain.phase
         \/ chain.phase = "stage" /\ chain'.phase = "between"
  PROVE  WavesIInv'
<1>1. /\ RunsApart /\ RunsAhead /\ ListsInOrder /\ StagesInOrder /\ ConfirmedInWave
      /\ TestsAreWarranted
  BY DEF WavesIInv
<1>2. /\ chain'.phase = "stage" => chain.phase = "stage"
      /\ chain'.phase = "none" => chain.phase = "none"
  OBVIOUS
<1>3. Stages' = Stages /\ \A s : ShouldRun(s)' <=> ShouldRun(s)
  BY SamePlugin
<1>4. RunsApart' /\ RunsAhead'
  BY <1>1 DEF RunsApart, RunsAhead
<1>5. ListsInOrder'
  BY <1>1, <1>2 DEF ListsInOrder
<1>6. StagesInOrder'
  BY <1>1, <1>2 DEF StagesInOrder, ShouldRun, Stages
<1>7. ConfirmedInWave'
  BY <1>1, <1>2, <1>3 DEF ConfirmedInWave
<1>8. TestsAreWarranted'
  BY <1>1, WarrantsGoOn
<1> QED
  BY <1>4, <1>5, <1>6, <1>7, <1>8 DEF WavesIInv

(* The next stage begins, of the same wave or of a new one. *)
LEMMA BeginStageWaves ==
  ASSUME WavesIInv, ChainShape', BeginStage
  PROVE  WavesIInv'
<1> DEFINE i == Min(NextStages)
           left == Remaining(i)
<1>1. /\ RunsApart /\ RunsAhead /\ ListsInOrder /\ StagesInOrder /\ ConfirmedInWave
      /\ TestsAreWarranted /\ ChainShape
  BY DEF WavesIInv
<1>2. /\ chain.phase = "between" /\ NextStages # {} /\ UNCHANGED <<scan, yielded, tests>>
      /\ chain' = [chain EXCEPT !.at = i, !.phase = "stage", !.part = Nothing, !.hits = {},
                                !.remaining = left, !.todo = left]
  BY DEF BeginStage, CanBegin
<1>3. left = IF HasBudget(scan.plugin) /\ chain.at # 0 /\ Stages[chain.at].depth = Stages[i].depth
               THEN chain.remaining
               ELSE Kept(chain.points, {k \in DOMAIN chain.points : chain.points[k] \notin chain.confirmed})
  BY DEF Remaining
<1>4. i \in NextStages
  <2>1. scan.plugin \in Plugin /\ chain.at \in Nat
    BY <1>1, <1>2 DEF ChainShape
  <2>2. PICK n \in 1 .. 4 : n = Len(Stages)
    BY <2>1, StagesAre
  <2>3. NextStages \subseteq chain.at + 1 .. n
    BY <2>2 DEF NextStages
  <2>4. NextStages \subseteq 1 .. 4
    BY <2>1, <2>3
  <2> QED
    BY <1>2, <2>4, MinOfStages
<1> HIDE DEF i, left
<1>5. i \in Nat /\ chain.at \in Nat /\ chain.at < i /\ chain.at <= i /\ ShouldRun(Stages[i])
  <2>1. PICK n \in Nat : n = chain.at
    BY <1>1 DEF ChainShape
  <2>2. i \in n + 1 .. Len(Stages) /\ ShouldRun(Stages[i])
    BY <1>4, <2>1 DEF NextStages
  <2> QED
    BY <2>1, <2>2
<1>6. /\ chain'.at = i /\ chain'.phase = "stage" /\ chain'.part = Nothing
      /\ chain'.remaining = left /\ chain'.todo = left /\ chain'.points = chain.points
      /\ chain'.confirmed = chain.confirmed
  BY <1>1, <1>2 DEF ChainShape, ChainFields
<1>7. /\ chain.points \in Seq(Points) /\ NoRepeats(chain.points)
      /\ chain.remaining \in Seq(Points) /\ NoRepeats(chain.remaining)
      /\ ToSet(chain.remaining) \subseteq ToSet(chain.points)
  BY <1>1 DEF ListsInOrder
<1>8. /\ left \in Seq(Points) /\ NoRepeats(left) /\ ToSet(left) \subseteq ToSet(chain.points)
      /\ \/ ToSet(left) \cap chain.confirmed = {}
         \/ HasBudget(scan.plugin) /\ left = chain.remaining /\ Stages[chain.at].depth = Stages[i].depth
  <2>1. CASE HasBudget(scan.plugin) /\ chain.at # 0 /\ Stages[chain.at].depth = Stages[i].depth
    BY <1>3, <1>7, <2>1
  <2>2. CASE ~(HasBudget(scan.plugin) /\ chain.at # 0 /\ Stages[chain.at].depth = Stages[i].depth)
    <3> DEFINE all == chain.points
               P == {k \in DOMAIN all : all[k] \notin chain.confirmed}
    <3>1. left = Kept(all, P)
      BY <1>3, <2>2
    <3>2. P \in SUBSET DOMAIN all /\ \A k \in P : all[k] \in ToSet(all) /\ all[k] \notin chain.confirmed
      BY DEF ToSet
    <3>3. all \in Seq(Points) /\ NoRepeats(all)
      BY <1>7
    <3> HIDE DEF all, P
    <3>4. left \in Seq(Points) /\ NoRepeats(left) /\ \A x \in ToSet(left) : \E k \in P : x = all[k]
      BY <3>1, <3>2, <3>3, KeptPoints
    <3>5. \A x \in ToSet(left) : x \in ToSet(all) /\ x \notin chain.confirmed
      BY <3>2, <3>4
    <3> QED
      BY <3>4, <3>5 DEF all
  <2> QED
    BY <2>1, <2>2
<1>9. Stages' = Stages /\ \A s : ShouldRun(s)' <=> ShouldRun(s)
  BY <1>2, SamePlugin
<1>10. RunsApart' /\ RunsAhead'
  BY <1>1, <1>2, <1>6 DEF RunsApart, RunsAhead
<1>11. ListsInOrder'
  BY <1>6, <1>7, <1>8 DEF ListsInOrder
<1>12. StagesInOrder'
  <2>1. ASSUME NEW j \in DOMAIN tests, tests[j].point \in ToSet(chain.points) PROVE tests[j].stage < i
    <3>1. tests[j].stage \in Nat /\ tests[j].stage <= chain.at
      BY <1>1, <2>1 DEF StagesInOrder
    <3> QED
      BY <1>5, <3>1
  <2>2. \A j \in DOMAIN tests : tests[j].stage \in Nat
    BY <1>1 DEF StagesInOrder
  <2>3. \A j \in DOMAIN tests : tests[j].point \in ToSet(chain.points) => tests[j].stage <= i
    BY <1>5, <2>1, <2>2
  <2>4. ShouldRun(Stages[chain.at])'
    BY <1>2, <1>5, <1>6 DEF ShouldRun, Stages
  <2> QED
    BY <1>1, <1>2, <1>6, <1>8, <2>1, <2>2, <2>3, <2>4 DEF StagesInOrder
<1>13. ConfirmedInWave'
  <2>1. ASSUME NEW p \in ToSet(left) \cap chain.confirmed
        PROVE  /\ HasBudget(scan.plugin)
               /\ \E k \in DOMAIN yielded :
                    /\ yielded[k].point = p /\ yielded[k].stage < i /\ yielded[k].stage <= i
                    /\ Stages[yielded[k].stage].depth = Stages[i].depth
    <3>1. /\ HasBudget(scan.plugin) /\ p \in ToSet(chain.remaining) \cap chain.confirmed
          /\ Stages[chain.at].depth = Stages[i].depth
      BY <1>8
    <3>2. PICK k \in DOMAIN yielded : /\ yielded[k].point = p /\ yielded[k].stage <= chain.at
                                      /\ Stages[yielded[k].stage].depth = Stages[chain.at].depth
      BY <1>1, <3>1 DEF ConfirmedInWave
    <3>3. yielded[k].stage \in Nat
      BY <1>1 DEF ConfirmedInWave
    <3>4. yielded[k].stage < i /\ yielded[k].stage <= i
      BY <1>5, <3>2, <3>3
    <3> QED
      BY <3>1, <3>2, <3>4
  <2>2. DOMAIN chain'.part.findings = {}
    BY <1>6 DEF Nothing
  <2>3. \A k \in DOMAIN yielded : yielded[k].stage \in Nat
    BY <1>1 DEF ConfirmedInWave
  <2> QED
    BY <1>2, <1>6, <1>9, <2>1, <2>2, <2>3 DEF ConfirmedInWave
<1>14. TestsAreWarranted'
  BY <1>1, <1>2, WarrantsGoOn
<1> QED
  BY <1>10, <1>11, <1>12, <1>13, <1>14 DEF WavesIInv

(* The stage tests the next point of its list. *)
LEMMA TestWaves ==
  ASSUME WavesIInv, ReportsRest, ChainShape', chain.phase = "stage",
         NEW v \in Verdicts(Stages[chain.at].name), TestPoint(v)
  PROVE  WavesIInv'
<1> DEFINE todo == chain.todo
           p == Head(todo)
           rest == Tail(todo)
           test == [stage |-> chain.at, point |-> p, spent |-> chain.spent,
                    met |-> p \in chain.confirmed]
           new == [k \in DOMAIN v.findings |->
                     [stage |-> chain.at, point |-> p, technique |-> v.findings[k].technique,
                      confidence |-> v.findings[k].confidence]]
<1>1. /\ RunsApart /\ RunsAhead /\ ListsInOrder /\ StagesInOrder /\ ConfirmedInWave
      /\ TestsAreWarranted /\ ChainShape
  BY DEF WavesIInv
<1>2. /\ UNCHANGED <<scan, yielded>> /\ tests' = Append(tests, test)
      /\ todo # <<>> /\ ~DeadlineExceeded
      /\ chain' = [chain EXCEPT !.todo = Tail(@),
                     !.part.findings = chain.part.findings \o new,
                     !.hits = IF v.confirmed THEN chain.hits \cup {p} ELSE chain.hits]
  BY DEF TestPoint
<1>3. /\ chain'.at = chain.at /\ chain'.phase = "stage" /\ chain'.confirmed = chain.confirmed
      /\ chain'.points = chain.points /\ chain'.remaining = chain.remaining
      /\ chain'.todo = rest /\ chain'.part.findings = chain.part.findings \o new
  BY <1>1, <1>2 DEF ChainShape, ChainFields
<1>4. /\ test.stage = chain.at /\ test.point = p /\ test.spent = chain.spent
      /\ test.met = (p \in chain.confirmed)
  OBVIOUS
<1>5. IsList(new) /\ \A k \in DOMAIN new : new[k].stage = chain.at
  <2>1. Reports(v)
    <3>1. scan.plugin \in Plugin /\ chain.at \in 1 .. Len(Stages)
      BY <1>1 DEF ChainShape
    <3> QED
      BY <3>1, StagesAre, StagesReport
  <2>2. PICK n \in Nat : DOMAIN v.findings = 1 .. n
    BY <2>1, LenProperties DEF Reports, IsList
  <2>3. \A k \in DOMAIN new : new[k].stage = chain.at
    OBVIOUS
  <2> DEFINE T == {new[k] : k \in DOMAIN new}
  <2>4. new \in [1 .. n -> T]
    BY <2>2
  <2> HIDE DEF T, new
  <2>5. new \in Seq(T)
    BY <2>4, SeqDef
  <2> QED
    BY <2>3, <2>5 DEF IsList, T
<1>6. /\ todo \in Seq(Points) /\ NoRepeats(todo) /\ ToSet(todo) \subseteq ToSet(chain.remaining)
      /\ ToSet(chain.remaining) \subseteq ToSet(chain.points)
  BY <1>1 DEF ListsInOrder
<1>7. /\ p \in ToSet(todo) /\ p \notin ToSet(rest) /\ rest \in Seq(Points) /\ NoRepeats(rest)
      /\ ToSet(rest) \subseteq ToSet(todo)
  <2>1. /\ DOMAIN todo = 1 .. Len(todo) /\ Len(todo) \in Nat \ {0} /\ p = todo[1]
        /\ rest \in Seq(Points) /\ DOMAIN rest = 1 .. Len(todo) - 1
        /\ \A k \in 1 .. Len(todo) - 1 : rest[k] = todo[k + 1]
    BY <1>2, <1>6, HeadTailProperties, EmptySeq, LenProperties
  <2> HIDE DEF p, rest, todo
  <2>2. 1 \in DOMAIN todo /\ \A k \in DOMAIN rest : k \in Nat \ {0} /\ k + 1 \in DOMAIN todo /\ rest[k] = todo[k + 1]
    BY <2>1
  <2>3. ASSUME NEW k \in DOMAIN rest PROVE rest[k] # p
    <3> DEFINE l == k + 1
    <3>1. l \in DOMAIN todo /\ rest[k] = todo[l] /\ l # 1
      BY <2>2
    <3> HIDE DEF l
    <3> QED
      BY <1>6, <2>1, <2>2, <3>1 DEF NoRepeats
  <2>4. ASSUME NEW k \in DOMAIN rest, NEW l \in DOMAIN rest, rest[k] = rest[l] PROVE k = l
    <3> DEFINE m == k + 1
               o == l + 1
    <3>1. m \in DOMAIN todo /\ o \in DOMAIN todo /\ todo[m] = todo[o]
      BY <2>2, <2>4
    <3>2. m = o
      BY <1>6, <3>1 DEF NoRepeats
    <3> QED
      BY <2>2, <3>2
  <2> QED
    BY <2>1, <2>2, <2>3, <2>4 DEF ToSet, NoRepeats
<1>8. HasBudget(scan.plugin) => ~chain.spent
  BY <1>2 DEF DeadlineExceeded
<1> HIDE DEF p, rest, todo, new, test
<1>9. IsList(tests) /\ IsList(chain.part.findings)
  BY DEF ReportsRest
<1>10. PICK n \in Nat : n = Len(tests)
  BY <1>9, AppendedList
<1> DEFINE m == n + 1
<1>11. /\ DOMAIN tests = 1 .. n /\ DOMAIN tests' = 1 .. m /\ tests'[m] = test
       /\ \A j \in DOMAIN tests : tests'[j] = tests[j]
  BY <1>2, <1>9, <1>10, AppendedList
<1>12. m \in Nat /\ m \notin DOMAIN tests /\ DOMAIN tests' = DOMAIN tests \cup {m} /\ 1 .. m - 1 = DOMAIN tests
  BY <1>11
<1> HIDE DEF m
<1>13. Stages' = Stages /\ \A s : ShouldRun(s)' <=> ShouldRun(s)
  BY <1>2, SamePlugin
<1>14. chain.at \in Nat /\ ShouldRun(Stages[chain.at])
  BY <1>1 DEF ChainShape, StagesInOrder
<1>15. RunsApart'
  BY <1>1, <1>2 DEF RunsApart
<1>16. RunsAhead'
  <2>1. p \in ToSet(chain.points)
    BY <1>6, <1>7
  <2>2. ASSUME NEW k \in DOMAIN scan.runs, NEW q \in ToSet(scan.runs[k])
        PROVE  /\ q \notin ToSet(chain.points)
               /\ \A j \in DOMAIN tests' : tests'[j].point # q
    BY ZenonT(30), <1>1, <1>4, <1>11, <1>12, <2>1 DEF RunsAhead
  <2> QED
    BY <1>2, <1>3, <2>2 DEF RunsAhead
<1>17. ListsInOrder'
  <2>1. ToSet(rest) \subseteq ToSet(chain.remaining)
    BY <1>6, <1>7
  <2> QED
    BY <1>1, <1>3, <1>7, <2>1 DEF ListsInOrder
<1>18. StagesInOrder'
  <2>1. ASSUME NEW j \in DOMAIN tests'
        PROVE  /\ tests'[j].stage \in Nat
               /\ tests'[j].point \in ToSet(chain.points) => tests'[j].stage <= chain.at
               /\ tests'[j].point \in ToSet(rest) => tests'[j].stage < chain.at
    <3>1. CASE j \in DOMAIN tests
      BY <1>1, <1>7, <1>11, <3>1 DEF StagesInOrder, todo
    <3>2. CASE j = m
      BY <1>4, <1>7, <1>11, <1>14, <3>2
    <3> QED
      BY <1>12, <3>1, <3>2
  <2>2. ShouldRun(Stages[chain.at])'
    BY <1>2, <1>3, <1>14 DEF ShouldRun, Stages
  <2>3. scan'.phase # "idle"
    BY <1>1, <1>2 DEF ChainShape
  <2> QED
    BY <1>3, <2>1, <2>2, <2>3 DEF StagesInOrder
<1>19. ConfirmedInWave'
  <2>1. PICK after : after = chain.part.findings \o new
    OBVIOUS
  <2>2. Joins(after, chain.part.findings, new)
    BY <1>5, <1>9, <2>1, JoinedLists
  <2>3. \A k \in DOMAIN after : after[k].stage = chain.at
    BY <1>1, <1>5, <2>2 DEF Joins, ConfirmedInWave
  <2>4. chain'.part.findings = after
    BY <1>3, <2>1
  <2> QED
    BY <1>1, <1>2, <1>3, <1>13, <2>3, <2>4 DEF ConfirmedInWave
<1>20. TestsAreWarranted'
  <2> SUFFICES ASSUME NEW j \in DOMAIN tests'
               PROVE  /\ ShouldRun(Stages[tests[j].stage])'
                      /\ HasBudget(scan'.plugin) => ~tests'[j].spent
                      /\ \A i \in 1 .. j - 1 :
                           tests'[i].point = tests'[j].point => tests'[i].stage < tests'[j].stage
                      /\ tests'[j].met =>
                           /\ HasBudget(scan'.plugin)
                           /\ \E i \in DOMAIN yielded' :
                                /\ yielded'[i].point = tests'[j].point
                                /\ yielded'[i].stage < tests'[j].stage
                                /\ Stages'[yielded'[i].stage].depth = Stages'[tests'[j].stage].depth
    BY DEF TestsAreWarranted
  <2>1. CASE j \in DOMAIN tests
    <3>1. tests'[j] = tests[j] /\ \A i \in 1 .. j - 1 : tests'[i] = tests[i]
      BY <1>11, <2>1
    <3>2. /\ ShouldRun(Stages[tests[j].stage])
          /\ HasBudget(scan.plugin) => ~tests[j].spent
          /\ \A i \in 1 .. j - 1 : tests[i].point = tests[j].point => tests[i].stage < tests[j].stage
          /\ tests[j].met =>
               /\ HasBudget(scan.plugin)
               /\ \E i \in DOMAIN yielded :
                    /\ yielded[i].point = tests[j].point /\ yielded[i].stage < tests[j].stage
                    /\ Stages[yielded[i].stage].depth = Stages[tests[j].stage].depth
      BY <1>1, <2>1 DEF TestsAreWarranted
    <3>3. ShouldRun(Stages[tests[j].stage])'
      BY <1>2, <3>1, <3>2 DEF ShouldRun, Stages
    <3> QED
      BY <1>2, <1>13, <3>1, <3>2, <3>3
  <2>2. CASE j = m
    <3>1. tests'[j].stage = chain.at /\ tests'[j].point = p /\ tests'[j].spent = chain.spent
          /\ tests'[j].met = (p \in chain.confirmed)
      BY <1>4, <1>11, <2>2
    <3>2. \A i \in 1 .. j - 1 : tests'[i].point = p => tests'[i].stage < chain.at
      BY <1>1, <1>7, <1>11, <1>12, <2>2 DEF StagesInOrder, todo
    <3>3. ShouldRun(Stages[tests[j].stage])'
      BY <1>2, <1>14, <3>1 DEF ShouldRun, Stages
    <3>4. p \in chain.confirmed =>
            /\ HasBudget(scan.plugin)
            /\ \E i \in DOMAIN yielded :
                 /\ yielded[i].point = p /\ yielded[i].stage < chain.at
                 /\ Stages[yielded[i].stage].depth = Stages[chain.at].depth
      BY <1>1, <1>6, <1>7 DEF ConfirmedInWave
    <3> QED
      BY <1>2, <1>8, <1>13, <3>1, <3>2, <3>3, <3>4
  <2> QED
    BY <1>12, <2>1, <2>2
<1> QED
  BY <1>15, <1>16, <1>17, <1>18, <1>19, <1>20 DEF WavesIInv

(* The stage returns: what it found is reported, what it hit is confirmed. *)
LEMMA EndStageWaves ==
  ASSUME WavesIInv, ReportsRest, ChainShape', EndStage
  PROVE  WavesIInv'
<1> DEFINE piece == chain.part.findings
<1>1. /\ RunsApart /\ RunsAhead /\ ListsInOrder /\ StagesInOrder /\ ConfirmedInWave
      /\ TestsAreWarranted /\ ChainShape
  BY DEF WavesIInv
<1>2. /\ chain.phase = "stage" /\ UNCHANGED <<scan, tests>> /\ yielded' = yielded \o piece
      /\ chain' = [chain EXCEPT !.phase = "between", !.confirmed = chain.confirmed \cup chain.hits]
  BY DEF EndStage
<1>3. /\ chain'.at = chain.at /\ chain'.phase = "between" /\ chain'.points = chain.points
      /\ chain'.remaining = chain.remaining /\ chain'.todo = chain.todo
      /\ chain'.part.findings = piece
      /\ chain'.confirmed = chain.confirmed \cup chain.hits
  BY <1>1, <1>2 DEF ChainShape, ChainFields
<1>4. /\ IsList(yielded) /\ IsList(piece) /\ \A q \in chain.hits : Names(piece, q)
  BY DEF ReportsRest
<1>5. /\ \A k \in DOMAIN piece : piece[k].stage = chain.at
      /\ \A i \in DOMAIN yielded : yielded[i].stage \in Nat
      /\ chain.at \in Nat
  BY <1>1 DEF ConfirmedInWave, ChainShape
<1> HIDE DEF piece
<1>6. PICK all : all = yielded \o piece
  OBVIOUS
<1>7. Joins(all, yielded, piece) /\ \A i \in DOMAIN yielded : i \in DOMAIN all /\ all[i] = yielded[i]
  BY <1>4, <1>6, JoinedLists, PrefixOfList
<1>8. yielded' = all
  BY <1>2, <1>6
<1>9. Stages' = Stages /\ \A s : ShouldRun(s)' <=> ShouldRun(s)
  BY <1>2, SamePlugin
<1>10. RunsApart' /\ RunsAhead'
  BY <1>1, <1>2, <1>3 DEF RunsApart, RunsAhead
<1>11. ListsInOrder'
  BY <1>1, <1>3 DEF ListsInOrder
<1>12. StagesInOrder'
  BY <1>1, <1>2, <1>3 DEF StagesInOrder
<1>13. ConfirmedInWave'
  <2>1. \A i \in DOMAIN all : all[i].stage \in Nat
    BY <1>5, <1>7 DEF Joins
  <2>2. ASSUME NEW p \in ToSet(chain.remaining) \cap (chain.confirmed \cup chain.hits)
        PROVE  \E i \in DOMAIN all :
                 /\ all[i].point = p /\ all[i].stage <= chain.at
                 /\ Stages[all[i].stage].depth = Stages[chain.at].depth
    <3>1. CASE p \in chain.confirmed
      BY <1>1, <1>7, <3>1 DEF ConfirmedInWave
    <3>2. CASE p \in chain.hits
      <4>1. PICK k \in DOMAIN piece : piece[k].point = p
        BY <1>4, <3>2 DEF Names
      <4>2. PICK i \in DOMAIN all : all[i] = piece[k]
        BY <1>7, <4>1 DEF Joins
      <4> QED
        BY <1>5, <4>1, <4>2
    <3> QED
      BY <3>1, <3>2
  <2> QED
    BY <1>3, <1>5, <1>8, <1>9, <2>1, <2>2 DEF ConfirmedInWave
<1>14. TestsAreWarranted'
  <2>1. \A i \in DOMAIN yielded : i \in DOMAIN yielded' /\ yielded'[i] = yielded[i]
    BY <1>7, <1>8
  <2> QED
    BY <1>1, <1>2, <2>1, WarrantsGoOn
<1> QED
  BY <1>10, <1>11, <1>12, <1>13, <1>14 DEF WavesIInv

LEMMA WavesInit == ChainInit => WavesIInv
<1> SUFFICES ASSUME ChainInit PROVE WavesIInv
  OBVIOUS
<1>1. /\ chain.part.findings = <<>> /\ chain.confirmed = {} /\ chain.phase = "none"
      /\ chain.points = <<>> /\ chain.remaining = <<>> /\ chain.todo = <<>>
      /\ yielded = <<>> /\ tests = <<>> /\ scan.runs = <<>>
  BY DEF ChainInit, NoChain, Nothing
<1>2. ChainShape
  BY ChainInitInvariant DEF ChainIInv
<1>3. RunsApart /\ RunsAhead
  <2>1. <<>> \in Seq(Seq(Points)) /\ DOMAIN <<>> = {}
    OBVIOUS
  <2> QED
    BY <1>1, <2>1 DEF RunsApart, RunsAhead
<1>4. ListsInOrder
  BY <1>1, EmptyList DEF ListsInOrder
<1>5. StagesInOrder /\ ConfirmedInWave
  BY <1>1, EmptyList DEF StagesInOrder, ConfirmedInWave
<1>6. TestsAreWarranted
  BY <1>1, EmptyList DEF TestsAreWarranted
<1> QED
  BY <1>2, <1>3, <1>4, <1>5, <1>6 DEF WavesIInv

LEMMA WavesStep == ChainIInv /\ WavesIInv /\ [ChainNext]_chainVars => WavesIInv'
<1> SUFFICES ASSUME ChainIInv, WavesIInv, [ChainNext]_chainVars PROVE WavesIInv'
  OBVIOUS
<1>1. ChainShape' /\ ReportsRest /\ ChainShape
  BY ChainStepInvariant DEF ChainIInv
<1>2. CASE \E p \in Plugin, d \in ToSet(Depths), n \in 0 .. MaxPoints :
             \E points \in [1 .. n -> Points] : OnFlow(p, d, points)
  BY <1>1, <1>2, FlowWaves
<1>3. CASE StartRun
  BY <1>1, <1>3, StartRunWaves
<1>4. CASE EndOfScan \/ EndRun
  BY <1>1, <1>4, EndWaves
<1>5. CASE BeginStage
  BY <1>1, <1>5, BeginStageWaves
<1>6. CASE EndStage
  BY <1>1, <1>6, EndStageWaves
<1>7. CASE /\ chain.phase = "stage" /\ chain.todo # <<>>
           /\ \E v \in Verdicts(Stages[chain.at].name) : TestPoint(v)
  BY <1>1, <1>7, TestWaves
<1>8. CASE StageRaises
  BY <1>1, <1>8, PauseWaves DEF StageRaises, ChainShape, ChainFields
<1>9. CASE BudgetSpent
  BY <1>1, <1>9, PauseWaves DEF BudgetSpent, ChainShape, ChainFields
<1>10. CASE UNCHANGED chainVars
  BY <1>1, <1>10, PauseWaves DEF chainVars
<1> QED
  BY <1>2, <1>3, <1>4, <1>5, <1>6, <1>7, <1>8, <1>9, <1>10 DEF ChainNext, Work

(* No stage tests a point twice, out of order, over the depth asked for or  *)
(* past the budget, and a confirmed point is tested again only within its   *)
(* wave (chain.py:101-260), whatever the flow repeats, whichever stages     *)
(* raise and whenever the budget is spent.                                 *)
THEOREM TestsHaveWarrant == ChainSpec => []TestsAreWarranted
<1>1. WavesIInv => TestsAreWarranted
  BY DEF WavesIInv
<1> QED
  BY <1>1, ChainInvariant, WavesInit, WavesStep, PTL DEF ChainSpec

(* The points that a chain handles are those of its run, a phase is one of   *)
(* three.                                                                  *)
PointsKnown ==
  /\ scan.phase \in {"idle", "scan", "done"} /\ chain.phase \in {"none", "between", "stage"}
  /\ chain.hits \subseteq ToSet(chain.remaining) /\ chain.confirmed \subseteq ToSet(chain.points)
  /\ \A k \in DOMAIN chain.part.findings : chain.part.findings[k].point \in Points
  /\ \A i \in DOMAIN yielded : yielded[i].point \in Points

LEMMA PointsGoOn ==
  ASSUME PointsKnown, UNCHANGED yielded, scan'.phase \in {"idle", "scan", "done"},
         chain'.phase \in {"none", "between", "stage"},
         \/ chain'.hits = {} /\ chain'.part = Nothing
         \/ /\ chain'.hits = chain.hits /\ chain'.part = chain.part
            /\ chain'.remaining = chain.remaining,
         \/ chain'.confirmed = {}
         \/ chain'.confirmed = chain.confirmed /\ chain'.points = chain.points
  PROVE  PointsKnown'
<1>1. chain'.part = Nothing => DOMAIN chain'.part.findings = {}
  BY DEF Nothing
<1> QED
  BY <1>1 DEF PointsKnown

LEMMA TestPoints ==
  ASSUME PointsKnown, WavesIInv, ReportsRest, chain.phase = "stage",
         NEW v \in Verdicts(Stages[chain.at].name), TestPoint(v)
  PROVE  PointsKnown'
<1> DEFINE todo == chain.todo
           p == Head(todo)
           new == [k \in DOMAIN v.findings |->
                     [stage |-> chain.at, point |-> p, technique |-> v.findings[k].technique,
                      confidence |-> v.findings[k].confidence]]
<1>1. ChainShape /\ ListsInOrder
  BY DEF WavesIInv
<1>2. /\ UNCHANGED <<scan, yielded>> /\ todo # <<>>
      /\ chain' = [chain EXCEPT !.todo = Tail(@),
                     !.part.findings = chain.part.findings \o new,
                     !.hits = IF v.confirmed THEN chain.hits \cup {p} ELSE chain.hits]
  BY DEF TestPoint
<1>3. /\ chain'.phase = "stage" /\ chain'.confirmed = chain.confirmed
      /\ chain'.points = chain.points /\ chain'.remaining = chain.remaining
      /\ chain'.part.findings = chain.part.findings \o new
      /\ chain'.hits \subseteq chain.hits \cup {p}
  BY <1>1, <1>2 DEF ChainShape, ChainFields
<1>4. p \in Points /\ p \in ToSet(chain.remaining)
  <2>1. todo \in Seq(Points) /\ ToSet(todo) \subseteq ToSet(chain.remaining)
    BY <1>1 DEF ListsInOrder
  <2>2. /\ DOMAIN todo = 1 .. Len(todo) /\ Len(todo) \in Nat \ {0} /\ p = todo[1]
    BY <1>2, <2>1, HeadTailProperties, EmptySeq, LenProperties
  <2>3. 1 \in DOMAIN todo /\ todo[1] \in Points
    BY <2>1, <2>2, ElementOfSeq
  <2> QED
    BY <2>1, <2>2, <2>3 DEF ToSet
<1>5. IsList(new) /\ \A k \in DOMAIN new : new[k].point = p
  <2>1. Reports(v)
    <3>1. scan.plugin \in Plugin /\ chain.at \in 1 .. Len(Stages)
      BY <1>1 DEF ChainShape
    <3> QED
      BY <3>1, StagesAre, StagesReport
  <2>2. PICK n \in Nat : DOMAIN v.findings = 1 .. n
    BY <2>1, LenProperties DEF Reports, IsList
  <2>3. \A k \in DOMAIN new : new[k].point = p
    OBVIOUS
  <2> DEFINE T == {new[k] : k \in DOMAIN new}
  <2>4. new \in [1 .. n -> T]
    BY <2>2
  <2> HIDE DEF T, new
  <2>5. new \in Seq(T)
    BY <2>4, SeqDef
  <2> QED
    BY <2>3, <2>5 DEF IsList, T
<1> HIDE DEF p, todo, new
<1>6. PICK after : after = chain.part.findings \o new
  OBVIOUS
<1>7. Joins(after, chain.part.findings, new)
  BY <1>5, <1>6, JoinedLists DEF ReportsRest
<1>8. \A k \in DOMAIN after : after[k].point \in Points
  BY <1>4, <1>5, <1>7 DEF Joins, PointsKnown
<1> QED
  BY <1>2, <1>3, <1>4, <1>6, <1>8 DEF PointsKnown

LEMMA EndStagePoints ==
  ASSUME PointsKnown, WavesIInv, ReportsRest, EndStage
  PROVE  PointsKnown'
<1>1. ChainShape /\ ToSet(chain.remaining) \subseteq ToSet(chain.points)
  BY DEF WavesIInv, ListsInOrder
<1>2. /\ UNCHANGED <<scan, tests>> /\ yielded' = yielded \o chain.part.findings
      /\ chain' = [chain EXCEPT !.phase = "between", !.confirmed = chain.confirmed \cup chain.hits]
  BY DEF EndStage
<1>3. /\ chain'.phase = "between" /\ chain'.points = chain.points
      /\ chain'.remaining = chain.remaining /\ chain'.part = chain.part /\ chain'.hits = chain.hits
      /\ chain'.confirmed = chain.confirmed \cup chain.hits
  BY <1>1, <1>2 DEF ChainShape, ChainFields
<1>4. PICK all : all = yielded \o chain.part.findings
  OBVIOUS
<1>5. Joins(all, yielded, chain.part.findings)
  BY <1>4, JoinedLists DEF ReportsRest
<1>6. \A i \in DOMAIN all : all[i].point \in Points
  BY <1>5 DEF Joins, PointsKnown
<1> QED
  BY <1>1, <1>2, <1>3, <1>4, <1>6 DEF PointsKnown

LEMMA PointsStep == ChainIInv /\ WavesIInv /\ PointsKnown /\ [ChainNext]_chainVars => PointsKnown'
<1> SUFFICES ASSUME ChainIInv, WavesIInv, PointsKnown, [ChainNext]_chainVars PROVE PointsKnown'
  OBVIOUS
<1>1. ReportsRest /\ ChainShape
  BY DEF ChainIInv
<1>2. CASE \E p \in Plugin, d \in ToSet(Depths), n \in 0 .. MaxPoints :
             \E points \in [1 .. n -> Points] : OnFlow(p, d, points)
  <2>1. scan'.phase = "scan" /\ UNCHANGED <<chain, yielded>>
    BY <1>2 DEF OnFlow
  <2> QED
    BY <2>1 DEF PointsKnown
<1>3. CASE StartRun \/ EndRun
  <2>1. /\ chain'.phase \in {"none", "between"} /\ chain'.hits = {} /\ chain'.part = Nothing
        /\ chain'.confirmed = {} /\ UNCHANGED yielded /\ scan'.phase = scan.phase
    <3>1. CASE StartRun
      <4>1. /\ chain' = [NoChain EXCEPT !.phase = "between", !.points = Head(scan.runs)]
            /\ scan' = [scan EXCEPT !.runs = Tail(@)] /\ UNCHANGED yielded
        BY <3>1 DEF StartRun
      <4>2. /\ chain'.phase = "between" /\ chain'.hits = {} /\ chain'.part = Nothing
            /\ chain'.confirmed = {}
        BY <4>1 DEF NoChain
      <4>3. scan'.phase = scan.phase
        BY <1>1, <4>1 DEF ChainShape
      <4> QED
        BY <4>1, <4>2, <4>3
    <3>2. CASE EndRun
      BY <3>2 DEF EndRun, NoChain
    <3> QED
      BY <1>3, <3>1, <3>2
  <2> QED
    BY <2>1, PointsGoOn DEF PointsKnown
<1>4. CASE EndOfScan
  <2>1. UNCHANGED <<chain, yielded>> /\ scan'.phase = "done"
    BY <1>1, <1>4 DEF EndOfScan, ChainShape
  <2> QED
    BY <2>1 DEF PointsKnown
<1>5. CASE BeginStage
  <2>1. /\ chain'.phase = "stage" /\ chain'.hits = {} /\ chain'.part = Nothing
        /\ chain'.confirmed = chain.confirmed /\ chain'.points = chain.points
        /\ UNCHANGED <<scan, yielded>>
    BY <1>1, <1>5 DEF BeginStage, ChainShape, ChainFields
  <2> QED
    BY <2>1, PointsGoOn DEF PointsKnown
<1>6. CASE StageRaises \/ BudgetSpent \/ UNCHANGED chainVars
  <2>1. /\ chain'.phase \in {chain.phase, "between"} /\ chain'.hits = chain.hits
        /\ chain'.part = chain.part /\ chain'.remaining = chain.remaining
        /\ chain'.confirmed = chain.confirmed /\ chain'.points = chain.points
        /\ UNCHANGED <<scan, yielded>>
    BY <1>1, <1>6 DEF StageRaises, BudgetSpent, chainVars, ChainShape, ChainFields
  <2> QED
    BY <2>1, PointsGoOn DEF PointsKnown
<1>7. CASE EndStage
  BY <1>1, <1>7, EndStagePoints
<1>8. CASE /\ chain.phase = "stage" /\ chain.todo # <<>>
           /\ \E v \in Verdicts(Stages[chain.at].name) : TestPoint(v)
  BY <1>1, <1>8, TestPoints
<1> QED
  BY <1>2, <1>3, <1>4, <1>5, <1>6, <1>7, <1>8 DEF ChainNext, Work

(* A chain confirms only points of its run and tests only what its wave has *)
(* left, and a finding names a point of the flow (chain.py:101-175).        *)
THEOREM ChainTypeCorrect == ChainSpec => []ChainTypeOK
<1>1. ChainInit => PointsKnown
  BY DEF ChainInit, NoChain, Nothing, PointsKnown
<1>2. WavesIInv /\ PointsKnown => ChainTypeOK
  BY DEF WavesIInv, ListsInOrder, PointsKnown, ChainTypeOK
<1> QED
  BY <1>1, <1>2, ChainInvariant, WavesInit, WavesStep, PointsStep, PTL DEF ChainSpec

-----------------------------------------------------------------------------
(* All of them side by side (MCScanning). *)

(* One of the three moves at a time, and each under its own fairness: what  *)
(* is proved of one of them holds in the composition.                      *)
THEOREM ScanningIsItsParts == ScanningSpec => HostSpec /\ ChainSpec /\ CanarySpec
<1>1. ScanningInit => HostInit /\ ChainInit /\ CanaryInit
  BY DEF ScanningInit
<1>2. [ScanningNext]_scanningVars =>
        [HostNext]_hostVars /\ [ChainNext]_chainVars /\ [CanaryNext]_canaryVars
  BY DEF ScanningNext, scanningVars
<1> QED
  BY <1>1, <1>2, PTL DEF ScanningSpec, HostSpec, ChainSpec, CanarySpec

(* The types of the three, and of the HookBus between the scanners and the  *)
(* findings storage, in the composition.                                   *)
THEOREM ScanningTypeCorrect == ScanningSpec => []ScanningTypeOK
BY ScanningIsItsParts, HostTypeCorrect, HostUsesTheBus, HookTypeCorrect, ChainTypeCorrect,
   CanaryTypeCorrect, PTL DEF ScanningTypeOK

(* No finding gets lost between the scanners and their storage, unless the  *)
(* queue was full: what the storage consumer of _consume_findings() hears   *)
(* is what was published.                                                  *)
THEOREM FindingsReachStorage == HostSpec => []FanOut
BY HostUsesTheBus, SubscribersHearAll, PTL
=============================================================================

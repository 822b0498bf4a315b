----------------------------- MODULE ScanStages -----------------------------
(***************************************************************************)
(* The detection stages (pwnproxy/shared/scan/stages/): what a stage        *)
(* concludes about one injection point from what the target answered.      *)
(*                                                                         *)
(* A stage is an operator from an observation, the answers to the requests *)
(* it sends about the point, to a verdict: the findings it appends and     *)
(* whether it confirms the point.  An answer is "none" when replay() or    *)
(* send_clean() returned None (any exception of the client).  Bodies,      *)
(* payloads and fingerprints are reduced to the class the stage tells       *)
(* apart.  What a stage does with a callback server is in CanaryCallbacks. *)
(***************************************************************************)
EXTENDS Naturals, Sequences, SequencesExt, FiniteSetsExt

CONSTANTS
  Payloads,   \* bound: payloads per stage, as their positions 1 .. n
  Aggressive  \* the option aggressive_status of the sqli plugin

ASSUME StagesAssumption == Payloads \in Nat \ {0} /\ Aggressive \in BOOLEAN

F(technique, confidence) == [technique |-> technique, confidence |-> confidence]

Nothing == [findings |-> <<>>, confirmed |-> FALSE]
Hit(technique, confidence) ==
  [findings |-> <<F(technique, confidence)>>, confirmed |-> TRUE]
VerdictIf(cond, verdict) == IF cond THEN verdict ELSE Nothing

(* The answers to a sequence of payloads, one class each. *)
Answers(classes) == [1 .. Payloads -> classes \cup {"none"}]

(* The answers read by a loop that breaks at the first of class c. *)
ReadUpTo(answers, c) ==
  IF c \in ToSet(answers) THEN SubSeq(answers, 1, SelectInSeq(answers, LAMBDA a : a = c))
                          ELSE answers

-----------------------------------------------------------------------------
(* sqli *)

(* The status differential of ErrorBasedStage: a 5xx that neither an        *)
(* intermediary, a block page nor the control payloads explain.             *)
StatusDifferential(read, control) ==
  LET fiveXX == SelectSeq(read, LAMBDA a : a \in {"5xx", "blocked"})
      busy   == SelectSeq(read, LAMBDA a : a = "busy")
  IN /\ fiveXX # <<>> /\ "blocked" \notin ToSet(fiveXX)
     /\ Len(busy) < Max({1, Payloads \div 2})
     /\ control # "5xx"

(* A differential is a guess, unless two payloads agree and the option says *)
(* otherwise.                                                              *)
DifferentialConfidence(read) ==
  IF Aggressive /\ Len(SelectSeq(read, LAMBDA a : a = "5xx")) >= 2 THEN "inferred"
                                                                   ELSE "tentative"

(* ErrorBasedStage.execute().  After a signature the loop over the payloads *)
(* ends, and the status differential of what came before is still made; its *)
(* technique is error-based as well, and extra.status_differential tells it *)
(* apart.                                                                  *)
ErrorBased(o) ==
  LET read == ReadUpTo(o.answers, "signature")
      sign == "signature" \in ToSet(read)
      diff == StatusDifferential(read, o.control)
  IN VerdictIf(o.clean = "ok",
       [findings |-> (IF sign THEN <<F("error-based", "confirmed")>> ELSE <<>>)
                  \o (IF diff THEN <<F("status-differential", DifferentialConfidence(read))>>
                              ELSE <<>>),
        confirmed |-> sign \/ diff])

ErrorBasedObservations ==
  [clean : {"none", "signature", "error", "ok"}, control : {"ok", "5xx"},
   answers : Answers({"busy", "signature", "5xx", "blocked", "ok"})]

(* BooleanBlindStage.execute(): the canonical pair, or else the first of    *)
(* the escalation pairs that tells TRUE from FALSE, must do so again, with *)
(* the same two pages.                                                     *)
BooleanBlind(o) ==
  VerdictIf(/\ o.before /\ "differ" \in ToSet(o.pairs)
            /\ o.round2 = "differ" /\ o.trueAgain /\ o.falseAgain
            /\ o.after # "none",
            Hit("boolean-blind", IF o.after = "stable" THEN "inferred" ELSE "tentative"))

BooleanBlindObservations ==
  [before : BOOLEAN, pairs : Answers({"same", "differ"}),
   round2 : {"none", "same", "differ"}, trueAgain : BOOLEAN, falseAgain : BOOLEAN,
   after : {"none", "stable", "unstable"}]

(* _check_time_based(): the first DBMS whose payload delays the answer by   *)
(* more than four seconds decides, and its shorter payloads confirm it: the *)
(* first that gets no answer, or is slow as well, does.                     *)
TimeBlind(o) ==
  LET decisive == SelectSeq(o.confirm, LAMBDA a : a # "fast")
  IN VerdictIf(o.clean # "none" /\ "slow" \in ToSet(o.primary),
       Hit("time-based-blind",
           IF decisive # <<>> /\ Head(decisive) = "slow" THEN "confirmed" ELSE "tentative"))

TimeBlindObservations ==
  [clean : {"none", "ok"}, primary : Answers({"fast", "slow"}),
   confirm : Answers({"fast", "slow"})]

-----------------------------------------------------------------------------
(* xss *)

(* ReflectedStage.execute(): a canary that comes back without a payload     *)
(* that works is reported, and leaves the point to the other stages.        *)
Reflected(o) ==
  VerdictIf(o.probe = "reflected",
    IF "exploitable" \in ToSet(o.answers)
      THEN Hit("reflected-xss", "confirmed")
      ELSE [findings |-> <<F("unescaped-reflection", "tentative")>>, confirmed |-> FALSE])

ReflectedObservations ==
  [probe : {"none", "absent", "reflected"}, answers : Answers({"inert", "exploitable"})]

(* StoredStage.execute(): the payload is read back from a clean request. *)
Stored(o) ==
  VerdictIf(\E i \in 1 .. Payloads : o.sent[i] /\ o.readBack[i] = "payload",
            Hit("stored-xss", "confirmed"))

StoredObservations == [sent : [1 .. Payloads -> BOOLEAN], readBack : Answers({"payload", "other"})]

(* DomStage.execute(): what the server itself reflects is not its business. *)
Dom(o) ==
  VerdictIf(o.probe = "script" /\ (o.canaryInSink \/ o.paramInSink), Hit("dom-xss", "inferred"))

DomObservations ==
  [probe : {"none", "html", "script"}, canaryInSink : BOOLEAN, paramInSink : BOOLEAN]

(* ContextAwareStage.execute() *)
ContextAware(o) ==
  VerdictIf(o.probe = "reflected" /\ "exploitable" \in ToSet(o.answers),
            Hit("reflected-xss", "confirmed"))

-----------------------------------------------------------------------------
(* lfi, command injection, ssrf and xxe *)

(* SimpleStage.execute() of lfi. *)
LfiSimple(o) == VerdictIf("match" \in ToSet(o), Hit("path-traversal", "confirmed"))

(* PHPWrapperStage.execute() *)
PHPWrapper(o) == VerdictIf("match" \in ToSet(o), Hit("php-wrapper", "confirmed"))

(* CommandInjectionStage.execute(); a payload that raises is skipped. *)
CommandInjection(o) == VerdictIf("match" \in ToSet(o), Hit("command-injection", "confirmed"))

MatchObservations == Answers({"match", "other"})

(* RedirectStage.execute(): the probe comes back in a Location header. *)
Redirect(o) == VerdictIf(o = "probe", Hit("ssrf-redirect", "tentative"))

(* XxeErrorBasedStage.execute() *)
XxeErrorBased(o) == VerdictIf(o = "signature", Hit("xxe-error-based", "tentative"))

(* JSONMutateStage.execute(): only points of a JSON request are tried, and  *)
(* an XML answer of a 2xx counts as much as a parse error of a 4xx.         *)
JSONMutate(o) ==
  VerdictIf(o.json /\ o.answer \in {"signature", "xml"}, Hit("xxe-json-mutation", "tentative"))

JSONMutateObservations == [json : BOOLEAN, answer : {"none", "signature", "xml", "other"}]

(* The five stages that wait for a callback to a canary of their own; see   *)
(* CanaryCallbacks.                                                        *)
OutOfBand(called) == VerdictIf(called, Hit("oob", "confirmed"))

-----------------------------------------------------------------------------
(* What each stage can conclude about a point. *)
Verdicts(stage) ==
  CASE stage = "ErrorBasedStage"       -> {ErrorBased(o) : o \in ErrorBasedObservations}
    [] stage = "BooleanBlindStage"     -> {BooleanBlind(o) : o \in BooleanBlindObservations}
    [] stage = "TimeBlindStage"        -> {TimeBlind(o) : o \in TimeBlindObservations}
    [] stage = "ReflectedStage"        -> {Reflected(o) : o \in ReflectedObservations}
    [] stage = "StoredStage"           -> {Stored(o) : o \in StoredObservations}
    [] stage = "DomStage"              -> {Dom(o) : o \in DomObservations}
    [] stage = "ContextAwareStage"     -> {ContextAware(o) : o \in ReflectedObservations}
    [] stage = "SimpleStage"           -> {LfiSimple(o) : o \in MatchObservations}
    [] stage = "PHPWrapperStage"       -> {PHPWrapper(o) : o \in MatchObservations}
    [] stage = "CommandInjectionStage" -> {CommandInjection(o) : o \in MatchObservations}
    [] stage = "RedirectStage"         -> {Redirect(o) : o \in {"none", "probe", "other"}}
    [] stage = "XxeErrorBasedStage"    -> {XxeErrorBased(o) : o \in {"none", "signature", "other"}}
    [] stage = "JSONMutateStage"       -> {JSONMutate(o) : o \in JSONMutateObservations}
    [] stage \in {"SsrfSimpleStage", "OOBStage"} -> {OutOfBand(o) : o \in BOOLEAN}
=============================================================================

------------------------------- MODULE Triage -------------------------------
(***************************************************************************)
(* Findings and their triage: FindingStorage                                *)
(* (pwnproxy/shared/findings/storage.py), whose on_saved callback is        *)
(* TriagePipeline.handle() (pwnproxy/ai/triage/pipeline.py), and the        *)
(* requests of pwnproxy/transport/rest/findings.py.  Every session has a    *)
(* database of its own; save() writes to the active one, and every verdict  *)
(* to the one that is active when it is written, by the id the finding has  *)
(* in the first.  SQLite gives an id that was the highest of a table again  *)
(* after its row is deleted.                                                *)
(***************************************************************************)
EXTENDS Naturals, Sequences, FiniteSets

CONSTANTS
  Databases,      \* one per session
  Scans,
  Modes,          \* the values of TriageConfig.mode explored
  MaxLlm,         \* max_llm_per_scan
  JudgeQueueSize, \* queue_maxsize
  MaxFindings,    \* bound: findings saved
  MaxFeedback,    \* bound: verdicts of a human
  MaxSwitches     \* bound: sessions loaded

ASSUME TriageAssumption ==
  /\ Databases # {} /\ MaxLlm \in Nat /\ JudgeQueueSize \in Nat \ {0}
  /\ MaxFindings \in Nat /\ MaxFeedback \in Nat /\ MaxSwitches \in Nat

Confidences == {"tentative", "inferred", "confirmed"}
SkipLlm == {"tentative"}  \* skip_llm_if_confidence
Verdicts == {"true_positive", "false_positive", "uncertain"}

VARIABLES
  mode,      \* TriageConfig.mode
  active,    \* the database of the active session
  table,     \* [Databases -> function from ids to rows: the finding, its verdict and method]
  history,   \* [Databases -> triage_history, oldest first]
  finding,   \* the findings saved so far: database, id, confidence, scan
  handler,   \* where the handle() of each finding is
  setting,   \* the calls of set_triage() between SELECT and commit, by their caller
  judgeQueue, judging,  \* findings: TriagePipeline.queue, and what the worker is at (0: nothing)
  llmCalls,  \* [Scans -> Nat]: _llm_calls
  feedback,  \* how many human verdicts were asked for
  switches

triageVars == <<mode, active, table, history, finding, handler, setting, judgeQueue,
                judging, llmCalls, feedback, switches>>

Findings == DOMAIN finding
Untriaged(f) == [finding |-> f, verdict |-> "none", method |-> "none"]

TriageInit ==
  /\ mode \in Modes
  /\ active = CHOOSE d \in Databases : TRUE
  /\ table = [d \in Databases |-> <<>>] /\ history = [d \in Databases |-> <<>>]
  /\ finding = <<>> /\ handler = <<>> /\ setting = {}
  /\ judgeQueue = <<>> /\ judging = 0 /\ llmCalls = [s \in Scans |-> 0]
  /\ feedback = 0 /\ switches = 0

-----------------------------------------------------------------------------
(* save(): the row is committed, and the callback is a task of its own. *)
FreshId(rows) == 1 + Cardinality({i \in 1 .. MaxFindings : \E k \in DOMAIN rows : k >= i})

SaveFinding(confidence, scan) ==
  LET f == Len(finding) + 1
      id == FreshId(table[active])
  IN /\ f <= MaxFindings
     /\ finding' = Append(finding, [db |-> active, id |-> id, confidence |-> confidence, scan |-> scan])
     /\ table' = [table EXCEPT ![active] =
                    [i \in DOMAIN @ \cup {id} |-> IF i = id THEN Untriaged(f) ELSE @[i]]]
     /\ handler' = Append(handler, "scheduled")
     /\ UNCHANGED <<mode, active, history, setting, judgeQueue, judging, llmCalls, feedback, switches>>

(* delete_finding(), delete_all_findings() *)
DeleteFindings(ids) ==
  /\ ids # {} /\ ids \subseteq DOMAIN table[active]
  /\ table' = [table EXCEPT ![active] = [i \in DOMAIN @ \ ids |-> @[i]]]
  /\ UNCHANGED <<mode, active, history, finding, handler, setting, judgeQueue, judging, llmCalls,
                 feedback, switches>>

LoadOtherSession(d) ==
  /\ d # active /\ switches < MaxSwitches
  /\ active' = d /\ switches' = switches + 1
  /\ UNCHANGED <<mode, table, history, finding, handler, setting, judgeQueue, judging, llmCalls, feedback>>

-----------------------------------------------------------------------------
(* set_triage() loads the row of an id from the database that is active ... *)
Loaded(who, f, id, verdict) ==
  [who |-> who, finding |-> f, db |-> active, id |-> id, verdict |-> verdict,
   base |-> IF id \in DOMAIN table[active] THEN table[active][id] ELSE Untriaged(0)]

Setting(who) == {s \in setting : s.who = who}

(* ... and commits the columns whose value it changes, and a history row.   *)
(* A row that was absent is none of its business, and one that has gone     *)
(* since raises.                                                           *)
Written(s) ==
  LET old == table[s.db][s.id]
  IN [old EXCEPT !.verdict = IF s.base.verdict = s.verdict THEN @ ELSE s.verdict,
                 !.method = IF s.base.method = s.who THEN @ ELSE s.who]

SetRaises(s) == s.base.finding # 0 /\ s.id \notin DOMAIN table[s.db]

CommitSet(s) ==
  /\ setting' = setting \ {s}
  /\ IF s.base.finding # 0 /\ ~SetRaises(s)
       THEN /\ table' = [table EXCEPT ![s.db][s.id] = Written(s)]
            /\ history' = [history EXCEPT ![s.db] = Append(@,
                 [id |-> s.id, finding |-> s.finding, verdict |-> s.verdict, method |-> s.who])]
       ELSE UNCHANGED <<table, history>>

-----------------------------------------------------------------------------
(* score_finding(): what the scanner proved is true, whatever the evidence; *)
(* otherwise the weights decide.                                           *)
HeuristicVerdicts(confidence) ==
  IF confidence = "confirmed" THEN {"true_positive"} ELSE Verdicts

Handle(f, verdict) ==
  /\ handler[f] = "scheduled"
  /\ verdict \in HeuristicVerdicts(finding[f].confidence)
  /\ setting' = setting \cup {Loaded("heuristic", f, finding[f].id, verdict)}
  /\ handler' = [handler EXCEPT ![f] = "setting"]
  /\ UNCHANGED <<mode, active, table, history, finding, judgeQueue, judging, llmCalls, feedback, switches>>

ShouldLlm(confidence) ==
  /\ confidence \notin SkipLlm
  /\ mode = "legacy_gray" \/ (mode = "enrich" /\ confidence \in {"confirmed", "inferred"})

(* Mutant: a slot is reserved and not given back when the queue is full, and *)
(* the budget is tested against what the queue holds.                       *)
EnqueueUnreserved(f) ==
  LET scan == finding[f].scan
  IN IF Len(SelectSeq(judgeQueue, LAMBDA g : finding[g].scan = scan)) < MaxLlm
        /\ Len(judgeQueue) < JudgeQueueSize
       THEN /\ judgeQueue' = Append(judgeQueue, f)
            /\ llmCalls' = [llmCalls EXCEPT ![scan] = @ + 1]
       ELSE UNCHANGED <<judgeQueue, llmCalls>>

(* _enqueue(): a slot of the budget of the scan is reserved, and given back *)
(* when the queue is full.                                                 *)
Enqueue(f) ==
  LET scan == finding[f].scan
  IN IF llmCalls[scan] < MaxLlm /\ Len(judgeQueue) < JudgeQueueSize
       THEN /\ judgeQueue' = Append(judgeQueue, f)
            /\ llmCalls' = [llmCalls EXCEPT ![scan] = @ + 1]
       ELSE UNCHANGED <<judgeQueue, llmCalls>>

Handled(f) ==
  \E s \in Setting("heuristic") :
    /\ s.finding = f
    /\ CommitSet(s)
    /\ handler' = [handler EXCEPT ![f] = "done"]
    /\ IF s.verdict = "uncertain" /\ ~SetRaises(s) /\ ShouldLlm(finding[f].confidence)
         THEN Enqueue(f)
         ELSE UNCHANGED <<judgeQueue, llmCalls>>
    /\ UNCHANGED <<mode, active, finding, judging, feedback, switches>>

-----------------------------------------------------------------------------
(* _worker() *)
JudgeTakes ==
  /\ judging = 0 /\ judgeQueue # <<>>
  /\ judging' = Head(judgeQueue) /\ judgeQueue' = Tail(judgeQueue)
  /\ UNCHANGED <<mode, active, table, history, finding, handler, setting, llmCalls, feedback, switches>>

(* In enrich mode a judge that is not sure of it makes no false positive of *)
(* what the scanner was sure of.                                           *)
Enriched(confidence, verdict, sure) ==
  IF mode = "enrich" /\ verdict = "false_positive" /\ confidence \in {"confirmed", "inferred"} /\ ~sure
    THEN "uncertain" ELSE verdict

JudgeAnswers(verdict, sure) ==
  /\ judging # 0 /\ Setting("llm") = {}
  /\ setting' = setting \cup {Loaded("llm", judging, finding[judging].id,
                                Enriched(finding[judging].confidence, verdict, sure))}
  /\ UNCHANGED <<mode, active, table, history, finding, handler, judgeQueue, judging, llmCalls,
                 feedback, switches>>

JudgeUnavailable ==
  /\ judging # 0 /\ Setting("llm") = {}
  /\ judging' = 0
  /\ UNCHANGED <<mode, active, table, history, finding, handler, setting, judgeQueue, llmCalls,
                 feedback, switches>>

Judged ==
  \E s \in Setting("llm") :
    /\ CommitSet(s) /\ judging' = 0
    /\ UNCHANGED <<mode, active, finding, handler, judgeQueue, llmCalls, feedback, switches>>

(* triage_feedback(): for the finding the user sees under this id. *)
Feedback(id, verdict) ==
  /\ feedback < MaxFeedback /\ feedback' = feedback + 1
  /\ id \in DOMAIN table[active] /\ verdict \in {"true_positive", "false_positive"}
  /\ setting' = setting \cup {Loaded("human", table[active][id].finding, id, verdict)}
  /\ UNCHANGED <<mode, active, table, history, finding, handler, judgeQueue, judging, llmCalls, switches>>

FeedbackGiven ==
  \E s \in Setting("human") :
    /\ CommitSet(s)
    /\ UNCHANGED <<mode, active, finding, handler, judgeQueue, judging, llmCalls, feedback, switches>>

TriageNext ==
  \/ \E confidence \in Confidences, scan \in Scans : SaveFinding(confidence, scan)
  \/ \E ids \in SUBSET (1 .. MaxFindings) : DeleteFindings(ids)
  \/ \E d \in Databases : LoadOtherSession(d)
  \/ \E f \in Findings : (\E verdict \in Verdicts : Handle(f, verdict)) \/ Handled(f)
  \/ JudgeTakes \/ JudgeUnavailable \/ Judged
  \/ \E verdict \in Verdicts, sure \in BOOLEAN : JudgeAnswers(verdict, sure)
  \/ \E id \in 1 .. MaxFindings, verdict \in Verdicts : Feedback(id, verdict)
  \/ FeedbackGiven

TriageSpec == TriageInit /\ [][TriageNext]_triageVars

-----------------------------------------------------------------------------
TriageTypeOK ==
  /\ active \in Databases /\ Len(judgeQueue) <= JudgeQueueSize
  /\ \A d \in Databases : \A i \in DOMAIN table[d] :
       table[d][i].finding \in Findings /\ table[d][i].verdict \in Verdicts \cup {"none"}

Judgements(f) ==
  {e \in Databases \X (1 .. 2 * MaxFindings + MaxFeedback) :
     /\ e[2] \in DOMAIN history[e[1]]
     /\ history[e[1]][e[2]].finding = f /\ history[e[1]][e[2]].method = "llm"}
Waiting(scan) == {i \in DOMAIN judgeQueue : finding[judgeQueue[i]].scan = scan}
JudgedOf(scan) ==
  {f \in Findings : finding[f].scan = scan /\ (judging = f \/ Judgements(f) # {})}

(* "Hard cap on LLM judge calls per scan" and "confidence levels that never *)
(* reach the LLM judge" (triage/config.py:39): however saves, deletions,   *)
(* switches of the session and the judge's answers interleave, no more than *)
(* MaxLlm findings of a scan are judged or wait for it, none twice, none    *)
(* that is tentative or was proved, none in the modes without a judge, and *)
(* none whose verdict the heuristic was sure of.                           *)
JudgeWithinLimits ==
  /\ \A scan \in Scans : Cardinality(JudgedOf(scan)) + Cardinality(Waiting(scan)) <= MaxLlm
  /\ \A f \in Findings :
       /\ Cardinality(Judgements(f)) <= 1
       /\ Judgements(f) # {} =>
            /\ mode \in {"enrich", "legacy_gray"} /\ finding[f].confidence = "inferred"
            /\ \A d \in Databases : \A i \in DOMAIN history[d] :
                 history[d][i].finding = f /\ history[d][i].method = "heuristic"
                   => history[d][i].verdict = "uncertain"
=============================================================================

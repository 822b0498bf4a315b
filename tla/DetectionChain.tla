--------------------------- MODULE DetectionChain ---------------------------
(***************************************************************************)
(* The scan of one flow by one scanner plugin (pwnproxy/plugins/scanners/): *)
(* on_flow() extracts the injection points and runs a detection chain       *)
(* (pwnproxy/plugins/core/chain.py) over them, all at once (lfi, xxe) or    *)
(* one chain per point (the others).                                       *)
(*                                                                         *)
(* DetectionChain runs the stages its depth allows in order, each on the    *)
(* points that no stage before it confirmed.  BudgetChain (sqli, lfi) runs  *)
(* them in waves, takes the points that are left once per wave, and has a   *)
(* deadline that its stages look at before each point.                     *)
(* A stage tests its points one after the other (ScanStages).              *)
(***************************************************************************)
EXTENDS ScanStages, Subsequences

CONSTANTS
  Points,    \* injection points, by the key they are deduplicated with
  MaxPoints  \* bound: points extracted from the flow

ASSUME ChainAssumption == MaxPoints \in Nat \ {0}

VARIABLES
  scan,    \* what on_flow() still has to do: plugin, depth, the point lists
           \* of the chains to run
  chain,   \* the chain in progress
  yielded, \* history: the findings given to the consumer, with their stage
  tests    \* history: the tests made: stage, point, and the state they met

chainVars == <<scan, chain, yielded, tests>>

Depths == <<"fast", "standard", "deep">>
Rank(d) == SelectInSeq(Depths, LAMBDA e : e = d)

(* The stages of each plugin, by their order attribute. *)
Stage(name, depth) == [name |-> name, depth |-> depth]
StagesOf ==
  [sqli |-> <<Stage("ErrorBasedStage", "fast"), Stage("BooleanBlindStage", "standard"),
              Stage("TimeBlindStage", "standard"), Stage("OOBStage", "deep")>>,
   xss  |-> <<Stage("ReflectedStage", "fast"), Stage("StoredStage", "standard"),
              Stage("DomStage", "fast"), Stage("ContextAwareStage", "deep")>>,
   lfi  |-> <<Stage("SimpleStage", "fast"), Stage("PHPWrapperStage", "fast"),
              Stage("OOBStage", "deep")>>,
   ssrf |-> <<Stage("SsrfSimpleStage", "fast"), Stage("RedirectStage", "fast"),
              Stage("OOBStage", "deep")>>,
   xxe  |-> <<Stage("XxeErrorBasedStage", "fast"), Stage("JSONMutateStage", "standard"),
              Stage("OOBStage", "deep")>>,
   command |-> <<Stage("CommandInjectionStage", "fast")>>]

Plugin == DOMAIN StagesOf
HasBudget(p) == p \in {"sqli", "lfi"}     \* chain_from_depth()
AllAtOnce(p) == p \in {"lfi", "xxe"}

NoChain == [at |-> 0, phase |-> "none", todo |-> <<>>, remaining |-> <<>>,
            points |-> <<>>, confirmed |-> {}, part |-> Nothing, hits |-> {}, spent |-> FALSE]

ChainInit ==
  /\ scan = [phase |-> "idle", plugin |-> "none", depth |-> "fast", runs |-> <<>>]
  /\ chain = NoChain /\ yielded = <<>> /\ tests = <<>>

-----------------------------------------------------------------------------
(* Mutant: the points are taken as they are extracted. *)
DeduplicatedNot(points) == points

(* The points of a flow, the first of each key: a name that is repeated in  *)
(* the query, the body or the cookies gives the same key twice.             *)
Deduplicated(points) ==
  Kept(points, {i \in DOMAIN points : \A j \in 1 .. i - 1 : points[j] # points[i]})

(* on_flow() *)
OnFlow(p, d, points) ==
  LET valid == Deduplicated(points)
  IN /\ scan.phase = "idle"
     /\ scan' = [phase |-> "scan", plugin |-> p, depth |-> d,
                 runs |-> IF AllAtOnce(p) THEN (IF valid = <<>> THEN <<>> ELSE <<valid>>)
                                          ELSE [i \in DOMAIN valid |-> <<valid[i]>>]]
     /\ UNCHANGED <<chain, yielded, tests>>

(* run(): nothing is confirmed and the whole budget is left. *)
StartRun ==
  /\ scan.phase = "scan" /\ chain.phase = "none" /\ scan.runs # <<>>
  /\ chain' = [NoChain EXCEPT !.phase = "between", !.points = Head(scan.runs)]
  /\ scan' = [scan EXCEPT !.runs = Tail(@)]
  /\ UNCHANGED <<yielded, tests>>

EndOfScan ==
  /\ scan.phase = "scan" /\ chain.phase = "none" /\ scan.runs = <<>>
  /\ scan' = [scan EXCEPT !.phase = "done"]
  /\ UNCHANGED <<chain, yielded, tests>>

-----------------------------------------------------------------------------
Stages == StagesOf[scan.plugin]

(* should_run(), and the waves of a BudgetChain up to its ceiling. *)
ShouldRun(s) == Rank(s.depth) <= Rank(scan.depth)

(* The stages that are left: those after the current one in the order of    *)
(* the chain (the waves follow the order: no stage of a plugin with a       *)
(* budget has a smaller depth than one before it).                          *)
NextStages == {i \in chain.at + 1 .. Len(Stages) : ShouldRun(Stages[i])}

(* A wave begins: what is left is what is not confirmed; a stage of the     *)
(* same wave gets the list the wave began with.                            *)
Remaining(i) ==
  IF HasBudget(scan.plugin) /\ chain.at # 0 /\ Stages[chain.at].depth = Stages[i].depth
    THEN chain.remaining
    ELSE Kept(chain.points, {k \in DOMAIN chain.points : chain.points[k] \notin chain.confirmed})

(* The chain goes on as long as a stage is left and a point to test, and,   *)
(* with a budget, time: it is looked at before each wave and each stage.    *)
CanBegin ==
  /\ NextStages # {} /\ Remaining(Min(NextStages)) # <<>>
  /\ ~(HasBudget(scan.plugin) /\ chain.spent)

EndRun ==
  /\ chain.phase = "between" /\ ~CanBegin
  /\ chain' = NoChain
  /\ UNCHANGED <<scan, yielded, tests>>

BeginStage ==
  /\ chain.phase = "between" /\ CanBegin
  /\ LET i == Min(NextStages)
     IN chain' = [chain EXCEPT !.at = i, !.phase = "stage", !.part = Nothing, !.hits = {},
                               !.remaining = Remaining(i), !.todo = Remaining(i)]
  /\ UNCHANGED <<scan, yielded, tests>>

(* _deadline_exceeded(): only a BudgetChain sets a deadline. *)
DeadlineExceeded == HasBudget(scan.plugin) /\ chain.spent

(* execute() reaches its next point. *)
TestPoint(v) ==
  /\ chain.phase = "stage" /\ chain.todo # <<>> /\ ~DeadlineExceeded
  /\ LET p == Head(chain.todo)
     IN /\ chain' = [chain EXCEPT !.todo = Tail(@),
                       !.part.findings = @ \o [k \in DOMAIN v.findings |->
                          [stage |-> chain.at, point |-> p, technique |-> v.findings[k].technique,
                           confidence |-> v.findings[k].confidence]],
                       !.hits = IF v.confirmed THEN @ \cup {p} ELSE @]
        /\ tests' = Append(tests, [stage |-> chain.at, point |-> p, spent |-> chain.spent,
                                   met |-> p \in chain.confirmed])
  /\ UNCHANGED <<scan, yielded>>

(* Mutant: the points are taken as confirmed before the stage has ended. *)
StageRaisesKeepsHits ==
  /\ chain.phase = "stage"
  /\ chain' = [chain EXCEPT !.phase = "between", !.confirmed = @ \cup chain.hits]
  /\ UNCHANGED <<scan, yielded, tests>>

(* execute() raises: its result is lost, and the chain goes on.  It may do  *)
(* so in the middle of a test, which is then the last of tests.             *)
StageRaises ==
  /\ chain.phase = "stage"
  /\ chain' = [chain EXCEPT !.phase = "between"]
  /\ UNCHANGED <<scan, yielded, tests>>

(* Mutant: the stage does not return at its deadline. *)
EndStageWaits ==
  /\ chain.phase = "stage" /\ chain.todo = <<>>
  /\ yielded' = yielded \o chain.part.findings
  /\ chain' = [chain EXCEPT !.phase = "between", !.confirmed = @ \cup chain.hits]
  /\ UNCHANGED <<scan, tests>>

(* execute() returns: its findings are yielded, then its points confirmed. *)
EndStage ==
  /\ chain.phase = "stage" /\ (chain.todo = <<>> \/ DeadlineExceeded)
  /\ yielded' = yielded \o chain.part.findings
  /\ chain' = [chain EXCEPT !.phase = "between", !.confirmed = @ \cup chain.hits]
  /\ UNCHANGED <<scan, tests>>

(* The clock passes the start of the run plus its budget. *)
BudgetSpent ==
  /\ chain.phase # "none" /\ HasBudget(scan.plugin) /\ ~chain.spent
  /\ chain' = [chain EXCEPT !.spent = TRUE]
  /\ UNCHANGED <<scan, yielded, tests>>

Work ==
  \/ StartRun \/ EndOfScan \/ EndRun \/ BeginStage \/ EndStage
  \/ /\ chain.phase = "stage" /\ chain.todo # <<>>
     /\ \E v \in Verdicts(Stages[chain.at].name) : TestPoint(v)

ChainNext ==
  \/ \E p \in Plugin, d \in ToSet(Depths), n \in 0 .. MaxPoints :
       \E points \in [1 .. n -> Points] : OnFlow(p, d, points)
  \/ Work
  \/ StageRaises
  \/ BudgetSpent

(* Every request is answered or times out. *)
ChainFairness == WF_chainVars(Work)

ChainSpec == ChainInit /\ [][ChainNext]_chainVars /\ ChainFairness

-----------------------------------------------------------------------------
ChainTypeOK ==
  /\ scan.phase \in {"idle", "scan", "done"}
  /\ chain.phase \in {"none", "between", "stage"}
  /\ chain.confirmed \subseteq ToSet(chain.points)
  /\ ToSet(chain.todo) \subseteq ToSet(chain.remaining)
  /\ \A i \in DOMAIN yielded : yielded[i].point \in Points

(* The tests a scan makes (chain.py:101 and the plugins): no stage tests a  *)
(* point twice, whatever the flow repeats; the stages of a point follow     *)
(* their order and stay under the depth asked for; a point that was         *)
(* confirmed is tested again only by a stage of the wave that confirmed it, *)
(* and only in a chain with a budget; and none is tested after the budget   *)
(* of its run is spent (chain.py:228), neither in the stage that was        *)
(* running nor in a later one.                                             *)
TestsAreWarranted ==
  \A j \in DOMAIN tests :
    /\ ShouldRun(Stages[tests[j].stage])
    /\ HasBudget(scan.plugin) => ~tests[j].spent
    /\ \A i \in 1 .. j - 1 : tests[i].point = tests[j].point => tests[i].stage < tests[j].stage
    /\ tests[j].met =>
         /\ HasBudget(scan.plugin)
         /\ \E i \in DOMAIN yielded :
              /\ yielded[i].point = tests[j].point /\ yielded[i].stage < tests[j].stage
              /\ Stages[yielded[i].stage].depth = Stages[tests[j].stage].depth

(* A point leaves the chain only with a report (chain.py:163): what is      *)
(* confirmed was yielded by a stage that tested it, also when that stage or *)
(* another one raised.                                                     *)
ConfirmedIsReported ==
  /\ \A p \in chain.confirmed : \E i \in DOMAIN yielded : yielded[i].point = p
  /\ \A i \in DOMAIN yielded : \E t \in ToSet(tests) :
       t.point = yielded[i].point /\ t.stage = yielded[i].stage

(* "No textual signature matched -> fall back to the status differential"   *)
(* (sqli_stages.py:186): one or the other, never both, of one point.        *)
SignatureExcludesDifferential ==
  ~ \E i, j \in DOMAIN yielded :
      /\ yielded[i].point = yielded[j].point
      /\ yielded[i].technique = "error-based" /\ yielded[j].technique = "status-differential"

(* A scan that was started ends, whatever the target answers and whichever  *)
(* stages raise.                                                           *)
ScanEnds == (scan.phase = "scan") ~> (scan.phase = "done")
=============================================================================

------------------------------ MODULE Reports ------------------------------
(***************************************************************************)
(* A report on the findings of a session: the request and its runner       *)
(* (transport/rest/reports.py), the analysis (ai/reports/analyzer.py) and  *)
(* the writing (ai/reports/generator.py).  Each call of a model is an await *)
(* between which findings are saved, another session is loaded or the task *)
(* is cancelled.  The findings are those of the session that is active when *)
(* the runner reads them; the name on the report is that of the session    *)
(* that was active when the task was created.                              *)
(*                                                                         *)
(* A finding is reduced to what groups it (its URL, technique and          *)
(* parameter: spot), what a group takes over from it, and the references   *)
(* (CVE numbers) its evidence, URL and technique hold; payloads are taken  *)
(* to hold none, and no severity to be empty, which the code takes for     *)
(* info everywhere but in the grouping.                                    *)
(***************************************************************************)
EXTENDS Naturals, Sequences, FiniteSets, SequencesExt, FiniteSetsExt

CONSTANTS
  ReportSessions,
  Spots,
  Refs,
  Inside,         \* [Refs -> SUBSET Refs]: the references that are part of its text
  SomeFindings,   \* the findings explored
  AskedFormats,   \* the sets of formats that clients ask for
  NarrativeCap,   \* MAX_NARRATIVE_GROUPS
  MaxKnown,       \* bound: findings saved
  MaxLoads        \* bound: sessions loaded

(* SEVERITY_ORDER: critical 0 ... info 4; a severity it lacks has rank 5. *)
UnknownRank == 5
Ranks == 0 .. UnknownRank

FormatOrder == <<"md", "html", "pdf">>   \* as _render_artifacts() writes them

Finding == [spot : Spots, rank : Ranks, confirmed : BOOLEAN, refs : SUBSET Refs]

ASSUME ReportsAssumption ==
  /\ ReportSessions # {} /\ SomeFindings \subseteq Finding /\ NarrativeCap \in Nat
  /\ MaxKnown \in Nat /\ MaxLoads \in Nat /\ AskedFormats \subseteq SUBSET ToSet(FormatOrder)
  /\ Inside \in [Refs -> SUBSET Refs] /\ \A r \in Refs : r \in Inside[r]

VARIABLES
  activeName,   \* the active session
  known,     \* [ReportSessions -> Seq(Finding)], the newest first
  draft,     \* the task and all its runner holds
  saved, loads

reportVars == <<activeName, known, draft, saved, loads>>

NoDraft == [phase |-> "none", session |-> "", formats |-> {}, from |-> "", findings |-> <<>>, groups |-> <<>>,
            sections |-> <<>>, written |-> <<>>, percent |-> 0, files |-> {}]

ReportsInit ==
  /\ activeName \in ReportSessions
  /\ known = [s \in ReportSessions |-> <<>>]
  /\ draft = NoDraft /\ saved = 0 /\ loads = 0

-----------------------------------------------------------------------------
(* Mutant: the first finding of a group decides on its severity. *)
MergedFirst(group, f) ==
  [group EXCEPT !.occurrences = @ + 1, !.confirmed = @ \/ f.confirmed]

(* dedup_findings(), where the group of the finding exists: the worst  *)
(* severity and any confirmation win, the evidence is the first one's. *)
Merged(group, f) ==
  [group EXCEPT !.occurrences = @ + 1,
                !.rank = IF f.rank < @ THEN f.rank ELSE @,
                !.confirmed = @ \/ f.confirmed]

(* facts: the references in what the model wrote of the group. *)
NewGroup(f) ==
  [spot |-> f.spot, rank |-> f.rank, confirmed |-> f.confirmed, refs |-> f.refs,
   occurrences |-> 1, flagged |-> FALSE, facts |-> {}]

GroupOf(groups, f) == {i \in DOMAIN groups : groups[i].spot = f.spot}

Grouped(groups, f) ==
  IF GroupOf(groups, f) = {} THEN Append(groups, NewGroup(f))
  ELSE LET i == CHOOSE i \in GroupOf(groups, f) : TRUE
       IN [groups EXCEPT ![i] = Merged(groups[i], f)]

Dedup(findings) == FoldLeft(Grouped, <<>>, findings)

(* risk_aggregates(): a severity without a place in the order is counted *)
(* with no severity.                                                     *)
Aggregates(groups) ==
  [groups |-> Len(groups),
   confirmed |-> Cardinality({i \in DOMAIN groups : groups[i].confirmed}),
   bySeverity |-> [r \in Ranks \ {UnknownRank} |-> Cardinality({i \in DOMAIN groups : groups[i].rank = r})],
   worst |-> Min({UnknownRank} \cup {groups[i].rank : i \in DOMAIN groups})]

(* strip_untraceable_cves() looks for a reference in the text, so that a *)
(* number which begins one that is there passes.                         *)
InTextOf(held) == UNION {Inside[r] : r \in held}
Traceable(refs, group) == refs \cap InTextOf(group.refs)

-----------------------------------------------------------------------------
Goes(phase, percent) ==
  draft' = [draft EXCEPT !.phase = phase, !.percent = percent]

(* POST /reports/generate counts the findings of the active session; the *)
(* formats are what the client asks for, nothing included ...            *)
GenerateReport(formats) ==
  /\ draft.phase = "none" /\ known[activeName] # <<>>
  /\ draft' = [draft EXCEPT !.phase = "counted", !.formats = formats]
  /\ UNCHANGED <<activeName, known, saved, loads>>

(* ... and creates the task for the one that is active after that. *)
CreateReport ==
  /\ draft.phase = "counted"
  /\ draft' = [draft EXCEPT !.phase = "created", !.session = activeName]
  /\ UNCHANGED <<activeName, known, saved, loads>>

(* list(): the newest first; dedup_findings(); a report on nothing fails. *)
ReadFindings ==
  /\ draft.phase = "created"
  /\ draft' = [draft EXCEPT
       !.phase = IF known[activeName] = <<>> THEN "failed" ELSE "analyzing",
       !.from = activeName, !.findings = known[activeName],
       !.groups = Dedup(known[activeName]),
       !.percent = IF known[activeName] = <<>> THEN @ ELSE 5]
  /\ UNCHANGED <<activeName, known, saved, loads>>

(* extract_group_facts() for the next group; the model may name any reference. *)
ExtractFacts(refs) ==
  LET n == Len(draft.written) + 1
      g == draft.groups[n]
      own == Traceable(refs, g)
      last == n = Len(draft.groups)
  IN /\ draft.phase = "analyzing"
     /\ draft' = [draft EXCEPT
          !.groups[n] = [g EXCEPT !.facts = own, !.flagged = (own # refs)],
          !.written = IF last THEN <<>> ELSE Append(@, {}),
          !.phase = IF last THEN "writing" ELSE @,
          !.percent = IF last THEN 45 ELSE 5 + (35 * n) \div Len(draft.groups)]
     /\ UNCHANGED <<activeName, known, saved, loads>>

Writable == Min({NarrativeCap, Len(draft.groups)})

(* _write_narratives(): one call per group up to the cap; what is beyond it *)
(* is told by its facts.                                                    *)
WriteNarrative(refs) ==
  LET n == Len(draft.written) + 1
  IN /\ draft.phase = "writing" /\ n <= Writable
     /\ draft' = [draft EXCEPT
          !.written = Append(@, Traceable(refs, draft.groups[n])),
          !.percent = 45 + (35 * n) \div Writable]
     /\ UNCHANGED <<activeName, known, saved, loads>>

Narratives ==
  [n \in DOMAIN draft.groups |->
     IF n <= Writable THEN draft.written[n] ELSE draft.groups[n].facts]

(* _write_exec_summary(): nothing strips the references of its text, which *)
(* is not modelled further.                                                *)
WriteSummary ==
  /\ draft.phase = "writing" /\ Len(draft.written) = Writable
  /\ draft' = [draft EXCEPT !.phase = "rendering", !.percent = 88, !.written = Narratives]
  /\ UNCHANGED <<activeName, known, saved, loads>>

(* The groups that go before group n: the worst first, and in their order. *)
Ahead(groups, n) ==
  {m \in DOMAIN groups :
     groups[m].rank < groups[n].rank \/ (groups[m].rank = groups[n].rank /\ m < n)}

(* _build_context(), with its sort, which is stable. *)
Sections(groups, written) ==
  [i \in DOMAIN groups |->
     LET n == CHOOSE n \in DOMAIN groups : Cardinality(Ahead(groups, n)) = i - 1
     IN [group |-> groups[n], told |-> written[n]]]

(* base.md.j2 has a heading for each severity of the order, and under it *)
(* its sections; the plan and the appendix go through all sections.      *)
UnderHeading == {i \in DOMAIN draft.sections : draft.sections[i].group.rank # UnknownRank}

(* _render_artifacts(), synchronously: the text first, then each format that *)
(* was asked for, where writing it or a library it needs may be missing: all *)
(* of them is Len(FormatOrder), and fewer is where it raises.                *)
Render(upTo) ==
  LET raises == upTo # Len(FormatOrder)
  IN /\ draft.phase = "rendering"
     /\ raises /\ upTo > 0 => \E i \in DOMAIN FormatOrder : i > upTo /\ FormatOrder[i] \in draft.formats
     /\ draft' = [draft EXCEPT
          !.sections = Sections(draft.groups, draft.written),
          !.files = {FormatOrder[i] : i \in 1 .. upTo} \cap draft.formats,
          !.phase = IF raises THEN "failed" ELSE "rendered",
          !.percent = IF raises THEN @ ELSE 100]
     /\ UNCHANGED <<activeName, known, saved, loads>>

(* The progress of 100 is written before the result is. *)
FinishReport ==
  /\ draft.phase = "rendered"
  /\ Goes("completed", 100)
  /\ UNCHANGED <<activeName, known, saved, loads>>

(* A call of a model or of the store raises, or the task is cancelled, *)
(* wherever the runner awaits.                                         *)
GiveUp(how) ==
  /\ draft.phase \in {"created", "analyzing", "writing", "rendering", "rendered"}
  /\ Goes(how, draft.percent)
  /\ UNCHANGED <<activeName, known, saved, loads>>

-----------------------------------------------------------------------------
(* Other tasks: the findings of a scan, and the session manager. *)
SaveKnown(f) ==
  /\ saved < MaxKnown /\ saved' = saved + 1
  /\ known' = [known EXCEPT ![activeName] = <<f>> \o @]
  /\ UNCHANGED <<activeName, draft, loads>>

(* delete_all_findings() *)
ClearKnown ==
  /\ known[activeName] # <<>>
  /\ known' = [known EXCEPT ![activeName] = <<>>]
  /\ UNCHANGED <<activeName, draft, saved, loads>>

LoadSession(s) ==
  /\ s # activeName /\ loads < MaxLoads
  /\ activeName' = s /\ loads' = loads + 1
  /\ UNCHANGED <<known, draft, saved>>

ReportsNext ==
  \/ \E f \in SomeFindings : SaveKnown(f)
  \/ ClearKnown
  \/ \E s \in ReportSessions : LoadSession(s)
  \/ \E formats \in AskedFormats : GenerateReport(formats)
  \/ CreateReport \/ ReadFindings \/ WriteSummary \/ FinishReport
  \/ \E refs \in SUBSET Refs : ExtractFacts(refs) \/ WriteNarrative(refs)
  \/ \E upTo \in 0 .. Len(FormatOrder) : Render(upTo)
  \/ \E how \in {"failed", "cancelled"} : GiveUp(how)

ReportsSpec == ReportsInit /\ [][ReportsNext]_reportVars

-----------------------------------------------------------------------------
Group == [spot : Spots, rank : Ranks, confirmed : BOOLEAN, refs : SUBSET Refs,
          occurrences : Nat, flagged : BOOLEAN, facts : SUBSET Refs]

DraftState ==
  [phase    : {"none", "counted", "created", "analyzing", "writing", "rendering", "rendered",
               "completed", "failed", "cancelled"},
   session  : ReportSessions \cup {""}, formats : SUBSET ToSet(FormatOrder),
   from     : ReportSessions \cup {""}, findings : Seq(Finding), groups : Seq(Group),
   sections : Seq([group : Group, told : SUBSET Refs]), written : Seq(SUBSET Refs),
   percent : 0 .. 100, files : SUBSET ToSet(FormatOrder)]

ReportsTypeOK ==
  /\ activeName \in ReportSessions /\ known \in [ReportSessions -> Seq(Finding)]
  /\ draft \in DraftState /\ saved \in Nat /\ loads \in Nat

Told == {draft.sections[i].group.spot : i \in DOMAIN draft.sections}
MembersOf(spot) == {m \in DOMAIN draft.findings : draft.findings[m].spot = spot}

(* A section tells of all the findings of its place: how many there are, the *)
(* worst severity, that one is confirmed; and it names no reference that is  *)
(* not in the text of the evidence of one of them.                           *)
SectionIsTrue(section) ==
  LET members == MembersOf(section.group.spot)
  IN /\ section.group.occurrences = Cardinality(members)
     /\ section.group.rank = Min({draft.findings[m].rank : m \in members})
     /\ section.group.confirmed = (\E m \in members : draft.findings[m].confirmed)
     /\ \E m \in members : section.group.facts \cup section.told \subseteq InTextOf(draft.findings[m].refs)

(* A report that completed tells of all the findings its runner has read,    *)
(* whatever was saved, deleted or loaded meanwhile: the place of each has    *)
(* one section, which is true of its findings; the sections are sorted by    *)
(* severity, and those of a severity that the order has, no other, stand     *)
(* under its headings; the summary counts as many, as many confirmed and of  *)
(* each severity, and names the worst; and there is a file of each format    *)
(* that was asked for, of none if none was.  Only a session that was loaded  *)
(* since the request makes it the report of another.                         *)
ReportTellsFindings ==
  draft.phase = "completed" =>
    LET rank(i) == draft.sections[i].group.rank
        summary == Aggregates(draft.groups)
    IN /\ Told = {draft.findings[i].spot : i \in DOMAIN draft.findings}
       /\ Len(draft.sections) = Cardinality(Told)
       /\ \A i \in DOMAIN draft.sections : SectionIsTrue(draft.sections[i])
       /\ \A i, j \in DOMAIN draft.sections : i < j => rank(i) <= rank(j)
       /\ \A i \in DOMAIN draft.sections :
            i \in UnderHeading <=> \E m \in MembersOf(draft.sections[i].group.spot) :
                                     draft.findings[m].rank # UnknownRank
       /\ summary.groups = Len(draft.sections) /\ summary.worst = rank(1)
       /\ summary.confirmed = Cardinality({i \in DOMAIN draft.sections : draft.sections[i].group.confirmed})
       /\ \A r \in DOMAIN summary.bySeverity :
            summary.bySeverity[r] = Cardinality({i \in DOMAIN draft.sections : rank(i) = r})
       /\ draft.percent = 100 /\ draft.files = draft.formats
       /\ draft.session = draft.from \/ loads > 0
=============================================================================

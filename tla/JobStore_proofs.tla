--------------------------- MODULE JobStore_proofs ---------------------------
(***************************************************************************)
(* Proofs about JobStore, for any sets of jobs and callers: the type of    *)
(* its state, the legality of every pending write, the finality of every   *)
(* reported end, and that the table implements JobMachine.                 *)
(***************************************************************************)
EXTENDS JobStore, TLAPS

-----------------------------------------------------------------------------
(* Facts about the constant operators of JobStates. *)

(* Reading a stored string gives a state of the contract. *)
LEMMA ResolveType ==
  ASSUME NEW raw \in RawStatus
  PROVE  Resolve(raw) \in JobState
BY DEF RawStatus, JobState, Resolve

(* A canonical value is read as itself. *)
LEMMA ResolveCanonical ==
  ASSUME NEW s \in JobState
  PROVE  Resolve(s) = s /\ s \in RawStatus
BY DEF JobState, Resolve, RawStatus

(* No move leaves the contract's states, and none leaves a terminal one. *)
LEMMA LegalType ==
  ASSUME NEW s \in JobState
  PROVE  Legal[s] \subseteq JobState /\ (s \in Terminal => Legal[s] = {})
BY DEF JobState, Legal, Terminal

(* A step of transition_status() that is legal leads to a state that is    *)
(* not a legacy string, from a state that has not ended.                   *)
LEMMA LegalStep ==
  ASSUME NEW raw \in RawStatus, NEW target,
         NextStep(Resolve(raw), target) \in Legal[Resolve(raw)]
  PROVE  /\ NextStep(Resolve(raw), target) \in JobState
         /\ Resolve(NextStep(Resolve(raw), target)) = NextStep(Resolve(raw), target)
         /\ Resolve(raw) \notin Terminal
BY ResolveType, ResolveCanonical, LegalType

(* After the first step of a path, the second is legal as well: a write    *)
(* that was validated is never refused half way.                           *)
LEMMA PathStaysLegal ==
  ASSUME NEW raw \in RawStatus, NEW target \in Command,
         NextStep(Resolve(raw), target) \in Legal[Resolve(raw)],
         NextStep(Resolve(raw), target) # target
  PROVE  LET step == NextStep(Resolve(raw), target)
         IN NextStep(Resolve(step), target) \in Legal[Resolve(step)]
<1>1. Resolve(raw) \in JobState
  BY ResolveType
<1>2. CASE target = "running" /\ Resolve(raw) = "created"
  BY <1>2 DEF NextStep, Resolve, Legal, JobState
<1>3. CASE target = "cancelled" /\ Resolve(raw) \in {"running", "starting"}
  BY <1>3 DEF NextStep, Resolve, Legal, JobState
<1> QED
  BY <1>1, <1>2, <1>3 DEF NextStep

-----------------------------------------------------------------------------
(* The inductive invariant: the three invariants together.  A report stays *)
(* final because no pending write can take a row out of a terminal state,  *)
(* and that is so because what is pending was validated.                   *)
IInv == TypeOK /\ PendingStepLegal /\ ReportIsFinal

CallType == [pc         : {"idle", "write", "reread"},
             job        : Jobs \cup {NoJob},
             target     : Command \cup {"none"},
             prev       : RawStatus \cup {"none"},
             recovering : BOOLEAN]

ReportType == [job    : Jobs \cup {NoJob},
               result : RawStatus \cup {"none", "raised"}]

(* What PendingStepLegal says of one caller. *)
CallLegal(c) ==
  call[c].pc # "idle" =>
    /\ call[c].job \in Jobs /\ status[call[c].job] # Absent
    /\ call[c].target \in Command /\ call[c].prev \in RawStatus
    /\ NextStep(Resolve(call[c].prev), call[c].target) \in Legal[Resolve(call[c].prev)]
    /\ call[c].recovering => call[c].target = "failed" /\ call[c].prev = "running"

(* What ReportIsFinal says of one caller. *)
ReportFinal(c) ==
  report[c].job \in Jobs /\ Resolve(report[c].result) \in Terminal
    => Resolve(status[report[c].job]) = Resolve(report[c].result)

LEMMA InvariantParts ==
  /\ PendingStepLegal <=> \A c \in Callers : CallLegal(c)
  /\ ReportIsFinal <=> \A c \in Callers : ReportFinal(c)
BY DEF PendingStepLegal, ReportIsFinal, CallLegal, ReportFinal

(* A job has no row until create() or clone_job(); what is no status is no *)
(* end either.                                                             *)
LEMMA NotTerminal ==
  /\ Absent \notin RawStatus
  /\ \A r \in {Absent, "none", "raised"} : Resolve(r) \notin Terminal
BY DEF Absent, RawStatus, JobState, Resolve, Terminal

LEMMA InitInvariant == Init => IInv
<1> SUFFICES ASSUME Init PROVE IInv
  OBVIOUS
<1>1. TypeOK
  BY DEF Init, TypeOK, NoCall, NoReport
<1>2. PendingStepLegal
  BY DEF Init, PendingStepLegal, NoCall
<1>3. ReportIsFinal
  BY NoJobAssumption DEF Init, ReportIsFinal, NoReport
<1> QED
  BY <1>1, <1>2, <1>3 DEF IInv

(* Adding a row to the table disturbs nothing that is pending or reported. *)
LEMMA InsertInvariant ==
  ASSUME IInv, NEW j \in Jobs, NEW raw \in RawStatus,
         status[j] = Absent, status' = [status EXCEPT ![j] = raw],
         UNCHANGED <<call, report, stale>>
  PROVE  IInv'
<1>1. TypeOK'
  BY DEF IInv, TypeOK
<1>2. PendingStepLegal'
  <2> SUFFICES ASSUME NEW c \in Callers PROVE CallLegal(c)'
    BY DEF PendingStepLegal, CallLegal
  <2>1. CallLegal(c)
    BY InvariantParts DEF IInv
  <2> QED
    BY <2>1, NotTerminal DEF CallLegal, IInv, TypeOK
<1>3. ReportIsFinal'
  <2> SUFFICES ASSUME NEW c \in Callers, report[c].job \in Jobs,
                      Resolve(report[c].result) \in Terminal
               PROVE  Resolve(status'[report[c].job]) = Resolve(report[c].result)
    BY DEF ReportIsFinal
  <2>1. Resolve(status[report[c].job]) = Resolve(report[c].result)
    BY DEF IInv, ReportIsFinal
  <2>2. report[c].job # j
    BY <2>1, NotTerminal
  <2> QED
    BY <2>1, <2>2 DEF IInv, TypeOK
<1> QED
  BY <1>1, <1>2, <1>3 DEF IInv

(* A call that returns what the row it names holds, or no status at all.   *)
LEMMA ReturnInvariant ==
  ASSUME IInv, NEW c \in Callers, NEW j \in Jobs, NEW result,
         result \in RawStatus \cup {"raised"},
         Resolve(result) \in Terminal => Resolve(status[j]) = Resolve(result),
         Return(c, j, result), status' = status, stale' \in [Callers -> SUBSET Jobs]
  PROVE  IInv'
<1> USE DEF Return
<1>1. TypeOK'
  <2>1. NoCall \in CallType
    BY DEF NoCall, CallType
  <2>2. [job |-> j, result |-> result] \in ReportType
    BY DEF ReportType
  <2> QED
    BY <2>1, <2>2 DEF IInv, TypeOK, CallType, ReportType
<1>2. PendingStepLegal'
  <2> SUFFICES ASSUME NEW d \in Callers PROVE CallLegal(d)'
    BY DEF PendingStepLegal, CallLegal
  <2>1. CallLegal(d)
    BY InvariantParts DEF IInv
  <2>2. CASE d = c
    BY <2>2 DEF CallLegal, NoCall, IInv, TypeOK
  <2>3. CASE d # c
    BY <2>1, <2>3 DEF CallLegal, IInv, TypeOK
  <2> QED
    BY <2>2, <2>3
<1>3. ReportIsFinal'
  <2> SUFFICES ASSUME NEW d \in Callers PROVE ReportFinal(d)'
    BY DEF ReportIsFinal, ReportFinal
  <2>1. CASE d = c
    BY <2>1 DEF ReportFinal, IInv, TypeOK
  <2>2. CASE d # c
    <3>1. ReportFinal(d)
      BY InvariantParts DEF IInv
    <3> QED
      BY <2>2, <3>1 DEF ReportFinal, IInv, TypeOK
  <2> QED
    BY <2>1, <2>2
<1> QED
  BY <1>1, <1>2, <1>3 DEF IInv

(* A call whose next write has been validated against prev. *)
LEMMA PendingInvariant ==
  ASSUME IInv, NEW c \in Callers, NEW m \in CallType,
         m.pc = "write", m.job \in Jobs, status[m.job] # Absent,
         m.target \in Command, m.prev \in RawStatus,
         NextStep(Resolve(m.prev), m.target) \in Legal[Resolve(m.prev)],
         m.recovering => m.target = "failed" /\ m.prev = "running",
         call' = [call EXCEPT ![c] = m],
         UNCHANGED <<status, report>>, stale' \in [Callers -> SUBSET Jobs]
  PROVE  IInv'
<1>1. TypeOK'
  BY DEF IInv, TypeOK, CallType
<1>2. PendingStepLegal'
  <2> SUFFICES ASSUME NEW d \in Callers PROVE CallLegal(d)'
    BY DEF PendingStepLegal, CallLegal
  <2>1. CASE d = c
    BY <2>1 DEF CallLegal, IInv, TypeOK
  <2>2. CASE d # c
    BY <2>2, InvariantParts DEF CallLegal, IInv, TypeOK
  <2> QED
    BY <2>1, <2>2
<1>3. ReportIsFinal'
  BY DEF IInv, ReportIsFinal
<1> QED
  BY <1>1, <1>2, <1>3 DEF IInv

(* transition_status() up to its first write, for a command and for crash  *)
(* recovery.                                                               *)
LEMMA ReadInvariant ==
  ASSUME IInv, NEW c \in Callers, NEW j \in Jobs, NEW target \in Command,
         NEW recovering \in BOOLEAN, recovering => target = "failed",
         Read(c, j, target, recovering), stale' \in [Callers -> SUBSET Jobs]
  PROVE  IInv'
<1> DEFINE cur  == Resolve(status[j])
           skip == status[j] # Absent /\ (cur = target \/ (recovering /\ cur # "running"))
           m    == [pc |-> "write", job |-> j, target |-> target,
                    prev |-> status[j], recovering |-> recovering]
<1>1. status[j] # Absent => status[j] \in RawStatus
  BY DEF IInv, TypeOK
<1>2. CASE skip /\ Return(c, j, cur)
  <2>1. cur \in RawStatus /\ Resolve(cur) = cur
    BY <1>1, <1>2, ResolveType, ResolveCanonical
  <2> QED
    BY <1>2, <2>1, ReturnInvariant DEF Read
<1>3. CASE ~skip /\ Refused(j, target) /\ Return(c, j, "raised")
  BY <1>3, NotTerminal, ReturnInvariant DEF Read
<1>4. CASE /\ ~skip /\ ~Refused(j, target)
           /\ call' = [call EXCEPT ![c] = m] /\ UNCHANGED report
  <2>1. status[j] # Absent /\ NextStep(cur, target) \in Legal[cur]
    BY <1>4 DEF Refused
  <2>2. recovering => status[j] = "running"
    <3>1. recovering => cur = "running"
      BY <1>4, <2>1
    <3> QED
      BY <1>1, <2>1, <3>1 DEF Resolve
  <2>3. m \in CallType
    BY <1>1, <2>1 DEF CallType
  <2> QED
    <3> HIDE DEF cur
    <3>1. cur = Resolve(m.prev)
      BY DEF cur
    <3>2. UNCHANGED <<status, report>>
      BY <1>4 DEF Read
    <3> QED
      BY <1>1, <1>4, <2>1, <2>2, <2>3, <3>1, <3>2, PendingInvariant
<1> QED
  BY <1>2, <1>3, <1>4 DEF Read

LEMMA CompareAndSetInvariant ==
  ASSUME IInv, NEW c \in Callers, CompareAndSet(c)
  PROVE  IInv'
<1> DEFINE me   == call[c]
           step == NextStep(Resolve(me.prev), me.target)
<1>1. /\ me.pc = "write" /\ me \in CallType
      /\ me.job \in Jobs /\ status[me.job] # Absent
      /\ me.target \in Command /\ me.prev \in RawStatus
      /\ step \in Legal[Resolve(me.prev)]
      /\ me.recovering => me.target = "failed" /\ me.prev = "running"
  BY InvariantParts DEF CompareAndSet, IInv, TypeOK, CallLegal, CallType
<1>2. /\ step \in JobState /\ step \in RawStatus /\ Resolve(step) = step
      /\ Resolve(me.prev) \notin Terminal
  BY <1>1, LegalStep, ResolveCanonical
<1> HIDE DEF step
<1>3. CASE status[me.job] # me.prev
  <2>1. call' = [call EXCEPT ![c].pc = "reread"] /\ UNCHANGED <<status, report, stale>>
    BY <1>3 DEF CompareAndSet
  <2>2. TypeOK'
    BY <2>1, <1>1 DEF IInv, TypeOK
  <2>3. \A d \in Callers : CallLegal(d)'
    BY <2>1, <1>1, InvariantParts DEF IInv, TypeOK, CallLegal
  <2>4. ReportIsFinal'
    BY <2>1 DEF IInv, ReportIsFinal
  <2> QED
    BY <2>2, <2>3, <2>4 DEF IInv, PendingStepLegal, CallLegal
<1>4. CASE /\ status[me.job] = me.prev
           /\ status' = [status EXCEPT ![me.job] = step]
           /\ UNCHANGED stale
  (* The write by itself, with the caller's own record still to follow. *)
  <2>1. /\ status' \in [Jobs -> RawStatus \cup {Absent}]
        /\ \A j \in Jobs : status[j] # Absent => status'[j] # Absent
        /\ \A j \in Jobs : Resolve(status[j]) \in Terminal => status'[j] = status[j]
        /\ status'[me.job] = step
    BY <1>1, <1>2, <1>4, NotTerminal DEF IInv, TypeOK
  <2>2. CASE step = me.target /\ Return(c, me.job, step)
    <3>1. TypeOK'
      BY <1>2, <1>1, <1>4, <2>1, <2>2 DEF IInv, TypeOK, Return, NoCall
    <3>2. ASSUME NEW d \in Callers PROVE CallLegal(d)'
      <4>1. CASE d = c
        BY <2>2, <4>1 DEF CallLegal, Return, NoCall, IInv, TypeOK
      <4>2. CASE d # c
        BY <2>1, <2>2, <4>2, InvariantParts DEF CallLegal, Return, IInv, TypeOK
      <4> QED
        BY <4>1, <4>2
    <3>3. ASSUME NEW d \in Callers PROVE ReportFinal(d)'
      <4>1. CASE d = c
        BY <2>1, <2>2, <4>1 DEF ReportFinal, Return, IInv, TypeOK
      <4>2. CASE d # c
        BY <2>1, <2>2, <4>2, InvariantParts DEF ReportFinal, Return, IInv, TypeOK
      <4> QED
        BY <4>1, <4>2
    <3> QED
      BY <3>1, <3>2, <3>3 DEF IInv, PendingStepLegal, ReportIsFinal, CallLegal, ReportFinal
  <2>3. CASE /\ step # me.target /\ UNCHANGED report
             /\ call' = [call EXCEPT ![c].prev = step]
    <3>1. NextStep(Resolve(step), me.target) \in Legal[Resolve(step)]
      BY <1>1, <2>3, PathStaysLegal DEF step
    <3>2. ~me.recovering
      BY <1>1, <2>3 DEF step, NextStep
    <3>3. TypeOK'
      BY <1>1, <1>2, <1>4, <2>1, <2>3 DEF IInv, TypeOK
    <3>4. ASSUME NEW d \in Callers PROVE CallLegal(d)'
      <4>1. CASE d = c
        BY <1>1, <1>2, <2>1, <2>3, <3>1, <3>2, <4>1 DEF CallLegal, IInv, TypeOK
      <4>2. CASE d # c
        BY <2>1, <2>3, <4>2, InvariantParts DEF CallLegal, IInv, TypeOK
      <4> QED
        BY <4>1, <4>2
    <3>5. ASSUME NEW d \in Callers PROVE ReportFinal(d)'
      BY <2>1, <2>3, InvariantParts DEF ReportFinal, IInv, TypeOK
    <3> QED
      BY <3>3, <3>4, <3>5 DEF IInv, PendingStepLegal, ReportIsFinal, CallLegal, ReportFinal
  <2> QED
    BY <1>3, <1>4, <2>2, <2>3 DEF CompareAndSet, step
<1> QED
  BY <1>3, <1>4 DEF CompareAndSet, step

LEMMA RereadInvariant ==
  ASSUME IInv, NEW c \in Callers, Reread(c)
  PROVE  IInv'
<1>1. call[c].job \in Jobs /\ status[call[c].job] \in RawStatus
  BY InvariantParts DEF Reread, IInv, TypeOK, CallLegal
<1> QED
  BY <1>1, ReturnInvariant DEF Reread, IInv, TypeOK

LEMMA AbortInvariant ==
  ASSUME IInv, NEW c \in Callers, Abort(c)
  PROVE  IInv'
<1>1. TypeOK'
  BY DEF Abort, NoCall, IInv, TypeOK
<1>2. ASSUME NEW d \in Callers PROVE CallLegal(d)'
  BY InvariantParts DEF Abort, NoCall, CallLegal, IInv, TypeOK
<1>3. ReportIsFinal'
  BY DEF Abort, IInv, ReportIsFinal
<1> QED
  BY <1>1, <1>2, <1>3 DEF IInv, PendingStepLegal, CallLegal

LEMMA NextInvariant == IInv /\ [Next]_storeVars => IInv'
<1> SUFFICES ASSUME IInv, [Next]_storeVars PROVE IInv'
  OBVIOUS
<1>1. ASSUME NEW j \in Jobs, Create(j) PROVE IInv'
  <2>1. "queued" \in RawStatus
    BY DEF RawStatus
  <2> QED
    BY <1>1, <2>1, InsertInvariant DEF Create
<1>2. ASSUME NEW original \in Jobs, NEW j \in Jobs, CloneJob(original, j) PROVE IInv'
  <2>1. "created" \in RawStatus
    BY DEF RawStatus, JobState
  <2> QED
    BY <1>2, <2>1, InsertInvariant DEF CloneJob
<1>3. ASSUME NEW c \in Callers, NEW j \in Jobs, NEW target \in Command, Lifecycle(c, j, target)
      PROVE  IInv'
  BY <1>3, ReadInvariant DEF Lifecycle, IInv, TypeOK
<1>4. ASSUME NEW c \in Callers, RecoverSelect(c) PROVE IInv'
  BY <1>4 DEF RecoverSelect, IInv, TypeOK, PendingStepLegal, ReportIsFinal
<1>5. ASSUME NEW c \in Callers, NEW j \in Jobs, RecoverOne(c, j) PROVE IInv'
  <2>1. "failed" \in Command /\ stale' \in [Callers -> SUBSET Jobs]
    BY <1>5 DEF Command, RecoverOne, IInv, TypeOK
  <2> QED
    BY <1>5, <2>1, ReadInvariant DEF RecoverOne
<1>6. ASSUME NEW c \in Callers, CompareAndSet(c) PROVE IInv'
  BY <1>6, CompareAndSetInvariant
<1>7. ASSUME NEW c \in Callers, Reread(c) PROVE IInv'
  BY <1>7, RereadInvariant
<1>8. ASSUME NEW c \in Callers, Abort(c) PROVE IInv'
  BY <1>8, AbortInvariant
<1>9. CASE UNCHANGED storeVars
  BY <1>9 DEF storeVars, IInv, TypeOK, PendingStepLegal, ReportIsFinal
<1> QED
  BY <1>1, <1>2, <1>3, <1>4, <1>5, <1>6, <1>7, <1>8, <1>9 DEF Next

(* The table, the invocations and their reports keep their types. *)
THEOREM TypeCorrect == Spec => []TypeOK
<1>1. Spec => []IInv
  BY InitInvariant, NextInvariant, PTL DEF Spec
<1>2. IInv => TypeOK
  BY DEF IInv
<1> QED
  BY <1>1, <1>2, PTL

(* transition_status() never persists a step it has not validated against  *)
(* the state it expects in the row.                                        *)
THEOREM PendingStepsAreLegal == Spec => []PendingStepLegal
<1>1. Spec => []IInv
  BY InitInvariant, NextInvariant, PTL DEF Spec
<1>2. IInv => PendingStepLegal
  BY DEF IInv
<1> QED
  BY <1>1, <1>2, PTL

(* An end that transition_status() has returned to anyone is the job's end *)
(* for good.                                                               *)
THEOREM ReportsAreFinal == Spec => []ReportIsFinal
<1>1. Spec => []IInv
  BY InitInvariant, NextInvariant, PTL DEF Spec
<1>2. IInv => ReportIsFinal
  BY DEF IInv
<1> QED
  BY <1>1, <1>2, PTL

(* mark_stale_running_failed() fails a job only out of RUNNING, however    *)
(* long ago it was selected.                                               *)
THEOREM RecoveryIsGuarded == Spec => RecoveryFailsOnlyRunning
<1> DEFINE Guarded ==
      \A c \in Callers, j \in Jobs :
        call[c].recovering /\ call[c].job = j /\ CompareAndSet(c) /\ status'[j] # status[j]
        => status[j] = "running" /\ status'[j] = "failed"
<1>1. Spec => []IInv
  BY InitInvariant, NextInvariant, PTL DEF Spec
<1>2. ASSUME IInv PROVE Guarded
  <2> SUFFICES ASSUME NEW c \in Callers, NEW j \in Jobs,
                      call[c].recovering, call[c].job = j,
                      CompareAndSet(c), status'[j] # status[j]
               PROVE  status[j] = "running" /\ status'[j] = "failed"
    OBVIOUS
  <2>1. call[c].target = "failed" /\ call[c].prev = "running"
    BY <1>2, InvariantParts DEF CompareAndSet, CallLegal, IInv
  <2>2. /\ status[j] = call[c].prev
        /\ status' = [status EXCEPT ![j] = NextStep(Resolve(call[c].prev), call[c].target)]
    BY DEF CompareAndSet
  <2>3. NextStep(Resolve("running"), "failed") = "failed"
    BY DEF NextStep, Resolve
  <2> QED
    BY <1>2, <2>1, <2>2, <2>3 DEF IInv, TypeOK
<1> QED
  BY <1>1, <1>2, PTL DEF RecoveryFailsOnlyRunning

-----------------------------------------------------------------------------
(* The refinement: every change of the table, read through the legacy      *)
(* mapping, is a step of JobMachine.                                       *)

(* JobMachine has its own copy of the constant operators of JobStates. *)
LEMMA SameContract ==
  Machine!JobState = JobState /\ Machine!Legal = Legal /\ Machine!Absent = Absent
BY DEF Machine!JobState, JobState, Machine!Legal, Legal, Machine!Absent, Absent

(* What a row shows to a reader of the contract. *)
LEMMA MappedType == TypeOK => jobState \in [Jobs -> JobState \cup {Absent}]
BY ResolveType DEF TypeOK, jobState

LEMMA InsertRefines ==
  ASSUME TypeOK, NEW j \in Jobs, NEW raw \in {"queued", "created"},
         status[j] = Absent, status' = [status EXCEPT ![j] = raw]
  PROVE  Machine!Next
<1>1. raw # Absent /\ Resolve(raw) = "created"
  BY DEF Absent, Resolve
<1>2. jobState[j] = Absent
  BY DEF jobState
<1>3. jobState' = [jobState EXCEPT ![j] = "created"]
  BY <1>1 DEF TypeOK, jobState
<1> QED
  BY <1>2, <1>3, SameContract DEF Machine!Next, Machine!Appear

LEMMA CompareAndSetRefines ==
  ASSUME IInv, NEW c \in Callers, CompareAndSet(c)
  PROVE  Machine!Next \/ UNCHANGED jobState
<1> DEFINE me   == call[c]
           step == NextStep(Resolve(me.prev), me.target)
<1>1. /\ me.job \in Jobs /\ status[me.job] # Absent /\ me.prev \in RawStatus
      /\ step \in Legal[Resolve(me.prev)]
  BY InvariantParts DEF CompareAndSet, IInv, CallLegal
<1>2. step \in JobState /\ Resolve(step) = step /\ step # Absent
  BY <1>1, LegalStep, ResolveCanonical, NotTerminal
<1> HIDE DEF step
<1>3. CASE status[me.job] # me.prev
  BY <1>3 DEF CompareAndSet, jobState
<1>4. CASE status[me.job] = me.prev /\ status' = [status EXCEPT ![me.job] = step]
  <2>1. jobState[me.job] = Resolve(me.prev) /\ jobState[me.job] # Absent
    <3>1. jobState[me.job] = Resolve(me.prev)
      BY <1>1, <1>4 DEF jobState
    <3>2. Resolve(me.prev) # Absent
      BY <1>1, ResolveType DEF Absent, JobState
    <3> QED
      BY <3>1, <3>2
  <2>2. jobState' = [jobState EXCEPT ![me.job] = step]
    BY <1>1, <1>2, <1>4 DEF IInv, TypeOK, jobState
  <2>3. Machine!Move(me.job)
    BY <1>1, <2>1, <2>2, SameContract DEF Machine!Move
  <2> QED
    BY <1>1, <2>3 DEF Machine!Next
<1> QED
  BY <1>3, <1>4 DEF CompareAndSet, step

LEMMA NextRefines == IInv /\ [Next]_storeVars => [Machine!Next]_jobState
<1> SUFFICES ASSUME IInv, [Next]_storeVars PROVE Machine!Next \/ UNCHANGED jobState
  OBVIOUS
<1>1. ASSUME NEW j \in Jobs, Create(j) PROVE Machine!Next
  BY <1>1, InsertRefines DEF Create, IInv
<1>2. ASSUME NEW original \in Jobs, NEW j \in Jobs, CloneJob(original, j) PROVE Machine!Next
  BY <1>2, InsertRefines DEF CloneJob, IInv
<1>3. ASSUME NEW c \in Callers, CompareAndSet(c) PROVE Machine!Next \/ UNCHANGED jobState
  BY <1>3, CompareAndSetRefines
<1>4. ASSUME status' = status PROVE UNCHANGED jobState
  BY <1>4 DEF jobState
<1>5. ASSUME NEW c \in Callers, NEW j \in Jobs, NEW target \in Command, Lifecycle(c, j, target)
      PROVE  status' = status
  BY <1>5 DEF Lifecycle, Read
<1>6. ASSUME NEW c \in Callers, NEW j \in Jobs, RecoverOne(c, j) PROVE status' = status
  BY <1>6 DEF RecoverOne, Read
<1>7. ASSUME NEW c \in Callers, RecoverSelect(c) \/ Reread(c) \/ Abort(c)
      PROVE  status' = status
  BY <1>7 DEF RecoverSelect, Reread, Abort
<1>8. CASE UNCHANGED storeVars
  BY <1>8, <1>4 DEF storeVars
<1> QED
  BY <1>1, <1>2, <1>3, <1>4, <1>5, <1>6, <1>7, <1>8 DEF Next

(* The jobs table implements the job contract: with any number of callers, *)
(* crashes and lost races, what a reader sees of a job is one legal        *)
(* transition after another.                                               *)
THEOREM TableImplementsContract == Spec => ImplementsJobMachine
<1>1. Init => Machine!Init
  BY InitInvariant, MappedType, SameContract DEF IInv, Machine!Init, Machine!TypeOK
<1>2. Spec => []IInv
  BY InitInvariant, NextInvariant, PTL DEF Spec
<1> QED
  BY <1>1, <1>2, NextRefines, PTL DEF Spec, ImplementsJobMachine, Machine!Spec

(* No caller ever moves a job that has ended, whatever it read before.     *)
THEOREM EndedJobsStay == Spec => Machine!TerminalIsForever
<1> DEFINE Stays == \A j \in Jobs : jobState[j] \in Machine!Terminal => jobState'[j] = jobState[j]
<1>1. Spec => Machine!Spec
  BY TableImplementsContract DEF ImplementsJobMachine
<1>2. [Machine!Next]_jobState => [Stays]_jobState
  <2> SUFFICES ASSUME NEW i \in Jobs, Machine!Appear(i) \/ Machine!Move(i),
                      NEW j \in Jobs, jobState[j] \in Terminal
               PROVE  jobState'[j] = jobState[j]
    BY DEF Machine!Next, Machine!Terminal, Terminal
  <2>1. jobState[j] \in JobState /\ Legal[jobState[j]] = {} /\ jobState[j] # Absent
    BY LegalType, NotTerminal, ResolveCanonical DEF Terminal, JobState
  <2>2. i # j
    BY <2>1, SameContract DEF Machine!Appear, Machine!Move
  <2>3. \E s : jobState' = [jobState EXCEPT ![i] = s]
    BY DEF Machine!Appear, Machine!Move
  <2> QED
    BY <2>2, <2>3 DEF jobState
<1> QED
  BY <1>1, <1>2, PTL DEF Machine!Spec, Machine!TerminalIsForever
=============================================================================

------------------------------ MODULE JobStore ------------------------------
(***************************************************************************)
(* JobStorage (pwnproxy/services/crawler/storage.py) and the commands      *)
(* JobLifecycle (pwnproxy/services/jobs/lifecycle.py) builds on it, run by *)
(* any number of concurrent callers in several processes over one          *)
(* database.  transition_status() reads the row, decides, and persists     *)
(* each state of its path with a compare-and-set UPDATE; between any two   *)
(* of these awaits every other caller may run, and a caller may be         *)
(* cancelled or killed.                                                    *)
(***************************************************************************)
EXTENDS JobStates

CONSTANTS Jobs,      \* the ids the database may hand out
          Callers,   \* concurrent invocations (tasks, requests, processes)
          NoJob      \* "no job", a value outside Jobs

ASSUME NoJobAssumption == NoJob \notin Jobs

VARIABLES
  status,  \* the status column: [Jobs -> RawStatus \cup {Absent}]
  call,    \* the transition_status() invocation each caller is in
  report,  \* what each caller's last invocation returned, and for which job
  stale    \* the ids mark_stale_running_failed() selected and has not handled

storeVars == <<status, call, report, stale>>

(* JobLifecycle's commands: the target each passes to transition_status(). *)
Command == {"running", "cancelled", "completed", "failed"}

NoCall   == [pc |-> "idle", job |-> NoJob, target |-> "none", prev |-> "none", recovering |-> FALSE]
NoReport == [job |-> NoJob, result |-> "none"]

(* At start-up the table may hold rows an earlier run or version left. *)
Init ==
  /\ status \in [Jobs -> RawStatus \cup {Absent}]
  /\ call = [c \in Callers |-> NoCall]
  /\ report = [c \in Callers |-> NoReport]
  /\ stale = [c \in Callers |-> {}]

-----------------------------------------------------------------------------
(* Mutant: create() inserts the task table's alias of CREATED. *)
CreatePending(j) ==
  /\ status[j] = Absent
  /\ status' = [status EXCEPT ![j] = "pending"]
  /\ UNCHANGED <<call, report, stale>>

(* create() inserts "queued"; clone_job() inserts "created" after reading  *)
(* an existing job.                                                        *)
Create(j) ==
  /\ status[j] = Absent
  /\ status' = [status EXCEPT ![j] = "queued"]
  /\ UNCHANGED <<call, report, stale>>

CloneJob(original, j) ==
  /\ status[original] # Absent
  /\ status[j] = Absent
  /\ status' = [status EXCEPT ![j] = "created"]
  /\ UNCHANGED <<call, report, stale>>

-----------------------------------------------------------------------------
(* transition_status() up to its first write: the read, the idempotent     *)
(* and TOCTOU returns, the refusals, or the decision to walk the path.     *)
Return(c, j, result) ==
  /\ call' = [call EXCEPT ![c] = NoCall]
  /\ report' = [report EXCEPT ![c] = [job |-> j, result |-> result]]

(* Mutant: only a terminal row refuses. *)
RefusedIfTerminal(j, target) ==
  status[j] # Absent => Resolve(status[j]) \in Terminal

Refused(j, target) ==
  status[j] # Absent =>
    NextStep(Resolve(status[j]), target) \notin Legal[Resolve(status[j])]

(* Mutant: expected_state is not looked at. *)
ReadAnyState(c, j, target, recovering) ==
  LET cur  == Resolve(status[j])
      skip == status[j] # Absent /\ cur = target
  IN /\ call[c].pc = "idle"
     /\ \/ /\ skip
           /\ Return(c, j, cur)
        \/ /\ ~skip /\ Refused(j, target)
           /\ Return(c, j, "raised")
        \/ /\ ~skip /\ ~Refused(j, target)
           /\ call' = [call EXCEPT ![c] =
                [pc |-> "write", job |-> j, target |-> target,
                 prev |-> status[j], recovering |-> recovering]]
           /\ UNCHANGED report
     /\ UNCHANGED status

Read(c, j, target, recovering) ==
  LET cur       == Resolve(status[j])
      skip      == status[j] # Absent
                   /\ (cur = target \/ (recovering /\ cur # "running"))
  IN /\ call[c].pc = "idle"
     /\ \/ /\ skip
           /\ Return(c, j, cur)
        \/ /\ ~skip /\ Refused(j, target)
           /\ Return(c, j, "raised")
        \/ /\ ~skip /\ ~Refused(j, target)
           /\ call' = [call EXCEPT ![c] =
                [pc |-> "write", job |-> j, target |-> target,
                 prev |-> status[j], recovering |-> recovering]]
           /\ UNCHANGED report
     /\ UNCHANGED status

(* Mutant: UPDATE ... WHERE id = job, without the status. *)
SetUnconditionally(c) ==
  LET me   == call[c]
      step == NextStep(Resolve(me.prev), me.target)
  IN /\ me.pc = "write"
     /\ status' = [status EXCEPT ![me.job] = step]
     /\ \/ /\ step = me.target
           /\ Return(c, me.job, step)
        \/ /\ step # me.target
           /\ call' = [call EXCEPT ![c].prev = step]
           /\ UNCHANGED report
     /\ UNCHANGED stale

(* One persisted step: UPDATE ... WHERE status = prev. *)
CompareAndSet(c) ==
  LET me   == call[c]
      step == NextStep(Resolve(me.prev), me.target)
  IN /\ me.pc = "write"
     /\ \/ /\ status[me.job] = me.prev
           /\ status' = [status EXCEPT ![me.job] = step]
           /\ \/ /\ step = me.target
                 /\ Return(c, me.job, step)
              \/ /\ step # me.target
                 /\ call' = [call EXCEPT ![c].prev = step]
                 /\ UNCHANGED report
        \/ /\ status[me.job] # me.prev
           /\ call' = [call EXCEPT ![c].pc = "reread"]
           /\ UNCHANGED <<status, report>>
     /\ UNCHANGED stale

(* The race was lost: report the winner's status, touch nothing. *)
Reread(c) ==
  /\ call[c].pc = "reread"
  /\ Return(c, call[c].job, status[call[c].job])
  /\ UNCHANGED <<status, stale>>

(* The caller is cancelled, or its process dies, at one of the awaits. *)
Abort(c) ==
  /\ call[c].pc # "idle" \/ stale[c] # {}
  /\ call' = [call EXCEPT ![c] = NoCall]
  /\ stale' = [stale EXCEPT ![c] = {}]
  /\ UNCHANGED <<status, report>>

-----------------------------------------------------------------------------
(* JobLifecycle.start / request_stop / complete / fail. *)
Lifecycle(c, j, target) ==
  /\ stale[c] = {}
  /\ Read(c, j, target, FALSE)
  /\ UNCHANGED stale

(* mark_stale_running_failed(): select the running rows, then fail them    *)
(* one at a time, each guarded by expected_state="running".                *)
RecoverSelect(c) ==
  /\ call[c].pc = "idle" /\ stale[c] = {}
  /\ stale' = [stale EXCEPT ![c] = {j \in Jobs : status[j] = "running"}]
  /\ UNCHANGED <<status, call, report>>

RecoverOne(c, j) ==
  /\ j \in stale[c]
  /\ Read(c, j, "failed", TRUE)
  /\ stale' = [stale EXCEPT ![c] = @ \ {j}]

-----------------------------------------------------------------------------
Proceed(c) == CompareAndSet(c) \/ Reread(c)

Next ==
  \/ \E j \in Jobs : Create(j)
  \/ \E original, j \in Jobs : CloneJob(original, j)
  \/ \E c \in Callers, j \in Jobs, target \in Command : Lifecycle(c, j, target)
  \/ \E c \in Callers : RecoverSelect(c)
  \/ \E c \in Callers, j \in Jobs : RecoverOne(c, j)
  \/ \E c \in Callers : CompareAndSet(c)
  \/ \E c \in Callers : Reread(c)
  \/ \E c \in Callers : Abort(c)

Spec == Init /\ [][Next]_storeVars

-----------------------------------------------------------------------------
(* Type correctness of the table, the invocations and their reports. *)
TypeOK ==
  /\ status \in [Jobs -> RawStatus \cup {Absent}]
  /\ call \in [Callers -> [pc         : {"idle", "write", "reread"},
                           job        : Jobs \cup {NoJob},
                           target     : Command \cup {"none"},
                           prev       : RawStatus \cup {"none"},
                           recovering : BOOLEAN]]
  /\ report \in [Callers -> [job    : Jobs \cup {NoJob},
                             result : RawStatus \cup {"none", "raised"}]]
  /\ stale \in [Callers -> SUBSET Jobs]

(* Every pending write was validated by transition() against the state the *)
(* caller believes the row to be in, however stale that belief is, and     *)
(* rows are never deleted under it.                                        *)
PendingStepLegal ==
  \A c \in Callers : call[c].pc # "idle" =>
    /\ call[c].job \in Jobs /\ status[call[c].job] # Absent
    /\ call[c].target \in Command /\ call[c].prev \in RawStatus
    /\ NextStep(Resolve(call[c].prev), call[c].target) \in Legal[Resolve(call[c].prev)]
    /\ call[c].recovering => call[c].target = "failed" /\ call[c].prev = "running"

(* A terminal status handed to a caller is the job's status for good:      *)
(* whoever won the race, nobody is told of an end that is later revised.   *)
ReportIsFinal ==
  \A c \in Callers :
    /\ report[c].job \in Jobs
    /\ Resolve(report[c].result) \in Terminal
    => Resolve(status[report[c].job]) = Resolve(report[c].result)

(* Crash recovery never fails a job that is not RUNNING at the instant of  *)
(* the write, whatever happened to it since the SELECT.                    *)
RecoveryFailsOnlyRunning ==
  [][\A c \in Callers, j \in Jobs :
        call[c].recovering /\ call[c].job = j /\ CompareAndSet(c) /\ status'[j] # status[j]
        => status[j] = "running" /\ status'[j] = "failed"]_storeVars

(* The rows, read through the legacy mapping, are a JobMachine: with any   *)
(* interleaving of commands, recoveries, losses and crashes, every change  *)
(* a reader of the table can see is one legal transition.                  *)
jobState == [j \in Jobs |-> IF status[j] = Absent THEN Absent ELSE Resolve(status[j])]

Machine == INSTANCE JobMachine WITH state <- jobState

ImplementsJobMachine == Machine!Spec
=============================================================================

------------------------------ MODULE JobStates ------------------------------
(***************************************************************************)
(* The job state machine of pwnproxy/shared/contracts/job.py as constant   *)
(* operators: the states, the table of legal transitions, the mapping of   *)
(* the strings older versions wrote, and the path transition_status()      *)
(* walks towards a target.  No variables: JobMachine, JobStore and         *)
(* CrawlerJobs share it.                                                   *)
(***************************************************************************)

(* class JobState *)
JobState == {"created", "starting", "running", "stopping",
             "completed", "failed", "cancelled"}

(* TERMINAL_STATES *)
Terminal == {"completed", "failed", "cancelled"}

(* What the status column of the jobs table may hold: the canonical values *)
(* and the two legacy strings that are not canonical values themselves.    *)
RawStatus == JobState \cup {"queued", "stopped"}

(* A job id that has no row yet. *)
Absent == "absent"

(* _LEGACY_MAP and _resolve_state() *)
Resolve(raw) == CASE raw = "queued"  -> "created"
                  [] raw = "stopped" -> "cancelled"
                  [] OTHER           -> raw

(* _LEGAL_TRANSITIONS *)
Legal == [s \in JobState |->
            CASE s = "created"  -> {"starting", "cancelled"}
              [] s = "starting" -> {"running", "failed", "stopping"}
              [] s = "running"  -> {"stopping", "completed", "failed"}
              [] s = "stopping" -> {"cancelled", "failed"}
              [] OTHER          -> {}]

(* The next state transition_status() persists on its way from cur to      *)
(* target: start goes through STARTING, stop through STOPPING.             *)
NextStep(cur, target) ==
  CASE target = "running"   /\ cur = "created"               -> "starting"
    [] target = "cancelled" /\ cur \in {"running", "starting"} -> "stopping"
    [] OTHER                                                  -> target

=============================================================================

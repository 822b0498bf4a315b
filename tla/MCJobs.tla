------------------------------- MODULE MCJobs -------------------------------
(***************************************************************************)
(* The two tables of background work and those who use them: the jobs of   *)
(* the job engine, and the tasks.  They share no row: one at a time moves. *)
(***************************************************************************)
EXTENDS JobStore, TaskStore, TLC

CONSTANT Parts
VARIABLE part

jobsVars == <<part, storeVars, taskVars>>

(* The table of a part that does not move is empty. *)
JobsInit ==
  /\ part \in Parts /\ Init /\ TaskInit
  /\ part = "tasks" => status = [j \in Jobs |-> Absent]

JobsNext ==
  \/ part = "jobs" /\ Next /\ UNCHANGED <<part, taskVars>>
  \/ part = "tasks" /\ TaskNext /\ UNCHANGED <<part, storeVars>>

JobsSpec == JobsInit /\ [][JobsNext]_jobsVars

(* Of the part that has by far the most states. *)
Symmetry == Permutations(Tasks) \cup Permutations(Clients)

JobsTypeOK == TypeOK /\ TaskTypeOK
=============================================================================

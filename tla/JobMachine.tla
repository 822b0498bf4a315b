----------------------------- MODULE JobMachine -----------------------------
(***************************************************************************)
(* What the job contract promises about every job, whoever moves it and    *)
(* however many writers there are: a job appears, and from then on its     *)
(* state changes one legal transition at a time.  JobStore is shown to     *)
(* implement this specification.                                           *)
(***************************************************************************)
EXTENDS JobStates

CONSTANT Jobs

VARIABLE state   \* [Jobs -> JobState \cup {Absent}]

(* Every job has no row yet or a state of the contract. *)
TypeOK == state \in [Jobs -> JobState \cup {Absent}]

Init == TypeOK

(* A row is inserted, in state CREATED. *)
Appear(j) ==
  /\ state[j] = Absent
  /\ state' = [state EXCEPT ![j] = "created"]

(* transition(): the new state is in the allowed set of the current one. *)
Move(j) ==
  /\ state[j] # Absent
  /\ \E s \in Legal[state[j]] : state' = [state EXCEPT ![j] = s]

Next == \E j \in Jobs : Appear(j) \/ Move(j)

Spec == Init /\ [][Next]_state

(* A job that ended stays exactly as it ended. *)
TerminalIsForever ==
  [][\A j \in Jobs : state[j] \in Terminal => state'[j] = state[j]]_state
=============================================================================

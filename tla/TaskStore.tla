------------------------------ MODULE TaskStore ------------------------------
(***************************************************************************)
(* Scan and intruder tasks: TaskStore (pwnproxy/services/session/store.py) *)
(* with the requests and runners of pwnproxy/transport/rest/tasks.py that  *)
(* use it.  update(), cancel(), get() and list() load a row, decide, and   *)
(* commit an UPDATE by primary key: nothing ties the commit to what was    *)
(* loaded, and other tasks run between the two.  Saving the session        *)
(* replaces the store object by a new one over the same database, which    *)
(* knows none of the running tasks.                                        *)
(***************************************************************************)
EXTENDS Naturals, FiniteSets, JobStates

CONSTANTS
  Tasks,        \* task ids
  Clients,      \* requests on existing tasks: cancel, delete, get, list
  MaxSaves,     \* bound: how often a process saves the session
  MaxRestarts   \* bound: how often the API process restarts

ASSUME TaskStoreAssumption == MaxSaves \in Nat /\ MaxRestarts \in Nat

TaskStatus == {"queued", "running", "completed", "failed", "cancelled"}
Gone == "deleted"

VARIABLES
  row,       \* [Tasks -> TaskStatus \cup {Absent, Gone}]
  old,       \* [Tasks -> BOOLEAN]: created more than STALE_TIMEOUT ago
  create,    \* [Tasks -> ...]: the POST /tasks request that creates the task
  runner,    \* [Tasks -> ...]: where _launch_task_runner() is
  pending,   \* [Tasks -> ...]: the status its update() is about to commit, or "none"
  cancelled, \* [Tasks -> BOOLEAN]: runner.cancel() was called, not delivered yet
  request,   \* [Clients -> ...]: the operation each client is in
  store,     \* the current TaskStore object, numbered
  home,      \* [Tasks -> store numbers]: whose _running_tasks holds the runner; 0: nobody's
  restarts

rows    == <<row, old>>
runners == <<runner, pending, cancelled>>
taskVars == <<rows, create, runners, request, store, home, restarts>>

NoRequest == [pc |-> "idle", tasks |-> {}, store |-> 0]

TaskInit ==
  /\ row = [t \in Tasks |-> Absent] /\ old = [t \in Tasks |-> FALSE]
  /\ create = [t \in Tasks |-> [pc |-> "none", store |-> 0]]
  /\ runner = [t \in Tasks |-> "none"]
  /\ pending = [t \in Tasks |-> "none"]
  /\ cancelled = [t \in Tasks |-> FALSE]
  /\ request = [c \in Clients |-> NoRequest]
  /\ store = 1 /\ home = [t \in Tasks |-> 0]
  /\ restarts = 0

Answered == [pc |-> "answered", store |-> 0]

Exists(t) == row[t] \in TaskStatus

(* _task_transition_legal() *)
TransitionLegal(current, new) ==
  LET cur == Resolve(current)
      next == Resolve(new)
  IN \/ cur = next
     \/ next \in Legal[cur]
     \/ cur = "created" /\ next \in {"running", "failed"}
     \/ cur = "running" /\ next = "cancelled"

-----------------------------------------------------------------------------
(* POST /tasks: create() commits the row, then track() starts the runner.  *)
CreateRow(t) ==
  /\ create[t].pc = "none"
  /\ row' = [row EXCEPT ![t] = "queued"]
  /\ create' = [create EXCEPT ![t] = [pc |-> "created", store |-> store]]
  /\ UNCHANGED <<old, runners, request, store, home, restarts>>

Track(t) ==
  /\ create[t].pc = "created"
  /\ create' = [create EXCEPT ![t] = Answered]
  /\ runner' = [runner EXCEPT ![t] = "spawned"]
  /\ home' = [home EXCEPT ![t] = create[t].store]
  /\ UNCHANGED <<rows, pending, cancelled, request, store, restarts>>

(* More than STALE_TIMEOUT passes, which only an open task shows; the POST  *)
(* was answered long before.                                                *)
Age(t) ==
  /\ row[t] \in {"queued", "running"} /\ ~old[t] /\ create[t].pc = "answered"
  /\ old' = [old EXCEPT ![t] = TRUE]
  /\ UNCHANGED <<row, create, runners, request, store, home, restarts>>

-----------------------------------------------------------------------------
(* _launch_task_runner(): update("running"), the work, update("completed"); *)
(* update("failed") on an exception, update("cancelled") when cancelled.    *)
Phases == {"starting", "working", "completing", "failing", "cancelling"}

Target(phase) ==
  CASE phase = "starting"   -> {"running"}
    [] phase = "completing" -> {"completed", "failed"}  \* failed: a finding of severity "error"
    [] phase = "failing"    -> {"failed"}
    [] phase = "cancelling" -> {"cancelled"}

After(phase) == IF phase = "starting" THEN "working" ELSE "done"

(* The first step; an unknown type or an engine that is missing fails, and  *)
(* a task cancelled before it never enters its body.                        *)
RunnerEnter(t) ==
  /\ runner[t] = "spawned"
  /\ IF cancelled[t]
       THEN runner' = [runner EXCEPT ![t] = "done"]
       ELSE \E phase \in {"starting", "failing"} : runner' = [runner EXCEPT ![t] = phase]
  /\ cancelled' = [cancelled EXCEPT ![t] = FALSE]
  /\ UNCHANGED <<rows, create, pending, request, store, home, restarts>>

(* update(), to the await of its commit: a row that is gone or a move that  *)
(* is not legal make it return, and its caller goes on.                     *)
RunnerLoad(t) ==
  /\ runner[t] \in Phases \ {"working"} /\ pending[t] = "none" /\ ~cancelled[t]
  /\ \E new \in Target(runner[t]) :
       IF Exists(t) /\ TransitionLegal(row[t], new)
         THEN /\ pending' = [pending EXCEPT ![t] = IF row[t] = new THEN "no change" ELSE new]
              /\ UNCHANGED runner
         ELSE /\ runner' = [runner EXCEPT ![t] = After(runner[t])]
              /\ UNCHANGED pending
  /\ UNCHANGED <<rows, create, cancelled, request, store, home, restarts>>

(* The UPDATE writes the status only if it differs from what was loaded.   *)
Written(t, new) == IF new = "no change" THEN row ELSE [row EXCEPT ![t] = new]

(* The commit of update(), which raises if the row is gone. *)
RunnerCommit(t) ==
  /\ pending[t] # "none" /\ ~cancelled[t]
  /\ pending' = [pending EXCEPT ![t] = "none"]
  /\ IF Exists(t)
       THEN /\ row' = Written(t, pending[t])
            /\ runner' = [runner EXCEPT ![t] = After(runner[t])]
       ELSE /\ runner' = [runner EXCEPT ![t] =
                 IF runner[t] \in {"failing", "cancelling"} THEN "done" ELSE "failing"]
            /\ UNCHANGED row
  /\ UNCHANGED <<old, create, cancelled, request, store, home, restarts>>

(* The work ends, or raises. *)
RunnerWorks(t) ==
  /\ runner[t] = "working" /\ ~cancelled[t]
  /\ \E phase \in {"completing", "failing"} : runner' = [runner EXCEPT ![t] = phase]
  /\ UNCHANGED <<rows, create, pending, cancelled, request, store, home, restarts>>

(* CancelledError at an await of the body; a commit under way may or may    *)
(* not have reached the database.  In a handler nothing catches it.         *)
RunnerCancelled(t) ==
  /\ cancelled[t] /\ runner[t] \in Phases
  /\ cancelled' = [cancelled EXCEPT ![t] = FALSE]
  /\ pending' = [pending EXCEPT ![t] = "none"]
  /\ row' \in {row, IF pending[t] # "none" /\ Exists(t) THEN Written(t, pending[t]) ELSE row}
  /\ runner' = [runner EXCEPT ![t] =
       IF @ \in {"starting", "working", "completing"} THEN "cancelling" ELSE "done"]
  /\ UNCHANGED <<old, create, request, store, home, restarts>>

-----------------------------------------------------------------------------
(* cancel(), up to its commit; a task already cancelled is "cancelled" again. *)
CancelLoad(c, t) ==
  /\ request[c].pc = "idle" /\ Exists(t)
  /\ TransitionLegal(row[t], "cancelled")
  /\ request' = [request EXCEPT ![c] =
       [pc |-> IF row[t] = "cancelled" THEN "cancel again" ELSE "cancel",
        tasks |-> {t}, store |-> store]]
  /\ UNCHANGED <<rows, create, runners, store, home, restarts>>

CancelCommit(c) ==
  /\ request[c].pc \in {"cancel", "cancel again"}
  /\ \E t \in request[c].tasks :
       IF Exists(t)
         THEN /\ row' = IF request[c].pc = "cancel" THEN [row EXCEPT ![t] = "cancelled"] ELSE row
              /\ request' = [request EXCEPT ![c].pc = "stop runner"]
         ELSE /\ request' = [request EXCEPT ![c] = NoRequest]
              /\ UNCHANGED row
  /\ UNCHANGED <<old, create, runners, store, home, restarts>>

(* delete(): the runner is stopped even if the row was gone already. *)
Delete(c, t) ==
  /\ request[c].pc = "idle" /\ row[t] # Absent
  /\ row' = [row EXCEPT ![t] = Gone]
  /\ request' = [request EXCEPT ![c] = [pc |-> "stop runner", tasks |-> {t}, store |-> store]]
  /\ UNCHANGED <<old, create, runners, store, home, restarts>>

(* Mutant: the runner is cancelled, and stays tracked. *)
StopRunnerKeepsTrack(c) ==
  /\ request[c].pc = "stop runner"
  /\ \E t \in request[c].tasks :
       cancelled' = [cancelled EXCEPT ![t] = home[t] = request[c].store /\ runner[t] # "done"]
  /\ request' = [request EXCEPT ![c] = NoRequest]
  /\ UNCHANGED <<rows, create, runner, pending, store, home, restarts>>

(* The runner is popped from the store's _running_tasks and cancelled.      *)
StopRunner(c) ==
  /\ request[c].pc = "stop runner"
  /\ \E t \in request[c].tasks :
       IF home[t] = request[c].store
         THEN /\ home' = [home EXCEPT ![t] = 0]
              /\ cancelled' = [cancelled EXCEPT ![t] = runner[t] # "done"]
         ELSE UNCHANGED <<home, cancelled>>
  /\ request' = [request EXCEPT ![c] = NoRequest]
  /\ UNCHANGED <<rows, create, runner, pending, store, restarts>>

-----------------------------------------------------------------------------
(* Mutant: only the age counts. *)
StaleByAge(t, asked) == row[t] \in {"queued", "running"} /\ old[t]

(* get() and list(): tasks that are old and that the store does not run are *)
(* failed, all in one commit.  asked is the store the poll goes to.         *)
Stale(t, asked) == row[t] \in {"queued", "running"} /\ old[t] /\ home[t] # asked

(* The task requests ask the current store; GET /workers asks the one that  *)
(* was current when the API process started.                                *)
Poll(c, polled, asked) ==
  /\ request[c].pc = "idle"
  /\ {t \in polled : Stale(t, asked)} # {}
  /\ request' = [request EXCEPT ![c] =
       [pc |-> "fail stale", tasks |-> {t \in polled : Stale(t, asked)}, store |-> asked]]
  /\ UNCHANGED <<rows, create, runners, store, home, restarts>>

FailStale(c) ==
  /\ request[c].pc = "fail stale"
  /\ row' = IF \A t \in request[c].tasks : Exists(t)
              THEN [t \in Tasks |-> IF t \in request[c].tasks THEN "failed" ELSE row[t]]
              ELSE row
  /\ request' = [request EXCEPT ![c] = NoRequest]
  /\ UNCHANGED <<old, create, runners, store, home, restarts>>

-----------------------------------------------------------------------------
(* SessionManager.save(), every auto-save included. *)
SaveSession ==
  /\ store <= MaxSaves
  /\ store' = store + 1
  /\ UNCHANGED <<rows, create, runners, request, home, restarts>>

(* The API process ends and starts again: the rows are what is left. *)
Restart ==
  /\ restarts < MaxRestarts /\ restarts' = restarts + 1
  /\ create' = [t \in Tasks |-> IF create[t].pc = "none" THEN create[t] ELSE Answered]
  /\ runner' = [t \in Tasks |-> IF runner[t] = "none" THEN "none" ELSE "done"]
  /\ pending' = [t \in Tasks |-> "none"] /\ cancelled' = [t \in Tasks |-> FALSE]
  /\ request' = [c \in Clients |-> NoRequest]
  /\ store' = 1 /\ home' = [t \in Tasks |-> 0]
  /\ UNCHANGED rows

TaskNext ==
  \/ \E t \in Tasks : \/ CreateRow(t) \/ Track(t) \/ Age(t)
                      \/ RunnerEnter(t) \/ RunnerLoad(t) \/ RunnerCommit(t)
                      \/ RunnerWorks(t) \/ RunnerCancelled(t)
  \/ \E c \in Clients, t \in Tasks : CancelLoad(c, t) \/ Delete(c, t)
  \/ \E c \in Clients, polled \in SUBSET Tasks, asked \in {1, store} : Poll(c, polled, asked)
  \/ \E c \in Clients : CancelCommit(c) \/ StopRunner(c) \/ FailStale(c)
  \/ SaveSession \/ Restart

TaskSpec == TaskInit /\ [][TaskNext]_taskVars

-----------------------------------------------------------------------------
Stores == 0 .. (MaxSaves + 1)

RequestType ==
  {NoRequest} \cup [pc : {"cancel", "cancel again", "stop runner", "fail stale"},
                   tasks : SUBSET Tasks, store : Stores \ {0}]

(* Type correctness of the table, the runners and the requests on them.    *)
TaskTypeOK ==
  /\ row \in [Tasks -> TaskStatus \cup {Absent, Gone}]
  /\ old \in [Tasks -> BOOLEAN]
  /\ create \in [Tasks -> [pc : {"none", "created", "answered"}, store : Stores]]
  /\ runner \in [Tasks -> Phases \cup {"none", "spawned", "done"}]
  /\ pending \in [Tasks -> TaskStatus \cup {"none", "no change"}]
  /\ cancelled \in [Tasks -> BOOLEAN]
  /\ request \in [Clients -> RequestType]
  /\ store \in Stores \ {0}
  /\ home \in [Tasks -> Stores]
  /\ restarts \in 0 .. MaxRestarts

(* A task whose runner is through is ended, or is one the current store    *)
(* does not track, so that a poll will fail it once it is old: a runner    *)
(* cancelled in its own exception handler, by a cancel() its first commit  *)
(* overwrote, a save of the session and a restart all leave only such.     *)
OpenTaskIsRunOrFound ==
  \A t \in Tasks :
    runner[t] = "done" /\ row[t] \in {"queued", "running"} => home[t] # store

(* A poll never declares stale a task whose runner is alive, provided the   *)
(* store it asks is the one that tracks the runner (after a save of the     *)
(* session it is not).                                                      *)
KnownRunnerNeverStale ==
  [][\A c \in Clients, t \in Tasks :
        FailStale(c) /\ row[t] # row'[t]
        => runner[t] \in {"none", "done"} \/ home[t] # request[c].store]_taskVars

(* store.py: "Terminal statuses accept no outgoing transitions." *)
TerminalAcceptsNoTransition ==
  [][\A t \in Tasks :
        row[t] \in Terminal /\ row'[t] \in TaskStatus => row'[t] = row[t]]_taskVars
=============================================================================

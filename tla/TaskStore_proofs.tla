-------------------------- MODULE TaskStore_proofs --------------------------
(***************************************************************************)
(* Proofs about TaskStore, for any tasks and clients and any number of     *)
(* saves and restarts: the type of its state, and that a task whose runner *)
(* is through is ended or will be found by a poll.  At the end, the two    *)
(* tables together.                                                        *)
(***************************************************************************)
EXTENDS MCJobs, JobStore_proofs

Open == {"queued", "running"}

(* How far a task, its runner and its tracking are from each other:        *)
(* - nothing runs before track(), nothing is pending outside an update();  *)
(* - a runner that was cancelled is not tracked any more;                  *)
(* - a task past its update("running") is not queued, and an update() that *)
(*   changes nothing found the status it was asked for;                    *)
(* - a runner that is through has left no open task that is tracked.       *)
InOrder(t) ==
  /\ create[t].pc \in {"none", "created"} => runner[t] = "none"
  /\ runner[t] \in {"none", "spawned", "working", "done"} => pending[t] = "none"
  /\ runner[t] = "none" => ~cancelled[t] /\ home[t] = 0
  /\ home[t] <= store /\ create[t].store <= store
  /\ create[t].pc = "none" => create[t].store = 0
  /\ cancelled[t] \/ runner[t] = "cancelling" => home[t] = 0
  /\ runner[t] \in {"working", "completing"} => row[t] # "queued"
  /\ pending[t] = "no change" =>
       row[t] # "queued" /\ (runner[t] # "starting" => row[t] # "running")
  /\ pending[t] \in Open => runner[t] = "starting" /\ pending[t] = "running"
  /\ runner[t] = "done" /\ row[t] \in Open => home[t] # store

TasksInOrder == \A t \in Tasks : InOrder(t)

TaskInv == TaskTypeOK /\ TasksInOrder

-----------------------------------------------------------------------------
(* update() refuses no move a runner asks of an open task, but for one that *)
(* has not been set to running.                                            *)
LEMMA OpenMayMove ==
  /\ TransitionLegal("queued", "running") /\ TransitionLegal("queued", "failed")
  /\ TransitionLegal("running", "completed") /\ TransitionLegal("running", "failed")
  /\ TransitionLegal("running", "running")
BY DEF TransitionLegal, Resolve, Legal, JobState

(* Stores are numbered from 1; 0 stands for none. *)
LEMMA TaskBounds == MaxSaves \in Nat /\ MaxRestarts \in Nat
BY TaskStoreAssumption

LEMMA StoreNumbers ==
  /\ 0 \in Stores /\ 1 \in Stores \ {0} /\ Stores \subseteq Nat
  /\ \A s \in Stores : s <= MaxSaves => s + 1 \in Stores \ {0}
BY TaskBounds DEF Stores

LEMMA TaskTypes ==
  ASSUME TaskTypeOK, NEW t \in Tasks
  PROVE  /\ store \in Stores /\ store \in Nat \ {0}
         /\ home[t] \in Nat /\ create[t].store \in Nat
BY StoreNumbers DEF TaskTypeOK

(* What is not touched keeps its order. *)
LEMMA UntouchedInOrder ==
  ASSUME NEW u \in Tasks, InOrder(u),
         row'[u] = row[u], create'[u] = create[u], runner'[u] = runner[u],
         pending'[u] = pending[u], cancelled'[u] = cancelled[u],
         home'[u] = home[u], store' = store
  PROVE  InOrder(u)'
BY DEF InOrder

(* Moves that touch one task only. *)
LEMMA OneTaskInOrder ==
  ASSUME TasksInOrder, NEW t \in Tasks, InOrder(t)', store' = store,
         \A u \in Tasks \ {t} :
           /\ row'[u] = row[u] /\ create'[u] = create[u] /\ runner'[u] = runner[u]
           /\ pending'[u] = pending[u] /\ cancelled'[u] = cancelled[u] /\ home'[u] = home[u]
  PROVE  TasksInOrder'
BY UntouchedInOrder DEF TasksInOrder

(* Requests: they end tasks, or remove them. *)
LEMMA EndedInOrder ==
  ASSUME NEW t \in Tasks, InOrder(t), row'[t] \notin Open,
         create'[t] = create[t], runner'[t] = runner[t], pending'[t] = pending[t],
         cancelled'[t] = cancelled[t], home'[t] = home[t], store' = store
  PROVE  InOrder(t)'
BY DEF InOrder, Open

-----------------------------------------------------------------------------
LEMMA CreateRowInvariant ==
  ASSUME TaskInv, NEW t \in Tasks, CreateRow(t)
  PROVE  TaskInv'
<1>1. TaskTypeOK /\ TasksInOrder
  BY DEF TaskInv
<1>2. TaskTypeOK'
  BY <1>1, StoreNumbers DEF TaskTypeOK, CreateRow, runners, TaskStatus
<1>3. InOrder(t)'
  <2>1. /\ InOrder(t) /\ create[t].pc = "none" /\ store \in Nat \ {0} /\ home[t] \in Nat
    BY <1>1, TaskTypes DEF CreateRow, TasksInOrder
  <2>2. store <= store
    BY <2>1
  <2>3. create'[t].pc = "created" /\ create'[t].store \in Nat /\ create'[t].store <= store
    BY <1>1, <2>1, <2>2 DEF TaskTypeOK, CreateRow
  <2>4. UNCHANGED <<runner, pending, cancelled, store, home>>
    BY DEF CreateRow, runners
  <2> QED
    BY <2>1, <2>3, <2>4 DEF InOrder, Open
<1>4. TasksInOrder'
  BY <1>1, <1>3, OneTaskInOrder DEF TaskTypeOK, CreateRow, runners
<1> QED
  BY <1>2, <1>4 DEF TaskInv

LEMMA TrackInvariant ==
  ASSUME TaskInv, NEW t \in Tasks, Track(t)
  PROVE  TaskInv'
<1>1. TaskTypeOK /\ TasksInOrder
  BY DEF TaskInv
<1>2. TaskTypeOK'
  BY <1>1, StoreNumbers DEF TaskTypeOK, Track, rows, Answered
<1>3. InOrder(t)'
  <2>1. /\ InOrder(t) /\ create[t].pc = "created" /\ store \in Nat \ {0}
        /\ create'[t].pc = "answered" /\ create'[t].store \in Nat /\ create'[t].store <= store
        /\ runner'[t] = "spawned" /\ home'[t] \in Nat /\ home'[t] <= store
        /\ runner[t] = "none" /\ ~cancelled[t] /\ pending[t] = "none"
    BY <1>1, TaskTypes DEF TaskTypeOK, Track, Answered, TasksInOrder, InOrder
  <2>2. UNCHANGED <<row, pending, cancelled, store>>
    BY DEF Track, rows
  <2> QED
    BY <2>1, <2>2 DEF InOrder, Open
<1>4. TasksInOrder'
  BY <1>1, <1>3, OneTaskInOrder DEF TaskTypeOK, Track, rows
<1> QED
  BY <1>2, <1>4 DEF TaskInv

LEMMA AgeInvariant ==
  ASSUME TaskInv, NEW t \in Tasks, Age(t)
  PROVE  TaskInv'
<1>1. TaskTypeOK /\ TasksInOrder
  BY DEF TaskInv
<1>2. TaskTypeOK'
  BY <1>1 DEF TaskTypeOK, Age, runners
<1>3. TasksInOrder'
  BY <1>1 DEF Age, runners, TasksInOrder, InOrder
<1> QED
  BY <1>2, <1>3 DEF TaskInv

LEMMA RunnerEnterInvariant ==
  ASSUME TaskInv, NEW t \in Tasks, RunnerEnter(t)
  PROVE  TaskInv'
<1>1. TaskTypeOK /\ TasksInOrder
  BY DEF TaskInv
<1>2. PICK next \in {"done", "starting", "failing"} :
        /\ runner' = [runner EXCEPT ![t] = next] /\ (next = "done" => cancelled[t])
        /\ runner[t] = "spawned" /\ cancelled' = [cancelled EXCEPT ![t] = FALSE]
        /\ UNCHANGED <<rows, create, pending, request, store, home, restarts>>
  BY DEF RunnerEnter
<1>3. TaskTypeOK'
  BY <1>1, <1>2 DEF TaskTypeOK, rows, Phases
<1>4. InOrder(t)'
  BY <1>1, <1>2 DEF TaskTypeOK, rows, TasksInOrder, InOrder, Open
<1>5. TasksInOrder'
  BY <1>1, <1>2, <1>4, OneTaskInOrder DEF TaskTypeOK, rows
<1> QED
  BY <1>3, <1>5 DEF TaskInv

LEMMA RunnerWorksInvariant ==
  ASSUME TaskInv, NEW t \in Tasks, RunnerWorks(t)
  PROVE  TaskInv'
<1>1. TaskTypeOK /\ TasksInOrder
  BY DEF TaskInv
<1>2. PICK next \in {"completing", "failing"} :
        /\ runner' = [runner EXCEPT ![t] = next] /\ runner[t] = "working"
        /\ UNCHANGED <<rows, create, pending, cancelled, request, store, home, restarts>>
  BY DEF RunnerWorks
<1>3. TaskTypeOK'
  BY <1>1, <1>2 DEF TaskTypeOK, rows, Phases
<1>4. InOrder(t)'
  BY <1>1, <1>2 DEF TaskTypeOK, rows, TasksInOrder, InOrder, Open
<1>5. TasksInOrder'
  BY <1>1, <1>2, <1>4, OneTaskInOrder DEF TaskTypeOK, rows
<1> QED
  BY <1>3, <1>5 DEF TaskInv

(* The moves a runner asks for. *)
LEMMA TargetType ==
  ASSUME NEW phase \in {"starting", "completing", "failing", "cancelling"},
         NEW new \in Target(phase)
  PROVE  /\ new \in TaskStatus
         /\ phase = "starting" => new = "running"
         /\ phase # "starting" => new \in Terminal
BY DEF Target, TaskStatus, Terminal

LEMMA RunnerLoadInvariant ==
  ASSUME TaskInv, NEW t \in Tasks, RunnerLoad(t)
  PROVE  TaskInv'
<1>1. TaskTypeOK /\ TasksInOrder
  BY DEF TaskInv
<1>2. /\ runner[t] \in {"starting", "completing", "failing", "cancelling"}
      /\ pending[t] = "none" /\ ~cancelled[t]
      /\ UNCHANGED <<rows, create, cancelled, request, store, home, restarts>>
  BY DEF RunnerLoad, Phases
<1>3. PICK new \in Target(runner[t]) :
        IF Exists(t) /\ TransitionLegal(row[t], new)
          THEN /\ pending' = [pending EXCEPT ![t] = IF row[t] = new THEN "no change" ELSE new]
               /\ UNCHANGED runner
          ELSE /\ runner' = [runner EXCEPT ![t] = After(runner[t])]
               /\ UNCHANGED pending
  BY DEF RunnerLoad
<1>4. /\ new \in TaskStatus
      /\ runner[t] = "starting" => new = "running"
      /\ runner[t] # "starting" => new \in Terminal
  BY <1>2, <1>3, TargetType
<1>5. CASE Exists(t) /\ TransitionLegal(row[t], new)
  <2> DEFINE write == IF row[t] = new THEN "no change" ELSE new
  <2>1. pending' = [pending EXCEPT ![t] = write] /\ runner' = runner
    BY <1>3, <1>5
  <2>2. /\ write \in TaskStatus \cup {"no change"}
        /\ write = "no change" => row[t] = new
        /\ write # "no change" => write = new
    BY <1>4 DEF TaskStatus
  <2> HIDE DEF write
  <2>3. TaskTypeOK'
    BY <1>1, <1>2, <2>1, <2>2 DEF TaskTypeOK, rows
  <2>4. pending'[t] = write /\ InOrder(t) /\ \A u \in Tasks \ {t} : pending'[u] = pending[u]
    BY <1>1, <2>1 DEF TaskTypeOK, TasksInOrder
  <2>5. InOrder(t)'
    BY <1>2, <1>4, <2>1, <2>2, <2>4 DEF rows, InOrder, Open, Terminal, TaskStatus
  <2>6. TasksInOrder'
    BY <1>1, <1>2, <2>1, <2>4, <2>5, OneTaskInOrder DEF rows
  <2> QED
    BY <2>3, <2>6 DEF TaskInv
<1>6. CASE ~(Exists(t) /\ TransitionLegal(row[t], new))
  <2>1. runner' = [runner EXCEPT ![t] = After(runner[t])] /\ pending' = pending
    BY <1>3, <1>6
  <2>2. /\ After(runner[t]) \in {"working", "done"}
        /\ After(runner[t]) = "working" <=> runner[t] = "starting"
    BY DEF After
  <2>3. TaskTypeOK'
    BY <1>1, <1>2, <2>1, <2>2 DEF TaskTypeOK, rows, Phases
  <2>4. /\ runner'[t] = After(runner[t]) /\ InOrder(t)
        /\ \A u \in Tasks \ {t} : runner'[u] = runner[u]
    BY <1>1, <2>1 DEF TaskTypeOK, TasksInOrder
  <2>5. home[t] \in Nat /\ store \in Nat \ {0}
    BY <1>1, StoreNumbers DEF TaskTypeOK
  <2>6. runner[t] = "starting" => row[t] # "queued"
    BY <1>4, <1>6, OpenMayMove DEF Exists, TaskStatus
  <2>7. runner[t] \in {"completing", "failing"} => row[t] \notin Open
    <3>1. runner[t] = "completing" => new \in {"completed", "failed"}
      BY <1>3 DEF Target
    <3>2. runner[t] = "failing" => new = "failed"
      BY <1>3 DEF Target
    <3>3. runner[t] = "completing" => row[t] # "queued"
      BY <2>4 DEF InOrder
    <3> QED
      BY <1>6, <3>1, <3>2, <3>3, OpenMayMove DEF Exists, TaskStatus, Open
  <2>8. InOrder(t)'
    BY <1>2, <2>1, <2>2, <2>4, <2>5, <2>6, <2>7 DEF rows, InOrder
  <2>9. TasksInOrder'
    BY <1>1, <1>2, <2>1, <2>4, <2>8, OneTaskInOrder DEF rows
  <2> QED
    BY <2>3, <2>9 DEF TaskInv
<1> QED
  BY <1>5, <1>6

(* What a commit writes. *)
LEMMA WrittenRow ==
  ASSUME TaskTypeOK, NEW t \in Tasks, pending[t] # "none",
         NEW r, r = Written(t, pending[t])
  PROVE  /\ r \in [Tasks -> TaskStatus \cup {Absent, Gone}]
         /\ \A u \in Tasks \ {t} : r[u] = row[u]
         /\ r[t] = IF pending[t] = "no change" THEN row[t] ELSE pending[t]
<1>1. CASE pending[t] = "no change"
  BY <1>1 DEF Written, TaskTypeOK
<1>2. CASE pending[t] # "no change"
  BY <1>2 DEF Written, TaskTypeOK
<1> QED
  BY <1>1, <1>2

LEMMA RunnerCommitInvariant ==
  ASSUME TaskInv, NEW t \in Tasks, RunnerCommit(t)
  PROVE  TaskInv'
<1>1. TaskTypeOK /\ TasksInOrder
  BY DEF TaskInv
<1>2. /\ pending[t] # "none" /\ ~cancelled[t]
      /\ pending' = [pending EXCEPT ![t] = "none"]
      /\ UNCHANGED <<old, create, cancelled, request, store, home, restarts>>
  BY DEF RunnerCommit
<1>3. /\ InOrder(t) /\ pending'[t] = "none" /\ \A u \in Tasks \ {t} : pending'[u] = pending[u]
      /\ runner[t] \in {"starting", "completing", "failing", "cancelling"}
      /\ home[t] \in Nat /\ store \in Nat \ {0}
      /\ pending[t] \in TaskStatus \cup {"no change"}
  BY <1>1, <1>2, StoreNumbers DEF TaskTypeOK, TasksInOrder, InOrder, Phases
<1>4. CASE Exists(t)
  <2>1. row' = Written(t, pending[t]) /\ runner' = [runner EXCEPT ![t] = After(runner[t])]
    BY <1>4 DEF RunnerCommit
  <2>2. /\ row' \in [Tasks -> TaskStatus \cup {Absent, Gone}]
        /\ \A u \in Tasks \ {t} : row'[u] = row[u]
        /\ row'[t] = IF pending[t] = "no change" THEN row[t] ELSE pending[t]
    BY <1>1, <1>2, <2>1, WrittenRow
  <2>3. /\ After(runner[t]) \in {"working", "done"}
        /\ After(runner[t]) = "working" <=> runner[t] = "starting"
    BY DEF After
  <2>4. TaskTypeOK'
    BY <1>1, <1>2, <2>1, <2>2, <2>3 DEF TaskTypeOK, Phases
  <2>5. runner'[t] = After(runner[t]) /\ \A u \in Tasks \ {t} : runner'[u] = runner[u]
    BY <1>1, <2>1 DEF TaskTypeOK
  <2>6. row'[t] # "queued" /\ (runner[t] # "starting" => row'[t] # "running")
    BY <1>3, <2>2 DEF InOrder, Open
  <2>7. InOrder(t)'
    BY <1>2, <1>3, <2>3, <2>5, <2>6 DEF InOrder, Open
  <2>8. TasksInOrder'
    BY <1>1, <1>2, <1>3, <2>2, <2>5, <2>7, OneTaskInOrder
  <2> QED
    BY <2>4, <2>8 DEF TaskInv
<1>5. CASE ~Exists(t)
  <2>1. PICK next \in {"done", "failing"} : runner' = [runner EXCEPT ![t] = next] /\ row' = row
    BY <1>5 DEF RunnerCommit
  <2>2. row[t] \notin Open
    BY <1>5 DEF Exists, TaskStatus, Open
  <2>3. TaskTypeOK'
    BY <1>1, <1>2, <2>1 DEF TaskTypeOK, Phases
  <2>4. runner'[t] = next /\ \A u \in Tasks \ {t} : runner'[u] = runner[u]
    BY <1>1, <2>1 DEF TaskTypeOK
  <2>5. InOrder(t)'
    BY <1>2, <1>3, <2>1, <2>2, <2>4 DEF InOrder, Open
  <2>6. TasksInOrder'
    BY <1>1, <1>2, <1>3, <2>1, <2>4, <2>5, OneTaskInOrder
  <2> QED
    BY <2>3, <2>6 DEF TaskInv
<1> QED
  BY <1>4, <1>5

LEMMA RunnerCancelledInvariant ==
  ASSUME TaskInv, NEW t \in Tasks, RunnerCancelled(t)
  PROVE  TaskInv'
<1>1. TaskTypeOK /\ TasksInOrder
  BY DEF TaskInv
<1>2. /\ cancelled[t] /\ runner[t] \in Phases
      /\ cancelled' = [cancelled EXCEPT ![t] = FALSE]
      /\ pending' = [pending EXCEPT ![t] = "none"]
      /\ UNCHANGED <<old, create, request, store, home, restarts>>
  BY DEF RunnerCancelled
<1>3. /\ row' \in [Tasks -> TaskStatus \cup {Absent, Gone}]
      /\ \A u \in Tasks \ {t} : row'[u] = row[u]
  <2>1. CASE row' = row
    BY <1>1, <2>1 DEF TaskTypeOK
  <2>2. CASE pending[t] # "none" /\ row' = Written(t, pending[t])
    BY ZenonT(30), <1>1, <2>2, WrittenRow
  <2> QED
    BY <2>1, <2>2 DEF RunnerCancelled
<1>4. PICK next \in {"cancelling", "done"} : runner' = [runner EXCEPT ![t] = next]
  BY DEF RunnerCancelled
<1>5. TaskTypeOK'
  BY <1>1, <1>2, <1>3, <1>4 DEF TaskTypeOK, Phases
<1>6. /\ runner'[t] = next /\ pending'[t] = "none" /\ ~cancelled'[t]
      /\ \A u \in Tasks \ {t} : runner'[u] = runner[u] /\ pending'[u] = pending[u]
                                /\ cancelled'[u] = cancelled[u]
  BY <1>1, <1>2, <1>4 DEF TaskTypeOK
<1>7. InOrder(t) /\ store \in Nat \ {0}
  BY <1>1, StoreNumbers DEF TaskTypeOK, TasksInOrder
<1>8. InOrder(t)'
  BY <1>2, <1>6, <1>7 DEF InOrder, Open, Phases
<1>9. TasksInOrder'
  BY <1>1, <1>2, <1>3, <1>6, <1>8, OneTaskInOrder
<1> QED
  BY <1>5, <1>9 DEF TaskInv

-----------------------------------------------------------------------------
LEMMA NoRequestType == NoRequest \in RequestType
BY DEF RequestType

LEMMA RequestFields ==
  ASSUME NEW r \in RequestType, r.pc # "idle"
  PROVE  /\ r.tasks \in SUBSET Tasks /\ r.store # 0
         /\ [r EXCEPT !.pc = "stop runner"] \in RequestType
<1>1. r # NoRequest
  BY DEF NoRequest
<1>2. r \in [pc : {"cancel", "cancel again", "stop runner", "fail stale"},
             tasks : SUBSET Tasks, store : Stores \ {0}]
  BY <1>1 DEF RequestType
<1>3. [r EXCEPT !.pc = "stop runner"] \in
        [pc : {"cancel", "cancel again", "stop runner", "fail stale"},
         tasks : SUBSET Tasks, store : Stores \ {0}]
  BY <1>2
<1> QED
  BY <1>2, <1>3 DEF RequestType

(* A step that only moves a request. *)
LEMMA RequestMoves ==
  ASSUME TaskInv, NEW c \in Clients, NEW r \in RequestType,
         request' = [request EXCEPT ![c] = r],
         UNCHANGED <<rows, create, runners, store, home, restarts>>
  PROVE  TaskInv'
<1>1. TaskTypeOK /\ TasksInOrder
  BY DEF TaskInv
<1>2. TaskTypeOK'
  BY <1>1 DEF TaskTypeOK, rows, runners, RequestType
<1>3. TasksInOrder'
  BY <1>1 DEF rows, runners, TasksInOrder, InOrder
<1> QED
  BY <1>2, <1>3 DEF TaskInv

(* A step that moves a request, and ends or removes tasks. *)
LEMMA RequestEnds ==
  ASSUME TaskInv, NEW c \in Clients, NEW r \in RequestType,
         request' = [request EXCEPT ![c] = r],
         row' \in [Tasks -> TaskStatus \cup {Absent, Gone}],
         \A u \in Tasks : row'[u] = row[u] \/ row'[u] \notin Open,
         UNCHANGED <<old, create, runners, store, home, restarts>>
  PROVE  TaskInv'
<1>1. TaskTypeOK /\ TasksInOrder
  BY DEF TaskInv
<1>2. TaskTypeOK'
  BY <1>1 DEF TaskTypeOK, runners, RequestType
<1>3. \A u \in Tasks : InOrder(u)'
  <2> SUFFICES ASSUME NEW u \in Tasks PROVE InOrder(u)'
    OBVIOUS
  <2>1. /\ InOrder(u) /\ create'[u] = create[u] /\ runner'[u] = runner[u]
        /\ pending'[u] = pending[u] /\ cancelled'[u] = cancelled[u]
        /\ home'[u] = home[u] /\ store' = store
    BY <1>1 DEF TasksInOrder, runners
  <2>2. CASE row'[u] = row[u]
    BY <2>1, <2>2, UntouchedInOrder
  <2>3. CASE row'[u] \notin Open
    BY <2>1, <2>3, EndedInOrder
  <2> QED
    BY <2>2, <2>3
<1> QED
  BY <1>2, <1>3 DEF TaskInv, TasksInOrder

LEMMA CancelLoadInvariant ==
  ASSUME TaskInv, NEW c \in Clients, NEW t \in Tasks, CancelLoad(c, t)
  PROVE  TaskInv'
<1> DEFINE r == [pc |-> IF row[t] = "cancelled" THEN "cancel again" ELSE "cancel",
                 tasks |-> {t}, store |-> store]
<1>1. store \in Stores \ {0}
  BY DEF TaskInv, TaskTypeOK
<1>2. r \in RequestType
  BY <1>1 DEF RequestType
<1>3. /\ request' = [request EXCEPT ![c] = r]
      /\ UNCHANGED <<rows, create, runners, store, home, restarts>>
  BY DEF CancelLoad
<1> HIDE DEF r
<1> QED
  BY <1>2, <1>3, RequestMoves

LEMMA CancelCommitInvariant ==
  ASSUME TaskInv, NEW c \in Clients, CancelCommit(c)
  PROVE  TaskInv'
<1>1. /\ row \in [Tasks -> TaskStatus \cup {Absent, Gone}]
      /\ request[c] \in RequestType /\ request[c].pc # "idle"
  BY DEF TaskInv, TaskTypeOK, CancelCommit
<1>2. PICK t \in request[c].tasks :
       IF Exists(t)
         THEN /\ row' = IF request[c].pc = "cancel" THEN [row EXCEPT ![t] = "cancelled"] ELSE row
              /\ request' = [request EXCEPT ![c].pc = "stop runner"]
         ELSE /\ request' = [request EXCEPT ![c] = NoRequest]
              /\ UNCHANGED row
  BY DEF CancelCommit
<1>3. t \in Tasks
  BY <1>1, RequestFields
<1>4. UNCHANGED <<old, create, runners, store, home, restarts>>
  BY DEF CancelCommit
<1>5. /\ row' \in [Tasks -> TaskStatus \cup {Absent, Gone}]
      /\ \A u \in Tasks : row'[u] = row[u] \/ row'[u] \notin Open
  <2>1. row' = row \/ row' = [row EXCEPT ![t] = "cancelled"]
    BY <1>2
  <2> QED
    BY <1>1, <1>3, <2>1 DEF TaskStatus, Open
<1>6. PICK r \in RequestType : request' = [request EXCEPT ![c] = r]
  <2> DEFINE stop == [request[c] EXCEPT !.pc = "stop runner"]
  <2>1. stop \in RequestType
    BY <1>1, RequestFields
  <2>2. request' = [request EXCEPT ![c] = stop] \/ request' = [request EXCEPT ![c] = NoRequest]
    BY <1>2
  <2> HIDE DEF stop
  <2> QED
    BY <2>1, <2>2, NoRequestType
<1> QED
  BY <1>4, <1>5, <1>6, RequestEnds

LEMMA DeleteInvariant ==
  ASSUME TaskInv, NEW c \in Clients, NEW t \in Tasks, Delete(c, t)
  PROVE  TaskInv'
<1> DEFINE r == [pc |-> "stop runner", tasks |-> {t}, store |-> store]
<1>1. store \in Stores \ {0}
  BY DEF TaskInv, TaskTypeOK
<1>2. r \in RequestType
  BY <1>1 DEF RequestType
<1>3. /\ row' = [row EXCEPT ![t] = Gone] /\ request' = [request EXCEPT ![c] = r]
      /\ UNCHANGED <<old, create, runners, store, home, restarts>>
  BY DEF Delete
<1> HIDE DEF r
<1>4. /\ row' \in [Tasks -> TaskStatus \cup {Absent, Gone}]
      /\ \A u \in Tasks : row'[u] = row[u] \/ row'[u] \notin Open
  BY <1>3 DEF TaskInv, TaskTypeOK, Gone, Open
<1> QED
  BY <1>2, <1>3, <1>4, RequestEnds

LEMMA StopRunnerInvariant ==
  ASSUME TaskInv, NEW c \in Clients, StopRunner(c)
  PROVE  TaskInv'
<1>1. /\ TaskTypeOK /\ TasksInOrder
      /\ request[c] \in RequestType /\ request[c].pc # "idle"
  BY DEF TaskInv, TaskTypeOK, StopRunner
<1>2. PICK t \in request[c].tasks :
       IF home[t] = request[c].store
         THEN /\ home' = [home EXCEPT ![t] = 0]
              /\ cancelled' = [cancelled EXCEPT ![t] = runner[t] # "done"]
         ELSE UNCHANGED <<home, cancelled>>
  BY DEF StopRunner
<1>3. t \in Tasks
  BY <1>1, RequestFields
<1>4. /\ request' = [request EXCEPT ![c] = NoRequest]
      /\ UNCHANGED <<rows, create, runner, pending, store, restarts>>
  BY DEF StopRunner
<1>5. CASE home[t] # request[c].store
  <2>1. UNCHANGED <<rows, create, runners, store, home, restarts>>
    BY <1>2, <1>4, <1>5 DEF runners
  <2> QED
    BY <1>4, <2>1, NoRequestType, RequestMoves
<1>6. CASE home[t] = request[c].store
  <2>1. /\ home' = [home EXCEPT ![t] = 0]
        /\ cancelled' = [cancelled EXCEPT ![t] = runner[t] # "done"]
    BY <1>2, <1>6
  <2>2. TaskTypeOK'
    BY <1>1, <1>3, <1>4, <2>1, NoRequestType, StoreNumbers DEF TaskTypeOK, RequestType, rows
  <2>3. /\ home'[t] = 0 /\ (cancelled'[t] => runner[t] # "done") /\ store \in Nat \ {0}
        /\ \A u \in Tasks \ {t} : home'[u] = home[u] /\ cancelled'[u] = cancelled[u]
    BY <1>1, <1>3, <2>1, StoreNumbers DEF TaskTypeOK
  <2>4. InOrder(t)'
    <3>1. InOrder(t) /\ UNCHANGED <<row, create, runner, pending, store>>
      BY <1>1, <1>3, <1>4 DEF TasksInOrder, rows
    <3>2. home[t] # 0
      BY <1>1, <1>6, RequestFields
    <3>3. runner[t] # "none"
      BY <3>1, <3>2 DEF InOrder
    <3>4. home'[t] <= store
      BY <2>3
    <3> QED
      BY <2>3, <3>1, <3>3, <3>4 DEF InOrder
  <2>5. TasksInOrder'
    BY <1>1, <1>3, <1>4, <2>3, <2>4, OneTaskInOrder DEF rows
  <2> QED
    BY <2>2, <2>5 DEF TaskInv
<1> QED
  BY <1>5, <1>6

LEMMA PollInvariant ==
  ASSUME TaskInv, NEW c \in Clients, NEW polled \in SUBSET Tasks, NEW asked \in {1, store},
         Poll(c, polled, asked)
  PROVE  TaskInv'
<1> DEFINE r == [pc |-> "fail stale", tasks |-> {t \in polled : Stale(t, asked)}, store |-> asked]
<1>1. asked \in Stores \ {0} /\ {t \in polled : Stale(t, asked)} \in SUBSET Tasks
  BY StoreNumbers DEF TaskInv, TaskTypeOK
<1>2. r \in RequestType
  BY <1>1 DEF RequestType
<1>3. /\ request' = [request EXCEPT ![c] = r]
      /\ UNCHANGED <<rows, create, runners, store, home, restarts>>
  BY DEF Poll
<1> HIDE DEF r
<1> QED
  BY <1>2, <1>3, RequestMoves

LEMMA FailStaleInvariant ==
  ASSUME TaskInv, NEW c \in Clients, FailStale(c)
  PROVE  TaskInv'
<1>1. /\ request' = [request EXCEPT ![c] = NoRequest]
      /\ UNCHANGED <<old, create, runners, store, home, restarts>>
  BY DEF FailStale
<1>2. /\ row' \in [Tasks -> TaskStatus \cup {Absent, Gone}]
      /\ \A u \in Tasks : row'[u] = row[u] \/ row'[u] \notin Open
  <2>1. \/ row' = row
        \/ row' = [t \in Tasks |-> IF t \in request[c].tasks THEN "failed" ELSE row[t]]
    BY DEF FailStale
  <2>2. row \in [Tasks -> TaskStatus \cup {Absent, Gone}]
    BY DEF TaskInv, TaskTypeOK
  <2> QED
    BY <2>1, <2>2 DEF TaskStatus, Open
<1> QED
  BY <1>1, <1>2, NoRequestType, RequestEnds

-----------------------------------------------------------------------------
(* A task of the old store object is tracked by none the polls will ask. *)
LEMMA SaveSessionInvariant ==
  ASSUME TaskInv, SaveSession
  PROVE  TaskInv'
<1>1. TaskTypeOK /\ TasksInOrder
  BY DEF TaskInv
<1>2. /\ store' = store + 1 /\ store <= MaxSaves
      /\ UNCHANGED <<rows, create, runners, request, home, restarts>>
  BY DEF SaveSession
<1>3. TaskTypeOK'
  BY <1>1, <1>2, StoreNumbers DEF TaskTypeOK, rows, runners
<1>4. \A t \in Tasks : InOrder(t)'
  <2> SUFFICES ASSUME NEW t \in Tasks PROVE InOrder(t)'
    OBVIOUS
  <2>1. InOrder(t) /\ home[t] \in Nat /\ create[t].store \in Nat /\ store \in Nat
    BY <1>1, StoreNumbers DEF TaskTypeOK, TasksInOrder
  <2>2. UNCHANGED <<row, create, runner, pending, cancelled, home>>
    BY <1>2 DEF rows, runners
  <2>3. home[t] <= store /\ create[t].store <= store
    BY <2>1 DEF InOrder
  <2>4. home[t] <= store' /\ create[t].store <= store' /\ home[t] # store'
    BY <1>2, <2>1, <2>3
  <2> QED
    BY <2>1, <2>2, <2>4 DEF InOrder
<1> QED
  BY <1>3, <1>4 DEF TaskInv, TasksInOrder

LEMMA RestartInvariant ==
  ASSUME TaskInv, Restart
  PROVE  TaskInv'
<1>1. TaskTypeOK /\ TasksInOrder
  BY DEF TaskInv
<1>2. /\ restarts < MaxRestarts /\ restarts' = restarts + 1
      /\ create' = [t \in Tasks |-> IF create[t].pc = "none" THEN create[t] ELSE Answered]
      /\ runner' = [t \in Tasks |-> IF runner[t] = "none" THEN "none" ELSE "done"]
      /\ pending' = [t \in Tasks |-> "none"] /\ cancelled' = [t \in Tasks |-> FALSE]
      /\ request' = [c \in Clients |-> NoRequest]
      /\ store' = 1 /\ home' = [t \in Tasks |-> 0]
      /\ row' = row /\ old' = old
  BY DEF Restart, rows
<1>3. TaskTypeOK'
  <2>1. restarts' \in 0 .. MaxRestarts
    <3>1. restarts \in 0 .. MaxRestarts
      BY <1>1 DEF TaskTypeOK
    <3>2. restarts < MaxRestarts /\ restarts' = restarts + 1
      BY <1>2
    <3> QED
      BY <3>1, <3>2, TaskBounds
  <2>2. create' \in [Tasks -> [pc : {"none", "created", "answered"}, store : Stores]]
    BY <1>1, <1>2, StoreNumbers DEF TaskTypeOK, Answered
  <2> QED
    BY <1>1, <1>2, <2>1, <2>2, NoRequestType, StoreNumbers DEF TaskTypeOK
<1>4. \A t \in Tasks : InOrder(t)'
  <2> SUFFICES ASSUME NEW t \in Tasks PROVE InOrder(t)'
    OBVIOUS
  <2>1. InOrder(t) /\ create[t].store \in Nat
    BY <1>1, TaskTypes DEF TasksInOrder
  <2>2. /\ create[t].pc = "none" => create'[t] = create[t] /\ runner'[t] = "none"
        /\ create[t].pc # "none" => create'[t].pc = "answered" /\ create'[t].store = 0
        /\ runner'[t] \in {"none", "done"}
        /\ pending'[t] = "none" /\ ~cancelled'[t] /\ home'[t] = 0 /\ store' = 1
    BY <1>2, <2>1 DEF Answered, InOrder
  <2>3. create'[t].store = 0
    BY <2>1, <2>2 DEF InOrder
  <2>4. 0 <= 1 /\ 0 # 1
    OBVIOUS
  <2> QED
    BY <2>1, <2>2, <2>3, <2>4 DEF InOrder, Open
<1> QED
  BY <1>3, <1>4 DEF TaskInv, TasksInOrder

-----------------------------------------------------------------------------
LEMMA TaskInvInit == TaskInit => TaskInv
<1> SUFFICES ASSUME TaskInit PROVE TaskInv
  OBVIOUS
<1>1. TaskTypeOK
  BY NoRequestType, StoreNumbers, TaskBounds DEF TaskInit, TaskTypeOK
<1>2. TasksInOrder
  BY DEF TaskInit, TasksInOrder, InOrder, Open, Absent
<1> QED
  BY <1>1, <1>2 DEF TaskInv

LEMMA TaskInvStep == TaskInv /\ [TaskNext]_taskVars => TaskInv'
<1> SUFFICES ASSUME TaskInv, [TaskNext]_taskVars PROVE TaskInv'
  OBVIOUS
<1>1. ASSUME NEW t \in Tasks, CreateRow(t) \/ Track(t) \/ Age(t) PROVE TaskInv'
  BY <1>1, CreateRowInvariant, TrackInvariant, AgeInvariant
<1>2. ASSUME NEW t \in Tasks,
             RunnerEnter(t) \/ RunnerLoad(t) \/ RunnerCommit(t) \/ RunnerWorks(t)
               \/ RunnerCancelled(t)
      PROVE  TaskInv'
  BY <1>2, RunnerEnterInvariant, RunnerLoadInvariant, RunnerCommitInvariant,
     RunnerWorksInvariant, RunnerCancelledInvariant
<1>3. ASSUME NEW c \in Clients, NEW t \in Tasks, CancelLoad(c, t) \/ Delete(c, t)
      PROVE  TaskInv'
  BY <1>3, CancelLoadInvariant, DeleteInvariant
<1>4. ASSUME NEW c \in Clients, NEW polled \in SUBSET Tasks, NEW asked \in {1, store},
             Poll(c, polled, asked)
      PROVE  TaskInv'
  BY <1>4, PollInvariant
<1>5. ASSUME NEW c \in Clients, CancelCommit(c) \/ StopRunner(c) \/ FailStale(c)
      PROVE  TaskInv'
  BY <1>5, CancelCommitInvariant, StopRunnerInvariant, FailStaleInvariant
<1>6. CASE SaveSession \/ Restart
  BY <1>6, SaveSessionInvariant, RestartInvariant
<1>7. CASE UNCHANGED taskVars
  BY <1>7 DEF taskVars, rows, runners, TaskInv, TaskTypeOK, TasksInOrder, InOrder
<1> QED
  BY <1>1, <1>2, <1>3, <1>4, <1>5, <1>6, <1>7 DEF TaskNext

-----------------------------------------------------------------------------
(* What a poll has found stale stays unknown to the store it asked: its POST *)
(* was answered long ago, so that no track() is still to come.             *)
OldIsAnswered == \A t \in Tasks : old[t] => create[t].pc = "answered"

FoundStale(c) ==
  request[c].pc = "fail stale" =>
    \A t \in request[c].tasks : create[t].pc = "answered" /\ home[t] # request[c].store

StaleInv == OldIsAnswered /\ \A c \in Clients : FoundStale(c)

(* Steps of a runner, and saves. *)
LEMMA StaleUntouched ==
  ASSUME StaleInv, UNCHANGED <<old, create, request, home>>
  PROVE  StaleInv'
BY DEF StaleInv, OldIsAnswered, FoundStale

(* The two steps of a POST /tasks. *)
LEMMA StalePost ==
  ASSUME TaskInv, StaleInv, NEW t \in Tasks, create[t].pc # "answered",
         \A u \in Tasks \ {t} : create'[u] = create[u] /\ home'[u] = home[u],
         UNCHANGED <<old, request>>
  PROVE  StaleInv'
<1>1. ~old[t]
  BY DEF StaleInv, OldIsAnswered
<1>2. OldIsAnswered'
  BY <1>1 DEF StaleInv, OldIsAnswered
<1>3. ASSUME NEW c \in Clients, request[c].pc = "fail stale", NEW u \in request[c].tasks
      PROVE  create'[u].pc = "answered" /\ home'[u] # request[c].store
  <2>1. create[u].pc = "answered" /\ home[u] # request[c].store /\ u # t
    BY <1>3 DEF StaleInv, FoundStale
  <2>2. request[c] \in RequestType
    BY DEF TaskInv, TaskTypeOK
  <2>3. u \in Tasks
    BY <1>3, <2>2, RequestFields
  <2> QED
    BY <2>1, <2>3
<1> QED
  BY <1>2, <1>3 DEF StaleInv, FoundStale

(* Requests that do not poll; a runner stopped is tracked by no store.      *)
LEMMA StaleRequest ==
  ASSUME TaskInv, StaleInv, NEW c \in Clients, NEW r, r.pc # "fail stale",
         request' = [request EXCEPT ![c] = r],
         \A t \in Tasks : home'[t] = home[t] \/ home'[t] = 0,
         UNCHANGED <<old, create>>
  PROVE  StaleInv'
<1>1. OldIsAnswered'
  BY DEF StaleInv, OldIsAnswered
<1>2. ASSUME NEW d \in Clients, request'[d].pc = "fail stale", NEW u \in request'[d].tasks
      PROVE  create[u].pc = "answered" /\ home'[u] # request'[d].store
  <2>1. request \in [Clients -> RequestType]
    BY DEF TaskInv, TaskTypeOK
  <2>2. request'[d] = request[d] /\ d # c
    BY <1>2, <2>1
  <2>3. create[u].pc = "answered" /\ home[u] # request[d].store
    BY <1>2, <2>2 DEF StaleInv, FoundStale
  <2>4. u \in Tasks /\ request[d].store # 0
    BY <1>2, <2>1, <2>2, RequestFields
  <2> QED
    BY <2>2, <2>3, <2>4
<1> QED
  BY <1>1, <1>2 DEF StaleInv, FoundStale

LEMMA StaleInvStep == TaskInv /\ StaleInv /\ [TaskNext]_taskVars => StaleInv'
<1> SUFFICES ASSUME TaskInv, StaleInv, [TaskNext]_taskVars PROVE StaleInv'
  OBVIOUS
<1>0. TaskTypeOK
  BY DEF TaskInv
<1>1. ASSUME NEW t \in Tasks, CreateRow(t) \/ Track(t) PROVE StaleInv'
  <2>1. /\ create[t].pc # "answered" /\ UNCHANGED <<old, request>>
        /\ \A u \in Tasks \ {t} : create'[u] = create[u] /\ home'[u] = home[u]
    BY <1>0, <1>1 DEF TaskTypeOK, CreateRow, Track, rows
  <2> QED
    BY <2>1, StalePost
<1>2. ASSUME NEW t \in Tasks, Age(t) PROVE StaleInv'
  BY <1>0, <1>2 DEF Age, TaskTypeOK, StaleInv, OldIsAnswered, FoundStale
<1>3. ASSUME NEW t \in Tasks,
             RunnerEnter(t) \/ RunnerLoad(t) \/ RunnerCommit(t) \/ RunnerWorks(t)
               \/ RunnerCancelled(t)
      PROVE  StaleInv'
  BY <1>3, StaleUntouched
     DEF RunnerEnter, RunnerLoad, RunnerCommit, RunnerWorks, RunnerCancelled, rows
<1>4. ASSUME NEW c \in Clients, NEW t \in Tasks, CancelLoad(c, t) \/ Delete(c, t)
      PROVE  StaleInv'
  <2>1. PICK r : r.pc # "fail stale" /\ request' = [request EXCEPT ![c] = r]
    BY <1>4 DEF CancelLoad, Delete
  <2>2. UNCHANGED <<old, create, home>>
    BY <1>4 DEF CancelLoad, Delete, rows
  <2> QED
    BY <2>1, <2>2, StaleRequest
<1>5. ASSUME NEW c \in Clients, NEW polled \in SUBSET Tasks, NEW asked \in {1, store},
             Poll(c, polled, asked)
      PROVE  StaleInv'
  <2> DEFINE found == {t \in polled : Stale(t, asked)}
             r == [pc |-> "fail stale", tasks |-> found, store |-> asked]
  <2>1. request' = [request EXCEPT ![c] = r] /\ UNCHANGED <<old, create, home>>
    BY <1>5 DEF Poll, rows
  <2>2. \A t \in found : create[t].pc = "answered" /\ home[t] # asked
    BY DEF Stale, StaleInv, OldIsAnswered
  <2> HIDE DEF found
  <2>3. r.tasks = found /\ r.store = asked
    OBVIOUS
  <2> HIDE DEF r
  <2>4. request'[c] = r /\ \A d \in Clients \ {c} : request'[d] = request[d]
    BY <1>0, <2>1 DEF TaskTypeOK
  <2>5. OldIsAnswered'
    BY <2>1 DEF StaleInv, OldIsAnswered
  <2>6. FoundStale(c)'
    <3>1. request'[c].tasks = found /\ request'[c].store = asked
      BY <2>3, <2>4
    <3> QED
      BY <2>1, <2>2, <3>1 DEF FoundStale
  <2>7. ASSUME NEW d \in Clients \ {c} PROVE FoundStale(d)'
    BY ZenonT(30), <2>1, <2>4 DEF StaleInv, FoundStale
  <2> QED
    BY <2>5, <2>6, <2>7 DEF StaleInv
<1>6. ASSUME NEW c \in Clients, CancelCommit(c) PROVE StaleInv'
  <2>1. PICK r : r.pc # "fail stale" /\ request' = [request EXCEPT ![c] = r]
    <3>1. \/ request' = [request EXCEPT ![c] = NoRequest]
          \/ request' = [request EXCEPT ![c] = [request[c] EXCEPT !.pc = "stop runner"]]
      BY <1>6 DEF CancelCommit
    <3>2. request[c] \in RequestType /\ request[c].pc # "idle"
      BY <1>0, <1>6 DEF TaskTypeOK, CancelCommit
    <3>3. [request[c] EXCEPT !.pc = "stop runner"].pc = "stop runner"
      BY <3>2 DEF RequestType, NoRequest
    <3> QED
      BY <3>1, <3>3 DEF NoRequest
  <2>2. UNCHANGED <<old, create, home>>
    BY <1>6 DEF CancelCommit
  <2> QED
    BY <2>1, <2>2, StaleRequest
<1>7. ASSUME NEW c \in Clients, StopRunner(c) \/ FailStale(c) PROVE StaleInv'
  <2>1. request' = [request EXCEPT ![c] = NoRequest] /\ NoRequest.pc # "fail stale"
    BY <1>7 DEF StopRunner, FailStale, NoRequest
  <2>2. UNCHANGED <<old, create>>
    BY <1>7 DEF StopRunner, FailStale, rows
  <2>3. \A t \in Tasks : home'[t] = home[t] \/ home'[t] = 0
    BY <1>0, <1>7 DEF TaskTypeOK, StopRunner, FailStale
  <2> QED
    BY <2>1, <2>2, <2>3, StaleRequest
<1>8. CASE SaveSession
  BY <1>8, StaleUntouched DEF SaveSession, rows
<1>9. CASE Restart
  <2>1. /\ create' = [t \in Tasks |-> IF create[t].pc = "none" THEN create[t] ELSE Answered]
        /\ request' = [c \in Clients |-> NoRequest] /\ old' = old
    BY <1>9 DEF Restart, rows
  <2>2. NoRequest.pc # "fail stale" /\ Answered.pc = "answered"
    BY DEF NoRequest, Answered
  <2>3. \A t \in Tasks : create[t].pc = "answered" => create'[t].pc = "answered"
    BY <2>1, <2>2
  <2>4. OldIsAnswered'
    BY <2>1, <2>3 DEF StaleInv, OldIsAnswered
  <2>5. \A c \in Clients : request'[c].pc # "fail stale"
    BY <2>1, <2>2
  <2> QED
    BY <2>4, <2>5 DEF StaleInv, FoundStale
<1>10. CASE UNCHANGED taskVars
  BY <1>10, StaleUntouched DEF taskVars, rows
<1> QED
  BY <1>1, <1>2, <1>3, <1>4, <1>5, <1>6, <1>7, <1>8, <1>9, <1>10 DEF TaskNext

(* A row that FailStale moves is one the poll has found. *)
LEMMA KnownRunnerStep ==
  ASSUME TaskInv, StaleInv, NEW c \in Clients, NEW t \in Tasks,
         FailStale(c), row[t] # row'[t]
  PROVE  home[t] # request[c].store
<1>1. row' = row \/ row' = [u \in Tasks |-> IF u \in request[c].tasks THEN "failed" ELSE row[u]]
  BY DEF FailStale
<1>2. t \in request[c].tasks
  BY <1>1
<1> QED
  BY <1>2 DEF FailStale, StaleInv, FoundStale

(* The table, the runners, their tracking and the requests are well typed:  *)
(* a request that is under way knows the store it asked (store.py:66-226).  *)
THEOREM TaskTypeCorrect == TaskSpec => []TaskTypeOK
<1>1. TaskInv => TaskTypeOK
  BY DEF TaskInv
<1> QED
  BY <1>1, TaskInvInit, TaskInvStep, PTL DEF TaskSpec

(* However updates, cancels, deletes, polls, saves and restarts interleave, *)
(* a task whose runner is through has ended, or is not tracked by the       *)
(* current store, so that a poll finds it (store.py:137-226).               *)
THEOREM DeadTaskIsFound == TaskSpec => []OpenTaskIsRunOrFound
<1>1. TaskInv => OpenTaskIsRunOrFound
  BY DEF TaskInv, TasksInOrder, InOrder, OpenTaskIsRunOrFound, Open
<1> QED
  BY <1>1, TaskInvInit, TaskInvStep, PTL DEF TaskSpec

(* However a poll's commit is delayed, it declares no task stale that the   *)
(* store it asked runs (store.py:143-176).                                 *)
THEOREM RunningTaskNeverStale == TaskSpec => KnownRunnerNeverStale
<1>1. TaskInit => StaleInv
  <2> SUFFICES ASSUME TaskInit PROVE StaleInv
    OBVIOUS
  <2>1. \A t \in Tasks : ~old[t]
    BY DEF TaskInit
  <2>2. \A c \in Clients : request[c].pc # "fail stale"
    BY DEF TaskInit, NoRequest
  <2> QED
    BY <2>1, <2>2 DEF StaleInv, OldIsAnswered, FoundStale
<1>2. TaskInv /\ StaleInv
        => [\A c \in Clients, t \in Tasks :
              FailStale(c) /\ row[t] # row'[t]
              => runner[t] \in {"none", "done"} \/ home[t] # request[c].store]_taskVars
  BY KnownRunnerStep
<1> QED
  BY <1>1, <1>2, TaskInvInit, TaskInvStep, StaleInvStep, PTL DEF TaskSpec, KnownRunnerNeverStale

-----------------------------------------------------------------------------
(* The jobs and the tasks side by side (MCJobs). *)

(* One of the two tables moves at a time: what is proved of either holds    *)
(* in their composition.                                                   *)
THEOREM JobsAreItsParts == JobsSpec => Spec /\ TaskSpec
<1>1. JobsInit => Init /\ TaskInit
  BY DEF JobsInit
<1>2. [JobsNext]_jobsVars => [Next]_storeVars /\ [TaskNext]_taskVars
  BY DEF JobsNext, jobsVars
<1> QED
  BY <1>1, <1>2, PTL DEF JobsSpec, Spec, TaskSpec

(* The rows of jobs and of tasks keep their types in the composition. *)
THEOREM JobsTypeCorrect == JobsSpec => []JobsTypeOK
BY JobsAreItsParts, TypeCorrect, TaskTypeCorrect, PTL DEF JobsTypeOK
=============================================================================

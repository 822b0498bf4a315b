------------------------- MODULE CrawlerJobs_proofs -------------------------
(***************************************************************************)
(* Proofs about CrawlerJobs, for any number of jobs, stop requests, worker *)
(* deaths and dropped intents.                                             *)
(***************************************************************************)
EXTENDS CrawlerJobs, Subsequences_proofs, TLAPS, FiniteSetTheorems

-----------------------------------------------------------------------------
(* The states of a row.  Started: its start handler has been through        *)
(* update_status("running").  Live: its strategy may be at work.  Moved:    *)
(* what a lifecycle command of a stop, a runner or the recovery writes.     *)
Live    == {"running", "stopping", "cancelled"}
Started == Live \cup {"completed", "failed"}
Moved   == {"stopping", "cancelled", "completed", "failed"}

(* What a start handler has done so far is seen in the row: before the      *)
(* INSERT there is none, before update_status() only a stop can have        *)
(* touched it, and after it the row never returns to its queue.             *)
RowFollowsStart(j) ==
  /\ request[j] \in {"none", "checked"} => status[j] = Absent
  /\ request[j] = "inserted" => status[j] \in {"queued", "cancelled"}
  /\ request[j] \in {"marked", "unsent", "answered"} => status[j] \in Started

Present(j) == request[j] \notin {"none", "checked"}

(* A job is handed to the worker once: request, intent, handler, strategy,  *)
(* terminal event, in this order.  Only a bruteforce is still at work after *)
(* it was announced, and then as completed.                                 *)
Unannounced == {"none", "spawned", "working", "completing", "completing: await"}

HandedOnce(j) ==
  /\ handler[j] # "none" => request[j] = "answered"
  /\ run[j] # "none" => handler[j] = "done"
  /\ run[j] \in Unannounced \/ (Kind[j] # "bruteforce" /\ run[j] # "done") => events[j] = {}
  /\ run[j] # "done" => "failed" \notin events[j]

(* What lifecycle.start() found, and what a strategy then relies on.        *)
RowIsLive(j) ==
  /\ handler[j] = "started" /\ report[Handler(j)].result # "raised" => status[j] \in Live
  /\ run[j] \in {"spawned", "working", "completing"} => status[j] \in Live

(* A stop request names a job that was listed when it was picked.           *)
StopNamesJob(s) == stop[s].pc # "none" => stop[s].job \in Jobs /\ Present(stop[s].job)

(* No intent is twice in the feed, and nobody has acted on one that is.     *)
IntentIsNew(m) ==
  /\ m[1] = "start" => request[m[2]] = "answered" /\ handler[m[2]] = "none"
  /\ m[1] = "stop" => stop[m[2]].pc = "sent"

FeedInOrder ==
  /\ feed \in Seq(Message)
  /\ \A i, k \in DOMAIN feed : feed[i] = feed[k] => i = k
  /\ \A i \in DOMAIN feed : IntentIsNew(feed[i])

(* What any pending transition_status() call is about to do ...             *)
CallMovesOn(t) ==
  call[t].pc # "idle" =>
    /\ call[t].job \in Jobs /\ Present(call[t].job)
    /\ call[t].prev \in {"queued", "running", "stopping"}
    /\ call[t].target \in {"cancelled", "completed", "failed"}

(* ... and who may be in one: a start handler never, because it only finds  *)
(* rows that are already running or that refuse it.                         *)
Awaits == {"completing: await", "failing: await", "cancelling: await"}

StopperCalls(s) ==
  call[Stopper(s)].pc # "idle" =>
    stop[s].pc \in {"worker call", "api call"} /\ call[Stopper(s)].target = "cancelled"

RunnerCalls(j) ==
  call[Runner(j)].pc # "idle" => run[j] \in Awaits /\ call[Runner(j)].job = j

RecoveryCalls ==
  call[Recovery].pc # "idle" => /\ worker = "recovering"
                                /\ call[Recovery].prev = "running" /\ call[Recovery].target = "failed"

CallsHaveOwners ==
  /\ \A j \in Jobs : call[Handler(j)].pc = "idle"
  /\ \A s \in Stops : StopperCalls(s)
  /\ \A j \in Jobs : RunnerCalls(j)
  /\ RecoveryCalls

(* Before it connects, a worker process has no task and reads no intent.    *)
QuietUntilConnected ==
  worker \in {"down", "spawned", "recovering"} =>
    /\ feed = <<>>
    /\ \A j \in Jobs : handler[j] \in {"none", "done"} /\ run[j] \in {"none", "done"}

Rows        == \A j \in Jobs : RowFollowsStart(j)
Handed      == \A j \in Jobs : HandedOnce(j)
Alive       == \A j \in Jobs : RowIsLive(j)
StopsKnow   == \A s \in Stops : StopNamesJob(s)
CallsMoveOn == \A t \in Tasks : CallMovesOn(t)

IInv ==
  /\ TypeOK
  /\ Rows /\ Handed /\ Alive /\ StopsKnow
  /\ FeedInOrder
  /\ CallsMoveOn /\ CallsHaveOwners
  /\ QuietUntilConnected

(* While one start is under way, no other is and no other job is listed.    *)
OneStart ==
  /\ \A i, k \in InStart : i = k
  /\ \A i \in InStart : Listed \subseteq {i}
  /\ \A i, k \in Listed : i = k

-----------------------------------------------------------------------------
(* The tasks are told apart by their names. *)
LEMMA TaskNames ==
  /\ \A j \in Jobs : Handler(j) \in Tasks /\ Runner(j) \in Tasks
  /\ \A s \in Stops : Stopper(s) \in Tasks
  /\ Recovery \in Tasks
  /\ \A t \in Tasks : \/ \E j \in Jobs : t = Handler(j) \/ t = Runner(j)
                      \/ \E s \in Stops : t = Stopper(s)
                      \/ t = Recovery
  /\ \A i, j \in Jobs : /\ Handler(i) # Runner(j)
                        /\ Handler(i) = Handler(j) => i = j
                        /\ Runner(i) = Runner(j) => i = j
  /\ \A j \in Jobs, s \in Stops : Handler(j) # Stopper(s) /\ Runner(j) # Stopper(s)
  /\ \A j \in Jobs : Handler(j) # Recovery /\ Runner(j) # Recovery
  /\ \A r, s \in Stops : Stopper(r) # Recovery /\ (Stopper(r) = Stopper(s) => r = s)
BY DEF Tasks, Handler, Runner, Stopper, Recovery

(* The instance of JobStore has the job states of JobStates. *)
LEMMA SameStates ==
  /\ Store!RawStatus = RawStatus /\ Store!Absent = Absent
  /\ \A raw \in RawStatus : Store!Resolve(raw) = Resolve(raw)
  /\ \A cur \in JobState : \A target : Store!NextStep(cur, target) = NextStep(cur, target)
  /\ \A cur \in JobState : Store!Legal[cur] = Legal[cur]
BY DEF Store!RawStatus, Store!JobState, Store!Absent, Store!Resolve, Store!NextStep, Store!Legal,
       RawStatus, JobState, Absent, Resolve, NextStep, Legal

CallType == [pc         : {"idle", "write", "reread"},
             job        : Jobs \cup {NoJob},
             target     : Store!Command \cup {"none"},
             prev       : RawStatus \cup {"none"},
             recovering : BOOLEAN]

ReportType == [job    : Jobs \cup {NoJob},
               result : RawStatus \cup {"none", "raised"}]

LEMMA StoreTypes ==
  Store!TypeOK <=> /\ status \in [Jobs -> RawStatus \cup {Absent}]
                   /\ call \in [Tasks -> CallType]
                   /\ report \in [Tasks -> ReportType]
                   /\ stale \in [Tasks -> SUBSET Jobs]
BY SameStates DEF Store!TypeOK, CallType, ReportType

LEMMA NoCallNoReport ==
  /\ Store!NoCall \in CallType /\ Store!NoCall.pc = "idle"
  /\ Store!NoReport \in ReportType
BY DEF Store!NoCall, Store!NoReport, CallType, ReportType

-----------------------------------------------------------------------------
(* A row is absent, waiting, or has been started. *)
LEMMA RowStates ==
  ASSUME IInv, NEW j \in Jobs
  PROVE  /\ status[j] \in {Absent, "queued"} \cup Started
         /\ Present(j) <=> status[j] # Absent
<1>1. RowFollowsStart(j) /\ request[j] \in {"none", "checked", "inserted", "marked", "unsent", "answered"}
  BY DEF IInv, Rows, TypeOK
<1> QED
  BY <1>1 DEF RowFollowsStart, Present, Started, Live, Absent

Ends == {"cancelled", "completed", "failed"}

(* One task gets on with its call; the others' calls and reports stay. *)
CallMoves(t) ==
  /\ call' \in [Tasks -> CallType] /\ report' \in [Tasks -> ReportType]
  /\ \A u \in Tasks \ {t} : call'[u] = call[u] /\ report'[u] = report[u]

LEMMA OneCallMoves ==
  ASSUME IInv, NEW t \in Tasks, NEW m \in CallType, NEW r \in ReportType,
         call' = [call EXCEPT ![t] = m], report' = [report EXCEPT ![t] = r]
  PROVE  CallMoves(t) /\ call'[t] = m /\ report'[t] = r
BY StoreTypes DEF IInv, TypeOK, CallMoves

LEMMA NoCallMoves ==
  ASSUME IInv, NEW t \in Tasks, call' = call, report' = report
  PROVE  CallMoves(t) /\ call'[t] = call[t]
BY StoreTypes DEF IInv, TypeOK, CallMoves

(* A task that reads what its call returned, or is cancelled, is in none.   *)
LEMMA CallEnds ==
  ASSUME IInv, NEW t \in Tasks, Returned(t) \/ AbortCall(t)
  PROVE  CallMoves(t) /\ call'[t].pc = "idle" /\ UNCHANGED <<status, stale>>
<1>1. call \in [Tasks -> CallType] /\ report \in [Tasks -> ReportType]
  BY StoreTypes DEF IInv, TypeOK
<1>2. CASE Returned(t)
  BY <1>1, <1>2, NoCallNoReport DEF Returned, CallMoves
<1>3. CASE AbortCall(t)
  BY <1>1, <1>3, NoCallNoReport DEF AbortCall, CallMoves
<1> QED
  BY <1>2, <1>3

(* What a command of the lifecycle that ends a job does up to its first     *)
(* write: it leaves the rows alone, and goes on only from a row that can    *)
(* still move.                                                              *)
LEMMA CommandReads ==
  ASSUME IInv, NEW t \in Tasks, NEW j \in Jobs, NEW target \in Ends, NEW recovering \in BOOLEAN,
         Store!Read(t, j, target, recovering)
  PROVE  /\ status' = status /\ CallMoves(t)
         /\ call'[t].pc # "idle" =>
              /\ Present(j) /\ call'[t].job = j /\ call'[t].target = target
              /\ call'[t].prev \in {"queued", "running", "stopping"}
              /\ recovering => call'[t].prev = "running"
<1>1. status[j] \in {Absent, "queued"} \cup Started /\ (Present(j) <=> status[j] # Absent)
  BY RowStates
<1>2. status' = status
  BY DEF Store!Read
<1> DEFINE m0 == [pc |-> "write", job |-> j, target |-> target, prev |-> status[j], recovering |-> recovering]
<1>3. \/ \E result \in {Store!Resolve(status[j]), "raised"} :
           /\ result = "raised" \/ status[j] # Absent
           /\ Store!Return(t, j, result)
      \/ /\ call' = [call EXCEPT ![t] = m0] /\ report' = report
         /\ status[j] \in {"queued", "running", "stopping"}
         /\ recovering => status[j] = "running"
  BY <1>1 DEF Store!Read, Store!Refused, Store!Resolve, Store!NextStep, Store!Legal,
     Store!JobState, Store!Absent, Absent, Started, Live, Ends
<1>4. CASE /\ call' = [call EXCEPT ![t] = m0] /\ report' = report
           /\ status[j] \in {"queued", "running", "stopping"}
           /\ recovering => status[j] = "running"
  <2>1. m0 \in CallType
    BY <1>4 DEF CallType, Store!Command, Ends, RawStatus, JobState
  <2>2. CallMoves(t) /\ call'[t] = m0
    BY <1>4, <2>1, StoreTypes DEF IInv, TypeOK, CallMoves
  <2> QED
    BY <1>1, <1>2, <1>4, <2>2 DEF Absent
<1>5. ASSUME NEW result \in {Store!Resolve(status[j]), "raised"}, Store!Return(t, j, result),
             result = "raised" \/ status[j] # Absent
      PROVE  CallMoves(t) /\ call'[t].pc = "idle"
  <2>1. [job |-> j, result |-> result] \in ReportType
    BY <1>1, <1>5 DEF ReportType, Store!Resolve, RawStatus, JobState, Started, Live
  <2> QED
    BY <1>5, <2>1, OneCallMoves, NoCallNoReport DEF Store!Return
<1> HIDE DEF m0
<1> QED
  BY <1>2, <1>3, <1>4, <1>5

(* lifecycle.start() on behalf of a start handler: whatever it finds, it    *)
(* returns at once, and unless it raises the row is running.                *)
LEMMA StartReads ==
  ASSUME IInv, NEW j \in Jobs, request[j] = "answered",
         Store!Read(Handler(j), j, "running", FALSE)
  PROVE  /\ status' = status /\ CallMoves(Handler(j))
         /\ call'[Handler(j)].pc = "idle"
         /\ report'[Handler(j)].result # "raised" => status[j] = "running"
<1>1. status[j] \in Started
  BY DEF IInv, Rows, RowFollowsStart
<1>2. /\ status' = status
      /\ \E result \in {"raised", "running"} :
           /\ Store!Return(Handler(j), j, result)
           /\ result # "raised" => status[j] = "running"
  BY <1>1 DEF Store!Read, Store!Refused, Store!Resolve, Store!NextStep, Store!Legal,
     Store!JobState, Store!Absent, Started, Live
<1>3. \A result \in {"raised", "running"} : [job |-> j, result |-> result] \in ReportType
  BY DEF ReportType, RawStatus, JobState
<1>4. PICK result \in {"raised", "running"} :
        Store!Return(Handler(j), j, result) /\ (result # "raised" => status[j] = "running")
  BY <1>2
<1> DEFINE r == [job |-> j, result |-> result]
<1>5. r \in ReportType /\ r.result = result
  BY <1>3
<1>6. /\ call' = [call EXCEPT ![Handler(j)] = Store!NoCall]
      /\ report' = [report EXCEPT ![Handler(j)] = r]
  BY <1>4 DEF Store!Return
<1> HIDE DEF r
<1>7. CallMoves(Handler(j)) /\ call'[Handler(j)].pc = "idle" /\ report'[Handler(j)] = r
  BY <1>5, <1>6, OneCallMoves, NoCallNoReport, TaskNames
<1> QED
  BY <1>2, <1>4, <1>5, <1>7

(* The database steps of a pending call: a row is moved on, and only from   *)
(* the state the call has read.                                             *)
LEMMA PersistMoves ==
  ASSUME IInv, NEW t \in Tasks, Store!Proceed(t)
  PROVE  /\ call[t].pc # "idle" /\ CallMoves(t) /\ stale' = stale
         /\ \/ status' = status
            \/ \E step \in Moved :
                 /\ status[call[t].job] = call[t].prev
                 /\ status' = [status EXCEPT ![call[t].job] = step]
                 /\ call[t].target = "cancelled" => step \in {"stopping", "cancelled"}
                 /\ call[t].target = "cancelled" /\ call[t].prev = "queued" => step = "cancelled"
         /\ call'[t].pc # "idle" =>
              /\ call'[t].job = call[t].job /\ call'[t].target = call[t].target
              /\ \/ call'[t].prev = call[t].prev
                 \/ call[t].target = "cancelled" /\ call'[t].prev = "stopping"
<1> DEFINE me   == call[t]
           step == Store!NextStep(Store!Resolve(me.prev), me.target)
<1>1. /\ me \in CallType /\ report \in [Tasks -> ReportType] /\ call \in [Tasks -> CallType]
      /\ status \in [Jobs -> RawStatus \cup {Absent}]
  BY StoreTypes DEF IInv, TypeOK
<1>2. me.pc # "idle" /\ stale' = stale
  BY DEF Store!Proceed, Store!CompareAndSet, Store!Reread
<1>3. /\ me.job \in Jobs /\ Present(me.job) /\ status[me.job] \in RawStatus
      /\ me.prev \in {"queued", "running", "stopping"} /\ me.target \in Ends
  <2>1. me.job \in Jobs /\ Present(me.job)
        /\ me.prev \in {"queued", "running", "stopping"} /\ me.target \in Ends
    BY <1>2 DEF IInv, CallsMoveOn, CallMovesOn, Ends
  <2> QED
    BY <1>1, <2>1, RowStates
<1>4. /\ step \in Moved /\ step \in RawStatus
      /\ me.target = "cancelled" => step \in {"stopping", "cancelled"}
      /\ me.target = "cancelled" /\ me.prev = "queued" => step = "cancelled"
      /\ me.target # "cancelled" => step = me.target
  BY <1>3 DEF Store!NextStep, Store!Resolve, Moved, Ends, RawStatus, JobState
<1>5. ASSUME NEW result \in RawStatus, Store!Return(t, me.job, result)
      PROVE  CallMoves(t) /\ call'[t].pc = "idle"
  <2>1. [job |-> me.job, result |-> result] \in ReportType
    BY <1>3 DEF ReportType
  <2> QED
    BY <1>5, <2>1, OneCallMoves, NoCallNoReport DEF Store!Return
<1> HIDE DEF step
<1>6. CASE Store!Reread(t)
  BY <1>2, <1>3, <1>5, <1>6 DEF Store!Reread
<1>7. CASE /\ status[me.job] = me.prev /\ status' = [status EXCEPT ![me.job] = step]
           /\ step = me.target /\ Store!Return(t, me.job, step)
  BY <1>2, <1>4, <1>5, <1>7
<1>8. CASE /\ status[me.job] = me.prev /\ status' = [status EXCEPT ![me.job] = step]
           /\ step # me.target /\ call' = [call EXCEPT ![t].prev = step] /\ UNCHANGED report
  <2>1. step = "stopping" /\ me.target = "cancelled"
    BY <1>3, <1>4, <1>8
  <2>2. /\ CallMoves(t)
        /\ call'[t].job = me.job /\ call'[t].target = me.target /\ call'[t].prev = step
    BY <1>1, <1>4, <1>8 DEF CallType, CallMoves
  <2> QED
    BY <1>2, <1>4, <1>8, <2>1, <2>2
<1>9. CASE /\ call' = [call EXCEPT ![t].pc = "reread"] /\ UNCHANGED <<status, report>>
  <2>1. /\ CallMoves(t)
        /\ call'[t].job = me.job /\ call'[t].target = me.target /\ call'[t].prev = me.prev
    BY <1>1, <1>9 DEF CallType, CallMoves
  <2> QED
    BY <1>2, <1>9, <2>1
<1> QED
  BY <1>6, <1>7, <1>8, <1>9 DEF Store!Proceed, Store!CompareAndSet, step

-----------------------------------------------------------------------------
(* One lemma per group of actions: what a step of the group may change, and *)
(* what it leaves alone.                                                    *)
LEMMA RunTypes ==
  /\ DOMAIN Ending = {"completing", "failing", "cancelling"}
  /\ Ending["completing"] = "completed" /\ Ending["failing"] = "failed" /\ Ending["cancelling"] = "cancelled"
  /\ Awaiting["completing"] = "completing: await" /\ Awaiting["failing"] = "failing: await"
  /\ Awaiting["cancelling"] = "cancelling: await"
<1>1. /\ DOMAIN Ending = {"completing", "failing", "cancelling"}
      /\ Ending["completing"] = "completed" /\ Ending["failing"] = "failed" /\ Ending["cancelling"] = "cancelled"
  BY DEF Ending
<1>2. /\ Awaiting["completing"] = "completing: await" /\ Awaiting["failing"] = "failing: await"
      /\ Awaiting["cancelling"] = "cancelling: await"
  BY DEF Awaiting
<1> QED
  BY <1>1, <1>2

(* A task of the worker waits for its lifecycle call, or for none. *)
LEMMA RunnerIdle ==
  ASSUME IInv, NEW j \in Jobs, run[j] \notin Awaits
  PROVE  call[Runner(j)].pc = "idle"
BY DEF IInv, CallsHaveOwners, RunnerCalls

(* What a strategy publishes, and where it is then. *)
EventOf(j) ==
  \/ events' = events
  \/ /\ run'[j] = "done" \/ (run'[j] = "closing" /\ Kind[j] = "bruteforce")
     /\ events' = [events EXCEPT ![j] = @ \cup {"completed"}]
  \/ run'[j] = "done" /\ events' = [events EXCEPT ![j] = @ \cup {"failed"}]

LEMMA RunStepMoves ==
  ASSUME IInv, NEW j \in Jobs, RunStep(j)
  PROVE  /\ UNCHANGED <<status, stale, request, stop, worker, awaited, feed, handler, crashes, lost>>
         /\ run' \in [Jobs -> RunState] /\ \A i \in Jobs \ {j} : run'[i] = run[i]
         /\ run[j] \notin {"none", "done"} /\ run'[j] \notin {"none", "spawned"}
         /\ run'[j] \in {"working", "completing"} => run[j] \in {"spawned", "working"}
         /\ run'[j] \in Unannounced => run[j] \in Unannounced
         /\ EventOf(j)
         /\ CallMoves(Runner(j))
         /\ call'[Runner(j)].pc # "idle" =>
              /\ run'[j] \in Awaits /\ Present(j) /\ call'[Runner(j)].job = j
              /\ call'[Runner(j)].target \in Ends
              /\ call'[Runner(j)].prev \in {"queued", "running", "stopping"}
         /\ cancelled' \in [Jobs -> BOOLEAN] /\ activeTask' \in Jobs \cup {NoJob} /\ stopRequested' \in BOOLEAN
<1> DEFINE Frame == UNCHANGED <<request, stop, worker, awaited, feed, handler, crashes, lost>>
           Run == /\ run' \in [Jobs -> RunState] /\ \A i \in Jobs \ {j} : run'[i] = run[i]
                  /\ run[j] \notin {"none", "done"} /\ run'[j] \notin {"none", "spawned"}
                  /\ run'[j] \in {"working", "completing"} => run[j] \in {"spawned", "working"}
                  /\ run'[j] \in Unannounced => run[j] \in Unannounced
           Event == EventOf(j)
           Idle == UNCHANGED <<status, stale>> /\ CallMoves(Runner(j)) /\ call'[Runner(j)].pc = "idle"
           Coordinates == /\ cancelled' \in [Jobs -> BOOLEAN] /\ activeTask' \in Jobs \cup {NoJob}
                          /\ stopRequested' \in BOOLEAN
<1>1. /\ run \in [Jobs -> RunState] /\ Runner(j) \in Tasks
      /\ cancelled \in [Jobs -> BOOLEAN] /\ activeTask \in Jobs \cup {NoJob} /\ stopRequested \in BOOLEAN
  BY RunTypes, TaskNames DEF IInv, TypeOK
<1>2. UNCHANGED store /\ run[j] \notin Awaits => Idle
  BY <1>1, RunnerIdle, NoCallMoves DEF store
<1>3. Returned(Runner(j)) \/ AbortCall(Runner(j)) => Idle
  BY <1>1, CallEnds
<1>4. ASSUME NEW way \in DOMAIN Ending, RunCommand(j, way)
      PROVE  /\ Frame /\ Run /\ Event /\ Coordinates
             /\ UNCHANGED <<status, stale>> /\ CallMoves(Runner(j))
             /\ call'[Runner(j)].pc # "idle" =>
                  /\ run'[j] \in Awaits /\ Present(j) /\ call'[Runner(j)].job = j
                  /\ call'[Runner(j)].target \in Ends
                  /\ call'[Runner(j)].prev \in {"queued", "running", "stopping"}
  <2>1. Store!Read(Runner(j), j, Ending[way], FALSE) /\ UNCHANGED stale
    BY <1>4 DEF RunCommand, Store!Lifecycle
  <2>2. Ending[way] \in Ends
    BY RunTypes DEF Ends
  <2>3. run[j] = way /\ run' = [run EXCEPT ![j] = Awaiting[way]] /\ Awaiting[way] \in Awaits
    BY <1>4, RunTypes DEF RunCommand, Advance, Awaits
  <2>4. run'[j] \in Awaits
    BY <1>1, <2>3
  <2>5. Run
    BY <1>1, <2>3, RunTypes DEF Awaits, RunState, Unannounced
  <2>6. Frame /\ Event /\ Coordinates
    BY <1>1, <1>4 DEF RunCommand, EventOf, api, process, faults
  <2>7. /\ status' = status /\ CallMoves(Runner(j))
        /\ call'[Runner(j)].pc # "idle" =>
             /\ Present(j) /\ call'[Runner(j)].job = j /\ call'[Runner(j)].target = Ending[way]
             /\ call'[Runner(j)].prev \in {"queued", "running", "stopping"}
    BY <1>1, <2>1, <2>2, CommandReads
  <2> QED
    BY <2>1, <2>2, <2>4, <2>5, <2>6, <2>7
<1>5. CASE RunEnter(j)
  <2>1. Idle
    BY <1>2, <1>5 DEF RunEnter, Advance, Awaits
  <2> HIDE DEF Idle
  <2> QED
    BY <1>1, <1>5, <2>1 DEF RunEnter, Advance, RunState, Unannounced, EventOf, api, process, faults, Idle
<1>6. ASSUME NEW outcome \in {"completing", "failing"}, RunFinish(j, outcome)
      PROVE  Idle /\ Run /\ Event /\ Frame /\ Coordinates
  BY <1>1, <1>2, <1>6 DEF RunFinish, Advance, RunState, Awaits, Unannounced, EventOf, api, process, faults
<1>7. CASE RunStopsCooperatively(j)
  BY <1>1, <1>2, <1>7 DEF RunStopsCooperatively, Advance, RunState, Awaits, Unannounced, EventOf,
     api, process, faults
<1>8. CASE RunCompleteRaised(j)
  BY <1>1, <1>3, <1>8, RunTypes DEF RunCompleteRaised, Advance, RunState, Unannounced, EventOf,
     api, process, faults
<1>9. CASE RunCompleted(j) \/ RunFailed(j) \/ RunCancelled(j)
  BY <1>1, <1>3, <1>9, RunTypes DEF RunCompleted, RunFailed, RunCancelled, Publish, Finally, RunState,
     Unannounced, EventOf, api, process, faults
<1>10. CASE RunCancelDelivered(j)
  BY <1>1, <1>3, <1>10, RunTypes DEF RunCancelDelivered, RunState, Unannounced, EventOf,
     api, process, faults
<1>11. CASE RunCancelledWhileEnding(j)
  BY <1>1, <1>3, <1>11, RunTypes DEF RunCancelledWhileEnding, Finally, RunState,
     Unannounced, EventOf, api, process, faults
<1>12. CASE RunClosed(j) \/ RunCloseRaised(j)
  BY <1>1, <1>2, <1>12 DEF RunClosed, RunCloseRaised, Advance, Finally, RunState, Awaits, Unannounced, EventOf,
     api, process, faults
<1> QED
  BY <1>4, <1>5, <1>6, <1>7, <1>8, <1>9, <1>10, <1>11, <1>12 DEF RunStep

-----------------------------------------------------------------------------
(* Each part of the invariant stays if the variables it reads do.           *)
LEMMA PartFrames ==
  ASSUME IInv
  PROVE  /\ UNCHANGED <<status, request>> => Rows'
         /\ UNCHANGED <<request, handler, run, events>> => Handed'
         /\ UNCHANGED <<status, report, handler, run>> => Alive'
         /\ UNCHANGED <<request, stop>> => StopsKnow'
         /\ UNCHANGED <<request, stop, feed, handler>> => FeedInOrder'
         /\ UNCHANGED <<request, call>> => CallsMoveOn'
         /\ UNCHANGED <<call, stop, run, worker>> => CallsHaveOwners'
         /\ UNCHANGED <<worker, feed, handler, run>> => QuietUntilConnected'
<1>1. UNCHANGED <<status, request>> => Rows'
  BY DEF IInv, Rows, RowFollowsStart
<1>2. UNCHANGED <<request, handler, run, events>> => Handed'
  BY DEF IInv, Handed, HandedOnce, Unannounced
<1>3. UNCHANGED <<status, report, handler, run>> => Alive'
  BY DEF IInv, Alive, RowIsLive
<1>4. UNCHANGED <<request, stop>> => StopsKnow'
  BY DEF IInv, StopsKnow, StopNamesJob, Present
<1>5. UNCHANGED <<request, stop, feed, handler>> => FeedInOrder'
  BY DEF IInv, FeedInOrder, IntentIsNew
<1>6. UNCHANGED <<request, call>> => CallsMoveOn'
  BY DEF IInv, CallsMoveOn, CallMovesOn, Present
<1>7. UNCHANGED <<call, stop, run, worker>> => CallsHaveOwners'
  BY DEF IInv, CallsHaveOwners, StopperCalls, RunnerCalls, RecoveryCalls
<1>8. UNCHANGED <<worker, feed, handler, run>> => QuietUntilConnected'
  BY DEF IInv, QuietUntilConnected
<1> QED
  BY <1>1, <1>2, <1>3, <1>4, <1>5, <1>6, <1>7, <1>8

RequestState == {"none", "checked", "inserted", "marked", "unsent", "answered"}

StopState == [pc  : {"none", "picked", "sent", "last resort", "handled",
                     "worker call", "api call", "done"},
              job : Jobs \cup {NoJob}]

(* The type invariant, with its composites and its names taken apart. *)
Typed ==
  /\ status \in [Jobs -> RawStatus \cup {Absent}]
  /\ call \in [Tasks -> CallType]
  /\ report \in [Tasks -> ReportType]
  /\ stale \in [Tasks -> SUBSET Jobs]
  /\ request \in [Jobs -> RequestState]
  /\ stop \in [Stops -> StopState]
  /\ worker \in {"down", "spawned", "recovering", "up", "terminating", "stopped"}
  /\ awaited \in Jobs \cup {NoJob}
  /\ \A i \in DOMAIN feed : feed[i] \in Message
  /\ handler \in [Jobs -> {"none", "spawned", "starting", "started", "done"}]
  /\ run \in [Jobs -> RunState]
  /\ cancelled \in [Jobs -> BOOLEAN]
  /\ activeTask \in Jobs \cup {NoJob} /\ stopRequested \in BOOLEAN
  /\ events \in [Jobs -> SUBSET {"completed", "failed"}]
  /\ crashes \in 0 .. MaxCrashes /\ lost \in 0 .. MaxLost

LEMMA Types == (TypeOK <=> Typed) /\ (TypeOK' <=> Typed')
BY SameStates DEF TypeOK, Store!TypeOK, Typed, CallType, ReportType, RequestState, StopState

-----------------------------------------------------------------------------
(* The feed. *)

LEMMA MessageForm ==
  ASSUME NEW m \in Message
  PROVE  \/ m[1] = "start" /\ m[2] \in Jobs /\ m = <<"start", m[2]>>
         \/ m[1] = "stop" /\ m[2] \in Stops /\ m = <<"stop", m[2]>>
BY DEF Message

LEMMA EmptyFeed ==
  ASSUME feed' = <<>>
  PROVE  FeedInOrder'
BY DEF FeedInOrder

LEMMA FeedGrows ==
  ASSUME FeedInOrder, NEW m \in Message, feed' = Append(feed, m),
         ~IntentIsNew(m), IntentIsNew(m)',
         \A n \in Message : IntentIsNew(n) => IntentIsNew(n)'
  PROVE  FeedInOrder' /\ \A i \in DOMAIN feed' : feed'[i] \in Message
<1>1. feed \in Seq(Message) /\ Len(feed) \in Nat /\ DOMAIN feed = 1 .. Len(feed)
  BY DEF FeedInOrder
<1>2. /\ feed' \in Seq(Message) /\ DOMAIN feed' = 1 .. (Len(feed) + 1)
      /\ feed'[Len(feed) + 1] = m
      /\ \A i \in 1 .. Len(feed) : feed'[i] = feed[i]
  BY <1>1
<1>3. \A i \in 1 .. Len(feed) : feed[i] \in Message /\ IntentIsNew(feed[i]) /\ feed[i] # m
  BY <1>1 DEF FeedInOrder
<1>4. \A i \in DOMAIN feed' : feed'[i] \in Message /\ IntentIsNew(feed[i])'
  <2> SUFFICES ASSUME NEW i \in DOMAIN feed' PROVE feed'[i] \in Message /\ IntentIsNew(feed[i])'
    OBVIOUS
  <2>1. CASE i \in 1 .. Len(feed)
    BY <1>2, <1>3, <2>1 DEF IntentIsNew
  <2>2. CASE i = Len(feed) + 1
    BY <1>2, <2>2 DEF IntentIsNew
  <2> QED
    BY <1>1, <1>2, <2>1, <2>2
<1>5. \A i, k \in DOMAIN feed' : feed'[i] = feed'[k] => i = k
  BY <1>1, <1>2, <1>3 DEF FeedInOrder
<1> QED
  BY <1>2, <1>4, <1>5 DEF FeedInOrder

LEMMA FeedHead ==
  ASSUME FeedInOrder, feed # <<>>
  PROVE  Head(feed) \in Message /\ IntentIsNew(Head(feed))
<1>1. /\ feed \in Seq(Message) /\ Len(feed) \in Nat /\ DOMAIN feed = 1 .. Len(feed)
      /\ Len(feed) # 0 /\ Head(feed) = feed[1]
  BY DEF FeedInOrder
<1>2. 1 \in DOMAIN feed
  BY <1>1
<1> QED
  BY <1>1, <1>2 DEF FeedInOrder

LEMMA FeedShrinks ==
  ASSUME FeedInOrder, feed # <<>>, feed' = Tail(feed),
         \A n \in Message : IntentIsNew(n) /\ n # Head(feed) => IntentIsNew(n)'
  PROVE  FeedInOrder' /\ \A i \in DOMAIN feed' : feed'[i] \in Message
<1>1. /\ feed \in Seq(Message) /\ Len(feed) \in Nat /\ DOMAIN feed = 1 .. Len(feed)
      /\ Len(feed) # 0 /\ Head(feed) = feed[1]
  BY DEF FeedInOrder
<1>2. /\ feed' \in Seq(Message) /\ DOMAIN feed' = 1 .. (Len(feed) - 1)
      /\ \A i \in 1 .. (Len(feed) - 1) : feed'[i] = feed[i + 1]
  BY <1>1
<1>3. \A i \in 1 .. Len(feed) : feed[i] \in Message /\ IntentIsNew(feed[i])
  BY <1>1 DEF FeedInOrder
<1>4. \A i \in 1 .. (Len(feed) - 1) : i + 1 \in 1 .. Len(feed) /\ feed[i + 1] # Head(feed)
  BY <1>1 DEF FeedInOrder
<1>5. \A i \in DOMAIN feed' : feed'[i] \in Message /\ IntentIsNew(feed[i])'
  BY <1>1, <1>2, <1>3, <1>4 DEF IntentIsNew
<1>6. \A i, k \in DOMAIN feed' : feed'[i] = feed'[k] => i = k
  BY <1>1, <1>2, <1>4 DEF FeedInOrder
<1> QED
  BY <1>2, <1>5, <1>6 DEF FeedInOrder

-----------------------------------------------------------------------------
(* POST .../start *)

(* A start request that gets on, short of being answered, concerns its own  *)
(* row only: neither a handler nor a strategy of its job exists yet.        *)
LEMMA RequestMoves ==
  ASSUME IInv, NEW j \in Jobs, NEW to \in RequestState,
         request[j] # "answered", Present(j) => to \notin {"none", "checked"},
         request' = [request EXCEPT ![j] = to],
         UNCHANGED <<call, report, stale, stop, worker, handler, run, events>>,
         \A i \in Jobs \ {j} : status'[i] = status[i],
         RowFollowsStart(j)'
  PROVE  /\ request' \in [Jobs -> RequestState]
         /\ Rows' /\ Handed' /\ Alive' /\ StopsKnow' /\ CallsMoveOn' /\ CallsHaveOwners'
         /\ feed' = feed /\ TypeOK' => IInv'
<1>1. /\ request' \in [Jobs -> RequestState]
      /\ request'[j] = to /\ \A i \in Jobs \ {j} : request'[i] = request[i]
  BY Types DEF IInv, Typed
<1>2. \A i \in Jobs : Present(i) => Present(i)'
  BY <1>1 DEF Present
<1>3. handler[j] = "none" /\ run[j] = "none"
  BY DEF IInv, Handed, HandedOnce, Unannounced
<1>4. Rows'
  BY <1>1 DEF IInv, Rows, RowFollowsStart
<1>5. Handed'
  BY <1>1, <1>3 DEF IInv, Handed, HandedOnce, Unannounced
<1>6. Alive'
  BY <1>3 DEF IInv, Alive, RowIsLive
<1>7. StopsKnow'
  BY <1>2 DEF IInv, StopsKnow, StopNamesJob
<1>8. CallsMoveOn'
  BY <1>2 DEF IInv, CallsMoveOn, CallMovesOn
<1>9. CallsHaveOwners'
  BY PartFrames
<1>10. feed' = feed => FeedInOrder' /\ QuietUntilConnected'
  BY <1>1, PartFrames, MessageForm DEF IInv, FeedInOrder, IntentIsNew
<1> QED
  BY <1>1, <1>4, <1>5, <1>6, <1>7, <1>8, <1>9, <1>10 DEF IInv

LEMMA StartRequestInvariant ==
  ASSUME IInv, NEW j \in Jobs,
         StartCheck(j) \/ StartInsert(j) \/ StartMarkRunning(j) \/ StartMarkFailed(j)
  PROVE  IInv'
<1>1. RowFollowsStart(j)
  BY DEF IInv, Rows
<1>2. CASE StartCheck(j)
  <2>1. RowFollowsStart(j)'
    BY <1>1, <1>2, Types DEF IInv, Typed, StartCheck, store, RowFollowsStart
  <2>2. TypeOK'
    BY <1>2, Types DEF IInv, Typed, StartCheck, store, process, coord, faults, RequestState
  <2>3. /\ request[j] = "none" /\ request' = [request EXCEPT ![j] = "checked"] /\ feed' = feed
        /\ UNCHANGED <<call, report, stale, stop, worker, handler, run, events>>
        /\ \A i \in Jobs \ {j} : status'[i] = status[i]
    BY <1>2, Types DEF IInv, Typed, StartCheck, store, process, coord
  <2>4. "checked" \in RequestState /\ (Present(j) => "checked" \notin {"none", "checked"})
    BY <2>3 DEF Present, RequestState
  <2> QED
    BY <2>1, <2>2, <2>3, <2>4, RequestMoves
<1>3. CASE StartInsert(j)
  <2>1. RowFollowsStart(j)'
    BY <1>3, Types DEF IInv, Typed, StartInsert, Store!Create, RowFollowsStart
  <2>2. TypeOK'
    BY <1>3, Types DEF IInv, Typed, StartInsert, Store!Create, process, coord, faults, RequestState, RawStatus
  <2>3. /\ request[j] = "checked" /\ request' = [request EXCEPT ![j] = "inserted"] /\ feed' = feed
        /\ UNCHANGED <<call, report, stale, stop, worker, handler, run, events>>
        /\ \A i \in Jobs \ {j} : status'[i] = status[i]
    BY <1>3, Types DEF IInv, Typed, StartInsert, Store!Create, process, coord
  <2>4. "inserted" \in RequestState /\ (Present(j) => "inserted" \notin {"none", "checked"})
    BY <2>3 DEF Present, RequestState
  <2> QED
    BY <2>1, <2>2, <2>3, <2>4, RequestMoves
<1>4. CASE StartMarkRunning(j)
  <2>1. RowFollowsStart(j)'
    BY <1>4, Types DEF IInv, Typed, StartMarkRunning, Overwrite, RowFollowsStart, Started, Live
  <2>2. TypeOK'
    BY <1>4, Types DEF IInv, Typed, StartMarkRunning, Overwrite, process, coord, faults, RequestState, RawStatus, JobState
  <2>3. /\ request[j] = "inserted" /\ request' = [request EXCEPT ![j] = "marked"] /\ feed' = feed
        /\ UNCHANGED <<call, report, stale, stop, worker, handler, run, events>>
        /\ \A i \in Jobs \ {j} : status'[i] = status[i]
    BY <1>4, Types DEF IInv, Typed, StartMarkRunning, Overwrite, process, coord
  <2>4. "marked" \in RequestState /\ (Present(j) => "marked" \notin {"none", "checked"})
    BY <2>3 DEF Present, RequestState
  <2> QED
    BY <2>1, <2>2, <2>3, <2>4, RequestMoves
<1>5. CASE StartMarkFailed(j)
  <2>1. RowFollowsStart(j)'
    BY <1>5, Types DEF IInv, Typed, StartMarkFailed, Overwrite, RowFollowsStart, Started, Live
  <2>2. TypeOK'
    BY <1>5, Types DEF IInv, Typed, StartMarkFailed, Overwrite, process, coord, faults, RequestState, RawStatus, JobState
  <2>3. /\ request[j] = "unsent" /\ request' = [request EXCEPT ![j] = "answered"] /\ feed' = feed
        /\ UNCHANGED <<call, report, stale, stop, worker, handler, run, events>>
        /\ \A i \in Jobs \ {j} : status'[i] = status[i]
    BY <1>5, Types DEF IInv, Typed, StartMarkFailed, Overwrite, process, coord
  <2>4. "answered" \in RequestState /\ (Present(j) => "answered" \notin {"none", "checked"})
    BY <2>3 DEF Present, RequestState
  <2> QED
    BY <2>1, <2>2, <2>3, <2>4, RequestMoves
<1> QED
  BY <1>2, <1>3, <1>4, <1>5

LEMMA StartSendInvariant ==
  ASSUME IInv, NEW j \in Jobs, StartSend(j)
  PROVE  IInv'
<1>1. RowFollowsStart(j) /\ handler[j] = "none"
  BY DEF IInv, Rows, Handed, HandedOnce, Unannounced, StartSend
<1>2. /\ request[j] = "marked"
      /\ UNCHANGED <<status, call, report, stale, stop, worker, awaited, handler, run, cancelled,
                     activeTask, stopRequested, events, crashes, lost>>
  BY DEF StartSend, store, process, coord, faults
<1>3. CASE Connected /\ request' = [request EXCEPT ![j] = "answered"] /\ feed' = Append(feed, <<"start", j>>)
  <2>1. <<"start", j>> \in Message
    BY DEF Message
  <2>2. request' \in [Jobs -> RequestState] /\ request'[j] = "answered"
        /\ \A i \in Jobs \ {j} : request'[i] = request[i]
    BY <1>3, Types DEF IInv, Typed, RequestState
  <2>3. FeedInOrder' /\ \A i \in DOMAIN feed' : feed'[i] \in Message
    <3>1. \A n \in Message : IntentIsNew(n) => IntentIsNew(n)'
      BY <1>2, <2>2, MessageForm DEF IntentIsNew
    <3>2. ~IntentIsNew(<<"start", j>>) /\ IntentIsNew(<<"start", j>>)'
      BY <1>1, <1>2, <2>2 DEF IntentIsNew
    <3> QED
      BY <1>3, <2>1, <3>1, <3>2, FeedGrows DEF IInv
  <2>4. RowFollowsStart(j)'
    BY <1>1, <1>2, <2>2 DEF RowFollowsStart
  <2>5. /\ Rows' /\ Handed' /\ Alive' /\ StopsKnow' /\ CallsMoveOn' /\ CallsHaveOwners'
    BY <1>2, <1>3, <2>4, RequestMoves DEF RequestState
  <2>6. TypeOK'
    BY <1>2, <2>2, <2>3, Types DEF IInv, Typed
  <2>7. QuietUntilConnected'
    BY <1>2, <1>3 DEF QuietUntilConnected, Connected
  <2> QED
    BY <2>3, <2>5, <2>6, <2>7 DEF IInv
<1>4. CASE request' = [request EXCEPT ![j] = "unsent"] /\ UNCHANGED feed
  <2>1. RowFollowsStart(j)' /\ TypeOK'
    BY <1>1, <1>2, <1>4, Types DEF IInv, Typed, RowFollowsStart, RequestState
  <2> QED
    BY <1>2, <1>4, <2>1, RequestMoves DEF RequestState
<1> QED
  BY <1>3, <1>4 DEF StartSend

-----------------------------------------------------------------------------
(* POST .../stop, and request_stop() in either process. *)

(* list_active() is asked for the first job of a kind. *)
LEMMA StopPicksListed ==
  ASSUME NEW s \in Stops, NEW kind, StopPick(s, kind)
  PROVE  \E j \in Listed : stop' = [stop EXCEPT ![s] = [pc |-> "picked", job |-> j]]
<1> DEFINE mine  == {j \in Listed : Kind[j] = kind}
           first == CHOOSE j \in mine : \A i \in mine : j <= i
<1>1. mine \in SUBSET Nat /\ mine # {} /\ mine \subseteq Listed
  BY CrawlerAssumption DEF StopPick, Listed, Jobs
<1>2. stop' = [stop EXCEPT ![s] = [pc |-> "picked", job |-> first]]
  BY DEF StopPick
<1> HIDE DEF mine
<1>3. \E k \in mine : \A i \in mine : k <= i
  BY <1>1, SmallestIsThere
<1>4. first \in mine
  BY <1>3
<1> QED
  BY <1>1, <1>2, <1>4

(* A stop request that gets on concerns nobody else's intent and, unless it *)
(* calls the lifecycle, no call.                                            *)
LEMMA StopMoves ==
  ASSUME IInv, NEW s \in Stops, stop' \in [Stops -> StopState], stop[s].pc # "sent",
         \A r \in Stops \ {s} : stop'[r] = stop[r], StopNamesJob(s)',
         UNCHANGED <<status, stale, request, process, coord, faults>>
  PROVE  /\ Rows' /\ Handed' /\ StopsKnow'
         /\ feed' = feed => FeedInOrder' /\ QuietUntilConnected'
<1>1. UNCHANGED <<request, worker, handler, run, events>>
  BY DEF process, coord
<1>2. Rows' /\ Handed'
  BY <1>1, PartFrames
<1>3. StopsKnow'
  BY <1>1 DEF IInv, StopsKnow, StopNamesJob, Present
<1>4. feed' = feed => FeedInOrder' /\ QuietUntilConnected'
  <2>1. \A n \in Message : IntentIsNew(n) => IntentIsNew(n)'
    BY <1>1, MessageForm DEF IntentIsNew
  <2>2. feed' = feed => FeedInOrder'
    BY <2>1 DEF IInv, FeedInOrder, IntentIsNew
  <2> QED
    BY <1>1, <2>2, PartFrames
<1> QED
  BY <1>2, <1>3, <1>4

(* The stop requests that have not reached their lifecycle call. *)
LEMMA StopperIdle ==
  ASSUME IInv, NEW s \in Stops, stop[s].pc \notin {"worker call", "api call"}
  PROVE  call[Stopper(s)].pc = "idle"
BY DEF IInv, CallsHaveOwners, StopperCalls

(* Only the named task's call moves: the others keep their owners. *)
LEMMA CallsKeepOwners ==
  ASSUME IInv, NEW t \in Tasks, CallMoves(t),
         CallMovesOn(t)', UNCHANGED request
  PROVE  CallsMoveOn'
BY DEF IInv, CallsMoveOn, CallMovesOn, CallMoves, Present

LEMMA StopperCallMoves ==
  ASSUME IInv, NEW s \in Stops, CallMoves(Stopper(s)), StopperCalls(s)',
         UNCHANGED <<run, worker>>, \A r \in Stops \ {s} : stop'[r] = stop[r]
  PROVE  CallsHaveOwners'
<1>1. \A j \in Jobs : call'[Handler(j)] = call[Handler(j)] /\ call'[Runner(j)] = call[Runner(j)]
  BY TaskNames DEF CallMoves
<1>2. call'[Recovery] = call[Recovery] /\ \A r \in Stops \ {s} : call'[Stopper(r)] = call[Stopper(r)]
  BY TaskNames DEF CallMoves
<1>3. \A j \in Jobs : call'[Handler(j)].pc = "idle"
  BY <1>1 DEF IInv, CallsHaveOwners
<1>4. \A r \in Stops : StopperCalls(r)'
  BY <1>2 DEF IInv, CallsHaveOwners, StopperCalls
<1>5. \A j \in Jobs : RunnerCalls(j)'
  BY <1>1 DEF IInv, CallsHaveOwners, RunnerCalls
<1>6. RecoveryCalls'
  BY <1>2 DEF IInv, CallsHaveOwners, RecoveryCalls
<1> QED
  BY <1>3, <1>4, <1>5, <1>6 DEF CallsHaveOwners

LEMMA StopPickInvariant ==
  ASSUME IInv, NEW s \in Stops, NEW kind, StopPick(s, kind)
  PROVE  IInv'
<1>1. PICK j \in Listed : stop' = [stop EXCEPT ![s] = [pc |-> "picked", job |-> j]]
  BY StopPicksListed
<1>2. stop[s].pc = "none" /\ UNCHANGED <<store, request, process, feed, coord, faults>>
  BY DEF StopPick
<1>3. j \in Jobs /\ Present(j)
  BY <1>1, RowStates DEF Listed, Absent
<1>4. /\ stop' \in [Stops -> StopState] /\ stop'[s] = [pc |-> "picked", job |-> j]
      /\ \A r \in Stops \ {s} : stop'[r] = stop[r]
  BY <1>1, <1>3, Types DEF IInv, Typed, StopState
<1>5. StopNamesJob(s)'
  BY <1>2, <1>3, <1>4 DEF StopNamesJob, Present
<1>6. Rows' /\ Handed' /\ StopsKnow' /\ FeedInOrder' /\ QuietUntilConnected'
  BY <1>2, <1>4, <1>5, StopMoves DEF store
<1>7. TypeOK'
  BY <1>2, <1>4, Types DEF IInv, Typed, store, process, coord, faults
<1>8. Alive' /\ CallsMoveOn'
  BY <1>2, PartFrames DEF store, coord
<1>9. CallsHaveOwners'
  BY <1>2, <1>4, StopperIdle DEF IInv, CallsHaveOwners, StopperCalls, RunnerCalls, RecoveryCalls, store, process, coord
<1> QED
  BY <1>6, <1>7, <1>8, <1>9 DEF IInv

LEMMA StopForwardInvariant ==
  ASSUME IInv, NEW s \in Stops, StopForward(s) \/ StopLastResort(s)
  PROVE  IInv'
<1>1. stop[s].pc = "picked" /\ UNCHANGED <<store, request, process, coord, faults>>
  BY DEF StopForward, StopLastResort
<1>2. PICK pc \in {"sent", "done", "last resort"} :
        /\ stop' = [stop EXCEPT ![s].pc = pc]
        /\ \/ pc = "sent" /\ Connected /\ feed' = Append(feed, <<"stop", s>>)
           \/ pc # "sent" /\ feed' = feed
  BY DEF StopForward, StopLastResort
<1>3. /\ stop' \in [Stops -> StopState] /\ stop'[s].pc = pc /\ stop'[s].job = stop[s].job
      /\ \A r \in Stops \ {s} : stop'[r] = stop[r]
  <2>1. stop \in [Stops -> StopState] /\ stop' = [stop EXCEPT ![s].pc = pc]
    BY <1>2, Types DEF IInv, Typed
  <2>2. pc \in {"none", "picked", "sent", "last resort", "handled", "worker call", "api call", "done"}
    BY <1>2
  <2> QED
    BY <2>1, <2>2 DEF StopState
<1>4. StopNamesJob(s)'
  BY <1>1, <1>3 DEF IInv, StopsKnow, StopNamesJob, Present
<1>5. Rows' /\ Handed' /\ StopsKnow' /\ (feed' = feed => FeedInOrder' /\ QuietUntilConnected')
  BY <1>1, <1>3, <1>4, StopMoves DEF store
<1>6. Alive' /\ CallsMoveOn'
  BY <1>1, PartFrames DEF store, coord
<1>7. CallsHaveOwners'
  BY <1>1, <1>3, StopperIdle DEF IInv, CallsHaveOwners, StopperCalls, RunnerCalls, RecoveryCalls, store, process, coord
<1>8. FeedInOrder' /\ QuietUntilConnected' /\ \A i \in DOMAIN feed' : feed'[i] \in Message
  <2>1. CASE feed' = feed
    BY <1>5, <2>1, Types DEF IInv, Typed
  <2>2. CASE pc = "sent" /\ Connected /\ feed' = Append(feed, <<"stop", s>>)
    <3>1. <<"stop", s>> \in Message
      BY DEF Message
    <3>2. \A n \in Message : IntentIsNew(n) => IntentIsNew(n)'
      BY <1>1, <1>3, MessageForm DEF IntentIsNew, coord
    <3>3. ~IntentIsNew(<<"stop", s>>) /\ IntentIsNew(<<"stop", s>>)'
      BY <1>1, <1>3, <2>2 DEF IntentIsNew
    <3>4. QuietUntilConnected'
      BY <1>1, <2>2 DEF QuietUntilConnected, Connected, process
    <3> QED
      BY <2>2, <3>1, <3>2, <3>3, <3>4, FeedGrows DEF IInv
  <2> QED
    BY <1>2, <2>1, <2>2
<1>9. TypeOK'
  BY <1>1, <1>3, <1>8, Types DEF IInv, Typed, store, process, coord, faults
<1> QED
  BY <1>5, <1>6, <1>7, <1>8, <1>9 DEF IInv

LEMMA StoppingInvariant ==
  ASSUME IInv, NEW s \in Stops, Stopping(s)
  PROVE  IInv'
<1> DEFINE t == Stopper(s)
           j == stop[s].job
<1>1. /\ stop[s].pc \in {"last resort", "handled"} /\ Store!Lifecycle(t, j, "cancelled")
      /\ UNCHANGED <<request, process, feed, coord, faults>>
  BY DEF Stopping
<1>2. /\ stop' \in [Stops -> StopState] /\ stop'[s].job = j
      /\ stop'[s].pc \in {"worker call", "api call"}
      /\ \A r \in Stops \ {s} : stop'[r] = stop[r]
  BY ZenonT(30), Types DEF IInv, Typed, StopState, Stopping
<1>3. j \in Jobs /\ Present(j) /\ StopNamesJob(s)'
  BY <1>1, <1>2 DEF IInv, StopsKnow, StopNamesJob, Present
<1>4. t \in Tasks /\ "cancelled" \in Ends
  BY TaskNames DEF Ends
<1>5. /\ status' = status /\ stale' = stale /\ CallMoves(t)
      /\ call'[t].pc # "idle" =>
            /\ call'[t].job = j /\ call'[t].target = "cancelled"
            /\ call'[t].prev \in {"queued", "running", "stopping"}
  <2>1. Store!Read(t, j, "cancelled", FALSE) /\ stale' = stale
    BY <1>1 DEF Store!Lifecycle
  <2> QED
    BY <1>3, <1>4, <2>1, CommandReads
<1>6. Rows' /\ Handed' /\ StopsKnow' /\ FeedInOrder' /\ QuietUntilConnected'
  BY <1>1, <1>2, <1>3, <1>5, StopMoves
<1>7. TypeOK'
  BY <1>1, <1>2, <1>5, Types DEF IInv, Typed, CallMoves, process, coord, faults
<1>8. Alive'
  BY <1>1, <1>5, TaskNames DEF IInv, Alive, RowIsLive, CallMoves, coord
<1>9. CallsMoveOn'
  <2>1. CallMovesOn(t)'
    BY <1>1, <1>3, <1>5 DEF CallMovesOn, Present
  <2> QED
    BY <1>1, <1>4, <1>5, <2>1, CallsKeepOwners
<1>10. CallsHaveOwners'
  BY <1>1, <1>2, <1>5, StopperCallMoves DEF StopperCalls, process, coord
<1> QED
  BY <1>6, <1>7, <1>8, <1>9, <1>10 DEF IInv

LEMMA StopReturnInvariant ==
  ASSUME IInv, NEW s \in Stops, StopReturn(s)
  PROVE  IInv'
<1> DEFINE t == Stopper(s)
<1>1. /\ stop[s].pc \in {"worker call", "api call"} /\ Returned(t)
      /\ UNCHANGED <<request, process, feed, coord, faults>>
  BY DEF StopReturn
<1>2. /\ stop' \in [Stops -> StopState] /\ stop'[s].job = stop[s].job /\ stop'[s].pc = "done"
      /\ \A r \in Stops \ {s} : stop'[r] = stop[r]
  BY ZenonT(30), Types DEF IInv, Typed, StopState, StopReturn
<1>3. StopNamesJob(s)'
  BY <1>1, <1>2 DEF IInv, StopsKnow, StopNamesJob, Present
<1>4. t \in Tasks /\ UNCHANGED <<status, stale>> /\ CallMoves(t) /\ call'[t].pc = "idle"
  BY <1>1, TaskNames, CallEnds
<1>5. Rows' /\ Handed' /\ StopsKnow' /\ FeedInOrder' /\ QuietUntilConnected'
  BY <1>1, <1>2, <1>3, <1>4, StopMoves
<1>6. TypeOK'
  BY <1>1, <1>2, <1>4, Types DEF IInv, Typed, CallMoves, process, coord, faults
<1>7. Alive'
  BY <1>1, <1>4, TaskNames DEF IInv, Alive, RowIsLive, CallMoves, coord
<1>8. CallsMoveOn'
  BY <1>1, <1>4, CallsKeepOwners DEF CallMovesOn
<1>9. CallsHaveOwners'
  BY <1>1, <1>2, <1>4, StopperCallMoves DEF StopperCalls, process, coord
<1> QED
  BY <1>5, <1>6, <1>7, <1>8, <1>9 DEF IInv

-----------------------------------------------------------------------------
(* run_crawl and run_bruteforce *)

LEMMA OtherThanRunner ==
  ASSUME NEW j \in Jobs
  PROVE  /\ \A i \in Jobs : Handler(i) \in Tasks \ {Runner(j)}
         /\ \A i \in Jobs \ {j} : Runner(i) \in Tasks \ {Runner(j)}
         /\ \A s \in Stops : Stopper(s) \in Tasks \ {Runner(j)}
         /\ Recovery \in Tasks \ {Runner(j)}
BY DEF Tasks, Handler, Runner, Stopper, Recovery

LEMMA OtherThanHandler ==
  ASSUME NEW j \in Jobs
  PROVE  /\ \A i \in Jobs \ {j} : Handler(i) \in Tasks \ {Handler(j)}
         /\ \A i \in Jobs : Runner(i) \in Tasks \ {Handler(j)}
         /\ \A s \in Stops : Stopper(s) \in Tasks \ {Handler(j)}
         /\ Recovery \in Tasks \ {Handler(j)}
BY DEF Tasks, Handler, Runner, Stopper, Recovery

LEMMA RunStepInvariant ==
  ASSUME IInv, NEW j \in Jobs, RunStep(j)
  PROVE  IInv'
<1> DEFINE t == Runner(j)
<1>1. /\ UNCHANGED <<status, stale, request, stop, worker, awaited, feed, handler, crashes, lost>>
      /\ run' \in [Jobs -> RunState] /\ \A i \in Jobs \ {j} : run'[i] = run[i]
      /\ run[j] \notin {"none", "done"} /\ run'[j] \notin {"none", "spawned"}
      /\ run'[j] \in {"working", "completing"} => run[j] \in {"spawned", "working"}
      /\ cancelled' \in [Jobs -> BOOLEAN] /\ activeTask' \in Jobs \cup {NoJob} /\ stopRequested' \in BOOLEAN
  BY RunStepMoves
<1>2. EventOf(j) /\ (run'[j] \in Unannounced => run[j] \in Unannounced)
  BY RunStepMoves
<1>3. /\ CallMoves(t)
      /\ call'[t].pc # "idle" =>
           /\ run'[j] \in Awaits /\ Present(j) /\ call'[t].job = j
           /\ call'[t].target \in Ends
           /\ call'[t].prev \in {"queued", "running", "stopping"}
  BY RunStepMoves
<1>4. t \in Tasks
  BY TaskNames
<1>5. /\ events \in [Jobs -> SUBSET {"completed", "failed"}] /\ "failed" \notin events[j]
      /\ run[j] \in Unannounced \/ Kind[j] # "bruteforce" => events[j] = {}
      /\ handler[j] = "done"
  BY <1>1, Types DEF IInv, Typed, Handed, HandedOnce, Unannounced
<1>6. /\ events' \in [Jobs -> SUBSET {"completed", "failed"}]
      /\ \A i \in Jobs \ {j} : events'[i] = events[i]
      /\ run'[j] # "done" => "failed" \notin events'[j]
      /\ run'[j] \in Unannounced \/ (Kind[j] # "bruteforce" /\ run'[j] # "done") => events'[j] = {}
  <2>1. run'[j] \in Unannounced \/ (Kind[j] # "bruteforce" /\ run'[j] # "done")
          => events' = events /\ events[j] = {}
    BY <1>2, <1>5 DEF EventOf, Unannounced
  <2> QED
    BY <1>2, <1>5, <2>1 DEF EventOf
<1>7. TypeOK'
  BY <1>1, <1>3, <1>6, Types DEF IInv, Typed, CallMoves
<1>8. Rows' /\ StopsKnow' /\ FeedInOrder'
  BY <1>1, PartFrames
<1>9. Handed'
  BY <1>1, <1>5, <1>6 DEF IInv, Handed, HandedOnce, Unannounced
<1>10. Alive'
  <2>1. \A i \in Jobs : report'[Handler(i)] = report[Handler(i)]
    BY <1>3, OtherThanRunner DEF CallMoves
  <2> QED
    BY <1>1, <2>1 DEF IInv, Alive, RowIsLive
<1>11. CallsMoveOn'
  <2>1. CallMovesOn(t)'
    BY <1>1, <1>3 DEF CallMovesOn, Present, Ends
  <2> QED
    BY <1>1, <1>3, <1>4, <2>1, CallsKeepOwners
<1>12. CallsHaveOwners'
  <2>1. /\ \A i \in Jobs : call'[Handler(i)] = call[Handler(i)]
        /\ \A i \in Jobs \ {j} : call'[Runner(i)] = call[Runner(i)]
        /\ \A s \in Stops : call'[Stopper(s)] = call[Stopper(s)]
        /\ call'[Recovery] = call[Recovery]
    BY <1>3, OtherThanRunner DEF CallMoves
  <2>2. \A i \in Jobs : call'[Handler(i)].pc = "idle"
    BY <2>1 DEF IInv, CallsHaveOwners
  <2>3. \A s \in Stops : StopperCalls(s)'
    BY <1>1, <2>1 DEF IInv, CallsHaveOwners, StopperCalls
  <2>4. \A i \in Jobs : RunnerCalls(i)'
    BY <1>1, <1>3, <2>1 DEF IInv, CallsHaveOwners, RunnerCalls
  <2>5. RecoveryCalls'
    BY <1>1, <2>1 DEF IInv, CallsHaveOwners, RecoveryCalls
  <2> QED
    BY <2>2, <2>3, <2>4, <2>5 DEF CallsHaveOwners
<1>13. QuietUntilConnected'
  BY <1>1 DEF IInv, QuietUntilConnected
<1> QED
  BY <1>7, <1>8, <1>9, <1>10, <1>11, <1>12, <1>13 DEF IInv

-----------------------------------------------------------------------------
(* The database steps of pending calls. *)

(* Who writes over which state of a row.  A row that its start handler has  *)
(* not yet marked is only cancelled, by a stop.                             *)
LEMMA WriterKnowsRow ==
  ASSUME IInv, NEW t \in Tasks, call[t].pc # "idle", call[t].prev = status[call[t].job]
  PROVE  /\ request[call[t].job] \in {"inserted", "marked", "unsent", "answered"}
         /\ request[call[t].job] = "inserted" => call[t].prev = "queued" /\ call[t].target = "cancelled"
<1> DEFINE j == call[t].job
<1>1. /\ j \in Jobs /\ Present(j) /\ call[t].prev \in {"queued", "running", "stopping"}
  BY DEF IInv, CallsMoveOn, CallMovesOn
<1>2. request[j] \in {"inserted", "marked", "unsent", "answered"}
  BY <1>1, Types DEF IInv, Typed, Present, RequestState
<1>3. request[j] = "inserted" => call[t].prev = "queued"
  BY <1>1 DEF IInv, Rows, RowFollowsStart
<1>4. ASSUME request[j] = "inserted" PROVE call[t].target = "cancelled"
  <2>1. \A i \in Jobs : t # Handler(i)
    BY DEF IInv, CallsHaveOwners
  <2>2. t # Recovery
    BY <1>3, <1>4 DEF IInv, CallsHaveOwners, RecoveryCalls
  <2>3. ASSUME NEW i \in Jobs, t = Runner(i) PROVE FALSE
    <3>1. run[i] \in Awaits /\ j = i
      BY <2>3 DEF IInv, CallsHaveOwners, RunnerCalls
    <3> QED
      BY <1>4, <3>1 DEF IInv, Handed, HandedOnce, Unannounced, Awaits
  <2>4. PICK s \in Stops : t = Stopper(s)
    BY <2>1, <2>2, <2>3, TaskNames
  <2> QED
    BY <2>4 DEF IInv, CallsHaveOwners, StopperCalls
<1> QED
  BY <1>2, <1>3, <1>4

LEMMA PersistInvariant ==
  ASSUME IInv, NEW t \in Tasks, Persist(t)
  PROVE  IInv'
<1>1. Store!Proceed(t) /\ UNCHANGED <<api, process, feed, coord, faults>>
  BY DEF Persist
<1>2. call[t].pc # "idle" /\ CallMoves(t) /\ stale' = stale
  BY <1>1, PersistMoves
<1>3. call'[t].pc # "idle" =>
        /\ call'[t].job = call[t].job /\ call'[t].target = call[t].target
        /\ \/ call'[t].prev = call[t].prev
           \/ call[t].target = "cancelled" /\ call'[t].prev = "stopping"
  BY <1>1, PersistMoves
<1>4. CallMovesOn(t) /\ call[t].job \in Jobs
  BY <1>2 DEF IInv, CallsMoveOn, CallMovesOn
<1> PICK j \in Jobs : j = call[t].job
  BY <1>4
<1>5. \/ status' = status
      \/ \E step \in Moved :
           /\ status[j] = call[t].prev
           /\ status' = [status EXCEPT ![j] = step]
           /\ call[t].target = "cancelled" => step \in {"stopping", "cancelled"}
           /\ call[t].target = "cancelled" /\ call[t].prev = "queued" => step = "cancelled"
  BY <1>1, PersistMoves
(* The row that may have been written. *)
<1>6. /\ status' \in [Jobs -> RawStatus \cup {Absent}]
      /\ \A i \in Jobs \ {j} : status'[i] = status[i]
      /\ \/ status'[j] = status[j]
         \/ /\ status[j] = call[t].prev /\ status'[j] \in Moved
            /\ call[t].target = "cancelled" => status'[j] \in {"stopping", "cancelled"}
            /\ call[t].target = "cancelled" /\ call[t].prev = "queued" => status'[j] = "cancelled"
  BY <1>4, <1>5, Types DEF IInv, Typed, Moved, RawStatus, JobState
<1>7. \/ call[t].target = "cancelled"
      \/ handler[j] \in {"none", "done"} /\ run[j] \notin {"spawned", "working", "completing"}
  <2>1. CASE \E s \in Stops : t = Stopper(s)
    BY <1>2, <2>1 DEF IInv, CallsHaveOwners, StopperCalls
  <2>2. ASSUME NEW i \in Jobs, t = Runner(i)
        PROVE  handler[j] \in {"none", "done"} /\ run[j] \notin {"spawned", "working", "completing"}
    <3>1. run[i] \in Awaits /\ j = i
      BY <1>2, <2>2 DEF IInv, CallsHaveOwners, RunnerCalls
    <3> QED
      BY <3>1 DEF IInv, Handed, HandedOnce, Unannounced, Awaits
  <2>3. CASE t = Recovery
    BY <1>2, <1>4, <2>3 DEF IInv, CallsHaveOwners, RecoveryCalls, QuietUntilConnected
  <2>4. \A i \in Jobs : t # Handler(i)
    BY <1>2 DEF IInv, CallsHaveOwners
  <2> QED
    BY <2>1, <2>2, <2>3, <2>4, TaskNames
<1>8. TypeOK'
  BY <1>1, <1>2, <1>6, Types DEF IInv, Typed, CallMoves, api, process, coord, faults
<1>9. Rows'
  <2>1. RowFollowsStart(j)'
    <3>1. RowFollowsStart(j)
      BY <1>4 DEF IInv, Rows
    <3>2. CASE status'[j] = status[j]
      BY <1>1, <3>1, <3>2 DEF RowFollowsStart, api
    <3>3. CASE status[j] = call[t].prev /\ status'[j] \in Moved
      BY <1>1, <1>2, <1>6, <3>1, <3>3, WriterKnowsRow DEF RowFollowsStart, api, Moved, Started, Live
    <3> QED
      BY <1>6, <3>2, <3>3
  <2>2. \A i \in Jobs \ {j} : RowFollowsStart(i)'
    BY <1>1, <1>6 DEF IInv, Rows, RowFollowsStart, api
  <2> QED
    BY <2>1, <2>2 DEF Rows
<1>10. Alive'
  <2>1. \A i \in Jobs : report'[Handler(i)] = report[Handler(i)]
    BY <1>2, TaskNames DEF IInv, CallsHaveOwners, CallMoves
  <2>2. \A i \in Jobs \ {j} : RowIsLive(i)'
    BY <1>1, <1>6, <2>1 DEF IInv, Alive, RowIsLive, coord
  <2>3. RowIsLive(j)'
    <3>1. RowIsLive(j)
      BY <1>4 DEF IInv, Alive
    <3> QED
      BY <1>1, <1>4, <1>6, <1>7, <2>1, <3>1 DEF RowIsLive, coord, Live
  <2> QED
    BY <2>2, <2>3 DEF Alive
<1>11. Handed' /\ StopsKnow' /\ FeedInOrder' /\ QuietUntilConnected'
  BY <1>1, PartFrames DEF api, process, coord
<1>12. CallsMoveOn'
  <2>1. CallMovesOn(t)'
    BY <1>1, <1>2, <1>3, <1>4 DEF CallMovesOn, Present, api
  <2> QED
    BY <1>1, <1>2, <2>1, CallsKeepOwners DEF api
<1>13. CallsHaveOwners'
  <2>1. \A u \in Tasks : call'[u].pc # "idle" =>
          /\ call[u].pc # "idle" /\ call'[u].job = call[u].job /\ call'[u].target = call[u].target
          /\ call[u].target # "cancelled" => call'[u].prev = call[u].prev
    BY <1>2, <1>3 DEF CallMoves
  <2>2. \A i \in Jobs : call'[Handler(i)].pc = "idle"
    BY <2>1, TaskNames DEF IInv, CallsHaveOwners
  <2>3. \A s \in Stops : StopperCalls(s)'
    BY <1>1, <2>1, TaskNames DEF IInv, CallsHaveOwners, StopperCalls, api
  <2>4. \A i \in Jobs : RunnerCalls(i)'
    BY <1>1, <2>1, TaskNames DEF IInv, CallsHaveOwners, RunnerCalls, coord
  <2>5. RecoveryCalls'
    BY <1>1, <2>1, TaskNames DEF IInv, CallsHaveOwners, RecoveryCalls, process
  <2> QED
    BY <2>2, <2>3, <2>4, <2>5 DEF CallsHaveOwners
<1> QED
  BY <1>8, <1>9, <1>10, <1>11, <1>12, <1>13 DEF IInv

-----------------------------------------------------------------------------
(* _on_feed_event() and the start handlers *)

(* The first intent of the feed is a stop: it is dropped or taken up. *)
LEMMA StopLeavesFeed ==
  ASSUME IInv, NEW s \in Stops, NEW pc \in {"done", "handled"},
         feed # <<>>, Head(feed) = <<"stop", s>>, feed' = Tail(feed),
         stop' = [stop EXCEPT ![s].pc = pc], UNCHANGED <<call, request, handler, run, worker>>
  PROVE  /\ stop' \in [Stops -> StopState]
         /\ StopsKnow' /\ FeedInOrder' /\ CallsHaveOwners' /\ QuietUntilConnected'
         /\ \A i \in DOMAIN feed' : feed'[i] \in Message
<1>1. stop \in [Stops -> StopState] /\ FeedInOrder
  BY Types DEF IInv, Typed
<1>2. stop[s].pc = "sent"
  BY <1>1, FeedHead DEF IntentIsNew
<1>3. stop' \in [Stops -> StopState]
  BY <1>1 DEF StopState
<1>4. /\ stop'[s].pc = pc /\ stop'[s].job = stop[s].job
      /\ \A r \in Stops \ {s} : stop'[r] = stop[r]
  BY <1>1 DEF StopState
<1>5. StopsKnow'
  BY <1>2, <1>4 DEF IInv, StopsKnow, StopNamesJob, Present
<1>6. FeedInOrder' /\ \A i \in DOMAIN feed' : feed'[i] \in Message
  <2>1. \A n \in Message : IntentIsNew(n) /\ n # Head(feed) => IntentIsNew(n)'
    BY <1>4, MessageForm DEF IntentIsNew
  <2> QED
    BY <1>1, <2>1, FeedShrinks
<1>7. CallsHaveOwners'
  <2>1. \A r \in Stops : StopperCalls(r)'
    BY <1>2, <1>4 DEF IInv, CallsHaveOwners, StopperCalls
  <2> QED
    BY <2>1 DEF IInv, CallsHaveOwners, RunnerCalls, RecoveryCalls
<1>8. QuietUntilConnected'
  BY DEF IInv, QuietUntilConnected
<1> QED
  BY <1>3, <1>5, <1>6, <1>7, <1>8

LEMMA FeedDropInvariant ==
  ASSUME IInv, FeedDrop
  PROVE  IInv'
<1>1. /\ feed # <<>> /\ feed' = Tail(feed) /\ UNCHANGED <<store, request, process, coord, crashes>>
      /\ lost' \in 0 .. MaxLost
  BY CrawlerAssumption, Types DEF FeedDrop, IInv, Typed
<1>2. Head(feed) \in Message /\ FeedInOrder
  BY <1>1, FeedHead DEF IInv
<1>3. /\ stop' \in [Stops -> StopState]
      /\ StopsKnow' /\ FeedInOrder' /\ CallsHaveOwners' /\ QuietUntilConnected'
      /\ \A i \in DOMAIN feed' : feed'[i] \in Message
  <2>1. CASE Head(feed)[1] = "stop"
    <3>1. PICK s \in Stops : Head(feed) = <<"stop", s>> /\ Head(feed)[2] = s
      BY <1>2, <2>1, MessageForm
    <3>2. stop' = [stop EXCEPT ![s].pc = "done"]
      BY <2>1, <3>1 DEF FeedDrop
    <3> QED
      BY <1>1, <3>1, <3>2, StopLeavesFeed DEF store, process, coord
  <2>2. CASE Head(feed)[1] # "stop"
    <3>1. stop' = stop
      BY <2>2 DEF FeedDrop
    <3>2. \A n \in Message : IntentIsNew(n) => IntentIsNew(n)'
      BY <1>1, <3>1 DEF IntentIsNew, coord
    <3>3. FeedInOrder' /\ \A i \in DOMAIN feed' : feed'[i] \in Message
      BY <1>1, <1>2, <3>2, FeedShrinks
    <3>4. StopsKnow' /\ CallsHaveOwners'
      BY <1>1, <3>1, PartFrames DEF store, process, coord
    <3>5. QuietUntilConnected'
      BY <1>1 DEF IInv, QuietUntilConnected, process, coord
    <3> QED
      BY <3>1, <3>3, <3>4, <3>5, Types DEF IInv, Typed
  <2> QED
    BY <2>1, <2>2
<1>4. Rows' /\ Handed' /\ Alive' /\ CallsMoveOn'
  BY <1>1, PartFrames DEF store, coord
<1>5. TypeOK'
  BY <1>1, <1>3, Types DEF IInv, Typed, store, process, coord
<1> QED
  BY <1>3, <1>4, <1>5 DEF IInv

LEMMA DeliverStopInvariant ==
  ASSUME IInv, DeliverStop
  PROVE  IInv'
<1>1. /\ feed # <<>> /\ feed' = Tail(feed) /\ Head(feed)[1] = "stop"
      /\ UNCHANGED <<store, request, process, handler, run, events, faults>>
  BY DEF DeliverStop
<1>2. PICK s \in Stops : Head(feed) = <<"stop", s>> /\ Head(feed)[2] = s
  BY <1>1, FeedHead, MessageForm DEF IInv
<1>3. stop' = [stop EXCEPT ![s].pc = "handled"]
  BY <1>2 DEF DeliverStop
<1>4. /\ stop' \in [Stops -> StopState]
      /\ StopsKnow' /\ FeedInOrder' /\ CallsHaveOwners' /\ QuietUntilConnected'
      /\ \A i \in DOMAIN feed' : feed'[i] \in Message
  BY <1>1, <1>2, <1>3, StopLeavesFeed DEF store, process
<1>5. Rows' /\ Handed' /\ Alive' /\ CallsMoveOn'
  BY <1>1, PartFrames DEF store
<1>6. cancelled' \in [Jobs -> BOOLEAN] /\ activeTask' \in Jobs \cup {NoJob} /\ stopRequested' \in BOOLEAN
  BY Types DEF IInv, Typed, DeliverStop
<1>7. TypeOK'
  BY <1>1, <1>4, <1>6, Types DEF IInv, Typed, store, process, faults
<1> QED
  BY <1>4, <1>5, <1>7 DEF IInv

LEMMA DeliverStartInvariant ==
  ASSUME IInv, DeliverStart
  PROVE  IInv'
<1>1. /\ feed # <<>> /\ feed' = Tail(feed) /\ Head(feed)[1] = "start" /\ Connected
      /\ UNCHANGED <<store, api, process, run, cancelled, activeTask, stopRequested, events, faults>>
  BY DEF DeliverStart
<1>2. PICK j \in Jobs : Head(feed) = <<"start", j>> /\ Head(feed)[2] = j
  BY <1>1, FeedHead, MessageForm DEF IInv
<1>3. request[j] = "answered" /\ handler[j] = "none" /\ run[j] = "none"
  BY <1>1, <1>2, FeedHead DEF IInv, IntentIsNew, Handed, HandedOnce, Unannounced
<1>4. handler' = [handler EXCEPT ![j] = "spawned"]
  BY <1>2 DEF DeliverStart
<1>5. /\ handler' \in [Jobs -> {"none", "spawned", "starting", "started", "done"}]
      /\ handler'[j] = "spawned" /\ \A i \in Jobs \ {j} : handler'[i] = handler[i]
  BY <1>4, Types DEF IInv, Typed
<1>6. FeedInOrder' /\ \A i \in DOMAIN feed' : feed'[i] \in Message
  <2>1. \A n \in Message : IntentIsNew(n) /\ n # Head(feed) => IntentIsNew(n)'
    BY <1>1, <1>2, <1>5, MessageForm DEF IntentIsNew, api
  <2> QED
    BY <1>1, <2>1, FeedShrinks DEF IInv
<1>7. Handed'
  <2>1. UNCHANGED <<request, run, events>>
    BY <1>1 DEF api
  <2>2. \A i \in Jobs : HandedOnce(i)
    BY DEF IInv, Handed
  <2>3. HandedOnce(j)'
    BY <1>3, <1>5, <2>1, <2>2 DEF HandedOnce
  <2>4. \A i \in Jobs \ {j} : HandedOnce(i)'
    BY <1>5, <2>1, <2>2 DEF HandedOnce
  <2> QED
    BY <2>3, <2>4 DEF Handed
<1>8. Alive'
  BY <1>1, <1>3, <1>5 DEF IInv, Alive, RowIsLive, store
<1>9. Rows' /\ StopsKnow' /\ CallsMoveOn' /\ CallsHaveOwners'
  BY <1>1, PartFrames DEF store, api, process
<1>10. QuietUntilConnected'
  BY <1>1 DEF QuietUntilConnected, Connected, process
<1>11. TypeOK'
  BY <1>1, <1>5, <1>6, Types DEF IInv, Typed, store, api, process, faults
<1> QED
  BY <1>6, <1>7, <1>8, <1>9, <1>10, <1>11 DEF IInv

(* A start handler that gets on, from "spawned" to its end. *)
LEMMA HandlerMoves ==
  ASSUME IInv, NEW j \in Jobs, NEW to \in {"starting", "started", "done"},
         handler[j] \in {"spawned", "starting", "started"},
         handler' = [handler EXCEPT ![j] = to],
         UNCHANGED <<status, stale, api, process, feed, events, faults, cancelled, stopRequested>>,
         CallMoves(Handler(j)), call'[Handler(j)].pc = "idle",
         \A i \in Jobs \ {j} : run'[i] = run[i], run' \in [Jobs -> RunState],
         run'[j] # "none" => to = "done", run'[j] \in {"none", "spawned"},
         RowIsLive(j)', activeTask' \in Jobs \cup {NoJob}
  PROVE  IInv'
<1>1. /\ handler' \in [Jobs -> {"none", "spawned", "starting", "started", "done"}]
      /\ handler'[j] = to /\ \A i \in Jobs \ {j} : handler'[i] = handler[i]
      /\ request[j] = "answered" /\ run[j] = "none" /\ worker \notin {"down", "spawned", "recovering"}
  BY Types DEF IInv, Typed, Handed, HandedOnce, Unannounced, QuietUntilConnected
<1>2. UNCHANGED <<request, stop, worker, awaited, crashes, lost>>
  BY DEF api, process, faults
<1>3. /\ \A i \in Jobs \ {j} : /\ report'[Handler(i)] = report[Handler(i)]
                               /\ call'[Handler(i)] = call[Handler(i)]
      /\ \A i \in Jobs : call'[Runner(i)] = call[Runner(i)]
      /\ \A s \in Stops : call'[Stopper(s)] = call[Stopper(s)]
      /\ call'[Recovery] = call[Recovery]
  BY OtherThanHandler DEF CallMoves
<1>4. TypeOK'
  BY <1>1, <1>2, Types DEF IInv, Typed, CallMoves
<1>5. Rows' /\ StopsKnow'
  BY <1>2, PartFrames
<1>6. Handed'
  BY <1>1, <1>2 DEF IInv, Handed, HandedOnce, Unannounced
<1>7. Alive'
  BY <1>1, <1>3 DEF IInv, Alive, RowIsLive
<1>8. FeedInOrder'
  BY <1>1, <1>2, MessageForm DEF IInv, FeedInOrder, IntentIsNew
<1>9. CallsMoveOn'
  BY <1>2, TaskNames, CallsKeepOwners DEF CallMovesOn
<1>10. CallsHaveOwners'
  <2>1. \A i \in Jobs : call'[Handler(i)].pc = "idle"
    BY <1>3 DEF IInv, CallsHaveOwners
  <2>2. \A s \in Stops : StopperCalls(s)'
    BY <1>2, <1>3 DEF IInv, CallsHaveOwners, StopperCalls
  <2>3. \A i \in Jobs : RunnerCalls(i)'
    <3>1. call[Runner(j)].pc = "idle"
      BY <1>1, RunnerIdle DEF Awaits
    <3> QED
      BY <1>3, <3>1 DEF IInv, CallsHaveOwners, RunnerCalls
  <2>4. RecoveryCalls'
    BY <1>2, <1>3 DEF IInv, CallsHaveOwners, RecoveryCalls
  <2> QED
    BY <2>1, <2>2, <2>3, <2>4 DEF CallsHaveOwners
<1>11. QuietUntilConnected'
  BY <1>1, <1>2 DEF QuietUntilConnected
<1> QED
  BY <1>4, <1>5, <1>6, <1>7, <1>8, <1>9, <1>10, <1>11 DEF IInv

LEMMA HandlerInvariant ==
  ASSUME IInv, NEW j \in Jobs, HandlerGuard(j) \/ HandlerStart(j) \/ HandlerSpawn(j)
  PROVE  IInv'
<1> DEFINE t == Handler(j)
<1>1. t \in Tasks /\ call[t].pc = "idle" /\ run \in [Jobs -> RunState] /\ activeTask \in Jobs \cup {NoJob}
  BY TaskNames, Types DEF IInv, Typed, CallsHaveOwners
<1>2. /\ handler[j] \in {"spawned", "starting", "started"}
      /\ UNCHANGED <<api, process, feed, cancelled, stopRequested, events, faults>>
  BY DEF HandlerGuard, HandlerStart, HandlerSpawn
<1>3. request[j] = "answered" /\ run[j] = "none"
  BY <1>2 DEF IInv, Handed, HandedOnce, Unannounced
<1>4. CASE HandlerGuard(j)
  <2>1. PICK to \in {"starting", "done"} : handler' = [handler EXCEPT ![j] = to]
    BY <1>4 DEF HandlerGuard
  <2>2. handler'[j] = to
    BY <2>1, Types DEF IInv, Typed
  <2>3. UNCHANGED <<store, run, activeTask>>
    BY <1>4 DEF HandlerGuard
  <2>4. RowIsLive(j)'
    BY <1>3, <2>2, <2>3 DEF RowIsLive
  <2>5. CallMoves(t) /\ call'[t].pc = "idle"
    BY <1>1, <2>3, NoCallMoves DEF store
  <2> QED
    BY <1>1, <1>2, <1>3, <2>1, <2>3, <2>4, <2>5, HandlerMoves DEF store
<1>5. CASE HandlerStart(j)
  <2>1. handler' = [handler EXCEPT ![j] = "started"] /\ UNCHANGED <<run, activeTask>>
    BY <1>5 DEF HandlerStart
  <2>2. Store!Read(t, j, "running", FALSE) /\ stale' = stale
    BY <1>5 DEF HandlerStart, Store!Lifecycle
  <2>3. /\ status' = status /\ CallMoves(t) /\ call'[t].pc = "idle"
        /\ report'[t].result # "raised" => status[j] = "running"
    BY <1>3, <2>2, StartReads
  <2>4. RowIsLive(j)'
    BY <1>3, <2>1, <2>3 DEF RowIsLive, Live
  <2> QED
    BY <1>1, <1>2, <1>3, <2>1, <2>2, <2>3, <2>4, HandlerMoves
<1>6. CASE HandlerSpawn(j)
  <2>1. handler[j] = "started" /\ handler' = [handler EXCEPT ![j] = "done"] /\ handler'[j] = "done"
    BY <1>6, Types DEF HandlerSpawn, IInv, Typed
  <2>2. CallMoves(t) /\ call'[t].pc = "idle" /\ UNCHANGED <<status, stale>>
    BY <1>1, <1>6, CallEnds DEF HandlerSpawn
  <2>3. \/ UNCHANGED <<run, activeTask>>
        \/ /\ report[t].result # "raised"
           /\ run' = [run EXCEPT ![j] = "spawned"] /\ activeTask' = j
    BY <1>6 DEF HandlerSpawn
  <2>4. RowIsLive(j)'
    BY <1>3, <2>1, <2>2, <2>3 DEF IInv, Alive, RowIsLive
  <2>5. /\ run' \in [Jobs -> RunState] /\ \A i \in Jobs \ {j} : run'[i] = run[i]
        /\ run'[j] \in {"none", "spawned"} /\ activeTask' \in Jobs \cup {NoJob}
    BY <1>1, <1>3, <2>3 DEF RunState
  <2> QED
    BY <1>1, <1>2, <2>1, <2>2, <2>4, <2>5, HandlerMoves
<1> QED
  BY <1>4, <1>5, <1>6

-----------------------------------------------------------------------------
(* The worker process *)

LEMMA OtherThanRecovery ==
  /\ \A j \in Jobs : Handler(j) \in Tasks \ {Recovery} /\ Runner(j) \in Tasks \ {Recovery}
  /\ \A s \in Stops : Stopper(s) \in Tasks \ {Recovery}
BY DEF Tasks, Handler, Runner, Stopper, Recovery

(* Between its start and its connection the worker only recovers rows. *)
LEMMA RecoveryMoves ==
  ASSUME IInv, UNCHANGED <<status, awaited, api, feed, coord, faults>>,
         worker \in {"spawned", "recovering"}, worker' \in {"recovering", "up"},
         stale' \in [Tasks -> SUBSET Jobs],
         CallMoves(Recovery), CallMovesOn(Recovery)', RecoveryCalls'
  PROVE  IInv'
<1>1. UNCHANGED <<request, stop, handler, run, cancelled, activeTask, stopRequested, events, crashes, lost>>
  BY DEF api, coord, faults
<1>2. /\ \A j \in Jobs : /\ report'[Handler(j)] = report[Handler(j)]
                         /\ call'[Handler(j)] = call[Handler(j)] /\ call'[Runner(j)] = call[Runner(j)]
      /\ \A s \in Stops : call'[Stopper(s)] = call[Stopper(s)]
  BY OtherThanRecovery DEF CallMoves
<1>3. TypeOK'
  BY <1>1, Types DEF IInv, Typed, CallMoves
<1>4. Rows' /\ Handed' /\ StopsKnow' /\ FeedInOrder'
  BY <1>1, PartFrames
<1>5. Alive'
  BY <1>1, <1>2 DEF IInv, Alive, RowIsLive
<1>6. CallsMoveOn'
  BY <1>1, TaskNames, CallsKeepOwners
<1>7. CallsHaveOwners'
  <2>1. \A j \in Jobs : call'[Handler(j)].pc = "idle" /\ RunnerCalls(j)'
    BY <1>1, <1>2 DEF IInv, CallsHaveOwners, RunnerCalls
  <2>2. \A s \in Stops : StopperCalls(s)'
    BY <1>1, <1>2 DEF IInv, CallsHaveOwners, StopperCalls
  <2> QED
    BY <2>1, <2>2 DEF CallsHaveOwners
<1>8. QuietUntilConnected'
  BY <1>1 DEF IInv, QuietUntilConnected
<1> QED
  BY <1>3, <1>4, <1>5, <1>6, <1>7, <1>8 DEF IInv

LEMMA WorkerSpawnInvariant ==
  ASSUME IInv, WorkerSpawn
  PROVE  IInv'
<1>1. worker = "down" /\ worker' = "spawned" /\ UNCHANGED <<store, awaited, api, feed, coord, faults>>
  BY DEF WorkerSpawn
<1>2. TypeOK'
  BY <1>1, Types DEF IInv, Typed, store, api, coord, faults
<1>3. Rows' /\ Handed' /\ Alive' /\ StopsKnow' /\ FeedInOrder' /\ CallsMoveOn'
  BY <1>1, PartFrames DEF store, api, coord
<1>4. CallsHaveOwners'
  BY <1>1 DEF IInv, CallsHaveOwners, StopperCalls, RunnerCalls, RecoveryCalls, store, api, coord
<1>5. QuietUntilConnected'
  BY <1>1 DEF IInv, QuietUntilConnected, coord
<1> QED
  BY <1>2, <1>3, <1>4, <1>5 DEF IInv

LEMMA WorkerRecoveryInvariant ==
  ASSUME IInv, NEW j \in Jobs, WorkerRecover \/ WorkerRecoverOne(j) \/ WorkerConnect
  PROVE  IInv'
<1>1. /\ worker \in {"spawned", "recovering"} /\ worker' \in {"recovering", "up"}
      /\ UNCHANGED <<awaited, api, feed, coord, faults>>
      /\ Recovery \in Tasks /\ stale \in [Tasks -> SUBSET Jobs]
  BY TaskNames, Types DEF WorkerRecover, WorkerRecoverOne, WorkerConnect, process, IInv, Typed
<1>2. CASE WorkerRecover
  <2>1. UNCHANGED <<status, call, report>> /\ stale' \in [Tasks -> SUBSET Jobs]
    BY <1>1, <1>2 DEF WorkerRecover, Store!RecoverSelect
  <2>2. CallMoves(Recovery) /\ CallMovesOn(Recovery)' /\ RecoveryCalls'
    BY <1>1, <1>2, <2>1, NoCallMoves
       DEF WorkerRecover, IInv, CallsMoveOn, CallMovesOn, Present, CallsHaveOwners, RecoveryCalls, api
  <2> QED
    BY <1>1, <2>1, <2>2, RecoveryMoves
<1>3. CASE WorkerRecoverOne(j)
  <2>1. /\ Store!Read(Recovery, j, "failed", TRUE) /\ worker = "recovering" /\ worker' = worker
        /\ stale' \in [Tasks -> SUBSET Jobs]
    BY <1>1, <1>3 DEF WorkerRecoverOne, Store!RecoverOne, process
  <2>2. "failed" \in Ends
    BY DEF Ends
  <2>3. /\ status' = status /\ CallMoves(Recovery)
        /\ call'[Recovery].pc # "idle" =>
             /\ Present(j) /\ call'[Recovery].job = j /\ call'[Recovery].target = "failed"
             /\ call'[Recovery].prev = "running"
    BY <1>1, <2>1, <2>2, CommandReads
  <2>4. CallMovesOn(Recovery)' /\ RecoveryCalls'
    BY <1>1, <2>1, <2>3 DEF CallMovesOn, RecoveryCalls, Present, api
  <2> QED
    BY <1>1, <2>1, <2>3, <2>4, RecoveryMoves
<1>4. CASE WorkerConnect
  <2>1. CallMoves(Recovery) /\ call'[Recovery].pc = "idle" /\ UNCHANGED <<status, stale>>
    BY <1>1, <1>4, CallEnds DEF WorkerConnect
  <2>2. CallMovesOn(Recovery)' /\ RecoveryCalls'
    BY <2>1 DEF CallMovesOn, RecoveryCalls
  <2> QED
    BY <1>1, <2>1, <2>2, RecoveryMoves
<1> QED
  BY <1>2, <1>3, <1>4

(* stop() leaves the feed: the intents not read yet are lost. *)
LEMMA LeavesFeedMoves ==
  ASSUME IInv, LeavesFeed, UNCHANGED <<store, request, handler, run, events, faults>>,
         worker \notin {"recovering"}
  PROVE  /\ stop' \in [Stops -> StopState] /\ worker' = "stopped"
         /\ Rows' /\ Handed' /\ Alive' /\ StopsKnow' /\ FeedInOrder'
         /\ CallsMoveOn' /\ CallsHaveOwners' /\ QuietUntilConnected'
         /\ \A i \in DOMAIN feed' : feed'[i] \in Message
<1>1. /\ worker' = "stopped" /\ feed' = <<>>
      /\ stop' = [s \in Stops |-> IF stop[s].pc = "sent" THEN [stop[s] EXCEPT !.pc = "done"] ELSE stop[s]]
  BY DEF LeavesFeed
<1>2. stop \in [Stops -> StopState]
  BY Types DEF IInv, Typed
<1>3. \A s \in Stops : /\ stop'[s] \in StopState /\ stop'[s].job = stop[s].job
                       /\ stop'[s].pc = IF stop[s].pc = "sent" THEN "done" ELSE stop[s].pc
  <2> SUFFICES ASSUME NEW s \in Stops
               PROVE  /\ stop'[s] \in StopState /\ stop'[s].job = stop[s].job
                      /\ stop'[s].pc = IF stop[s].pc = "sent" THEN "done" ELSE stop[s].pc
    OBVIOUS
  <2>1. stop[s] \in StopState
    BY <1>2
  <2>2. stop'[s] = IF stop[s].pc = "sent" THEN [stop[s] EXCEPT !.pc = "done"] ELSE stop[s]
    BY <1>1
  <2> QED
    BY <2>1, <2>2 DEF StopState
<1>4. Rows' /\ Handed' /\ Alive' /\ CallsMoveOn'
  BY PartFrames DEF store
<1>5. StopsKnow'
  BY <1>3 DEF IInv, StopsKnow, StopNamesJob, Present
<1>6. FeedInOrder' /\ \A i \in DOMAIN feed' : feed'[i] \in Message
  BY <1>1, EmptyFeed
<1>7. CallsHaveOwners'
  <2>1. \A s \in Stops : StopperCalls(s)'
    BY <1>3 DEF IInv, CallsHaveOwners, StopperCalls, store
  <2>2. RecoveryCalls'
    BY <1>1 DEF IInv, CallsHaveOwners, RecoveryCalls, store
  <2> QED
    BY <2>1, <2>2 DEF IInv, CallsHaveOwners, RunnerCalls, store
<1>8. QuietUntilConnected'
  BY <1>1 DEF QuietUntilConnected
<1>9. stop' \in [Stops -> StopState]
  BY <1>1, <1>3
<1> QED
  BY <1>1, <1>4, <1>5, <1>6, <1>7, <1>8, <1>9

LEMMA WorkerTerminateInvariant ==
  ASSUME IInv, WorkerTerminate
  PROVE  IInv'
<1>1. /\ worker = "up"
      /\ UNCHANGED <<store, request, handler, run, activeTask, stopRequested, events, faults>>
  BY DEF WorkerTerminate
<1>2. CASE /\ TaskAlive /\ worker' = "terminating" /\ awaited' = activeTask
           /\ cancelled' = [cancelled EXCEPT ![activeTask] = TRUE] /\ UNCHANGED <<feed, stop>>
  <2>1. TypeOK'
    BY <1>1, <1>2, Types DEF IInv, Typed, TaskAlive, store, faults
  <2>2. Rows' /\ Handed' /\ Alive' /\ StopsKnow' /\ FeedInOrder' /\ CallsMoveOn'
    BY <1>1, <1>2, PartFrames DEF store
  <2>3. CallsHaveOwners' /\ QuietUntilConnected'
    BY <1>1, <1>2 DEF IInv, CallsHaveOwners, StopperCalls, RunnerCalls, RecoveryCalls, QuietUntilConnected, store
  <2> QED
    BY <2>1, <2>2, <2>3 DEF IInv
<1>3. CASE LeavesFeed /\ UNCHANGED <<awaited, cancelled>>
  <2>1. /\ stop' \in [Stops -> StopState] /\ worker' = "stopped"
        /\ Rows' /\ Handed' /\ Alive' /\ StopsKnow' /\ FeedInOrder'
        /\ CallsMoveOn' /\ CallsHaveOwners' /\ QuietUntilConnected'
        /\ \A i \in DOMAIN feed' : feed'[i] \in Message
    BY <1>1, <1>3, LeavesFeedMoves
  <2>2. TypeOK'
    BY <1>1, <1>3, <2>1, Types DEF IInv, Typed, store, faults
  <2> QED
    BY <2>1, <2>2 DEF IInv
<1> QED
  BY <1>2, <1>3 DEF WorkerTerminate

LEMMA WorkerAwaitedInvariant ==
  ASSUME IInv, WorkerAwaited
  PROVE  IInv'
<1>1. /\ worker = "terminating" /\ LeavesFeed /\ activeTask' = NoJob /\ awaited' = NoJob
      /\ UNCHANGED <<store, request, handler, run, cancelled, stopRequested, events, faults>>
  BY DEF WorkerAwaited
<1>2. /\ stop' \in [Stops -> StopState] /\ worker' = "stopped"
      /\ Rows' /\ Handed' /\ Alive' /\ StopsKnow' /\ FeedInOrder'
      /\ CallsMoveOn' /\ CallsHaveOwners' /\ QuietUntilConnected'
      /\ \A i \in DOMAIN feed' : feed'[i] \in Message
  BY <1>1, LeavesFeedMoves
<1>3. TypeOK'
  BY <1>1, <1>2, Types DEF IInv, Typed, store, faults
<1> QED
  BY <1>2, <1>3 DEF IInv

LEMMA WorkerDiesInvariant ==
  ASSUME IInv, WorkerDies
  PROVE  IInv'
<1>0. crashes' \in 0 .. MaxCrashes
  <2>1. crashes \in 0 .. MaxCrashes /\ MaxCrashes \in Nat
    BY CrawlerAssumption, Types DEF IInv, Typed
  <2>2. crashes < MaxCrashes /\ crashes' = crashes + 1
    BY DEF WorkerDies
  <2> QED
    BY <2>1, <2>2
<1>1. /\ worker' = "down" /\ feed' = <<>>
      /\ cancelled' \in [Jobs -> BOOLEAN]
      /\ activeTask' = NoJob /\ awaited' = NoJob /\ stopRequested' = FALSE
      /\ UNCHANGED <<status, request, events, lost>>
  BY DEF WorkerDies
<1>2. /\ handler' \in [Jobs -> {"none", "spawned", "starting", "started", "done"}]
      /\ run' \in [Jobs -> RunState]
      /\ \A j \in Jobs : /\ handler'[j] = IF handler[j] = "none" THEN "none" ELSE "done"
                         /\ run'[j] = IF run[j] = "none" THEN "none" ELSE "done"
  BY Types DEF WorkerDies, IInv, Typed, RunState
<1>3. /\ stop' \in [Stops -> StopState]
      /\ \A s \in Stops : /\ stop'[s].job = stop[s].job
                        /\ stop'[s].pc = IF stop[s].pc \in {"sent", "handled", "worker call"}
                                           THEN "done" ELSE stop[s].pc
  <2>1. stop \in [Stops -> StopState]
    BY Types DEF IInv, Typed
  <2>2. stop' = [s \in Stops |-> IF stop[s].pc \in {"sent", "handled", "worker call"}
                                  THEN [stop[s] EXCEPT !.pc = "done"] ELSE stop[s]]
    BY DEF WorkerDies
  <2>3. ASSUME NEW s \in Stops
        PROVE  /\ stop'[s] \in StopState /\ stop'[s].job = stop[s].job
               /\ stop'[s].pc = IF stop[s].pc \in {"sent", "handled", "worker call"}
                                  THEN "done" ELSE stop[s].pc
    <3>1. stop[s] \in StopState
      BY <2>1
    <3>2. stop'[s] = IF stop[s].pc \in {"sent", "handled", "worker call"}
                       THEN [stop[s] EXCEPT !.pc = "done"] ELSE stop[s]
      BY <2>2
    <3> QED
      BY <3>1, <3>2 DEF StopState
  <2> QED
    BY <2>2, <2>3
<1>4. /\ call' \in [Tasks -> CallType] /\ report' \in [Tasks -> ReportType]
      /\ stale' \in [Tasks -> SUBSET Jobs]
      /\ \A t \in Tasks : call'[t] = IF InWorker(t) THEN Store!NoCall ELSE call[t]
  BY Types, NoCallNoReport DEF WorkerDies, IInv, Typed
<1>5. /\ InWorker(Recovery) /\ \A j \in Jobs : InWorker(Handler(j)) /\ InWorker(Runner(j))
      /\ \A s \in Stops : InWorker(Stopper(s)) <=> stop[s].pc = "worker call"
  <2>1. InWorker(Recovery)
    <3>1. Recovery[1] = "recovery"
      BY DEF Recovery
    <3> QED
      BY <3>1 DEF InWorker
  <2>2. ASSUME NEW j \in Jobs
        PROVE  InWorker(Handler(j)) /\ InWorker(Runner(j))
    <3>1. Handler(j)[1] = "handler" /\ Runner(j)[1] = "runner"
      BY DEF Handler, Runner
    <3> QED
      BY <3>1 DEF InWorker
  <2>3. ASSUME NEW s \in Stops
        PROVE  InWorker(Stopper(s)) <=> stop[s].pc = "worker call"
    <3>1. Stopper(s)[1] = "stopper" /\ Stopper(s)[2] = s
      BY DEF Stopper
    <3> QED
      BY <3>1 DEF InWorker
  <2> QED
    BY <2>1, <2>2, <2>3
<1>6. TypeOK'
  <2>1. Typed
    BY Types DEF IInv
  <2>2. /\ status' \in [Jobs -> RawStatus \cup {Absent}] /\ request' \in [Jobs -> RequestState]
        /\ events' \in [Jobs -> SUBSET {"completed", "failed"}] /\ lost' \in 0 .. MaxLost
    BY <1>1, <2>1 DEF Typed
  <2>3. /\ awaited' \in Jobs \cup {NoJob} /\ activeTask' \in Jobs \cup {NoJob}
        /\ stopRequested' \in BOOLEAN
        /\ worker' \in {"down", "spawned", "recovering", "up", "terminating", "stopped"}
    BY <1>1
  <2>4. \A i \in DOMAIN feed' : feed'[i] \in Message
    <3>1. feed' = <<>>
      BY <1>1
    <3> QED
      BY <3>1
  <2>5. Typed'
    BY <1>0, <1>1, <1>2, <1>3, <1>4, <2>2, <2>3, <2>4 DEF Typed
  <2> QED
    BY <2>5, Types
<1>7. Rows'
  BY <1>1, PartFrames
<1>8. Handed' /\ Alive'
  BY <1>1, <1>2 DEF IInv, Handed, HandedOnce, Unannounced, Alive, RowIsLive
<1>9. StopsKnow'
  BY <1>1, <1>3 DEF IInv, StopsKnow, StopNamesJob, Present
<1>10. FeedInOrder'
  BY <1>1, EmptyFeed
<1>11. CallsMoveOn'
  BY <1>1, <1>4, NoCallNoReport DEF IInv, CallsMoveOn, CallMovesOn, Present
<1>12. CallsHaveOwners'
  <2>1. /\ call'[Recovery].pc = "idle"
        /\ \A j \in Jobs : call'[Handler(j)].pc = "idle" /\ call'[Runner(j)].pc = "idle"
    BY <1>4, <1>5, TaskNames, NoCallNoReport
  <2>2. ASSUME NEW s \in Stops, call'[Stopper(s)].pc # "idle"
        PROVE  stop'[s].pc = "api call" /\ call'[Stopper(s)].target = "cancelled"
    <3>1. ~ InWorker(Stopper(s)) /\ call'[Stopper(s)] = call[Stopper(s)]
      BY <1>4, <2>2, TaskNames, NoCallNoReport
    <3>2. stop[s].pc = "api call" /\ call[Stopper(s)].target = "cancelled"
      BY <1>5, <2>2, <3>1 DEF IInv, CallsHaveOwners, StopperCalls
    <3> QED
      BY <1>3, <3>1, <3>2
  <2> QED
    BY <2>1, <2>2 DEF CallsHaveOwners, StopperCalls, RunnerCalls, RecoveryCalls
<1>13. QuietUntilConnected'
  <2>1. \A j \in Jobs : handler'[j] \in {"none", "done"} /\ run'[j] \in {"none", "done"}
    BY <1>2
  <2> QED
    BY <1>1, <2>1 DEF QuietUntilConnected
<1> QED
  BY <1>6, <1>7, <1>8, <1>9, <1>10, <1>11, <1>12, <1>13 DEF IInv

LEMMA InitInvariant == Init => IInv
<1> SUFFICES ASSUME Init PROVE IInv
  OBVIOUS
<1>1. Typed
  <2>1. /\ call \in [Tasks -> CallType] /\ report \in [Tasks -> ReportType]
        /\ stale \in [Tasks -> SUBSET Jobs]
    BY NoCallNoReport DEF Init
  <2>2. stop \in [Stops -> StopState]
    BY DEF Init, StopState
  <2>3. crashes \in 0 .. MaxCrashes /\ lost \in 0 .. MaxLost
    BY CrawlerAssumption DEF Init
  <2>4. /\ status \in [Jobs -> RawStatus \cup {Absent}] /\ request \in [Jobs -> RequestState]
        /\ worker = "down" /\ awaited = NoJob /\ feed = <<>>
    BY DEF Init, RequestState
  <2>5. /\ handler \in [Jobs -> {"none", "spawned", "starting", "started", "done"}]
        /\ run \in [Jobs -> RunState] /\ cancelled \in [Jobs -> BOOLEAN]
        /\ activeTask = NoJob /\ stopRequested = FALSE
        /\ events \in [Jobs -> SUBSET {"completed", "failed"}]
    BY DEF Init, RunState
  <2>6. /\ worker \in {"down", "spawned", "recovering", "up", "terminating", "stopped"}
        /\ awaited \in Jobs \cup {NoJob} /\ activeTask \in Jobs \cup {NoJob}
        /\ stopRequested \in BOOLEAN
    BY <2>4, <2>5
  <2>7. \A i \in DOMAIN feed : feed[i] \in Message
    BY <2>4
  <2> QED
    BY <2>1, <2>2, <2>3, <2>4, <2>5, <2>6, <2>7 DEF Typed
<1>2. \A t \in Tasks : call[t].pc = "idle"
  BY NoCallNoReport DEF Init
<1>3. Rows /\ Handed /\ Alive /\ StopsKnow
  BY DEF Init, Rows, RowFollowsStart, Handed, HandedOnce, Unannounced, Alive, RowIsLive, StopsKnow, StopNamesJob
<1>4. FeedInOrder
  BY DEF Init, FeedInOrder
<1>5. CallsMoveOn /\ CallsHaveOwners
  BY <1>2, TaskNames
     DEF CallsMoveOn, CallMovesOn, CallsHaveOwners, StopperCalls, RunnerCalls, RecoveryCalls
<1>6. QuietUntilConnected
  BY DEF Init, QuietUntilConnected
<1> QED
  BY <1>1, <1>3, <1>4, <1>5, <1>6, Types DEF IInv

LEMMA NextInvariant ==
  ASSUME IInv, [Next]_vars
  PROVE  IInv'
<1>1. CASE Api
  BY <1>1, StartRequestInvariant, StartSendInvariant, StopPickInvariant, StopForwardInvariant,
     StoppingInvariant, StopReturnInvariant DEF Api
<1>2. CASE WorkerProcess
  <2>1. WorkerRecover \/ WorkerConnect => IInv'
    BY CrawlerAssumption, WorkerRecoveryInvariant DEF Jobs
  <2> QED
    BY <1>2, <2>1, WorkerSpawnInvariant, WorkerRecoveryInvariant, WorkerTerminateInvariant,
       WorkerAwaitedInvariant, WorkerDiesInvariant DEF WorkerProcess
<1>3. CASE Coordinator
  BY <1>3, FeedDropInvariant, DeliverStartInvariant, DeliverStopInvariant, HandlerInvariant
     DEF Coordinator
<1>4. CASE \E j \in Jobs : RunStep(j)
  BY <1>4, RunStepInvariant
<1>5. CASE \E t \in Tasks : Persist(t)
  BY <1>5, PersistInvariant
<1>6. CASE UNCHANGED vars
  <2>1. /\ UNCHANGED <<status, call, report, stale>> /\ UNCHANGED <<request, stop>>
        /\ UNCHANGED <<worker, awaited>> /\ UNCHANGED feed
        /\ UNCHANGED <<handler, run, cancelled, activeTask, stopRequested, events>>
        /\ UNCHANGED <<crashes, lost>>
    BY <1>6 DEF vars, store, api, process, coord, faults
  <2>2. TypeOK'
    BY <2>1, Types DEF IInv, Typed
  <2> QED
    BY <2>1, <2>2, PartFrames DEF IInv
<1> QED
  BY <1>1, <1>2, <1>3, <1>4, <1>5, <1>6 DEF Next

LEMMA Invariant == Spec => []IInv
BY InitInvariant, NextInvariant, PTL DEF Spec

(* The table, the two processes, the feed and the tasks hold values of      *)
(* their types whatever the requests, the worker and the faults do.         *)
THEOREM TypeCorrect == Spec => []TypeOK
<1>1. IInv => TypeOK
  BY DEF IInv
<1> QED
  BY <1>1, Invariant, PTL

(* Only a strategy's own steps publish, and a strategy that does has been   *)
(* announced before only if it is a bruteforce that was announced completed. *)
LEMMA WhoPublishes ==
  ASSUME IInv, [Next]_vars
  PROVE  \/ events' = events
         \/ \E i \in Jobs : RunStep(i)
<1>1. Api => events' = events
  BY DEF Api, StartCheck, StartInsert, StartMarkRunning, StartSend, StartMarkFailed, StopPick, StopForward,
         StopLastResort, Stopping, StopReturn, coord
<1>2. WorkerProcess => events' = events
  BY DEF WorkerProcess, WorkerSpawn, WorkerRecover, WorkerConnect, WorkerRecoverOne, WorkerTerminate,
         WorkerAwaited, WorkerDies, coord
<1>3. Coordinator => events' = events
  BY DEF Coordinator, FeedDrop, DeliverStart, DeliverStop, HandlerGuard, HandlerStart, HandlerSpawn, coord
<1>4. (\E t \in Tasks : Persist(t)) \/ UNCHANGED vars => events' = events
  BY DEF Persist, vars, coord
<1> QED
  BY <1>1, <1>2, <1>3, <1>4 DEF Next

(* A crawl is announced once, completed or failed, and nothing is announced *)
(* after a failure: a strategy publishes on its way out, it is spawned at   *)
(* most once, because request, intent, handler and strategy hand the job    *)
(* over one after the other (Handed) and no intent is twice in the feed,    *)
(* and only a bruteforce has an await between its event and its end.        *)
THEOREM TerminalEventIsOne == Spec => OneTerminalEvent
<1> DEFINE Step == \A j \in Jobs : events'[j] # events[j]
                     => events[j] = {} \/ (Kind[j] = "bruteforce" /\ events[j] = {"completed"})
<1>1. ASSUME IInv, [Next]_vars
      PROVE  Step
  <2> SUFFICES ASSUME NEW j \in Jobs, events'[j] # events[j]
               PROVE  events[j] = {} \/ (Kind[j] = "bruteforce" /\ events[j] = {"completed"})
    OBVIOUS
  <2>1. PICK i \in Jobs : RunStep(i)
    BY <1>1, WhoPublishes
  <2>2. EventOf(i) /\ run[i] \notin {"none", "done"}
    BY <1>1, <2>1, RunStepMoves
  <2>3. events \in [Jobs -> SUBSET {"completed", "failed"}] /\ Handed
    BY <1>1, Types DEF IInv, Typed
  <2>4. i = j
    BY <2>2, <2>3 DEF EventOf
  <2> QED
    BY <2>2, <2>3, <2>4 DEF Handed, HandedOnce, Unannounced
<1>2. IInv /\ [Next]_vars => [Step]_vars
  BY <1>1
<1> HIDE DEF Step
<1>3. Spec => [][Step]_vars
  BY <1>2, Invariant, PTL DEF Spec
<1> QED
  BY <1>3 DEF OneTerminalEvent, Step

(* A strategy is at work only on a row that is running, being stopped or    *)
(* cancelled, although recovery, stops and the API's start handler write    *)
(* the same row: recovery runs before any strategy of its process exists,   *)
(* a completion or failure is written by the strategy's own ending only.    *)
THEOREM RunnerRowIsLive == Spec => []RunnerHasLiveRow
<1>1. IInv => RunnerHasLiveRow
  BY DEF IInv, Alive, RowIsLive, Live, RunnerHasLiveRow
<1> QED
  BY <1>1, Invariant, PTL

-----------------------------------------------------------------------------
(* Who writes a row: the requests of POST .../start, each its own row, and  *)
(* the compare-and-set of a pending lifecycle call, which only moves a row  *)
(* that has not ended on to a later state.                                  *)
StartRequest(j) == \/ StartCheck(j) \/ StartInsert(j) \/ StartMarkRunning(j)
                   \/ StartSend(j) \/ StartMarkFailed(j)

CallMovesRow(j, step) ==
  /\ UNCHANGED request
  /\ status[j] \in {"queued", "running", "stopping"}
  /\ status' = [status EXCEPT ![j] = step]

RowMover == \/ UNCHANGED <<status, request>>
            \/ \E j \in Jobs : StartRequest(j)
            \/ \E j \in Jobs, step \in Moved : CallMovesRow(j, step)

LEMMA RowMovers ==
  ASSUME IInv, [Next]_vars
  PROVE  RowMover
<1>1. CASE Api
  <2>1. ASSUME NEW s \in Stops,
               StopForward(s) \/ StopLastResort(s) \/ Stopping(s) \/ StopReturn(s)
        PROVE  UNCHANGED <<status, request>>
    BY <2>1 DEF StopForward, StopLastResort, Stopping, StopReturn, Returned,
                Store!Lifecycle, Store!Read, store
  <2>2. ASSUME NEW s \in Stops, NEW kind, StopPick(s, kind)
        PROVE  UNCHANGED <<status, request>>
    BY <2>2 DEF StopPick, store
  <2> QED
    BY <1>1, <2>1, <2>2 DEF Api, RowMover, StartRequest
<1>2. CASE WorkerProcess
  <2>1. UNCHANGED <<status, request>>
    BY <1>2 DEF WorkerProcess, WorkerSpawn, WorkerRecover, WorkerConnect, WorkerRecoverOne,
                WorkerTerminate, WorkerAwaited, WorkerDies, Returned,
                Store!RecoverSelect, Store!RecoverOne, Store!Read, store, api
  <2> QED
    BY <2>1 DEF RowMover
<1>3. CASE Coordinator
  <2>1. UNCHANGED <<status, request>>
    BY <1>3 DEF Coordinator, FeedDrop, DeliverStart, DeliverStop, HandlerGuard, HandlerStart,
                HandlerSpawn, Returned, Store!Lifecycle, Store!Read, store, api
  <2> QED
    BY <2>1 DEF RowMover
<1>4. CASE \E j \in Jobs : RunStep(j)
  BY <1>4, RunStepMoves DEF RowMover
<1>5. ASSUME NEW t \in Tasks, Persist(t)
      PROVE  RowMover
  <2>1. Store!Proceed(t) /\ UNCHANGED request
    BY <1>5 DEF Persist, api
  <2>2. call[t].job \in Jobs /\ call[t].prev \in {"queued", "running", "stopping"}
    BY <2>1, PersistMoves DEF IInv, CallsMoveOn, CallMovesOn
  <2>3. PICK j \in Jobs : j = call[t].job
    BY <2>2
  <2>4. \/ status' = status
        \/ \E step \in Moved : status[j] = call[t].prev /\ status' = [status EXCEPT ![j] = step]
    BY <2>1, <2>3, PersistMoves
  <2> QED
    BY <2>1, <2>2, <2>4 DEF RowMover, CallMovesRow
<1>6. CASE UNCHANGED vars
  BY <1>6 DEF vars, store, api, RowMover
<1> QED
  BY <1>1, <1>2, <1>3, <1>4, <1>5, <1>6 DEF Next

(* A job that has ended is moved again by its start handler only, which     *)
(* writes the row without looking at it: a lifecycle call writes only what  *)
(* it has read, and it goes on only from a row that can still move.         *)
THEOREM FinishedStays == Spec => FinishedMovedOnlyByStart
<1> DEFINE Step == \A j \in Jobs : status[j] \in Terminal /\ status'[j] # status[j]
                                      => request[j] \in {"inserted", "unsent"}
<1>1. ASSUME IInv, [Next]_vars
      PROVE  Step
  <2> SUFFICES ASSUME NEW j \in Jobs, status[j] \in Terminal, status'[j] # status[j]
               PROVE  request[j] \in {"inserted", "unsent"}
    OBVIOUS
  <2>1. status \in [Jobs -> RawStatus \cup {Absent}]
    BY <1>1, Types DEF IInv, Typed
  <2>2. RowMover
    BY <1>1, RowMovers
  <2>3. ASSUME NEW i \in Jobs, NEW step \in Moved, CallMovesRow(i, step)
        PROVE  status'[j] = status[j]
    BY <2>1, <2>3 DEF CallMovesRow, Terminal
  <2>4. ASSUME NEW i \in Jobs, StartCheck(i) \/ StartSend(i)
        PROVE  status'[j] = status[j]
    BY <2>4 DEF StartCheck, StartSend, store
  <2>5. ASSUME NEW i \in Jobs, StartInsert(i)
        PROVE  status'[j] = status[j]
    BY <2>1, <2>5 DEF StartInsert, Store!Create, Store!Absent, Terminal
  <2>6. ASSUME NEW i \in Jobs, StartMarkRunning(i) \/ StartMarkFailed(i), i # j
        PROVE  status'[j] = status[j]
    BY <2>1, <2>6 DEF StartMarkRunning, StartMarkFailed, Overwrite
  <2>7. StartMarkRunning(j) \/ StartMarkFailed(j) => request[j] \in {"inserted", "unsent"}
    BY DEF StartMarkRunning, StartMarkFailed
  <2> QED
    BY <2>2, <2>3, <2>4, <2>5, <2>6, <2>7 DEF RowMover, StartRequest
<1>2. IInv /\ [Next]_vars => [Step]_vars
  BY <1>1
<1> HIDE DEF Step
<1>3. Spec => [][Step]_vars
  BY <1>2, Invariant, PTL DEF Spec
<1> QED
  BY <1>3 DEF FinishedMovedOnlyByStart, Step

-----------------------------------------------------------------------------
(* One job at a time, when no two start handlers overlap. *)
LEMMA OneStartStep ==
  ASSUME ~ ConcurrentStarts, IInv, OneStart, [Next]_vars
  PROVE  OneStart'
<1>1. /\ status \in [Jobs -> RawStatus \cup {Absent}]
      /\ request \in [Jobs -> RequestState]
  BY Types DEF IInv, Typed
<1>2. CASE UNCHANGED <<status, request>>
  BY <1>2 DEF OneStart, InStart, Listed
<1>3. ASSUME NEW j \in Jobs, NEW step \in Moved, CallMovesRow(j, step)
      PROVE  OneStart'
  <2>1. InStart' = InStart
    BY <1>3 DEF CallMovesRow, InStart
  <2>2. Listed' \subseteq Listed
    BY <1>1, <1>3 DEF CallMovesRow, Listed, Moved
  <2> QED
    BY <2>1, <2>2 DEF OneStart
<1>4. ASSUME NEW j \in Jobs, StartCheck(j)
      PROVE  OneStart'
  <2>1. InStart = {} /\ Listed = {} /\ request' = [request EXCEPT ![j] = "checked"]
        /\ status' = status
    BY <1>4 DEF StartCheck, store
  <2>2. Listed' = {} /\ InStart' \subseteq {j}
    BY <1>1, <2>1 DEF Listed, InStart
  <2> QED
    BY <2>2 DEF OneStart
<1>5. ASSUME NEW j \in Jobs, StartInsert(j) \/ StartMarkRunning(j)
      PROVE  OneStart'
  <2>1. /\ j \in InStart
        /\ \E to \in {"inserted", "marked"} : request' = [request EXCEPT ![j] = to]
        /\ \E to \in {"queued", "running"} : status' = [status EXCEPT ![j] = to]
    BY <1>5 DEF StartInsert, StartMarkRunning, Store!Create, Overwrite, InStart
  <2>2. InStart' \subseteq InStart /\ Listed' \subseteq Listed \cup {j}
    BY <1>1, <2>1 DEF InStart, Listed
  <2>3. InStart \subseteq {j} /\ Listed \subseteq {j}
    BY <2>1 DEF OneStart
  <2> QED
    BY <2>2, <2>3 DEF OneStart
<1>6. ASSUME NEW j \in Jobs, StartSend(j) \/ StartMarkFailed(j)
      PROVE  OneStart'
  <2>1. /\ \E to \in {"unsent", "answered"} : request' = [request EXCEPT ![j] = to]
        /\ status' = status \/ status' = [status EXCEPT ![j] = "failed"]
        /\ request[j] \in {"marked", "unsent"}
    BY <1>6 DEF StartSend, StartMarkFailed, Overwrite, store
  <2>2. InStart' \subseteq InStart /\ Listed' \subseteq Listed
    BY <1>1, <2>1 DEF InStart, Listed
  <2> QED
    BY <2>2 DEF OneStart
<1> QED
  BY <1>2, <1>3, <1>4, <1>5, <1>6, RowMovers DEF RowMover, StartRequest

(* Unless two POST .../start requests overlap, crawls and bruteforces       *)
(* together never have two jobs queued or running: the guard finds the      *)
(* table empty, and until the request is answered nobody else adds a row.   *)
(* That overlapping requests break it is MCCrawlerRace's finding.           *)
THEOREM ActiveJobIsOnlyOne ==
  ASSUME ~ ConcurrentStarts
  PROVE  Spec => []OnlyOneActiveJob
<1>1. Init => OneStart
  <2> SUFFICES ASSUME Init PROVE OneStart
    OBVIOUS
  <2>1. InStart = {} /\ Listed = {}
    BY DEF Init, InStart, Listed, Absent
  <2> QED
    BY <2>1 DEF OneStart
<1>2. IInv /\ OneStart /\ [Next]_vars => OneStart'
  BY OneStartStep
<1>3. OneStart => OnlyOneActiveJob
  <2> SUFFICES ASSUME OneStart PROVE OnlyOneActiveJob
    OBVIOUS
  <2>1. CASE Listed = {}
    BY <2>1, FS_EmptySet DEF OnlyOneActiveJob
  <2>2. ASSUME NEW j \in Listed
        PROVE  OnlyOneActiveJob
    <3>1. Listed = {j}
      BY <2>2 DEF OneStart
    <3>2. Cardinality({j}) = 1
      BY FS_Singleton
    <3> QED
      BY <3>1, <3>2 DEF OnlyOneActiveJob
  <2> QED
    BY <2>1, <2>2
<1> QED
  BY <1>1, <1>2, <1>3, Invariant, PTL DEF Spec

=============================================================================

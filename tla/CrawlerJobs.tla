----------------------------- MODULE CrawlerJobs -----------------------------
(***************************************************************************)
(* Crawl and bruteforce jobs end to end: the REST handlers of the API      *)
(* process (pwnproxy/transport/rest/crawler.py), the feed that carries     *)
(* their intents to the crawler worker, the worker's coordinator           *)
(* (pwnproxy/services/crawler/crawler_worker.py), the two strategies that  *)
(* run a job, and the jobs table they all write (JobStore).                *)
(*                                                                         *)
(* Every asyncio task or request is a process with its own program         *)
(* counter; one action is what runs between two suspension points.  The    *)
(* worker's coordinator state (active_task, stop_requested) is shared by   *)
(* all tasks of the worker and read and written only between awaits.       *)
(***************************************************************************)
EXTENDS Naturals, Sequences, FiniteSets, JobStates

CONSTANTS
  MaxJob,           \* ids 1 .. MaxJob may be handed out
  Stops,            \* the POST .../stop requests that may be made
  Kind,             \* [1 .. MaxJob -> {"active", "bruteforce"}]
  NoJob,            \* "no job"
  ConcurrentStarts, \* may two POST .../start handlers overlap?
  MaxCrashes,       \* how many times the worker process may die
  MaxLost           \* how many feed messages may be dropped

Jobs == 1 .. MaxJob

ASSUME CrawlerAssumption ==
  /\ MaxJob \in Nat \ {0}
  /\ Kind \in [Jobs -> {"active", "bruteforce"}]
  /\ NoJob \notin Jobs
  /\ ConcurrentStarts \in BOOLEAN
  /\ MaxCrashes \in Nat /\ MaxLost \in Nat

(* The tasks that use JobLifecycle. *)
Handler(j)    == <<"handler", j>>   \* _handle_crawl_start(j)
Runner(j)     == <<"runner", j>>    \* _run_crawl(j) / _run_bruteforce(j)
Stopper(s)    == <<"stopper", s>>   \* safe_request_stop, or the API's last resort
Recovery      == <<"recovery", NoJob>>
Tasks == {Handler(j) : j \in Jobs} \cup {Runner(j) : j \in Jobs}
           \cup {Stopper(s) : s \in Stops} \cup {Recovery}

VARIABLES
  status, call, report, stale,   \* the jobs table and its users, see JobStore
  request,        \* each job's POST .../start handler
  stop,           \* each POST .../stop request: its progress and its job
  worker,         \* the worker process
  awaited,        \* the job whose task stop() waits for
  feed,           \* intents on their way to the worker, in order
  handler,        \* each job's start handler in the worker
  run,            \* each job's strategy task
  cancelled,      \* task.cancel() was called on the strategy task, not yet delivered
  activeTask,     \* _state["active_task"]: the job whose task it is
  stopRequested,  \* _state["stop_requested"]
  events,         \* the terminal events published for each job
  crashes, lost   \* how often the bounded faults happened

store == <<status, call, report, stale>>
api   == <<request, stop>>
process == <<worker, awaited>>
coord == <<handler, run, cancelled, activeTask, stopRequested, events>>
faults == <<crashes, lost>>
vars == <<store, api, process, feed, coord, faults>>

Store == INSTANCE JobStore WITH Callers <- Tasks

Message == ({"start"} \X Jobs) \cup ({"stop"} \X Stops)

Init ==
  /\ status = [j \in Jobs |-> Absent]
  /\ call = [t \in Tasks |-> Store!NoCall]
  /\ report = [t \in Tasks |-> Store!NoReport]
  /\ stale = [t \in Tasks |-> {}]
  /\ request = [j \in Jobs |-> "none"]
  /\ stop = [s \in Stops |-> [pc |-> "none", job |-> NoJob]]
  /\ worker = "down" /\ awaited = NoJob /\ feed = <<>>
  /\ handler = [j \in Jobs |-> "none"]
  /\ run = [j \in Jobs |-> "none"]
  /\ cancelled = [j \in Jobs |-> FALSE]
  /\ activeTask = NoJob /\ stopRequested = FALSE
  /\ events = [j \in Jobs |-> {}]
  /\ crashes = 0 /\ lost = 0

-----------------------------------------------------------------------------
(* POST /crawler/start and /bruteforce/start *)

(* list_active() *)
Listed == {j \in Jobs : status[j] \in {"queued", "running"}}

InStart == {j \in Jobs : request[j] \in {"checked", "inserted", "marked", "unsent"}}

(* Mutant: the guard asks the worker instead of the table. *)
StartCheckAsksWorker(j) ==
  /\ request[j] = "none"
  /\ \A i \in 1 .. (j - 1) : request[i] # "none"
  /\ ~ConcurrentStarts => InStart = {}
  /\ activeTask = NoJob
  /\ request' = [request EXCEPT ![j] = "checked"]
  /\ UNCHANGED <<store, stop, process, feed, coord, faults>>

(* The 409 guard.  Requests are named by the id their INSERT will get. *)
StartCheck(j) ==
  /\ request[j] = "none"
  /\ \A i \in 1 .. (j - 1) : request[i] # "none"
  /\ ~ConcurrentStarts => InStart = {}
  /\ Listed = {}
  /\ request' = [request EXCEPT ![j] = "checked"]
  /\ UNCHANGED <<store, stop, process, feed, coord, faults>>

StartInsert(j) ==
  /\ request[j] = "checked"
  /\ \A i \in 1 .. (j - 1) : status[i] # Absent
  /\ Store!Create(j)
  /\ request' = [request EXCEPT ![j] = "inserted"]
  /\ UNCHANGED <<stop, process, feed, coord, faults>>

(* update_status() without expected_status: an unconditional UPDATE. *)
Overwrite(j, s) ==
  /\ status' = [status EXCEPT ![j] = s]
  /\ UNCHANGED <<call, report, stale>>

StartMarkRunning(j) ==
  /\ request[j] = "inserted"
  /\ Overwrite(j, "running")
  /\ request' = [request EXCEPT ![j] = "marked"]
  /\ UNCHANGED <<stop, process, feed, coord, faults>>

(* CrawlerProcess.running, and a feed client is connected: send_to_worker() *)
Running   == worker # "down"
Connected == worker \in {"up", "terminating"}   \* also: the worker reads its feed

StartSend(j) ==
  /\ request[j] = "marked"
  /\ IF Connected
       THEN /\ feed' = Append(feed, <<"start", j>>)
            /\ request' = [request EXCEPT ![j] = "answered"]
       ELSE /\ request' = [request EXCEPT ![j] = "unsent"]
            /\ UNCHANGED feed
  /\ UNCHANGED <<store, stop, process, coord, faults>>

(* Mutant: a status that is no state of the contract. *)
StartMarkError(j) ==
  /\ request[j] = "unsent"
  /\ Overwrite(j, "error")
  /\ request' = [request EXCEPT ![j] = "answered"]
  /\ UNCHANGED <<stop, process, feed, coord, faults>>

StartMarkFailed(j) ==
  /\ request[j] = "unsent"
  /\ Overwrite(j, "failed")
  /\ request' = [request EXCEPT ![j] = "answered"]
  /\ UNCHANGED <<stop, process, feed, coord, faults>>

-----------------------------------------------------------------------------
(* POST /crawler/stop and /bruteforce/stop *)

(* The first listed job of the kind; none: "No active crawl job". *)
StopPick(s, kind) ==
  LET mine == {j \in Listed : Kind[j] = kind}
  IN /\ stop[s].pc = "none"
     /\ mine # {}
     /\ stop' = [stop EXCEPT ![s] =
          [pc |-> "picked", job |-> CHOOSE j \in mine : \A i \in mine : j <= i]]
     /\ UNCHANGED <<store, request, process, feed, coord, faults>>

(* Worker alive: only the intent is sent, and whether it was is not looked  *)
(* at.  Worker dead: the API executes the stop itself.                      *)
StopForward(s) ==
  /\ stop[s].pc = "picked" /\ Running
  /\ IF Connected
       THEN /\ feed' = Append(feed, <<"stop", s>>)
            /\ stop' = [stop EXCEPT ![s].pc = "sent"]
       ELSE /\ stop' = [stop EXCEPT ![s].pc = "done"]
            /\ UNCHANGED feed
  /\ UNCHANGED <<store, request, process, coord, faults>>

StopLastResort(s) ==
  /\ stop[s].pc = "picked" /\ ~Running
  /\ stop' = [stop EXCEPT ![s].pc = "last resort"]
  /\ UNCHANGED <<store, request, process, feed, coord, faults>>

(* A task reads the value its lifecycle call returned, and moves on.        *)
Returned(t) ==
  /\ call[t].pc = "idle"
  /\ report' = [report EXCEPT ![t] = Store!NoReport]
  /\ UNCHANGED <<status, call, stale>>

(* Mutant: the stop is written without asking the lifecycle. *)
StoppingUnchecked(s) ==
  /\ stop[s].pc \in {"last resort", "handled"}
  /\ Overwrite(stop[s].job, "cancelled")
  /\ stop' = [stop EXCEPT ![s].pc = "done"]
  /\ UNCHANGED <<request, process, feed, coord, faults>>

(* Mutant: the worker's stop handler leaves the row to the task it cancels. *)
StoppingByTaskOnly(s) ==
  /\ stop[s].pc \in {"last resort", "handled"}
  /\ stop' = [stop EXCEPT ![s].pc = IF @ = "handled" THEN "done" ELSE "api call"]
  /\ IF stop[s].pc = "handled"
       THEN UNCHANGED store
       ELSE Store!Lifecycle(Stopper(s), stop[s].job, "cancelled")
  /\ UNCHANGED <<request, process, feed, coord, faults>>

(* request_stop() on behalf of stop request s, in the API or in the worker. *)
Stopping(s) ==
  /\ stop[s].pc \in {"last resort", "handled"}
  /\ Store!Lifecycle(Stopper(s), stop[s].job, "cancelled")
  /\ stop' = [stop EXCEPT ![s].pc = IF @ = "handled" THEN "worker call" ELSE "api call"]
  /\ UNCHANGED <<request, process, feed, coord, faults>>

StopReturn(s) ==
  /\ stop[s].pc \in {"worker call", "api call"}
  /\ Returned(Stopper(s))
  /\ stop' = [stop EXCEPT ![s].pc = "done"]
  /\ UNCHANGED <<request, process, feed, coord, faults>>

-----------------------------------------------------------------------------
(* The worker process: start() recovers stale jobs before it connects. *)

WorkerSpawn ==
  /\ worker = "down" /\ worker' = "spawned"
  /\ UNCHANGED <<store, awaited, api, feed, coord, faults>>

WorkerRecover ==
  /\ worker = "spawned" /\ worker' = "recovering"
  /\ Store!RecoverSelect(Recovery)
  /\ UNCHANGED <<awaited, api, feed, coord, faults>>

WorkerRecoverOne(j) ==
  /\ worker = "recovering"
  /\ Store!RecoverOne(Recovery, j)
  /\ UNCHANGED <<api, process, feed, coord, faults>>

WorkerConnect ==
  /\ worker = "recovering"
  /\ stale[Recovery] = {} /\ Returned(Recovery)
  /\ worker' = "up"
  /\ UNCHANGED <<awaited, api, feed, coord, faults>>

(* The coordinator's test "a job is already running". *)
TaskAlive == activeTask # NoJob /\ run[activeTask] # "done"

(* The feed connection is closed: the intents not read yet are lost. *)
LeavesFeed ==
  /\ worker' = "stopped" /\ feed' = <<>>
  /\ stop' = [s \in Stops |-> IF stop[s].pc = "sent" THEN [stop[s] EXCEPT !.pc = "done"] ELSE stop[s]]

(* SIGTERM: stop() cancels the active task and waits for it, still reading  *)
(* the feed, then leaves the feed.  It does not exit: the parent kills it.  *)
WorkerTerminate ==
  /\ worker = "up" /\ crashes < MaxCrashes
  /\ IF TaskAlive
       THEN /\ worker' = "terminating" /\ awaited' = activeTask
            /\ cancelled' = [cancelled EXCEPT ![activeTask] = TRUE]
            /\ UNCHANGED <<feed, stop>>
       ELSE /\ LeavesFeed
            /\ UNCHANGED <<awaited, cancelled>>
  /\ UNCHANGED <<store, request, handler, run, activeTask, stopRequested, events, faults>>

WorkerAwaited ==
  /\ worker = "terminating" /\ run[awaited] = "done"
  /\ LeavesFeed
  /\ activeTask' = NoJob /\ awaited' = NoJob
  /\ UNCHANGED <<store, request, handler, run, cancelled, stopRequested, events, faults>>

(* The process is gone, with every task in it and every intent not read.    *)
InWorker(t) == t[1] # "stopper" \/ stop[t[2]].pc = "worker call"

WorkerDies ==
  /\ worker # "down" /\ crashes < MaxCrashes
  /\ worker' = "down" /\ crashes' = crashes + 1 /\ feed' = <<>>
  /\ call' = [t \in Tasks |-> IF InWorker(t) THEN Store!NoCall ELSE call[t]]
  /\ stale' = [t \in Tasks |-> {}]
  /\ stop' = [s \in Stops |-> IF stop[s].pc \in {"sent", "handled", "worker call"}
                                THEN [stop[s] EXCEPT !.pc = "done"] ELSE stop[s]]
  /\ handler' = [j \in Jobs |-> IF handler[j] = "none" THEN "none" ELSE "done"]
  /\ run' = [j \in Jobs |-> IF run[j] = "none" THEN "none" ELSE "done"]
  /\ cancelled' = [j \in Jobs |-> FALSE]
  /\ activeTask' = NoJob /\ awaited' = NoJob /\ stopRequested' = FALSE
  /\ report' = [t \in Tasks |-> IF InWorker(t) THEN Store!NoReport ELSE report[t]]
  /\ UNCHANGED <<status, request, events, lost>>

-----------------------------------------------------------------------------
(* _on_feed_event(): one intent at a time, in order. *)

(* The intents share the feed's BEST_EFFORT queue with the flows it relays: *)
(* a full queue drops them.                                                 *)
FeedDrop ==
  /\ feed # <<>> /\ lost < MaxLost
  /\ feed' = Tail(feed) /\ lost' = lost + 1
  /\ stop' = IF Head(feed)[1] = "stop" THEN [stop EXCEPT ![Head(feed)[2]].pc = "done"] ELSE stop
  /\ UNCHANGED <<store, request, process, coord, crashes>>

DeliverStart ==
  /\ Connected /\ feed # <<>> /\ Head(feed)[1] = "start"
  /\ handler' = [handler EXCEPT ![Head(feed)[2]] = "spawned"]
  /\ feed' = Tail(feed)
  /\ UNCHANGED <<store, api, process, run, cancelled, activeTask, stopRequested, events, faults>>

(* _handle_crawl_stop / _handle_bruteforce_stop: whatever task is active is *)
(* cancelled; the job named in the message is the one marked.               *)
DeliverStop ==
  /\ Connected /\ feed # <<>> /\ Head(feed)[1] = "stop"
  /\ stop' = [stop EXCEPT ![Head(feed)[2]].pc = "handled"]
  /\ feed' = Tail(feed)
  /\ IF TaskAlive
       THEN /\ stopRequested' = TRUE
            /\ cancelled' = [cancelled EXCEPT ![activeTask] = TRUE]
       ELSE UNCHANGED <<stopRequested, cancelled>>
  /\ activeTask' = NoJob
  /\ UNCHANGED <<store, request, process, handler, run, events, faults>>

-----------------------------------------------------------------------------
(* _handle_crawl_start / _handle_bruteforce_start *)

HandlerGuard(j) ==
  /\ handler[j] = "spawned"
  /\ handler' = [handler EXCEPT ![j] = IF TaskAlive THEN "done" ELSE "starting"]
  /\ UNCHANGED <<store, api, process, feed, run, cancelled, activeTask, stopRequested, events, faults>>

HandlerStart(j) ==
  /\ handler[j] = "starting"
  /\ Store!Lifecycle(Handler(j), j, "running")
  /\ handler' = [handler EXCEPT ![j] = "started"]
  /\ UNCHANGED <<api, process, feed, run, cancelled, activeTask, stopRequested, events, faults>>

(* Mutant: the handler ignores that lifecycle.start() raised. *)
HandlerSpawnAlways(j) ==
  /\ handler[j] = "started" /\ Returned(Handler(j))
  /\ handler' = [handler EXCEPT ![j] = "done"]
  /\ run' = [run EXCEPT ![j] = "spawned"]
  /\ activeTask' = j
  /\ UNCHANGED <<api, process, feed, cancelled, stopRequested, events, faults>>

(* lifecycle.start() returned: the strategy task is created, whatever it    *)
(* returned; if it raised, the handler ends here.                           *)
HandlerSpawn(j) ==
  /\ handler[j] = "started" /\ Returned(Handler(j))
  /\ handler' = [handler EXCEPT ![j] = "done"]
  /\ IF report[Handler(j)].result = "raised"
       THEN UNCHANGED <<run, activeTask>>
       ELSE /\ run' = [run EXCEPT ![j] = "spawned"]
            /\ activeTask' = j
  /\ UNCHANGED <<api, process, feed, cancelled, stopRequested, events, faults>>

-----------------------------------------------------------------------------
(* run_crawl / run_bruteforce *)

Advance(j, from, to) ==
  /\ run[j] = from /\ run' = [run EXCEPT ![j] = to]

(* A task cancelled before its first step never enters its body. *)
RunEnter(j) ==
  /\ Advance(j, "spawned", IF cancelled[j] THEN "done" ELSE "working")
  /\ cancelled' = [cancelled EXCEPT ![j] = FALSE]
  /\ UNCHANGED <<store, api, process, feed, handler, activeTask, stopRequested, events, faults>>

(* Mutant: except Exception publishes, but does not record the failure. *)
RunFinishUnrecorded(j, outcome) ==
  /\ ~cancelled[j]
  /\ Advance(j, "working", IF outcome = "failing" THEN "failing: await" ELSE outcome)
  /\ UNCHANGED <<store, api, process, feed, handler, cancelled, activeTask, stopRequested, events, faults>>

(* The work ends, well or with an exception. *)
RunFinish(j, outcome) ==
  /\ ~cancelled[j]
  /\ Advance(j, "working", outcome)
  /\ UNCHANGED <<store, api, process, feed, handler, cancelled, activeTask, stopRequested, events, faults>>

(* The finally block: it resets the coordinator state, whoever owns it now. *)
Finally(j) ==
  /\ run' = [run EXCEPT ![j] = "done"]
  /\ activeTask' = NoJob /\ stopRequested' = FALSE
  /\ cancelled' = [cancelled EXCEPT ![j] = FALSE]

(* run_bruteforce returns as soon as it sees stop_requested, and leaves the *)
(* job's status to whoever requested the stop.                              *)
RunStopsCooperatively(j) ==
  /\ Kind[j] = "bruteforce"
  /\ ~cancelled[j] /\ stopRequested
  /\ Advance(j, "working", "closing")
  /\ UNCHANGED <<store, api, process, feed, handler, cancelled, activeTask, stopRequested, events, faults>>

(* The lifecycle command of each way out: complete, safe_fail, safe_cancel. *)
Ending == [completing |-> "completed", failing |-> "failed", cancelling |-> "cancelled"]
Awaiting == [completing |-> "completing: await", failing |-> "failing: await",
             cancelling |-> "cancelling: await"]

(* Mutant: the completed event is published before complete() is awaited. *)
RunCommandPublishesFirst(j, way) ==
  /\ way = "completing" => ~cancelled[j]
  /\ Advance(j, way, Awaiting[way])
  /\ Store!Lifecycle(Runner(j), j, Ending[way])
  /\ events' = [events EXCEPT ![j] = IF way = "completing" THEN @ \cup {"completed"} ELSE @]
  /\ UNCHANGED <<api, process, feed, handler, cancelled, activeTask, stopRequested, faults>>

RunCommand(j, way) ==
  /\ way = "completing" => ~cancelled[j]
  /\ Advance(j, way, Awaiting[way])
  /\ Store!Lifecycle(Runner(j), j, Ending[way])
  /\ UNCHANGED <<api, process, feed, handler, cancelled, activeTask, stopRequested, events, faults>>

Publish(j, event) == events' = [events EXCEPT ![j] = @ \cup {event}]

(* complete() raised: fall into "except Exception". *)
RunCompleteRaised(j) ==
  /\ Returned(Runner(j)) /\ ~cancelled[j]
  /\ report[Runner(j)].result = "raised"
  /\ Advance(j, Awaiting["completing"], "failing")
  /\ UNCHANGED <<api, process, feed, handler, cancelled, activeTask, stopRequested, events, faults>>

(* run_crawl has closed its fetcher by now; run_bruteforce publishes inside  *)
(* the block whose finally does it.                                         *)
RunCompleted(j) ==
  /\ run[j] = Awaiting["completing"]
  /\ Returned(Runner(j)) /\ ~cancelled[j]
  /\ report[Runner(j)].result # "raised"
  /\ Publish(j, "completed")
  /\ IF Kind[j] = "bruteforce"
       THEN /\ run' = [run EXCEPT ![j] = "closing"]
            /\ UNCHANGED <<cancelled, activeTask, stopRequested>>
       ELSE Finally(j)
  /\ UNCHANGED <<api, process, feed, handler, faults>>

(* run_bruteforce's "await fetcher.stop()", on its way out after completion  *)
(* or a cooperative stop.  It is still inside the try: a CancelledError or   *)
(* an exception there is handled like one of the work (RunCancelDelivered,   *)
(* RunCloseRaised), whatever has been published.                            *)
RunClosed(j) ==
  /\ run[j] = "closing" /\ ~cancelled[j]
  /\ Finally(j)
  /\ UNCHANGED <<store, api, process, feed, handler, events, faults>>

RunCloseRaised(j) ==
  /\ ~cancelled[j]
  /\ Advance(j, "closing", "failing")
  /\ UNCHANGED <<store, api, process, feed, handler, cancelled, activeTask, stopRequested, events, faults>>

RunFailed(j) ==
  /\ run[j] = Awaiting["failing"]
  /\ Returned(Runner(j)) /\ ~cancelled[j]
  /\ Publish(j, "failed")
  /\ Finally(j)
  /\ UNCHANGED <<api, process, feed, handler, faults>>

RunCancelled(j) ==
  /\ run[j] = Awaiting["cancelling"]
  /\ Returned(Runner(j)) /\ ~cancelled[j]
  /\ IF stopRequested THEN UNCHANGED events ELSE Publish(j, "failed")
  /\ Finally(j)
  /\ UNCHANGED <<api, process, feed, handler, faults>>

(* CancelledError is raised at the await the task is in, aborting the       *)
(* lifecycle call it may be in.                                             *)
AbortCall(t) ==
  /\ call' = [call EXCEPT ![t] = Store!NoCall]
  /\ report' = [report EXCEPT ![t] = Store!NoReport]
  /\ UNCHANGED <<status, stale>>

RunCancelDelivered(j) ==
  /\ cancelled[j]
  /\ run[j] \in {"working", "completing", Awaiting["completing"], "closing"}
  /\ run' = [run EXCEPT ![j] = "cancelling"]
  /\ cancelled' = [cancelled EXCEPT ![j] = FALSE]
  /\ AbortCall(Runner(j))
  /\ UNCHANGED <<api, process, feed, handler, activeTask, stopRequested, events, faults>>

(* ... inside an except block nothing catches it again. *)
RunCancelledWhileEnding(j) ==
  /\ cancelled[j]
  /\ run[j] \in {"failing", Awaiting["failing"], "cancelling", Awaiting["cancelling"]}
  /\ Finally(j)
  /\ AbortCall(Runner(j))
  /\ UNCHANGED <<api, process, feed, handler, events, faults>>

-----------------------------------------------------------------------------
(* The database steps of whatever transition_status() calls are under way. *)
Persist(t) ==
  /\ Store!Proceed(t)
  /\ UNCHANGED <<api, process, feed, coord, faults>>

Api == \/ \E j \in Jobs : \/ StartCheck(j) \/ StartInsert(j) \/ StartMarkRunning(j)
                          \/ StartSend(j) \/ StartMarkFailed(j)
       \/ \E s \in Stops, kind \in {"active", "bruteforce"} : StopPick(s, kind)
       \/ \E s \in Stops : \/ StopForward(s) \/ StopLastResort(s)
                           \/ Stopping(s) \/ StopReturn(s)

WorkerProcess == \/ WorkerSpawn \/ WorkerRecover \/ WorkerConnect
                 \/ \E j \in Jobs : WorkerRecoverOne(j)
                 \/ WorkerTerminate \/ WorkerAwaited \/ WorkerDies

Coordinator == \/ FeedDrop \/ DeliverStart \/ DeliverStop
               \/ \E j \in Jobs : HandlerGuard(j) \/ HandlerStart(j) \/ HandlerSpawn(j)

RunStep(j) == \/ RunEnter(j)
              \/ RunFinish(j, "completing") \/ RunFinish(j, "failing")
              \/ RunStopsCooperatively(j)
              \/ \E way \in DOMAIN Ending : RunCommand(j, way)
              \/ RunCompleteRaised(j) \/ RunCompleted(j) \/ RunFailed(j) \/ RunCancelled(j)
              \/ RunClosed(j) \/ RunCloseRaised(j)
              \/ RunCancelDelivered(j) \/ RunCancelledWhileEnding(j)

Next == \/ Api \/ WorkerProcess \/ Coordinator
        \/ \E j \in Jobs : RunStep(j)
        \/ \E t \in Tasks : Persist(t)

Spec == Init /\ [][Next]_vars

(* asyncio resumes every task that can run, and every crawl is finite: its  *)
(* pages are bounded by depth and max_urls, its probes by the word list,    *)
(* and each fetch has a timeout.  A process sent SIGTERM is killed if it    *)
(* has not exited.  Nobody is obliged to post a request or to restart a     *)
(* dead worker, and no fault has to happen.                                 *)
Fairness ==
  /\ \A j \in Jobs :
       /\ WF_vars(StartInsert(j) \/ StartMarkRunning(j) \/ StartSend(j) \/ StartMarkFailed(j))
       /\ WF_vars(HandlerGuard(j) \/ HandlerStart(j) \/ HandlerSpawn(j))
       /\ WF_vars(RunStep(j))
  /\ \A s \in Stops :
       WF_vars(StopForward(s) \/ StopLastResort(s) \/ Stopping(s) \/ StopReturn(s))
  /\ WF_vars(WorkerRecover \/ WorkerConnect \/ \E j \in Jobs : WorkerRecoverOne(j))
  /\ WF_vars(worker \in {"terminating", "stopped"} /\ WorkerDies)
  /\ WF_vars(DeliverStart \/ DeliverStop)
  /\ \A t \in Tasks : WF_vars(Persist(t))

FairSpec == Spec /\ Fairness

-----------------------------------------------------------------------------
(* Where a strategy task can be: in its body, or on one of its ways out. *)
RunState == {"none", "spawned", "working", "closing", "done",
             "completing", "failing", "cancelling",
             "completing: await", "failing: await", "cancelling: await"}

(* Type correctness of the table, the two processes, the feed and the      *)
(* coordinator's tasks.                                                    *)
TypeOK ==
  /\ Store!TypeOK
  /\ request \in [Jobs -> {"none", "checked", "inserted", "marked", "unsent", "answered"}]
  /\ stop \in [Stops -> [pc  : {"none", "picked", "sent", "last resort", "handled",
                               "worker call", "api call", "done"},
                        job : Jobs \cup {NoJob}]]
  /\ worker \in {"down", "spawned", "recovering", "up", "terminating", "stopped"}
  /\ awaited \in Jobs \cup {NoJob}
  /\ \A i \in DOMAIN feed : feed[i] \in Message
  /\ handler \in [Jobs -> {"none", "spawned", "starting", "started", "done"}]
  /\ run \in [Jobs -> RunState]
  /\ cancelled \in [Jobs -> BOOLEAN]
  /\ activeTask \in Jobs \cup {NoJob} /\ stopRequested \in BOOLEAN
  /\ events \in [Jobs -> SUBSET {"completed", "failed"}]
  /\ crashes \in 0 .. MaxCrashes /\ lost \in 0 .. MaxLost

(* Crawl and bruteforce together never have two jobs queued or running,    *)
(* whatever was stopped, crashed or dropped in between; with overlapping   *)
(* POST .../start requests this fails, see ConcurrentStarts.               *)
OnlyOneActiveJob == Cardinality(Listed) <= 1

(* A crawl is announced as ended once, completed or failed, however its    *)
(* completion, a stop, a SIGTERM and an error race, and a job announced    *)
(* failed is never announced completed later.  A bruteforce that was       *)
(* announced completed can still be announced failed, because its          *)
(* fetcher.stop() can be cancelled or raise after the event.               *)
OneTerminalEvent ==
  [][\A j \in Jobs : events'[j] # events[j]
        => events[j] = {} \/ (Kind[j] = "bruteforce" /\ events[j] = {"completed"})]_vars

(* A job that has ended is moved again by one writer only: the start       *)
(* handler's unguarded update_status(), still under way for a job that was *)
(* stopped or failed meanwhile.  Nothing in the worker, no stop and no     *)
(* recovery revives it.                                                    *)
FinishedMovedOnlyByStart ==
  [][\A j \in Jobs : status[j] \in Terminal /\ status'[j] # status[j]
        => request[j] \in {"inserted", "unsent"}]_vars

(* A strategy only works on a job whose row says it runs, is being stopped *)
(* or was cancelled: never on one that recovery or the API failed, that    *)
(* was not started or that has completed.                                  *)
RunnerHasLiveRow ==
  \A j \in Jobs : run[j] \in {"spawned", "working", "completing"}
    => status[j] \in {"running", "stopping", "cancelled"}

Ended(j) == Resolve(status[j]) \in Terminal

(* A stop the worker took up, or that the API executes itself because the  *)
(* worker is dead, is followed by the end of its job, unless the worker    *)
(* dies or an intent is lost: of the writers that race for the row, the    *)
(* one that loses has a winner that finishes.  (For crawls; what goes      *)
(* wrong with bruteforce jobs is CooperativeStopIsRequested.)              *)
StopEndsJob ==
  \A s \in Stops, j \in Jobs :
    stop[s] \in {[pc |-> "handled", job |-> j], [pc |-> "last resort", job |-> j]}
      ~> (Ended(j) \/ crashes + lost > 0)

(* A strategy that entered its body brings its job to an end in the table, *)
(* unless the worker dies or a stop aimed at another job cancels it.       *)
RunEndsJob ==
  \A j \in Jobs :
    run[j] = "working"
      ~> (Ended(j) \/ crashes > 0 \/ \E s \in Stops : stop[s].job \notin {j, NoJob})

(* What run_bruteforce assumes when it returns without touching its job's  *)
(* status: the stop handler that set the flag is about to mark, or has     *)
(* marked, this job.  A flag left over from a stop that cancelled a task   *)
(* before its first step breaks it.                                        *)
CooperativeStopIsRequested ==
  [][\A j \in Jobs : RunStopsCooperatively(j) =>
        \E s \in Stops : /\ stop[s].job = j
                         /\ stop[s].pc \in {"handled", "worker call", "api call", "done"}]_vars
=============================================================================

# Verification of pwnproxy

TLA+ models of pwnproxy's components, the TLC runs that check them on small
instances, and TLAPS proofs of most of the safety properties for every instance. Paths are
relative to `src/pwnproxy/` unless they start with `src/`.

## The system

pwnproxy is an intercepting proxy with scanners, a crawler, a directory
bruteforcer, an intruder and a REST/WebSocket interface. It is an asyncio
program in several processes: the API process, a proxy worker and a crawler
worker. They share SQLite databases, five per session, and exchange events over
local TCP bridges; inside the API process events go over the HookBus.

| component | state | operations | talks to | what makes it correct |
|---|---|---|---|---|
| Job contract (`shared/contracts/job.py`) | none | `transition` | everybody who moves a job | only legal transitions; ended jobs stay ended |
| Job storage, `JobLifecycle` (`services/crawler/storage.py`, `services/jobs/lifecycle.py`) | the `jobs` table | create, clone, `transition_status`, recovery, the unguarded `update_status` | API process and worker | concurrent writers take no illegal step; a caller is told the truth |
| Crawler REST handlers (`transport/rest/crawler.py`) | none of their own | start, stop | the table; the worker | one active job; a stop is carried out |
| Crawler worker (`services/crawler/crawler_worker.py`, `strategies/`, `process.py`) | `active_task`, `stop_requested` | recovery, intents, strategies, SIGTERM | the table; its own bridge | every job ends, with one terminal event |
| Crawl engine (`services/crawler/engine.py`, `fetcher.py`) | frontier, visited URLs | batches, links, `cancel` | strategies | within its limits, and complete |
| QoS queue (`shared/bus/qos.py`) | bounded queue, retry buffer, counters | put, get, retry tick | bridge, HookBus | no duplicates, progress in order, losses counted |
| TCP bridge (`shared/bus/transports/tcp_bridge.py`) | per client: three queues, a consumer | publish, connect, consume | processes | priority without starvation |
| HookBus (`shared/hooks.py`) | subscribers, pending buffers | register, publish | loader, rooms, triage | every subscriber gets its own copy |
| WebSocket rooms (`transport/ws/events.py`) | rooms, sockets | join, leave, dispatch, broadcast | HookBus, browsers | a client gets the events of its room only |
| Task store, requests (`services/session/store.py`, `transport/rest/tasks.py`) | the `tasks` table, tracked runners | create, update, cancel, delete, poll | runners, REST | a live task is not declared stale, a dead one is |
| Intruder (`services/intruder/`) | a semaphore, a counter | execute | its task | complete results under sharing |
| Reports (`transport/rest/reports.py`, `ai/reports/`) | none | group, analyse, write | findings, LLM client | tells of every finding, invents nothing |
| Plugin loader, AutoScan (`plugins/core/loader.py`, `autoscan.py`) | consumers, windows | activate, deactivate, unload, report | in-process bus, HookBus | one consumer per plugin; windows open and close once |
| Detection chains, stages (`plugins/core/chain.py`, `shared/scan/stages/`) | the points of a scan | waves, tests | targets | no test without warrant, no lost confirmation |
| Callback server, tokens (`shared/canary.py`, `http_server.py`) | token registry | create, receive, look up, clean up | out-of-band stages | a callback decides |
| Triage, findings (`ai/triage/`, `shared/findings/storage.py`) | findings, queue and budget of the judge | save, score, judge, feedback | LLM client, rooms | budgets hold |
| LLM client (`ai/llm/`) | circuit breaker, ledger | provider chain | providers | the breaker follows the failures |
| Session manager (`services/session/manager.py`) | scope, configuration, engines, files | create, load, save, rename, delete, scope | everything above | parts see the state of one session |
| Interceptor (`services/proxy/interceptor/`) | paused flows, pending list | hold, forward, drop, edit, switch | proxy, API | the user sees every flow that is held |
| Proxy supervision (`services/proxy/proxy_process.py`, `proxy_worker.py`) | the worker process | start, stop, restart, scope signal | session manager | no worker is left behind |
| History, comments (`services/proxy/addons/storage.py`, `transport/rest/traffic.py`) | flows, comments | store, delete, comment | rooms | comments belong to their flow |

The hard behaviours are: several writers of one row in different processes,
state read before an await and used after it, cancellation at any await,
processes that die, intents in a queue that may drop them, queues at their
limits with retries, collections changed while they are iterated over, ids that
SQLite hands out again, and objects replaced while in use. `PROJECT.json` lists
them one by one under `hazards`, at their lines.

## The modules

| module | models | state and actions |
|---|---|---|
| `JobStates` | the contract's tables, as operators | `Legal`, `Resolve` (legacy strings), `NextStep` (the path of `transition_status`) |
| `JobMachine` | what the contract promises, abstractly | one state per job; `Appear`, `Move` |
| `JobStore` | the `jobs` table under any callers | `status` the column, `call` the `transition_status` a caller is in: `Read`, `CompareAndSet` per persisted step, `Reread` of the loser; recovery; `Abort` |
| `CrawlerJobs` | API handlers, feed, worker and strategies over `JobStore` | a program counter per request, handler and strategy |
| `QosQueue` | `QoSClassifiedQueue`, as operators from queue to queue | its methods are synchronous |
| `EventBridge` | `TcpBridgeServer` and one client, over `QosQueue` | the link, three queues, the consumer's place in `_consume()` |
| `LossyChannel` | what the bridge promises a client, abstractly | what waits and what was sent; `Offer`, `Send`, `Lose` |
| `HookBus` | the fan-out, over `QosQueue` | `bus` holds the queues of each channel and what waits for the first subscriber |
| `Rooms` | `RoomManager`, `RoomDispatcher`, `ws_room()` | sets with an identity, a broadcast that suspends per send |
| `TaskStore` | the `tasks` table, requests and runners | `row`, the commit each runner or client awaits, which store tracks which runner |
| `PluginHost` | loader, consumers, AutoScan windows, storing of findings, over `HookBus` | `tasks` in creation order, `tracked`, `batch`, and the events announced |
| `ScanStages` | what each stage concludes from the answers | operators from an observation to a verdict |
| `DetectionChain` | the scan of a flow, over `ScanStages` | the run of a chain: points, waves, deadline; tests and findings as history |
| `CanaryCallbacks` | out-of-band stages on one registry | a token per test, the life of tokens, the server |
| `CrawlEngine` | `CrawlEngine.run()` and its consumer | frontier, batch, pages that wait to be yielded |
| `Triage` | findings in two databases, the pipeline | table and verdict history per database, judge queue, budget |
| `LlmClient` | provider chain, breaker, ledger | a place per caller, failures and circuit per provider |
| `Interceptor` | addon and controller | phase of each flow, snapshots, list |
| `ProxyProcess` | supervisor and worker processes | a place per call, life and scope of each worker |
| `Intruder` | generators, engine, runners | attacks, requests in the semaphore, the shared counter |
| `Reports` | request, runner, analysis, files | the findings as read, groups, sections, summary, formats and files |
| `TrafficStore` | flows, comments and their ids | rows per database, inserts and requests under way |
| `SessionManager` | sessions, files, engines, lock | the operation each caller is in, database by database |
| `Subsequences` | list comprehensions with a condition | `Kept(s, P)`: the entries of a list at some of its positions |
| `Subsequences_proofs` | what `Kept` returns | |
| `JobStore_proofs`, `CrawlerJobs_proofs` | theorems about the module of the name | |
| `TaskStore_proofs` | theorems about `TaskStore` and `MCJobs` | |
| `HookBus_proofs` | lemmas about `QosQueue`, theorems about `HookBus` | |
| `Messaging_proofs` | theorems about `EventBridge`, `Rooms`, `TrafficStore`, `SessionManager` and `MCMessaging` | |
| `Scanning_proofs` | theorems about `CanaryCallbacks`, `PluginHost` on the `HookBus`, `DetectionChain` and `MCScanning` | |
| `Services_proofs` | theorems about `ProxyProcess`, `Triage`, `Interceptor`, `LlmClient`, `CrawlEngine`, `Intruder`, `Reports` and `MCServices` | |

`MCJobs`, `MCMessaging`, `MCScanning` and `MCServices` put modules side by side that
share no state: a variable `part`, chosen at first, says which of them moves,
so that one run checks each of them over all of its behaviours without their
product. Components that do interact are composed in one module:
`CrawlerJobs` instantiates `JobStore` with its tasks as callers; `EventBridge` and
`HookBus` extend `QosQueue`; `PluginHost` extends `HookBus` and `DetectionChain`
extends `ScanStages`; `QosQueue` and `DetectionChain` use `Subsequences`. Operators whose comment starts with "Mutant:" are
slips of a plausible kind, used to confirm that each property can fail; no
specification refers to them.

Some correspondences worth knowing:

- One action is the code between two awaits that really suspend. Reads and
  writes of one SQL statement are atomic.
- The legacy strings `queued` and `stopped` are kept in the column: the
  compare-and-set compares raw strings, the contract resolved ones.
- `task.cancel()` takes effect at the next await of the task, not at all in a
  task that never ran, and inside an except block nothing records the end.
- In `EventBridge`, `get()` on a queue with data does not suspend (Python 3.12),
  so a dequeue and the choice of its queue are one action. Time is counted in
  units of 0.05 s, that of the retry delays.
- In `TaskStore` each save of the session makes a new, numbered store. The task
  requests ask the current one, `GET /workers` the first.
- In `Rooms` a broadcast iterates over a live set: if its size has changed Python
  raises; if one left and one came, the set may have been rehashed under the iterator,
  so that the order and the end are open and members may be met again (`Rehashed`).
- In `DetectionChain` a stage ends or raises after any number of its points, and
  the budget may be spent at any moment. `ScanStages` reduces bodies and
  statuses to the classes a stage tells apart, with all combinations of them.
- In `CanaryCallbacks` a tick is 30 s, the timeout of the client; a token lives
  two ticks.
- In `SessionManager` the scope stands for the three files of a session, which
  are written together; opening the five databases is an await each. Any operation may
  raise wherever it is (`Fails`), which gives back the lock and nothing else.
- In `CrawlerJobs` the end of a bruteforce is two actions: the completed event, and
  `fetcher.stop()` after it, still inside the `try`, where a cancel or an exception
  goes on to the failure of the job (`RunClosed`, `RunCloseRaised`).
- In `PluginHost` unloading a plugin is two actions as well, with toggles between
  them, since the API outlives `shutdown()`.
- In `Interceptor` a hook holds the flow first; its snapshot may then fail to be
  made. In `LlmClient` a call may end wherever it awaits.
- In `Reports` the relation `Inside` says which reference is part of the text of
  which: a CVE number may begin another one, and the filter looks for substrings.

## The runs

| run | instance | question | result |
|---|---|---|---|
| `job_store` | 2 jobs, 2 callers, any starting rows; 2 tasks, 2 clients, 1 save, 1 restart | Is every change of a job one legal step of `JobMachine`? Are reported ends final, recovery guarded? Is an open task run or found stale, a tracked runner spared? | holds |
| `crawler_jobs` | a crawl and a bruteforce, 2 stops, 1 crash | One active job, one terminal event, no strategy without its row; who may move an ended job? | holds |
| `crawler_stop` | 2 crawls, 1 stop, 1 crash, 1 lost intent, fairness | Does a stop that was taken up end its job, and a crawl that runs end? | holds |
| `messaging` | 5 events of 4 topics through queues of 1 or 2; 2 subscribers of 3 channels; 3 sockets, 2 rooms; 2 flows, 2 comments, 2 databases; 2 sessions, 2 callers, operations that raise | Do events reach those they are for, once, in order, with losses counted? Does the bridge implement `LossyChannel`? Do comments stay with their flow? Is one session open at a time, failures included? | holds |
| `scanning` | 2 plugins, 2 flows, 2 toggles; 2 points and every scanner; 3 out-of-band scanners, 2 tests | One consumer per plugin, windows that open and close once; tests warranted, confirmations kept, scans that end; callbacks decide | holds |
| `services` | the judge, 2 providers, 2 held flows, 3 workers, 8 URLs, 2 attacks, 3 findings, each with 2 callers where calls overlap | Is each service within its limits and consistent? | holds |
| `one_active_job` | 2 crawls, overlapping starts | the comment "Only one active job at a time." | violated |
| `cooperative_stop` | a crawl and a bruteforce, 1 stop, no faults | the comment "stop handler already marks the job stopped." | violated |
| `critical_dropped` | the bridge, a retry buffer never full | the doc "never dropped by policy." | violated |
| `task_terminal` | the tasks | the doc "Terminal statuses accept no outgoing transitions." | violated |
| `session_isolation` | the sessions | the README's "Sessions are isolated and persisted locally." | violated |
| `signature_differential` | the scans | the comment "No textual signature matched → fall back to the status differential." | violated |

### What the violated runs show

- `one_active_job`: both handlers read an empty list before either inserts. In
  `crawler_jobs` start requests do not overlap (`ConcurrentStarts = FALSE`), and
  one active job at a time is what holds then, crashes and stops included.
- `cooperative_stop`: a stop hits a task that has not run yet. The task is
  cancelled without entering its body, so nobody resets `stop_requested`. The
  next bruteforce sees the flag and returns without touching its row.
- `critical_dropped`: with two retries due, `get()` clears both from the buffer
  and returns one.
- `task_terminal`: the runner's `update("running")` loads the row, `cancel()`
  commits, the runner commits. The cancelled task runs again until its
  cancellation is delivered.
- `session_isolation`: `load()` has set the new name and awaits the databases; a
  save or a scope update writes the scope that is still in memory to the new
  session's files, and `load()` then reads it back from there. A save or the auto-save
  after a `load()` that raised there does the same, without any overlap.
- `signature_differential`: a payload gets a 5xx, a later one matches a signature.
  The `break` leaves the loop and the code below reports the 5xx as well.

### What the passing properties say and allow for

- `FinishedMovedOnlyByStart`: the start handler's unguarded `update_status` does
  revive an ended job. `StopEndsJob` begins when the worker takes the stop up,
  because the intent may be dropped. `RunEndsJob` excepts stops aimed at
  other jobs, because the stop handler cancels whichever task is active.
- `OneTerminalEvent`: a crawl is announced as ended once. A bruteforce announced
  completed may be announced failed as well, since a cancel or an exception in
  `fetcher.stop()` comes after the event (`directory.py:171`); never the other way round.
- `OneLiveConsumer` excepts the consumers that a toggle started while `unload()` was
  suspended (`missed`), which outlive the shutdown: for those it only says that they are the
  tracked ones of plugins that are enabled.
- `KnownRunnerNeverStale` speaks of the store that tracks the runner, because
  after a save another one is asked.
- `FanOut`: each subscriber of a channel holds exactly what it is owed, less what
  its own queue counted as lost; the first one also what was waiting.
- `ImplementsChannel`: a CRITICAL event may get lost at any time, which
  `critical_dropped` shows; what is below is refused when it is published or not at
  all. A keyed value may come before an older event that has no key, since it takes
  the place of the value it replaces.
- `RoomDelivery`: nobody gets what is not for its room. An event whose
  broadcast met a join or a leave may miss some members, and come to others more than
  once; one that met none comes to each of them once.
- `CommentsGoWithFlow` excepts comments committed after their flow was deleted by
  a request that had still seen it; those do end up on a flow with the same id.
- `OneSessionAtATime` is about operations that do not overlap and has no
  counterpart for those that do (`session_isolation`), nor after a rename, which
  leaves the engines on the old path. Any of them may raise. A failed load leaves parts
  of two sessions; the property says that the files stay their owners' unless a
  session is saved in that state, and that all is of one session again after the
  next create, load or start that goes through.
- `TestsAreWarranted`: within a wave of a `BudgetChain` a confirmed point is tested
  again, since the points that are left are computed once per wave.
- `CallbackDecides` is about tokens within their life. An older one may be
  cleaned up by another scanner together with its callback.
- `BatchLifecycle` lets `autoscan.started` be repeated, which the code does when
  a second scanner reports the only flow of a window.
- `JudgeWithinLimits` covers the budget and who may be judged. It does not say
  that a human verdict stays: a late answer of the judge overwrites it.
- `BreakerAndLedgerAgree`: a half-open circuit lets every caller through; the
  property says what the state of the breaker means all the same. Attempts that end
  with an exception `generate()` does not catch, or with a cancellation, are counted
  apart (`unrecorded`): the breaker hears of none of them, and the ledger has no row.
- `HeldIsSeen`: a flow whose body cannot be decoded is held before its snapshot fails
  to be made, and is never listed (`undecoded`); every other one is, or has its snapshot
  in the queue. After the interceptor was switched off, flows may be listed that are
  not held any more; before that, only those a decision released and then raised on.
- `OnlyKnownWorker` is about calls one after the other, with workers that die
  or refuse the connection. Two overlapping starts orphan a worker.
- `CrawlCoversSite`: `max_urls` may be passed by the rest of one batch; with more
  than one fetch at a time the crawl is not breadth-first; paths, not URLs
  or hosts, are visited once, and seeds as often as they are given.
- `AttackIsComplete`: numbers of results repeat when another attack begins, since
  the engine's counter is shared and set to zero.
- `ReportTellsFindings`: the findings are those of the session active when the
  runner reads them, not of the one the report is named after. The files are those of
  the formats asked for, none if the list was empty. A reference in a section is part
  of the text of the evidence, which a CVE number that begins a longer one there is,
  too. A severity that is none of the five stands under no heading.

### Bounds

- Two jobs, tasks, callers, clients, sockets, sessions or attacks are enough for
  the races here: each is between two users of one row, set, file or
  counter. The proofs about jobs and tasks cover any number.
- Constants named `Max...` bound faults and traffic in the guards: crashes,
  lost intents, saves, restarts, events, flows, toggles, calls, switches of the
  session. Each is large enough for the case it is about to occur and for
  something to happen after it.
- Queues hold one or two items instead of hundreds, so that each reaches its
  limit. `StarvationLimit` is 2 instead of 4, `CircuitThreshold` 2 instead of 3,
  `RateLimitRetries` 1 instead of 2, for the same reason. `critical_dropped` uses a
  buffer of 4 so that its hard limit plays no part.
- The site of `CrawlEngine` has three seeds, one given twice, pages that link to each other, two
  URLs of one path, one URL out of scope and one that robots.txt disallows;
  it is crawled one, two and three at a time, up to depth 2 and 5 pages.
- `DetectionChain` runs every scanner at every depth over two points, one of
  which the flow may repeat; the observations of a stage are all combinations
  of its classes of answers for three payloads.
- Deadlock is checked for the bridge, whose consumer must always be able to go
  on (`critical_dropped` has it on; `messaging` also contains parts that end). All
  other parts may end: jobs, tasks, scans, attacks and bounded traffic.
- Reports are asked for with no format and with two, and the references are two of
  which one is part of the other's text.
- Symmetry is used in runs without liveness, over interchangeable stops,
  clients and tasks.
- `messaging` has one broadcast event over three sockets, so that one may leave, one
  join and the third be met again, and two operations on sessions that may be there
  already, so that one may fail and the other put it right; `session_isolation` has
  four. `JoinedIsInRoom`, `RoomDelivery` and `OneSessionAtATime` are proved for any number.

### Fairness

- `crawler_stop`: asyncio resumes every task that can run, so each request,
  handler and strategy gets weak fairness as one process, the database
  steps too, and the feed delivers. A crawl is finite, its fetches have
  timeouts, so `RunFinish` counts as a step the strategy must take. A process
  sent SIGTERM is killed (`process.py:157-163`). Nobody must post a request,
  restart a dead worker or cause a fault.
- `scanning`, for `BatchIsCompleted`: time passes and the sweep, a loop over
  `asyncio.sleep`, runs (`HostFairness`). No code stops the tracker.
- `scanning`, for `ScanEnds`: the task of the scan takes its next step
  (`ChainFairness`); each request of a stage has a timeout. Neither an answer
  of a particular kind nor the end of the budget is assumed.

## The proofs

Each theorem is about the specification of a component, or of the components a run
puts side by side, for all values of the constants that satisfy the assumptions
named in their modules. The invariants named
`...IInv` are inductive; TLC checked each of them on the instance of the run
before it was proved. They are conjunctions of named parts, there is one lemma
per action or group of actions that preserves them, and lemmas named `...GoesOn`
say that a part survives a step that leaves alone what it reads.

### The jobs table

`JobStore_proofs` proves, for any set of jobs and of callers and assuming only
that `NoJob` is not a job:

- `TypeCorrect`, `ReportsAreFinal`: the invariants of the jobs in `job_store`;
  `PendingStepsAreLegal`, on which the second rests.
- `RecoveryIsGuarded`: the action property that recovery only moves a RUNNING row,
  and moves it to FAILED.
- `TableImplementsContract`: `JobStore` implements `JobMachine` under the mapping
  `jobState`, which reads the column through the legacy strings.
- `EndedJobsStay`: the property of the abstract machine, carried over by the
  refinement.

The inductive invariant is `IInv == TypeOK /\ PendingStepLegal /\ ReportIsFinal`.
Type correctness alone does not tell what a pending compare-and-set will
write. `PendingStepLegal` says that the step is legal from the value the caller
compares with; the compare makes that the value of the row, and `PathStaysLegal`
carries it to the next step of the path. `ReportIsFinal` follows because a
terminal state has no legal successor. There is one lemma per action, and one
refinement lemma per action that writes the column.

These theorems are about the table as `transition_status`, `create`, `clone_job` and
recovery move it. `CrawlerJobs` also contains the start handlers' unguarded
`update_status`, which the refinement does not survive; `FinishedMovedOnlyByStart`
states what remains.

### Crawls and bruteforces

`CrawlerJobs_proofs` proves, for any number of jobs, stop requests, worker deaths
and lost intents:

- `TypeCorrect`, the type invariant.
- `RunnerRowIsLive`: no strategy works on a row that has failed, completed or waits.
- `TerminalEventIsOne` and `FinishedStays`: the action properties `OneTerminalEvent` and
  `FinishedMovedOnlyByStart`.
- `ActiveJobIsOnlyOne`: at most one active job, under the hypothesis that start
  requests do not overlap (`~ConcurrentStarts`). Without it the run
  `one_active_job` refutes the property.

That a row is live while its strategy works depends on where in its life the
job is, in three processes at once. `IInv` therefore follows a job from its
request to its terminal event: `Handed` says that the request, the intent,
the handler and the strategy of a job follow one another, `FeedInOrder` that no
intent is in the feed twice or acted upon before it is read, `Rows` what the
start handler has done so far to the row, `Alive` what `lifecycle.start()`
found and the strategy relies on, `CallsMoveOn` and `CallsHaveOwners` what a
pending `transition_status` will write and for whom, and
`QuietUntilConnected` that a worker process does nothing before it has
recovered the table. `OneStart` adds, for `ActiveJobIsOnlyOne`, that nobody else is
listed while a start is under way.

### Tasks

`TaskStore_proofs` proves `TaskTypeCorrect`, `DeadTaskIsFound` and
`RunningTaskNeverStale` for any tasks, clients, saves and restarts, assuming only
that the bounds are natural numbers. That a task whose runner is through is
ended or untracked is not inductive: whether the last `update()` ends it depends
on what was loaded before. `InOrder` says, per task, that a task past its
`update("running")` is not queued, that a commit which changes nothing found the
status it was asked for, that whatever else is pending ends the task unless the
runner is starting, and that a runner that was cancelled is tracked by nobody;
`OpenMayMove` then gives that no ending is refused to an open task. For the polls
a second invariant, `StaleInv`, is needed: a task found stale had its POST answered
before, so that no `track()` can still hand its runner to the store that was asked.

### The interceptor

`Services_proofs` proves `InterceptorTypeCorrect` and `NoFlowIsHeldUnseen` for
any flows and any number of switches. `HeldIsSeen` alone does not tell whether what
the consumer takes from the queue is still held. `QueuedIsHeld` adds it: until the
first switch-off, a flow in the queue is held, not listed, and has one snapshot; a
flow that a decision released and then raised on may be met there once more.

### The LLM client

`Services_proofs` proves `LlmTypeCorrect` and `BreakerFollowsFailures` for any finite
set of callers, any chain and any thresholds. The invariant is the property with
the type. The ledger counts the calls that still owe it a row, so each action is
shown to add one such call, to pay for one, to count one as lost or unrecorded, or to
leave them alone; that
`generate()` finds a first provider among those left rests on the well-foundedness
of strict inclusion of finite sets.

### The session manager

`Messaging_proofs` proves `SessionTypeCorrect` and `SessionsStayApart`
(`OneSessionAtATime`) for any sessions, scopes and callers. The property speaks
of a manager at rest that has not failed since it was last put right. The invariant adds
what the one operation under way may rely on at each of its awaits: which databases it has opened, that the session it
opens them for is the active one, that the scope in memory is what the files
say from the moment they are read, and who has the lock of `save()`.
`SessionAssumption` says that the callers' names and the scopes are not the
word "none" that stands for no owner.

### The bridge

For any topics and traffic, any sizes of the queues and any limits, with losses
of the connection and reconnects, `Messaging_proofs` proves:

- `EventsAreSentOnce` (`AtMostOnce`): nothing is written twice, and nothing that was
  written waits anywhere.
- `ProgressGoesForward` (`ProgressNeverGoesBack`): what a client is told of a job or a
  finding is in the order of publication.
- `LossesBelowCriticalAreCounted` (`LossesAreCounted`): published is sent, waiting or
  counted, exactly.
- `BridgeTypeCorrect`: with it, that every queue keeps its size, and the retry
  buffer its limit.
- `ImportantIsNotStarved` (`ImportantIsServed`): how often IMPORTANT was passed over is at
  most its age, which is below the limit whenever a lower queue may be chosen
  before it. The proof found a mistake in an earlier form of the model: `Choice` was a
  CASE whose arms overlapped, so that its value was not determined; it is
  now written in the order of the code.

The first four share one invariant, `DeliveryIInv`. `Unsent(c)` is what was published in
class c and not written; `Sound(q, C)` says that a queue, retry buffer included, holds
members of C, each in one place, and every operation of `QosQueue` is shown to keep
it. Then a queue that is sound for `Unsent` cannot hold what was written, and
queues of different classes hold nothing in common. `KeysInOrder` adds that of one key
one event waits at most, and that it is later than those written; this
uses that the topics `_coalesce_key()` gives a key are IMPORTANT (`TOPIC_QOS`), which
`BridgeAssumption` states. The retry buffer is cut by conditions in `get()` and
`retry_tick()`: `KeptIsPicked`, in `Subsequences_proofs`, says that `Kept(s, P)` has as many
entries as P and that they are those of s at the positions P, in their order.

`BridgeIsLossyChannel` proves that `EventBridge` implements `LossyChannel`
(`ImplementsChannel`), with the mapping that forgets the queues, the retries and the
place of the consumer: `Waiting` is the set of what the queues and the retry
buffer hold. From `DeliveryIInv` each event waits in the queue of its class. New are
the contents an operation leaves (`PutContents`, `LowerTakesFirst`), of which
`Sound` only gives the upper bound, and `ClassesInOrder`, that events without a
key are queued in the order of publication. One lemma per action maps it to a step of the
channel. `QueuedIsSentOrReplaced` is the action property `WaitingIsKept` of the
abstract specification, carried over by the refinement.

### The HookBus

In `HookBus_proofs`, `SubscribersHearAll` (`FanOut`) and `HookTypeCorrect` hold for any channels, classes, sizes
and subscribers. `Hears(c, q, got, due)` says what a queue of channel c owes its
subscriber: what it took is part of what it is due and came once, the queue is
`Sound` for the rest, below CRITICAL everything is accounted for, and nothing is
missing while the queue was never full. Every operation of the queue keeps it. What
waited for the first subscriber is the newest of what was sent; `FoldGoesThrough`
shows that `FoldLeft` passes it through the fresh queue one put after another (the fold
is a recursive function of the set of places left, and the sets it comes by are
the intervals `1 .. k`), so that this queue owes its subscriber no less than any other.

### Rooms and history

`JoinedStaysInRoom` and `EventsReachTheirRoom` (`JoinedIsInRoom`, `RoomDelivery`) hold
for any sockets, channels and events. `RoomsShape` says that every room has a
set of its own and somebody in it, that a broadcast works on the set of its
event's room as long as anybody is in that room, and whom it has met; `Delivered`
that what a client got was for its room and came once if nothing disturbed it. `CommentsFollowTheirFlow`
(`CommentsGoWithFlow`) rests on ids being one more than the greatest in the table, whence
`MaxOfFinite`: a finite, non-empty set of numbers has a greatest member.
`RoomsTypeCorrect` and `TrafficTypeCorrect` state the types. The second needs
`RowsTyped`: not only the rows there are, but also the one an insert under way
is about to commit, is of a flow that was captured.

### The scanning side

`Scanning_proofs` proves:

- `CanaryTypeCorrect` and `VerdictsRestOnCallbacks` (`CallbackDecides`): the token of a
  test ages with the test, so that no `cleanup_expired()` of another scanner
  removes it before the test has looked it up.
- `WindowsFollowOneAnother` (`BatchLifecycle`), from the announcements made so far: all
  windows before the current one are over, and the current one is open or over.
- `ConsumersAreTracked` (`OneLiveConsumer`), for any finite set of plugins, which is
  what a directory holds: every live consumer is the one `tracked` names for
  its plugin, and every other task of that plugin is cancelled or over. The invariant
  follows the one plugin that is being unloaded, and names the consumers started
  meanwhile.
- `ConfirmedWasReported` (`ConfirmedIsReported`), for any points: `ReportsRest` says
  that what the current stage has found was tested, and that what it is about to confirm
  it has found. The lists are joined and cut as in the code, hence the
  lemmas on lists before it.
- `TestsHaveWarrant` (`TestsAreWarranted`), for any points, whatever the flow repeats.
  Whether a test repeats another one depends on lists made long before it.
  `WavesIInv` says that the runs of a scan share no point with each other nor with
  what was tested, that a wave has points of its run and a stage points of its wave,
  each once, that no test of a point of the run was made by a stage after
  the one in progress, and that what is confirmed among the points of a wave
  was confirmed within the wave.
- `ChainTypeCorrect`: the points confirmed are points of the run, those reported are
  points of the flow.
- `HostTypeCorrect`: consumers, windows and, with `FlowIInv`, the queues of flows.
  `QueueOfFlows` says that such a queue is `Sound` for the flows published so far
  and within the limits of its class; the lemmas of `HookBus_proofs` about the
  operations of a queue carry it through `publish()` and `get()`.
- `HostUsesTheBus`: `HostSpec` implements `HookSpec`. Plugins that publish findings and
  the consumer that stores them are clients of the bus, and whatever else the host
  does leaves the bus alone. `FindingsReachStorage` draws the conclusion: `FanOut` holds
  of the findings, however plugins are toggled, crash and are unloaded.

### Services

`Services_proofs` proves `ProxyTypeCorrect` and `WorkerIsKnown` (`OnlyKnownWorker`) for
any number of workers, calls and updates of the scope: `ProxyIInv` says what a call
that nothing overlaps with finds at each of its awaits. It also proves
`TriageTypeCorrect` and `JudgeKeepsLimits` (`JudgeWithinLimits`) for any findings,
queue and budget, assuming that there is a database. The limits alone are not
inductive: a finding could come to the judge a second time. `AskedOnce` says
that each finding asked about is in the queue, with the judge or judged, and in one
of these places only; `AskedIsWarranted` that the heuristic was not sure of it;
`ChangesKnown` that a `set_triage()` under way is one its caller waits for.

`AttackTriesAll` (`AttackIsComplete`) holds for any lists of markers and words and for any
attacks on one engine; `IntruderTypeCorrect` with it. There are two parts. The lists a generator makes
are what its mode promises: `SniperTriesAll` takes the number of a request apart
by division, `ClusterBombTriesAll` digit by digit, by induction over the markers
(`EveryCombination`; the induction, `EveryNumber`, is on a set and rests on the well
foundedness of the finite intervals). The provers do not know `^`, so that the number of
combinations is the recursive function `Power`; `PowerLaws` shows that there is such a
function.
The other part is `EngineIInv`. `OnceEach` says that a request is in line once
and not any more when it was let in; `RequestsKnown` that an attack has only the
requests generated for it; `NumbersInTurn` that no number was given twice
until another attack set the counter back. An attack with as many results as
requests then has a result of each (`OneForEach`), though its tasks wait
among those of others, of cancelled attacks too.

`CrawlStaysInBounds` (`CrawlCoversSite`) and `CrawlTypeCorrect` hold for any site, any seeds,
any limits and any number of fetches at a time. What a page adds to the frontier
is a fold over its links: `OffersGoThrough` gives the frontier before each of them, and
`AllLinksLead` shows by `EveryNumber` what it is in the end (`LedTo`): new paths only, allowed, one
level below the page, each queued once and behind what was. `CrawlIInv` then says that
only a seed is on its way twice (`OnceOnTheWay`, with two different URLs of a path both
seeds, `KnownUrls`); that the pages fetched and the tasks under way together are
bounded (`PagesInBounds`), which the pages alone are not, inductively; that the links
of a yielded page are queued (`YieldedAreFollowed`); and, for one page at a time,
that the queue is in levels (`InLevels`): in the order of depth, with nothing known
more than a level below the page in work.

`ReportsTellFindings` (`ReportTellsFindings`) and `ReportsTypeCorrect` hold for any findings, any
cap on the narratives and any saves, deletions and loaded sessions. The fold of
`dedup_findings()` is taken finding by finding: `DedupTells` says that after the first
k of them every place has one group, which counts its findings, has the worst
severity among them, is confirmed if one is, and holds the references of one
(`GroupsTell`). A reference is traceable to a group if it is part of the text of one
that the group holds (`InTextOf`). `SortSorts` shows that the positions `Ahead` counts are each taken once,
so that the sections are the groups in another order, and `AsManyPlaces` that the
numbers of the summary do not depend on it. `ReportIInv` carries `GroupsTell` through the
calls of the models, which add facts only, and says of each phase how many groups
were written about and that what was written is traceable (`Narrated`). That the
findings are of the session on the title unless one was loaded since (`Analyzed`)
begins to hold when the task is created, before anything is read.

### The compositions

`JobsAreItsParts`, `MessagingIsItsParts`, `ScanningIsItsParts` and `ServicesAreTheirParts` say that a
behaviour of the modules put side by side satisfies the specification of each of
them. With them a theorem about a component holds of the specification its
property is checked on, and `JobsTypeCorrect`, `MessagingTypeCorrect`, `ScanningTypeCorrect` and
`ServicesTypeCorrect` are the type invariants of the runs. Every invariant of a passing
run, and every action property, is proved.

### What stays with TLC

- Liveness under fairness: `StopEndsJob`, `RunEndsJob`, `BatchIsCompleted`, `ScanEnds`.

## Not modelled, and why

Abstracted in the modelled parts: payloads (of a report too, which are taken to name no CVE), fingerprints and scores, statistics
and progress numbers, start times and error texts, formatting, logging.

Left out: passive crawling and scope updates in the crawler worker; the
reconnecting bridge client; the bruteforce's own requests (one step); discovery
and hot reload of plugins; export and import of session archives; the table of
discovered URLs (one upsert per row, one writer); the repeater (one request at
a time, no shared state); extraction of tokens; the DNS callback server, which
nothing starts; the terminal, web and MCP clients.

Observed while modelling, and in no property, since nothing in the repository
says otherwise:

- Tasks: `scan.completed` is published although the task was cancelled
  (`transport/rest/tasks.py:172`); the concurrency an attack asks for is set on an
  attribute the semaphore does not look at (`tasks.py:209`); the total returned
  for an attack is the length of the word list whatever its markers; braces
  in a request break the formatting of payloads.
- Bruteforces: `bruteforce_failed` may follow `bruteforce_completed` for one job whose row stays
  completed (`directory.py:171`).
- Sessions: after a `load()` that raised, the next save or auto-save writes the scope of
  the session before into the files of the one that failed to load; a scope update whose
  write fails is in memory only and not marked unsaved; `save()` drops `created_at` and clears the flag of unsaved changes
  after its last await; deleting the active session leaves its engines open;
  creating one drops unsaved changes; `outscope_flow` and `import_burp` change the
  scope without `update_scope()`, so that no worker is told. Crawl flows go to the
  engine that was open when the process started (`src/apps/terminal/cli/start.py:282`).
- Proxy: a worker does not exit on SIGTERM by itself (`proxy_worker.py:224`);
  SIGUSR1 before its handlers are installed kills it; a refused handshake leaves
  it running.
- Plugins: `start.py:419` awaits `shutdown()`, "Shut down all consumer tasks and unload
  all plugins" (`loader.py:355`), before it cancels the API at line 422: a plugin disabled
  and enabled again while `unload()` awaits the end of its task or `on_unload()` gets a
  consumer that nothing cancels.
- Interceptor: `forward_with_edits()` of a flow that is gone leaves it listed, and so does
  a decision that raises; a flow whose body cannot be decoded is held and never listed,
  so that only switching the interceptor off releases it.
- Scans: whether to go to the next wave is logged, never decided (`chain.py:269`);
  the `timeout` of `replay()` has no effect; the sqli, lfi and xxe stages send
  callbacks to `oob.pwnproxy`, which only a resolver that knows the name reaches.
- Triage: a verdict goes to the database that is active when it is written, by
  the id the finding has in another. LLM: a failed write to the ledger discards
  the answer; although the ledger is to have "one row per LLM call attempt (ok or error)"
  (`usage.py:50`), an exception other than the two `generate()` catches, and a
  cancellation, leave none.
- Reports: CVE numbers the model invents are removed from sections but not from
  the executive summary; a PDF that fails leaves the Markdown with a failed task;
  a severity that is none of the five is counted nowhere and stands in the plan and the
  appendix only; an invented CVE number passes if a longer one in the evidence begins with
  it; a list of no formats makes a completed report without files.
- Crawls: a stopped crawl leaves the fetches of its batch running; seeds are not
  tested against scope or robots.txt, and one given twice is fetched twice.
- Traffic: a client that polls with `since_id` misses rows with a reused id.
- Bridge: the counter of BEST_EFFORT grows only while CRITICAL has data, so that a
  stream of IMPORTANT events starves it; a due retry overtakes events
  published later but still queued.

## Plan

An abstract specification worth adding: a task machine that `TaskStore` would
implement if its commits were compare-and-sets. To model next: a bridge client that
reconnects, and the passive path of the crawler worker.

## Running

`tlc -config MCMessaging.cfg MCMessaging` and likewise `MCJobs`, `MCScanning`,
`MCServices` and `MCCrawlerJobs`. `MCCrawlerLiveness`, `MCCrawlerRace` and
`MCCrawlerCooperative` use the module `MCCrawlerJobs`; `MCMessagingCritical` and
`MCSessionIsolation` use `MCMessaging`; `MCTaskTerminal` uses `MCJobs`;
`MCScanningSignature` uses `MCScanning`. `tlapm JobStore_proofs.tla` checks the
proofs about the jobs table, and likewise for the other `_proofs` modules, of
which the longest takes some minutes. The longest run takes two to three minutes.

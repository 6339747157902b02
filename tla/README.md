# TizenClaw in TLA+

TizenClaw is a C++ daemon that connects a language model with a device: prompts
arrive from channels, timers and device events, the agent talks to a backend and
runs tools, and what it knows (conversations, tasks, pipelines, workflows) is
kept in small files. The code is multi-threaded throughout: every component
with state has a mutex, most have a thread, and prompts are long calls made
outside the locks. That is what this project models.

Source paths below are relative to `src/src/tizenclaw/`. The exact lines of each
definition are in `PROJECT.json` under `map`.

Contents: [Inventory](#inventory) · [Plan](#plan) ·
[Modules and code](#modules-and-code) · [Runs](#runs) · [Fairness](#fairness) ·
[Proofs](#proofs) · [Abstractions](#abstractions) ·
[Findings and observations](#findings-and-observations) ·
[Not modelled](#not-modelled)

## Inventory

### Modelled components

| Component | State | Operations | What makes it hard | Correct when |
|---|---|---|---|---|
| **TaskScheduler** (`scheduler/task_scheduler.cc`) | `tasks_` and one file per task, `exec_queue_`, `running_`; a timer thread and a worker thread | CreateTask, CancelTask, Start, Stop, LoadTasks; SchedulerLoop, ExecutorLoop, ExecuteTask | two mutexes and two condition variables; the worker runs a copy of a task and writes it back; crashes between the save and the run; calendar arithmetic | a one-shot task runs at most once over all lives and runs when due; a cancelled or finished task stays so; next runs are those the expression asks for |
| **AgentCore, conversation** (`core/agent_core.cc`), **SessionStore** (`storage/session_store.cc`) | `sessions_`, session files, `session_compacting_` | ProcessPrompt, TrimHistory, CompactHistory, ClearSession, Initialize, Shutdown; SaveSession, LoadSession, SanitizeHistory | concurrent prompts on one session; the lock is given up for a model call in the middle of a trim; failures after each step | requests hold no tool result without its call; history is bounded and in order; a prompt returns |
| **EventBus** (`core/event_bus.cc`) | bounded queue, list of subscriptions, dispatch thread | Publish, Subscribe, SubscribeAll, Unsubscribe, Start, Stop, DispatchLoop | full queue; subscribers called from a copy of the list; lost wake-ups | it is a log of which the newest events are kept; each client sees events in order, once, and no more after it left |
| **AutonomousTrigger** (`core/autonomous_trigger.cc`) | rules, cooldown table, hourly counter | LoadRules, Start, Stop, OnEvent, EvaluateWithLlm, ExecuteAction | limits updated rule by rule over time; prompts from detached threads | cooldown and rate limit hold; a matching direct rule acts |
| **PipelineExecutor** (`core/pipeline_executor.cc`), **WorkflowEngine** (`core/workflow_engine.cc`) | `pipelines_`, `workflows_`, one file each; per run: variables, retries, position | Create, Delete, Load, Save, Run, ExecuteStep, EvalCondition | save outside the lock; retries, skips and jumps interact; restarts | deleted lists stay deleted, saved ones survive; prompts and status agree with what the steps did; runs end |
| **ActionBridge** (`core/action_bridge.cc`) | `pending_` promises, `exec_to_req_`, request channel, one file per action; a worker thread | SendRequest, HandleRequest, HandleExecute, HandleListActions, DoSync, OnActionResult, OnActionEvent, Stop | a timeout races the answer; results come in any order or never; Stop races callers; files are written by two paths | a call gets its own answer or an error and returns; nothing stays pending; files follow the actions |
| **SkillWatcher** (`core/skill_watcher.cc`), **tool cache** of AgentCore | `cached_tools_`, `cached_tools_loaded_`, inotify watches, `pending_reload` | LoadSkillDeclarations, ReloadSkills, WatchLoop, ExecuteCustomSkillOp | the flag is cleared without the mutex of the scan; files change during a scan and before a watch | at rest the list is what is on disk; a stale list is repaired |
| **OtaUpdater** (`infra/ota_updater.cc`) | skill directories and backups | UpdateSkill, RollbackSkill, BackupSkill, DownloadFile, VerifySha256 | several file operations, each of which may fail or be the last before a crash | a skill that was there is installed or in a whole backup |
| **SwarmManager** (`core/swarm_manager.cc`) | `peers_`, socket, heartbeat and listener threads | Start, Stop, HeartbeatLoop, ListenerLoop, UpdatePeer, RemoveStalePeers | datagrams lost and reordered; "leaving" races "active" | devices that are gone are forgotten, live ones found |
| **ToolPolicy, SafetyGuard, ToolRouter** (`core/`) | call counts, idle window, window of action times, redirections | CheckPolicy, Validate, CheckActionRateLimit, Resolve, CheckIdleProgress, ResetSession | tool threads of several prompts; clock read outside the mutex; windows shared by prompts | the rate is kept and refusals are justified; idle prompts are stopped, others are not |

### How components interact

- `TizenClawDaemon` (`core/tizenclaw.cc`) owns everything: it starts the bus before
  the trigger and stops the trigger before the bus (module `EventSystem`).
- Scheduler, trigger, pipelines, workflows and channels all call
  `AgentCore::ProcessPrompt(session_id, prompt)`, a blocking call of seconds to
  minutes that returns a text or throws. For the callers it is an outcome chosen
  freely; `SessionHistory` models what happens inside.
- Device adapters and channels publish on the bus; trigger and perception subscribe.
- Tool threads inside ProcessPrompt pass `ToolPolicy`, `SafetyGuard` and
  `ToolRouter` before a tool runs (module `ToolGate`). A tool may call the
  scheduler, the pipelines, the workflows or the action bridge in turn.
- Watcher, updater, the dashboard and the operation on custom skills all reload
  or invalidate the one cached tool list that every prompt reads
  (`SkillCatalog`, `OtaUpdater`).
- Devices broadcast to each other (`Swarm`); nothing else leaves the device but
  requests to models, channels and the fleet server.
- Nearly every component has its own directory of files, written through a
  temporary file and a rename, and reads it once at start.

### Components not modelled

| Component | State and hard behaviour | Property to state |
|---|---|---|
| AgentCore backends | `backend_`, fallbacks, reload | a request is answered by one configured backend; no use after replacement |
| McpClient, McpClientManager | one pipe for many callers; idle disconnect | every answered request returns its answer |
| IPC server, WebDashboard, WebhookChannel | worker counts, limits, Stop | limit kept; Stop returns after the last worker |
| PerceptionEngine, ProactiveAdvisor | wake and debounce, cooldowns | an analysis follows the last event |
| MemoryStore, AuditLogger | retention limits, rotation | limits kept, newest entries survive |
| Tool executor, ContainerEngine | CLI sessions, order of attempts | sessions are closed; each request has one answer |
| SupervisorEngine, AgentFactory | roles and their files | delegated goals are answered or reported |

The rest (LLM wire formats, HTTP, chat channels, embeddings, client libraries,
command line programs, package manager plugins) is I/O, conversion of texts or
arithmetic on vectors; `PROJECT.json` gives the reason for each.

## Plan

In the order of importance; 1 to 8 are done.

1. `ScheduleTime`, `TaskScheduler`: calendar, threads, files; proofs.
2. `SessionHistory`: the conversation under concurrent prompts.
3. `RecentLog` (abstract), `EventBus`, `AutonomousTrigger`, composed in
   `EventSystem`; refinement and its proof.
4. `StepEngines`: pipelines and workflows, their stores and runs; proofs.
5. `ActionBridge`: promises, time limits, files and Stop; proofs.
6. `SkillCatalog`, `OtaUpdater`: cache, watcher, update and roll back with crashes,
   composed since they work on the same directories and the same list.
7. `Swarm`: peers over a lossy, reordering broadcast.
8. `ToolGate`: policy, safety guard and router as the tool threads pass them.
9. `Workers`: the counting of workers against Stop, shared by the IPC server, the
   dashboard and the webhook channel.
10. `McpPipe`: answers to the requests of several threads on one pipe.
11. Backend selection, memory retention, the task and session file formats as
    pure functions with a reference definition.

Proofs planned next: a safety invariant of the table of peers of `Swarm`, of which only
liveness is stated so far; the types of the bridge and the tool gate.

## Modules and code

**`ScheduleTime`** (no state). `ParseSchedule` and `ComputeNextRun` with the shape
of the calendar as constants (60, 60, 24, 7 in the code) and the width of `int`
as `IntMax`; the product in an interval expression wraps as the build does.

**`TaskScheduler`.** `tasks` and `disk` are `tasks_` and the task files, `queue` is
`exec_queue_`. `schedPc` and `execPc` are the two threads. The timer thread
holds `tasks_mutex_` from `SchedScan` through one `SchedFire` per due task to
`SchedWait`; the worker pops (`ExecPop`), looks at the task (`ExecSkip`,
`ExecBegin`), calls the agent without a lock and writes its copy back
(`ExecFinish`). The test of the worker's wait predicate and its falling asleep
are two states (`presleep`, `asleep`), since a notification in between is lost.
`Start` includes LoadTasks; `Crash` leaves only the files. `execs` counts calls
of the agent over all lives.

**`SessionHistory`.** One session, several `ProcessPrompt` calls. An action is one
critical section of `session_mutex_`; `TrimHistory` is split where
`CompactHistory` gives the lock up for the summary call (`pc = "summarise"`).
Each way out of the loop is an action: `Answer`, `Call` and `ToolsDone`,
`Offline`, `Rollback`, `Throw`, `StopIdle`, `LimitReached`. A message is its
role, prompt and iteration. `object` and `ref` tell whether the vector a prompt
refers to is still the one in the map. `Shutdown` saves and clears the session and
sets `closing` (there is no backend any more, so nothing is compacted), and the
prompts under way go on; `Crash` ends the process life, after a Shutdown or
without.

**`EventBus`.** `published` is the history of events; queue and dispatch thread
hold positions in it, so equal events differ. `Deliver` calls one subscriber of
the copy `todo`; lists of subscriptions are sets, of which the one with the least
id is the first (ids grow, and the code appends). The other clients of the bus are arbitrary: they subscribe,
unsubscribe and publish at will. **`RecentLog`** is the abstract specification: a
log, a reader's position, and the rule that the reader may skip only events
that are followed by `QueueSize` newer ones.

**`AutonomousTrigger`.** `OnEvent` runs all rules on an event within one call, as
the code does: match, cooldown, record, then direct action or hourly limit and
evaluation (`ApplyRules` is the loop as a recursive function over the turns). A
detached thread is represented by the ProcessPrompt call it makes.
**`EventSystem`** composes the two as the daemon does: `OnEvent` is what the bus
delivers to the client `Trigger`, Start and Stop subscribe and unsubscribe.

**`StepEngines`.** `mem` and `disk` are the maps and the files of both engines;
`saving` is the copy a creator holds between inserting it and writing it, which
the mutex does not cover. A run works on a copy of its list; `Condition` and
`ExecuteStep` are one turn of the loop, `ExecuteStep` one turn of the retry
loop within. `talk` is the set of sessions with messages: the runs clear one
name (`RunSession`) and talk in another (`StepSession`). The properties of the log
are about lists whose conditions jump forward (`Forward`); for others only
the stores are. `saved`, `gone` and
`sent` are history variables.

**`ActionBridge`.** A caller's steps are those of SendRequest between its critical
sections: take a number (`Call`), enter the promise (`Insert`), `Send`, wait, and
leave by `Get` or by `TimeOut` and `GiveUp`. `value[i]` is the shared state of
promise and future of request `i`. The worker's handlers and callbacks are single
actions, since they touch `pending_` once, at their end. `executing`,
`installed` and `events` are the Action Framework. Stop is three steps: `StopChannels`
quits the worker's task and destroys the channels (a caller can no longer send),
`StopWorker` destroys the task and clears `started_`, `StopPending` fails what is
left. A synchronisation removes the file of an action without a schema.

**`SkillCatalog`.** `disk` is the directories, `cache` and `loaded` the cached list
and its flag, `inotify` and `watched` what the kernel knows. A scan holds
`tools_mutex_` (`holder`) and reads one skill per step; ReloadSkills is two steps
(`Clear`, `Invalidate`), as in the code. A thread in LoadSkillDeclarations reads the
flag (`Check`) and takes the list under the mutex (`Served`, `ReturnCached`); the
history variable `overlap` has those that met a ReloadSkills between its two steps.
**`OtaUpdater`** extends it with one action per file operation of UpdateSkill and
RollbackSkill, each failure and a crash after each; `job.from` is the backup that
RollbackSkill chooses once, at its start.

**`Swarm`.** `age[d][e]` is how long ago `d` heard of `e`; it replaces
`last_seen_ms` and the clock. `phase` is the thread in Start and Stop, `beat` and
`listening` the two other threads, `net` the datagrams on their way.

**`ToolGate`.** One record per prompt and per tool thread; a tool thread passes
`CheckPolicy`, `Validate`, `ReadClock` (within `Validate`), `CheckActionRateLimit`
and `Execute`, each a critical section of another mutex, and the prompt ends the
iteration with `CheckIdleProgress`, which compares signatures: the name and the
result of every call, where a refusal and the hint of a redirected call hold the
name the model used. `granted`, `own` and `alone` are history
variables.

## Runs

`CHECK_DEADLOCK` is off wherever bounded clocks, counters and lives let the model
stop, as the system may (all tasks done, process stopped); `swarm` has no such
bound and checks it.

| Run | Module, configuration | Checks | Shows |
|---|---|---|---|
| `calendar` | `MCScheduleTime` | `NextIsFirstAsked`, `IntervalExact` | against a definition of the moments an expression asks for: the next run is the first such moment; an interval that fits an `int` is kept exactly |
| `scheduler_safety` | `MCTaskScheduler_safety` | `TypeOK`, `OnceAtMostOnce`, `RetriesExhausted`, `WakeupCoversOnce`, `CancelHonoured`, `TerminalIsFinal` | two tasks, every kind of schedule, two lives with crashes |
| `scheduler_live` | `MCTaskScheduler_live` | `DueOnceRuns` | a due one-shot task is run unless cancelled or stopped, also when saves fail |
| `scheduler_cancel` | `MCTaskScheduler_cancel` | `CancelIsFinal`, violated | the write-back undoes a cancellation |
| `history_safety` | `MCSessionHistory_safety` | `NoOrphanSent`, `HistoryBounded`, `HistoryOrdered` | two prompts, compaction, every failure, a clear or a Shutdown |
| `history_live` | `MCSessionHistory_live` | `NoOrphanSent`, `PromptReturns` | a crash and a restart from the file; every prompt returns |
| `events` | `MCEventSystem` | `QueueIsRecent`, `ReceivedInOrder`, `UnsubscribeStops`, `CooldownKept`, `EvaluationsLimited`, `BusIsRecentLog`, `DirectRuleActs` | bus and trigger together: refinement of `RecentLog`, order, limits, and that a direct rule acts |
| `step_engines` | `MCStepEngines` | `DeletedStaysDeleted`, `SavedSurvives`, `PromptsJustified`, `StatusTells`, `RunEnds` | stores over restarts; retries, skips, jumps, status; termination |
| `action_bridge` | `MCActionBridge` | `OwnAnswer`, `PendingExact`, `StoppedNobodyWaits`, `FilesFollowActions`, `CallReturns` | calls, late and missing answers, Stop at any moment; files under a changing action |
| `skills` | `MCSkills` | `EmptyOnlyInReload`, `FreshAtRest`, `NeverLost`, `StaleRepaired` | edits, updates, roll backs and crashes against the cache and the watcher |
| `swarm` | `MCSwarm` | `GoneForgotten`, `LiveFound` | devices that start, stop and crash on a lossy network |
| `tool_gate` | `MCToolGate` | `RateKept`, `IdleExact`, `RefusalJustified` | two prompts on one session call a limited tool |

Every module with state has a type invariant. The runs list it where a theorem is about it
(`scheduler_safety`); the others hold on the same instances and can be added to a
configuration as `INVARIANT TypeOK`.

Six more configurations are kept beside the runs. Each checks one property that
the code does not have, and TLC prints a behaviour that shows it:
`tlc -config MCScheduleTime_overflow.cfg MCScheduleTime`,
`tlc -config MCTaskScheduler_recurring.cfg MCTaskScheduler`,
`tlc -config MCSessionHistory_rollback.cfg MCSessionHistory`,
`tlc -config MCSessionHistory_replaced.cfg MCSessionHistory`,
`tlc -config MCSessionHistory_shutdown.cfg MCSessionHistory` and
`tlc -config MCEventSystem_session.cfg MCEventSystem`; see
[Findings and observations](#findings-and-observations).

### Bounds and why they are enough

- *Calendar.* Minutes of 2 seconds, hours of 2 minutes, days of 2 hours, weeks of
  3 days; `MaxNow` = 30 covers more than a week from every second of the first
  day. Numbers in expressions range from one below to one above every tested
  bound. `IntMax` = 7 lets products overflow.
- *Scheduler.* Two tasks are one to fire while the other runs. A day has two
  seconds and `MaxTime` = 2, so every kind of schedule fires. Two starts give a
  crash in every state and what the next life makes of it. `MaxQueue` = 2 holds
  both tasks; `MaxExecs` = 2 is one more than a one-shot may have.
  `MaxRetries` = 2 tells the first failure from the last.
- *Conversation.* 5, 4 and 2 keep the order of the code's 30, 15 and 10
  (`CompactCount + 2 <= Threshold < MaxHistory`), so that compaction, hard limit
  and batch extension all occur; two prompts of two iterations with two tool
  calls pass all of them. `history_safety` has one process life with a clear or a
  Shutdown, whose file a later prompt loads; `history_live` has two lives with a crash
  at any moment and calls of one tool. A restart after a Shutdown is in the
  theorems only. `FileLimit` = 4 makes the file shorter than the history.
  `history_replaced` needs three prompts and has its own configuration.
- *Events.* Three events through a queue of two: one is dropped. Two subscriptions
  let a client leave and come back. Two rules, of which one is evaluated with a
  limit of one per hour, and a rule without a name that LoadRules drops.
- *Step engines.* One id per store: an entry's actions touch no other entry (the
  theorems are for any number). One thread that runs: runs share only the store,
  which each reads once at its start, and `talk`. The two pipelines have every
  operator, every kind of branch (taken, naming no step, empty), a step that is
  retried and skipped, one that is only skipped, one that is neither and one with a
  negative `max_retries`. Two
  lives give one restart in any state.
- *Action bridge.* Two callers and three requests: the synchronisation that
  Initialize makes, and two calls that overlap or follow each other. One action
  with two versions and two changes is installed and updated, updated twice, or
  removed and installed again while it is synchronised.
- *Skills.* One watched and one custom skill: watching, updating and scanning a
  skill do not depend on other skills of its kind. `MaxEvents` = 3 edits, prompts,
  updates and crashes, of which two are needed to make a list stale and one to
  see it. Two versions tell old from new.
- *Swarm.* Two devices: an entry of a table concerns a pair. `PeerTimeout` = 1
  gives a fresh, an ageing and a stale entry.
- *Tool gate.* Two prompts with one call at a time: two threads pass the gate in any
  order. `MaxCalls` = 2 in `Window` = 2 seconds with a delay of up to 1 puts clock
  values into the window out of order; `MaxNow` = 4 is longer than window and
  delay. `IdleWindow` = 2 within three iterations, and `MaxRepeat` = 3, let both
  tests refuse and accept.

## Fairness

- *Scheduler.* Strong fairness for each thread: the mutexes are contended, and a
  thread that finds one free again and again gets it in the end. Weak fairness
  for time and for the end of Stop. None for spurious wake-ups, creators, cancel,
  Stop and Crash. A call of the agent returns (`PromptReturns`).
- *Conversation.* Weak fairness of each prompt's step: the model answers or fails
  (HTTP requests have a time limit), tools end (the container has one).
- *Events.* Weak fairness of the dispatch thread. Its mutex is taken by publishers
  once per event, and their number is bounded, so weak fairness suffices.
- *Step engines.* Weak fairness of a run's step: the thread waits for nobody but
  the agent.
- *Action bridge.* Weak fairness of the callers only: they wait with a time limit.
  Nothing is assumed of the worker, the framework or Stop.
- *Skills.* Weak fairness of watcher, prompt and reload threads; none for edits,
  updates and crashes.
- *Swarm.* Weak fairness of time and of the heartbeat threads. A datagram is
  delivered or lost in the end (weak), and of heartbeats that are sent again and
  again to a device that listens some arrive (strong): without that no protocol
  finds anybody. None for Start, Stop and Crash.

## Proofs

The theorems hold for every value of the constants under the named assumptions,
which TLC evaluates in every run:

- `CalendarAssumption`, `SchedulerAssumption`, `BusAssumption`, `BridgeAssumption`:
  sizes are natural numbers, bounds positive, expressions parse to schedules.
- `TriggerAssumption`: the configuration is a list of rules with integer cooldowns,
  negative ones included, and the limit is a natural number.
- `HistoryAssumption`: finitely many prompts, and the order of the three limits
  that the constants of the code have.
- `EngineAssumption`: accepted lists are not empty, `max_retries` is an integer
  (a negative one included, which the code reads as none), workflows have no
  conditions.
- `CatalogAssumption`: the threads are different ones, watched and custom skills
  have different directories, and there is a skill (with none, an empty list and
  a list not yet filled are the same).
- `GateAssumption`: limits are natural numbers, and a thread is held between clock
  and mutex for no longer than the window.

Induction over data is replaced by the least counterexample: a set of natural
numbers that is not empty has a least element (`LeastNat`), which needs no
operator as a parameter.

**`TaskSchedulerProofs`**
- `DailyNextWithinADay`: the next run of a daily task is in the future, at most a
  day away. From `Midnights`, the remainder of an integer division.
- `TypeCorrect`: `TypeOK` is inductive by itself.
- `CancelHonouredAlways`: an action property. Only the write-back of a run may
  replace a cancelled task; needs that the tasks a scan has yet to fire are
  active while the timer thread holds the mutex (`ScanActive`).
- `OnceAtMostOnceAlways`, for a reliable disk. `OnceAtMostOnce` is not inductive:
  a one-shot task with one call and an armed entry would be called again. The
  inductive invariant `OnceInv` says where a one-shot task can be: armed and never
  called, or no longer armed and in at most one place, the queue or the
  worker's hand (`OncePlace`); that files agree with memory in schedule and
  status (`FilesAgree`, `PendingHasFile`), which is what survives a crash; and
  that the worker's copy is of the task it will replace (`CopyFaithful`).
- `RetriesExhaustedAlways`, with or without failing saves. The failures are counted
  on the worker's copy, so the invariant `RetryOk` says the same of the copy
  while a call is under way.
- `WakeupCoversOnceAlways`: while a scan is under way its `earliest` covers the
  one-shot tasks it has passed (`ScanCovers`); the write-back of a copy cannot
  arm a one-shot task again, since one is queued or in the worker's hand only
  after it was completed (`HandInv`: `DownIdle`, `HandedOver`, `CopyCurrent`).
- `TerminalIsFinalAlways`, an action property: a task whose file is terminal is
  not armed in memory or in the worker's hand (`FileFinal`).

**`ScheduleTimeProofs`**, for every length of minute, hour, day and week, every width
of `int` and every expression.
- `NextIsFirstAskedAlways`: a moment is a number of days and a
  second of the day, a day a number of weeks and a weekday (`Division`,
  `DivisionUnique`). `DailyFirst` and `WeeklyFirst` compare these numbers; the four
  cases of DaysAhead (later in the week, earlier, today, today and passed) are
  `WeekdayNext`. `ClockInv` says that the next run was computed from `base`.
- `IntervalExactAlways`: from `WrapFits`.

**`EventSystemProofs`**
- `QueueIsRecentAlways`, `BusImplementsRecentLog`: from `LogInv`, the queue is the
  sequence of the newest positions behind the reader, complete unless full. Push
  and pop map to the log's append and read; all other steps stutter.
- `SystemContainsBus`, `SystemImplementsRecentLog`: bus and trigger together are
  a behaviour of the bus with arbitrary clients, so the refinement carries over.
- `ReceivedInOrderAlways`, `UnsubscribeStopsAlways`: what a client has received
  lies before the event being dispatched, and of that one it has not yet been
  called if it is still in `todo`; a client that left is in `todo` only for the
  event under way.
- `CooldownKeptAlways`, `EvaluationsLimitedAlways`, for any list of rules. OnEvent
  runs all rules in a loop over a record of times and counts; what the loop
  keeps is shown for each turn and carried over all of them.

**`StepEnginesProofs`**
- `DeletedStaysDeletedAlways`, `SavedSurvivesAlways`, from the inductive
  `StoreInv`: ids not handed out have no entry, file or creator; deleted ids have
  none either; saved ids have entry and file and no creator; and a creator's copy
  equals the entry if the entry is still there. The last part is what the
  properties do not say and the save outside the mutex needs.
- `PromptsJustifiedAlways`, `StatusTellsAlways`, from `RunInv`, which relates a run to
  the log of its prompts: the log is in the order of the list (`LogOrder`); the
  exceptions of the current step are the retries counted (`UpToNow`); every step
  behind was not sent, was answered, or was given up and may be skipped
  (`Behind`); `all_success` tells whether one was given up (`Success`); and a run
  that ended inside the list ended at a step that may not be skipped
  (`EndedAt`). Both theorems are about lists whose conditions jump forward: a
  backward jump runs a step again and the log would say so.

**`ActionBridgeProofs`**
- `OwnAnswerAlways`, `PendingExactAlways`, `StoppedNobodyWaitsAlways`, from
  `CallInv` and `ExecInv`. None of the three is inductive: `PendingExact` needs that
  a number belongs to one caller (`NumberOwn`) and that an answer lies only in
  the promise of a caller that has not returned (`ValueOwned`); `OwnAnswer` needs
  that an execution is recorded for the request that started it, or no longer
  (`ExecInv`); `StoppedNobodyWaits` needs that whoever waits has an entry in
  `pending_` or an answer (`WaiterCovered`), which is what Stop relies on when it
  fails the entries.
- `FilesFollowActionsAlways`, from `FileInv`: a file differs from its action only while
  an event about it is on its way (`FileOrEvent`), and the last such event tells
  whether the action is installed (`LastEventTrue`), so that events about an
  action that has changed again since do no harm.

**`SessionHistoryProofs`**, all from `HInv`, for any number of prompts.
- `TypeCorrect`.
- `HistoryBoundedAlways`. The bound is not inductive: what matters is who has
  appended without a trim since (`Over`), who has begun (`Begun`) and the results
  that a compaction keeps out of a trim (`Slack`); the history exceeds the limit by
  the number of the first and by the last (`SizeOK`).
- `HistoryOrderedAlways` needs that no message of a prompt is ahead of where the
  prompt is (`BehindOK`, in memory and in the file, from which a session is loaded
  again after Shutdown has cleared it), so that what it appends goes to the end of
  its own, and that a compaction keeps a suffix.
- `NoOrphanSentAlways` needs the order as well: SanitizeHistory keeps a result if
  its call is *anywhere* in the list, and only in an ordered list does that mean
  before it. `LocalOK` carries it through what the tool loop adds to the copy.

**`OtaUpdaterProofs`**, catalog and updater together.
- `NeverLostAlways`, from `LostInv`: while an update is past its backup and while a
  rollback has removed the directory, the way back is there (`WayBack`).
- `RollbackHasBackup`: RollbackSkill chooses the newest backup once, at its start, and
  uses it after it has removed the directory; it is still there.
- `EmptyOnlyInReloadAlways`, from `FlagTells` (while the list is empty the flag is
  down, or a reload is between its two steps) and `Met` (whoever is about to take
  an empty list on the word of the flag has met such a reload). The flag alone would
  not do: a prompt that has read it may take the list when the reload is over.
- `FreshAtRestAlways`, from `ScanUnderWay` (the flag is down during a scan),
  `ScanFaithful` (what a scan has read is on disk, or changed since) and `ListInv` (a
  list in use is the one on disk, or somebody is about to reload: `Coming`).

**`ToolGateProofs`**
- `RateKeptAlways`, `RefusalJustifiedAlways`, from `WindowInv`. Threads enter clock
  values out of order and the code drops old ones only up to the first young
  one, so the window is not sorted. Its entries belong to the last calls that
  passed, each at most `MaxDelay` after its entry (`Aligned`); calls pass one after
  the other (`InOrder`); those no longer in the window passed long ago
  (`DroppedOld`); and a call and the `MaxCalls`-th after it are the stretch apart
  (`Spaced`).
- `IdleExactAlways`, from `IdleInv`: the idle window of a session that one prompt
  has for itself holds that prompt's outputs.

The inductive invariants were checked with TLC before they were proved.

*Only model-checked:* everything temporal under fairness (`DueOnceRuns`,
`PromptReturns`, `DirectRuleActs`, `RunEnds`, `CallReturns`, `StaleRepaired`,
`GoneForgotten`, `LiveFound`), which is out of the prover's reach. Every invariant
and every action property of a passing run has a theorem.

## Abstractions

- Local time has no daylight saving, and the clock is never set back.
- Texts: a message is its place in the conversation, an answer is what a
  condition can tell of it. Values that contain an operator (" == ") and would be
  read as a condition of another form are left out, and so are prompts and texts
  that would be read as a delimiter of the Markdown files.
- File sizes are counted in messages. A file is the old or the new version: the
  code renames a temporary file; loss of power before data reaches the disk and
  a full disk are left out. Removing a file succeeds.
- CreateTask reads the clock and takes the lock in one action; OnEvent runs
  within one minute of the clock.
- The list of event sources, `index.md` of the workflows and the tables of past
  executions in task files are left out: no operation depends on them.
- The 500 ms of the watcher's debouncing are not counted: a reload comes at some
  time after the event. A skill is its directory and the version of its manifest.
- The Action Framework may answer an execution at any time or never; the channel
  to the worker keeps order. The content of an action's file is a version.
- A device knows its own address. Events that devices forward to each other's
  buses are left out: a received event is marked and not sent on.
- `SafetyGuard::Validate` may refuse any call: it reads tables that do not change
  after the start. The clock of the rate limit is not set back, and a thread is
  held at most `MaxDelay` between reading it and taking the mutex.
- Inputs a function refuses without a change of state are left out.

## Findings and observations

The run marked *violated* is a disagreement of the code with its test: ExecuteTask
writes its copy of a task back (`scheduler/task_scheduler.cc:220`) and undoes a
cancellation made during the run. `PROJECT.json` quotes both sides under `findings`.
Six more disagreements are shown by
configurations that are kept beside the runs:

- `MCTaskScheduler_recurring.cfg`, `WakeupCoversAll`: SchedulerLoop reschedules a due
  recurring task and executes `continue` (`scheduler/task_scheduler.cc:102`) before
  `earliest` is updated, so it may sleep past the new run for up to 24 hours; the
  comment at line 110 says "Wait until the earliest task or wakeup".
- `MCScheduleTime_overflow.cfg`, `IntervalAsAsked`: the seconds of an interval are
  computed in `int` without a check (`val * 3600`, `scheduler/task_scheduler.cc:382`);
  from 596524 hours on the product wraps, possibly to a negative number, and the
  task is always due. The planner's instructions (`agent_roles.json:59` of the data directory)
  say "Run every N seconds/minutes/hours".
- `MCSessionHistory_shutdown.cfg`, `ShutdownKeeps`: Shutdown saves the sessions ("Save
  all sessions before shutting down", `core/agent_core.cc:617`) and clears them while
  prompts of detached threads and of clients that did not end within two seconds go
  on; one that then appends makes an empty entry, and its save replaces the file.
- `MCSessionHistory_rollback.cfg`, `RollbackOwn`: when all backends fail, the last
  message of the session is removed (`core/agent_core.cc:842`), which after a tool
  iteration or beside another prompt is not "the user message" of the comment at
  line 838.
- `MCSessionHistory_replaced.cfg`, `ReplacedAreSummarised`: after the summary call the
  first `count` messages are erased (`core/agent_core.cc:1887`) although a trim may
  have moved others to the front; the comment at line 1882 says "Replace oldest N
  turns with 1 compressed".
- `MCEventSystem_session.cfg`, `AskedInSession`: EvaluateWithLlm and ExecuteAction
  (`core/autonomous_trigger.cc:355,386`) pass prompt and session in the wrong order
  to `ProcessPrompt(session_id, prompt)` (`core/agent_core.hh:69`).

Reading and modelling also showed behaviour that no document rules out, or that
belongs to parts not modelled yet:

- `scheduler/task_scheduler.cc:61`, `core/event_bus.cc:49`: Stop clears the flag and
  notifies without the mutex of the wait; both can fall between a thread's test
  and its sleep, and the join waits for the next event. The state is in the models.
- `scheduler/task_scheduler.cc:97`: a one-shot task is completed before it runs, so
  a failing run is not repeated although `docs/DESIGN.md` lists retries.
- `core/agent_core.cc:1795`: the end of the batch to summarise can fall within the
  results of one call when a call is wide; SanitizeHistory hides the rest.
- `core/agent_core.cc:1854`: when the summary call throws, the session stays marked
  as compacting and is only trimmed from then on.
- `core/agent_core.cc:1911`: TrimHistory holds a reference into the map over the
  summary call; a ClearSession in between leaves it dangling.
- `core/autonomous_trigger.cc:178`: the cooldown of a rule starts even when the rate
  limit refuses it.
- `core/pipeline_executor.cc:414,553`, `core/workflow_engine.cc:576,687`: the prompts
  of a run go to session `pipeline_pipeline_<id>`, the clean-up clears
  `pipeline_<id>`; the next run continues the old conversation.
- `core/pipeline_executor.cc:521`: only an exception counts as a failed step. The
  text that reports a failing model is an answer, so retries and skips
  do not see it.
- `core/pipeline_executor.cc:224`: a pipeline deleted between its insertion and its
  save comes back at the next start.
- `core/pipeline_executor.cc:497`: backward jumps are not counted; such a run need
  not end.
- `core/workflow_engine.cc:418`: two creators write `index.md` through the same
  temporary file.
- `core/agent_core.cc:1499`: a scan that is under way sets the flag after an
  invalidation has cleared it, and the change behind the invalidation is not seen
  until the next one. `FreshAtRest` and `StaleRepaired` exempt such a skill
  (`suspect`): nothing repairs the list before the next event, reload or restart.
- `core/agent_core.cc:1507`: a prompt that reads the flag before ReloadSkills clears it
  and takes the list after ReloadSkills has cleared that is handed an empty list,
  without the built-in tools. `EmptyOnlyInReload`: nobody else is, so that a call
  that begins when the flag is down gets the result of a whole scan.
- `core/skill_watcher.cc:143`: the watcher reacts to `manifest.json` only, so a skill
  of a `SKILL.md` alone, or a manifest written before the new directory is
  watched, is not noticed.
- `infra/ota_updater.cc:301`: a failing install is not rolled back by itself, although
  `README.md` lists automatic rollback; `:337` picks backups by a name prefix, which
  those of a skill with a longer name share; a backup whose copy failed half-way
  is a candidate too, and a restore from it may leave a manifest nobody is told of.
- `core/agent_core.cc:3193`: when the operation on custom skills fails after it has
  written the manifest, the list is not invalidated.
- `core/agent_core.cc:985`: the gate tests the name the model used, and the tool that
  runs is the one the router resolves it to. Repetition counts are cleared only
  by ClearSession. Offline fallbacks and steps of pipelines do not pass the gate.
- `core/tool_policy.cc:130`: the idle window belongs to the session, so two prompts
  on it can stop each other or keep each other going (`IdleExact` is about a
  prompt by itself).
- `core/tool_router.hh` documents an order of sources that differs from the one in
  `tool_router.cc`.
- `core/swarm_manager.cc:145`: Stop closes the socket while the listener may be in
  recvfrom on it; ages are taken from the system clock, which may be set.
- `core/agent_core.cc:1776`: CompactHistory tests `backend_` and uses it after the mutex
  is given up; Shutdown may have taken it away in between.
- `core/pipeline_executor.cc:158`: empty arguments of a step are not written, and are
  null for its tool after a restart.
- `core/swarm_manager.cc:267`: only a datagram that is no JSON is ignored; a field of
  another type ends the process (`Crash` in the model).
- In parts not modelled: `channel/mcp_client.cc:306` (threads drop each other's answers),
  `core/tizenclaw.cc:426` (the limit on clients is tested before they are counted),
  `channel/webhook_channel.cc:219` (a request may pass the test of `running_` and be
  counted after Stop has waited), `core/agent_core.cc:2055` (a backend is replaced
  while in use).

## Not modelled

The components of the second table above are left for later. Of these the MCP
pipe and the IPC server need a decision about the code first: the
property one would state is one the code does not have. Not planned: the wire
formats of the LLM backends, HTTP and chat clients (their failures are outcomes
in the models of their callers), embeddings and similarity (floating point,
SQLite), prompt texts and tool descriptions, the web pages, client libraries,
command line tools and package manager plugins (one call, no state kept).

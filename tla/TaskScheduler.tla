--------------------------- MODULE TaskScheduler ---------------------------
(***************************************************************************)
(* TaskScheduler: a map of tasks mirrored in one file per task, a timer    *)
(* thread (SchedulerLoop) that enqueues due tasks, a worker thread         *)
(* (ExecutorLoop) that runs a COPY of a task and writes the copy back, and *)
(* callers that create and cancel tasks, start, stop and lose the process. *)
(*                                                                         *)
(* tasks_mutex_ is held by the timer thread from the start of a scan to    *)
(* its wait (schedPc = "scan"); everybody else holds it within one action. *)
(* queue_mutex_ is held across actions only by the worker between testing  *)
(* its wait predicate and falling asleep (execPc = "presleep").            *)
(***************************************************************************)
EXTENDS ScheduleTime, Sequences, FiniteSets

CONSTANTS TaskId,         \* the ids GenerateTaskId can return
          Exprs,          \* schedule expressions callers pass to CreateTask
          MaxRetries,     \* ScheduledTask::max_retries (3)
          ScanHorizon,    \* the 24 h the timer sleeps when nothing is due
          DiskReliable,   \* FALSE: SaveTask may fail to open its file
          MaxTime,        \* bound on the clock
          MaxStarts,      \* bound on process starts
          MaxQueue,       \* bound: no new scan while the queue is this long
          MaxExecs        \* bound: calls counted for a task

ASSUME SchedulerAssumption ==
    /\ MaxRetries \in Nat \ {0}
    /\ ScanHorizon \in Nat \ {0}
    /\ DiskReliable \in BOOLEAN
    /\ MaxTime \in Nat
    /\ MaxStarts \in Nat
    /\ MaxQueue \in Nat \ {0}
    /\ MaxExecs \in Nat \ {0}
    /\ \A e \in Exprs : ParseSchedule(e) \in Schedule \cup {Invalid}

Statuses == {"active", "paused", "completed", "failed", "cancelled"}
Outcomes == {"success", "failed"}

\* An entry of tasks_ (or a task file); status "absent" means there is none.
\* Its run count and execution history are left out.
Task == [sch : Schedule \cup {Invalid}, status : Statuses \cup {"absent"},
         nextRun : Int, fails : Nat]

NoTask == [sch |-> Invalid, status |-> "absent", nextRun |-> 0, fails |-> 0]

VARIABLES
    now,        \* the system clock
    main,       \* the owner of the process: "down", "up" or "stopping"
    starts,     \* number of process starts so far
    running,    \* running_
    tasks,      \* tasks_
    disk,       \* the files under tasks/
    queue,      \* exec_queue_
    schedPc, scanTodo, wakeAt,            \* the timer thread
    execPc, curId, copy,                  \* the worker thread
    execs       \* history variable: ProcessPrompt calls made for each task,
                \* counted up to MaxExecs

schedVars == <<schedPc, scanTodo, wakeAt>>
execVars == <<execPc, curId, copy>>
vars == <<now, main, starts, running, tasks, disk, queue, schedVars, execVars, execs>>

TypeOK ==
    /\ now \in Nat
    /\ main \in {"down", "up", "stopping"}
    /\ starts \in Nat
    /\ running \in BOOLEAN
    /\ tasks \in [TaskId -> Task]
    /\ disk \in [TaskId -> Task]
    /\ queue \in Seq(TaskId)
    /\ schedPc \in {"top", "lock", "scan", "wait", "exited"}
    /\ scanTodo \in SUBSET TaskId
    /\ wakeAt \in Int
    /\ execPc \in {"top", "lock", "presleep", "asleep", "popped", "run", "exited"}
    /\ curId \in TaskId
    /\ copy \in Task
    /\ execs \in [TaskId -> Nat]

Present(id) == tasks[id].status # "absent"
Once(t) == t.sch.kind = "once"

\* tasks_mutex_ is free, queue_mutex_ is free.
TasksFree == schedPc # "scan"
QueueFree == execPc # "presleep"
-----------------------------------------------------------------------------
\* SaveTask: write to a temporary file and rename, so a file is the old record
\* or the new one; when the file cannot be opened nothing is written.
SaveTask(id, t) ==
    \/ disk' = [disk EXCEPT ![id] = t]
    \/ ~DiskReliable /\ UNCHANGED disk

\* scheduler_cv_.notify_all() and queue_cv_.notify_one(): a thread that is not
\* yet asleep misses the notification.
NotifyScheduler == schedPc' = IF schedPc = "wait" THEN "top" ELSE schedPc
NotifyExecutorMissing == UNCHANGED execPc      \* mutant: no notify_one after the push
NotifyExecutor == execPc' = IF execPc = "asleep" THEN "lock" ELSE execPc

\* LoadTasks for one file: only active and paused tasks come back, and a
\* recurring one whose time has passed gets a new next_run (in memory only).
Loaded(f) ==
    IF f.status \notin {"active", "paused"} THEN NoTask
    ELSE IF ~Once(f) /\ f.nextRun <= now
      THEN [f EXCEPT !.nextRun = ComputeNextRun(f.sch, f.nextRun, now)]
    ELSE f

Init ==
    /\ now = 0
    /\ main = "down"
    /\ starts = 0
    /\ running = FALSE
    /\ tasks = [id \in TaskId |-> NoTask]
    /\ disk = [id \in TaskId |-> NoTask]
    /\ queue = <<>>
    /\ schedPc = "exited" /\ scanTodo = {} /\ wakeAt = 0
    /\ execPc = "exited" /\ curId \in TaskId /\ copy = NoTask
    /\ execs = [id \in TaskId |-> 0]

Start ==
    /\ main = "down" /\ starts < MaxStarts
    /\ main' = "up"
    /\ starts' = starts + 1
    /\ running' = TRUE
    /\ tasks' = [id \in TaskId |-> Loaded(disk[id])]
    /\ schedPc' = "top"
    /\ execPc' = "top"
    /\ UNCHANGED <<now, disk, queue, scanTodo, wakeAt, curId, copy, execs>>

\* Stop stores running_ and notifies without holding either mutex.
Stop ==
    /\ main = "up"
    /\ main' = "stopping"
    /\ running' = FALSE
    /\ NotifyScheduler
    /\ NotifyExecutor
    /\ UNCHANGED <<now, starts, tasks, disk, queue, scanTodo, wakeAt,
                   curId, copy, execs>>

\* What is left when the process is gone: the files.
ProcessGone ==
    /\ main' = "down"
    /\ running' = FALSE
    /\ tasks' = [id \in TaskId |-> NoTask]
    /\ queue' = <<>>
    /\ schedPc' = "exited"
    /\ scanTodo' = {}
    /\ execPc' = "exited"
    /\ copy' = NoTask
    /\ UNCHANGED <<now, starts, disk, wakeAt, curId, execs>>

\* Both joins have returned; the daemon destroys the scheduler and exits.
StopJoined == main = "stopping" /\ schedPc = "exited" /\ execPc = "exited" /\ ProcessGone

Crash == main # "down" /\ ProcessGone
-----------------------------------------------------------------------------
\* SchedulerLoop.

\* The loop test reads running_ before the lock is taken.
SchedLoop ==
    /\ schedPc = "top"
    /\ schedPc' = IF running THEN "lock" ELSE "exited"
    /\ UNCHANGED <<now, main, starts, running, tasks, disk, queue, scanTodo,
                   wakeAt, execVars, execs>>

Due(t) == t.status = "active" /\ t.nextRun <= now

\* The lock and one reading of the clock for the whole scan.
\* The map cannot change during the scan except for the tasks it fires, and
\* those leave the loop body before `earliest` is updated: `earliest` ranges
\* over the active tasks that were not due.
SchedScan ==
    /\ schedPc = "lock" /\ Len(queue) < MaxQueue
    /\ schedPc' = "scan"
    /\ scanTodo' = {id \in TaskId : Due(tasks[id])}
    /\ LET sleeping == {id \in TaskId : tasks[id].status = "active" /\ ~Due(tasks[id])}
           candidates == {tasks[id].nextRun : id \in sleeping} \cup {now + ScanHorizon}
       IN  \E earliest \in candidates :
               /\ \A c \in candidates : earliest <= c
               /\ wakeAt' = earliest
    /\ UNCHANGED <<now, main, starts, running, tasks, disk, queue, execVars, execs>>

\* One due task: enqueue its id, complete or reschedule it, save it.
FiredStillActive(t) ==                         \* mutant: a one-shot is not completed
    [t EXCEPT !.nextRun = ComputeNextRun(t.sch, t.nextRun, now)]

Fired(t) == IF Once(t) THEN [t EXCEPT !.status = "completed"]
            ELSE [t EXCEPT !.nextRun = ComputeNextRun(t.sch, t.nextRun, now)]

SchedFire(id) ==
    /\ schedPc = "scan" /\ id \in scanTodo /\ QueueFree
    /\ queue' = Append(queue, id)
    /\ NotifyExecutor
    /\ tasks' = [tasks EXCEPT ![id] = Fired(tasks[id])]
    /\ SaveTask(id, Fired(tasks[id]))
    /\ scanTodo' = scanTodo \ {id}
    /\ UNCHANGED <<now, main, starts, running, schedPc, wakeAt, curId, copy, execs>>

\* scheduler_cv_.wait_until(lock, earliest) releases tasks_mutex_ ...
SchedWait ==
    /\ schedPc = "scan" /\ scanTodo = {}
    /\ schedPc' = "wait"
    /\ UNCHANGED <<now, main, starts, running, tasks, disk, queue, scanTodo, wakeAt,
                   execVars, execs>>

\* ... and returns when the clock reaches `earliest`, or spuriously.
SchedWoken ==
    /\ schedPc = "wait"
    /\ schedPc' = "top"
    /\ UNCHANGED <<now, main, starts, running, tasks, disk, queue, scanTodo, wakeAt,
                   execVars, execs>>

SchedTimeout == now >= wakeAt /\ SchedWoken
-----------------------------------------------------------------------------
\* ExecutorLoop.

execRest == <<now, main, starts, running, tasks, disk, schedVars>>

\* The loop test reads running_ without a lock; the wait predicate and the pop
\* happen under queue_mutex_.
ExecLoop ==
    /\ execPc = "top"
    /\ execPc' = IF running THEN "lock" ELSE "exited"
    /\ UNCHANGED <<execRest, queue, curId, copy, execs>>

ExecPop ==
    /\ execPc = "lock" /\ queue # <<>>
    /\ curId' = Head(queue)
    /\ queue' = Tail(queue)
    /\ execPc' = "popped"
    /\ UNCHANGED <<execRest, copy, execs>>

\* The predicate is false: the thread holds queue_mutex_ until it is asleep.
\* When it is true only because running_ is false, the loop breaks.
ExecEmpty ==
    /\ execPc = "lock" /\ queue = <<>>
    /\ execPc' = IF running THEN "presleep" ELSE "exited"
    /\ UNCHANGED <<execRest, queue, curId, copy, execs>>

ExecSleep ==
    /\ execPc = "presleep"
    /\ execPc' = "asleep"
    /\ UNCHANGED <<execRest, queue, curId, copy, execs>>

ExecSpurious ==
    /\ execPc = "asleep"
    /\ execPc' = "lock"
    /\ UNCHANGED <<execRest, queue, curId, copy, execs>>

\* Under tasks_mutex_: skip an unknown or cancelled task, otherwise copy it and
\* call ProcessPrompt without the lock.
ExecSkip ==
    /\ execPc = "popped" /\ TasksFree
    /\ tasks[curId].status \in {"absent", "cancelled"}
    /\ execPc' = "top"
    /\ UNCHANGED <<execRest, queue, curId, copy, execs>>

ExecBeginUnchecked ==                          \* mutant: status is not tested
    /\ execPc = "popped" /\ TasksFree
    /\ tasks[curId].status # "absent"
    /\ copy' = tasks[curId]
    /\ execs' = [execs EXCEPT ![curId] = IF @ < MaxExecs THEN @ + 1 ELSE @]
    /\ execPc' = "run"
    /\ UNCHANGED <<execRest, queue, curId>>

ExecBegin ==
    /\ execPc = "popped" /\ TasksFree
    /\ tasks[curId].status \notin {"absent", "cancelled"}
    /\ copy' = tasks[curId]
    /\ execs' = [execs EXCEPT ![curId] = IF @ < MaxExecs THEN @ + 1 ELSE @]
    /\ execPc' = "run"
    /\ UNCHANGED <<execRest, queue, curId>>

\* ExecuteTask after ProcessPrompt returned ("success") or threw ("failed").
ExecutedOneMore(t, outcome) ==                 \* mutant: fail_count > max_retries
    LET fails == IF outcome = "success" THEN 0 ELSE t.fails + 1
    IN  [t EXCEPT !.fails = fails,
                  !.status = IF outcome = "failed" /\ fails > MaxRetries
                               THEN "failed" ELSE @]

ExecutedRearms(t, outcome) ==                  \* mutant: success re-enables the task
    [t EXCEPT !.fails = IF outcome = "success" THEN 0 ELSE t.fails + 1,
              !.status = IF outcome = "failed" THEN "failed" ELSE "active"]

ExecutedCountsDown(t, outcome) ==              \* mutant: fail_count--
    [t EXCEPT !.fails = IF outcome = "success" THEN 0 ELSE t.fails - 1]

Executed(t, outcome) ==
    LET fails == IF outcome = "success" THEN 0 ELSE t.fails + 1
    IN  [t EXCEPT !.fails = fails,
                  !.status = IF outcome = "failed" /\ fails >= MaxRetries
                               THEN "failed" ELSE @]

ExecFinish(outcome) ==
    /\ execPc = "run" /\ TasksFree
    /\ IF Present(curId)
         THEN /\ tasks' = [tasks EXCEPT ![curId] = Executed(copy, outcome)]
              /\ SaveTask(curId, Executed(copy, outcome))
         ELSE UNCHANGED <<tasks, disk>>
    /\ execPc' = "top"
    /\ copy' = NoTask
    /\ UNCHANGED <<now, main, starts, running, schedVars, queue, curId, execs>>
-----------------------------------------------------------------------------
\* Callers.

\* mutant: the timer thread is not woken
CreateTaskSilent(id, e) ==
    LET sch == ParseSchedule(e)
        t == [NoTask EXCEPT !.sch = sch, !.status = "active",
                            !.nextRun = ComputeNextRun(sch, sch.at, now)]
    IN  /\ main # "down" /\ TasksFree
        /\ tasks[id] = NoTask /\ disk[id] = NoTask
        /\ sch # Invalid
        /\ tasks' = [tasks EXCEPT ![id] = t]
        /\ SaveTask(id, t)
        /\ UNCHANGED <<now, main, starts, running, queue, schedVars, execVars, execs>>

\* CreateTask with an expression that does not parse changes nothing.
CreateTask(id, e) ==
    LET sch == ParseSchedule(e)
        t == [NoTask EXCEPT !.sch = sch, !.status = "active",
                            !.nextRun = ComputeNextRun(sch, sch.at, now)]
    IN  /\ main # "down" /\ TasksFree
        /\ tasks[id] = NoTask /\ disk[id] = NoTask    \* GenerateTaskId: a fresh id
        /\ sch # Invalid
        /\ tasks' = [tasks EXCEPT ![id] = t]
        /\ SaveTask(id, t)
        /\ NotifyScheduler
        /\ UNCHANGED <<now, main, starts, running, queue, scanTodo, wakeAt, execVars, execs>>

CancelTask(id) ==
    LET t == [tasks[id] EXCEPT !.status = "cancelled"]
    IN  /\ main # "down" /\ TasksFree
        /\ Present(id)
        /\ tasks' = [tasks EXCEPT ![id] = t]
        /\ SaveTask(id, t)
        /\ UNCHANGED <<now, main, starts, running, queue, schedVars, execVars, execs>>

Tick ==
    /\ now < MaxTime
    /\ now' = now + 1
    /\ UNCHANGED <<main, starts, running, tasks, disk, queue, schedVars, execVars, execs>>
-----------------------------------------------------------------------------
SchedStep == SchedLoop \/ SchedScan \/ (\E id \in TaskId : SchedFire(id)) \/ SchedWait
             \/ SchedTimeout
ExecStep == ExecLoop \/ ExecPop \/ ExecEmpty \/ ExecSleep \/ ExecSkip \/ ExecBegin
            \/ \E o \in Outcomes : ExecFinish(o)

Next ==
    \/ Start \/ Stop \/ StopJoined \/ Crash
    \/ SchedStep \/ SchedWoken
    \/ ExecStep \/ ExecSpurious
    \/ \E id \in TaskId : CancelTask(id) \/ \E e \in Exprs : CreateTask(id, e)
    \/ Tick

Spec == Init /\ [][Next]_vars

\* Both threads run and time passes; a thread that finds a mutex free again and
\* again gets it in the end (strong fairness); a call of ProcessPrompt returns.
\* Nobody promises a spurious wake-up.
Fairness == SF_vars(SchedStep) /\ SF_vars(ExecStep) /\ WF_vars(StopJoined) /\ WF_vars(Tick)
FairSpec == Spec /\ Fairness
-----------------------------------------------------------------------------
Armed == {"active", "paused"}
Queued(id) == \E i \in 1..Len(queue) : queue[i] = id
InHand(id) == curId = id /\ execPc \in {"popped", "run"}

\* The file of a task in memory has its schedule and status.
FilesAgree ==
    \A id \in TaskId : Present(id) => /\ disk[id].sch = tasks[id].sch
                                      /\ disk[id].status = tasks[id].status

\* Only a task with a file is queued, popped or run.
PendingHasFile ==
    \A id \in TaskId :
        disk[id].status = "absent" => execs[id] = 0 /\ ~Queued(id) /\ ~InHand(id)

\* An armed one-shot task has not left the timer thread; one that has left it is
\* in one place, and not yet counted before it is run.
OncePlace ==
    \A id \in TaskId : Once(disk[id]) =>
        /\ disk[id].status \in Armed => execs[id] = 0 /\ ~Queued(id) /\ ~InHand(id)
        /\ Queued(id) => execs[id] = 0 /\ ~InHand(id)
        /\ curId = id /\ execPc = "popped" => execs[id] = 0
        /\ \A i, j \in 1..Len(queue) : queue[i] = id /\ queue[j] = id => i = j
        /\ execs[id] <= 1

\* The worker's copy is of the task in hand, and of a one-shot no longer armed.
CopyFaithful ==
    execPc = "run" =>
        /\ copy.sch = disk[curId].sch
        /\ copy.status # "absent"
        /\ Once(copy) => copy.status \notin Armed

\* The tasks still to be fired in a scan are active; a dead process has no tasks.
ScanActive == \A id \in scanTodo : schedPc = "scan" => tasks[id].status = "active"
DownEmpty == main = "down" => \A id \in TaskId : tasks[id].status = "absent"

OnceInv == FilesAgree /\ PendingHasFile /\ OncePlace /\ CopyFaithful

\* A one-shot task is handed to the agent at most once, whatever the threads do
\* and however often the process dies: SchedulerLoop completes and saves it in
\* the critical section that enqueues it, and LoadTasks ignores completed tasks.
OnceAtMostOnce ==
    \A id \in TaskId : Once(disk[id]) => execs[id] <= 1

\* A task that CancelTask marked while its prompt was not running stays marked
\* and is not run again, even when its id is already queued; only the end of
\* the process removes it, and LoadTasks does not bring it back.
CancelHonoured ==
    [][\A id \in TaskId :
          (tasks[id].status = "cancelled" /\ ~(execPc = "run" /\ curId = id))
             => /\ tasks'[id].status \in {"cancelled", "absent"}
                /\ ~(curId' = id /\ execPc' = "run")]_vars

\* A task file that says completed or failed never says active again: neither
\* ExecuteTask's write-back of its copy nor a restart re-arms the task.
TerminalIsFinal ==
    [][\A id \in TaskId :
          disk[id].status \in {"completed", "failed"}
             => disk'[id].status \in {"completed", "failed", "cancelled"}]_vars

\* A task that failed max_retries times in a row is disabled in memory and on
\* disk, although the failures are counted on a copy and the timer thread saves
\* the task between two of them.
RetriesExhausted ==
    \A id \in TaskId :
        /\ tasks[id].fails >= MaxRetries => tasks[id].status # "active"
        /\ disk[id].fails >= MaxRetries => disk[id].status # "active"

\* While the timer thread sleeps, no one-shot task can become due before it
\* wakes up: SchedulerLoop's `earliest` covers every active one-shot task, and
\* CreateTask wakes the thread.
WakeupCoversOnce ==
    schedPc = "wait" =>
        \A id \in TaskId :
            tasks[id].status = "active" /\ Once(tasks[id]) => wakeAt <= tasks[id].nextRun

\* Every due one-shot task is run, unless it is cancelled or the scheduler is
\* stopped or dies first.
DueOnceRuns ==
    \A id \in TaskId :
        (running /\ Once(tasks[id]) /\ Due(tasks[id]))
            ~> (execs[id] > 0 \/ tasks[id].status \in {"absent", "cancelled"} \/ ~running)

\* "Wait until the earliest task or wakeup": the timer thread never sleeps past
\* the next run of an active task.
WakeupCoversAll ==
    schedPc = "wait" =>
        \A id \in TaskId : tasks[id].status = "active" => wakeAt <= tasks[id].nextRun

\* CancelTask is final: a cancelled task does not become another kind of task.
CancelIsFinal ==
    [][\A id \in TaskId :
          tasks[id].status = "cancelled" => tasks'[id].status \in {"cancelled", "absent"}]_vars
=============================================================================

------------------------ MODULE TaskSchedulerProofs ------------------------
(***************************************************************************)
(* What holds of TaskScheduler for every calendar, set of tasks and bound. *)
(***************************************************************************)
EXTENDS TaskScheduler, TLAPS

\* A day is a positive number of seconds.
LEMMA DayPositive == Day \in Nat \ {0} /\ SecondsPerHour \in Nat \ {0}
<1>1. SecondsPerHour \in Nat \ {0}
  BY CalendarAssumption DEF SecondsPerHour
<1>2. Day \in Nat \ {0}
  BY <1>1, CalendarAssumption DEF Day
<1> QED BY <1>1, <1>2

\* Integer division leaves a remainder below the divisor.
LEMMA Midnights ==
    ASSUME NEW t \in Nat
    PROVE  /\ Midnight(t) \in Int
           /\ Midnight(t) <= t
           /\ t < Midnight(t) + Day
<1> DEFINE r == t % Day
<1>1. r \in Int /\ 0 <= r /\ r < Day
  BY DayPositive
<1> HIDE DEF r
<1>2. Midnight(t) = t - r
  BY DEF Midnight, r
<1> QED BY <1>1, <1>2, DayPositive

\* DailyNext: the run computed for a daily task is in the future, and at most
\* one day away.
THEOREM DailyNextWithinADay ==
    ASSUME NEW t \in Nat, NEW tod \in Nat, tod < Day
    PROVE  /\ DailyNext(tod, t) \in Int
           /\ t < DailyNext(tod, t)
           /\ DailyNext(tod, t) <= t + Day
<1> DEFINE m == Midnight(t)
<1>1. m \in Int /\ m <= t /\ t < m + Day
  BY Midnights
<1> HIDE DEF m
<1>2. DailyNext(tod, t) = IF m + tod <= t THEN (m + tod) + Day ELSE m + tod
  BY DEF DailyNext, m
<1> QED BY <1>1, <1>2, DayPositive

\* WeeklyNext returns an integer.
LEMMA WeeklyNextInt ==
    ASSUME NEW t \in Nat, NEW tod \in Nat, NEW wday \in Nat
    PROVE  WeeklyNext(tod, wday, t) \in Int
<1>1. Midnight(t) \in Int
  BY Midnights
<1>2. t \div Day \in Int
  BY DayPositive
<1>3. Weekday(t) \in Int
  BY <1>2, CalendarAssumption DEF Weekday
<1>4. DaysAhead(tod, wday, t) \in Int
  BY <1>1, <1>3, CalendarAssumption DEF DaysAhead
<1>5. DaysAhead(tod, wday, t) * Day \in Int
  BY <1>4, DayPositive
<1> QED BY <1>1, <1>5 DEF WeeklyNext

\* ComputeNextRun returns an integer.
LEMMA NextRunInt ==
    ASSUME NEW sch \in Schedule \cup {Invalid}, NEW old \in Int, NEW t \in Nat
    PROVE  ComputeNextRun(sch, old, t) \in Int
<1>1. sch.tod \in Nat /\ sch.wday \in Nat /\ sch.interval \in Int
  BY DEF Schedule, Invalid
<1>2. WeeklyNext(sch.tod, sch.wday, t) \in Int
  BY <1>1, WeeklyNextInt
<1>3. DailyNext(sch.tod, t) \in Int
  BY <1>1, Midnights, DayPositive DEF DailyNext
<1> QED BY <1>1, <1>2, <1>3 DEF ComputeNextRun

\* The records that the actions build are tasks.
LEMMA NoTaskType == NoTask \in Task
  BY DEF NoTask, Task

LEMMA LoadedType ==
    ASSUME NEW f \in Task, now \in Nat
    PROVE  /\ Loaded(f) \in Task
           /\ Loaded(f).status # "absent" =>
                 Loaded(f).status = f.status /\ Loaded(f).sch = f.sch
<1>1. ComputeNextRun(f.sch, f.nextRun, now) \in Int
  BY NextRunInt DEF Task
<1>2. [f EXCEPT !.nextRun = ComputeNextRun(f.sch, f.nextRun, now)] \in Task
  BY <1>1 DEF Task
<1> QED BY <1>2, NoTaskType DEF Loaded, Task, NoTask

LEMMA FiredType ==
    ASSUME NEW t \in Task, now \in Nat
    PROVE  /\ Fired(t) \in Task
           /\ Fired(t).sch = t.sch
           /\ Once(t) => Fired(t).status = "completed"
           /\ ~Once(t) => Fired(t).status = t.status
<1>1. ComputeNextRun(t.sch, t.nextRun, now) \in Int
  BY NextRunInt DEF Task
<1>2. [t EXCEPT !.nextRun = ComputeNextRun(t.sch, t.nextRun, now)] \in Task
  BY <1>1 DEF Task
<1>3. [t EXCEPT !.status = "completed"] \in Task
  BY DEF Task, Statuses
<1> QED BY <1>2, <1>3 DEF Fired, Task

LEMMA ExecutedType ==
    ASSUME NEW t \in Task, NEW o \in Outcomes
    PROVE  /\ Executed(t, o) \in Task
           /\ Executed(t, o).sch = t.sch
           /\ Executed(t, o).status \in {"failed", t.status}
<1> DEFINE fails == IF o = "success" THEN 0 ELSE t.fails + 1
           status == IF o = "failed" /\ fails >= MaxRetries THEN "failed" ELSE t.status
<1>1. fails \in Nat /\ status \in Statuses \cup {"absent"}
  BY DEF Task, Statuses
<1>2. Executed(t, o) = [t EXCEPT !.fails = fails, !.status = status]
  BY DEF Executed, Task
<1>3. status \in {"failed", t.status}
  OBVIOUS
<1> HIDE DEF fails, status
<1> QED BY <1>1, <1>2, <1>3 DEF Task

LEMMA CreatedType ==
    ASSUME NEW e \in Exprs, now \in Nat
    PROVE  [NoTask EXCEPT !.sch = ParseSchedule(e), !.status = "active",
                          !.nextRun = ComputeNextRun(ParseSchedule(e), ParseSchedule(e).at, now)]
             \in Task
<1>1. ParseSchedule(e) \in Schedule \cup {Invalid}
  BY SchedulerAssumption
<1>2. ParseSchedule(e).at \in Int
  BY <1>1 DEF Schedule, Invalid
<1>3. ComputeNextRun(ParseSchedule(e), ParseSchedule(e).at, now) \in Int
  BY <1>1, <1>2, NextRunInt
<1> QED BY <1>1, <1>3 DEF NoTask, Task, Statuses

-----------------------------------------------------------------------------
\* Saving a task keeps the files well typed.
LEMMA SaveTaskType ==
    ASSUME disk \in [TaskId -> Task], NEW id \in TaskId, NEW t \in Task, SaveTask(id, t)
    PROVE  disk' \in [TaskId -> Task]
  BY DEF SaveTask

\* Every step keeps every variable in its type.
LEMMA TypeStep == TypeOK /\ [Next]_vars => TypeOK'
<1> SUFFICES ASSUME TypeOK, [Next]_vars PROVE TypeOK'
  OBVIOUS
<1> USE DEF TypeOK
<1>1. CASE Start
  <2>1. [id \in TaskId |-> Loaded(disk[id])] \in [TaskId -> Task]
    BY LoadedType
  <2> QED BY <1>1, <2>1 DEF Start
<1>2. CASE Stop
  BY <1>2 DEF Stop, NotifyScheduler, NotifyExecutor
<1>3. ASSUME ProcessGone PROVE TypeOK'
  <2>1. tasks' \in [TaskId -> Task]
    BY <1>3, NoTaskType DEF ProcessGone
  <2>2. queue' \in Seq(TaskId)
    BY <1>3 DEF ProcessGone
  <2>3. copy' \in Task
    BY <1>3, NoTaskType DEF ProcessGone
  <2> QED BY <1>3, <2>1, <2>2, <2>3 DEF ProcessGone
<1>4. CASE StopJoined \/ Crash
  BY <1>3, <1>4 DEF StopJoined, Crash
<1>5. CASE SchedLoop
  BY <1>5 DEF SchedLoop, execVars
<1>6. CASE SchedScan
  <2>1. \A id \in TaskId : tasks[id].nextRun \in Int
    BY DEF Task
  <2>2. wakeAt' \in Int
    BY <1>6, <2>1, SchedulerAssumption DEF SchedScan
  <2> QED BY <1>6, <2>2 DEF SchedScan, execVars
<1>7. ASSUME NEW id \in TaskId, SchedFire(id) PROVE TypeOK'
  <2>1. Fired(tasks[id]) \in Task
    BY FiredType
  <2>2. disk' \in [TaskId -> Task]
    BY <1>7, <2>1, SaveTaskType DEF SchedFire
  <2>3. queue' \in Seq(TaskId) /\ tasks' \in [TaskId -> Task]
    BY <1>7, <2>1 DEF SchedFire
  <2> QED BY <1>7, <2>2, <2>3 DEF SchedFire, NotifyExecutor
<1>8. CASE SchedWait
  BY <1>8 DEF SchedWait, execVars
<1>9. CASE SchedWoken \/ SchedTimeout
  BY <1>9 DEF SchedWoken, SchedTimeout, execVars
<1>10. CASE ExecLoop \/ ExecEmpty \/ ExecSleep \/ ExecSpurious \/ ExecSkip
  BY <1>10 DEF ExecLoop, ExecEmpty, ExecSleep, ExecSpurious, ExecSkip, execRest, schedVars
<1>11. CASE ExecPop
  <2>1. Head(queue) \in TaskId /\ Tail(queue) \in Seq(TaskId)
    BY <1>11 DEF ExecPop
  <2> QED BY <1>11, <2>1 DEF ExecPop, execRest, schedVars
<1>12. CASE ExecBegin
  <2>1. execs' \in [TaskId -> Nat]
    BY <1>12, SchedulerAssumption DEF ExecBegin
  <2> QED BY <1>12, <2>1 DEF ExecBegin, execRest, schedVars
<1>13. ASSUME NEW o \in Outcomes, ExecFinish(o) PROVE TypeOK'
  <2>1. Executed(copy, o) \in Task
    BY ExecutedType
  <2>2. tasks' \in [TaskId -> Task]
    BY <1>13, <2>1 DEF ExecFinish
  <2>3. disk' \in [TaskId -> Task]
    BY <1>13, <2>1, SaveTaskType DEF ExecFinish
  <2> QED BY <1>13, <2>2, <2>3, NoTaskType DEF ExecFinish, schedVars
<1>14. ASSUME NEW id \in TaskId, NEW e \in Exprs, CreateTask(id, e) PROVE TypeOK'
  <2> DEFINE t == [NoTask EXCEPT !.sch = ParseSchedule(e), !.status = "active",
                     !.nextRun = ComputeNextRun(ParseSchedule(e), ParseSchedule(e).at, now)]
  <2>1. t \in Task
    BY CreatedType
  <2>2. tasks' = [tasks EXCEPT ![id] = t] /\ SaveTask(id, t)
    BY <1>14 DEF CreateTask
  <2> HIDE DEF t
  <2>3. disk' \in [TaskId -> Task] /\ tasks' \in [TaskId -> Task]
    BY <2>1, <2>2, SaveTaskType
  <2> QED BY <1>14, <2>3 DEF CreateTask, NotifyScheduler, execVars
<1>15. ASSUME NEW id \in TaskId, CancelTask(id) PROVE TypeOK'
  <2>1. [tasks[id] EXCEPT !.status = "cancelled"] \in Task
    BY DEF Task, Statuses
  <2>2. disk' \in [TaskId -> Task]
    BY <1>15, <2>1, SaveTaskType DEF CancelTask
  <2> QED BY <1>15, <2>1, <2>2 DEF CancelTask, schedVars, execVars
<1>16. CASE Tick
  BY <1>16 DEF Tick, schedVars, execVars
<1>17. CASE UNCHANGED vars
  BY <1>17 DEF vars, schedVars, execVars
<1> QED
  BY <1>1, <1>2, <1>4, <1>5, <1>6, <1>7, <1>8, <1>9, <1>10, <1>11, <1>12, <1>13,
     <1>14, <1>15, <1>16, <1>17 DEF Next, SchedStep, ExecStep

\* Every variable of the scheduler keeps its type: in particular fail counts do
\* not go below zero and the queue holds only task ids.
THEOREM TypeCorrect == Spec => []TypeOK
<1>1. Init => TypeOK
  <2> SUFFICES ASSUME Init PROVE TypeOK
    OBVIOUS
  <2>1. tasks \in [TaskId -> Task] /\ disk \in [TaskId -> Task] /\ copy \in Task
    BY NoTaskType DEF Init
  <2>2. queue \in Seq(TaskId) /\ execs \in [TaskId -> Nat]
    BY DEF Init
  <2>3. main \in {"down", "up", "stopping"} /\ running \in BOOLEAN /\ curId \in TaskId
    BY DEF Init
  <2>4. scanTodo \in SUBSET TaskId /\ now \in Nat /\ starts \in Nat /\ wakeAt \in Int
    BY DEF Init
  <2>5. /\ schedPc \in {"top", "lock", "scan", "wait", "exited"}
        /\ execPc \in {"top", "lock", "presleep", "asleep", "popped", "run", "exited"}
    BY DEF Init
  <2> QED BY <2>1, <2>2, <2>3, <2>4, <2>5 DEF TypeOK
<1> QED BY <1>1, TypeStep, PTL DEF Spec
-----------------------------------------------------------------------------
\* Tasks change only where tasks_mutex_ is free, or for the task a scan fires.
LEMMA ScanStep ==
    TypeOK /\ ScanActive /\ DownEmpty /\ [Next]_vars => ScanActive' /\ DownEmpty'
<1> SUFFICES ASSUME TypeOK, ScanActive, DownEmpty, [Next]_vars
             PROVE  ScanActive' /\ DownEmpty'
  OBVIOUS
<1> USE DEF ScanActive, DownEmpty
<1>1. CASE Start
  BY <1>1 DEF Start
<1>2. CASE Stop
  BY <1>2 DEF Stop, NotifyScheduler
<1>3. CASE StopJoined \/ Crash
  BY <1>3 DEF StopJoined, Crash, ProcessGone, NoTask
<1>4. CASE SchedLoop \/ SchedWait \/ SchedWoken \/ SchedTimeout
  BY <1>4 DEF SchedLoop, SchedWait, SchedWoken, SchedTimeout
<1>5. CASE SchedScan
  BY <1>5 DEF SchedScan, Due
<1>6. ASSUME NEW id \in TaskId, SchedFire(id) PROVE ScanActive' /\ DownEmpty'
  <2>1. tasks[id].status = "active" /\ main # "down"
    BY <1>6 DEF SchedFire
  <2>2. \A x \in scanTodo' : tasks'[x] = tasks[x] /\ x \in scanTodo
    BY <1>6 DEF SchedFire, TypeOK
  <2> QED BY <1>6, <2>1, <2>2 DEF SchedFire
<1>7. CASE ExecLoop \/ ExecEmpty \/ ExecSleep \/ ExecSpurious \/ ExecSkip \/ ExecPop \/ ExecBegin
  BY <1>7 DEF ExecLoop, ExecEmpty, ExecSleep, ExecSpurious, ExecSkip, ExecPop, ExecBegin,
              execRest, schedVars
<1>8. ASSUME NEW o \in Outcomes, ExecFinish(o) PROVE ScanActive' /\ DownEmpty'
  <2>1. schedPc' # "scan" /\ main' = main
    BY <1>8 DEF ExecFinish, schedVars, TasksFree
  <2>2. main = "down" => tasks' = tasks
    BY <1>8 DEF ExecFinish, Present, TypeOK
  <2> QED BY <2>1, <2>2
<1>9. ASSUME NEW id \in TaskId, NEW e \in Exprs, CreateTask(id, e)
      PROVE  ScanActive' /\ DownEmpty'
  BY <1>9 DEF CreateTask, NotifyScheduler, TasksFree
<1>10. ASSUME NEW id \in TaskId, CancelTask(id) PROVE ScanActive' /\ DownEmpty'
  BY <1>10 DEF CancelTask, TasksFree, schedVars
<1>11. CASE Tick \/ UNCHANGED vars
  BY <1>11 DEF Tick, vars, schedVars
<1> QED
  BY <1>1, <1>2, <1>3, <1>4, <1>5, <1>6, <1>7, <1>8, <1>9, <1>10, <1>11
  DEF Next, SchedStep, ExecStep

LEMMA ScanAlways == Spec => [](TypeOK /\ ScanActive /\ DownEmpty)
<1>1. Init => ScanActive /\ DownEmpty
  BY DEF Init, ScanActive, DownEmpty, NoTask
<1> QED BY <1>1, ScanStep, TypeCorrect, PTL DEF Spec

\* CancelTask is honoured by every step but the write-back of a run in progress:
\* the timer thread fires active tasks only, and the worker tests the status
\* again after the pop.
THEOREM CancelHonouredAlways == Spec => CancelHonoured
<1> DEFINE Kept(id) ==
        (tasks[id].status = "cancelled" /\ ~(execPc = "run" /\ curId = id))
           => /\ tasks'[id].status \in {"cancelled", "absent"}
              /\ ~(curId' = id /\ execPc' = "run")
<1>1. TypeOK /\ ScanActive /\ DownEmpty /\ [Next]_vars => \A id \in TaskId : Kept(id)
  <2> SUFFICES ASSUME TypeOK, ScanActive, DownEmpty, [Next]_vars, NEW id \in TaskId,
                      tasks[id].status = "cancelled", ~(execPc = "run" /\ curId = id)
               PROVE  /\ tasks'[id].status \in {"cancelled", "absent"}
                      /\ ~(curId' = id /\ execPc' = "run")
    OBVIOUS
  <2> USE DEF TypeOK
  <2>1. CASE Start
    BY <2>1 DEF Start, DownEmpty
  <2>2. CASE Stop
    BY <2>2 DEF Stop, NotifyExecutor
  <2>3. CASE StopJoined \/ Crash
    BY <2>3 DEF StopJoined, Crash, ProcessGone, NoTask
  <2>4. CASE SchedLoop \/ SchedScan \/ SchedWait \/ SchedWoken \/ SchedTimeout
    BY <2>4 DEF SchedLoop, SchedScan, SchedWait, SchedWoken, SchedTimeout, execVars
  <2>5. ASSUME NEW x \in TaskId, SchedFire(x)
        PROVE  /\ tasks'[id].status \in {"cancelled", "absent"}
               /\ ~(curId' = id /\ execPc' = "run")
    <3>1. x # id
      BY <2>5 DEF SchedFire, ScanActive
    <3> QED BY <2>5, <3>1 DEF SchedFire, NotifyExecutor
  <2>6. CASE ExecLoop \/ ExecEmpty \/ ExecSleep \/ ExecSpurious \/ ExecSkip \/ ExecPop \/ ExecBegin
    BY <2>6 DEF ExecLoop, ExecEmpty, ExecSleep, ExecSpurious, ExecSkip, ExecPop, ExecBegin,
                execRest
  <2>7. ASSUME NEW o \in Outcomes, ExecFinish(o)
        PROVE  /\ tasks'[id].status \in {"cancelled", "absent"}
               /\ ~(curId' = id /\ execPc' = "run")
    <3>1. curId # id
      BY <2>7 DEF ExecFinish
    <3>2. tasks'[id] = tasks[id] /\ execPc' = "top"
      BY <2>7, <3>1 DEF ExecFinish
    <3> QED BY <3>2
  <2>8. ASSUME NEW x \in TaskId, NEW e \in Exprs, CreateTask(x, e)
        PROVE  /\ tasks'[id].status \in {"cancelled", "absent"}
               /\ ~(curId' = id /\ execPc' = "run")
    <3>1. x # id
      BY <2>8 DEF CreateTask, NoTask
    <3>2. tasks'[id] = tasks[id]
      BY <2>8, <3>1 DEF CreateTask
    <3> QED BY <2>8, <3>2 DEF CreateTask, execVars
  <2>9. ASSUME NEW x \in TaskId, CancelTask(x)
        PROVE  /\ tasks'[id].status \in {"cancelled", "absent"}
               /\ ~(curId' = id /\ execPc' = "run")
    <3>1. tasks'[id].status = "cancelled"
      BY <2>9 DEF CancelTask, Task
    <3> QED BY <2>9, <3>1 DEF CancelTask, execVars
  <2>10. CASE Tick \/ UNCHANGED vars
    BY <2>10 DEF Tick, vars, execVars
  <2> QED
    BY <2>1, <2>2, <2>3, <2>4, <2>5, <2>6, <2>7, <2>8, <2>9, <2>10
    DEF Next, SchedStep, ExecStep
<1>2. TypeOK /\ ScanActive /\ DownEmpty /\ [Next]_vars => [\A id \in TaskId : Kept(id)]_vars
  BY <1>1
<1>3. Spec => [][\A id \in TaskId : Kept(id)]_vars
  BY <1>2, ScanAlways, PTL DEF Spec
<1> QED BY <1>3 DEF CancelHonoured
-----------------------------------------------------------------------------
\* A step that changes neither the files nor the queue, and in which the worker
\* neither takes nor returns a task, keeps what is known of one-shot tasks.
LEMMA OnceQuiet ==
    ASSUME TypeOK, OnceInv, FilesAgree',
           disk' = disk, execs' = execs, queue' = queue,
           curId' = curId, copy' = copy,
           execPc' = execPc \/ execPc' \notin {"popped", "run"}
    PROVE  OnceInv'
<1> USE DEF OnceInv
<1>1. PendingHasFile'
  BY DEF PendingHasFile, Queued, InHand
<1>2. OncePlace'
  BY DEF OncePlace, Queued, InHand, Once
<1>3. CopyFaithful'
  BY DEF CopyFaithful, Once
<1> QED BY <1>1, <1>2, <1>3

\* The end of a process leaves only the files.
LEMMA OnceProcessGone ==
    ASSUME TypeOK, OnceInv, ProcessGone
    PROVE  OnceInv'
<1> USE DEF OnceInv
<1>1. execPc' = "exited" /\ queue' = <<>> /\ disk' = disk /\ execs' = execs
  BY DEF ProcessGone
<1>2. \A id \in TaskId : tasks'[id].status = "absent"
  BY DEF ProcessGone, NoTask
<1>3. FilesAgree'
  BY <1>2 DEF FilesAgree, Present
<1>4. PendingHasFile'
  BY <1>1 DEF PendingHasFile, Queued, InHand
<1>5. OncePlace'
  BY <1>1 DEF OncePlace, Queued, InHand, Once
<1>6. CopyFaithful'
  BY <1>1 DEF CopyFaithful
<1> QED BY <1>3, <1>4, <1>5, <1>6

\* Firing a task: a one-shot leaves the armed state as its id enters the queue.
LEMMA OnceFire ==
    ASSUME DiskReliable, TypeOK, OnceInv, ScanActive, NEW id \in TaskId, SchedFire(id)
    PROVE  OnceInv'
<1> USE DEF OnceInv, TypeOK
<1> DEFINE f == Fired(tasks[id])
<1>1. /\ tasks[id].status = "active"
      /\ disk[id].status = "active"
      /\ disk[id].sch = tasks[id].sch
  BY DEF SchedFire, ScanActive, FilesAgree, Present
<1>2. /\ f \in Task /\ f.sch = disk[id].sch
      /\ Once(disk[id]) => f.status = "completed"
      /\ ~Once(disk[id]) => f.status = "active"
  BY <1>1, FiredType DEF Once
<1> HIDE DEF f
<1>3. /\ tasks' = [tasks EXCEPT ![id] = f] /\ disk' = [disk EXCEPT ![id] = f]
      /\ execs' = execs /\ curId' = curId /\ copy' = copy
      /\ InHand(id)' <=> InHand(id)
  BY DEF SchedFire, SaveTask, NotifyExecutor, InHand, f
<1>4. \A x \in TaskId : InHand(x)' <=> InHand(x)
  BY DEF SchedFire, NotifyExecutor, InHand
<1>5. /\ Len(queue') = Len(queue) + 1
      /\ queue'[Len(queue) + 1] = id
      /\ \A i \in 1..Len(queue) : queue'[i] = queue[i]
  BY DEF SchedFire
<1>6. \A x \in TaskId : x # id => (Queued(x)' <=> Queued(x))
  <2> SUFFICES ASSUME NEW x \in TaskId, x # id PROVE Queued(x)' <=> Queued(x)
    OBVIOUS
  <2>1. ASSUME NEW i \in 1..Len(queue'), queue'[i] = x PROVE Queued(x)
    <3>1. Len(queue) \in Nat /\ i # Len(queue) + 1
      BY <1>5, <2>1
    <3>2. i \in 1..Len(queue)
      BY <3>1, <1>5
    <3> QED BY <3>2, <1>5, <2>1 DEF Queued
  <2>2. ASSUME NEW i \in 1..Len(queue), queue[i] = x PROVE Queued(x)'
    <3>1. i \in 1..Len(queue')
      BY <1>5
    <3> QED BY <3>1, <1>5, <2>2 DEF Queued
  <2> QED BY <2>1, <2>2 DEF Queued
<1>7. FilesAgree'
  BY <1>3 DEF FilesAgree, Present
<1>8. PendingHasFile'
  <2> SUFFICES ASSUME NEW x \in TaskId, disk'[x].status = "absent"
               PROVE  execs'[x] = 0 /\ ~Queued(x)' /\ ~InHand(x)'
    BY DEF PendingHasFile
  <2>1. x # id
    BY <1>2, <1>3
  <2> QED BY <2>1, <1>3, <1>4, <1>6 DEF PendingHasFile
<1>9. OncePlace'
  <2> SUFFICES ASSUME NEW x \in TaskId, Once(disk[x])'
               PROVE  /\ disk'[x].status \in Armed => execs'[x] = 0 /\ ~Queued(x)' /\ ~InHand(x)'
                      /\ Queued(x)' => execs'[x] = 0 /\ ~InHand(x)'
                      /\ curId' = x /\ execPc' = "popped" => execs'[x] = 0
                      /\ \A i, j \in 1..Len(queue') : queue'[i] = x /\ queue'[j] = x => i = j
                      /\ execs'[x] <= 1
    BY DEF OncePlace
  <2>1. CASE x = id
    <3>1. Once(disk[id]) /\ f.status = "completed"
      BY <2>1, <1>2, <1>3 DEF Once
    <3>2. execs[id] = 0 /\ ~Queued(id) /\ ~InHand(id)
      BY <3>1, <1>1 DEF OncePlace, Armed
    <3>3. \A i, j \in 1..Len(queue') : queue'[i] = id /\ queue'[j] = id => i = j
      BY <3>2, <1>5 DEF Queued
    <3> QED BY <2>1, <3>1, <3>2, <3>3, <1>3, <1>4 DEF Armed
  <2>2. CASE x # id
    <3>1. disk'[x] = disk[x] /\ Once(disk[x])
      BY <2>2, <1>3 DEF Once
    <3>2. \A i, j \in 1..Len(queue') : queue'[i] = x /\ queue'[j] = x => i = j
      <4> SUFFICES ASSUME NEW i \in 1..Len(queue'), NEW j \in 1..Len(queue'),
                          queue'[i] = x, queue'[j] = x
                   PROVE  i = j
        OBVIOUS
      <4>1. i \in 1..Len(queue) /\ j \in 1..Len(queue)
        <5>1. Len(queue) \in Nat /\ i # Len(queue) + 1 /\ j # Len(queue) + 1
          BY <2>2, <1>5
        <5> QED BY <5>1, <1>5
      <4>2. queue[i] = x /\ queue[j] = x
        BY <4>1, <1>5
      <4> QED BY <4>1, <4>2, <3>1 DEF OncePlace
    <3>3. curId' = x /\ execPc' = "popped" => curId = x /\ execPc = "popped"
      BY DEF SchedFire, NotifyExecutor
    <3> QED BY <3>1, <3>2, <3>3, <2>2, <1>3, <1>4, <1>6 DEF OncePlace
  <2> QED BY <2>1, <2>2
<1>10. CopyFaithful'
  <2>1. execPc' = "run" => execPc = "run"
    BY DEF SchedFire, NotifyExecutor
  <2>2. disk'[curId].sch = disk[curId].sch
    BY <1>2, <1>3
  <2> QED BY <2>1, <2>2, <1>3 DEF CopyFaithful, Once
<1> QED BY <1>7, <1>8, <1>9, <1>10

\* The pop moves an id from the queue into the worker's hand.
LEMMA OncePop ==
    ASSUME TypeOK, OnceInv, ExecPop
    PROVE  OnceInv'
<1> USE DEF OnceInv, TypeOK
<1>1. /\ disk' = disk /\ tasks' = tasks /\ execs' = execs
      /\ curId' = queue[1] /\ execPc = "lock" /\ execPc' = "popped"
      /\ Len(queue) > 0
  BY DEF ExecPop, execRest
<1>2. /\ Len(queue') = Len(queue) - 1
      /\ \A i \in 1..Len(queue') : queue'[i] = queue[i + 1]
  BY DEF ExecPop
<1>3. \A x \in TaskId : Queued(x)' => Queued(x)
  BY <1>2 DEF Queued
<1>4. \A x \in TaskId : InHand(x)' <=> x = queue[1]
  BY <1>1 DEF InHand
<1>5. Queued(queue[1])
  BY <1>1 DEF Queued
<1>6. FilesAgree'
  BY <1>1 DEF FilesAgree, Present
<1>7. PendingHasFile'
  BY <1>1, <1>3, <1>4, <1>5 DEF PendingHasFile
<1>8. OncePlace'
  <2> SUFFICES ASSUME NEW x \in TaskId, Once(disk[x])
               PROVE  /\ disk'[x].status \in Armed => execs'[x] = 0 /\ ~Queued(x)' /\ ~InHand(x)'
                      /\ Queued(x)' => execs'[x] = 0 /\ ~InHand(x)'
                      /\ curId' = x /\ execPc' = "popped" => execs'[x] = 0
                      /\ \A i, j \in 1..Len(queue') : queue'[i] = x /\ queue'[j] = x => i = j
                      /\ execs'[x] <= 1
    BY <1>1 DEF OncePlace, Once
  <2>1. \A i, j \in 1..Len(queue) : queue[i] = x /\ queue[j] = x => i = j
    BY DEF OncePlace
  <2>2. \A i, j \in 1..Len(queue') : queue'[i] = x /\ queue'[j] = x => i = j
    <3> SUFFICES ASSUME NEW i \in 1..Len(queue'), NEW j \in 1..Len(queue'),
                        queue'[i] = x, queue'[j] = x
                 PROVE  i = j
      OBVIOUS
    <3>1. i + 1 \in 1..Len(queue) /\ j + 1 \in 1..Len(queue)
      BY <1>2
    <3>2. i + 1 = j + 1
      BY <3>1, <2>1, <1>2
    <3> QED BY <3>2
  <2>3. x = queue[1] => ~Queued(x)'
    <3> SUFFICES ASSUME x = queue[1], NEW i \in 1..Len(queue'), queue'[i] = x
                 PROVE  FALSE
      BY DEF Queued
    <3>1. i + 1 \in 1..Len(queue) /\ 1 \in 1..Len(queue) /\ queue[i + 1] = x
      BY <1>1, <1>2
    <3>2. i + 1 = 1
      BY <3>1, <2>1
    <3> QED BY <3>2
  <2> QED BY <2>2, <2>3, <1>1, <1>3, <1>4, <1>5 DEF OncePlace
<1>9. CopyFaithful'
  BY <1>1 DEF CopyFaithful
<1> QED BY <1>6, <1>7, <1>8, <1>9

\* The worker copies a task that is in its hand: a one-shot is no longer armed.
LEMMA OnceBegin ==
    ASSUME TypeOK, OnceInv, ExecBegin
    PROVE  OnceInv'
<1> USE DEF OnceInv, TypeOK
<1>1. /\ disk' = disk /\ tasks' = tasks /\ queue' = queue /\ curId' = curId
      /\ copy' = tasks[curId] /\ execPc = "popped" /\ execPc' = "run"
      /\ tasks[curId].status \notin {"absent", "cancelled"}
  BY DEF ExecBegin, execRest
<1>2. \A x \in TaskId : /\ Queued(x)' <=> Queued(x)
                        /\ InHand(x)' <=> InHand(x)
  BY <1>1 DEF Queued, InHand
<1>3. InHand(curId)
  BY <1>1 DEF InHand
<1>4. /\ \A x \in TaskId : x # curId => execs'[x] = execs[x]
      /\ execs'[curId] <= execs[curId] + 1
  BY SchedulerAssumption DEF ExecBegin
<1>5. disk[curId].sch = tasks[curId].sch /\ disk[curId].status = tasks[curId].status
  BY <1>1 DEF FilesAgree, Present
<1>6. Once(disk[curId]) => disk[curId].status \notin Armed /\ execs[curId] = 0 /\ ~Queued(curId)
  BY <1>1, <1>3 DEF OncePlace
<1>7. FilesAgree'
  BY <1>1 DEF FilesAgree, Present
<1>8. PendingHasFile'
  <2>1. disk[curId].status # "absent"
    BY <1>1, <1>5
  <2> QED BY <2>1, <1>1, <1>2, <1>4 DEF PendingHasFile
<1>9. OncePlace'
  <2> SUFFICES ASSUME NEW x \in TaskId, Once(disk[x])
               PROVE  /\ disk'[x].status \in Armed => execs'[x] = 0 /\ ~Queued(x)' /\ ~InHand(x)'
                      /\ Queued(x)' => execs'[x] = 0 /\ ~InHand(x)'
                      /\ curId' = x /\ execPc' = "popped" => execs'[x] = 0
                      /\ \A i, j \in 1..Len(queue') : queue'[i] = x /\ queue'[j] = x => i = j
                      /\ execs'[x] <= 1
    BY <1>1 DEF OncePlace, Once
  <2>1. CASE x = curId
    BY <2>1, <1>1, <1>2, <1>4, <1>6 DEF OncePlace
  <2>2. CASE x # curId
    BY <2>2, <1>1, <1>2, <1>4 DEF OncePlace
  <2> QED BY <2>1, <2>2
<1>10. CopyFaithful'
  BY <1>1, <1>5, <1>6 DEF CopyFaithful, Once
<1> QED BY <1>7, <1>8, <1>9, <1>10

\* A step that replaces the record of one task, in memory and on disk, by one
\* with the same schedule that is armed only if the file was.
LEMMA OnceReplace ==
    ASSUME TypeOK, OnceInv, NEW id \in TaskId, NEW t \in Task,
           tasks' = [tasks EXCEPT ![id] = t], disk' = [disk EXCEPT ![id] = t],
           t.sch = disk[id].sch, t.status # "absent",
           Once(t) /\ t.status \in Armed => disk[id].status \in Armed,
           execs' = execs, queue' = queue, curId' = curId,
           \/ execPc' = execPc /\ copy' = copy
           \/ execPc' \notin {"popped", "run"}
    PROVE  OnceInv'
<1> USE DEF OnceInv, TypeOK
<1>1. \A x \in TaskId : /\ Queued(x)' <=> Queued(x)
                        /\ InHand(x)' => InHand(x)
                        /\ execPc' = "popped" => execPc = "popped"
  BY DEF Queued, InHand
<1>2. \A x \in TaskId : disk'[x].sch = disk[x].sch
  OBVIOUS
<1>3. \A x \in TaskId : /\ disk'[x].status = "absent" => disk[x].status = "absent"
                        /\ Once(disk[x]) /\ disk'[x].status \in Armed => disk[x].status \in Armed
  BY DEF Once
<1>4. FilesAgree'
  BY DEF FilesAgree, Present
<1>5. PendingHasFile'
  BY <1>1, <1>3 DEF PendingHasFile
<1>6. OncePlace'
  BY <1>1, <1>2, <1>3 DEF OncePlace, Once
<1>7. CopyFaithful'
  BY <1>2 DEF CopyFaithful, Once
<1> QED BY <1>4, <1>5, <1>6, <1>7

LEMMA OnceFinish ==
    ASSUME DiskReliable, TypeOK, OnceInv, NEW o \in Outcomes, ExecFinish(o)
    PROVE  OnceInv'
<1> USE DEF OnceInv, TypeOK
<1>1. /\ execs' = execs /\ queue' = queue /\ curId' = curId
      /\ execPc = "run" /\ execPc' = "top"
  BY DEF ExecFinish
<1>2. CASE Present(curId)
  <2> DEFINE t == Executed(copy, o)
  <2>1. t \in Task /\ t.sch = copy.sch /\ t.status \in {"failed", copy.status}
    BY ExecutedType
  <2>2. tasks' = [tasks EXCEPT ![curId] = t] /\ disk' = [disk EXCEPT ![curId] = t]
    BY <1>2 DEF ExecFinish, SaveTask
  <2> HIDE DEF t
  <2>3. t.sch = disk[curId].sch /\ t.status # "absent"
    BY <1>1, <2>1 DEF CopyFaithful
  <2>4. Once(t) => t.status \notin Armed
    BY <1>1, <2>1 DEF CopyFaithful, Once, Armed
  <2> QED BY <1>1, <2>1, <2>2, <2>3, <2>4, OnceReplace
<1>3. CASE ~Present(curId)
  <2>1. tasks' = tasks /\ disk' = disk
    BY <1>3 DEF ExecFinish
  <2>2. \A x \in TaskId : /\ Queued(x)' <=> Queued(x)
                          /\ ~InHand(x)'
    BY <1>1 DEF Queued, InHand
  <2>3. FilesAgree' /\ PendingHasFile' /\ CopyFaithful'
    BY <1>1, <2>1, <2>2 DEF FilesAgree, Present, PendingHasFile, CopyFaithful
  <2>4. OncePlace'
    BY <1>1, <2>1, <2>2 DEF OncePlace, Once
  <2> QED BY <2>3, <2>4
<1> QED BY <1>2, <1>3

LEMMA OnceCancel ==
    ASSUME DiskReliable, TypeOK, OnceInv, NEW id \in TaskId, CancelTask(id)
    PROVE  OnceInv'
<1> USE DEF OnceInv, TypeOK
<1> DEFINE t == [tasks[id] EXCEPT !.status = "cancelled"]
<1>1. t \in Task /\ t.sch = tasks[id].sch /\ t.status = "cancelled"
  BY DEF Task, Statuses
<1>2. /\ tasks' = [tasks EXCEPT ![id] = t] /\ disk' = [disk EXCEPT ![id] = t]
      /\ execs' = execs /\ queue' = queue /\ curId' = curId
      /\ execPc' = execPc /\ copy' = copy /\ Present(id)
  BY DEF CancelTask, SaveTask, execVars
<1> HIDE DEF t
<1>3. t.sch = disk[id].sch
  BY <1>1, <1>2 DEF FilesAgree
<1> QED BY <1>1, <1>2, <1>3, OnceReplace DEF Armed

LEMMA OnceCreate ==
    ASSUME DiskReliable, TypeOK, OnceInv, NEW id \in TaskId, NEW e \in Exprs, CreateTask(id, e)
    PROVE  OnceInv'
<1> USE DEF OnceInv, TypeOK
<1> DEFINE t == [NoTask EXCEPT !.sch = ParseSchedule(e), !.status = "active",
                   !.nextRun = ComputeNextRun(ParseSchedule(e), ParseSchedule(e).at, now)]
<1>1. t \in Task
  BY CreatedType
<1>2. /\ tasks' = [tasks EXCEPT ![id] = t] /\ disk' = [disk EXCEPT ![id] = t]
      /\ execs' = execs /\ queue' = queue /\ curId' = curId
      /\ execPc' = execPc /\ copy' = copy /\ disk[id].status = "absent"
  BY DEF CreateTask, SaveTask, execVars, NoTask
<1>3. t.status = "active"
  BY DEF NoTask
<1> HIDE DEF t
<1>4. execs[id] = 0 /\ ~Queued(id) /\ ~InHand(id)
  BY <1>2 DEF PendingHasFile
<1>5. \A x \in TaskId : /\ Queued(x)' <=> Queued(x)
                        /\ InHand(x)' <=> InHand(x)
  BY <1>2 DEF Queued, InHand
<1>6. \A x \in TaskId : x # id => disk'[x] = disk[x] /\ tasks'[x] = tasks[x]
  BY <1>2
<1>7. disk'[id] = t /\ tasks'[id] = t
  BY <1>2
<1>8. FilesAgree'
  BY <1>6, <1>7 DEF FilesAgree, Present
<1>9. PendingHasFile'
  BY <1>2, <1>3, <1>5, <1>6, <1>7 DEF PendingHasFile
<1>10. OncePlace'
  <2> SUFFICES ASSUME NEW x \in TaskId, Once(disk'[x])
               PROVE  /\ disk'[x].status \in Armed => execs'[x] = 0 /\ ~Queued(x)' /\ ~InHand(x)'
                      /\ Queued(x)' => execs'[x] = 0 /\ ~InHand(x)'
                      /\ curId' = x /\ execPc' = "popped" => execs'[x] = 0
                      /\ \A i, j \in 1..Len(queue') : queue'[i] = x /\ queue'[j] = x => i = j
                      /\ execs'[x] <= 1
    BY DEF OncePlace, Once
  <2>1. CASE x = id
    BY <2>1, <1>2, <1>4, <1>5 DEF Queued
  <2>2. CASE x # id
    BY <2>2, <1>2, <1>5, <1>6 DEF OncePlace
  <2> QED BY <2>1, <2>2
<1>11. CopyFaithful'
  <2>1. execPc = "run" => curId # id
    BY <1>4 DEF InHand
  <2> QED BY <2>1, <1>2, <1>6 DEF CopyFaithful, Once
<1> QED BY <1>8, <1>9, <1>10, <1>11

LEMMA OnceStep ==
    ASSUME DiskReliable
    PROVE  TypeOK /\ ScanActive /\ OnceInv /\ [Next]_vars => OnceInv'
<1> SUFFICES ASSUME TypeOK, ScanActive, OnceInv, [Next]_vars PROVE OnceInv'
  OBVIOUS
<1>1. CASE Start
  <2>1. \A id \in TaskId : tasks'[id].status # "absent" =>
            tasks'[id].status = disk[id].status /\ tasks'[id].sch = disk[id].sch
    BY <1>1, LoadedType DEF Start, TypeOK
  <2>2. FilesAgree'
    BY <1>1, <2>1 DEF Start, FilesAgree, Present
  <2> QED BY <1>1, <2>2, OnceQuiet DEF Start
<1>2. CASE Stop
  <2>1. FilesAgree'
    BY <1>2 DEF Stop, FilesAgree, Present, OnceInv
  <2> QED BY <1>2, <2>1, OnceQuiet DEF Stop, NotifyExecutor
<1>3. CASE StopJoined \/ Crash
  BY <1>3, OnceProcessGone DEF StopJoined, Crash
<1>4. CASE SchedLoop \/ SchedScan \/ SchedWait \/ SchedWoken \/ SchedTimeout \/ Tick
  <2>1. tasks' = tasks /\ disk' = disk /\ execs' = execs /\ queue' = queue
        /\ curId' = curId /\ copy' = copy /\ execPc' = execPc
    BY <1>4 DEF SchedLoop, SchedScan, SchedWait, SchedWoken, SchedTimeout, Tick, execVars
  <2>2. FilesAgree'
    BY <2>1 DEF FilesAgree, Present, OnceInv
  <2> QED BY <2>1, <2>2, OnceQuiet
<1>5. ASSUME NEW id \in TaskId, SchedFire(id) PROVE OnceInv'
  BY <1>5, OnceFire
<1>6. CASE ExecLoop \/ ExecEmpty \/ ExecSleep \/ ExecSpurious \/ ExecSkip
  <2>1. tasks' = tasks /\ disk' = disk /\ execs' = execs /\ queue' = queue
        /\ curId' = curId /\ copy' = copy /\ execPc' \notin {"popped", "run"}
    BY <1>6 DEF ExecLoop, ExecEmpty, ExecSleep, ExecSpurious, ExecSkip, execRest
  <2>2. FilesAgree'
    BY <2>1 DEF FilesAgree, Present, OnceInv
  <2> QED BY <2>1, <2>2, OnceQuiet
<1>7. CASE ExecPop
  BY <1>7, OncePop
<1>8. CASE ExecBegin
  BY <1>8, OnceBegin
<1>9. ASSUME NEW o \in Outcomes, ExecFinish(o) PROVE OnceInv'
  BY <1>9, OnceFinish
<1>10. ASSUME NEW id \in TaskId, NEW e \in Exprs, CreateTask(id, e) PROVE OnceInv'
  BY <1>10, OnceCreate
<1>11. ASSUME NEW id \in TaskId, CancelTask(id) PROVE OnceInv'
  BY <1>11, OnceCancel
<1>12. CASE UNCHANGED vars
  <2>1. FilesAgree'
    BY <1>12 DEF vars, FilesAgree, Present, OnceInv
  <2> QED BY <1>12, <2>1, OnceQuiet DEF vars, execVars
<1> QED
  BY <1>1, <1>2, <1>3, <1>4, <1>5, <1>6, <1>7, <1>8, <1>9, <1>10, <1>11, <1>12
  DEF Next, SchedStep, ExecStep

\* When saves succeed, a one-shot task is handed to the agent at most once over
\* all process lives, for any number of tasks, threads' interleaving and crashes.
THEOREM OnceAtMostOnceAlways ==
    ASSUME DiskReliable
    PROVE  Spec => []OnceAtMostOnce
<1>1. Init => OnceInv
  <2> SUFFICES ASSUME Init PROVE OnceInv
    OBVIOUS
  <2>1. \A id \in TaskId : tasks[id] = NoTask /\ disk[id] = NoTask /\ execs[id] = 0
    BY DEF Init
  <2>2. execPc = "exited" /\ queue = <<>>
    BY DEF Init
  <2> QED BY <2>1, <2>2
          DEF OnceInv, FilesAgree, Present, PendingHasFile, Queued, InHand, OncePlace,
              Once, CopyFaithful, NoTask, Invalid
<1>2. OnceInv => OnceAtMostOnce
  BY DEF OnceInv, OncePlace, OnceAtMostOnce
<1> QED BY <1>1, <1>2, ScanAlways, OnceStep, PTL DEF Spec
-----------------------------------------------------------------------------
\* A task with max_retries failures or more is not active.
RetryOk(t) == t.fails >= MaxRetries => t.status # "active"

\* Loading, firing and running a task keep its fail count below the limit or
\* disable it: only ExecuteTask counts, and it tests the limit as it counts.
LEMMA RetryRecords ==
    ASSUME NEW t \in Task, now \in Nat
    PROVE  /\ RetryOk(NoTask)
           /\ RetryOk(t) => RetryOk(Loaded(t)) /\ RetryOk(Fired(t))
           /\ RetryOk([t EXCEPT !.status = "cancelled"])
           /\ \A o \in Outcomes : RetryOk(Executed(t, o))
<1>1. RetryOk(NoTask)
  BY DEF RetryOk, NoTask
<1>2. RetryOk(t) => RetryOk(Loaded(t))
  BY <1>1 DEF RetryOk, Loaded, Task
<1>3. RetryOk(t) => RetryOk(Fired(t))
  BY DEF RetryOk, Fired, Task
<1>4. RetryOk([t EXCEPT !.status = "cancelled"])
  BY DEF RetryOk, Task
<1>5. ASSUME NEW o \in Outcomes PROVE RetryOk(Executed(t, o))
  <2> DEFINE fails == IF o = "success" THEN 0 ELSE t.fails + 1
             status == IF o = "failed" /\ fails >= MaxRetries THEN "failed" ELSE t.status
  <2>1. Executed(t, o) = [t EXCEPT !.fails = fails, !.status = status]
    BY DEF Executed, Task
  <2>2. fails >= MaxRetries => status # "active"
    BY SchedulerAssumption DEF Outcomes
  <2> HIDE DEF fails, status
  <2>3. Executed(t, o).fails = fails /\ Executed(t, o).status = status
    BY <2>1 DEF Task
  <2> QED BY <2>2, <2>3 DEF RetryOk
<1> QED BY <1>1, <1>2, <1>3, <1>4, <1>5

\* A step that stores one task, in memory and perhaps in its file.
LEMMA RetryStore ==
    ASSUME TypeOK, RetriesExhausted, NEW id \in TaskId, NEW t, RetryOk(t),
           tasks' = [tasks EXCEPT ![id] = t], SaveTask(id, t)
    PROVE  RetriesExhausted'
  BY DEF RetriesExhausted, RetryOk, SaveTask, TypeOK

LEMMA RetryStep == TypeOK /\ RetriesExhausted /\ [Next]_vars => RetriesExhausted'
<1> SUFFICES ASSUME TypeOK, RetriesExhausted, [Next]_vars PROVE RetriesExhausted'
  OBVIOUS
<1>1. CASE Start
  <2>1. \A id \in TaskId : RetryOk(disk[id])
    BY DEF RetriesExhausted, RetryOk
  <2>2. \A id \in TaskId : RetryOk(tasks'[id])
    BY <1>1, <2>1, RetryRecords DEF Start, TypeOK
  <2> QED BY <1>1, <2>2 DEF Start, RetriesExhausted, RetryOk
<1>2. CASE StopJoined \/ Crash
  <2>1. disk' = disk /\ \A id \in TaskId : tasks'[id] = NoTask
    BY <1>2 DEF StopJoined, Crash, ProcessGone
  <2> QED BY <2>1 DEF RetriesExhausted, NoTask
<1>3. ASSUME NEW id \in TaskId, SchedFire(id) PROVE RetriesExhausted'
  <2>1. RetryOk(Fired(tasks[id]))
    BY RetryRecords DEF RetriesExhausted, RetryOk, TypeOK
  <2> QED BY <1>3, <2>1, RetryStore DEF SchedFire
<1>4. ASSUME NEW o \in Outcomes, ExecFinish(o) PROVE RetriesExhausted'
  <2>1. RetryOk(Executed(copy, o))
    BY RetryRecords DEF TypeOK
  <2>2. CASE Present(curId)
    BY <1>4, <2>1, <2>2, RetryStore DEF ExecFinish, TypeOK
  <2>3. CASE ~Present(curId)
    BY <1>4, <2>3 DEF ExecFinish, RetriesExhausted
  <2> QED BY <2>2, <2>3
<1>5. ASSUME NEW id \in TaskId, NEW e \in Exprs, CreateTask(id, e) PROVE RetriesExhausted'
  <2> DEFINE t == [NoTask EXCEPT !.sch = ParseSchedule(e), !.status = "active",
                     !.nextRun = ComputeNextRun(ParseSchedule(e), ParseSchedule(e).at, now)]
  <2>1. RetryOk(t)
    BY SchedulerAssumption DEF RetryOk, NoTask
  <2>2. tasks' = [tasks EXCEPT ![id] = t] /\ SaveTask(id, t)
    BY <1>5 DEF CreateTask
  <2> HIDE DEF t
  <2> QED BY <2>1, <2>2, RetryStore
<1>6. ASSUME NEW id \in TaskId, CancelTask(id) PROVE RetriesExhausted'
  BY <1>6, RetryRecords, RetryStore DEF CancelTask, TypeOK
<1>7. CASE Stop \/ SchedLoop \/ SchedScan \/ SchedWait \/ SchedWoken \/ SchedTimeout \/ Tick
           \/ UNCHANGED vars
  BY <1>7 DEF Stop, SchedLoop, SchedScan, SchedWait, SchedWoken, SchedTimeout, Tick, vars,
              RetriesExhausted
<1>8. CASE ExecLoop \/ ExecEmpty \/ ExecSleep \/ ExecSpurious \/ ExecSkip \/ ExecPop \/ ExecBegin
  BY <1>8 DEF ExecLoop, ExecEmpty, ExecSleep, ExecSpurious, ExecSkip, ExecPop, ExecBegin,
              execRest, RetriesExhausted
<1> QED
  BY <1>1, <1>2, <1>3, <1>4, <1>5, <1>6, <1>7, <1>8 DEF Next, SchedStep, ExecStep

\* A task that failed max_retries times in a row is disabled in memory and on
\* disk, whether or not saves succeed.
THEOREM RetriesExhaustedAlways == Spec => []RetriesExhausted
<1>1. Init => RetriesExhausted
  BY SchedulerAssumption DEF Init, RetriesExhausted, NoTask
<1> QED BY <1>1, RetryStep, TypeCorrect, PTL DEF Spec
-----------------------------------------------------------------------------
\* A process that is gone has no threads and no queue.
DownIdle == main = "down" => queue = <<>> /\ execPc = "exited" /\ schedPc = "exited"

\* An id is queued or in the worker's hand only while its task is known, and a
\* one-shot only after SchedulerLoop has completed it.
Waiting(t) == t.status = "absent" \/ (Once(t) /\ t.status \in Armed)
HandedOver == \A id \in TaskId : Waiting(tasks[id]) => ~Queued(id) /\ ~InHand(id)

\* The worker's copy has the schedule of the task in memory, and is neither of
\* an unknown or cancelled task nor of an armed one-shot.
CopyCurrent ==
    execPc = "run" =>
        /\ copy.sch = tasks[curId].sch
        /\ copy.status \notin {"absent", "cancelled"}
        /\ Once(copy) => copy.status \notin Armed

\* Inside a scan, an active one-shot is still to be fired or not due before the
\* wake-up chosen.
ScanCovers ==
    schedPc = "scan" =>
        \A id \in TaskId : tasks[id].status = "active" /\ Once(tasks[id]) =>
            id \in scanTodo \/ wakeAt <= tasks[id].nextRun

\* A task whose file says completed or failed is armed neither in memory nor in
\* the worker's copy.
FileFinal ==
    \A id \in TaskId : disk[id].status \in {"completed", "failed"} =>
        /\ tasks[id].status \notin Armed
        /\ execPc = "run" /\ curId = id => copy.status \notin Armed

HandInv == DownIdle /\ HandedOver /\ CopyCurrent

\* A step that leaves tasks, queue and the worker's copy alone, in which the
\* worker takes no task.
LEMMA HandQuiet ==
    ASSUME TypeOK, HandInv, tasks' = tasks, queue' = queue, curId' = curId, copy' = copy,
           execPc' \in {execPc} \cup {"top", "lock", "presleep", "asleep", "exited"},
           DownIdle'
    PROVE  HandInv'
  BY DEF HandInv, HandedOver, CopyCurrent, Waiting, Once, Queued, InHand

\* A step that replaces one task by one with the same schedule, which does not
\* become absent or an armed one-shot again.
LEMMA HandReplace ==
    ASSUME TypeOK, HandInv, NEW id \in TaskId, NEW t,
           tasks' = [tasks EXCEPT ![id] = t], t.sch = tasks[id].sch,
           Waiting(t) => Waiting(tasks[id]),
           queue' = queue, curId' = curId,
           \/ execPc' = execPc /\ copy' = copy
           \/ execPc' \notin {"popped", "run"},
           DownIdle'
    PROVE  HandInv'
<1>1. \A x \in TaskId : /\ Waiting(tasks'[x]) => Waiting(tasks[x])
                        /\ tasks'[x].sch = tasks[x].sch
  BY DEF TypeOK
<1>2. \A x \in TaskId : (Queued(x)' <=> Queued(x)) /\ (InHand(x)' => InHand(x))
  BY DEF Queued, InHand
<1>3. HandedOver'
  BY <1>1, <1>2 DEF HandInv, HandedOver, Waiting, Once
<1>4. CopyCurrent'
  BY <1>1 DEF HandInv, CopyCurrent, Once, TypeOK
<1> QED BY <1>3, <1>4 DEF HandInv

\* What ExecuteTask writes back keeps the schedule, and is neither absent nor an
\* armed one-shot.
LEMMA FinishRecord ==
    ASSUME TypeOK, HandInv, NEW o \in Outcomes, execPc = "run"
    PROVE  /\ Executed(copy, o) \in Task
           /\ Executed(copy, o).sch = tasks[curId].sch
           /\ Executed(copy, o).status \in {"failed", copy.status}
           /\ ~Waiting(Executed(copy, o))
<1>1. /\ Executed(copy, o) \in Task
      /\ Executed(copy, o).sch = copy.sch
      /\ Executed(copy, o).status \in {"failed", copy.status}
  BY ExecutedType DEF TypeOK
<1> QED BY <1>1 DEF HandInv, CopyCurrent, Waiting, Once, Armed

LEMMA HandStep == TypeOK /\ ScanActive /\ DownEmpty /\ HandInv /\ [Next]_vars => HandInv'
<1> SUFFICES ASSUME TypeOK, ScanActive, DownEmpty, HandInv, [Next]_vars PROVE HandInv'
  OBVIOUS
<1>1. CASE Start
  <2>1. /\ queue' = <<>> /\ execPc' = "top" /\ main' = "up"
    BY <1>1 DEF Start, HandInv, DownIdle
  <2> QED BY <2>1 DEF HandInv, DownIdle, HandedOver, CopyCurrent, Queued, InHand
<1>2. CASE StopJoined \/ Crash
  <2>1. queue' = <<>> /\ execPc' = "exited" /\ schedPc' = "exited"
    BY <1>2 DEF StopJoined, Crash, ProcessGone
  <2> QED BY <2>1 DEF HandInv, DownIdle, HandedOver, CopyCurrent, Queued, InHand
<1>3. CASE Stop \/ SchedLoop \/ SchedScan \/ SchedWait \/ SchedWoken \/ SchedTimeout \/ Tick
           \/ UNCHANGED vars
  <2>1. /\ tasks' = tasks /\ queue' = queue /\ curId' = curId /\ copy' = copy
        /\ execPc' \in {execPc, "lock"}
    BY <1>3 DEF Stop, SchedLoop, SchedScan, SchedWait, SchedWoken, SchedTimeout, Tick, vars,
                execVars, NotifyExecutor
  <2>2. DownIdle'
    BY <1>3 DEF Stop, SchedLoop, SchedScan, SchedWait, SchedWoken, SchedTimeout, Tick, vars,
                execVars, schedVars, HandInv, DownIdle
  <2> QED BY <2>1, <2>2, HandQuiet
<1>4. ASSUME NEW id \in TaskId, SchedFire(id) PROVE HandInv'
  <2> DEFINE f == Fired(tasks[id])
  <2>1. tasks[id].status = "active" /\ main # "down" /\ main' = main
    BY <1>4 DEF SchedFire, ScanActive, HandInv, DownIdle
  <2>2. f.sch = tasks[id].sch /\ ~Waiting(f)
    BY <2>1, FiredType DEF Waiting, Once, Armed, TypeOK
  <2>3. /\ tasks' = [tasks EXCEPT ![id] = f] /\ queue' = Append(queue, id)
        /\ curId' = curId /\ copy' = copy /\ execPc' \in {execPc, "lock"}
    BY <1>4 DEF SchedFire, NotifyExecutor
  <2> HIDE DEF f
  <2>4. \A x \in TaskId : x # id => (Queued(x)' => Queued(x))
    <3> SUFFICES ASSUME NEW x \in TaskId, x # id, NEW i \in 1..Len(queue'), queue'[i] = x
                 PROVE  Queued(x)
      BY DEF Queued
    <3>1. i \in 1..Len(queue) /\ queue[i] = x
      BY <2>3 DEF TypeOK
    <3> QED BY <3>1 DEF Queued
  <2>5. HandedOver'
    <3> SUFFICES ASSUME NEW x \in TaskId, Waiting(tasks[x])'
                 PROVE  ~Queued(x)' /\ ~InHand(x)'
      BY DEF HandedOver
    <3>1. x # id
      BY <2>2, <2>3 DEF TypeOK, Waiting, Once
    <3>2. Waiting(tasks[x])
      BY <3>1, <2>3 DEF TypeOK, Waiting, Once
    <3> QED BY <3>1, <3>2, <2>3, <2>4 DEF HandInv, HandedOver, InHand
  <2>6. CopyCurrent'
    <3>1. \A x \in TaskId : tasks'[x].sch = tasks[x].sch
      BY <2>2, <2>3 DEF TypeOK
    <3> QED BY <2>3, <3>1 DEF HandInv, CopyCurrent, Once, TypeOK
  <2> QED BY <2>1, <2>5, <2>6 DEF HandInv, DownIdle
<1>5. CASE ExecLoop \/ ExecEmpty \/ ExecSleep \/ ExecSpurious \/ ExecSkip
  <2>1. /\ tasks' = tasks /\ queue' = queue /\ curId' = curId /\ copy' = copy
        /\ execPc' \in {"top", "lock", "presleep", "asleep", "exited"}
    BY <1>5 DEF ExecLoop, ExecEmpty, ExecSleep, ExecSpurious, ExecSkip, execRest
  <2>2. DownIdle'
    BY <1>5 DEF ExecLoop, ExecEmpty, ExecSleep, ExecSpurious, ExecSkip, execRest, HandInv,
                DownIdle
  <2> QED BY <2>1, <2>2, HandQuiet
<1>6. CASE ExecPop
  <2>1. /\ tasks' = tasks /\ curId' = queue[1] /\ execPc' = "popped"
        /\ main' = main /\ execPc = "lock" /\ Len(queue) > 0
    BY <1>6 DEF ExecPop, execRest, TypeOK
  <2>2. /\ Len(queue') = Len(queue) - 1
        /\ \A i \in 1..Len(queue') : queue'[i] = queue[i + 1]
    BY <1>6 DEF ExecPop, TypeOK
  <2>3. \A x \in TaskId : Queued(x)' \/ InHand(x)' => Queued(x)
    BY <2>1, <2>2 DEF Queued, InHand, TypeOK
  <2> QED BY <2>1, <2>3 DEF HandInv, DownIdle, HandedOver, Waiting, Once, CopyCurrent
<1>7. CASE ExecBegin
  <2>1. /\ tasks' = tasks /\ queue' = queue /\ curId' = curId /\ copy' = tasks[curId]
        /\ execPc = "popped" /\ execPc' = "run" /\ main' = main
        /\ tasks[curId].status \notin {"absent", "cancelled"}
    BY <1>7 DEF ExecBegin, execRest
  <2>2. \A x \in TaskId : (Queued(x)' <=> Queued(x)) /\ (InHand(x)' <=> InHand(x))
    BY <2>1 DEF Queued, InHand
  <2>3. ~Waiting(tasks[curId])
    BY <2>1 DEF HandInv, HandedOver, InHand, TypeOK
  <2>4. CopyCurrent'
    BY <2>1, <2>3 DEF CopyCurrent, Waiting, Once
  <2> QED BY <2>1, <2>2, <2>4 DEF HandInv, DownIdle, HandedOver, Waiting, Once
<1>8. ASSUME NEW o \in Outcomes, ExecFinish(o) PROVE HandInv'
  <2>1. /\ execPc = "run" /\ execPc' = "top" /\ queue' = queue /\ curId' = curId
        /\ main' = main
    BY <1>8 DEF ExecFinish
  <2>2. DownIdle'
    BY <2>1 DEF HandInv, DownIdle
  <2>3. Present(curId)
    BY <2>1 DEF HandInv, HandedOver, Waiting, InHand, Present, TypeOK
  <2>4. tasks' = [tasks EXCEPT ![curId] = Executed(copy, o)]
    BY <1>8, <2>3 DEF ExecFinish
  <2>5. Executed(copy, o).sch = tasks[curId].sch /\ ~Waiting(Executed(copy, o))
    BY <2>1, FinishRecord
  <2> QED BY <2>1, <2>2, <2>4, <2>5, HandReplace DEF TypeOK
<1>9. ASSUME NEW id \in TaskId, NEW e \in Exprs, CreateTask(id, e) PROVE HandInv'
  <2>1. /\ tasks[id] = NoTask /\ queue' = queue /\ curId' = curId /\ copy' = copy
        /\ execPc' = execPc /\ main' = main /\ main # "down"
        /\ \A x \in TaskId : x # id => tasks'[x] = tasks[x]
    BY <1>9 DEF CreateTask, execVars, TypeOK
  <2>2. ~Queued(id) /\ ~InHand(id)
    BY <2>1 DEF HandInv, HandedOver, Waiting, NoTask
  <2>3. HandedOver'
    BY <2>1, <2>2 DEF HandInv, HandedOver, Waiting, Once, Queued, InHand
  <2>4. CopyCurrent'
    BY <2>1, <2>2 DEF HandInv, CopyCurrent, Once, InHand, TypeOK
  <2> QED BY <2>1, <2>3, <2>4 DEF HandInv, DownIdle
<1>10. ASSUME NEW id \in TaskId, CancelTask(id) PROVE HandInv'
  <2> DEFINE t == [tasks[id] EXCEPT !.status = "cancelled"]
  <2>1. t.sch = tasks[id].sch /\ t.status = "cancelled"
    BY DEF TypeOK, Task
  <2>2. /\ tasks' = [tasks EXCEPT ![id] = t] /\ queue' = queue /\ curId' = curId
        /\ copy' = copy /\ execPc' = execPc /\ main' = main /\ main # "down"
    BY <1>10 DEF CancelTask, execVars
  <2> HIDE DEF t
  <2>3. ~Waiting(t)
    BY <2>1 DEF Waiting, Armed
  <2> QED BY <2>1, <2>2, <2>3, HandReplace DEF DownIdle
<1> QED
  BY <1>1, <1>2, <1>3, <1>4, <1>5, <1>6, <1>7, <1>8, <1>9, <1>10
  DEF Next, SchedStep, ExecStep

LEMMA HandAlways == Spec => [](TypeOK /\ ScanActive /\ DownEmpty /\ HandInv)
<1>1. Init => HandInv
  BY DEF Init, HandInv, DownIdle, HandedOver, CopyCurrent, Queued, InHand
<1> QED BY <1>1, HandStep, ScanAlways, PTL DEF Spec
-----------------------------------------------------------------------------
\* The timer thread's choice of `earliest` and the notification in CreateTask:
\* inductive together with what a scan has still to fire.
LEMMA WakeStep ==
    TypeOK /\ HandInv /\ ScanCovers /\ WakeupCoversOnce /\ [Next]_vars
        => ScanCovers' /\ WakeupCoversOnce'
<1> SUFFICES ASSUME TypeOK, HandInv, ScanCovers, WakeupCoversOnce, [Next]_vars
             PROVE  ScanCovers' /\ WakeupCoversOnce'
  OBVIOUS
<1> USE DEF ScanCovers, WakeupCoversOnce
<1>1. CASE Start \/ StopJoined \/ Crash \/ SchedLoop \/ SchedWoken \/ SchedTimeout
  BY <1>1 DEF Start, StopJoined, Crash, ProcessGone, SchedLoop, SchedWoken, SchedTimeout
<1>2. CASE Stop \/ Tick \/ UNCHANGED vars
  <2>1. /\ schedPc' \in {"scan", "wait"} => schedPc' = schedPc
        /\ tasks' = tasks /\ scanTodo' = scanTodo /\ wakeAt' = wakeAt
    BY <1>2 DEF Stop, NotifyScheduler, Tick, vars, schedVars
  <2> QED BY <2>1
<1>3. CASE SchedScan
  <2>1. /\ schedPc' = "scan" /\ tasks' = tasks
        /\ scanTodo' = {id \in TaskId : Due(tasks[id])}
    BY <1>3 DEF SchedScan
  <2>2. \A id \in TaskId : tasks[id].status = "active" /\ ~Due(tasks[id])
                             => wakeAt' <= tasks[id].nextRun
    BY <1>3 DEF SchedScan
  <2> QED BY <2>1, <2>2
<1>4. ASSUME NEW id \in TaskId, SchedFire(id) PROVE ScanCovers' /\ WakeupCoversOnce'
  <2>1. /\ schedPc = "scan" /\ schedPc' = "scan" /\ wakeAt' = wakeAt
        /\ scanTodo' = scanTodo \ {id}
        /\ tasks' = [tasks EXCEPT ![id] = Fired(tasks[id])]
    BY <1>4 DEF SchedFire
  <2>2. Once(Fired(tasks[id])) => Fired(tasks[id]).status = "completed"
    BY FiredType DEF TypeOK, Once
  <2> QED BY <2>1, <2>2 DEF TypeOK, Once
<1>5. CASE SchedWait
  <2>1. schedPc = "scan" /\ scanTodo = {} /\ tasks' = tasks /\ wakeAt' = wakeAt
        /\ schedPc' = "wait"
    BY <1>5 DEF SchedWait
  <2> QED BY <2>1
<1>6. CASE ExecLoop \/ ExecEmpty \/ ExecSleep \/ ExecSpurious \/ ExecSkip \/ ExecPop \/ ExecBegin
  <2>1. schedPc' = schedPc /\ tasks' = tasks /\ scanTodo' = scanTodo /\ wakeAt' = wakeAt
    BY <1>6 DEF ExecLoop, ExecEmpty, ExecSleep, ExecSpurious, ExecSkip, ExecPop, ExecBegin,
                execRest, schedVars
  <2> QED BY <2>1
<1>7. ASSUME NEW o \in Outcomes, ExecFinish(o) PROVE ScanCovers' /\ WakeupCoversOnce'
  <2>1. /\ execPc = "run" /\ schedPc # "scan" /\ schedPc' = schedPc /\ wakeAt' = wakeAt
        /\ tasks' \in {tasks, [tasks EXCEPT ![curId] = Executed(copy, o)]}
    BY <1>7 DEF ExecFinish, TasksFree, schedVars
  <2>2. ~Waiting(Executed(copy, o))
    BY <2>1, FinishRecord
  <2> QED BY <2>1, <2>2 DEF TypeOK, Waiting, Armed
<1>8. ASSUME NEW id \in TaskId, NEW e \in Exprs, CreateTask(id, e)
      PROVE  ScanCovers' /\ WakeupCoversOnce'
  <2>1. schedPc' # "scan" /\ schedPc' # "wait"
    BY <1>8 DEF CreateTask, NotifyScheduler, TasksFree
  <2> QED BY <2>1
<1>9. ASSUME NEW id \in TaskId, CancelTask(id) PROVE ScanCovers' /\ WakeupCoversOnce'
  <2>1. /\ schedPc # "scan" /\ schedPc' = schedPc /\ wakeAt' = wakeAt
        /\ tasks' = [tasks EXCEPT ![id] = [tasks[id] EXCEPT !.status = "cancelled"]]
    BY <1>9 DEF CancelTask, TasksFree, schedVars
  <2>2. tasks'[id].status = "cancelled"
    BY <2>1 DEF TypeOK, Task
  <2>3. \A x \in TaskId : x # id => tasks'[x] = tasks[x]
    BY <2>1 DEF TypeOK
  <2> QED BY <2>1, <2>2, <2>3
<1> QED
  BY <1>1, <1>2, <1>3, <1>4, <1>5, <1>6, <1>7, <1>8, <1>9 DEF Next, SchedStep, ExecStep

\* The timer thread never sleeps past an active one-shot task.
THEOREM WakeupCoversOnceAlways == Spec => []WakeupCoversOnce
<1>1. Init => ScanCovers /\ WakeupCoversOnce
  BY DEF Init, ScanCovers, WakeupCoversOnce
<1> QED BY <1>1, WakeStep, HandAlways, PTL DEF Spec
-----------------------------------------------------------------------------
\* A step that stores one task: the file is final only if it was, or if the
\* task stored is.
LEMMA FinalStore ==
    ASSUME TypeOK, FileFinal, NEW id \in TaskId, NEW t \in Task,
           tasks' = [tasks EXCEPT ![id] = t], SaveTask(id, t), curId' = curId,
           disk[id].status \in {"completed", "failed"} => t.status \notin Armed,
           \/ execPc' \in {execPc, "lock"} /\ copy' = copy
           \/ execPc' = "top",
           t.status \in {"completed", "failed"} /\ execPc' = "run" /\ curId = id
               => copy.status \notin Armed
    PROVE  FileFinal'
<1>1. \A x \in TaskId : x # id => tasks'[x] = tasks[x] /\ disk'[x] = disk[x]
  BY DEF TypeOK, SaveTask
<1>2. tasks'[id] = t /\ disk'[id] \in {t, disk[id]}
  BY DEF TypeOK, SaveTask
<1> SUFFICES ASSUME NEW x \in TaskId, disk'[x].status \in {"completed", "failed"}
             PROVE  /\ tasks'[x].status \notin Armed
                    /\ execPc' = "run" /\ curId' = x => copy'.status \notin Armed
  BY DEF FileFinal
<1>3. CASE x = id
  BY <1>2, <1>3 DEF FileFinal, Armed
<1>4. CASE x # id
  BY <1>1, <1>4 DEF FileFinal
<1> QED BY <1>3, <1>4

\* Which file a step may write, and what of: a final file is only replaced by a
\* final or a cancelled one.
LEMMA FinalStep ==
    TypeOK /\ ScanActive /\ DownEmpty /\ HandInv /\ FileFinal /\ [Next]_vars
        => /\ FileFinal'
           /\ \A id \in TaskId : disk[id].status \in {"completed", "failed"}
                  => disk'[id].status \in {"completed", "failed", "cancelled"}
<1> SUFFICES ASSUME TypeOK, ScanActive, DownEmpty, HandInv, FileFinal, [Next]_vars
             PROVE  /\ FileFinal'
                    /\ \A id \in TaskId : disk[id].status \in {"completed", "failed"}
                           => disk'[id].status \in {"completed", "failed", "cancelled"}
  OBVIOUS
<1> DEFINE Goal == /\ FileFinal'
                   /\ \A id \in TaskId : disk[id].status \in {"completed", "failed"}
                          => disk'[id].status \in {"completed", "failed", "cancelled"}
<1>1. CASE Start
  <2>1. \A id \in TaskId : disk[id].status \in {"completed", "failed"} => tasks'[id] = NoTask
    BY <1>1 DEF Start, Loaded
  <2> QED BY <1>1, <2>1 DEF Start, FileFinal, NoTask, Armed
<1>2. CASE StopJoined \/ Crash
  <2>1. disk' = disk /\ execPc' = "exited" /\ \A id \in TaskId : tasks'[id] = NoTask
    BY <1>2 DEF StopJoined, Crash, ProcessGone
  <2> QED BY <2>1 DEF FileFinal, NoTask, Armed
<1>3. CASE Stop \/ SchedLoop \/ SchedScan \/ SchedWait \/ SchedWoken \/ SchedTimeout \/ Tick
           \/ UNCHANGED vars
  <2>1. /\ tasks' = tasks /\ disk' = disk /\ curId' = curId /\ copy' = copy
        /\ execPc' \in {execPc, "lock"}
    BY <1>3 DEF Stop, SchedLoop, SchedScan, SchedWait, SchedWoken, SchedTimeout, Tick, vars,
                execVars, NotifyExecutor
  <2> QED BY <2>1 DEF FileFinal
<1>4. CASE ExecLoop \/ ExecEmpty \/ ExecSleep \/ ExecSpurious \/ ExecSkip \/ ExecPop
  <2>1. tasks' = tasks /\ disk' = disk /\ execPc' # "run"
    BY <1>4 DEF ExecLoop, ExecEmpty, ExecSleep, ExecSpurious, ExecSkip, ExecPop, execRest
  <2> QED BY <2>1 DEF FileFinal
<1>5. CASE ExecBegin
  <2>1. tasks' = tasks /\ disk' = disk /\ curId' = curId /\ copy' = tasks[curId]
    BY <1>5 DEF ExecBegin, execRest
  <2> QED BY <2>1 DEF FileFinal
<1>6. ASSUME NEW id \in TaskId, SchedFire(id) PROVE Goal
  <2> DEFINE f == Fired(tasks[id])
  <2>1. /\ f \in Task
        /\ Once(tasks[id]) => f.status = "completed"
        /\ ~Once(tasks[id]) => f.status = tasks[id].status
    BY FiredType DEF TypeOK
  <2>2. /\ tasks' = [tasks EXCEPT ![id] = f] /\ SaveTask(id, f) /\ curId' = curId
        /\ execPc' \in {execPc, "lock"} /\ copy' = copy /\ tasks[id].status = "active"
    BY <1>6 DEF SchedFire, NotifyExecutor, ScanActive
  <2> HIDE DEF f
  <2>3. disk[id].status \notin {"completed", "failed"}
    BY <2>2 DEF FileFinal, Armed
  <2>4. f.status \in {"completed", "failed"} => ~InHand(id)
    BY <2>1, <2>2 DEF HandInv, HandedOver, Waiting, Armed
  <2>5. f.status \in {"completed", "failed"} /\ execPc' = "run" => curId # id
    BY <2>2, <2>4 DEF InHand
  <2>6. FileFinal'
    BY <2>1, <2>2, <2>3, <2>5, FinalStore
  <2>7. \A x \in TaskId : x # id => disk'[x] = disk[x]
    BY <2>2 DEF SaveTask, TypeOK
  <2> QED BY <2>3, <2>6, <2>7
<1>7. ASSUME NEW o \in Outcomes, ExecFinish(o) PROVE Goal
  <2> DEFINE t == Executed(copy, o)
  <2>1. execPc = "run" /\ execPc' = "top" /\ curId' = curId /\ curId \in TaskId
    BY <1>7 DEF ExecFinish, TypeOK
  <2>2. Present(curId)
    BY <2>1 DEF HandInv, HandedOver, Waiting, InHand, Present
  <2>3. tasks' = [tasks EXCEPT ![curId] = t] /\ SaveTask(curId, t)
    BY <1>7, <2>2 DEF ExecFinish
  <2>4. t \in Task /\ t.status \in {"failed", copy.status}
    BY <2>1, FinishRecord
  <2>5. copy.status \in Statuses \ {"cancelled"}
    BY <2>1 DEF HandInv, CopyCurrent, TypeOK, Task
  <2> HIDE DEF t
  <2>6. disk[curId].status \in {"completed", "failed"} => t.status \in {"completed", "failed"}
    BY <2>1, <2>4, <2>5 DEF FileFinal, Armed, Statuses
  <2>7. FileFinal'
    BY <2>1, <2>3, <2>4, <2>6, FinalStore DEF Armed
  <2>8. \A x \in TaskId : disk'[x] = disk[x] \/ (x = curId /\ disk'[x] = t)
    BY <2>1, <2>3 DEF SaveTask, TypeOK
  <2> QED BY <2>6, <2>7, <2>8
<1>8. ASSUME NEW id \in TaskId, NEW e \in Exprs, CreateTask(id, e) PROVE Goal
  <2> DEFINE t == [NoTask EXCEPT !.sch = ParseSchedule(e), !.status = "active",
                     !.nextRun = ComputeNextRun(ParseSchedule(e), ParseSchedule(e).at, now)]
  <2>1. t \in Task /\ t.status = "active"
    BY CreatedType DEF TypeOK, NoTask
  <2>2. /\ tasks' = [tasks EXCEPT ![id] = t] /\ SaveTask(id, t) /\ curId' = curId
        /\ execPc' = execPc /\ copy' = copy /\ disk[id] = NoTask
    BY <1>8 DEF CreateTask, execVars
  <2> HIDE DEF t
  <2>3. disk[id].status = "absent"
    BY <2>2 DEF NoTask
  <2>4. FileFinal'
    BY <2>1, <2>2, <2>3, FinalStore
  <2>5. \A x \in TaskId : x # id => disk'[x] = disk[x]
    BY <2>2 DEF SaveTask, TypeOK
  <2> QED BY <2>3, <2>4, <2>5
<1>9. ASSUME NEW id \in TaskId, CancelTask(id) PROVE Goal
  <2> DEFINE t == [tasks[id] EXCEPT !.status = "cancelled"]
  <2>1. t \in Task /\ t.status = "cancelled"
    BY DEF TypeOK, Task, Statuses
  <2>2. /\ tasks' = [tasks EXCEPT ![id] = t] /\ SaveTask(id, t) /\ curId' = curId
        /\ execPc' = execPc /\ copy' = copy
    BY <1>9 DEF CancelTask, execVars
  <2> HIDE DEF t
  <2>3. FileFinal'
    BY <2>1, <2>2, FinalStore DEF Armed
  <2>4. \A x \in TaskId : disk'[x] = disk[x] \/ (x = id /\ disk'[x] = t)
    BY <2>2 DEF SaveTask, TypeOK
  <2> QED BY <2>1, <2>3, <2>4
<1> QED
  BY <1>1, <1>2, <1>3, <1>4, <1>5, <1>6, <1>7, <1>8, <1>9 DEF Next, SchedStep, ExecStep

\* A task file that says completed or failed never says active again, whether
\* or not saves succeed: the worker's copy of such a task is not armed, and
\* LoadTasks leaves it out.
THEOREM TerminalIsFinalAlways == Spec => TerminalIsFinal
<1> DEFINE Inv == TypeOK /\ ScanActive /\ DownEmpty /\ HandInv /\ FileFinal
           Final == \A id \in TaskId : disk[id].status \in {"completed", "failed"}
                        => disk'[id].status \in {"completed", "failed", "cancelled"}
<1>1. Init => FileFinal
  BY DEF Init, FileFinal, NoTask
<1>2. Spec => []Inv
  BY <1>1, FinalStep, HandAlways, PTL DEF Spec
<1>3. Inv /\ [Next]_vars => [Final]_vars
  BY FinalStep
<1>4. Spec => [][Final]_vars
  BY <1>2, <1>3, PTL DEF Spec
<1> QED BY <1>4 DEF TerminalIsFinal
=============================================================================

# snail-job in TLA+

snail-job is a distributed cron job scheduler in Java. An *admin* server keeps jobs in a
MySQL table, decides when each is due and posts a run request to one of the *executors*
registered for the job's app; an executor runs the job in a thread and posts the result
back. This directory holds TLA+ modules that model the code under `src/`, TLC
configurations that check them on small instances, and proofs checked by TLAPS.

Paths below are relative to `src/`; `A/` stands for
`admin/src/main/java/com/snailwu/job/admin/` and `C/` for
`core/src/main/java/com/snailwu/job/core/`.

## 1. The system

| Component | State | Operations | Talks to |
|---|---|---|---|
| **Scheduler** `A/core/thread/JobScheduleHelper` | the static ring `TRIGGER_JOB_MAP` (second of the minute -> set of jobs), two threads and their locals | `scanJob` (every 5 s: rows due within 10 s go to the pool or the ring, rows written back), `triggerJob` (every second: take the slot of the last and of this second, push), `start`, `stop` | `job_info`, trigger pool |
| **InfoService** `A/service/InfoService` | the table `job_info` | `start`, `stop`, `saveOrUpdate`, `delete`, `copy`; `exec` of the controller | the scheduler, through the table |
| **Trigger pool / JobTrigger** `A/core/thread/JobTriggerPoolHelper`, `A/core/trigger/JobTrigger` | queue of 1000, up to 200 threads; a row of `job_log` per trigger | `push`; a trigger: look up, insert the log, route, post, write the result | executors, `job_log` |
| **Fail monitor** `A/core/thread/JobFailMonitorHelper`, `A/core/alarm` | a list of log rows | every second: for each row without success push a retry, alarm, set the alarm status | `job_log`, pool |
| **AdminBizImpl, LogService** `A/service` | `job_log`, `job_executor` | `callback`, `registry`, `remove`; `deleteByTime`, `killTrigger` | executors |
| **Executor** `C/executor/JobExecutor`, `C/biz/impl/ExecutorBizImpl`, `C/thread/JobThread` | repository of job threads, per thread a queue and a set of log ids | `run`, `kill`, `idleBeat`, `beat`; the thread's loop with timeout | callback thread |
| **Callback thread** `C/thread/CallbackThread` | queue of results | add, post, drain at stop | admin |
| **Registry** `C/thread/RegistryNodeThread`, `A/core/thread/ExecutorMonitorHelper` | `job_executor`, addresses in `job_app` | heartbeat, remove, delete dead nodes, rebuild addresses | |
| **Routing** `A/core/route` | the list a trigger works through | first, last, failover (beat), busyover (idleBeat) | executors |
| **CronExpression** `A/core/cron` | sets of seconds, minutes, ... of one expression | parse, `getTimeAfter` | scheduler, InfoService |
| **Log report** `A/core/thread/JobLogReportHelper` | `job_log_report` | count the day's rows | dashboard |
| **HTTP transport** `C/server`, `C/utils/JobHttpUtil`, `C/biz/client` | whether the server is up | post with a timeout, dispatch by URI | between admin and executors |
| UI, models, configuration | none of their own | I/O | |

What is hard, and what correctness means for each:

* *Scheduler.* Two threads share the ring without a lock; the scan works on a snapshot of
  rows that web threads change; the process may die between a push and the row's update.
  Correct: every occurrence of a running job is pushed once, not before its second, and on
  time; a stopped job stays stopped.
* *Trigger, log, monitor.* Four kinds of thread write columns of the same row. Correct: a
  failure is retried, at most as often as configured, a success is not; a result once
  recorded stays; no row stays open.
* *Executor, callback.* Runs execute in threads of their own, may time out or hang; results
  go through a queue that one thread empties, also while the executor stops. Correct: a
  request accepted is reported on, once and truly.
* *From trigger to result.* A trigger posts to a list of addresses that is as old as its
  look-up, each post may fail or stay without an answer, and the executor behind it may stop
  or die at any point. Correct: one executor at most runs the request, the row says what
  became of it, a trigger always ends, and a router that looks for an executor finds one
  that is there.
* *Registry.* Heartbeats race the removal of dead nodes. Correct: a live node is in its
  app's address list before long, a dead one leaves it.
* *Cron.* Carries, ends of months, leap years. Correct: `getTimeAfter` is the least later
  second that matches.

`PROJECT.json` lists the hazards at their lines.

## 2. Modules

| Module | What it is |
|---|---|
| `CronFire` | abstract: what a cron scheduler promises of its pushes |
| `Scheduler` | `JobScheduleHelper` + `InfoService` + `job_info` + the life of the process |
| `SchedulerInv` | its inductive invariants: `EarlyInv`, `OnceInv`, `MatchInv`, `TimelyInv`, `SkipInv` |
| `SchedulerProofs` | type correctness, and that nothing is pushed early, proved |
| `SchedulerOnceProofs` | at-most-once, and that it implements `CronFire`, proved |
| `SchedulerTimeProofs` | that pushes are on time and none is left out, proved |
| `MCScheduler` | instances for TLC |
| `RetryPolicy` | abstract: what a retry count promises |
| `TriggerLog` | pool + `JobTrigger` + `job_log` + monitor + callback + deletions |
| `TriggerLogInv` | its inductive invariant |
| `TriggerLogProofs` | types, retries and results, and that it implements `RetryPolicy`, proved |
| `MCTriggerLog` | instances for TLC |
| `GregorianCalendar` | `java.util.GregorianCalendar` as far as it is used: lenient fields, leap years, days of the week |
| `CronMeaning` | what an expression means, from the comment that heads the class: no parsing, no search |
| `CronExpression` | the constructor and `getTimeAfter` |
| `CronProofs` | that the constructor makes the sets an expression means, and that `getTimeAfter` finds the next instant, proved |
| `MCCron` | expressions and dates for TLC |
| `ExecutorRole` | abstract: what the admin relies on in an executor: no report but of what it took, and at most one |
| `Executor` | `ExecutorBizImpl`, `JobExecutor`, `JobThread`, `CallbackThread` |
| `ExecutorInv` | its inductive invariant |
| `ExecutorProofs` | true reports, the drain at stop, and that it implements `ExecutorRole`, proved |
| `Routing` | `ExecRouter` and its four strategies |
| `Dispatch` | the composition: `JobTrigger.doTrigger`, `Routing`, the posts, `Executor`, `callback` |
| `DispatchInv` | its inductive invariant, which contains `Executor`'s |
| `DispatchProofs` | the same of the composition, the row and failover, proved |
| `MCDispatch` | an instance for TLC |
| `Registry` | `RegistryNodeThread`, `registry` and `remove`, `ExecutorMonitorHelper`, `AppService` |
| `RegistryInv` | its inductive invariant |
| `RegistryProofs` | types and the age of the address lists, proved |
| `MCRegistry` | an instance for TLC |

### Scheduler

| Model | Code |
|---|---|
| `row[j]` | the row of `job_info`: status, last and next time, cron; `FRESH` and `GONE`: no row (never inserted, deleted) |
| `ring` | `TRIGGER_JOB_MAP`; an entry also carries its occurrence, which the code does not keep. It is history: no guard reads it. Two entries of one job in one slot are one element of the code's set, which is why `TrigPush` pushes them together |
| `scanPc`, `nowTime`, `picked`, `jobInfos`, `mem`, `cur`, `held` | where the scan thread is, and its locals; `held` says whether the set `computeIfAbsent` returned is still in the map, is being iterated by the trigger thread, or is lost |
| `trigPc`, `trigNow`, `jobIds` | the trigger thread; what it took and has still to push |
| `starting[j]` | a call of `InfoService.start` between its select and its update |
| `pushed`, `since` | history: the pushes, and the occurrence from which a running job owes them |

`ScanSelect`, `ScanMissed`, `ScanDueNow`, `ScanLater`, `ScanGetSet`, `ScanAdd`,
`ScanNextJob`, `ScanUpdates`, `ScanUpdate`, `ScanRest` are `scanJob` line by line, with a
step wherever another thread can be seen: each database call, `computeIfAbsent` and the
`add` after it. `TrigRead`, `TakePrevious`, `TakeCurrent`, `TrigPush`, `TrigRest` are
`triggerJob`. `ScanException` and `TrigException` are the catch clauses of `start`.
`HashSet` is not thread safe; `ScanAdd` allows what an addition to a set under iteration
may come to (seen, not seen, `ConcurrentModificationException`). `ScanException` has no point while
missed jobs are moved on: that branch touches neither the pool nor the database, and an expression
whose search throws is no element of `Crons`.

Time is in whole seconds, as the code computes. `TrigLag`, `ScanLag`, `StartLag` bound how
late a thread may be: 0 is "within the second", a large value is "any delay". A step of
`Tick` is refused only where it would exceed these bounds.

### TriggerLog

| Model | Code |
|---|---|
| `job[j]` | exists, `exec_fail_retry_count`, has an alarm address |
| `log[l]` | the row: trigger and exec code, retry count, alarm status; `there` is FALSE once deleted, `parent` is history (the row a retry repeats) |
| `queue`, `worker` | the pool: tasks, and each thread's place in `JobTrigger` |
| `exec`, `callbacks` | the executor's part in a row; calls of `callback` between their two statements |
| `monPc`, `monLogs`, `monLog`, `monInfo`, `monStatus` | the monitor's loop and locals: the copies of rows still to be looked at, which it takes in order of their ids, the one it is at, its job and its new status |

`TriggerLookUp/Insert/Send/Reply/Result` are `trigger`, `doTrigger` and `process`;
`CallbackRead/Write` is `callback`; `MonSelect/LookUp/Retry/Alarm/Update/Rest` is the
monitor's `run`; `MonReject` is the two exceptions its loop can throw by itself
(`RejectedExecutionException`, `NullPointerException` at line 47), `MonException` and
`TriggerException` a failing database call, `Restart` the end of the process.

### CronExpression

| Model | Code |
|---|---|
| `text` | the expression: for each field its terms, without the characters. A term of numbers is what the scanner passes to `addToSet` |
| `expr` | the sets and flags of the object; `AllSpec` and `NoSpec` are the markers 99 and 98 in the sets |
| `cl`, `after` | `getTimeAfter`'s calendar, in seconds, and its argument |
| `pc` | construction, search, and how they ended |

`Build` and `Reject` are `buildExpression` with `storeExpressionVals`, `checkNext` and
`addToSet`. Every iteration of the search ends in one action: the `continue` of a field
(`NextMinute`, `NextHour`, `NextDay`, `NextMonth`, `NextYear`), one of the `return null`s
(`BeyondEndless`, `BeyondMaxYear`, `RanOutOfYears`), `Found`, or `Throw`. `Aimed` is the
calendar after the second has been set, which every iteration does first;
`DayOfMonthTarget` and `DayOfWeekTarget` are the two day rules.

The expression's meaning is written apart from the code and from another source, the comment that
heads the class: a field names values around its cycle, `aW` names the nearest weekday by distance,
`L-n` the n-th day from the end of the month (`BeforeLast`). For days of the month the comment's table has
1-31 and its text 0 to 31, for months both have 0-11 beside JAN-DEC, and `*/n` is to begin at 0;
`CronMeaning` takes 1-31 and 1-12, and the range's first for `*/n`, which are the code's. `AnswerIsNext` is what `Scheduler` assumes of `getNextValidTimeAfter`: there a cron is a set of
seconds and the next time its least later element. The code answers `L-n` with the day the comment calls
`L-(n+1)`; `AsCoded` is the expression with this difference, its only one, and `AnswerIsNext` speaks of the
meaning of `AsCoded`, which is that of `text` unless it counts back from the last day. `CronInv` is
the search's inductive invariant.

### Executor

| Model | Code |
|---|---|
| `call[l]` | the admin's run request for log `l` |
| `thread[l]` | the `JobThread` that `run` started for it: where it is, `jobQueue` |
| `body[l]` | the handler's execution, in the job thread or, with a timeout, in the `FutureTask`'s |
| `callbackQueue`, `cbPc`, `cbParam`, `cbNext` | `CALLBACK_QUEUE`, the callback thread and its locals; `cbNext` is the iterator of the drain |
| `cbRunning`, `cbInterrupted`, `stopPc` | `running`, the thread's interrupt status, `JobExecutor.stop` |
| `received` | the callbacks that reached the admin |
| `attempted`, `owed`, `overdue` | history |

`RunRefuse`, `RunStartThread`, `RunAddJobQueue` are `ExecutorBizImpl.run`; `Poll`,
`InvokeReturns`, `InvokeTimesOut` are `JobThread.run` with `doInvoke`; `CallbackTake`, `Post`,
`Interrupt`, `Leave`, `Drain` are `CallbackThread`; `StopFlag`, `StopInterrupt`, `StopServer` are
`JobExecutor.stop`; `Restart` is a new process after the old one was killed.

`Executor` has no run of its own: `Dispatch` extends it, checks its properties, and gives its
requests a sender and its results a receiver.

`JOB_THREAD_REPOSITORY` is never written. The model says what follows from that: every run
has a thread of its own that is never stopped, the queue of a thread holds one request, the
check for a repeated log id never finds one, `kill` and `idleBeat` have one answer each.
The branches of the code that a thread in the repository would reach have no action.

### Routing and Dispatch

| Model | Code |
|---|---|
| `route[l]` | the local state of the router of trigger `l`: strategy, addresses not yet tried, the one chosen |
| `trig[l]` | where `doTrigger` is: routing, waiting for the answer of `run`, done |
| `row[l]` | the row of `job_log`: trigger code, address, exec code |
| `callbacks` | calls of `AdminBizImpl.callback` that have arrived |
| `far[l]` | what an executor at another address made of the request |
| `steady` | history: the triggers that have had an executor in their list, up and reachable, from their beginning |

`Dispatch` composes by `EXTENDS Executor` and `INSTANCE Routing`: its actions join one of
`Routing` or `Executor` with what the other side does. `Here` is an address with an
executor in every detail; behind the other addresses are executors that answer or do not, and
report at most once. `First`, `Last`, `FailOver`, `BusyOver`, `NotFound` are the strategies, one
post at a time; `NoAddress`, `PostRunHere`, `PostRunFar`, `PostRunFails`, `RunAnswered`,
`RunUnanswered` are the rest of `doTrigger` with `process`. What a post comes to is in
`MayAnswer` and `MayFail`: the server takes requests until `stop` has ended, and for the triggers
of `Lossy` a request or its answer may be lost or late. An executor that dies between
starting the thread of a request and answering it leaves the call `broken`.

The answer and the update of the row it leads to are one step (`Ends`), and so is `callback`:
what may come between its two statements, another callback of the log or a deletion, is
excluded by `ImplementsSystemRole` or is `TriggerLog`'s, which has the two apart.

### Registry

| Model | Code |
|---|---|
| `up`, `pc`, `timer` | `RegistryNodeThread`: the flag `running`, where the thread is, what is left of its sleep or of its wait for an answer |
| `calls` | calls of `registry` and `remove` the admin works on; `waited` is FALSE once the executor has given up waiting or has died |
| `rows`, `app` | `job_executor` with the age of `update_time`, `job_app` |
| `monPc`, `monTimer`, `monApps`, `monExecutors` | `ExecutorMonitorHelper` and its locals; `monLate` counts how late it is |
| `heard`, `byUser`, `refused` | history: how long ago an executor's row was written, the apps a user wrote after the monitor, whether an update was refused since the last completed pass |
| `rare` | how many posts were lost, passes failed, executors were restarted and apps edited: together `MaxRare` |

Each statement of the admin is a step: `RegistrySelect`, then `RegistryInsert` or
`RegistryUpdate`; `MonDelete`, `MonApps`, `MonExecutors`, `MonUpdate` for each app. Time is counted
down, not up, so that the state space is finite and liveness is checked without an end of time.
`DeadTime` is what the code subtracts from the time, in ticks: 30 ms are 0 ticks of a second.
`MonDelete` deletes every row older than that, and of those of the same second any, since the
fraction decides.

`MonRefused` is the update of an app without executors: `StringUtils.join` of no list is `null`, and
`updateAddressesById` binds it to `addresses`, a column `NOT NULL` without a default. The driver of the
build opens its sessions in `STRICT_TRANS_TABLES`, where MySQL refuses that. The exception ends the pass: the
apps after this one are not written, the next pass begins without the sleep, and the old list stays.
`NoneFor` says when; the apps in `Others` may have executors besides those modelled, and then
the update may go through.

## 3. Runs

Sizes are distinct states; all runs end within four minutes.

| Run | Checks | Instance and bounds |
|---|---|---|
| `SchedulerLive` | `TypeOK`, `AtMostOnce`, `OnTime`, `NoSkip`, `TimelyInv`, `SkipInv`, `StartedFires` | fairness; ring of 6, eight seconds, longer than one turn of the ring, the scan up to a second late; a second row that is empty until a copy or a save fills it; three web operations; 0.8M |
| `SchedulerCrash` | `NotEarly`, `OnceInv`, `EarlyInv`, `MatchInv`, `ImplementsCronFire` | crash, stop and restart at any point, an exception anywhere, two web operations, a cron with two seconds in one slot of the ring; 1.7M |
| `SchedulerStop` | violation of `StopSticks` | one stop during a scan |
| `SchedulerLate` | violation of `MissedIsTaken` | ring of 5, the trigger thread up to a second late, no stop, crash or exception |
| `TriggerFaults` | `TypeOK`, `OnlyFailedRetried`, `TriggerIInv`, `ResultsKept` | two threads, two rows, a crash or a database failure, deletions, lost messages; 0.7M |
| `TriggerLive` | `NoneStaysOpen`, `ImplementsRetryPolicy` | fairness, two threads, queue of 1 (so that the monitor's push is rejected), two pushes, three rows (a run, its retry and one more), no losses; 0.4M |
| `TriggerLostRetry` | violation of `FailureRetried` | two pushes, two threads |
| `TriggerPoison` | violation of `NoneStaysOpen` | two jobs, one of them deleted |
| `CronNext` | `TypeOK`, `FieldsMean`, `AnswerIsNext`, `CronInv`, `Ends` | 94 expressions, 88 dates; 56 000 |
| `Dispatch` | `DispatchTypeOK`, `ReportsTrue`, `DrainedAtEnd`, `RowTrue`, `FailOverFinds`, `DispatchIInv`, `ImplementsRole`, `ImplementsSystemRole`, `RowCompletes` | fairness; two triggers (`MCDispatch`): one routed by failover or busyover, with lost posts, one by first or last, with a timeout and a handler that may hang; a list of two executors, the detailed one second; stop and a kill at any point; 0.3M |
| `Registry` | `TypeOK`, `ListedWereHeard`, `RegistryIInv`, `LiveRegistered` | fairness; one executor, others of its app registered or not, two of its calls at a time, two of the rare events (lost posts, failed passes, restarts, edits of the app), the monitor a tick late; 1.5M |
| `RegistryRefused` | violation of `DeadAreUnlisted` | one executor, the only one of its app; nothing rare |

`SchedulerLive` has the delays under which pushes are on time, `SchedulerCrash` the ends of the
process; any number of jobs that run side by side from the start, and rings and delays of any
size within the bounds below, are not run but proved (section 5).

The ring is small but keeps the code's order of sizes (`ScanSleep < PreRead <=
StartDelay`, `PreRead < Period`): what matters is that the clock passes the ring's end, that
two scans overlap in what they read ahead, and that a job has several occurrences in one
read-ahead. One job is enough where properties speak of one job and the threads' delays
are free, since other jobs only delay them.

The bounds are real limits of what holds:

* `AtMostOnce` needs `StartLag = 0`: when `InfoService.start` takes longer than a second
  between computing the next time and writing it, the scan may have planned that
  occurrence already, from the old row.
* It is promised until a thread fails: a scan that fails after a push and before its
  updates pushes again. `CronFire` says so with its variable `failed`, and `RetryPolicy`
  likewise for a monitor that fails between the push of a retry and the mark. The end of a
  process is no such failure: a row is late by then, and a late row is not pushed but moved on.
* `NotEarly` needs the trigger thread to be less than `Period - PreRead - 1` seconds late, 49
  with the code's sizes: later than that, it takes entries for the next turn of the ring.
* `OnTime` and `NoSkip` need `3 * ScanLag + ScanSleep <= PreRead`: a scan may be late before
  it selects, while it plans, and once more in the sleep before the next. With the code's
  5 and 10 seconds, each may be one second late.
* They also need a trigger thread that does each second's work in it (`TrigLag = 0`). The code
  means to allow for a second's delay (`MissedIsTaken`), and does but for the turn of the ring, which
  is what `SchedulerLate` shows (section 4).
* `NoSkip` and `StartedFires` are checked with one expression. With a second one the model shows
  the counterpart of `SchedulerStop`: a scan that has found the end of a job's expression writes
  `STOPPED` over the row (line 99) although it was edited and started with another
  expression in between, and the start is lost.

In `Dispatch` two triggers are enough for the callback thread to post one result while another
waits, for a drain of two, and for a result that comes during the drain; two addresses are
enough for a router to go on, and the order of the list, the other executor first, is the one in
which it has to. (Lists of one and of none, both orders, every strategy and losses for both
triggers pass the safety properties too, in a longer run that is not kept.) `DrainedAtEnd` speaks
of what was queued when `stop` began: a result that comes after the callback thread has
ended is lost, which the code's order (callback thread first, then the server) makes
possible. `RowCompletes` excepts what leaves a row open in this code: an executor that is
stopped or killed, a post of the result that fails (it is dropped; a TODO in the code), a
handler that returns null (no result is posted) or hangs without a timeout. Nothing closes such a
row later: the monitor looks at trigger codes only.

In `Registry` one executor is modelled, since rows are found, written and deleted per address and a list
is compared with each address by itself; what other executors of its app do to it, to keep the
app's update from being refused, is `Others`. Two calls at a time make two rows of one address possible. The
bound of `ListedWereHeard` is exact: with one tick less TLC finds it violated. It is promised while no
update has been refused since the last completed pass, and again from the next completed pass on: a
refusal leaves every list as it is for as long as the app has no executor, which is what
`RegistryRefused` shows. (Two executors of one app, each with one call at a time, with one lost post
satisfy `ListedWereHeard` and `RegistryIInv` too, in a run of 11M states that is not kept.)

In `CronNext` a minute has 3 seconds, an hour 3 minutes and a day 4 hours, so that every
second of a day can be a start and every second up to the answer can be looked at; the months and the years
2019 to 2023 are real. The expressions are those of every kind the class comment lists, and
some the constructor refuses or should. Left out are `aW` with a above 28 and `L-nW` with n
above 27, whose day may not be in the month: for the second see section 4, and 31W
fires on the 30th of April when 1 May is a Saturday, of which the comment says nothing.

*Fairness.* `Scheduler!FairSpec`: weak fairness of the clock, of each of the two threads
(Java schedules a runnable thread; neither waits for a lock) and of a call of `start` that
has begun. Nothing forces a user to call `InfoService`. `TriggerLog!FairSpec`: each thread
of the pool, the monitor, and an executor that ends what it runs; nobody has to fire a job
or delete one. `Dispatch!DispatchFairSpec`: a trigger that has begun, the web server's callbacks, the job threads,
the callback thread, a `run` or a stop under way, and handlers that do not hang; nobody has to
trigger, stop or kill, no post has to succeed, and the other executors have to do nothing.
`Registry!FairSpec`: the clock, the registry threads, the admin's calls and the monitor;
nobody has to stop, start or edit.

## 4. What the runs found

* `SchedulerStop`: a scan's write-back undoes a concurrent `stop`.
* `TriggerLostRetry`: `selectNeedAlarm` asks for `trigger_code` twice and takes a trigger in
  progress for a failed one: if it fails before the monitor's update, its retries are lost.
* `TriggerPoison`: the failed log of a deleted job makes `info.getAlarmEmail()` throw at
  every pass; the rows after it are never handled.
* `SchedulerLate`: a trigger thread that has missed a second takes its jobs in the next one, as its
  comment says, except at the turn of the minute: `remove(curSecond - 1)` is `remove(-1)` in second 0, and
  the jobs of second 59 are pushed a minute late. In the run the thread reads the clock at 3 and next at 5,
  second 0 of the ring, and the job due at 4 stays. (With the last second of the ring
  excepted, `MissedIsTaken` holds.)
* `RegistryRefused`: the last executor of an app dies, its row is deleted, the update of the app's list is
  refused, and the dead address stays listed. The monitor begins one pass after the other without a
  sleep, and the apps that come after this one are not written any more.

Read in the code and not made a run:

* for `L-28W` the loop of `getTimeAfter` never ends from a date in January of a year whose
  February has 28 days (day 0 of February is 31 January, and from there it goes to 1
  February again);
* a started `JobThread` is never put into the repository: each run of a job leaves one more
  thread behind, and `kill` never finds one;
* an app made manual while a pass is under way has its list overwritten;
* `ExecutorBizClient.idleBeat` posts to `/ideaBeat`, the server serves `/idleBeat` and answers a
  failure to anything else, which the router takes for a busy executor: no trigger of a busyover
  job finds an executor. `Dispatch` has it so (`idleBeatUri`): its busyover triggers all end in `NotFound`;
* `DEAD_TIME` is 30, in seconds by its comment, and is subtracted from milliseconds. Every pass
  deletes all executors but those whose heartbeat fell into its own second, so that an app's
  list is refused or holds less than the executors that live; `DeadTime = 0` of the runs is this;
* a trigger in progress, which `selectNeedAlarm` returns, is alarmed about;
* `L-3`, by the comment of `CronExpression` "the third-to-last day of the calendar month", is
  the fourth-to-last (31 - 3 = 28 in January): with `text` in the place of `AsCoded`, TLC finds
  `AnswerIsNext` violated by it; a list after `W` (`15W,20`) is accepted and all but
  its least day ignored; an `L` in a field that has none is accepted and makes `getTimeAfter`
  throw (`Throw`).

## 5. Proofs

| Theorem | Says, for every value of the constants |
|---|---|
| `SchedulerProofs!TypeCorrect` | `[]TypeOK`, with crashes, exceptions and stops |
| `SchedulerProofs!NothingBeyondTheTurn`, `PushedNotEarly` | `[]EarlyInv`, `[]NotEarly`, with crashes, exceptions and stops |
| `SchedulerOnceProofs!PlansLieAhead`, `PushedAtMostOnce` | `[]OnceInv`, and `[]AtMostOnce` until a thread fails, with crashes and stops |
| `SchedulerOnceProofs!OnlyMatchesPlanned` | `[]MatchInv`: nothing but seconds of an expression is planned or pushed, with crashes, exceptions and edits |
| `SchedulerOnceProofs!SchedulerImplementsCronFire` | `Scheduler` implements `CronFire` |
| `SchedulerTimeProofs!ScansKeepAhead`, `PushedOnTime` | `[]TimelyInv`, `[]OnTime`, of one process whose threads keep up |
| `SchedulerTimeProofs!OwedIsPlanned`, `NothingIsSkipped` | `[]SkipInv`, `[]NoSkip`, of the same process, with one expression |
| `TriggerLogProofs!TriggerInvariant`, `TriggerTyped`, `RetriesFailedRuns` | `[]TriggerIInv`, `[]TypeOK`, `[]OnlyFailedRetried` |
| `TriggerLogProofs!ResultsAreKept` | `ResultsKept`: no step undoes a recorded result, where a run is reported on once |
| `TriggerLogProofs!TriggerImplementsPolicy` | `TriggerLog` implements `RetryPolicy` |
| `ExecutorProofs!ExecutorInvariant`, `ReportsAreTrue`, `StopDrains` | `[]ExecutorIInv`, `[]ReportsTrue`, `[]DrainedAtEnd` |
| `ExecutorProofs!ExecutorImplementsRole` | `Executor` implements `ExecutorRole` |
| `DispatchProofs!DispatchInvariant`, `DispatchTyped`, `RowIsTrue`, `FailOverFindsIt` | `[]DispatchIInv`, `[]DispatchTypeOK`, `[]RowTrue`, `[]FailOverFinds` |
| `DispatchProofs!ExecutorKeepsItsPromises` | what `ExecutorProofs` says holds of the executor inside `Dispatch` |
| `DispatchProofs!DispatchImplementsRole` | admin, routes and all executors together implement one `ExecutorRole` |
| `CronProofs!SetsHoldWhatIsMeant` | `[]FieldsMean`: the sets of an expression that is accepted hold what it means |
| `CronProofs!CronCorrect` | `[]CronInv`, the inductive invariant of `getTimeAfter` |
| `CronProofs!AnswersAreNext` | `AnswerIsNext` of documented expressions: the answer is the least later instant that is meant, where the code's `L-n` is the comment's `L-(n+1)` |
| `CronProofs!AnswersAreMeant` | of documented expressions that do not count back from the last day: the answer is the least later instant the comment's meaning names, with no such correction |
| `CronProofs!CronTyped`, `NeverThrows` | of documented expressions `TypeOK`, and that `getTimeAfter` never throws |
| `RegistryProofs!RegistryInvariant`, `RegistryTyped`, `ListedAreHeard` | `[]RegistryIInv`, `[]TypeOK`, `[]ListedWereHeard`: how old a list may be when no update was refused since the last completed pass, with refusals before it |

The assumptions are those of the modules (`ConstantsAssumption`, `ExecutorAssumption`,
`DispatchAssumption`, `RegistryAssumption`, `CronAssumption`), which TLC evaluates in the runs, and the hypotheses the
theorems of `Scheduler` state, which are the bounds of section 3. `NotEarly` needs
`TrigLag + PreRead + 1 < Period`; at-most-once `StartLag = 0` and, if the process may crash, the
former; the refinement both; `OnTime` and `NoSkip` need `Punctual`, the conditions on delays and
on a process that neither stops nor fails, and `NoSkip` that there is one expression. Each is
satisfied by the runs that check the property. The specifications are `Spec`, without fairness;
in the proofs the bounds of the models (`MaxOps`, `MaxCalls`, `MaxLogs`, ...) are any numbers.

The properties speak of results and are not inductive: each has an invariant that says where the
things may be from which the result comes. Each of these is an invariant of a run.

*Scheduler.* All five invariants of `SchedulerInv` share `ThreadsInv`: types, each entry in its
slot (`SlotsRight`), what the threads' locals may be.

`EarlyInv` adds that no entry of the ring lies beyond `clock + PreRead`. Two entries of one slot are a
`Period` apart, so that what a thread finds in the slot of a second has come, although it may have read
the clock `TrigLag` seconds before.

`OnceInv` says where occurrences may be: the ring, the trigger thread's hands and the pushes of
a job share none (`Apart`), and whatever may still be planned (`RowsAhead` for rows, `MemAhead`
for the scan's copies, `StartsAhead` for a call of `start`) lies after all that is planned
(`Before`). The last needs that nothing beyond `clock + PreRead` is planned (`NoneBeyond`), which
`start`'s delay, at least `PreRead`, stays clear of. After a crash the rows are older than the pushes.
What was pushed had come when the process ended, at `downAt`, by `EarlyInv`; the next process begins a
second later at least (`Alive`), and the rows its scans find behind it are moved on from the current
time without a push. This is why `Before` excepts what lies before `downAt`.

`CronFire` asks of a push that its occurrences have come, are seconds of an expression, and, until
something has failed, are new; `EarlyInv`, `MatchInv` and `OnceInv` say so before each push, and the
other steps are the clock's, a failure's, or none.

`TimelyInv` is about the clock. A scan plans up to `nowTime + PreRead`, and no row it leaves is due
before that; while it sleeps and until it has selected again at most `ScanSleep + 2 * ScanLag`
seconds pass, and a further `ScanLag` until it has worked off its list (`ScansInTime`). So what it
puts into the ring lies ahead of the trigger thread, and that thread has emptied a slot before the
second is over (`EntriesInTime`). The rows found by the first scan, which may be late, are set apart
(`FirstScan`, `Due`).

`SkipInv` says where an occurrence is that a job owes: planned, or not yet passed by the row or, while
a scan has the job, by the scan's copy (`NoneLeftOut`). A write of the scan over an edited row does no
harm, since with one expression the copy has passed nothing the scan did not plan (`CopiesReach`).
The step from one match to the next needs that the next match is the least one later, for which
`SchedulerTimeProofs` proves that a set of numbers that is not empty has a least element.

*Executor.* `ReportsTrue` and `DrainedAtEnd` speak of what the admin has received. The invariant
follows a result on its way: it is in one place at a time (`NotYet`, `OneResult`), the thread that
runs the log, `CALLBACK_QUEUE`, the callback thread's hand (`Hand`: what it took from the queue, or
stands before the drain's iterator), or the admin; it is true in each of them (`AllTrue`); and what
was queued when stop began has been posted or is where the thread will still look (`Owed`). Every
step of the code is a step of `ExecutorRole` or none: taking a request is its acceptance, a report
its reception, which the invariant shows to be the first.

*Dispatch.* Its steps are steps of `Executor` or leave it alone, so that `Executor`'s theorems hold
within it. `DispatchIInv` adds that a request goes to one address (`OneAddress`), which the trigger has
in its hand until it is the row's, that what is on its way from there to the row has been reported
by the executor at that address (`Results`), and that a router whose list has a steady executor
has not gone past it (`Steady`). For `ImplementsSystemRole` the reports of an executor in detail and
of the others are one set.

*TriggerLog.* `OnlyFailedRetried` and `ResultsKept` need that a row is written by the thread that
inserted it (`RowsOwned`) and by one callback (`OneCallback`: an executor reports once on a run, which
`DispatchImplementsRole` proves; `AdminBizImpl.callback` checks and writes in two statements and would
not keep the first of two results by itself), and that the monitor's copy of a row, however
old, says of a failed run what the row says (`Copies`): results do not change, and a retry count
comes with the result. `RetryPolicy` allows one repetition while nothing has failed. For this what
repeats a run is at one place, a thread or a row (`OnePlace`) or, while its job is there, the queue
or the monitor's list (`OnePush`), and the monitor has marked a row when it selects again. Jobs that
are deleted are excepted in `OnePush`: the monitor dies over their rows before it marks them, and
selects and pushes again; but the pool finds no job for such a push, and no second attempt begins.

*Registry.* `ListedWereHeard` bounds how old a list is. A row is as old as its executor's last
heartbeat (`AgesTrue`), which needs that a call that updates a row by its id finds its own
executor's (`CallsApart`); what a pass works with was heard within `DeadTime` and the pass's own time
(`PassFresh`), so that a list is at most one pass, one sleep and one pass old (`ListsFresh`) if that pass was completed. A
refused update ends a pass before all lists are written; `ListsFresh` is given up then (`refused`), while
`PassFresh` goes on to hold of what the next pass has written so far, and when one comes to its end, that
is all lists. A list of
an app that the monitor leaves alone is empty (`NoRowNoList`) or the user's. That ids never run
out, which the type of `rows` needs, is a pigeonhole argument: an executor has at most `MaxCalls` rows, for a row
is inserted by a call that found none (`RowsBounded`).

*CronExpression.* `FieldsMean` compares two ways of reading a range that runs over the end of its
field's cycle: the code lengthens it by the cycle and takes remainders, the meaning counts how far
a value is from the range's start. `OneCycle` gives the remainder of a number that is at most one
cycle off, `AddedInOrder` and `AddedOverEnd` say what the loop adds, and `AddToSetMeans` compares. No
bound on lists, values or steps is needed but the constructor's own, which the proof uses: a value
that `addToSet` did not check (98, the marker for `?`, in a day field) begins no range of that
cycle, and `FieldsMean` excepts it.

`AnswersAreNext` holds of `Documented` expressions: every field has numbers within its bounds or
one special term, and `aW` and `L-nW` name a day that every month has. The constructor accepts more,
of which the comment gives no meaning: a range like 99-70 leaves numbers in a set that are no values of the field,
`a#n` with a above 7 is a day of the week there is not, `0W` aims at the day before the first, an `L` in
a field of time or of months leaves its set empty, so that `getTimeAfter` throws, and of a list with a
`W`, `#` or `?` in it only part is used. 85 of
`CronNext`'s expressions are documented; for the others the run is all there is.
Nothing is assumed of the calendar but `CronAssumption`: the years of the tables begin no earlier than
a field's and go on two years past the one where the loop gives up, searches begin before the last of
them, and a minute, an hour and a day have at least one part and no more than the markers 98 and 99
leave room for. The real lengths are an instance.

The invariant, `CronInv`, says where the search may stand (`Reached`), in terms of `AsCoded`. What is meant and lies behind
the calendar lies in the calendar's month; so a rule may go on to another month only if nothing
that is meant has been passed in this one. Of this month only the rule for `W` passes a day that is meant: it
aims at a day number, from which the nearest weekday may be the day before. Then it takes the
calendar back, which is safe because that weekday is after the day of `after`, and the calendar's
time of day, midnight or the first that is meant, is no later than any that is meant (a rule that moved
the time further would lose it). An iteration first sets the second (`AimedReached`). Then each rule
skips only what is not meant: `MinuteSkips` and `HourSkips` by the carries of the clock, `MonthSkips` and
`YearSkips` by the least later element of a set, and the rules of days one by one, for the six ways
the day fields name days (`NumbersOfMonth` to `NthOfWeek`): each keeps to a day that is meant,
or goes to a later one and passes none (`KeepsDays`). For `W` the least distance has to be the code's
case distinction over Saturdays, Sundays and the ends of months (`NearestIsOne`). If all rules are
content the calendar stands on an instant that is meant, and behind it there is none.

Under it lies the calendar. `MonthStart` adds the days of the years before; that months follow each other
without gaps, and that `DateOf` is its inverse, follows from the formula for leap years (`MultiplesUpTo`,
`MonthLength`, `MonthStarts`), and so no sum over data has to be worked out. Least elements of sets of numbers
come from well-founded induction on a set, which the library states without an operator.

Only model-checked is liveness, which is out of the provers' reach: `StartedFires`, `NoneStaysOpen`,
`RowCompletes`, `LiveRegistered`, and `Ends`, that the search comes to an end; and, of expressions that
are not documented, `AnswerIsNext` and `TypeOK`.

## 6. Not modelled, and assumptions

* In `Scheduler` a cron expression is a set of seconds (`Occ`) with `getNextValidTimeAfter` as
  its least later element, which `CronNext` checks and `AnswersAreNext` proves of documented
  expressions (for `L-n`, of what the code takes it for); a `ParseException` is the empty set's
  case (`STOPPED`).
* `CronExpression`: whole seconds. `getTimeAfter` compares, for `W`, a time that has the
  milliseconds of the clock with one that has the caller's; within that second the
  outcome depends on both. No daylight saving: `setCalendarHour`'s second `set` never
  happens.
* One admin process. The table `job_lock` exists and is never used; two admins would each
  push every occurrence.
* The database executes one statement atomically, and adapts values instead of refusing them. A
  NULL bound to a column that is `NOT NULL DEFAULT x` is taken to leave `x`: the code relies on
  it (`JobTrigger` inserts a log with two fields, `updateTriggerResultById` writes the message of a
  success, which is null, `saveOrUpdate` writes a form without trigger fields). A message longer than its
  column is cut. MySQL does so for updates unless it is in strict mode, in which the build's driver
  opens its sessions by default; it refuses a NULL in the insert in any mode, and then no row of
  `job_log` is ever written and there is no dispatch to speak of. The list of an app without executors,
  NULL bound to `job_app.addresses`, a `NOT NULL` column without a default, is modelled as strict mode
  has it: refused.
* `Dispatch`: a restart of the executor is one step, and the update of `callback` does not fail
  (failures of the database are `TriggerLog`'s). The address list is any of `Lists`; that it is
  what `Registry` maintains is not composed.
* The pool has all its threads alive (it grows to 200 only when the queue is full; with
  fewer, tasks wait longer). The monitor's list is in order of id: the query has no
  `ORDER BY`, and the table is read along its key.
* No `JobAlarm` bean is registered (`EmailAlarm`'s annotation is commented out), so an alarm
  comes to `ALARM_FAIL`; `AlarmResults` is a parameter.
* *Log report.* One thread counts the rows of the day into `job_log_report` every minute. No
  code of the repository reads the table, no comment says when its counts are final, and the
  thread touches nothing another one reads.
* *HTTP transport.* Modelled is what it does to a message. Left out are Netty, the connection
  pool of the client, the access token and JSON.
* The UI's templates, controllers that only query, models and configuration. The JavaScript of the
  repository (`admin/src/main/resources/static`) is minified third-party code (layui, jQuery) and no
  part of the scheduler; the program is written in Java.

## 7. Plan

Done: `Scheduler` with `CronFire` and its proofs, `TriggerLog` with `RetryPolicy`, `CronExpression`
against `CronMeaning`, `Executor` with `ExecutorRole`, `Registry`, `Routing`, and `Dispatch`, which
composes trigger, routing, executor and callback.

Proved is every safety property of `Scheduler`, `TriggerLog`, `Executor`, `Dispatch` and `Registry` that a
passing run checks, and their refinements of `CronFire`, `RetryPolicy` and `ExecutorRole`; of `CronExpression`,
the constructor for every expression it accepts and the search for the documented ones. Left are
`NoSkip` with several expressions where edits of a running job are excluded, and a variant function for
`Ends`, which would have to count how often the calendar goes back in a month.

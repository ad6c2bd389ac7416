----------------------------- MODULE TriggerLog -----------------------------
(***************************************************************************)
(* What becomes of a push: the trigger pool (JobTriggerPoolHelper), the    *)
(* trigger its threads run (JobTrigger), the rows of job_log it leaves,    *)
(* the callback that completes a row (AdminBizImpl.callback), the thread   *)
(* that alarms about failed rows and pushes their retries                  *)
(* (JobFailMonitorHelper), and the clean-up of the log (LogService).       *)
(*                                                                         *)
(* The pool has all the threads it may have, as after a burst of work.     *)
(* An executor is external: it takes a request or not, runs it, and posts  *)
(* one callback, and any message of the two may be lost.  The tables       *)
(* job_app and the routes are free: a trigger may find no app, no address, *)
(* or an address.                                                          *)
(***************************************************************************)
EXTENDS Integers, Sequences

CONSTANTS
  Jobs,        \* ids of job_info
  Workers,     \* threads of the trigger pool; 200 in the code
  QueueCap,    \* capacity of its queue; 1000
  MaxRetry,    \* largest exec_fail_retry_count
  AlarmResults,  \* what JobAlarmComposite.alarm may come to: "ALARM_FAIL", as no JobAlarm
                 \* of the repository is registered
  MaxFires,    \* bound: pushes of the scheduler and of the exec button
  MaxLogs,     \* bound: rows of job_log
  MaxFails,    \* bound: failures of a database call, and crashes
  MayLose,     \* may a message between admin and executor be lost?
  MayDelete    \* may jobs and logs be deleted?

ASSUME ConstantsAssumption ==
  /\ Jobs # {} /\ Workers # {}
  /\ {QueueCap, MaxRetry, MaxFires, MaxLogs, MaxFails} \subseteq Nat
  /\ {MayLose, MayDelete} \subseteq BOOLEAN
  /\ AlarmResults # {} /\ AlarmResults \subseteq {"ALARM_SUCCESS", "ALARM_FAIL"}

VARIABLES
  job,         \* the table job_info
  log,         \* the table job_log, by id; a deleted row keeps its place
  queue,       \* the pool's queue
  worker,      \* the pool's threads
  exec,        \* the executor's part in a log: none, accepted or done
  callbacks,   \* calls of AdminBizImpl.callback under way
  monPc,       \* the fail monitor, and its locals: what is left of its list, the
  monLogs, monLog, monInfo, monStatus,   \* element it is at, its job, its new status
  retried,     \* history: logs a retry was pushed for
  fires, fails

executorVars == <<exec, callbacks>>
monVars == <<monPc, monLogs, monLog, monInfo, monStatus>>
bounds  == <<fires, fails>>
vars == <<job, log, queue, worker, executorVars, monVars, retried, bounds>>

Success == 200
Fail == 500
Codes == {0, Success, Fail}
Alarm == {"DEFAULT", "NOT_ALARM", "ALARM_SUCCESS", "ALARM_FAIL"}

Info == [there: BOOLEAN, retry: 0..MaxRetry, email: BOOLEAN]
\* retry: the override of the retry count, -1 for none; parent: the log retried, 0 for none
Task == [job: Jobs, retry: -1..MaxRetry, parent: Nat]
Row  == [there: BOOLEAN, job: Jobs, retry: 0..MaxRetry, trigger: Codes, exec: Codes,
         alarm: Alarm, parent: Nat]
Worker == [pc: {"idle", "insert", "send", "wait", "result"}, job: Jobs, log: Nat,
           retry: 0..MaxRetry, parent: Nat, code: Codes]
Callback == [log: Nat, code: Codes, read: BOOLEAN]
Snapshot == [id: Nat, row: Row]

AnyJob == CHOOSE j \in Jobs : TRUE
Idle == [pc |-> "idle", job |-> AnyJob, log |-> 0, retry |-> 0, parent |-> 0, code |-> 0]
NoInfo == [there |-> FALSE, retry |-> 0, email |-> FALSE]
NoRow == [there |-> FALSE, job |-> AnyJob, retry |-> 0, trigger |-> 0, exec |-> 0,
          alarm |-> "DEFAULT", parent |-> 0]
NoLog == [id |-> 0, row |-> NoRow]

-----------------------------------------------------------------------------
(* The trigger pool *)

\* JobTriggerPoolHelper.push: the queue takes the task, or the pool rejects it
Accepts == Len(queue) < QueueCap
Push(t) == queue' = Append(queue, t)

\* a push by the scheduler, or by InfoController.exec: the job's own retry count holds
Fire(j) ==
  /\ fires < MaxFires /\ fires' = fires + 1
  /\ Accepts /\ Push([job |-> j, retry |-> -1, parent |-> 0])
  /\ UNCHANGED <<job, log, worker, executorVars, monVars, retried, fails>>

-----------------------------------------------------------------------------
(* JobTrigger, in a thread of the pool *)

trigKeeps == <<job, callbacks, monVars, retried, fires>>

\* mutant: an override of -1 is an override
RawOverride(t) == t.retry

\* mutant: an override of 0 is taken for no override
RetryUnlessZero(t) == IF t.retry > 0 THEN t.retry ELSE job[t.job].retry

\* trigger: the retry count of the push, if it has one, goes before the job's
RetryCount(t) == IF t.retry >= 0 THEN t.retry ELSE job[t.job].retry

\* the thread takes a push and looks up the job and its app; without either it is done
TriggerLookUp(w) ==
  /\ worker[w].pc = "idle" /\ queue # << >>
  /\ queue' = Tail(queue)
  /\ LET t == Head(queue) IN
     \/ UNCHANGED worker
     \/ /\ job[t.job].there
        /\ worker' = [worker EXCEPT ![w] = [Idle EXCEPT
             !.pc = "insert", !.job = t.job, !.retry = RetryCount(t), !.parent = t.parent]]
  /\ UNCHANGED <<trigKeeps, log, exec, fails>>

\* mutant: the row is born with its retry count
NewRowWithRetry(w) ==
  [there |-> TRUE, job |-> worker[w].job, retry |-> worker[w].retry, trigger |-> 0,
   exec |-> 0, alarm |-> "DEFAULT", parent |-> worker[w].parent]

\* doTrigger saves a row with the job only; the other columns have their defaults
NewRow(w) ==
  [there |-> TRUE, job |-> worker[w].job, retry |-> 0, trigger |-> 0,
   exec |-> 0, alarm |-> "DEFAULT", parent |-> worker[w].parent]

TriggerInsert(w) ==
  /\ worker[w].pc = "insert" /\ Len(log) < MaxLogs
  /\ log' = Append(log, NewRow(w))
  /\ exec' = Append(exec, "none")
  /\ worker' = [worker EXCEPT ![w].pc = "send", ![w].log = Len(log) + 1]
  /\ UNCHANGED <<trigKeeps, queue, fails>>

\* route and process: no address, no connection or the executor's refusal is a failure;
\* else the executor has the request and its answer is awaited
TriggerSend(w) ==
  /\ worker[w].pc = "send"
  /\ \/ /\ worker' = [worker EXCEPT ![w].pc = "result", ![w].code = Fail]
        /\ UNCHANGED exec
     \/ /\ worker' = [worker EXCEPT ![w].pc = "wait"]
        /\ exec' = [exec EXCEPT ![worker[w].log] = "accepted"]
  /\ UNCHANGED <<trigKeeps, log, queue, fails>>

\* the answer arrives, or the wait for it times out
TriggerReply(w) ==
  /\ worker[w].pc = "wait"
  /\ \E code \in {Success} \cup (IF MayLose THEN {Fail} ELSE {}) :
       worker' = [worker EXCEPT ![w].pc = "result", ![w].code = code]
  /\ UNCHANGED <<trigKeeps, log, queue, exec, fails>>

\* mutant: updateByPrimaryKey, which writes every column
WholeRow(row, w) ==
  [row EXCEPT !.trigger = worker[w].code, !.retry = worker[w].retry, !.alarm = "DEFAULT",
              !.exec = 0]

\* updateTriggerResultById
WithResult(row, w) ==
  [row EXCEPT !.trigger = worker[w].code, !.retry = worker[w].retry, !.alarm = "DEFAULT"]

TriggerResult(w) ==
  /\ worker[w].pc = "result"
  /\ log' = [log EXCEPT ![worker[w].log] = WithResult(@, w)]
  /\ worker' = [worker EXCEPT ![w] = Idle]
  /\ UNCHANGED <<trigKeeps, queue, exec, fails>>

\* a database call fails, or the job's routing strategy is unknown: push's catch ends it
TriggerException(w) ==
  /\ fails < MaxFails /\ fails' = fails + 1
  /\ worker[w].pc \in {"insert", "send", "result"}
  /\ worker' = [worker EXCEPT ![w] = Idle]
  /\ UNCHANGED <<trigKeeps, log, queue, exec>>

JobTrigger == \E w \in Workers :
  TriggerLookUp(w) \/ TriggerInsert(w) \/ TriggerSend(w) \/ TriggerReply(w) \/ TriggerResult(w)

-----------------------------------------------------------------------------
(* The executor, and its callback *)

\* a request has been run: its callback reaches the admin, or is lost
ExecutorDone(l) ==
  /\ exec[l] = "accepted"
  /\ exec' = [exec EXCEPT ![l] = "done"]
  /\ \/ \E code \in {Success, Fail} :
          callbacks' = callbacks \cup {[log |-> l, code |-> code, read |-> FALSE]}
     \/ MayLose /\ UNCHANGED callbacks
  /\ UNCHANGED <<job, log, queue, worker, monVars, retried, bounds>>

\* AdminBizImpl.callback: a row without a result is looked for ...
CallbackRead(c) ==
  /\ ~c.read
  /\ callbacks' = (callbacks \ {c}) \cup
       (IF log[c.log].there /\ log[c.log].exec = 0 THEN {[c EXCEPT !.read = TRUE]} ELSE {})
  /\ UNCHANGED <<job, log, exec, queue, worker, monVars, retried, bounds>>

\* ... and gets its result, if it is still there
CallbackWrite(c) ==
  /\ c.read
  /\ callbacks' = callbacks \ {c}
  /\ log' = IF log[c.log].there THEN [log EXCEPT ![c.log].exec = c.code] ELSE log
  /\ UNCHANGED <<job, exec, queue, worker, monVars, retried, bounds>>

Executor == \/ \E l \in DOMAIN exec : ExecutorDone(l)
            \/ \E c \in callbacks : CallbackRead(c) \/ CallbackWrite(c)

-----------------------------------------------------------------------------
(* JobFailMonitorHelper *)

monKeeps == <<job, worker, executorVars, fires>>

\* selectNeedAlarm: it asks trigger_code twice and exec_code never
NeedsAlarm(row) == row.there /\ row.alarm = "DEFAULT" /\ row.trigger # Success

MonSelect ==
  /\ monPc = "sleep"
  /\ monLogs' = {[id |-> l, row |-> log[l]] : l \in {k \in DOMAIN log : NeedsAlarm(log[k])}}
  /\ monPc' = "logs"
  /\ UNCHANGED <<monKeeps, log, queue, monLog, monInfo, monStatus, retried, fails>>

\* the list is in the order of the table
MonLookUp ==
  /\ monPc = "logs"
  /\ \E e \in monLogs :
       /\ \A f \in monLogs : e.id <= f.id
       /\ monLog' = e /\ monLogs' = monLogs \ {e}
       /\ monInfo' = job[e.row.job]
  /\ monPc' = "retry"
  /\ UNCHANGED <<monKeeps, log, queue, monStatus, retried, fails>>

MonRetry ==
  /\ monPc = "retry"
  /\ IF monLog.row.retry > 0
     THEN /\ Accepts
          /\ Push([job |-> monLog.row.job, retry |-> monLog.row.retry - 1, parent |-> monLog.id])
          /\ retried' = retried \cup {monLog.id}
     ELSE UNCHANGED <<queue, retried>>
  /\ monPc' = "alarm"
  /\ UNCHANGED <<monKeeps, log, monLogs, monLog, monInfo, monStatus, fails>>

MonAlarm ==
  /\ monPc = "alarm" /\ monInfo.there
  /\ IF monInfo.email
     THEN monStatus' \in AlarmResults
     ELSE monStatus' = "NOT_ALARM"
  /\ monPc' = "update"
  /\ UNCHANGED <<monKeeps, log, queue, monLogs, monLog, monInfo, retried, fails>>

\* mutant: a job without an address for alarms keeps its log in the default status
StatusOrDefault == IF monStatus = "NOT_ALARM" THEN "DEFAULT" ELSE monStatus

NewAlarmStatus == monStatus

\* updateAlarmStatusById
MonUpdate ==
  /\ monPc = "update"
  /\ log' = IF log[monLog.id].there THEN [log EXCEPT ![monLog.id].alarm = NewAlarmStatus]
            ELSE log
  /\ monLog' = NoLog /\ monPc' = "logs"
  /\ UNCHANGED <<monKeeps, queue, monLogs, monInfo, monStatus, retried, fails>>

MonReset ==
  /\ monPc' = "sleep" /\ monLogs' = {} /\ monLog' = NoLog
  /\ monInfo' = NoInfo /\ monStatus' = "DEFAULT"

MonRest ==
  /\ monPc = "logs" /\ monLogs = {}
  /\ MonReset
  /\ UNCHANGED <<monKeeps, log, queue, retried, fails>>

\* the pool rejects the retry, or the job is gone (NullPointerException): the rows
\* that come later in the list have to wait for the next one
MonReject ==
  /\ \/ monPc = "retry" /\ monLog.row.retry > 0 /\ ~Accepts
     \/ monPc = "alarm" /\ ~monInfo.there
  /\ MonReset
  /\ UNCHANGED <<monKeeps, log, queue, retried, fails>>

\* a database call fails
MonException ==
  /\ fails < MaxFails /\ fails' = fails + 1
  /\ (monPc = "logs" /\ monLogs # {}) \/ monPc = "update"
  /\ MonReset
  /\ UNCHANGED <<monKeeps, log, queue, retried>>

Monitor == MonSelect \/ MonLookUp \/ MonRetry \/ MonAlarm \/ MonUpdate \/ MonRest \/ MonReject

-----------------------------------------------------------------------------
(* The web, and the process *)

\* InfoService.delete
DeleteJob(j) ==
  /\ MayDelete /\ job[j].there
  /\ job' = [job EXCEPT ![j].there = FALSE]
  /\ UNCHANGED <<log, queue, worker, executorVars, monVars, retried, bounds>>

\* LogService.deleteByTime: the rows S whose trigger time is in a range, which only a row
\* with a trigger result has
DeleteLogs(S) ==
  /\ MayDelete
  /\ S # {} /\ \A l \in S : log[l].there /\ log[l].trigger # 0
  /\ log' = [l \in DOMAIN log |-> [log[l] EXCEPT !.there = @ /\ l \notin S]]
  /\ UNCHANGED <<job, queue, worker, executorVars, monVars, retried, bounds>>

\* stopAll's shutdownNow, or the end of the process by any other means, and a new one:
\* what was pushed and not yet done is gone
Restart ==
  /\ fails < MaxFails /\ fails' = fails + 1
  /\ queue' = << >> /\ worker' = [w \in Workers |-> Idle] /\ callbacks' = {}
  /\ MonReset
  /\ UNCHANGED <<job, log, exec, retried, fires>>

Init ==
  /\ job \in [Jobs -> {i \in Info : i.there}]
  /\ log = << >> /\ exec = << >>
  /\ queue = << >> /\ worker = [w \in Workers |-> Idle] /\ callbacks = {}
  /\ monPc = "sleep" /\ monLogs = {} /\ monLog = NoLog /\ monInfo = NoInfo /\ monStatus = "DEFAULT"
  /\ retried = {} /\ fires = 0 /\ fails = 0

Next ==
  \/ JobTrigger \/ Executor \/ Monitor \/ MonException \/ Restart
  \/ \E w \in Workers : TriggerException(w)
  \/ \E j \in Jobs : Fire(j) \/ DeleteJob(j)
  \/ \E S \in SUBSET DOMAIN log : DeleteLogs(S)

Spec == Init /\ [][Next]_vars

\* every thread of the pool runs, the monitor runs, an executor ends what it runs
FairSpec ==
  /\ Spec
  /\ \A w \in Workers : WF_vars(TriggerInsert(w) \/ TriggerSend(w) \/ TriggerReply(w)
                                  \/ TriggerResult(w))
  /\ WF_vars(\E w \in Workers : TriggerLookUp(w))
  /\ WF_vars(Executor) /\ WF_vars(Monitor)

-----------------------------------------------------------------------------
TypeOK ==
  /\ job \in [Jobs -> Info]
  /\ log \in Seq(Row) /\ Len(log) = Len(exec)
  /\ queue \in Seq(Task) /\ worker \in [Workers -> Worker]
  /\ exec \in Seq({"none", "accepted", "done"}) /\ callbacks \subseteq Callback
  /\ monPc \in {"sleep", "logs", "retry", "alarm", "update"}
  /\ monLogs \subseteq Snapshot /\ monLog \in Snapshot /\ monInfo \in Info /\ monStatus \in Alarm
  /\ retried \subseteq Nat /\ fires \in Nat /\ fails \in Nat

\* A run is retried because it failed: no push repeats a trigger that succeeded, or one
\* whose result is still open, however old the snapshot the monitor works from.
OnlyFailedRetried ==
  \A l \in retried : log[l].trigger = Fail

\* The two halves of a row are written by different threads in either order, the result of
\* the trigger by the pool, that of the run by the callback: neither undoes the other, and
\* neither result, once there, changes.
ResultsKept ==
  [][\A l \in DOMAIN log :
       /\ log[l].trigger # 0 => log'[l].trigger = log[l].trigger
       /\ log[l].exec # 0 => log'[l].exec = log[l].exec]_vars

\* The retries keep to the job's retry count: a failed run is repeated with one retry less
\* left, and at most once unless the process or the database has failed meanwhile.
Policy == INSTANCE RetryPolicy WITH
  Budget <- 0..MaxRetry,
  attempts <- [l \in DOMAIN log |-> [of |-> log[l].parent, left |-> log[l].retry,
                                    outcome |-> log[l].trigger]],
  failed <- fails > 0
ImplementsRetryPolicy == Policy!Spec

\* No row stays open: its trigger gets a result, a success that of the run, and a failure
\* is dealt with by the monitor, as long as its job exists.
Open(l) ==
  /\ l \in DOMAIN log /\ log[l].there /\ job[log[l].job].there
  /\ log[l].trigger = Success => log[l].exec = 0
  /\ log[l].trigger = Fail => log[l].alarm = "DEFAULT"
NoneStaysOpen == \A l \in 1..MaxLogs : Open(l) ~> ~Open(l)

\* db.sql:50, the job's retry count "失败重试次数": a failed run with retries left has been
\* retried once the monitor is done with its row.
FailureRetried ==
  \A l \in DOMAIN log :
    log[l].trigger = Fail /\ log[l].retry > 0 /\ log[l].alarm # "DEFAULT" => l \in retried
=============================================================================

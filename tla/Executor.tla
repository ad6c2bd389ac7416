------------------------------ MODULE Executor ------------------------------
(***************************************************************************)
(* A process that runs jobs: its run request (ExecutorBizImpl.run), the    *)
(* threads that run them (JobThread), the thread that posts their results  *)
(* (CallbackThread), and start and stop (JobExecutor).                     *)
(*                                                                         *)
(* JOB_THREAD_REPOSITORY is read and removed from, and nothing puts a      *)
(* thread into it: loadJobThread finds none.  So every run starts a thread *)
(* of its own with an empty queue; that thread is never stopped, since     *)
(* removeAndStopJobThread finds none either; kill answers that there is    *)
(* none, and idleBeat that the executor is idle.  A thread is named by the *)
(* log of the request that started it.                                     *)
(***************************************************************************)
EXTENDS Naturals, Sequences, FiniteSets

CONSTANTS
  Logs,        \* ids of job_log: the admin posts one run request for each
  Timed,       \* those with an execution timeout
  Hanging,     \* those whose handler may never end
  MaxKills     \* bound: times the process is killed and started again

ASSUME ExecutorAssumption ==
  /\ Logs # {}
  /\ Timed \subseteq Logs /\ Hanging \subseteq Logs
  /\ MaxKills \in Nat

VARIABLES
  call,        \* the admin's request
  thread,      \* the JobThreads: pc and jobQueue
  body,        \* the handler's execution for a log
  callbackQueue,               \* CALLBACK_QUEUE, of logs with their results
  cbPc, cbParam, cbNext,       \* the callback thread, what it posts, and when
                               \* it drains: whether there is a next one
  cbRunning, cbInterrupted,    \* its flag, and its interrupt status
  stopPc,      \* JobExecutor.stop
  kills,
  received,    \* the results of each log that reached the admin
  attempted,   \* history: the logs whose result was posted
  owed,        \* history: the logs whose result was queued when stop began
  overdue      \* history: the logs that have timed out

threadVars == <<thread, body>>
cbVars == <<callbackQueue, cbPc, cbParam, cbNext>>
stopVars == <<cbRunning, cbInterrupted, stopPc>>
history == <<attempted, owed, overdue>>
vars == <<call, threadVars, cbVars, stopVars, kills, received, history>>

Success == "SUCCESS"
Fail == "FAIL"
Codes == {Success, Fail}

\* How a handler's execution ends: its result, which it may leave null; an
\* exception is a failure
Outcomes == Codes \cup {"NULL"}

Thread == [pc: {"none", "poll", "invoke"}, jobQueue: Seq(Logs)]
Result == [log: Logs, code: Codes]
NoThread == [pc |-> "none", jobQueue |-> << >>]
NoResult == [log |-> CHOOSE l \in Logs : TRUE, code |-> Fail]   \* of no meaning

-----------------------------------------------------------------------------
(* ExecutorBizImpl.run, in a thread of the server *)

runKeeps == <<body, cbVars, stopVars, kills, received, history>>

\* the admin posts a request, which the server takes unless it has stopped
Arrives(l) == call[l] = "unsent" /\ stopPc # "stopped"

\* no such handler
RunRefuse(l) ==
  /\ Arrives(l)
  /\ call' = [call EXCEPT ![l] = "refused"]
  /\ UNCHANGED <<runKeeps, thread>>

\* registryAndStartJobThread
RunStartThread(l) ==
  /\ Arrives(l)
  /\ call' = [call EXCEPT ![l] = "started"]
  /\ thread' = [thread EXCEPT ![l] = [NoThread EXCEPT !.pc = "poll"]]
  /\ UNCHANGED runKeeps

\* addJobQueue: the thread runs, and has not seen the log
RunAddJobQueue(l) ==
  /\ call[l] = "started"
  /\ call' = [call EXCEPT ![l] = "accepted"]
  /\ thread' = [thread EXCEPT ![l].jobQueue = Append(@, l)]
  /\ UNCHANGED runKeeps

Run(l) == RunRefuse(l) \/ RunStartThread(l) \/ RunAddJobQueue(l)

-----------------------------------------------------------------------------
(* JobThread: a thread t, and the execution of the log it has taken *)

threadKeeps == <<call, cbPc, cbParam, cbNext, stopVars, kills, received, attempted, owed>>

\* mutant: no result is a success
AddCallbackOrSuccess(l, code) ==
  callbackQueue' = Append(callbackQueue, [log |-> l, code |-> IF code = Fail THEN Fail ELSE Success])

\* addCallbackQueue, of a result that is not null
AddCallback(l, code) ==
  callbackQueue' = IF code \in Codes THEN Append(callbackQueue, [log |-> l, code |-> code])
                   ELSE callbackQueue

\* a poll that finds nothing goes on, however often: nobody stops the thread
Poll(t) ==
  /\ thread[t].pc = "poll" /\ thread[t].jobQueue # << >>
  /\ thread' = [thread EXCEPT ![t].pc = "invoke"]
  /\ body' = [body EXCEPT ![Head(thread[t].jobQueue)] = "running"]
  /\ UNCHANGED <<threadKeeps, callbackQueue, overdue>>

\* the handler ends, in this thread or, if timed, in one of its own
HandlerEnds(l) ==
  /\ body[l] = "running"
  /\ \E outcome \in Outcomes : body' = [body EXCEPT ![l] = outcome]
  /\ UNCHANGED <<threadKeeps, thread, callbackQueue, overdue>>

\* the log the thread has taken; the model leaves it at the head of the queue
Taken(t) == Head(thread[t].jobQueue)

Done(t) == [thread EXCEPT ![t].pc = "poll", ![t].jobQueue = Tail(@)]

\* doInvoke returns or throws, and the result is queued for the callback
InvokeReturns(t) ==
  /\ thread[t].pc = "invoke" /\ body[Taken(t)] \in Outcomes
  /\ thread' = Done(t)
  /\ AddCallback(Taken(t), body[Taken(t)])
  /\ UNCHANGED <<threadKeeps, body, overdue>>

\* mutant: get without a timeout
InvokeWaits(t) == FALSE

\* the timeout passes: the handler's thread is interrupted, which it may not heed
InvokeTimesOut(t) ==
  /\ thread[t].pc = "invoke" /\ Taken(t) \in Timed /\ body[Taken(t)] = "running"
  /\ thread' = Done(t)
  /\ AddCallback(Taken(t), Fail)
  /\ overdue' = overdue \cup {Taken(t)}
  /\ UNCHANGED <<threadKeeps, body>>

JobThread(t) == Poll(t) \/ InvokeReturns(t) \/ InvokeTimesOut(t)

-----------------------------------------------------------------------------
(* CallbackThread *)

cbKeeps == <<call, threadVars, stopVars, kills, owed, overdue>>

\* mutant: the result stays at the head of the queue
CallbackPeek ==
  /\ cbPc = "take" /\ ~cbInterrupted /\ callbackQueue # << >>
  /\ cbParam' = Head(callbackQueue)
  /\ cbPc' = "post"
  /\ UNCHANGED <<cbKeeps, callbackQueue, cbNext, received, attempted>>

CallbackTake ==
  /\ cbPc = "take" /\ ~cbInterrupted /\ callbackQueue # << >>
  /\ cbParam' = Head(callbackQueue)
  /\ callbackQueue' = Tail(callbackQueue)
  /\ cbPc' = "post"
  /\ UNCHANGED <<cbKeeps, cbNext, received, attempted>>

\* doCallback: the result reaches the admin, or the post fails and it is dropped
DoCallback(r) ==
  /\ attempted' = attempted \cup {r.log}
  /\ \/ received' = [received EXCEPT ![r.log] = Append(@, r.code)]
     \/ UNCHANGED received

\* then the loop looks at the flag
CallbackPost ==
  /\ cbPc = "post"
  /\ DoCallback(cbParam)
  /\ cbPc' = IF cbRunning THEN "take" ELSE "left"
  /\ cbParam' = NoResult
  /\ UNCHANGED <<cbKeeps, callbackQueue, cbNext>>

\* take is interrupted, which ends the loop
CallbackInterrupt ==
  /\ cbPc = "take" /\ cbInterrupted
  /\ cbPc' = "left"
  /\ UNCHANGED <<cbKeeps, callbackQueue, cbParam, cbNext, received, attempted>>

\* mutant: the iterator does not see the end
HandoutEndless(i) == cbParam' = callbackQueue[i] /\ cbNext' = i + 1

\* the rest is posted in order and stays in the queue; the iterator looks for
\* the next result when it hands one out
Handout(i) == cbParam' = callbackQueue[i] /\ cbNext' = IF i < Len(callbackQueue) THEN i + 1 ELSE 0

\* mutant: the first of the rest is skipped
CallbackLeaveOne ==
  /\ cbPc = "left"
  /\ IF Len(callbackQueue) < 2 THEN cbPc' = "ended" /\ UNCHANGED <<cbParam, cbNext>>
     ELSE cbPc' = "drain" /\ Handout(2)
  /\ UNCHANGED <<cbKeeps, callbackQueue, received, attempted>>

CallbackLeave ==
  /\ cbPc = "left"
  /\ IF callbackQueue = << >> THEN cbPc' = "ended" /\ UNCHANGED <<cbParam, cbNext>>
     ELSE cbPc' = "drain" /\ Handout(1)
  /\ UNCHANGED <<cbKeeps, callbackQueue, received, attempted>>

CallbackDrain ==
  /\ cbPc = "drain"
  /\ DoCallback(cbParam)
  /\ IF cbNext = 0 THEN cbPc' = "ended" /\ cbParam' = NoResult /\ UNCHANGED cbNext
     ELSE UNCHANGED cbPc /\ Handout(cbNext)
  /\ UNCHANGED <<cbKeeps, callbackQueue>>

CallbackThread ==
  CallbackTake \/ CallbackPost \/ CallbackInterrupt \/ CallbackLeave \/ CallbackDrain

-----------------------------------------------------------------------------
(* JobExecutor.start and stop *)

stopKeeps == <<call, threadVars, cbVars, kills, received, attempted, overdue>>

\* CallbackThread.stop: running = false; interrupt; join
StopFlag ==
  /\ stopPc = "no"
  /\ cbRunning' = FALSE /\ stopPc' = "flag"
  /\ owed' = {callbackQueue[i].log : i \in DOMAIN callbackQueue}
  /\ UNCHANGED <<stopKeeps, cbInterrupted>>

StopInterrupt ==
  /\ stopPc = "flag"
  /\ cbInterrupted' = TRUE /\ stopPc' = "join"
  /\ UNCHANGED <<stopKeeps, cbRunning, owed>>

\* stopEmbedServer comes after the callback thread has ended
StopServer ==
  /\ stopPc = "join" /\ cbPc = "ended"
  /\ stopPc' = "stopped"
  /\ UNCHANGED <<stopKeeps, cbRunning, cbInterrupted, owed>>

Stop == StopFlag \/ StopInterrupt \/ StopServer

\* what start leaves
Fresh ==
  /\ thread' = [l \in Logs |-> NoThread]
  /\ callbackQueue' = << >> /\ cbPc' = "take"
  /\ cbParam' = NoResult /\ cbNext' = 0
  /\ cbRunning' = TRUE /\ cbInterrupted' = FALSE /\ stopPc' = "no"

\* the process ends, in whatever state it is, and a new one starts
Restart ==
  /\ kills < MaxKills /\ kills' = kills + 1
  /\ Fresh
  /\ call' = [l \in Logs |-> IF call[l] = "started" THEN "broken" ELSE call[l]]
  /\ body' = [l \in Logs |-> IF body[l] = "running" THEN "killed" ELSE body[l]]
  /\ owed' = {}
  /\ UNCHANGED <<received, attempted, overdue>>

Init ==
  /\ call = [l \in Logs |-> "unsent"]
  /\ thread = [l \in Logs |-> NoThread]
  /\ body = [l \in Logs |-> "none"]
  /\ callbackQueue = << >> /\ cbPc = "take"
  /\ cbParam = NoResult /\ cbNext = 0
  /\ cbRunning = TRUE /\ cbInterrupted = FALSE /\ stopPc = "no"
  /\ kills = 0
  /\ received = [l \in Logs |-> << >>]
  /\ attempted = {} /\ owed = {} /\ overdue = {}

Next ==
  \/ \E l \in Logs : Run(l) \/ HandlerEnds(l) \/ JobThread(l)
  \/ CallbackThread \/ Stop \/ Restart

Spec == Init /\ [][Next]_vars

\* The threads run; a handler ends unless it hangs; a stop that has begun
\* goes on.  Nobody has to post a request, to stop or to kill.
Fairness ==
  /\ WF_vars(CallbackThread) /\ WF_vars(StopInterrupt \/ StopServer)
  /\ \A l \in Logs : WF_vars(RunAddJobQueue(l)) /\ WF_vars(JobThread(l))
  /\ \A l \in Logs \ Hanging : WF_vars(HandlerEnds(l))

-----------------------------------------------------------------------------
(* Properties *)

TypeOK ==
  /\ call \in [Logs -> {"unsent", "started", "accepted", "refused", "broken"}]
  /\ thread \in [Logs -> Thread]
  /\ body \in [Logs -> {"none", "running", "killed"} \cup Outcomes]
  /\ callbackQueue \in Seq(Result)
  /\ cbPc \in {"take", "post", "left", "drain", "ended"}
  /\ cbParam \in Result /\ cbNext \in 0..Len(callbackQueue)
  /\ cbRunning \in BOOLEAN /\ cbInterrupted \in BOOLEAN
  /\ stopPc \in {"no", "flag", "join", "stopped"}
  /\ kills \in 0..MaxKills
  /\ received \in [Logs -> Seq(Codes)]
  /\ attempted \subseteq Logs /\ owed \subseteq Logs /\ overdue \subseteq Logs

\* What the admin is told is what happened: a success only if the handler
\* returned one in time, a failure only if it failed or was over its time,
\* though the handler may go on after the timeout and return something else.
ReportsTrue ==
  \A l \in Logs : \A i \in DOMAIN received[l] :
    IF received[l][i] = Success THEN body[l] = Success /\ l \notin overdue
    ELSE body[l] = Fail \/ l \in overdue

\* "线程被中断后，将剩余的回调任务执行完毕，再退出线程" (CallbackThread:69): what was queued
\* when stop began has been posted when the callback thread has ended.
DrainedAtEnd == cbPc = "ended" => owed \subseteq attempted

\* A result is posted at most once and only for a request that was taken,
\* whichever of the timeout and the handler comes first, across the hand-over
\* from the loop to the drain, and across a restart.
Role == INSTANCE ExecutorRole WITH
  taken <- {l \in Logs : call[l] = "accepted"}, reports <- received
ImplementsRole == Role!Spec
=============================================================================

------------------------------ MODULE Dispatch ------------------------------
(***************************************************************************)
(* From a trigger to its result: JobTrigger.doTrigger routes a run request *)
(* (Routing) over HTTP (ExecutorBizClient, JobHttpUtil, EmbedServer) to an *)
(* executor, the executor runs it and posts its result, and                *)
(* AdminBizImpl.callback writes it into the row of job_log.                *)
(*                                                                         *)
(* One address, Here, is a process in every detail (Executor).  Behind the *)
(* others are executors as the admin sees them: up or not at any time, and *)
(* reporting at most once on what they took; one that refuses a request is *)
(* to the admin as one that is down.  Pool, retries, restarts and          *)
(* deletions of the admin are TriggerLog's.                                *)
(***************************************************************************)
EXTENDS Executor

CONSTANTS
  Addresses,   \* addresses of executors
  Here,        \* the address of the one modelled in detail
  Lists,       \* the lists of addresses the app may have, now or by an older look
  Strategies,  \* per trigger, the strategies its job may have
  Lossy        \* the triggers whose posts to Here, or their answers, may be lost

VARIABLES
  route,       \* Routing's
  trig,        \* doTrigger, in a thread of the pool
  row,         \* the table job_log
  callbacks,   \* calls of AdminBizImpl.callback under way
  far,         \* what became of a request another executor took
  steady       \* history: the triggers still without an address that have Here in their list,
               \* where it has been serving, and no beat to it got lost, since they began

INSTANCE Routing WITH Triggers <- Logs

ASSUME DispatchAssumption ==
  /\ Here \in Addresses /\ Nowhere \notin Addresses /\ Lists \subseteq Seq(Addresses)
  /\ Strategies \in [Logs -> SUBSET Strategy]
  /\ Lossy \subseteq Logs

adminVars == <<route, trig, row, callbacks>>
dispatchVars == <<vars, adminVars, far, steady>>

Row == [trigger: {"NONE"} \cup Codes, address: Addresses \cup {Nowhere}, exec: {"NONE"} \cup Codes]
Trigger == {"none", "route", "wait", "done"}
Callback == [log: Logs, code: Codes]

-----------------------------------------------------------------------------
(* HTTP: what a post to an address comes to *)

\* the embedded server takes requests until stop has ended
Serving == stopPc # "stopped"

\* EmbedHttpServerHandler.doService knows these; to any other it answers a failure
Served == {"/beat", "/idleBeat", "/run", "/kill"}

\* ExecutorBizClient.idleBeat
idleBeatUri == "/ideaBeat"

\* An executor up answers; JobHttpUtil.post returns null where it gets no answer, which
\* readValue turns into an exception
MayAnswer(a) == a = Here => Serving
MayFail(l, a) == a = Here => ~Serving \/ l \in Lossy

\* steady, after a beat of l to a that failed, and after a look at an answer or at the list
AfterFailure(l, a) == steady' = IF a = Here THEN steady \ {l} ELSE steady
AfterLook(l) == steady' = IF route'[l].pc = "chosen" THEN steady \ {l} ELSE steady

-----------------------------------------------------------------------------
(* JobTrigger.doTrigger, in a thread of the pool *)

triggerKeeps == <<callbacks, far>>

\* the row is inserted, the addresses are those of the app looked up before
Start(l) ==
  /\ trig[l] = "none"
  /\ trig' = [trig EXCEPT ![l] = "route"]
  /\ StartRoute(l)
  /\ steady' = IF Serving /\ \E i \in DOMAIN route'[l].left : route'[l].left[i] = Here
               THEN steady \cup {l} ELSE steady
  /\ UNCHANGED <<vars, triggerKeeps, row>>

\* first, last, or no address left
ChooseByList(l) ==
  /\ First(l) \/ Last(l) \/ NotFound(l)
  /\ AfterLook(l)
  /\ UNCHANGED <<vars, triggerKeeps, trig, row>>

\* beat is served, and answers a success
Beat(l) ==
  /\ \/ FailOver(l, TRUE) /\ MayAnswer(NextAddress(l)) /\ AfterLook(l)
     \/ FailOver(l, FALSE) /\ MayFail(l, NextAddress(l)) /\ AfterFailure(l, NextAddress(l))
  /\ UNCHANGED <<vars, triggerKeeps, trig, row>>

\* idleBeat, where it is served, answers a success: loadJobThread finds no thread
IdleBeat(l) ==
  /\ \/ BusyOver(l, idleBeatUri \in Served) /\ MayAnswer(NextAddress(l)) /\ AfterLook(l)
     \/ BusyOver(l, FALSE) /\ MayFail(l, NextAddress(l)) /\ AfterFailure(l, NextAddress(l))
  /\ UNCHANGED <<vars, triggerKeeps, trig, row>>

\* updateTriggerResultById, with the result the trigger has come to; the locals are gone
Ends(l, code) ==
  /\ row' = [row EXCEPT ![l].trigger = code, ![l].address = route[l].address]
  /\ trig' = [trig EXCEPT ![l] = "done"]
  /\ route' = [route EXCEPT ![l] = NoRoute]

\* no address: "无可用的执行器"
NoAddress(l) ==
  /\ trig[l] = "route" /\ route[l].pc = "not_found"
  /\ Ends(l, Fail)
  /\ steady' = steady \ {l}
  /\ UNCHANGED <<vars, triggerKeeps>>

Posting(l, a) == trig[l] = "route" /\ route[l].pc = "chosen" /\ route[l].address = a

\* process: the request arrives, and its answer is awaited ...
PostRunHere(l) ==
  /\ Posting(l, Here)
  /\ RunRefuse(l) \/ RunStartThread(l)
  /\ trig' = [trig EXCEPT ![l] = "wait"]
  /\ UNCHANGED <<triggerKeeps, route, row, steady>>

PostRunFar(l) ==
  /\ \E a \in Addresses \ {Here} : Posting(l, a)
  /\ trig' = [trig EXCEPT ![l] = "wait"]
  /\ far' = [far EXCEPT ![l] = "accepted"]
  /\ UNCHANGED <<vars, callbacks, route, row, steady>>

\* mutant: another executor is tried
RunElsewhere(l) ==
  /\ trig' = [trig EXCEPT ![l] = "route"]
  /\ \E a \in Addresses \ {route[l].address} : Choose(l, a)
  /\ UNCHANGED row

\* what becomes of a run that threw an exception: a failure, of this trigger
RunFailed(l) == Ends(l, Fail)

\* ... or the request does not
PostRunFails(l) ==
  /\ \E a \in Addresses : Posting(l, a) /\ MayFail(l, a)
  /\ RunFailed(l)
  /\ UNCHANGED <<vars, triggerKeeps, steady>>

\* mutant: the thread is started before it is known that there is a handler
AnswerOfStart(l) == IF call[l] = "refused" THEN Fail ELSE Success

\* the code in the answer of run, once there is one
Answer(l) ==
  CASE far[l] # "none" -> Success
    [] call[l] = "accepted" -> Success
    [] call[l] = "refused" -> Fail
    [] OTHER -> "NONE"

RunAnswered(l) ==
  /\ trig[l] = "wait" /\ Answer(l) # "NONE"
  /\ Ends(l, Answer(l))
  /\ UNCHANGED <<vars, triggerKeeps, steady>>

\* the answer is lost, or late; or the process dies before it answers
RunUnanswered(l) ==
  /\ trig[l] = "wait" /\ (far[l] # "none" \/ l \in Lossy \/ call[l] = "broken")
  /\ RunFailed(l)
  /\ UNCHANGED <<vars, triggerKeeps, steady>>

DoTrigger(l) ==
  \/ ChooseByList(l) \/ Beat(l) \/ IdleBeat(l) \/ NoAddress(l)
  \/ PostRunHere(l) \/ PostRunFar(l) \/ PostRunFails(l) \/ RunAnswered(l) \/ RunUnanswered(l)

-----------------------------------------------------------------------------
(* The executors *)

Runs(l) ==
  /\ RunAddJobQueue(l) \/ HandlerEnds(l) \/ JobThread(l)
  /\ UNCHANGED <<adminVars, far, steady>>

Arrived(l) == [log |-> l, code |-> received'[l][Len(received'[l])]]

\* a result that reaches the admin is a call of callback
Reports ==
  /\ CallbackThread
  /\ callbacks' = callbacks \cup {Arrived(l) : l \in {k \in Logs : received'[k] # received[k]}}
  /\ UNCHANGED <<route, trig, row, far, steady>>

\* an executor that stops or dies has not been serving throughout
Stops ==
  /\ Stop \/ Restart
  /\ steady' = IF Serving' /\ kills' = kills THEN steady ELSE {}
  /\ UNCHANGED <<adminVars, far>>

FarReports(l) ==
  /\ far[l] = "accepted"
  /\ \E code \in Codes :
       /\ far' = [far EXCEPT ![l] = code]
       /\ callbacks' = callbacks \cup {[log |-> l, code |-> code]}
  /\ UNCHANGED <<vars, route, trig, row, steady>>

-----------------------------------------------------------------------------
(* AdminBizImpl.callback, in a thread of the web server.  The look at the row and its      *)
(* update are one step: callbacks of the same log, and deletions, are what could come      *)
(* between them, and the first are excluded by SystemRole, the second are TriggerLog's.    *)

AdminCallback(c) ==
  /\ callbacks' = callbacks \ {c}
  /\ row' = IF row[c.log].exec = "NONE" THEN [row EXCEPT ![c.log].exec = c.code] ELSE row
  /\ UNCHANGED <<vars, route, trig, far, steady>>

DispatchInit ==
  /\ Init /\ RouteInit
  /\ trig = [l \in Logs |-> "none"]
  /\ row = [l \in Logs |-> [trigger |-> "NONE", address |-> Nowhere, exec |-> "NONE"]]
  /\ callbacks = {} /\ far = [l \in Logs |-> "none"] /\ steady = {}

DispatchNext ==
  \/ \E l \in Logs : Start(l) \/ DoTrigger(l) \/ Runs(l) \/ FarReports(l)
  \/ \E c \in callbacks : AdminCallback(c)
  \/ Reports \/ Stops

DispatchSpec == DispatchInit /\ [][DispatchNext]_dispatchVars

\* The pool's threads go on, the web server's too, and the executor's do as Executor says.
DispatchFairSpec ==
  /\ DispatchSpec /\ Fairness
  /\ WF_dispatchVars(\E c \in callbacks : AdminCallback(c))
  /\ \A l \in Logs : WF_dispatchVars(DoTrigger(l))

-----------------------------------------------------------------------------
(* Properties *)

DispatchTypeOK ==
  /\ TypeOK
  /\ route \in [Logs -> Route] /\ trig \in [Logs -> Trigger]
  /\ row \in [Logs -> Row] /\ callbacks \subseteq Callback
  /\ far \in [Logs -> {"none", "accepted"} \cup Codes] /\ steady \subseteq Logs

\* The row says what happened.  A trigger is a success only if the executor at the row's
\* address took the request, though its process may have died since; the run is one only if
\* the handler returned a success in time; a run that nobody found an address for was not run.
RowTrue ==
  \A l \in Logs :
    /\ row[l].trigger = Success =>
         IF row[l].address = Here THEN call[l] = "accepted" ELSE far[l] # "none"
    /\ row[l].exec # "NONE" =>
         IF call[l] = "accepted" THEN row[l].exec = IF body[l] = Success /\ l \notin overdue
                                                   THEN Success ELSE Fail
         ELSE far[l] = row[l].exec
    /\ trig[l] = "done" /\ row[l].address = Nowhere => call[l] = "unsent" /\ far[l] = "none"

\* Failover ("故障转移", ExecRouteStrategyEnum) finds the executor that is there: it does not
\* end without an address while one of its list has been serving all along.
FailOverFinds ==
  \A l \in Logs : route[l].pc = "not_found" /\ route[l].strategy = "fail_over" => l \notin steady

\* To the admin all executors together are one: whatever the strategy, the losses, and the
\* executor's restart, a request is taken by one of them at most, and reported on once at most.
System == INSTANCE ExecutorRole WITH
  taken <- {l \in Logs : call[l] = "accepted" \/ far[l] # "none"},
  reports <- [l \in Logs |-> received[l] \o IF far[l] \in Codes THEN <<far[l]>> ELSE << >>]
ImplementsSystemRole == System!Spec

\* A trigger comes to a result whatever becomes of the executors.  A run that the executor has
\* accepted gets its result into the row, unless the executor is stopped or killed, the post
\* of the result fails, or there is none: the handler returned null, or has no timeout and hangs.
RowCompletes ==
  \A l \in Logs :
    /\ trig[l] = "route" ~> row[l].trigger # "NONE"
    /\ call[l] = "accepted" /\ (l \in Timed \/ l \notin Hanging) /\ stopPc = "no" /\ kills = 0
         ~> \/ row[l].exec # "NONE"
            \/ stopPc # "no" \/ kills > 0
            \/ l \in attempted /\ received[l] = << >>
            \/ body[l] = "NULL"
=============================================================================

--------------------------- MODULE ExecutorProofs ---------------------------
(* What holds of Executor for every value of its constants *)
EXTENDS ExecutorInv, SequenceTheorems, TLAPS

USE ExecutorAssumption

-----------------------------------------------------------------------------
(* Sequences *)

\* Where the elements are once one is appended, and once the first is gone.
LEMMA AppendPlaces ==
  ASSUME NEW S, NEW s \in Seq(S), NEW e \in S
  PROVE  /\ Append(s, e) \in Seq(S) /\ DOMAIN Append(s, e) = 1..Len(s) + 1
         /\ Append(s, e)[Len(s) + 1] = e
         /\ \A i \in 1..Len(s) : Append(s, e)[i] = s[i]
OBVIOUS

LEMMA TailPlaces ==
  ASSUME NEW S, NEW s \in Seq(S), s # << >>
  PROVE  /\ Tail(s) \in Seq(S) /\ Head(s) = s[1] /\ Len(s) \in Nat \ {0}
         /\ DOMAIN s = 1..Len(s) /\ DOMAIN Tail(s) = 1..Len(s) - 1
         /\ \A i \in 1..Len(s) - 1 : Tail(s)[i] = s[i + 1]
OBVIOUS

-----------------------------------------------------------------------------
(* Types *)

\* What stands for a result where there is none is well typed.
LEMMA NoResultType == NoResult \in Result
<1>1. (CHOOSE l \in Logs : TRUE) \in Logs
  OBVIOUS
<1> QED
  BY <1>1 DEF NoResult, Result, Codes

\* A thread's record, and what becomes of it.
LEMMA ThreadType ==
  /\ NoThread \in Thread /\ NoThread = [pc |-> "none", jobQueue |-> << >>]
  /\ \A t \in Thread : t.pc \in {"none", "poll", "invoke"} /\ t.jobQueue \in Seq(Logs)
  /\ \A p \in {"none", "poll", "invoke"}, q \in Seq(Logs) : [pc |-> p, jobQueue |-> q] \in Thread
<1>1. << >> \in Seq(Logs)
  OBVIOUS
<1> QED
  BY <1>1 DEF NoThread, Thread

LEMMA InitType == Init => TypeOK
<1> SUFFICES ASSUME Init PROVE TypeOK
  OBVIOUS
<1>1. << >> \in Seq(Result) /\ << >> \in Seq(Codes) /\ Len(<< >>) = 0
  OBVIOUS
<1>2. thread \in [Logs -> Thread] /\ received \in [Logs -> Seq(Codes)]
  BY <1>1, ThreadType DEF Init
<1>3. callbackQueue \in Seq(Result) /\ cbParam \in Result /\ cbNext \in 0..Len(callbackQueue)
  BY <1>1, NoResultType DEF Init
<1>4. /\ call \in [Logs -> {"unsent", "started", "accepted", "refused", "broken"}]
      /\ body \in [Logs -> {"none", "running", "killed"} \cup Outcomes]
  BY DEF Init
<1>5. cbRunning \in BOOLEAN /\ cbInterrupted \in BOOLEAN
  BY DEF Init
<1>6. /\ cbPc \in {"take", "post", "left", "drain", "ended"}
      /\ stopPc \in {"no", "flag", "join", "stopped"} /\ kills \in 0..MaxKills
      /\ attempted \subseteq Logs /\ owed \subseteq Logs /\ overdue \subseteq Logs
  BY DEF Init
<1> QED
  BY <1>2, <1>3, <1>4, <1>5, <1>6 DEF TypeOK

\* addCallbackQueue keeps the queue's type, and its iterator's place.
LEMMA AddCallbackType ==
  ASSUME TypeOK, NEW l \in Logs, NEW code \in {"none", "running", "killed"} \cup Outcomes,
         AddCallback(l, code)
  PROVE  callbackQueue' \in Seq(Result) /\ cbNext \in 0..Len(callbackQueue')
<1>1. code \in Codes => [log |-> l, code |-> code] \in Result
  BY DEF Result
<1>2. \A r \in Result : /\ Append(callbackQueue, r) \in Seq(Result)
                        /\ Len(Append(callbackQueue, r)) = Len(callbackQueue) + 1
  BY DEF TypeOK
<1> QED
  BY <1>1, <1>2 DEF AddCallback, TypeOK

LEMMA RunType == ASSUME TypeOK, NEW l \in Logs, Run(l) PROVE TypeOK'
<1>1. CASE RunRefuse(l)
  BY <1>1 DEF RunRefuse, runKeeps, TypeOK, cbVars, stopVars, history, Arrives
<1>2. CASE RunStartThread(l)
  <2>1. << >> \in Seq(Logs)
    OBVIOUS
  <2>2. [NoThread EXCEPT !.pc = "poll"] = [pc |-> "poll", jobQueue |-> << >>]
    BY DEF NoThread
  <2> QED
    BY <1>2, <2>1, <2>2, ThreadType
    DEF RunStartThread, runKeeps, TypeOK, cbVars, stopVars, history
<1>3. CASE RunAddJobQueue(l)
  <2>1. thread[l].jobQueue \in Seq(Logs)
    BY ThreadType DEF TypeOK
  <2>2. Append(thread[l].jobQueue, l) \in Seq(Logs)
    BY <2>1
  <2>3. [thread[l] EXCEPT !.jobQueue = Append(@, l)] \in Thread
    BY <2>2 DEF Thread, TypeOK
  <2> QED
    BY <1>3, <2>3 DEF RunAddJobQueue, runKeeps, TypeOK, cbVars, stopVars, history
<1> QED
  BY <1>1, <1>2, <1>3 DEF Run

LEMMA JobThreadType == ASSUME TypeOK, NEW t \in Logs, JobThread(t), ThreadsOwn PROVE TypeOK'
<1> USE DEF threadKeeps, stopVars, TypeOK
<1>1. thread[t].jobQueue # << >> => Taken(t) = t
  BY DEF ThreadsOwn, Taken
<1>2. Tail(<<t>>) = << >> /\ << >> \in Seq(Logs)
  OBVIOUS
<1>3. CASE Poll(t)
  <2>1. [thread[t] EXCEPT !.pc = "invoke"] \in Thread
    BY DEF Thread
  <2> QED
    BY <1>1, <1>3, <2>1 DEF Poll, Taken
<1>4. thread[t].pc = "invoke" => Done(t) \in [Logs -> Thread] /\ Taken(t) = t
  <2> SUFFICES ASSUME thread[t].pc = "invoke"
                PROVE  Done(t) \in [Logs -> Thread] /\ Taken(t) = t
    OBVIOUS
  <2>2. thread[t].jobQueue = <<t>>
    BY DEF ThreadsOwn
  <2>3. [thread[t] EXCEPT !.pc = "poll", !.jobQueue = Tail(@)] \in Thread
    BY <1>2, <2>2 DEF Thread
  <2> QED
    BY <1>1, <2>2, <2>3 DEF Done
<1>5. CASE InvokeReturns(t)
  BY <1>4, <1>5, AddCallbackType DEF InvokeReturns
<1>6. CASE InvokeTimesOut(t)
  BY <1>4, <1>6, AddCallbackType DEF InvokeTimesOut, Outcomes, Codes
<1> QED
  BY <1>3, <1>5, <1>6 DEF JobThread

LEMMA HandlerEndsType == ASSUME TypeOK, NEW l \in Logs, HandlerEnds(l) PROVE TypeOK'
BY DEF HandlerEnds, threadKeeps, stopVars, TypeOK

\* a post adds one result to what the admin has received, or none
LEMMA DoCallbackType ==
  ASSUME TypeOK, NEW r \in Result, DoCallback(r)
  PROVE  received' \in [Logs -> Seq(Codes)] /\ attempted' \subseteq Logs
<1>1. r.log \in Logs /\ r.code \in Codes
  BY DEF Result
<1>2. Append(received[r.log], r.code) \in Seq(Codes)
  BY <1>1 DEF TypeOK
<1> QED
  BY <1>1, <1>2 DEF DoCallback, TypeOK

LEMMA CallbackThreadType == ASSUME TypeOK, Hand, CallbackThread PROVE TypeOK'
<1> USE DEF cbKeeps, threadVars, stopVars
<1>1. CASE CallbackTake
  <2>1. Head(callbackQueue) \in Result /\ Tail(callbackQueue) \in Seq(Result)
    BY <1>1 DEF CallbackTake, TypeOK
  <2>2. cbNext = 0 /\ 0 \in 0..Len(Tail(callbackQueue))
    BY <1>1, <2>1 DEF CallbackTake, Hand
  <2> QED
    BY <1>1, <2>1, <2>2 DEF CallbackTake, TypeOK
<1>2. CASE CallbackPost
  BY <1>2, NoResultType, DoCallbackType DEF CallbackPost, TypeOK
<1>3. CASE CallbackInterrupt
  BY <1>3 DEF CallbackInterrupt, TypeOK
<1>4. \A i \in DOMAIN callbackQueue :
        Handout(i) => cbParam' \in Result /\ cbNext' \in 0..Len(callbackQueue)
  BY DEF Handout, TypeOK
<1>5. CASE CallbackLeave
  <2>1. callbackQueue # << >> => 1 \in DOMAIN callbackQueue
    BY DEF TypeOK
  <2> QED
    BY <1>4, <1>5, <2>1 DEF CallbackLeave, TypeOK
<1>6. CASE CallbackDrain
  <2>1. cbNext # 0 => cbNext \in DOMAIN callbackQueue
    BY DEF TypeOK
  <2>2. received' \in [Logs -> Seq(Codes)] /\ attempted' \subseteq Logs
    BY <1>6, DoCallbackType DEF CallbackDrain, TypeOK
  <2> QED
    BY <1>4, <1>6, <2>1, <2>2, NoResultType DEF CallbackDrain, TypeOK
<1> QED
  BY <1>1, <1>2, <1>3, <1>5, <1>6 DEF CallbackThread

LEMMA StopType == ASSUME TypeOK, Stop PROVE TypeOK'
<1> USE DEF TypeOK, stopKeeps, threadVars, cbVars
<1>1. \A i \in DOMAIN callbackQueue : callbackQueue[i].log \in Logs
  <2>1. \A i \in DOMAIN callbackQueue : callbackQueue[i] \in Result
    OBVIOUS
  <2> QED
    BY <2>1 DEF Result
<1> QED
  BY <1>1 DEF Stop, StopFlag, StopInterrupt, StopServer

LEMMA RestartType == ASSUME TypeOK, Restart PROVE TypeOK'
<1>1. << >> \in Seq(Result) /\ Len(<< >>) = 0
  OBVIOUS
<1>2. thread' \in [Logs -> Thread]
  BY ThreadType DEF Restart, Fresh
<1>3. call' \in [Logs -> {"unsent", "started", "accepted", "refused", "broken"}]
      /\ body' \in [Logs -> {"none", "running", "killed"} \cup Outcomes]
  BY DEF Restart, TypeOK
<1>4. callbackQueue' \in Seq(Result) /\ cbParam' \in Result /\ cbNext' \in 0..Len(callbackQueue')
  BY <1>1, NoResultType DEF Restart, Fresh
<1>5. /\ cbPc' \in {"take", "post", "left", "drain", "ended"}
      /\ stopPc' \in {"no", "flag", "join", "stopped"} /\ kills' \in 0..MaxKills
  BY DEF Restart, Fresh, TypeOK
<1>6. cbRunning' \in BOOLEAN /\ cbInterrupted' \in BOOLEAN
  BY DEF Restart, Fresh
<1>7. /\ received' \in [Logs -> Seq(Codes)]
      /\ attempted' \subseteq Logs /\ owed' \subseteq Logs /\ overdue' \subseteq Logs
  BY DEF Restart, TypeOK
<1> QED
  BY <1>2, <1>3, <1>4, <1>5, <1>6, <1>7 DEF TypeOK

LEMMA NextType == ASSUME TypeOK, ThreadsOwn, Hand, [Next]_vars PROVE TypeOK'
<1>1. CASE UNCHANGED vars
  BY <1>1 DEF vars, threadVars, cbVars, stopVars, history, TypeOK
<1> QED
  BY <1>1, RunType, HandlerEndsType, JobThreadType, CallbackThreadType, StopType, RestartType
  DEF Next

-----------------------------------------------------------------------------
(* The invariant: an action that leaves the results where they are *)

\* What a step does not move is where it was.
LEMMA SameResults ==
  ASSUME UNCHANGED <<received, callbackQueue, cbPc, cbParam, cbNext>>
  PROVE  /\ Ahead' = Ahead /\ InHand' = InHand
         /\ \A l : ToPost(l)' = ToPost(l)
         /\ overdue' = overdue => \A l : Unreported(l)' = Unreported(l)
         /\ OneResult => OneResult'
         /\ Hand => Hand'
BY DEF Ahead, InHand, ToPost, Unreported, OneResult, Hand

\* The results stay true as long as a log that has one is not run again, and what ended
\* stays as it is.
LEMMA StillTrue ==
  ASSUME TypeOK, AllTrue, OneResult,
         UNCHANGED <<received, callbackQueue, cbPc, cbParam, cbNext, overdue>>,
         NEW l \in Logs, body' = [body EXCEPT ![l] = body'[l]],
         body[l] = "running" \/ Unreported(l)
  PROVE  AllTrue'
<1>1. \A k \in Logs, code \in Codes :
        Truth(k, code) /\ (k # l \/ body[l] = "running") => Truth(k, code)'
  BY DEF Truth, TypeOK, Codes, Success, Fail
<1>2. \A i \in DOMAIN callbackQueue : callbackQueue[i] \in Result
  BY DEF TypeOK
<1>3. cbParam \in Result /\ \A k \in Logs : received[k] \in Seq(Codes)
  BY DEF TypeOK
<1>4. \A r \in Result : r.log \in Logs /\ r.code \in Codes
  BY DEF Result
<1>5. \A i \in DOMAIN callbackQueue : Truth(callbackQueue[i].log, callbackQueue[i].code)'
  BY <1>1, <1>2, <1>4 DEF AllTrue, Unreported
<1>6. InHand' => Truth(cbParam.log, cbParam.code)'
  BY <1>1, <1>3, <1>4 DEF AllTrue, Unreported, InHand
<1>7. ReportsTrue'
  <2> SUFFICES ASSUME NEW k \in Logs, NEW i \in DOMAIN received[k]
               PROVE  Truth(k, received[k][i])'
    BY DEF ReportsTrue, Truth
  <2>1. received[k][i] \in Codes /\ received[k] # << >>
    BY <1>3
  <2>2. Truth(k, received[k][i])
    BY DEF AllTrue, ReportsTrue, Truth
  <2>3. k # l \/ body[l] = "running"
    BY <2>1 DEF Unreported
  <2> QED
    BY <1>1, <2>1, <2>2, <2>3
<1> QED
  BY <1>5, <1>6, <1>7 DEF AllTrue

LEMMA InvRun ==
  ASSUME ExecutorIInv, TypeOK', NEW l \in Logs, Run(l)
  PROVE  ExecutorIInv'
<1>1. UNCHANGED <<body, cbVars, stopVars, received, history>>
      /\ UNCHANGED <<callbackQueue, cbPc, cbParam, cbNext, overdue>>
  BY DEF Run, RunRefuse, RunStartThread, RunAddJobQueue, runKeeps, cbVars, history
<1>2. UNCHANGED <<cbRunning, cbInterrupted, stopPc, attempted, owed, overdue>>
  BY <1>1 DEF stopVars, history
<1>3. ThreadsOwn' /\ NotYet'
  <2>1. CASE RunRefuse(l)
    BY <1>1, <2>1, SameResults
    DEF RunRefuse, Arrives, ExecutorIInv, ThreadsOwn, NotYet, TypeOK
  <2>2. CASE RunStartThread(l)
    BY <1>1, <2>2, SameResults
    DEF RunStartThread, Arrives, ExecutorIInv, ThreadsOwn, NotYet, TypeOK, NoThread
  <2>3. CASE RunAddJobQueue(l)
    <3>1. thread[l].jobQueue = << >> /\ thread[l] \in Thread
      BY <2>3 DEF RunAddJobQueue, ExecutorIInv, ThreadsOwn, TypeOK
    <3>2. Append(<< >>, l) = <<l>>
      OBVIOUS
    <3>3. /\ thread'[l].jobQueue = <<l>> /\ thread'[l].pc = thread[l].pc
          /\ \A k \in Logs : k # l => thread'[k] = thread[k]
      BY <2>3, <3>1, <3>2 DEF RunAddJobQueue, Thread, ExecutorIInv, TypeOK
    <3>4. call[l] = "started" /\ call' = [call EXCEPT ![l] = "accepted"] /\ DOMAIN call = Logs
      BY <2>3 DEF RunAddJobQueue, ExecutorIInv, TypeOK
    <3>5. ThreadsOwn'
      BY <3>3, <3>4 DEF ExecutorIInv, ThreadsOwn
    <3>6. NotYet'
      BY <1>1, <3>3, <3>4, SameResults DEF ExecutorIInv, NotYet
    <3> QED
      BY <3>5, <3>6
  <2> QED
    BY <2>1, <2>2, <2>3 DEF Run
<1>4. AllTrue'
  BY <1>1, <1>2 DEF ExecutorIInv, AllTrue, ReportsTrue, Truth, InHand
<1> QED
  BY <1>1, <1>2, <1>3, <1>4, SameResults DEF ExecutorIInv, Owed

LEMMA InvHandlerEnds ==
  ASSUME ExecutorIInv, TypeOK', NEW l \in Logs, HandlerEnds(l)
  PROVE  ExecutorIInv'
<1>1. UNCHANGED <<call, thread, callbackQueue, cbPc, cbParam, cbNext, stopVars, received,
                  attempted, owed, overdue>>
  BY DEF HandlerEnds, threadKeeps
<1>2. UNCHANGED <<cbRunning, cbInterrupted, stopPc>>
  BY <1>1 DEF stopVars
<1>3. body[l] = "running" /\ body' = [body EXCEPT ![l] = body'[l]]
  BY DEF HandlerEnds, ExecutorIInv, TypeOK
<1>4. AllTrue'
  BY <1>1, <1>3, StillTrue DEF ExecutorIInv
<1> QED
  BY <1>1, <1>2, <1>4, SameResults DEF ExecutorIInv, ThreadsOwn, NotYet, Owed

-----------------------------------------------------------------------------
(* The invariant: the job threads *)

LEMMA InvPoll ==
  ASSUME ExecutorIInv, TypeOK', NEW t \in Logs, Poll(t)
  PROVE  ExecutorIInv'
<1>1. UNCHANGED <<call, callbackQueue, cbPc, cbParam, cbNext, stopVars, received,
                  attempted, owed, overdue>>
  BY DEF Poll, threadKeeps
<1>2. UNCHANGED <<cbRunning, cbInterrupted, stopPc>>
  BY <1>1 DEF stopVars
<1>3. thread[t].jobQueue = <<t>> /\ Head(<<t>>) = t
  BY DEF Poll, ExecutorIInv, ThreadsOwn
<1>4. Unreported(t) /\ body' = [body EXCEPT ![t] = body'[t]]
  BY <1>3 DEF Poll, ExecutorIInv, NotYet, TypeOK
<1>5. AllTrue'
  BY <1>1, <1>4, StillTrue DEF ExecutorIInv
<1>6. ThreadsOwn' /\ NotYet'
  <2>1. /\ thread'[t].jobQueue = <<t>> /\ thread'[t].pc = "invoke" /\ thread[t].pc = "poll"
        /\ \A k \in Logs : k # t => thread'[k] = thread[k]
    BY <1>3 DEF Poll, ExecutorIInv, TypeOK, Thread
  <2> QED
    BY <1>1, <1>3, <2>1, SameResults DEF ExecutorIInv, ThreadsOwn, NotYet
<1> QED
  BY <1>1, <1>2, <1>5, <1>6, SameResults DEF ExecutorIInv, Owed

\* The result of a log that has none yet is queued, and is true: nothing else has changed.
LEMMA AddResult ==
  ASSUME ExecutorIInv, TypeOK', NEW l \in Logs, NEW code \in {"none"} \cup Outcomes,
         AddCallback(l, code), Unreported(l), code \in Codes => Truth(l, code)',
         UNCHANGED <<body, received, cbPc, cbParam, cbNext, stopVars, attempted, owed>>,
         overdue \subseteq overdue' /\ overdue' \subseteq overdue \cup {l}
  PROVE  /\ OneResult' /\ Hand' /\ AllTrue' /\ Owed'
         /\ \A k \in Logs : k # l /\ Unreported(k) => Unreported(k)'
<1> DEFINE r == [log |-> l, code |-> code]
           n == Len(callbackQueue)
<1>0. r.log = l /\ r.code = code /\ (code \in Codes => r \in Result)
  BY DEF Result
<1>1. UNCHANGED <<cbRunning, cbInterrupted, stopPc>>
  BY DEF stopVars
<1>2. AllTrue /\ OneResult /\ Hand /\ Owed /\ TypeOK
  BY DEF ExecutorIInv
<1>3. /\ callbackQueue \in Seq(Result) /\ callbackQueue' \in Seq(Result) /\ n \in Nat
      /\ DOMAIN callbackQueue = 1..n
      /\ received \in [Logs -> Seq(Codes)]
      /\ \A i \in DOMAIN callbackQueue : callbackQueue[i].log \in Logs
  <2>1. callbackQueue \in Seq(Result) /\ callbackQueue' \in Seq(Result) /\ received \in [Logs -> Seq(Codes)]
    BY DEF TypeOK, ExecutorIInv
  <2>2. \A i \in DOMAIN callbackQueue : callbackQueue[i] \in Result
    BY <2>1
  <2> QED
    BY <2>1, <2>2 DEF Result
<1>4. \/ callbackQueue' = callbackQueue
      \/ /\ code \in Codes
         /\ DOMAIN callbackQueue' = 1..n + 1
         /\ callbackQueue'[n + 1] = r
         /\ \A i \in 1..n : callbackQueue'[i] = callbackQueue[i]
  <2>1. CASE code \in Codes
    <3>1. callbackQueue' = Append(callbackQueue, r)
      BY <2>1 DEF AddCallback
    <3> HIDE DEF r, n
    <3>2. r \in Result /\ callbackQueue \in Seq(Result)
      BY <1>0, <1>3, <2>1
    <3>3. n = Len(callbackQueue)
      BY DEF n
    <3>4. /\ DOMAIN Append(callbackQueue, r) = 1..n + 1
          /\ Append(callbackQueue, r)[n + 1] = r
          /\ \A i \in 1..n : Append(callbackQueue, r)[i] = callbackQueue[i]
      BY <3>2, <3>3, AppendPlaces
    <3> QED
      BY <2>1, <3>1, <3>4
  <2> QED
    BY <2>1 DEF AddCallback
<1>5. \A k \in Logs : k # l /\ Unreported(k) => Unreported(k)'
  <2> SUFFICES ASSUME NEW k \in Logs, k # l, Unreported(k) PROVE Unreported(k)'
    OBVIOUS
  <2> HIDE DEF r
  <2>1. \A i \in DOMAIN callbackQueue' : callbackQueue'[i].log # k
    <3>1. CASE callbackQueue' = callbackQueue
      BY <3>1 DEF Unreported
    <3>2. CASE /\ DOMAIN callbackQueue' = 1..n + 1 /\ callbackQueue'[n + 1] = r
               /\ \A i \in 1..n : callbackQueue'[i] = callbackQueue[i]
      BY <1>0, <1>3, <3>2 DEF Unreported
    <3> QED
      BY <1>4, <3>1, <3>2
  <2>2. k \notin overdue'
    BY DEF Unreported
  <2> QED
    BY <2>1, <2>2 DEF Unreported, InHand
<1>6. CASE callbackQueue' = callbackQueue
  <2>1. AllTrue'
    BY <1>2, <1>6 DEF AllTrue, Truth, ReportsTrue, InHand, Unreported
  <2> QED
    BY <1>1, <1>2, <1>5, <1>6, <2>1, SameResults DEF Owed
<1>7. CASE /\ code \in Codes
           /\ DOMAIN callbackQueue' = 1..n + 1
           /\ callbackQueue'[n + 1] = r
           /\ \A i \in 1..n : callbackQueue'[i] = callbackQueue[i]
  <2>1. /\ Ahead \subseteq Ahead' /\ Ahead' \subseteq Ahead \cup {n + 1}
        /\ Ahead \subseteq 1..n /\ InHand' = InHand
    BY <1>3, <1>7 DEF Ahead, InHand
  <2>3. OneResult'
    <3>1. \A i \in 1..n : callbackQueue[i].log # l
      BY <1>3 DEF Unreported
    <3>2. \A i, k \in DOMAIN callbackQueue' :
            callbackQueue'[i].log = callbackQueue'[k].log => i = k
      BY <1>2, <1>3, <1>7, <1>0, <3>1 DEF OneResult
    <3>3. \A i \in Ahead' : received[callbackQueue'[i].log] = << >>
      BY <1>2, <1>7, <2>1, <1>0 DEF OneResult, Unreported
    <3> QED
      BY <1>2, <2>1, <3>2, <3>3 DEF OneResult
  <2>4. Hand'
    <3>1. cbPc = "post" => \A i \in DOMAIN callbackQueue' : callbackQueue'[i].log # cbParam.log
      BY <1>2, <1>3, <1>7, <1>0 DEF Hand, Unreported, InHand
    <3>2. cbPc = "drain" /\ cbNext # 0 => cbNext > 1 /\ cbParam = callbackQueue'[cbNext - 1]
      <4>1. cbNext \in 0..n
        BY <1>2 DEF TypeOK
      <4> QED
        BY <1>2, <1>7, <4>1 DEF Hand
    <3> QED
      BY <1>2, <3>1, <3>2 DEF Hand
  <2>5. AllTrue'
    <3>1. \A k \in Logs, c \in Codes : k # l /\ Truth(k, c) => Truth(k, c)'
      BY DEF Truth
    <3>2. \A i \in 1..n : callbackQueue[i] \in Result
      BY <1>3
    <3>3. \A i \in 1..n : callbackQueue[i].log # l /\ callbackQueue[i].log \in Logs
                          /\ callbackQueue[i].code \in Codes
      BY <1>3, <3>2 DEF Unreported, Result
    <3>6. \A i \in DOMAIN callbackQueue' : Truth(callbackQueue[i].log, callbackQueue[i].code)'
      <4> SUFFICES ASSUME NEW i \in DOMAIN callbackQueue'
                   PROVE  Truth(callbackQueue[i].log, callbackQueue[i].code)'
        OBVIOUS
      <4>1. CASE i \in 1..n
        BY <1>2, <1>3, <1>7, <3>1, <3>3, <4>1 DEF AllTrue
      <4>2. CASE i = n + 1
        BY <1>0, <1>7, <4>2 DEF Truth
      <4> QED
        BY <1>3, <1>7, <4>1, <4>2
    <3>4. InHand => Truth(cbParam.log, cbParam.code)'
      BY <1>2, <3>1 DEF AllTrue, Unreported, TypeOK, Result
    <3>5. ReportsTrue'
      BY <1>2 DEF AllTrue, ReportsTrue, Unreported
    <3> QED
      BY <2>1, <3>4, <3>5, <3>6 DEF AllTrue
  <2>6. Owed'
    <3>1. \A k : ToPost(k) => ToPost(k)'
      BY <1>7, <2>1 DEF ToPost
    <3> QED
      BY <1>1, <1>2, <3>1 DEF Owed
  <2> QED
    BY <1>5, <2>3, <2>4, <2>5, <2>6
<1> QED
  BY <1>4, <1>6, <1>7

\* The log of a thread that has taken it.
LEMMA TakenIs ==
  ASSUME ExecutorIInv, NEW t \in Logs, thread[t].pc = "invoke"
  PROVE  /\ Taken(t) = t /\ Unreported(t) /\ call[t] = "accepted"
         /\ Done(t)[t].pc = "poll" /\ Done(t)[t].jobQueue = << >>
         /\ \A k \in Logs : k # t => Done(t)[k] = thread[k]
<1>1. thread[t].jobQueue = <<t>> /\ call[t] = "accepted" /\ Unreported(t)
  BY DEF ExecutorIInv, ThreadsOwn, NotYet
<1>2. Head(<<t>>) = t /\ Tail(<<t>>) = << >>
  OBVIOUS
<1>3. /\ Done(t)[t].pc = "poll" /\ Done(t)[t].jobQueue = << >>
      /\ \A k \in Logs : k # t => Done(t)[k] = thread[k]
  BY <1>1, <1>2 DEF Done, ExecutorIInv, TypeOK, Thread
<1> QED
  BY <1>1, <1>2, <1>3 DEF Taken

\* A thread that is done with its log, whose result it has queued.
LEMMA DoneInv ==
  ASSUME ExecutorIInv, NEW t \in Logs, thread[t].pc = "invoke", thread' = Done(t),
         UNCHANGED call, \A k \in Logs : k # t /\ Unreported(k) => Unreported(k)'
  PROVE  ThreadsOwn' /\ NotYet'
<1>1. ThreadsOwn'
  BY TakenIs DEF ExecutorIInv, ThreadsOwn
<1>2. NotYet'
  BY TakenIs DEF ExecutorIInv, NotYet
<1> QED
  BY <1>1, <1>2

LEMMA InvReturns ==
  ASSUME ExecutorIInv, TypeOK', NEW t \in Logs, InvokeReturns(t)
  PROVE  ExecutorIInv'
<1>1. /\ thread[t].pc = "invoke" /\ body[t] \in Outcomes /\ AddCallback(t, body[t])
      /\ Unreported(t) /\ thread' = Done(t)
  BY TakenIs DEF InvokeReturns
<1>2. UNCHANGED <<call, body, received, cbPc, cbParam, cbNext, stopVars, attempted, owed, overdue>>
  BY DEF InvokeReturns, threadKeeps
<1>3. body[t] \in Codes => Truth(t, body[t])'
  BY <1>1, <1>2 DEF Truth, Unreported, Codes
<1>4. /\ OneResult' /\ Hand' /\ AllTrue' /\ Owed'
      /\ \A k \in Logs : k # t /\ Unreported(k) => Unreported(k)'
  BY <1>1, <1>2, <1>3, AddResult
<1> QED
  BY <1>1, <1>2, <1>4, DoneInv DEF ExecutorIInv

LEMMA InvTimesOut ==
  ASSUME ExecutorIInv, TypeOK', NEW t \in Logs, InvokeTimesOut(t)
  PROVE  ExecutorIInv'
<1>1. /\ thread[t].pc = "invoke" /\ AddCallback(t, Fail)
      /\ Unreported(t) /\ thread' = Done(t) /\ overdue' = overdue \cup {t}
  BY TakenIs DEF InvokeTimesOut
<1>2. UNCHANGED <<call, body, received, cbPc, cbParam, cbNext, stopVars, attempted, owed>>
  BY DEF InvokeTimesOut, threadKeeps
<1>3. Truth(t, Fail)' /\ Fail \in Outcomes
  BY <1>1 DEF Truth, Success, Fail, Outcomes, Codes
<1>4. /\ OneResult' /\ Hand' /\ AllTrue' /\ Owed'
      /\ \A k \in Logs : k # t /\ Unreported(k) => Unreported(k)'
  BY <1>1, <1>2, <1>3, AddResult
<1> QED
  BY <1>1, <1>2, <1>4, DoneInv DEF ExecutorIInv

-----------------------------------------------------------------------------
(* The invariant: the callback thread *)

\* The results in the queue and in the callback thread's hand.
LEMMA ResultsAre ==
  ASSUME TypeOK
  PROVE  /\ Len(callbackQueue) \in Nat /\ DOMAIN callbackQueue = 1..Len(callbackQueue)
         /\ \A i \in DOMAIN callbackQueue : /\ callbackQueue[i] \in Result
                                          /\ callbackQueue[i].log \in Logs
                                          /\ callbackQueue[i].code \in Codes
         /\ cbParam.log \in Logs /\ cbParam.code \in Codes
         /\ \A l \in Logs : received[l] \in Seq(Codes)
<1>1. callbackQueue \in Seq(Result) /\ cbParam \in Result
  BY DEF TypeOK
<1>2. \A i \in DOMAIN callbackQueue : callbackQueue[i] \in Result
  BY <1>1
<1> QED
  BY <1>1, <1>2 DEF TypeOK, Result

LEMMA InvTake ==
  ASSUME ExecutorIInv, TypeOK', CallbackTake
  PROVE  ExecutorIInv'
<1> DEFINE n == Len(callbackQueue)
<1>1. /\ UNCHANGED <<call, thread, body, cbRunning, cbInterrupted, stopPc, cbNext, received,
                    attempted, owed, overdue>>
      /\ cbPc = "take" /\ cbPc' = "post" /\ callbackQueue # << >>
      /\ cbParam' = Head(callbackQueue) /\ callbackQueue' = Tail(callbackQueue)
  BY DEF CallbackTake, cbKeeps, threadVars, stopVars
<1>2. /\ n \in Nat \ {0} /\ DOMAIN callbackQueue = 1..n /\ DOMAIN callbackQueue' = 1..n - 1
      /\ cbParam' = callbackQueue[1]
      /\ \A i \in 1..n - 1 : callbackQueue'[i] = callbackQueue[i + 1]
  BY <1>1, TailPlaces DEF ExecutorIInv, TypeOK
<1>3. /\ ~InHand /\ InHand' /\ Ahead = 1..n /\ Ahead' = 1..n - 1
      /\ \A i \in 1..n : i = 1 \/ i - 1 \in 1..n - 1
  BY <1>1, <1>2 DEF InHand, Ahead
<1> HIDE DEF n
<1>4. AllTrue /\ OneResult /\ Hand /\ Owed /\ TypeOK /\ ThreadsOwn /\ NotYet
  BY DEF ExecutorIInv
<1>5. ThreadsOwn'
  BY <1>1, <1>4 DEF ThreadsOwn
<1>6. NotYet'
  <2>1. \A l \in Logs : Unreported(l) => Unreported(l)'
    BY <1>1, <1>2, <1>3 DEF Unreported
  <2> QED
    BY <1>1, <1>4, <2>1 DEF NotYet
<1>7. OneResult'
  <2>1. \A i, k \in 1..n - 1 : callbackQueue'[i].log = callbackQueue'[k].log => i = k
    BY <1>2, <1>4 DEF OneResult
  <2>2. \A i \in 1..n - 1 : received[callbackQueue'[i].log] = << >>
    BY <1>2, <1>3, <1>4 DEF OneResult
  <2>3. received[cbParam'.log] = << >>
    BY <1>2, <1>3, <1>4 DEF OneResult
  <2> QED
    BY <1>1, <1>2, <1>3, <1>4, <2>1, <2>2, <2>3 DEF OneResult
<1>8. Hand'
  BY <1>1, <1>2, <1>4 DEF Hand, OneResult
<1>9. AllTrue'
  <2>1. \A i \in DOMAIN callbackQueue' : Truth(callbackQueue[i].log, callbackQueue[i].code)'
    BY <1>1, <1>2, <1>4 DEF AllTrue, Truth
  <2>2. Truth(cbParam.log, cbParam.code)'
    BY <1>1, <1>2, <1>4 DEF AllTrue, Truth
  <2> QED
    BY <1>1, <1>4, <2>1, <2>2 DEF AllTrue, ReportsTrue
<1>10. Owed'
  <2>1. \A l : ToPost(l) => ToPost(l)'
    <3> SUFFICES ASSUME NEW l, ToPost(l) PROVE ToPost(l)'
      OBVIOUS
    <3>1. PICK i \in 1..n : callbackQueue[i].log = l
      BY <1>3 DEF ToPost
    <3>2. CASE i = 1
      BY <1>2, <1>3, <3>1, <3>2 DEF ToPost
    <3>3. CASE i # 1
      <4>1. i - 1 \in 1..n - 1 /\ callbackQueue'[i - 1] = callbackQueue[i]
        BY <1>2, <3>3
      <4> QED
        BY <1>3, <3>1, <4>1 DEF ToPost
    <3> QED
      BY <3>2, <3>3
  <2> QED
    BY <1>1, <1>4, <2>1 DEF Owed
<1> QED
  BY <1>5, <1>6, <1>7, <1>8, <1>9, <1>10 DEF ExecutorIInv

\* A post of what the callback thread has in its hand.
LEMMA PostOne ==
  ASSUME ExecutorIInv, InHand, DoCallback(cbParam), UNCHANGED <<body, overdue>>
  PROVE  /\ \A l \in Logs : l # cbParam.log => received'[l] = received[l]
         /\ \A l \in Logs : received'[l] = << >> \/ \E code \in Codes : received'[l] = <<code>>
         /\ attempted' = attempted \cup {cbParam.log}
         /\ ReportsTrue'
<1> DEFINE m == cbParam.log
<1>1. m \in Logs /\ cbParam.code \in Codes /\ received[m] = << >> /\ Truth(m, cbParam.code)
  BY ResultsAre DEF ExecutorIInv, OneResult, AllTrue
<1>2. Append(<< >>, cbParam.code) = <<cbParam.code>>
  OBVIOUS
<1>3. /\ \A l \in Logs : l # m => received'[l] = received[l]
      /\ received'[m] = << >> \/ received'[m] = <<cbParam.code>>
      /\ attempted' = attempted \cup {m}
  BY <1>1, <1>2 DEF DoCallback, ExecutorIInv, TypeOK
<1>4. ReportsTrue'
  <2> SUFFICES ASSUME NEW l \in Logs, NEW i \in DOMAIN received'[l]
               PROVE  IF received'[l][i] = Success THEN body[l] = Success /\ l \notin overdue
                      ELSE body[l] = Fail \/ l \in overdue
    BY DEF ReportsTrue
  <2>1. CASE l # m
    BY <1>3, <2>1 DEF ExecutorIInv, AllTrue, ReportsTrue
  <2>2. CASE l = m
    <3>1. received'[m] = <<cbParam.code>> /\ i = 1
      BY <1>3, <2>2
    <3> QED
      BY <1>1, <2>2, <3>1 DEF Truth
  <2> QED
    BY <2>1, <2>2
<1> QED
  BY <1>1, <1>3, <1>4 DEF ExecutorIInv, OneResult

LEMMA InvPost ==
  ASSUME ExecutorIInv, TypeOK', CallbackPost
  PROVE  ExecutorIInv'
<1>1. /\ UNCHANGED <<call, thread, body, cbRunning, cbInterrupted, stopPc, cbNext,
                    callbackQueue, owed, overdue>>
      /\ cbPc = "post" /\ cbPc' = IF cbRunning THEN "take" ELSE "left"
      /\ DoCallback(cbParam)
  BY DEF CallbackPost, cbKeeps, threadVars, stopVars
<1>2. /\ InHand /\ ~InHand' /\ Ahead = DOMAIN callbackQueue /\ Ahead' = Ahead
  BY <1>1 DEF InHand, Ahead
<1>3. /\ \A l \in Logs : l # cbParam.log => received'[l] = received[l]
      /\ \A l \in Logs : received'[l] = << >> \/ \E code \in Codes : received'[l] = <<code>>
      /\ attempted' = attempted \cup {cbParam.log}
      /\ ReportsTrue'
  BY <1>1, <1>2, PostOne
<1>4. AllTrue /\ OneResult /\ Hand /\ Owed /\ TypeOK /\ ThreadsOwn /\ NotYet
  BY DEF ExecutorIInv
<1>5. \A i \in DOMAIN callbackQueue : callbackQueue[i].log # cbParam.log /\ callbackQueue[i].log \in Logs
  BY <1>1, <1>4, ResultsAre DEF Hand
<1>6. ThreadsOwn'
  BY <1>1, <1>4 DEF ThreadsOwn
<1>7. NotYet'
  BY <1>1, <1>2, <1>3, <1>4 DEF NotYet, Unreported
<1>8. OneResult'
  BY <1>1, <1>2, <1>3, <1>4, <1>5 DEF OneResult
<1>9. Hand'
  BY <1>1, <1>4 DEF Hand
<1>10. AllTrue'
  BY <1>1, <1>2, <1>3, <1>4 DEF AllTrue, Truth
<1>11. Owed'
  <2>1. \A l : ToPost(l) => l = cbParam.log \/ ToPost(l)'
    BY <1>1, <1>2 DEF ToPost
  <2>2. stopPc = "no" => cbPc' = "take" /\ cbRunning /\ ~cbInterrupted /\ owed = {}
    BY <1>1, <1>4 DEF Owed
  <2> QED
    BY <1>1, <1>3, <1>4, <2>1, <2>2 DEF Owed
<1> QED
  BY <1>6, <1>7, <1>8, <1>9, <1>10, <1>11 DEF ExecutorIInv

LEMMA InvInterrupted ==
  ASSUME ExecutorIInv, TypeOK', CallbackInterrupt
  PROVE  ExecutorIInv'
<1>1. /\ UNCHANGED <<call, thread, body, cbRunning, cbInterrupted, stopPc, cbNext, cbParam,
                    callbackQueue, received, attempted, owed, overdue>>
      /\ cbPc = "take" /\ cbPc' = "left" /\ cbInterrupted
  BY DEF CallbackInterrupt, cbKeeps, threadVars, stopVars
<1>2. ~InHand /\ ~InHand' /\ Ahead' = Ahead
  BY <1>1 DEF InHand, Ahead
<1>3. ThreadsOwn' /\ NotYet'
  BY <1>1, <1>2 DEF ExecutorIInv, ThreadsOwn, NotYet, Unreported
<1>4. OneResult' /\ Hand'
  BY <1>1, <1>2 DEF ExecutorIInv, OneResult, Hand
<1>5. AllTrue'
  BY <1>1, <1>2 DEF ExecutorIInv, AllTrue, ReportsTrue, Truth
<1>6. Owed'
  BY <1>1, <1>2 DEF ExecutorIInv, Owed, ToPost
<1> QED
  BY <1>3, <1>4, <1>5, <1>6 DEF ExecutorIInv

\* The thread leaves its loop, and hands out the first of what is queued.
LEMMA InvLeave ==
  ASSUME ExecutorIInv, TypeOK', CallbackLeave
  PROVE  ExecutorIInv'
<1>1. /\ UNCHANGED <<call, thread, body, cbRunning, cbInterrupted, stopPc,
                    callbackQueue, received, attempted, owed, overdue>>
      /\ cbPc = "left"
      /\ \/ callbackQueue = << >> /\ cbPc' = "ended" /\ UNCHANGED <<cbParam, cbNext>>
         \/ callbackQueue # << >> /\ cbPc' = "drain" /\ Handout(1)
  BY DEF CallbackLeave, cbKeeps, threadVars, stopVars
<1>2. AllTrue /\ OneResult /\ Hand /\ Owed /\ TypeOK /\ ThreadsOwn /\ NotYet
  BY DEF ExecutorIInv
<1>3. ~InHand /\ Ahead = DOMAIN callbackQueue /\ Ahead' \subseteq DOMAIN callbackQueue
  BY <1>1 DEF InHand, Ahead
<1>4. InHand' => /\ 1 \in DOMAIN callbackQueue /\ cbParam' = callbackQueue[1]
                 /\ cbPc' = "drain" /\ Handout(1)
  BY <1>1, <1>2 DEF InHand, Handout, TypeOK
<1>5. ThreadsOwn'
  BY <1>1, <1>2 DEF ThreadsOwn
<1>6. NotYet'
  BY <1>1, <1>2, <1>4 DEF NotYet, Unreported
<1>7. OneResult'
  BY <1>1, <1>2, <1>3, <1>4 DEF OneResult
<1>8. Hand'
  BY <1>1, <1>2 DEF Hand, Handout
<1>9. AllTrue'
  BY <1>1, <1>2, <1>4 DEF AllTrue, ReportsTrue, Truth
<1>10. Owed'
  <2> SUFFICES ASSUME NEW l, ToPost(l) PROVE ToPost(l)'
    BY <1>1, <1>2 DEF Owed
  <2>1. PICK i \in DOMAIN callbackQueue : callbackQueue[i].log = l
    BY <1>3 DEF ToPost
  <2>4. i \in 1..Len(callbackQueue) /\ Len(callbackQueue) \in Nat
    <3>1. Len(callbackQueue) \in Nat /\ DOMAIN callbackQueue = 1..Len(callbackQueue)
      BY <1>2, ResultsAre
    <3> QED
      BY <3>1
  <2>2. i = 1 \/ (1 < i /\ 1 < Len(callbackQueue))
    BY <2>4
  <2>3. i \in Nat /\ callbackQueue # << >>
    BY <1>2, <2>4 DEF TypeOK
  <2> QED
    BY <1>1, <2>1, <2>2, <2>3 DEF ToPost, Ahead, Handout, InHand
<1> QED
  BY <1>5, <1>6, <1>7, <1>8, <1>9, <1>10 DEF ExecutorIInv

LEMMA InvDrain ==
  ASSUME ExecutorIInv, TypeOK', CallbackDrain
  PROVE  ExecutorIInv'
<1>1. /\ UNCHANGED <<call, thread, body, cbRunning, cbInterrupted, stopPc,
                    callbackQueue, owed, overdue>>
      /\ cbPc = "drain" /\ DoCallback(cbParam)
      /\ \/ cbNext = 0 /\ cbPc' = "ended" /\ UNCHANGED cbNext
         \/ cbNext # 0 /\ cbPc' = "drain" /\ Handout(cbNext)
  BY DEF CallbackDrain, cbKeeps, threadVars, stopVars
<1>2. AllTrue /\ OneResult /\ Hand /\ Owed /\ TypeOK /\ ThreadsOwn /\ NotYet
  BY DEF ExecutorIInv
<1>3. /\ \A l \in Logs : l # cbParam.log => received'[l] = received[l]
      /\ \A l \in Logs : received'[l] = << >> \/ \E code \in Codes : received'[l] = <<code>>
      /\ attempted' = attempted \cup {cbParam.log}
      /\ ReportsTrue'
  BY <1>1, PostOne DEF InHand
<1>4. /\ InHand /\ cbNext \in 0..Len(callbackQueue) /\ Len(callbackQueue) \in Nat
      /\ DOMAIN callbackQueue = 1..Len(callbackQueue)
      /\ \A i \in DOMAIN callbackQueue : callbackQueue[i].log \in Logs
  BY <1>1, <1>2, ResultsAre DEF InHand, TypeOK
<1>5. /\ Ahead = {i \in DOMAIN callbackQueue : cbNext # 0 /\ cbNext <= i}
      /\ Ahead' = {i \in DOMAIN callbackQueue : cbPc' = "drain" /\ cbNext' # 0 /\ cbNext' <= i}
  BY <1>1 DEF Ahead
<1>6. InHand' => /\ cbNext \in DOMAIN callbackQueue /\ cbNext \in Ahead /\ cbNext > 1
                 /\ cbParam' = callbackQueue[cbNext] /\ cbParam = callbackQueue[cbNext - 1]
                 /\ cbNext' = IF cbNext < Len(callbackQueue) THEN cbNext + 1 ELSE 0
  BY <1>1, <1>2, <1>4, <1>5 DEF InHand, Handout, Hand
<1>7. \A i \in Ahead' : i \in Ahead /\ InHand'
  BY <1>1, <1>4, <1>5, <1>6 DEF InHand
<1>8. \A i \in Ahead : callbackQueue[i].log # cbParam.log
  <2>1. \A i \in Ahead : cbNext - 1 \in DOMAIN callbackQueue /\ cbParam = callbackQueue[cbNext - 1]
                        /\ i # cbNext - 1
    BY <1>1, <1>2, <1>4, <1>5 DEF Hand
  <2> QED
    BY <1>2, <1>5, <2>1 DEF OneResult
<1>9. ThreadsOwn'
  BY <1>1, <1>2 DEF ThreadsOwn
<1>10. NotYet'
  BY <1>1, <1>2, <1>3, <1>4, <1>6 DEF NotYet, Unreported
<1>11. OneResult'
  BY <1>1, <1>2, <1>3, <1>4, <1>5, <1>6, <1>7, <1>8 DEF OneResult
<1>12. Hand'
  BY <1>1, <1>2, <1>4, <1>6 DEF Hand, InHand
<1>13. AllTrue'
  <2>1. \A i \in DOMAIN callbackQueue : Truth(callbackQueue[i].log, callbackQueue[i].code)'
    BY <1>1, <1>2 DEF AllTrue, Truth
  <2>2. InHand' => Truth(cbParam.log, cbParam.code)'
    BY <1>1, <1>2, <1>6 DEF AllTrue, Truth
  <2> QED
    BY <1>1, <1>3, <2>1, <2>2 DEF AllTrue
<1>14. Owed'
  <2>1. \A l : ToPost(l) => l = cbParam.log \/ ToPost(l)'
    <3> SUFFICES ASSUME NEW l, ToPost(l), l # cbParam.log PROVE ToPost(l)'
      OBVIOUS
    <3>3. PICK i \in Ahead : callbackQueue[i].log = l
      BY DEF ToPost
    <3>1. cbNext # 0 /\ cbPc' = "drain" /\ InHand'
      BY <1>1, <1>5 DEF InHand
    <3>2. i = cbNext \/ i \in Ahead'
      BY <1>4, <1>5, <1>6, <3>1
    <3> QED
      BY <1>1, <1>6, <3>1, <3>2, <3>3 DEF ToPost
  <2>2. stopPc # "no"
    BY <1>1, <1>2 DEF Owed
  <2> QED
    BY <1>1, <1>2, <1>3, <2>1, <2>2 DEF Owed
<1> QED
  BY <1>9, <1>10, <1>11, <1>12, <1>13, <1>14 DEF ExecutorIInv

-----------------------------------------------------------------------------
(* The invariant: stop, and a new process *)

LEMMA InvStop ==
  ASSUME ExecutorIInv, TypeOK', Stop
  PROVE  ExecutorIInv'
<1>1. UNCHANGED <<call, thread, body, callbackQueue, cbPc, cbParam, cbNext, received,
                  attempted, overdue>>
  BY DEF Stop, StopFlag, StopInterrupt, StopServer, stopKeeps, threadVars, cbVars
<1>2. stopPc' # "no"
  BY DEF Stop, StopFlag, StopInterrupt, StopServer
<1>3. ThreadsOwn' /\ NotYet' /\ OneResult' /\ Hand'
  BY <1>1, SameResults DEF ExecutorIInv, ThreadsOwn, NotYet
<1>4. AllTrue'
  BY <1>1 DEF ExecutorIInv, AllTrue, ReportsTrue, Truth, InHand
<1>5. \A l \in owed' : l \in attempted \/ ToPost(l)
  <2>1. CASE owed' = owed
    BY <2>1 DEF ExecutorIInv, Owed
  <2>2. CASE StopFlag
    <3>1. cbPc \in {"take", "post"}
      BY <2>2 DEF StopFlag, ExecutorIInv, Owed
    <3>2. Ahead = DOMAIN callbackQueue
      BY <3>1 DEF Ahead
    <3> QED
      BY <2>2, <3>2 DEF StopFlag, ToPost
  <2> QED
    BY <2>1, <2>2 DEF Stop, StopInterrupt, StopServer
<1>6. Owed'
  BY <1>1, <1>2, <1>5, SameResults DEF Owed
<1> QED
  BY <1>3, <1>4, <1>6 DEF ExecutorIInv

LEMMA InvRestart ==
  ASSUME ExecutorIInv, TypeOK', Restart
  PROVE  ExecutorIInv'
<1>1. /\ thread' = [l \in Logs |-> NoThread] /\ callbackQueue' = << >> /\ cbPc' = "take"
      /\ cbNext' = 0 /\ owed' = {} /\ received' = received /\ overdue' = overdue
      /\ call' = [l \in Logs |-> IF call[l] = "started" THEN "broken" ELSE call[l]]
      /\ body' = [l \in Logs |-> IF body[l] = "running" THEN "killed" ELSE body[l]]
  BY DEF Restart, Fresh
<1>2. cbRunning' /\ ~cbInterrupted'
  BY DEF Restart, Fresh
<1>3. ~InHand' /\ DOMAIN callbackQueue' = {} /\ Ahead' = {}
  BY <1>1 DEF InHand, Ahead
<1>4. ThreadsOwn'
  BY <1>1 DEF ThreadsOwn, NoThread
<1>5. NotYet'
  <2>1. \A l \in Logs : call'[l] # "accepted" => call[l] # "accepted"
    BY <1>1
  <2>2. \A l \in Logs : thread'[l].jobQueue # <<l>>
    BY <1>1 DEF NoThread
  <2> QED
    BY <1>1, <1>3, <2>1, <2>2 DEF NotYet, Unreported, ExecutorIInv
<1>6. OneResult'
  BY <1>1, <1>3 DEF ExecutorIInv, OneResult
<1>7. Hand'
  BY <1>1 DEF Hand
<1>8. AllTrue'
  <2>1. \A l \in Logs : body[l] \in {Success, Fail} => body'[l] = body[l]
    BY <1>1 DEF Success, Fail
  <2> QED
    BY <1>1, <1>3, <2>1 DEF ExecutorIInv, AllTrue, ReportsTrue
<1>9. Owed'
  BY <1>1, <1>2 DEF Owed
<1> QED
  BY <1>4, <1>5, <1>6, <1>7, <1>8, <1>9 DEF ExecutorIInv

-----------------------------------------------------------------------------
(* The invariant of the executor *)

LEMMA InvInit == Init => ExecutorIInv
<1> SUFFICES ASSUME Init PROVE ExecutorIInv
  OBVIOUS
<1>1. TypeOK
  BY InitType
<1>2. ~InHand /\ DOMAIN callbackQueue = {} /\ Ahead = {}
  BY DEF Init, InHand, Ahead
<1>3. ThreadsOwn
  BY DEF Init, ThreadsOwn, NoThread
<1>4. NotYet /\ OneResult
  BY <1>2 DEF Init, NotYet, Unreported, OneResult
<1>5. Hand /\ AllTrue
  BY <1>2 DEF Init, Hand, AllTrue, ReportsTrue
<1>6. Owed
  <2>1. cbRunning /\ ~cbInterrupted
    BY DEF Init
  <2> QED
    BY <2>1 DEF Init, Owed
<1> QED
  BY <1>1, <1>3, <1>4, <1>5, <1>6 DEF ExecutorIInv

LEMMA InvNext == ASSUME ExecutorIInv, [Next]_vars PROVE ExecutorIInv'
<1>1. TypeOK'
  BY NextType DEF ExecutorIInv
<1>2. CASE UNCHANGED vars
  <2>1. UNCHANGED <<call, thread, body, callbackQueue, cbPc, cbParam, cbNext, cbRunning,
                    cbInterrupted, stopPc, received, attempted, owed, overdue>>
    BY <1>2 DEF vars, threadVars, cbVars, stopVars, history
  <2>2. ThreadsOwn' /\ NotYet' /\ OneResult' /\ Hand'
    BY <2>1, SameResults DEF ExecutorIInv, ThreadsOwn, NotYet
  <2>3. AllTrue'
    BY <2>1 DEF ExecutorIInv, AllTrue, ReportsTrue, Truth, InHand
  <2>4. Owed'
    BY <2>1, SameResults DEF ExecutorIInv, Owed
  <2> QED
    BY <1>1, <2>2, <2>3, <2>4 DEF ExecutorIInv
<1>3. CASE \E l \in Logs : Run(l) \/ HandlerEnds(l)
  BY <1>1, <1>3, InvRun, InvHandlerEnds
<1>4. CASE \E t \in Logs : JobThread(t)
  BY <1>1, <1>4, InvPoll, InvReturns, InvTimesOut DEF JobThread
<1>5. CASE CallbackThread
  BY <1>1, <1>5, InvTake, InvPost, InvInterrupted, InvLeave, InvDrain DEF CallbackThread
<1>6. CASE Stop
  BY <1>1, <1>6, InvStop
<1>7. CASE Restart
  BY <1>1, <1>7, InvRestart
<1> QED
  BY <1>2, <1>3, <1>4, <1>5, <1>6, <1>7 DEF Next

\* What the properties are in it.
LEMMA InvImplies == ExecutorIInv => TypeOK /\ ReportsTrue /\ DrainedAtEnd
<1> SUFFICES ASSUME ExecutorIInv PROVE TypeOK /\ ReportsTrue /\ DrainedAtEnd
  OBVIOUS
<1>1. cbPc = "ended" => ~InHand /\ Ahead = {}
  BY DEF InHand, Ahead
<1> QED
  BY <1>1 DEF ExecutorIInv, AllTrue, Owed, ToPost, DrainedAtEnd

\* The states an executor can be in: the result of a log is true and in one place at a time.
THEOREM ExecutorInvariant == Spec => []ExecutorIInv
BY InvInit, InvNext, PTL DEF Spec

-----------------------------------------------------------------------------
(* ExecutorRole: what the admin relies on *)

Accepted == {l \in Logs : call[l] = "accepted"}

LEMMA RoleInit == Init => Role!Init
BY DEF Init, Role!Init

\* addJobQueue takes the request.
LEMMA RoleTake ==
  ASSUME ExecutorIInv, NEW l \in Logs, RunAddJobQueue(l)
  PROVE  Role!Take(l)
<1>1. /\ call[l] = "started" /\ call' = [call EXCEPT ![l] = "accepted"] /\ received' = received
      /\ call \in [Logs -> {"unsent", "started", "accepted", "refused", "broken"}]
  BY DEF RunAddJobQueue, runKeeps, ExecutorIInv, TypeOK
<1>2. Accepted' = Accepted \cup {l} /\ l \notin Accepted
  BY <1>1 DEF Accepted
<1> QED
  BY <1>1, <1>2 DEF Role!Take, Accepted

\* A post that reaches the admin reports, on a request that was taken and not reported on.
LEMMA RoleReport ==
  ASSUME ExecutorIInv, InHand, DoCallback(cbParam), UNCHANGED call
  PROVE  Role!Next \/ UNCHANGED <<Accepted, received>>
<1> DEFINE l == cbParam.log
<1>1. l \in Logs /\ cbParam.code \in Codes /\ received[l] = << >>
  BY ResultsAre DEF ExecutorIInv, OneResult
<1>2. call[l] = "accepted"
  BY <1>1 DEF ExecutorIInv, NotYet, Unreported
<1>3. Append(<< >>, cbParam.code) = <<cbParam.code>>
  OBVIOUS
<1>4. \/ received' = received
      \/ received' = [received EXCEPT ![l] = <<cbParam.code>>]
  BY <1>1, <1>3 DEF DoCallback
<1>5. UNCHANGED Accepted
  BY DEF Accepted
<1>6. CASE received' = [received EXCEPT ![l] = <<cbParam.code>>]
  <2>1. Role!Report(l, cbParam.code)
    BY <1>1, <1>2, <1>5, <1>6 DEF Role!Report, Accepted
  <2> QED
    BY <1>1, <2>1 DEF Role!Next
<1> QED
  BY <1>4, <1>5, <1>6

LEMMA RoleNext ==
  ASSUME ExecutorIInv, [Next]_vars
  PROVE  Role!Next \/ UNCHANGED <<Accepted, received>>
<1>1. CASE UNCHANGED <<call, received>>
  BY <1>1 DEF Accepted
<1>2. CASE \E l \in Logs : Run(l)
  <2> PICK l \in Logs : Run(l)
    BY <1>2
  <2>1. CASE RunAddJobQueue(l)
    BY <2>1, RoleTake DEF Role!Next
  <2>2. CASE RunRefuse(l) \/ RunStartThread(l)
    <3>1. /\ received' = received /\ call[l] = "unsent"
          /\ call' = [call EXCEPT ![l] = "refused"] \/ call' = [call EXCEPT ![l] = "started"]
          /\ call \in [Logs -> {"unsent", "started", "accepted", "refused", "broken"}]
      BY <2>2 DEF RunRefuse, RunStartThread, runKeeps, Arrives, ExecutorIInv, TypeOK
    <3>2. Accepted' = Accepted
      BY <3>1 DEF Accepted
    <3> QED
      BY <3>1, <3>2
  <2> QED
    BY <2>1, <2>2 DEF Run
<1>3. CASE CallbackPost \/ CallbackDrain
  BY <1>3, RoleReport DEF CallbackPost, CallbackDrain, cbKeeps, InHand
<1>4. CASE Restart
  <2>1. /\ received' = received
        /\ call' = [l \in Logs |-> IF call[l] = "started" THEN "broken" ELSE call[l]]
    BY <1>4 DEF Restart
  <2>2. Accepted' = Accepted
    BY <2>1 DEF Accepted
  <2> QED
    BY <2>1, <2>2
<1>5. CASE \E l \in Logs : HandlerEnds(l) \/ JobThread(l)
  BY <1>1, <1>5 DEF HandlerEnds, JobThread, Poll, InvokeReturns, InvokeTimesOut, threadKeeps
<1>6. CASE CallbackTake \/ CallbackInterrupt \/ CallbackLeave
  BY <1>1, <1>6 DEF CallbackTake, CallbackInterrupt, CallbackLeave, cbKeeps
<1>7. CASE Stop
  BY <1>1, <1>7 DEF Stop, StopFlag, StopInterrupt, StopServer, stopKeeps
<1>8. CASE UNCHANGED vars
  BY <1>1, <1>8 DEF vars
<1> QED
  BY <1>2, <1>3, <1>4, <1>5, <1>6, <1>7, <1>8 DEF Next, CallbackThread

-----------------------------------------------------------------------------
(* The theorems *)

\* JobThread and CallbackThread: what an executor reports of a run is what happened in it, a
\* success only if the handler returned one before its timeout, however many processes have
\* run and wherever one was killed.
THEOREM ReportsAreTrue == Spec => []ReportsTrue
BY ExecutorInvariant, InvImplies, PTL

\* CallbackThread.stop: what was queued when stop began has been posted when the callback
\* thread has ended, at whatever place of its loop the flag and the interrupt met it.
THEOREM StopDrains == Spec => []DrainedAtEnd
BY ExecutorInvariant, InvImplies, PTL

\* An executor is one to the admin as ExecutorRole says: it reports at most once on a request
\* it has taken, and on no other.
THEOREM ExecutorImplementsRole == Spec => ImplementsRole
<1>1. ExecutorIInv /\ [Next]_vars
        => [Role!Next]_<<{l \in Logs : call[l] = "accepted"}, received>>
  BY RoleNext DEF Accepted
<1> QED
  BY <1>1, RoleInit, ExecutorInvariant, PTL DEF Spec, ImplementsRole, Role!Spec
=============================================================================

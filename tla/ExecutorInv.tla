---------------------------- MODULE ExecutorInv ----------------------------
(***************************************************************************)
(* Why an executor reports on a request at most once and truly, and why    *)
(* its stop posts what is queued: where the result of a log may be.  It is *)
(* in one place at a time, on the way from the thread that runs the log    *)
(* over CALLBACK_QUEUE and the callback thread's hand to the admin.        *)
(***************************************************************************)
EXTENDS Executor

\* the callback thread has a result in its hand, to be posted next
InHand == cbPc \in {"post", "drain"}

\* the places of CALLBACK_QUEUE whose results the callback thread will still look at: the
\* drain is past those before its iterator, and what comes after the thread has ended is left
Ahead == {i \in DOMAIN callbackQueue :
            IF cbPc = "drain" THEN cbNext # 0 /\ cbNext <= i ELSE cbPc # "ended"}

ToPost(l) ==
  \/ InHand /\ cbParam.log = l
  \/ \E i \in Ahead : callbackQueue[i].log = l

\* no result of l has left its thread, and l is not over its time
Unreported(l) ==
  /\ l \notin overdue
  /\ received[l] = << >>
  /\ InHand => cbParam.log # l
  /\ \A i \in DOMAIN callbackQueue : callbackQueue[i].log # l

\* what a result of l with this code says of its run is so
Truth(l, code) ==
  IF code = Success THEN body[l] = Success /\ l \notin overdue
  ELSE body[l] = Fail \/ l \in overdue

-----------------------------------------------------------------------------
\* A job thread holds the one log it was started for, and only once the request is answered.
ThreadsOwn ==
  \A l \in Logs :
    /\ thread[l].jobQueue \in {<< >>, <<l>>}
    /\ thread[l].pc = "invoke" => thread[l].jobQueue = <<l>>
    /\ thread[l].jobQueue = <<l>> => call[l] = "accepted" /\ thread[l].pc # "none"
    /\ call[l] = "started" => thread[l].pc = "poll"

\* A log that was not accepted, or is still with its thread, has no result.
NotYet ==
  \A l \in Logs : call[l] # "accepted" \/ thread[l].jobQueue = <<l>> => Unreported(l)

\* No log is queued twice, none that is still to be posted has been received, and none
\* has been received twice.
OneResult ==
  /\ \A i, k \in DOMAIN callbackQueue : callbackQueue[i].log = callbackQueue[k].log => i = k
  /\ \A i \in Ahead : received[callbackQueue[i].log] = << >>
  /\ InHand => received[cbParam.log] = << >>
  /\ \A l \in Logs : received[l] = << >> \/ \E code \in Codes : received[l] = <<code>>

\* The callback thread's hand: what it took from the queue, or stands before the iterator.
Hand ==
  /\ cbPc = "post" => \A i \in DOMAIN callbackQueue : callbackQueue[i].log # cbParam.log
  /\ cbPc = "drain" /\ cbNext # 0 => cbNext > 1 /\ cbParam = callbackQueue[cbNext - 1]
  /\ cbPc # "drain" => cbNext = 0

\* Every result on its way is true, and stays so though its handler may still run.
AllTrue ==
  /\ \A i \in DOMAIN callbackQueue : Truth(callbackQueue[i].log, callbackQueue[i].code)
  /\ InHand => Truth(cbParam.log, cbParam.code)
  /\ ReportsTrue

\* What was queued when stop began has been posted or is still to be; before it, the
\* callback thread is in its loop.
Owed ==
  /\ stopPc = "no" => cbRunning /\ ~cbInterrupted /\ cbPc \in {"take", "post"} /\ owed = {}
  /\ \A l \in owed : l \in attempted \/ ToPost(l)

ExecutorIInv ==
  TypeOK /\ ThreadsOwn /\ NotYet /\ OneResult /\ Hand /\ AllTrue /\ Owed
=============================================================================

--------------------------- MODULE DispatchProofs ---------------------------
(* What holds of Dispatch for every value of its constants *)
EXTENDS DispatchInv, ExecutorProofs

USE DispatchAssumption

-----------------------------------------------------------------------------
(* The executor within *)

\* Each step of the whole is one of the executor Here, or does not touch it.
LEMMA ExecutorStep == [DispatchNext]_dispatchVars => [Next]_vars
<1>1. ASSUME NEW l \in Logs, Start(l) \/ FarReports(l) PROVE UNCHANGED vars
  BY <1>1 DEF Start, FarReports
<1>2. ASSUME NEW l \in Logs, DoTrigger(l) PROVE Run(l) \/ UNCHANGED vars
  BY <1>2 DEF DoTrigger, ChooseByList, Beat, IdleBeat, NoAddress, PostRunHere, PostRunFar,
              PostRunFails, RunAnswered, RunUnanswered, Run
<1>3. ASSUME NEW l \in Logs, Runs(l) PROVE Next
  BY <1>3 DEF Runs, Run, Next
<1>4. ASSUME NEW c \in callbacks, AdminCallback(c) PROVE UNCHANGED vars
  BY <1>4 DEF AdminCallback
<1>5. Reports \/ Stops => Next
  BY DEF Reports, Stops, Next
<1>6. UNCHANGED dispatchVars => UNCHANGED vars
  BY DEF dispatchVars
<1> QED
  BY <1>1, <1>2, <1>3, <1>4, <1>5, <1>6 DEF DispatchNext, Next

LEMMA ExecutorWithin == DispatchSpec => Spec
<1>1. DispatchInit => Init
  BY DEF DispatchInit
<1> QED
  BY <1>1, ExecutorStep, PTL DEF DispatchSpec, Spec

\* What a step of the executor's own threads, or of its process, does to a request.
LEMMA ExecutorMoves ==
  ASSUME ExecutorIInv, ExecutorIInv', NEW l \in Logs,
         (\E k \in Logs : RunAddJobQueue(k) \/ HandlerEnds(k) \/ JobThread(k))
           \/ CallbackThread \/ Stop \/ Restart
  PROVE  /\ call[l] = "unsent" <=> call'[l] = "unsent"
         /\ call[l] = "accepted" => call'[l] = "accepted"
         /\ call'[l] = "accepted" /\ call[l] # "accepted" => call[l] = "started"
         /\ \/ received'[l] = received[l]
            \/ received[l] = << >> /\ \E code \in Codes : received'[l] = <<code>>
<1>1. \/ received'[l] = received[l]
      \/ received[l] = << >> /\ \E code \in Codes : received'[l] = <<code>>
  <2>1. CASE CallbackPost \/ CallbackDrain
    <3>1. /\ \A k \in Logs : k # cbParam.log => received'[k] = received[k]
          /\ \A k \in Logs : received'[k] = << >> \/ \E code \in Codes : received'[k] = <<code>>
      BY <2>1, PostOne DEF CallbackPost, CallbackDrain, InHand, cbKeeps, threadVars
    <3>2. received[cbParam.log] = << >>
      BY <2>1 DEF CallbackPost, CallbackDrain, InHand, ExecutorIInv, OneResult
    <3> QED
      BY <3>1, <3>2
  <2>2. CASE UNCHANGED received
    BY <2>2
  <2> QED
    BY <2>1, <2>2
    DEF RunAddJobQueue, runKeeps, HandlerEnds, JobThread, Poll, InvokeReturns, InvokeTimesOut,
        threadKeeps, CallbackThread, CallbackTake, CallbackInterrupt, CallbackLeave, cbKeeps,
        Stop, StopFlag, StopInterrupt, StopServer, stopKeeps, Restart
<1>2. call \in [Logs -> {"unsent", "started", "accepted", "refused", "broken"}]
  BY DEF ExecutorIInv, TypeOK
<1>3. CASE UNCHANGED call
  BY <1>1, <1>3
<1>4. CASE \E k \in Logs : RunAddJobQueue(k)
  BY <1>1, <1>2, <1>4 DEF RunAddJobQueue
<1>5. CASE Restart
  BY <1>1, <1>2, <1>5 DEF Restart
<1> QED
  BY <1>3, <1>4, <1>5
  DEF HandlerEnds, JobThread, Poll, InvokeReturns, InvokeTimesOut, threadKeeps, CallbackThread,
      CallbackTake, CallbackPost, CallbackInterrupt, CallbackLeave, CallbackDrain, cbKeeps,
      Stop, StopFlag, StopInterrupt, StopServer, stopKeeps

-----------------------------------------------------------------------------
(* Types *)

\* the admin's part of DispatchTypeOK
AdminTypeOK ==
  /\ route \in [Logs -> Route] /\ trig \in [Logs -> Trigger]
  /\ row \in [Logs -> Row] /\ callbacks \subseteq Callback
  /\ far \in [Logs -> {"none", "accepted"} \cup Codes] /\ steady \subseteq Logs

\* A route's record, and what becomes of it.
LEMMA RouteType ==
  /\ NoRoute \in Route
  /\ NoRoute = [pc |-> "none", strategy |-> "none", left |-> << >>, address |-> Nowhere]
  /\ \A r \in Route : /\ r.pc \in {"none", "route", "chosen", "not_found"}
                      /\ r.strategy \in Strategy \cup {"none"}
                      /\ r.left \in Seq(Addresses) /\ r.address \in Addresses \cup {Nowhere}
  /\ \A p \in {"none", "route", "chosen", "not_found"}, s \in Strategy \cup {"none"},
        q \in Seq(Addresses), a \in Addresses \cup {Nowhere} :
       [pc |-> p, strategy |-> s, left |-> q, address |-> a] \in Route
<1>1. << >> \in Seq(Addresses)
  OBVIOUS
<1> QED
  BY <1>1 DEF NoRoute, Route

\* A row's, too.
LEMMA RowType ==
  /\ \A r \in Row : /\ r.trigger \in {"NONE"} \cup Codes /\ r.exec \in {"NONE"} \cup Codes
                    /\ r.address \in Addresses \cup {Nowhere}
                    /\ \A t \in Codes, a \in Addresses \cup {Nowhere} :
                         [r EXCEPT !.trigger = t, !.address = a] \in Row
                    /\ \A e \in Codes : [r EXCEPT !.exec = e] \in Row
BY DEF Row

\* What the look at an address, or at the list, makes of a route.
LEMMA ChooseIs ==
  ASSUME route \in [Logs -> Route], NEW l \in Logs, NEW a \in Addresses, Choose(l, a)
  PROVE  /\ route' \in [Logs -> Route] /\ \A k \in Logs : k # l => route'[k] = route[k]
         /\ route'[l].pc = "chosen" /\ route'[l].address = a /\ route'[l].strategy = "none"
<1> DEFINE r == [NoRoute EXCEPT !.pc = "chosen", !.address = a]
<1>1. r \in Route
  BY RouteType DEF Route
<1>2. r.pc = "chosen" /\ r.address = a /\ r.strategy = "none"
  BY RouteType DEF Route
<1>3. route' = [route EXCEPT ![l] = r]
  BY DEF Choose
<1> HIDE DEF r
<1> QED
  BY <1>1, <1>2, <1>3

LEMMA TryNextIs ==
  ASSUME route \in [Logs -> Route], NEW l \in Logs, TryNext(l), route[l].left # << >>
  PROVE  /\ route' \in [Logs -> Route] /\ \A k \in Logs : k # l => route'[k] = route[k]
         /\ route'[l].pc = route[l].pc /\ route'[l].address = route[l].address
         /\ route'[l].strategy = route[l].strategy /\ route'[l].left = Tail(route[l].left)
<1>1. route[l] \in Route /\ route[l].left \in Seq(Addresses)
  BY RouteType
<1>2. Tail(route[l].left) \in Seq(Addresses)
  BY <1>1
<1>3. [route[l] EXCEPT !.left = Tail(@)] \in Route
  BY <1>1, <1>2 DEF Route
<1> QED
  BY <1>1, <1>3 DEF TryNext, Route

LEMMA NotFoundIs ==
  ASSUME route \in [Logs -> Route], NEW l \in Logs, NotFound(l)
  PROVE  /\ route' \in [Logs -> Route] /\ \A k \in Logs : k # l => route'[k] = route[k]
         /\ route'[l].pc = "not_found" /\ route'[l].address = route[l].address
         /\ route'[l].strategy = route[l].strategy /\ route'[l].left = route[l].left
         /\ route[l].pc = "route" /\ route[l].left = << >>
<1>1. [route[l] EXCEPT !.pc = "not_found"] \in Route
  BY DEF Route
<1> QED
  BY <1>1 DEF NotFound, Route

LEMMA StartIs ==
  ASSUME route \in [Logs -> Route], NEW l \in Logs, StartRoute(l)
  PROVE  /\ route' \in [Logs -> Route] /\ \A k \in Logs : k # l => route'[k] = route[k]
         /\ route'[l].pc = "route" /\ route'[l].address = Nowhere
<1>1. PICK s \in Strategies[l], list \in Lists :
        route' = [route EXCEPT ![l] = [NoRoute EXCEPT !.pc = "route", !.strategy = s, !.left = list]]
  BY DEF StartRoute
<1> DEFINE r == [NoRoute EXCEPT !.pc = "route", !.strategy = s, !.left = list]
<1>2. s \in Strategy /\ list \in Seq(Addresses)
  OBVIOUS
<1>3. r \in Route
  BY <1>2, RouteType DEF Route
<1>4. r.pc = "route" /\ r.address = Nowhere
  BY RouteType DEF Route
<1>5. route' = [route EXCEPT ![l] = r]
  BY <1>1
<1> HIDE DEF r
<1> QED
  BY <1>3, <1>4, <1>5

LEMMA EndsIs ==
  ASSUME AdminTypeOK, NEW l \in Logs, NEW code \in Codes, Ends(l, code)
  PROVE  /\ row' \in [Logs -> Row] /\ \A k \in Logs : k # l => row'[k] = row[k]
         /\ row'[l].trigger = code /\ row'[l].address = route[l].address
         /\ row'[l].exec = row[l].exec
         /\ trig' = [trig EXCEPT ![l] = "done"] /\ trig' \in [Logs -> Trigger]
         /\ route' \in [Logs -> Route] /\ \A k \in Logs : k # l => route'[k] = route[k]
         /\ route'[l].pc = "none" /\ route'[l].address = Nowhere /\ route'[l].strategy = "none"
<1>1. /\ route \in [Logs -> Route] /\ trig \in [Logs -> Trigger] /\ row \in [Logs -> Row]
      /\ trig' = [trig EXCEPT ![l] = "done"] /\ route' = [route EXCEPT ![l] = NoRoute]
      /\ row' = [row EXCEPT ![l].trigger = code, ![l].address = route[l].address]
  BY DEF AdminTypeOK, Ends
<1>2. row[l] \in Row /\ route[l].address \in Addresses \cup {Nowhere}
  BY <1>1, RouteType
<1> DEFINE r == [row[l] EXCEPT !.trigger = code, !.address = route[l].address]
<1>3. /\ r \in Row /\ r.trigger = code /\ r.address = route[l].address /\ r.exec = row[l].exec
      /\ row' = [row EXCEPT ![l] = r]
  BY <1>1, <1>2 DEF Row
<1> HIDE DEF r
<1>4. /\ row' \in [Logs -> Row] /\ \A k \in Logs : k # l => row'[k] = row[k]
      /\ row'[l].trigger = code /\ row'[l].address = route[l].address /\ row'[l].exec = row[l].exec
  BY <1>1, <1>3
<1>5. trig' \in [Logs -> Trigger]
  BY <1>1 DEF Trigger
<1> QED
  BY <1>1, <1>4, <1>5, RouteType

-----------------------------------------------------------------------------
(* The invariant: the trigger's thread *)

\* The parts of the invariant that an action of the trigger's thread can disturb
AdminIInv == AdminTypeOK /\ Stages /\ OneAddress /\ Results /\ Steady

\* A look at an answer or at the list moves the route of one trigger, that is still routing.
LEMMA RouteMove ==
  ASSUME AdminIInv, NEW l \in Logs, route[l].pc = "route",
         UNCHANGED <<call, received, triggerKeeps, trig, row>>,
         route' \in [Logs -> Route], \A k \in Logs : k # l => route'[k] = route[k],
         route'[l].pc # "none",
         IF route'[l].pc = "chosen" THEN route'[l].address \in Addresses
         ELSE route'[l].address = Nowhere,
         steady' \subseteq steady
  PROVE  trig[l] = "route" /\ AdminTypeOK' /\ Stages' /\ OneAddress' /\ Results'
<1>1. trig[l] = "route"
  BY DEF AdminIInv, AdminTypeOK, Stages, Trigger
<1>2. AdminTypeOK'
  BY DEF AdminIInv, AdminTypeOK, triggerKeeps
<1>3. Stages'
  BY <1>1 DEF AdminIInv, Stages, triggerKeeps
<1>4. OneAddress'
  BY <1>1 DEF AdminIInv, OneAddress, triggerKeeps
<1>5. Results'
  BY DEF AdminIInv, Results, Reported, triggerKeeps
<1> QED
  BY <1>1, <1>2, <1>3, <1>4, <1>5

LEMMA ChooseMove ==
  ASSUME AdminIInv, NEW l \in Logs, NEW a \in Addresses, Choose(l, a), route[l].pc = "route",
         UNCHANGED <<call, received, triggerKeeps, trig, row>>, AfterLook(l)
  PROVE  AdminIInv'
<1>1. /\ route' \in [Logs -> Route] /\ \A k \in Logs : k # l => route'[k] = route[k]
      /\ route'[l].pc = "chosen" /\ route'[l].address = a
  BY ChooseIs DEF AdminIInv, AdminTypeOK
<1>2. steady' = steady \ {l}
  BY <1>1 DEF AfterLook
<1>3. AdminTypeOK' /\ Stages' /\ OneAddress' /\ Results'
  BY <1>1, <1>2, RouteMove
<1>4. Steady'
  BY <1>1, <1>2 DEF AdminIInv, Steady
<1> QED
  BY <1>3, <1>4 DEF AdminIInv

LEMMA TryNextMove ==
  ASSUME AdminIInv, NEW l \in Logs, TryNext(l), route[l].pc = "route", route[l].left # << >>,
         UNCHANGED <<call, received, triggerKeeps, trig, row>>,
         AfterFailure(l, NextAddress(l)) \/ (route[l].strategy # "fail_over" /\ AfterLook(l))
  PROVE  AdminIInv'
<1>1. /\ route' \in [Logs -> Route] /\ \A k \in Logs : k # l => route'[k] = route[k]
      /\ route'[l].pc = "route" /\ route'[l].address = Nowhere
      /\ route'[l].strategy = route[l].strategy /\ route'[l].left = Tail(route[l].left)
  BY TryNextIs DEF AdminIInv, AdminTypeOK, Stages
<1>2. steady' \subseteq steady
  BY DEF AfterFailure, AfterLook
<1>3. AdminTypeOK' /\ Stages' /\ OneAddress' /\ Results'
  BY <1>1, <1>2, RouteMove
<1>4. l \in steady' /\ route[l].strategy = "fail_over" =>
        \E i \in DOMAIN route'[l].left : route'[l].left[i] = Here
  <2> SUFFICES ASSUME l \in steady', route[l].strategy = "fail_over"
               PROVE  \E i \in DOMAIN route'[l].left : route'[l].left[i] = Here
    OBVIOUS
  <2> DEFINE q == route[l].left
  <2>1. l \in steady /\ Head(q) # Here
    BY <1>2 DEF AfterFailure, NextAddress
  <2>2. PICK i \in DOMAIN q : q[i] = Here
    BY <2>1 DEF AdminIInv, Steady
  <2>3. q \in Seq(Addresses) /\ q # << >>
    BY RouteType DEF AdminIInv, AdminTypeOK
  <2> HIDE DEF q
  <2>4. /\ Head(q) = q[1] /\ DOMAIN q = 1..Len(q) /\ DOMAIN Tail(q) = 1..Len(q) - 1
        /\ Len(q) \in Nat \ {0} /\ \A k \in 1..Len(q) - 1 : Tail(q)[k] = q[k + 1]
    BY <2>3, TailPlaces
  <2>5. i - 1 \in DOMAIN Tail(q) /\ Tail(q)[i - 1] = Here
    BY <2>1, <2>2, <2>4
  <2> QED
    BY <1>1, <2>5 DEF q
<1>5. Steady'
  BY <1>1, <1>2, <1>4 DEF AdminIInv, Steady
<1> QED
  BY <1>3, <1>5 DEF AdminIInv

LEMMA InvByList ==
  ASSUME AdminIInv, NEW l \in Logs, ChooseByList(l)
  PROVE  AdminIInv'
<1>1. UNCHANGED <<call, received, triggerKeeps, trig, row>> /\ AfterLook(l)
  BY DEF ChooseByList, vars
<1>2. CASE First(l) \/ Last(l)
  <2>1. /\ route[l].pc = "route" /\ route[l].left # << >>
        /\ Choose(l, Head(route[l].left)) \/ Choose(l, route[l].left[Len(route[l].left)])
    BY <1>2 DEF First, Last, Routes, NextAddress
  <2>2. route[l].left \in Seq(Addresses)
    BY RouteType DEF AdminIInv, AdminTypeOK
  <2>3. Head(route[l].left) \in Addresses /\ route[l].left[Len(route[l].left)] \in Addresses
    BY <2>1, <2>2
  <2> QED
    BY <1>1, <2>1, <2>3, ChooseMove
<1>3. CASE NotFound(l)
  <2>1. /\ route' \in [Logs -> Route] /\ \A k \in Logs : k # l => route'[k] = route[k]
        /\ route'[l].pc = "not_found" /\ route'[l].address = route[l].address
        /\ route'[l].strategy = route[l].strategy /\ route'[l].left = route[l].left
        /\ route[l].pc = "route" /\ route[l].left = << >>
    BY <1>3, NotFoundIs DEF AdminIInv, AdminTypeOK
  <2>2. steady' = steady /\ route[l].address = Nowhere
    BY <1>1, <2>1 DEF AfterLook, AdminIInv, Stages
  <2>3. AdminTypeOK' /\ Stages' /\ OneAddress' /\ Results'
    BY <1>1, <2>1, <2>2, RouteMove
  <2>4. Steady'
    BY <1>1, <2>1, <2>2 DEF AdminIInv, Steady
  <2> QED
    BY <2>3, <2>4 DEF AdminIInv
<1> QED
  BY <1>2, <1>3 DEF ChooseByList

\* A post to the address at the head, for a beat or an idle beat.
LEMMA InvBeats ==
  ASSUME AdminIInv, NEW l \in Logs, Beat(l) \/ IdleBeat(l)
  PROVE  AdminIInv'
<1>1. UNCHANGED <<call, received, triggerKeeps, trig, row>>
  BY DEF Beat, IdleBeat, vars
<1>2. route[l].pc = "route" /\ route[l].left # << >>
  BY DEF Beat, IdleBeat, FailOver, BusyOver, Routes
<1>3. route[l].left \in Seq(Addresses) /\ NextAddress(l) \in Addresses
  <2>1. route[l].left \in Seq(Addresses)
    BY RouteType DEF AdminIInv, AdminTypeOK
  <2> QED
    BY <1>2, <2>1 DEF NextAddress
<1>4. \/ Choose(l, NextAddress(l)) /\ AfterLook(l)
      \/ TryNext(l) /\ AfterFailure(l, NextAddress(l))
      \/ TryNext(l) /\ route[l].strategy # "fail_over" /\ AfterLook(l)
  BY DEF Beat, IdleBeat, FailOver, BusyOver, Routes
<1> QED
  BY <1>1, <1>2, <1>3, <1>4, ChooseMove, TryNextMove

LEMMA InvStart ==
  ASSUME AdminIInv, NEW l \in Logs, Start(l)
  PROVE  AdminIInv'
<1>1. /\ UNCHANGED <<call, received, callbacks, far, row>>
      /\ trig[l] = "none" /\ trig' = [trig EXCEPT ![l] = "route"] /\ DOMAIN trig = Logs
  BY DEF Start, triggerKeeps, vars, AdminIInv, AdminTypeOK
<1>2. /\ route' \in [Logs -> Route] /\ \A k \in Logs : k # l => route'[k] = route[k]
      /\ route'[l].pc = "route" /\ route'[l].address = Nowhere
  BY StartIs DEF Start, AdminIInv, AdminTypeOK
<1>3. /\ \A k \in Logs : k # l /\ k \in steady' => k \in steady
      /\ l \in steady' => \E i \in DOMAIN route'[l].left : route'[l].left[i] = Here
      /\ steady' \subseteq Logs
  <2>1. steady \subseteq Logs /\ l \notin steady
    BY <1>1 DEF AdminIInv, AdminTypeOK, Steady
  <2> QED
    BY <2>1 DEF Start
<1>4. trig' \in [Logs -> Trigger]
  BY <1>1 DEF AdminIInv, AdminTypeOK, Trigger
<1>5. AdminTypeOK'
  BY <1>1, <1>2, <1>3, <1>4 DEF AdminIInv, AdminTypeOK
<1>6. Stages' /\ OneAddress'
  BY <1>1, <1>2 DEF AdminIInv, Stages, OneAddress
<1>7. Results'
  BY <1>1 DEF AdminIInv, Results, Reported
<1>8. Steady'
  BY <1>1, <1>2, <1>3 DEF AdminIInv, Steady
<1> QED
  BY <1>5, <1>6, <1>7, <1>8 DEF AdminIInv

\* The trigger's result is written into its row, beside the address it went to.
LEMMA EndMove ==
  ASSUME AdminIInv, NEW l \in Logs, NEW code \in Codes, Ends(l, code),
         trig[l] \in {"route", "wait"}, UNCHANGED <<call, received, callbacks, far>>,
         IF route[l].address = Here THEN far[l] = "none" ELSE call[l] = "unsent",
         route[l].address = Nowhere => far[l] = "none",
         code = Success =>
           IF route[l].address = Here THEN call[l] = "accepted" ELSE far[l] # "none",
         steady' = steady \ {l}
  PROVE  AdminIInv'
<1>1. /\ row' \in [Logs -> Row] /\ \A k \in Logs : k # l => row'[k] = row[k]
      /\ row'[l].trigger = code /\ row'[l].address = route[l].address
      /\ row'[l].exec = row[l].exec
      /\ trig' = [trig EXCEPT ![l] = "done"] /\ trig' \in [Logs -> Trigger]
      /\ route' \in [Logs -> Route] /\ \A k \in Logs : k # l => route'[k] = route[k]
      /\ route'[l].pc = "none" /\ route'[l].address = Nowhere /\ route'[l].strategy = "none"
  BY EndsIs DEF AdminIInv
<1>2. trig \in [Logs -> Trigger]
  BY DEF AdminIInv, AdminTypeOK
<1>3. AdminTypeOK'
  BY <1>1 DEF AdminIInv, AdminTypeOK
<1>4. Stages'
  BY <1>1, <1>2 DEF AdminIInv, Stages
<1>5. OneAddress'
  BY <1>1, <1>2 DEF AdminIInv, OneAddress
<1>6. Results'
  <2>1. \A k \in Logs : row'[k].exec = row[k].exec
    BY <1>1
  <2> QED
    BY <2>1 DEF AdminIInv, Results, Reported
<1>7. Steady'
  BY <1>1, <1>2 DEF AdminIInv, Steady
<1> QED
  BY <1>3, <1>4, <1>5, <1>6, <1>7 DEF AdminIInv

\* Each way a trigger comes to its result: no address; a request that did not arrive; an
\* answer; no answer.
LEMMA InvEnds ==
  ASSUME AdminIInv, NEW l \in Logs,
         NoAddress(l) \/ PostRunFails(l) \/ RunAnswered(l) \/ RunUnanswered(l)
  PROVE  AdminIInv'
<1>1. UNCHANGED <<call, received, callbacks, far>>
  BY DEF NoAddress, PostRunFails, RunAnswered, RunUnanswered, vars, triggerKeeps
<1>2. Fail \in Codes /\ Fail # Success /\ Success \in Codes
  BY DEF Codes, Fail, Success
<1>3. trig[l] = "route" => call[l] = "unsent" /\ far[l] = "none"
  BY DEF AdminIInv, Stages
<1>4. trig[l] = "wait" => /\ route[l].pc = "chosen" /\ route[l].address \in Addresses
                          /\ IF route[l].address = Here THEN call[l] # "unsent" /\ far[l] = "none"
                             ELSE call[l] = "unsent" /\ far[l] # "none"
  BY DEF AdminIInv, Stages, OneAddress
<1>5. trig[l] # "route" \/ route[l].pc = "chosen" => steady = steady \ {l}
  BY DEF AdminIInv, Steady
<1>6. CASE NoAddress(l)
  BY <1>1, <1>2, <1>3, <1>6, EndMove DEF NoAddress
<1>7. CASE PostRunFails(l)
  BY <1>1, <1>2, <1>3, <1>5, <1>7, EndMove DEF PostRunFails, Posting, RunFailed
<1>8. CASE RunUnanswered(l)
  BY <1>1, <1>2, <1>4, <1>5, <1>8, EndMove DEF RunUnanswered, RunFailed
<1>9. CASE RunAnswered(l)
  <2>1. /\ trig[l] = "wait" /\ Ends(l, Answer(l)) /\ Answer(l) # "NONE" /\ steady' = steady
    BY <1>9 DEF RunAnswered
  <2>2. Answer(l) \in Codes
    BY <1>2, <2>1 DEF Answer
  <2>3. Answer(l) = Success =>
          IF route[l].address = Here THEN call[l] = "accepted" ELSE far[l] # "none"
    BY <1>2, <1>4, <2>1 DEF Answer, Success
  <2> QED
    BY <1>1, <1>4, <1>5, <2>1, <2>2, <2>3, EndMove
<1> QED
  BY <1>6, <1>7, <1>8, <1>9

\* The request arrives at the executor Here, that has seen none of this trigger.
LEMMA InvPostHere ==
  ASSUME AdminIInv, TypeOK, NEW l \in Logs, PostRunHere(l)
  PROVE  AdminIInv'
<1>1. /\ trig[l] = "route" /\ route[l].pc = "chosen" /\ route[l].address = Here
      /\ trig' = [trig EXCEPT ![l] = "wait"] /\ trig \in [Logs -> Trigger]
      /\ UNCHANGED <<callbacks, far, route, row, steady>>
  BY DEF PostRunHere, Posting, triggerKeeps, AdminIInv, AdminTypeOK
<1>2. /\ received' = received /\ call[l] = "unsent" /\ DOMAIN call = Logs
      /\ call' = [call EXCEPT ![l] = "refused"] \/ call' = [call EXCEPT ![l] = "started"]
  BY DEF PostRunHere, RunRefuse, RunStartThread, Arrives, runKeeps, TypeOK
<1>10. /\ call'[l] \in {"refused", "started"}
       /\ \A k \in Logs : k # l => call'[k] = call[k]
  BY <1>2
<1>3. far[l] = "none"
  BY <1>1 DEF AdminIInv, Stages
<1>4. trig' \in [Logs -> Trigger]
  BY <1>1 DEF Trigger
<1>5. AdminTypeOK'
  BY <1>1, <1>4 DEF AdminIInv, AdminTypeOK
<1>6. Stages'
  BY <1>1, <1>10 DEF AdminIInv, Stages
<1>7. OneAddress'
  BY <1>1, <1>3, <1>10 DEF AdminIInv, OneAddress, Stages
<1>8. Results'
  <2>1. \A k \in Logs : call[k] = "accepted" <=> call'[k] = "accepted"
    BY <1>2
  <2>2. \A c \in callbacks : c.log \in Logs
    BY DEF AdminIInv, AdminTypeOK, Callback
  <2> QED
    BY <1>1, <1>2, <2>1, <2>2 DEF AdminIInv, Results, Reported
<1>9. Steady'
  BY <1>1 DEF AdminIInv, Steady
<1> QED
  BY <1>5, <1>6, <1>7, <1>8, <1>9 DEF AdminIInv

\* What has been reported of a request is a result, of one that some executor took.
LEMMA ReportedIs ==
  ASSUME AdminIInv, NEW l \in Logs
  PROVE  /\ far[l] # "none" => call[l] = "unsent"
         /\ \A code \in Codes : Reported(l, code) => call[l] = "accepted" \/ far[l] = code
         /\ "none" \notin Codes /\ "accepted" \notin Codes /\ "NONE" \notin Codes
<1>1. "none" \notin Codes /\ "accepted" \notin Codes /\ "NONE" \notin Codes
  BY DEF Codes, Success, Fail
<1>2. trig[l] \in Trigger
  BY DEF AdminIInv, AdminTypeOK
<1>3. far[l] # "none" => call[l] = "unsent"
  BY <1>2 DEF AdminIInv, Stages, OneAddress, Trigger
<1> QED
  BY <1>1, <1>3 DEF Reported

\* The results stay those reported when an executor elsewhere takes a request or reports on it:
\* there was none of it before.
LEMMA FarMove ==
  ASSUME AdminIInv, NEW l \in Logs, NEW f, far' = [far EXCEPT ![l] = f], far[l] \notin Codes,
         call[l] # "accepted", UNCHANGED <<call, received>>
  PROVE  /\ \A c \in callbacks : Reported(c.log, c.code)'
         /\ \A k \in Logs : row[k].exec # "NONE" => Reported(k, row[k].exec) /\ row[k].exec \in Codes /\ k # l
<1>1. DOMAIN far = Logs
  BY DEF AdminIInv, AdminTypeOK
<1>2. \A k \in Logs, code \in Codes : Reported(k, code) => k # l /\ Reported(k, code)'
  BY <1>1 DEF Reported
<1>3. \A c \in callbacks : c.log \in Logs /\ c.code \in Codes /\ Reported(c.log, c.code)
  BY DEF AdminIInv, AdminTypeOK, Callback, Results
<1>4. \A k \in Logs : row[k].exec # "NONE" => Reported(k, row[k].exec) /\ row[k].exec \in Codes
  BY RowType DEF AdminIInv, AdminTypeOK, Results
<1>5. \A c \in callbacks : Reported(c.log, c.code)'
  <2> SUFFICES ASSUME NEW c \in callbacks PROVE Reported(c.log, c.code)'
    OBVIOUS
  <2> QED
    BY <1>2, <1>3
<1> QED
  BY <1>2, <1>4, <1>5

LEMMA InvPostFar ==
  ASSUME AdminIInv, NEW l \in Logs, PostRunFar(l)
  PROVE  AdminIInv'
<1>1. /\ trig[l] = "route" /\ route[l].pc = "chosen" /\ route[l].address # Here
      /\ trig' = [trig EXCEPT ![l] = "wait"] /\ trig \in [Logs -> Trigger]
      /\ far' = [far EXCEPT ![l] = "accepted"] /\ DOMAIN far = Logs
      /\ UNCHANGED <<call, received, callbacks, route, row, steady>>
  BY DEF PostRunFar, Posting, vars, AdminIInv, AdminTypeOK
<1>2. far[l] = "none" /\ call[l] = "unsent"
  BY <1>1 DEF AdminIInv, Stages
<1>3. trig' \in [Logs -> Trigger] /\ far' \in [Logs -> {"none", "accepted"} \cup Codes]
  BY <1>1 DEF Trigger, AdminIInv, AdminTypeOK
<1>4. AdminTypeOK'
  BY <1>1, <1>3 DEF AdminIInv, AdminTypeOK
<1>5. Stages'
  BY <1>1 DEF AdminIInv, Stages
<1>6. OneAddress'
  BY <1>1, <1>2 DEF AdminIInv, OneAddress, Stages
<1>7. Results'
  <2>1. /\ \A c \in callbacks : Reported(c.log, c.code)'
        /\ \A k \in Logs : row[k].exec # "NONE" => Reported(k, row[k].exec) /\ k # l
    <3>1. far[l] \notin Codes /\ call[l] # "accepted"
      BY <1>2, ReportedIs
    <3> QED
      BY <1>1, <3>1, FarMove
  <2> QED
    BY <1>1, <2>1 DEF Results, Reported
<1>8. Steady'
  BY <1>1 DEF AdminIInv, Steady
<1> QED
  BY <1>4, <1>5, <1>6, <1>7, <1>8 DEF AdminIInv

LEMMA InvFarReports ==
  ASSUME AdminIInv, NEW l \in Logs, FarReports(l)
  PROVE  AdminIInv'
<1>1. PICK code \in Codes : /\ far' = [far EXCEPT ![l] = code]
                           /\ callbacks' = callbacks \cup {[log |-> l, code |-> code]}
  BY DEF FarReports
<1>2. /\ far[l] = "accepted" /\ DOMAIN far = Logs
      /\ UNCHANGED <<call, received, trig, route, row, steady>>
  BY DEF FarReports, vars, AdminIInv, AdminTypeOK
<1>3. far[l] \notin Codes /\ call[l] = "unsent" /\ code # "none"
  BY <1>2, ReportedIs
<1>4. AdminTypeOK'
  <2>1. callbacks' \subseteq Callback
    BY <1>1 DEF AdminIInv, AdminTypeOK, Callback
  <2> QED
    BY <1>1, <1>2, <2>1 DEF AdminIInv, AdminTypeOK
<1>5. Stages' /\ OneAddress'
  BY <1>1, <1>2, <1>3 DEF AdminIInv, Stages, OneAddress
<1>6. Results'
  <2>1. /\ \A c \in callbacks : Reported(c.log, c.code)'
        /\ \A k \in Logs : row[k].exec # "NONE" => Reported(k, row[k].exec) /\ k # l
    BY <1>1, <1>2, <1>3, FarMove
  <2>2. \A c \in callbacks' \ callbacks : c.log = l /\ c.code = code
    BY <1>1
  <2>3. \A c \in callbacks' : Reported(c.log, c.code)'
    <3> SUFFICES ASSUME NEW c \in callbacks', c \notin callbacks PROVE Reported(c.log, c.code)'
      BY <2>1
    <3> QED
      BY <1>1, <1>2, <1>3, <2>2 DEF Reported
  <2> QED
    BY <1>1, <1>2, <2>1, <2>3 DEF Results, Reported
<1>7. Steady'
  BY <1>2 DEF AdminIInv, Steady
<1> QED
  BY <1>4, <1>5, <1>6, <1>7 DEF AdminIInv

LEMMA InvAdminCallback ==
  ASSUME AdminIInv, NEW c \in callbacks, AdminCallback(c)
  PROVE  AdminIInv'
<1>1. /\ UNCHANGED <<call, received, trig, route, far, steady>>
      /\ callbacks' = callbacks \ {c}
      /\ row' = IF row[c.log].exec = "NONE" THEN [row EXCEPT ![c.log].exec = c.code] ELSE row
  BY DEF AdminCallback, vars
<1>2. c.log \in Logs /\ c.code \in Codes /\ Reported(c.log, c.code) /\ row \in [Logs -> Row]
  BY DEF AdminIInv, AdminTypeOK, Callback, Results
<1>3. \/ row' = row
      \/ row' = [row EXCEPT ![c.log] = [row[c.log] EXCEPT !.exec = c.code]]
  BY <1>1
<1>4. /\ [row[c.log] EXCEPT !.exec = c.code] \in Row
      /\ [row[c.log] EXCEPT !.exec = c.code].exec = c.code
      /\ [row[c.log] EXCEPT !.exec = c.code].trigger = row[c.log].trigger
      /\ [row[c.log] EXCEPT !.exec = c.code].address = row[c.log].address
  BY <1>2 DEF Row
<1>5. /\ row' \in [Logs -> Row]
      /\ \A l \in Logs : /\ row'[l].trigger = row[l].trigger /\ row'[l].address = row[l].address
                         /\ (row'[l].exec = row[l].exec \/ (l = c.log /\ row'[l].exec = c.code))
  BY <1>2, <1>3, <1>4
<1>6. AdminTypeOK'
  BY <1>1, <1>5 DEF AdminIInv, AdminTypeOK
<1>7. Stages' /\ OneAddress'
  BY <1>1, <1>5 DEF AdminIInv, Stages, OneAddress
<1>8. Results'
  BY <1>1, <1>2, <1>5 DEF AdminIInv, Results, Reported
<1>9. Steady'
  BY <1>1 DEF AdminIInv, Steady
<1> QED
  BY <1>6, <1>7, <1>8, <1>9 DEF AdminIInv

-----------------------------------------------------------------------------
(* The invariant: the executor's threads and its process *)

\* A result that arrives at the admin is the one that the executor has reported.
LEMMA ArrivedIs ==
  ASSUME ExecutorIInv', NEW l \in Logs, received'[l] # << >>
  PROVE  Arrived(l) \in Callback /\ Arrived(l).log = l /\ received'[l] = <<Arrived(l).code>>
<1>1. PICK code \in Codes : received'[l] = <<code>>
  BY DEF ExecutorIInv, OneResult
<1>2. Len(<<code>>) = 1 /\ <<code>>[1] = code
  OBVIOUS
<1>3. Arrived(l) = [log |-> l, code |-> code]
  BY <1>1, <1>2 DEF Arrived
<1> QED
  BY <1>1, <1>3 DEF Callback

LEMMA InvExecutor ==
  ASSUME AdminIInv, ExecutorIInv, ExecutorIInv', UNCHANGED <<route, trig, row, far>>,
         steady' \subseteq steady,
         (\E k \in Logs : RunAddJobQueue(k) \/ HandlerEnds(k) \/ JobThread(k))
           \/ CallbackThread \/ Stop \/ Restart,
         \A c \in callbacks' : \/ c \in callbacks
                             \/ \E l \in Logs : received'[l] # received[l] /\ c = Arrived(l)
  PROVE  AdminIInv'
<1>1. \A l \in Logs :
         /\ call[l] = "unsent" <=> call'[l] = "unsent"
         /\ call[l] = "accepted" => call'[l] = "accepted"
         /\ call'[l] = "accepted" /\ call[l] # "accepted" => call[l] = "started"
         /\ \/ received'[l] = received[l]
            \/ received[l] = << >> /\ \E code \in Codes : received'[l] = <<code>>
  BY ExecutorMoves
<1>2. \A c \in callbacks' : c \in callbacks \/ (c \in Callback /\ received'[c.log] = <<c.code>>)
  <2> SUFFICES ASSUME NEW l \in Logs, received'[l] # received[l]
               PROVE  Arrived(l) \in Callback /\ received'[Arrived(l).log] = <<Arrived(l).code>>
    OBVIOUS
  <2>1. received'[l] # << >>
    BY <1>1
  <2> QED
    BY <2>1, ArrivedIs
<1>3. AdminTypeOK'
  BY <1>2 DEF AdminIInv, AdminTypeOK
<1>4. Stages' /\ OneAddress'
  BY <1>1 DEF AdminIInv, Stages, OneAddress
<1>5. \A l \in Logs : \A code \in Codes : Reported(l, code) => Reported(l, code)'
  <2> SUFFICES ASSUME NEW l \in Logs, NEW code \in Codes, Reported(l, code)
               PROVE  Reported(l, code)'
    OBVIOUS
  <2>1. CASE call[l] = "accepted"
    <3>1. received[l] = <<code>> /\ received[l] # << >>
      BY <2>1 DEF Reported
    <3> QED
      BY <1>1, <2>1, <3>1 DEF Reported
  <2>2. CASE call[l] # "accepted"
    BY <1>1, <2>2, ReportedIs DEF Reported
  <2> QED
    BY <2>1, <2>2
<1>6. Results'
  <2>1. \A c \in callbacks : c.log \in Logs /\ c.code \in Codes /\ Reported(c.log, c.code)
    BY DEF AdminIInv, AdminTypeOK, Callback, Results
  <2>2. \A c \in callbacks' : Reported(c.log, c.code)'
    <3> SUFFICES ASSUME NEW c \in callbacks' PROVE Reported(c.log, c.code)'
      OBVIOUS
    <3>1. CASE c \in callbacks
      BY <1>5, <2>1, <3>1
    <3>2. CASE c \in Callback /\ received'[c.log] = <<c.code>>
      <4>1. c.log \in Logs /\ received'[c.log] # << >>
        BY <3>2 DEF Callback
      <4>2. call'[c.log] = "accepted"
        BY <4>1 DEF ExecutorIInv, NotYet, Unreported
      <4> QED
        BY <3>2, <4>2 DEF Reported
    <3> QED
      BY <1>2, <3>1, <3>2
  <2>3. \A l \in Logs : row[l].exec # "NONE" => row[l].exec \in Codes /\ Reported(l, row[l].exec)
    BY RowType DEF AdminIInv, AdminTypeOK, Results
  <2>4. \A l \in Logs : row[l].exec # "NONE" => Reported(l, row[l].exec)'
    BY <1>5, <2>3
  <2> QED
    BY <2>2, <2>4 DEF Results
<1>7. Steady'
  BY DEF AdminIInv, Steady
<1> QED
  BY <1>3, <1>4, <1>6, <1>7 DEF AdminIInv

-----------------------------------------------------------------------------
(* The invariant of the whole *)

LEMMA AdminInit == DispatchInit => AdminIInv
<1> SUFFICES ASSUME DispatchInit PROVE AdminIInv
  OBVIOUS
<1>1. /\ route = [l \in Logs |-> NoRoute] /\ trig = [l \in Logs |-> "none"]
      /\ row = [l \in Logs |-> [trigger |-> "NONE", address |-> Nowhere, exec |-> "NONE"]]
      /\ callbacks = {} /\ far = [l \in Logs |-> "none"] /\ steady = {}
      /\ call = [l \in Logs |-> "unsent"]
  BY DEF DispatchInit, RouteInit, Init
<1>2. AdminTypeOK
  BY <1>1, RouteType DEF AdminTypeOK, Trigger, Row
<1>3. Stages /\ OneAddress
  BY <1>1, RouteType DEF Stages, OneAddress, Success
<1>4. Results
  BY <1>1 DEF Results
<1>5. Steady
  BY <1>1, RouteType DEF Steady
<1> QED
  BY <1>2, <1>3, <1>4, <1>5 DEF AdminIInv

LEMMA AdminNext ==
  ASSUME AdminIInv, ExecutorIInv, [DispatchNext]_dispatchVars
  PROVE  AdminIInv'
<1>1. ExecutorIInv'
  BY ExecutorStep, InvNext
<1>2. CASE UNCHANGED dispatchVars
  BY <1>2 DEF dispatchVars, vars, adminVars, AdminIInv, AdminTypeOK, Stages, OneAddress, Results,
              Reported, Steady
<1>3. ASSUME NEW l \in Logs, Start(l) \/ DoTrigger(l) \/ FarReports(l)
      PROVE  AdminIInv'
  BY <1>3, InvStart, InvByList, InvBeats, InvEnds, InvPostHere, InvPostFar, InvFarReports
  DEF DoTrigger, ExecutorIInv
<1>4. ASSUME NEW l \in Logs, Runs(l)
      PROVE  AdminIInv'
  BY <1>1, <1>4, InvExecutor DEF Runs, adminVars
<1>5. CASE Reports
  <2>1. \A c \in callbacks' : \/ c \in callbacks
                            \/ \E l \in Logs : received'[l] # received[l] /\ c = Arrived(l)
    BY <1>5 DEF Reports
  <2> QED
    BY <1>1, <1>5, <2>1, InvExecutor DEF Reports
<1>6. CASE Stops
  BY <1>1, <1>6, InvExecutor DEF Stops, adminVars
<1>7. CASE \E c \in callbacks : AdminCallback(c)
  BY <1>7, InvAdminCallback
<1> QED
  BY <1>2, <1>3, <1>4, <1>5, <1>6, <1>7 DEF DispatchNext

\* The states the admin and its executors can be in: a request goes to the one address its row
\* will name, and every result on its way is one that the executor there has reported.
THEOREM DispatchInvariant == DispatchSpec => []DispatchIInv
<1>1. ExecutorIInv /\ AdminIInv <=> DispatchIInv
  BY DEF AdminIInv, AdminTypeOK, DispatchIInv, DispatchTypeOK, ExecutorIInv
<1> QED
  BY <1>1, AdminInit, AdminNext, ExecutorWithin, ExecutorInvariant, PTL DEF DispatchSpec

\* What the properties are in it.
LEMMA DispatchImplies ==
  ASSUME DispatchIInv
  PROVE  DispatchTypeOK /\ RowTrue /\ FailOverFinds
<1>1. AdminIInv /\ ExecutorIInv /\ DispatchTypeOK
  BY DEF AdminIInv, AdminTypeOK, DispatchIInv, DispatchTypeOK
<1>2. FailOverFinds
  BY <1>1 DEF AdminIInv, Steady, FailOverFinds
<1>3. ASSUME NEW l \in Logs, row[l].exec # "NONE"
      PROVE  IF call[l] = "accepted"
             THEN row[l].exec = IF body[l] = Success /\ l \notin overdue THEN Success ELSE Fail
             ELSE far[l] = row[l].exec
  <2>1. row[l].exec \in Codes /\ Reported(l, row[l].exec)
    BY <1>1, <1>3, RowType DEF AdminIInv, AdminTypeOK, Results
  <2>2. CASE call[l] = "accepted"
    <3>1. received[l] = <<row[l].exec>>
      BY <2>1, <2>2 DEF Reported
    <3>2. Truth(l, row[l].exec)
      <4>1. 1 \in DOMAIN received[l] /\ received[l][1] = row[l].exec
        BY <3>1
      <4> QED
        BY <1>1, <4>1 DEF ExecutorIInv, AllTrue, ReportsTrue, Truth
    <3> QED
      BY <2>1, <2>2, <3>2 DEF Truth, Codes, Success, Fail
  <2> QED
    BY <2>1, <2>2 DEF Reported
<1>4. RowTrue
  BY <1>1, <1>3 DEF AdminIInv, OneAddress, RowTrue
<1> QED
  BY <1>1, <1>2, <1>4

-----------------------------------------------------------------------------
(* ExecutorRole, of all executors together *)

TakenByAny == {l \in Logs : call[l] = "accepted" \/ far[l] # "none"}
ReportsOfAny == [l \in Logs |-> received[l] \o IF far[l] \in Codes THEN <<far[l]>> ELSE << >>]

\* What has been reported of a log, by the executor Here or by one elsewhere.
LEMMA ReportsAre ==
  ASSUME DispatchIInv, NEW l \in Logs
  PROVE  /\ far[l] # "none" => received[l] = << >> /\ call[l] = "unsent"
         /\ far[l] \notin Codes => ReportsOfAny[l] = received[l]
         /\ "none" \notin Codes /\ "accepted" \notin Codes
<1>1. AdminIInv /\ ExecutorIInv /\ received[l] \in Seq(Codes)
  BY ResultsAre DEF AdminIInv, AdminTypeOK, DispatchIInv, DispatchTypeOK
<1>2. far[l] # "none" => received[l] = << >> /\ call[l] = "unsent"
  BY <1>1, ReportedIs DEF ExecutorIInv, NotYet, Unreported
<1>3. received[l] \o << >> = received[l]
  BY <1>1
<1>4. "none" \notin Codes /\ "accepted" \notin Codes
  BY DEF Codes, Success, Fail
<1> QED
  BY <1>2, <1>3, <1>4 DEF ReportsOfAny

LEMMA SystemInit == DispatchInit => System!Init
<1> SUFFICES ASSUME DispatchInit PROVE TakenByAny = {} /\ ReportsOfAny = [l \in Logs |-> << >>]
  BY DEF System!Init, TakenByAny, ReportsOfAny
<1>1. /\ call = [l \in Logs |-> "unsent"] /\ far = [l \in Logs |-> "none"]
      /\ received = [l \in Logs |-> << >>]
  BY DEF DispatchInit, Init
<1>2. "none" \notin Codes /\ << >> \o << >> = << >>
  BY DEF Codes, Success, Fail
<1> QED
  BY <1>1, <1>2 DEF TakenByAny, ReportsOfAny

\* A step of the executor Here: what it does in its own role it does in the role of all.
LEMMA SystemHere ==
  ASSUME DispatchIInv, DispatchIInv', [Next]_vars, UNCHANGED far
  PROVE  System!Next \/ UNCHANGED <<TakenByAny, ReportsOfAny>>
<1>1. ExecutorIInv /\ ExecutorIInv'
  BY DEF DispatchIInv
<1>2. Role!Next \/ UNCHANGED <<Accepted, received>>
  BY <1>1, RoleNext
<1>3. CASE UNCHANGED <<Accepted, received>>
  <2>1. TakenByAny = Accepted \cup {l \in Logs : far[l] # "none"}
    BY DEF TakenByAny, Accepted
  <2> QED
    BY <1>3, <2>1 DEF TakenByAny, Accepted, ReportsOfAny
<1>4. ASSUME NEW l \in Logs, Role!Take(l)
      PROVE  System!Next
  <2>1. /\ l \notin Accepted /\ Accepted' = Accepted \cup {l} /\ received' = received
    BY <1>4 DEF Role!Take, Accepted
  <2>2. far[l] = "none"
    <3>1. far'[l] # "none" => call'[l] = "unsent"
      <4>1. trig'[l] \in Trigger
        BY DEF DispatchIInv, DispatchTypeOK
      <4> QED
        BY <4>1 DEF DispatchIInv, Stages, OneAddress, Trigger
    <3>2. call'[l] = "accepted"
      BY <2>1 DEF Accepted
    <3> QED
      BY <3>1, <3>2
  <2>3. l \notin TakenByAny /\ TakenByAny' = TakenByAny \cup {l} /\ ReportsOfAny' = ReportsOfAny
    BY <2>1, <2>2 DEF TakenByAny, Accepted, ReportsOfAny
  <2> QED
    BY <2>3 DEF System!Next, System!Take, TakenByAny, ReportsOfAny
<1>5. ASSUME NEW l \in Logs, NEW code \in Codes, Role!Report(l, code)
      PROVE  System!Next
  <2>1. /\ l \in Accepted /\ Accepted' = Accepted /\ received[l] = << >>
        /\ received' = [received EXCEPT ![l] = <<code>>]
        /\ DOMAIN received = Logs
    BY <1>1, <1>5 DEF Role!Report, Accepted, ExecutorIInv, TypeOK
  <2>2. far[l] = "none" /\ "none" \notin Codes
    <3>1. call[l] = "accepted"
      BY <2>1 DEF Accepted
    <3> QED
      BY <3>1, ReportsAre
  <2>3. l \in TakenByAny /\ TakenByAny' = TakenByAny
    BY <2>1 DEF TakenByAny, Accepted
  <2>4. ReportsOfAny[l] = << >> /\ ReportsOfAny'[l] = <<code>>
    <3>1. << >> \o << >> = << >> /\ <<code>> \o << >> = <<code>>
      OBVIOUS
    <3> QED
      BY <2>1, <2>2, <3>1 DEF ReportsOfAny
  <2>5. ReportsOfAny' = [ReportsOfAny EXCEPT ![l] = <<code>>]
    BY <2>1, <2>4 DEF ReportsOfAny
  <2> QED
    BY <2>3, <2>4, <2>5 DEF System!Next, System!Report, TakenByAny, ReportsOfAny
<1> QED
  BY <1>2, <1>3, <1>4, <1>5 DEF Role!Next

LEMMA SystemNext ==
  ASSUME DispatchIInv, DispatchIInv', [DispatchNext]_dispatchVars
  PROVE  System!Next \/ UNCHANGED <<TakenByAny, ReportsOfAny>>
<1>1. CASE UNCHANGED far
  BY <1>1, SystemHere, ExecutorStep
<1>2. ASSUME NEW l \in Logs, PostRunFar(l)
      PROVE  System!Next
  <2>1. /\ trig[l] = "route" /\ UNCHANGED <<call, received>>
        /\ far' = [far EXCEPT ![l] = "accepted"] /\ DOMAIN far = Logs
    BY <1>2 DEF PostRunFar, Posting, vars, DispatchIInv, DispatchTypeOK
  <2>2. call[l] = "unsent" /\ far[l] = "none" /\ "accepted" \notin Codes /\ "none" \notin Codes
    BY <2>1 DEF DispatchIInv, Stages, Codes, Success, Fail
  <2>3. l \notin TakenByAny /\ TakenByAny' = TakenByAny \cup {l} /\ ReportsOfAny' = ReportsOfAny
    BY <2>1, <2>2 DEF TakenByAny, ReportsOfAny
  <2> QED
    BY <2>3 DEF System!Next, System!Take, TakenByAny, ReportsOfAny
<1>3. ASSUME NEW l \in Logs, FarReports(l)
      PROVE  System!Next
  <2>1. PICK code \in Codes : far' = [far EXCEPT ![l] = code]
    BY <1>3 DEF FarReports
  <2>2. far[l] = "accepted" /\ UNCHANGED <<call, received>> /\ DOMAIN far = Logs
    BY <1>3 DEF FarReports, vars, DispatchIInv, DispatchTypeOK
  <2>3. "accepted" \notin Codes /\ code # "none"
    BY DEF Codes, Success, Fail
  <2>4. l \in TakenByAny /\ TakenByAny' = TakenByAny
    BY <2>1, <2>2, <2>3 DEF TakenByAny
  <2>5. ReportsOfAny[l] = << >> /\ ReportsOfAny'[l] = <<code>>
    <3>1. received[l] = << >> /\ ReportsOfAny[l] = << >>
      BY <2>2, <2>3, ReportsAre
    <3>2. << >> \o <<code>> = <<code>>
      OBVIOUS
    <3>3. received'[l] = << >> /\ far'[l] = code
      BY <2>1, <2>2, <3>1
    <3>4. ReportsOfAny'[l] = received'[l] \o <<code>>
      BY <3>3 DEF ReportsOfAny
    <3> QED
      BY <3>1, <3>2, <3>3, <3>4
  <2>6. ReportsOfAny' = [ReportsOfAny EXCEPT ![l] = <<code>>]
    BY <2>1, <2>2, <2>5 DEF ReportsOfAny
  <2> QED
    BY <2>4, <2>5, <2>6 DEF System!Next, System!Report, TakenByAny, ReportsOfAny
<1> QED
  BY <1>1, <1>2, <1>3
  DEF DispatchNext, Start, triggerKeeps, DoTrigger, ChooseByList, Beat, IdleBeat, NoAddress,
      PostRunHere, PostRunFails, RunAnswered, RunUnanswered, Runs, Reports, Stops, AdminCallback,
      dispatchVars

-----------------------------------------------------------------------------
(* The theorems *)

\* Every variable of the composition keeps its type.
THEOREM DispatchTyped == DispatchSpec => []DispatchTypeOK
BY DispatchInvariant, DispatchImplies, PTL

\* JobTrigger.updateTriggerResultById and AdminBizImpl.callback: the row of job_log says what
\* happened to its run, whatever the losses, the strategy and the deaths of the executor.
THEOREM RowIsTrue == DispatchSpec => []RowTrue
BY DispatchInvariant, DispatchImplies, PTL

\* ExecRouteFailOver: the loop over the addresses does not miss one that is there.
THEOREM FailOverFindsIt == DispatchSpec => []FailOverFinds
BY DispatchInvariant, DispatchImplies, PTL

\* What Executor promises on its own it keeps behind the admin's triggers.
THEOREM ExecutorKeepsItsPromises ==
  DispatchSpec => []ReportsTrue /\ []DrainedAtEnd /\ ImplementsRole
BY ExecutorWithin, ReportsAreTrue, StopDrains, ExecutorImplementsRole, PTL

\* Whatever the strategy, the losses and the restarts of an executor, a request is taken by
\* one executor at most and reported on at most once: to the admin all of them are one.
THEOREM DispatchImplementsRole == DispatchSpec => ImplementsSystemRole
<1>1. DispatchIInv /\ DispatchIInv' /\ [DispatchNext]_dispatchVars
        => [System!Next]_<<{l \in Logs : call[l] = "accepted" \/ far[l] # "none"},
                           [l \in Logs |-> received[l] \o IF far[l] \in Codes THEN <<far[l]>> ELSE << >>]>>
  BY SystemNext DEF TakenByAny, ReportsOfAny
<1> QED
  BY <1>1, SystemInit, DispatchInvariant, PTL DEF DispatchSpec, ImplementsSystemRole, System!Spec
=============================================================================
